---------------------------- MODULE AesCbcProofs ----------------------------
(***************************************************************************)
(* CBC in place is correct for messages of any length and every key: the   *)
(* xor of blocks, the key schedules and the rounds of aes.c are reasoned   *)
(* about from the bits up. Of the generated tables nothing is used but     *)
(* TablesAssumption and StandardAssumption, evaluated for every byte.      *)
(***************************************************************************)
EXTENDS AesCbc, SequenceTheorems, NaturalsInduction, WellFoundedInduction, TLAPS

------------------------------------------------------------------------------
(* Xor of bytes, bit by bit and then for both halves.                      *)
Nibble == 0..15

LEMMA BitType ==
  \A a, b \in Nibble, bit \in {1, 2, 4, 8} : XorBit(a, b, bit) \in {0, bit}
<1> SUFFICES ASSUME NEW a \in Nibble, NEW b \in Nibble, NEW bit \in {1, 2, 4, 8}
             PROVE  XorBit(a, b, bit) \in {0, bit}
  OBVIOUS
<1>1. CASE bit = 1
  BY <1>1 DEF XorBit, Nibble
<1>2. CASE bit = 2
  BY <1>2 DEF XorBit, Nibble
<1>3. CASE bit = 4
  BY <1>3 DEF XorBit, Nibble
<1>4. CASE bit = 8
  BY <1>4 DEF XorBit, Nibble
<1> QED
  BY <1>1, <1>2, <1>3, <1>4

LEMMA HalfType == \A a, b \in Nibble : XorHalf[a][b] \in Nibble
<1> SUFFICES ASSUME NEW a \in Nibble, NEW b \in Nibble PROVE XorHalf[a][b] \in Nibble
  OBVIOUS
<1>1. XorHalf[a][b] = XorBit(a, b, 1) + XorBit(a, b, 2) + XorBit(a, b, 4) + XorBit(a, b, 8)
  BY DEF XorHalf, Nibble
<1>2. /\ XorBit(a, b, 1) \in {0, 1} /\ XorBit(a, b, 2) \in {0, 2}
      /\ XorBit(a, b, 4) \in {0, 4} /\ XorBit(a, b, 8) \in {0, 8}
  BY BitType
<1> QED
  BY <1>1, <1>2 DEF Nibble

(* A bit of a number. *)
Bit(a, bit) == (a \div bit) % 2

LEMMA BitOfBits ==
  ASSUME NEW p \in {0, 1}, NEW q \in {0, 1}, NEW r \in {0, 1}, NEW s \in {0, 1},
         NEW a, a = p + (2 * q) + (4 * r) + (8 * s)
  PROVE  Bit(a, 1) = p /\ Bit(a, 2) = q /\ Bit(a, 4) = r /\ Bit(a, 8) = s
BY DEF Bit

LEMMA SumOfBits ==
  ASSUME NEW a \in Nibble
  PROVE  /\ a = Bit(a, 1) + (2 * Bit(a, 2)) + (4 * Bit(a, 4)) + (8 * Bit(a, 8))
         /\ \A bit \in {1, 2, 4, 8} : Bit(a, bit) \in {0, 1}
BY DEF Bit, Nibble

LEMMA BitOfXor ==
  ASSUME NEW a \in Nibble, NEW b \in Nibble
  PROVE  \A bit \in {1, 2, 4, 8} : XorBit(a, b, bit) = bit * ((Bit(a, bit) + Bit(b, bit)) % 2)
BY DEF Bit, Nibble, XorBit

LEMMA HalfBits ==
  ASSUME NEW a \in Nibble, NEW b \in Nibble
  PROVE  \A bit \in {1, 2, 4, 8} :
           Bit(XorHalf[a][b], bit) = (Bit(a, bit) + Bit(b, bit)) % 2
<1> DEFINE x == XorHalf[a][b]
           sum(bit) == (Bit(a, bit) + Bit(b, bit)) % 2
<1>1. \A bit \in {1, 2, 4, 8} : sum(bit) \in {0, 1}
  BY SumOfBits
<1>2. x = XorBit(a, b, 1) + XorBit(a, b, 2) + XorBit(a, b, 4) + XorBit(a, b, 8)
  BY DEF XorHalf, Nibble
<1>3. \A bit \in {1, 2, 4, 8} : XorBit(a, b, bit) = bit * sum(bit)
  BY BitOfXor
<1> HIDE DEF x, sum
<1>4. /\ XorBit(a, b, 1) = sum(1) /\ XorBit(a, b, 2) = 2 * sum(2)
      /\ XorBit(a, b, 4) = 4 * sum(4) /\ XorBit(a, b, 8) = 8 * sum(8)
  BY <1>1, <1>3
<1>5. x = sum(1) + (2 * sum(2)) + (4 * sum(4)) + (8 * sum(8))
  BY <1>2, <1>4
<1>6. \A bit \in {1, 2, 4, 8} : Bit(x, bit) = sum(bit)
  BY <1>1, <1>5, BitOfBits
<1> QED
  BY <1>6 DEF x, sum

LEMMA SameBits ==
  ASSUME NEW a \in Nibble, NEW b \in Nibble,
         \A bit \in {1, 2, 4, 8} : Bit(a, bit) = Bit(b, bit)
  PROVE  a = b
<1>1. /\ Bit(a, 1) = Bit(b, 1) /\ Bit(a, 2) = Bit(b, 2)
      /\ Bit(a, 4) = Bit(b, 4) /\ Bit(a, 8) = Bit(b, 8)
  OBVIOUS
<1>2. a = Bit(a, 1) + (2 * Bit(a, 2)) + (4 * Bit(a, 4)) + (8 * Bit(a, 8))
  BY SumOfBits
<1>3. b = Bit(b, 1) + (2 * Bit(b, 2)) + (4 * Bit(b, 4)) + (8 * Bit(b, 8))
  BY SumOfBits
<1> QED
  BY <1>1, <1>2, <1>3

(* Xor undoes itself, 0 changes nothing, and four numbers may be added in  *)
(* pairs of any choice.                                                    *)
LEMMA HalfLaws ==
  /\ \A a \in Nibble : XorHalf[a][0] = a
  /\ \A a, b \in Nibble : XorHalf[a][b] = XorHalf[b][a] /\ XorHalf[XorHalf[a][b]][b] = a
  /\ \A a, b, c, d \in Nibble :
       XorHalf[XorHalf[a][b]][XorHalf[c][d]] = XorHalf[XorHalf[a][c]][XorHalf[b][d]]
<1> SUFFICES ASSUME NEW a \in Nibble, NEW b \in Nibble, NEW c \in Nibble, NEW d \in Nibble
             PROVE  /\ XorHalf[a][0] = a
                    /\ XorHalf[a][b] = XorHalf[b][a]
                    /\ XorHalf[XorHalf[a][b]][b] = a
                    /\ XorHalf[XorHalf[a][b]][XorHalf[c][d]]
                         = XorHalf[XorHalf[a][c]][XorHalf[b][d]]
  OBVIOUS
<1>1. 0 \in Nibble /\ \A bit \in {1, 2, 4, 8} : Bit(0, bit) = 0
  BY DEF Nibble, Bit
<1>2. \A bit \in {1, 2, 4, 8} :
        /\ Bit(a, bit) \in {0, 1} /\ Bit(b, bit) \in {0, 1}
        /\ Bit(c, bit) \in {0, 1} /\ Bit(d, bit) \in {0, 1}
  BY SumOfBits
<1>3. \A x, y \in Nibble :
        /\ XorHalf[x][y] \in Nibble
        /\ \A bit \in {1, 2, 4, 8} :
             Bit(XorHalf[x][y], bit) = (Bit(x, bit) + Bit(y, bit)) % 2
  BY HalfType, HalfBits
<1>4. XorHalf[a][0] = a
  <2>1. \A bit \in {1, 2, 4, 8} : Bit(XorHalf[a][0], bit) = Bit(a, bit)
    BY <1>1, <1>2, <1>3
  <2> QED
    BY <1>1, <1>3, <2>1, SameBits
<1>5. XorHalf[a][b] = XorHalf[b][a]
  <2>1. \A bit \in {1, 2, 4, 8} : Bit(XorHalf[a][b], bit) = Bit(XorHalf[b][a], bit)
    BY <1>2, <1>3
  <2> QED
    BY <1>3, <2>1, SameBits
<1>6. XorHalf[XorHalf[a][b]][b] = a
  <2>1. \A bit \in {1, 2, 4, 8} : Bit(XorHalf[XorHalf[a][b]][b], bit) = Bit(a, bit)
    <3> SUFFICES ASSUME NEW bit \in {1, 2, 4, 8}
                 PROVE  Bit(XorHalf[XorHalf[a][b]][b], bit) = Bit(a, bit)
      OBVIOUS
    <3>1. Bit(XorHalf[XorHalf[a][b]][b], bit)
            = (((Bit(a, bit) + Bit(b, bit)) % 2) + Bit(b, bit)) % 2
      BY <1>3
    <3> QED
      BY <1>2, <3>1
  <2> QED
    BY <1>3, <2>1, SameBits
<1>7. XorHalf[XorHalf[a][b]][XorHalf[c][d]] = XorHalf[XorHalf[a][c]][XorHalf[b][d]]
  <2> DEFINE left == XorHalf[XorHalf[a][b]][XorHalf[c][d]]
             right == XorHalf[XorHalf[a][c]][XorHalf[b][d]]
  <2>1. left \in Nibble /\ right \in Nibble
    BY <1>3
  <2>2. ASSUME NEW bit \in {1, 2, 4, 8} PROVE Bit(left, bit) = Bit(right, bit)
    <3>1. Bit(left, bit)
            = (((Bit(a, bit) + Bit(b, bit)) % 2) + ((Bit(c, bit) + Bit(d, bit)) % 2)) % 2
      BY <1>3
    <3>2. Bit(right, bit)
            = (((Bit(a, bit) + Bit(c, bit)) % 2) + ((Bit(b, bit) + Bit(d, bit)) % 2)) % 2
      BY <1>3
    <3> HIDE DEF left, right
    <3> QED
      BY <1>2, <3>1, <3>2
  <2> HIDE DEF left, right
  <2>3. left = right
    BY <2>1, <2>2, SameBits
  <2> QED
    BY <2>3 DEF left, right
<1> QED
  BY <1>4, <1>5, <1>6, <1>7

LEMMA HalfPairs ==
  ASSUME NEW a \in Nibble, NEW b \in Nibble, NEW c \in Nibble, NEW d \in Nibble
  PROVE  XorHalf[XorHalf[a][b]][XorHalf[c][d]] = XorHalf[XorHalf[a][c]][XorHalf[b][d]]
BY ONLY HalfLaws, a \in Nibble, b \in Nibble, c \in Nibble, d \in Nibble

LEMMA XorParts ==
  ASSUME NEW a \in Byte, NEW b \in Byte
  PROVE  /\ Xor(a, b) \in Byte
         /\ Xor(a, b) \div 16 = XorHalf[a \div 16][b \div 16]
         /\ Xor(a, b) % 16 = XorHalf[a % 16][b % 16]
<1> DEFINE h == XorHalf[a \div 16][b \div 16]  l == XorHalf[a % 16][b % 16]
<1>1. a \div 16 \in Nibble /\ b \div 16 \in Nibble /\ a % 16 \in Nibble /\ b % 16 \in Nibble
  BY DEF Byte, Nibble
<1>2. h \in Nibble /\ l \in Nibble
  BY <1>1, HalfType
<1>3. Xor(a, b) = 16 * h + l
  BY DEF Xor
<1> HIDE DEF h, l
<1>4. Xor(a, b) \in Byte /\ Xor(a, b) \div 16 = h /\ Xor(a, b) % 16 = l
  BY <1>2, <1>3 DEF Nibble, Byte
<1> QED
  BY <1>4 DEF h, l

LEMMA SameHalves ==
  ASSUME NEW a \in Byte, NEW b \in Byte, a \div 16 = b \div 16, a % 16 = b % 16
  PROVE  a = b
BY DEF Byte

LEMMA XorLaws ==
  /\ \A a \in Byte : Xor(a, 0) = a
  /\ \A a, b \in Byte : Xor(a, b) \in Byte /\ Xor(a, b) = Xor(b, a) /\ Xor(Xor(a, b), b) = a
  /\ \A a, b, c, d \in Byte : Xor(Xor(a, b), Xor(c, d)) = Xor(Xor(a, c), Xor(b, d))
<1> SUFFICES ASSUME NEW a \in Byte, NEW b \in Byte, NEW c \in Byte, NEW d \in Byte
             PROVE  /\ Xor(a, b) \in Byte
                    /\ Xor(a, 0) = a
                    /\ Xor(a, b) = Xor(b, a)
                    /\ Xor(Xor(a, b), b) = a
                    /\ Xor(Xor(a, b), Xor(c, d)) = Xor(Xor(a, c), Xor(b, d))
  OBVIOUS
<1>1. 0 \in Byte /\ 0 \div 16 = 0 /\ 0 % 16 = 0
  BY DEF Byte
<1>2. \A x \in Byte : x \div 16 \in Nibble /\ x % 16 \in Nibble
  BY DEF Byte, Nibble
<1>3. \A x, y \in Byte :
        /\ Xor(x, y) \in Byte
        /\ Xor(x, y) \div 16 = XorHalf[x \div 16][y \div 16]
        /\ Xor(x, y) % 16 = XorHalf[x % 16][y % 16]
  BY XorParts
<1>4. Xor(a, 0) = a
  <2>1. /\ Xor(a, 0) \in Byte
        /\ Xor(a, 0) \div 16 = XorHalf[a \div 16][0]
        /\ Xor(a, 0) % 16 = XorHalf[a % 16][0]
    BY <1>1, <1>3
  <2>2. Xor(a, 0) \div 16 = a \div 16 /\ Xor(a, 0) % 16 = a % 16
    BY <1>2, <2>1, HalfLaws
  <2> QED
    BY <2>1, <2>2, SameHalves
<1>5. Xor(a, b) = Xor(b, a)
  <2>1. Xor(a, b) \div 16 = Xor(b, a) \div 16 /\ Xor(a, b) % 16 = Xor(b, a) % 16
    BY <1>2, <1>3, HalfLaws
  <2> QED
    BY <1>3, <2>1, SameHalves
<1>6. Xor(Xor(a, b), b) = a
  <2>1. /\ Xor(Xor(a, b), b) \in Byte
        /\ Xor(Xor(a, b), b) \div 16 = XorHalf[XorHalf[a \div 16][b \div 16]][b \div 16]
        /\ Xor(Xor(a, b), b) % 16 = XorHalf[XorHalf[a % 16][b % 16]][b % 16]
    BY <1>3
  <2>2. XorHalf[XorHalf[a \div 16][b \div 16]][b \div 16] = a \div 16
    BY <1>2, HalfLaws
  <2>3. XorHalf[XorHalf[a % 16][b % 16]][b % 16] = a % 16
    BY <1>2, HalfLaws
  <2> QED
    BY <2>1, <2>2, <2>3, SameHalves
<1>7. Xor(Xor(a, b), Xor(c, d)) = Xor(Xor(a, c), Xor(b, d))
  <2> DEFINE left == Xor(Xor(a, b), Xor(c, d))
             right == Xor(Xor(a, c), Xor(b, d))
  <2>1. left \in Byte /\ right \in Byte
    BY <1>3
  <2>2. /\ left \div 16 = XorHalf[XorHalf[a \div 16][b \div 16]][XorHalf[c \div 16][d \div 16]]
        /\ right \div 16 = XorHalf[XorHalf[a \div 16][c \div 16]][XorHalf[b \div 16][d \div 16]]
    BY <1>3
  <2>3. /\ left % 16 = XorHalf[XorHalf[a % 16][b % 16]][XorHalf[c % 16][d % 16]]
        /\ right % 16 = XorHalf[XorHalf[a % 16][c % 16]][XorHalf[b % 16][d % 16]]
    BY <1>3
  <2> HIDE DEF left, right
  <2>4. left \div 16 = right \div 16
    <3> DEFINE p == a \div 16  q == b \div 16  r == c \div 16  s == d \div 16
    <3>1. p \in Nibble /\ q \in Nibble /\ r \in Nibble /\ s \in Nibble
      BY <1>2
    <3>2. /\ left \div 16 = XorHalf[XorHalf[p][q]][XorHalf[r][s]]
          /\ right \div 16 = XorHalf[XorHalf[p][r]][XorHalf[q][s]]
      BY <2>2
    <3> HIDE DEF p, q, r, s
    <3> QED
      BY <3>1, <3>2, HalfPairs
  <2>5. left % 16 = right % 16
    <3> DEFINE p == a % 16  q == b % 16  r == c % 16  s == d % 16
    <3>1. p \in Nibble /\ q \in Nibble /\ r \in Nibble /\ s \in Nibble
      BY <1>2
    <3>2. /\ left % 16 = XorHalf[XorHalf[p][q]][XorHalf[r][s]]
          /\ right % 16 = XorHalf[XorHalf[p][r]][XorHalf[q][s]]
      BY <2>3
    <3> HIDE DEF p, q, r, s
    <3> QED
      BY <3>1, <3>2, HalfPairs
  <2>6. left = right
    BY <2>1, <2>4, <2>5, SameHalves
  <2> QED
    BY <2>6 DEF left, right
<1> QED
  BY <1>3, <1>4, <1>5, <1>6, <1>7

(* The same for words and blocks. *)
LEMMA XorPairs ==
  ASSUME NEW a \in Byte, NEW b \in Byte, NEW c \in Byte, NEW d \in Byte
  PROVE  Xor(Xor(a, b), Xor(c, d)) = Xor(Xor(a, c), Xor(b, d))
BY ONLY XorLaws, a \in Byte, b \in Byte, c \in Byte, d \in Byte

LEMMA SameItems ==
  ASSUME NEW S, NEW f \in [1..4 -> S], NEW g \in [1..4 -> S], \A j \in 1..4 : f[j] = g[j]
  PROVE  f = g
OBVIOUS

LEMMA XorWordParts ==
  ASSUME NEW v \in Word, NEW w \in Word
  PROVE  XorWord(v, w) \in Word /\ \A j \in 1..4 : XorWord(v, w)[j] = Xor(v[j], w[j])
<1>1. XorWord(v, w) = <<Xor(v[1], w[1]), Xor(v[2], w[2]), Xor(v[3], w[3]), Xor(v[4], w[4])>>
  BY DEF XorWord, Four
<1>2. \A j \in 1..4 : Xor(v[j], w[j]) \in Byte
  BY XorLaws DEF Word
<1> QED
  BY <1>1, <1>2 DEF Word

ZeroWord == [j \in 1..4 |-> 0]

LEMMA XorWordLaws ==
  /\ ZeroWord \in Word /\ \A v \in Word : XorWord(v, ZeroWord) = v
  /\ \A v, w \in Word :
       XorWord(v, w) \in Word /\ XorWord(v, w) = XorWord(w, v) /\ XorWord(XorWord(v, w), w) = v
  /\ \A v, w, t, u \in Word :
       XorWord(XorWord(v, w), XorWord(t, u)) = XorWord(XorWord(v, t), XorWord(w, u))
<1> SUFFICES ASSUME NEW v \in Word, NEW w \in Word, NEW t \in Word, NEW u \in Word
             PROVE  /\ XorWord(v, w) \in Word
                    /\ ZeroWord \in Word /\ XorWord(v, ZeroWord) = v
                    /\ XorWord(v, w) = XorWord(w, v)
                    /\ XorWord(XorWord(v, w), w) = v
                    /\ XorWord(XorWord(v, w), XorWord(t, u))
                         = XorWord(XorWord(v, t), XorWord(w, u))
  BY DEF ZeroWord, Word, Byte
<1>1. ZeroWord \in Word /\ \A j \in 1..4 : ZeroWord[j] = 0
  BY DEF ZeroWord, Word, Byte
<1>2. \A x, y \in Word :
        XorWord(x, y) \in Word /\ \A j \in 1..4 : XorWord(x, y)[j] = Xor(x[j], y[j])
  BY XorWordParts
<1>3. \A x \in Word, j \in 1..4 : x[j] \in Byte
  BY DEF Word
<1>4. XorWord(v, ZeroWord) = v
  <2>1. ASSUME NEW j \in 1..4 PROVE XorWord(v, ZeroWord)[j] = v[j]
    <3>1. XorWord(v, ZeroWord)[j] = Xor(v[j], 0)
      BY <1>1, <1>2
    <3> QED
      BY <1>3, <3>1, XorLaws
  <2> QED
    BY <1>1, <1>2, <2>1, SameItems DEF Word
<1>5. XorWord(v, w) = XorWord(w, v)
  <2>1. ASSUME NEW j \in 1..4 PROVE XorWord(v, w)[j] = XorWord(w, v)[j]
    <3>1. XorWord(v, w)[j] = Xor(v[j], w[j]) /\ XorWord(w, v)[j] = Xor(w[j], v[j])
      BY <1>2
    <3>2. v[j] \in Byte /\ w[j] \in Byte
      BY <1>3
    <3> QED
      BY <3>1, <3>2, XorLaws
  <2> QED
    BY <1>2, <2>1, SameItems DEF Word
<1>6. XorWord(XorWord(v, w), w) = v
  <2>1. ASSUME NEW j \in 1..4 PROVE XorWord(XorWord(v, w), w)[j] = v[j]
    <3>1. XorWord(XorWord(v, w), w)[j] = Xor(Xor(v[j], w[j]), w[j])
      BY <1>2
    <3>2. v[j] \in Byte /\ w[j] \in Byte
      BY <1>3
    <3> QED
      BY <3>1, <3>2, XorLaws
  <2> QED
    BY <1>2, <2>1, SameItems DEF Word
<1>7. XorWord(XorWord(v, w), XorWord(t, u)) = XorWord(XorWord(v, t), XorWord(w, u))
  <2> DEFINE left == XorWord(XorWord(v, w), XorWord(t, u))
             right == XorWord(XorWord(v, t), XorWord(w, u))
  <2>1. left \in Word /\ right \in Word
    BY <1>2
  <2>2. ASSUME NEW j \in 1..4 PROVE left[j] = right[j]
    <3>1. /\ left[j] = Xor(Xor(v[j], w[j]), Xor(t[j], u[j]))
          /\ right[j] = Xor(Xor(v[j], t[j]), Xor(w[j], u[j]))
      BY <1>2
    <3>2. v[j] \in Byte /\ w[j] \in Byte /\ t[j] \in Byte /\ u[j] \in Byte
      BY <1>3
    <3> HIDE DEF left, right
    <3> QED
      BY <3>1, <3>2, XorPairs
  <2> HIDE DEF left, right
  <2>3. left = right
    BY <2>1, <2>2, SameItems DEF Word
  <2> QED
    BY <2>3 DEF left, right
<1> QED
  BY <1>1, <1>2, <1>4, <1>5, <1>6, <1>7

LEMMA XorWordPairs ==
  ASSUME NEW v \in Word, NEW w \in Word, NEW t \in Word, NEW u \in Word
  PROVE  XorWord(XorWord(v, w), XorWord(t, u)) = XorWord(XorWord(v, t), XorWord(w, u))
BY ONLY XorWordLaws, v \in Word, w \in Word, t \in Word, u \in Word

LEMMA XorBlockLaws ==
  \A x, y \in Block :
    /\ XorBlock(x, y) \in Block
    /\ \A i \in 1..4 : XorBlock(x, y)[i] = XorWord(x[i], y[i])
    /\ XorBlock(x, y) = XorBlock(y, x)
    /\ XorBlock(XorBlock(x, y), y) = x
<1> SUFFICES ASSUME NEW x \in Block, NEW y \in Block
             PROVE  /\ XorBlock(x, y) \in Block
                    /\ \A i \in 1..4 : XorBlock(x, y)[i] = XorWord(x[i], y[i])
                    /\ XorBlock(x, y) = XorBlock(y, x)
                    /\ XorBlock(XorBlock(x, y), y) = x
  OBVIOUS
<1>1. \A s, t \in Block :
        /\ XorBlock(s, t) \in Block
        /\ \A i \in 1..4 : XorBlock(s, t)[i] = XorWord(s[i], t[i])
  <2> SUFFICES ASSUME NEW s \in Block, NEW t \in Block
               PROVE  /\ XorBlock(s, t) \in Block
                      /\ \A i \in 1..4 : XorBlock(s, t)[i] = XorWord(s[i], t[i])
    OBVIOUS
  <2>1. XorBlock(s, t)
          = <<XorWord(s[1], t[1]), XorWord(s[2], t[2]), XorWord(s[3], t[3]), XorWord(s[4], t[4])>>
    BY DEF XorBlock, Four
  <2>2. \A i \in 1..4 : XorWord(s[i], t[i]) \in Word
    BY XorWordLaws DEF Block
  <2> QED
    BY <2>1, <2>2 DEF Block
<1>2. \A i \in 1..4 : x[i] \in Word /\ y[i] \in Word
  BY DEF Block
<1>3. XorBlock(x, y) = XorBlock(y, x)
  <2>1. ASSUME NEW i \in 1..4 PROVE XorBlock(x, y)[i] = XorBlock(y, x)[i]
    <3>1. XorBlock(x, y)[i] = XorWord(x[i], y[i]) /\ XorBlock(y, x)[i] = XorWord(y[i], x[i])
      BY <1>1
    <3>2. x[i] \in Word /\ y[i] \in Word
      BY <1>2
    <3> QED
      BY <3>1, <3>2, XorWordLaws
  <2> QED
    BY <1>1, <2>1, SameItems DEF Block
<1>4. XorBlock(XorBlock(x, y), y) = x
  <2>1. ASSUME NEW i \in 1..4 PROVE XorBlock(XorBlock(x, y), y)[i] = x[i]
    <3>1. XorBlock(XorBlock(x, y), y)[i] = XorWord(XorWord(x[i], y[i]), y[i])
      BY <1>1
    <3>2. x[i] \in Word /\ y[i] \in Word
      BY <1>2
    <3> QED
      BY <3>1, <3>2, XorWordLaws
  <2> QED
    BY <1>1, <2>1, SameItems DEF Block
<1> QED
  BY <1>1, <1>3, <1>4

------------------------------------------------------------------------------
(* Induction over the naturals, for a set: the least natural outside of it *)
(* is neither 0 nor a successor.                                           *)
LEMMA SetInduction ==
  ASSUME NEW T, 0 \in T, \A n \in Nat : n \in T => n + 1 \in T
  PROVE  \A n \in Nat : n \in T
<1> DEFINE Rest == Nat \ T
<1> SUFFICES ASSUME Rest # {} PROVE FALSE
  OBVIOUS
<1>1. PICK x \in Rest : \A y \in Rest : ~(<<y, x>> \in OpToRel(<, Nat))
  <2>1. Rest \subseteq Nat
    OBVIOUS
  <2> HIDE DEF Rest
  <2> QED
    BY <2>1, NatLessThanWellFounded, WFMin
<1>2. x \in Nat /\ x # 0
  OBVIOUS
<1>3. x - 1 \in Nat /\ x - 1 < x /\ x - 1 + 1 = x
  BY <1>2
<1>4. <<x - 1, x>> \in OpToRel(<, Nat)
  BY <1>2, <1>3 DEF OpToRel
<1>5. x - 1 \in T
  BY <1>1, <1>3, <1>4
<1> QED
  BY <1>3, <1>5

(* The values a loop goes through.                                         *)
Looping(y, step, x, n) == y = [r \in 0..n |-> IF r = 0 THEN x ELSE step[r][y[r - 1]]]

LEMMA LoopExists ==
  ASSUME NEW step, NEW x
  PROVE  \A n \in Nat : \E y : Looping(y, step, x, n)
<1> DEFINE T == {n \in Nat : \E y : Looping(y, step, x, n)}
<1>1. 0 \in T
  <2> DEFINE y == [r \in 0..0 |-> x]
  <2>1. y = [r \in 0..0 |-> IF r = 0 THEN x ELSE step[r][y[r - 1]]]
    OBVIOUS
  <2> QED
    BY <2>1 DEF Looping
<1>2. ASSUME NEW n \in Nat, n \in T PROVE n + 1 \in T
  <2>1. PICK y : Looping(y, step, x, n)
    BY <1>2
  <2> DEFINE z == [r \in 0..(n + 1) |-> IF r = n + 1 THEN step[n + 1][y[n]] ELSE y[r]]
  <2>2. \A r \in 0..n : z[r] = y[r]
    OBVIOUS
  <2>3. ASSUME NEW r \in 0..(n + 1)
        PROVE  z[r] = IF r = 0 THEN x ELSE step[r][z[r - 1]]
    <3>1. CASE r = n + 1
      <4>1. z[r] = step[r][y[n]] /\ r # 0 /\ r - 1 = n /\ z[r - 1] = y[n]
        BY <3>1, <2>2
      <4> QED
        BY <4>1
    <3>2. CASE r # n + 1
      <4>1. r \in 0..n /\ z[r] = y[r] /\ (r # 0 => z[r - 1] = y[r - 1])
        BY <3>2, <2>2
      <4>2. y[r] = IF r = 0 THEN x ELSE step[r][y[r - 1]]
        BY <4>1, <2>1 DEF Looping
      <4> QED
        BY <4>1, <4>2
    <3> QED
      BY <3>1, <3>2
  <2>4. z = [r \in 0..(n + 1) |-> z[r]]
    OBVIOUS
  <2> HIDE DEF z
  <2>5. z = [r \in 0..(n + 1) |-> IF r = 0 THEN x ELSE step[r][z[r - 1]]]
    BY <2>3, <2>4
  <2> QED
    BY <2>5 DEF Looping
<1> HIDE DEF T
<1>3. \A n \in Nat : n \in T
  BY <1>1, <1>2, SetInduction
<1> QED
  BY <1>3 DEF T

Steps(y, step, x, n) ==
  /\ y[0] = x
  /\ \A r \in 1..n : y[r] = step[r][y[r - 1]]
  /\ Loop(step, x, n) = y[n]

LEMMA LoopSteps ==
  ASSUME NEW step, NEW x, NEW n \in Nat
  PROVE  \E y : Steps(y, step, x, n)
<1> DEFINE y[r \in 0..n] == IF r = 0 THEN x ELSE step[r][y[r - 1]]
<1>1. \E z : Looping(z, step, x, n)
  BY LoopExists
<1>2. Looping(y, step, x, n)
  BY <1>1 DEF Looping
<1>3. Loop(step, x, n) = y[n]
  BY DEF Loop
<1> HIDE DEF y
<1>4. y[0] = x /\ \A r \in 1..n : y[r] = step[r][y[r - 1]]
  BY <1>2 DEF Looping
<1>5. Steps(y, step, x, n)
  BY <1>3, <1>4 DEF Steps
<1> QED
  BY <1>5

(* A loop whose steps lead from one set of S to the next.                  *)
LEMMA LoopStays ==
  ASSUME NEW S, NEW n \in Nat, NEW y, y[0] \in S[0],
         \A r \in 1..n : y[r - 1] \in S[r - 1] => y[r] \in S[r]
  PROVE  \A r \in 0..n : y[r] \in S[r]
<1> DEFINE T == {r \in Nat : r <= n => y[r] \in S[r]}
<1>1. 0 \in T
  OBVIOUS
<1>2. ASSUME NEW r \in Nat, r \in T PROVE r + 1 \in T
  <2> SUFFICES ASSUME r + 1 <= n PROVE y[r + 1] \in S[r + 1]
    OBVIOUS
  <2>1. y[r] \in S[r] /\ r + 1 \in 1..n /\ r + 1 - 1 = r
    BY <1>2
  <2> QED
    BY <2>1
<1> HIDE DEF T
<1>3. \A r \in Nat : r \in T
  BY <1>1, <1>2, SetInduction
<1> QED
  BY <1>3 DEF T

------------------------------------------------------------------------------
(* The key schedules. *)
LEMMA SubstType ==
  \A w \in Word : Subst(FSb, w) \in Word /\ \A j \in 1..4 : Subst(FSb, w)[j] = FSb[w[j]]
<1> SUFFICES ASSUME NEW w \in Word
             PROVE  Subst(FSb, w) \in Word /\ \A j \in 1..4 : Subst(FSb, w)[j] = FSb[w[j]]
  OBVIOUS
<1>1. Subst(FSb, w) = <<FSb[w[1]], FSb[w[2]], FSb[w[3]], FSb[w[4]]>>
  BY DEF Subst, Four
<1>2. \A j \in 1..4 : FSb[w[j]] \in Byte
  BY TablesAssumption DEF Word
<1> QED
  BY <1>1, <1>2 DEF Word

LEMMA CoreType == \A w \in Word, rcon \in Byte : Core(w, rcon) \in Word
<1> SUFFICES ASSUME NEW w \in Word, NEW rcon \in Byte PROVE Core(w, rcon) \in Word
  OBVIOUS
<1>1. <<w[2], w[3], w[4], w[1]>> \in Word /\ <<rcon, 0, 0, 0>> \in Word
  BY DEF Word, Byte
<1>2. Subst(FSb, <<w[2], w[3], w[4], w[1]>>) \in Word
  BY <1>1, SubstType
<1> QED
  BY <1>1, <1>2, XorWordLaws DEF Core

LEMMA MixedType ==
  ASSUME NEW nk \in {4, 6, 8}, NEW i \in 1..10, NEW j \in 1..nk, NEW w \in Word
  PROVE  Mixed(w, nk, i, j) \in Word
<1>1. Core(w, RCON[i]) \in Word /\ Subst(FSb, w) \in Word
  BY CoreType, SubstType, TablesAssumption
<1> QED
  BY <1>1 DEF Mixed

(* One word more. *)
LEMMA ExtendType ==
  ASSUME NEW nk \in {4, 6, 8}, NEW i \in 1..10, NEW j \in 1..nk,
         NEW rk \in Seq(Word), Len(rk) >= nk
  PROVE  LET w == XorWord(rk[Len(rk) + 1 - nk], Mixed(rk[Len(rk)], nk, i, j))
         IN  w \in Word /\ Extend(nk, i, j)[rk] = Append(rk, w)
<1> DEFINE w == XorWord(rk[Len(rk) + 1 - nk], Mixed(rk[Len(rk)], nk, i, j))
<1>1. Len(rk) \in 1..Len(rk) /\ Len(rk) + 1 - nk \in 1..Len(rk)
  OBVIOUS
<1>2. rk[Len(rk)] \in Word /\ rk[Len(rk) + 1 - nk] \in Word
  BY <1>1
<1>3. w \in Word
  BY <1>2, MixedType, XorWordLaws
<1>4. Last(rk) = rk[Len(rk)]
  BY DEF Last
<1>5. Extend(nk, i, j)[rk] = Append(rk, w)
  BY <1>4 DEF Extend
<1> QED
  BY <1>3, <1>5

(* A schedule begins with the key. In each row of nk words, a word is      *)
(* mixed from the one before it and the one above it.                      *)
Scheduled(rk, k) ==
  /\ \A m \in 1..Len(k) : rk[m] = k[m]
  /\ \A m \in (Len(k) + 1)..Len(rk) :
       rk[m] = XorWord(rk[m - Len(k)],
                       Mixed(rk[m - 1], Len(k), (m - 1) \div Len(k), ((m - 1) % Len(k)) + 1))

LEMMA Place ==
  ASSUME NEW nk \in {4, 6, 8}, NEW i \in 1..10, NEW j \in 1..nk
  PROVE  LET m == (nk * i) + j
         IN  m \in Nat /\ nk < m /\ (m - 1) \div nk = i /\ ((m - 1) % nk) + 1 = j
<1>1. CASE nk = 4
  BY <1>1
<1>2. CASE nk = 6
  BY <1>2
<1>3. CASE nk = 8
  BY <1>3
<1> QED
  BY <1>1, <1>2, <1>3

(* The schedules of a length. *)
Schedules(k, n) == {rk \in Seq(Word) : Len(rk) = n /\ Scheduled(rk, k)}

LEMMA AppendScheduled ==
  ASSUME NEW nk \in {4, 6, 8}, NEW k, Len(k) = nk, NEW m \in Nat, nk < m,
         NEW rk \in Schedules(k, m - 1), NEW w \in Word,
         w = XorWord(rk[m - nk], Mixed(rk[m - 1], nk, (m - 1) \div nk, ((m - 1) % nk) + 1))
  PROVE  Append(rk, w) \in Schedules(k, m)
<1> DEFINE R == Append(rk, w)
<1>1. rk \in Seq(Word) /\ Len(rk) = m - 1 /\ Scheduled(rk, k)
  BY DEF Schedules
<1>2. /\ R \in Seq(Word) /\ Len(R) = m /\ R[m] = w
      /\ \A q \in 1..(m - 1) : R[q] = rk[q]
  BY <1>1
<1> HIDE DEF R
<1>3. ASSUME NEW q \in 1..Len(k) PROVE R[q] = k[q]
  <2>1. q \in 1..(m - 1)
    OBVIOUS
  <2> QED
    BY <1>1, <1>2, <2>1 DEF Scheduled
<1>4. ASSUME NEW q \in (Len(k) + 1)..Len(R)
      PROVE  R[q] = XorWord(R[q - Len(k)],
                            Mixed(R[q - 1], Len(k), (q - 1) \div Len(k), ((q - 1) % Len(k)) + 1))
  <2>1. q - Len(k) \in 1..(m - 1) /\ q - 1 \in 1..(m - 1)
    BY <1>2
  <2>2. R[q - Len(k)] = rk[q - Len(k)] /\ R[q - 1] = rk[q - 1]
    BY <1>2, <2>1
  <2>3. CASE q = m
    BY <1>2, <2>2, <2>3
  <2>4. CASE q # m
    <3>1. q \in 1..(m - 1) /\ q \in (Len(k) + 1)..Len(rk)
      BY <1>1, <1>2, <2>4
    <3>2. rk[q] = XorWord(rk[q - Len(k)],
                          Mixed(rk[q - 1], Len(k), (q - 1) \div Len(k), ((q - 1) % Len(k)) + 1))
      BY <1>1, <3>1 DEF Scheduled
    <3> QED
      BY <1>2, <2>2, <3>1, <3>2
  <2> QED
    BY <2>3, <2>4
<1>5. R \in Schedules(k, m)
  BY <1>2, <1>3, <1>4 DEF Schedules, Scheduled
<1> QED
  BY <1>5 DEF R

LEMMA ExtendScheduled ==
  ASSUME NEW nk \in {4, 6, 8}, NEW i \in 1..10, NEW j \in 1..nk, NEW k, Len(k) = nk,
         NEW rk \in Schedules(k, (nk * i) + j - 1)
  PROVE  Extend(nk, i, j)[rk] \in Schedules(k, (nk * i) + j)
<1> DEFINE m == (nk * i) + j
           w == XorWord(rk[Len(rk) + 1 - nk], Mixed(rk[Len(rk)], nk, i, j))
<1>1. /\ m \in Nat /\ nk < m /\ (m - 1) \div nk = i /\ ((m - 1) % nk) + 1 = j
  BY Place
<1>2. rk \in Seq(Word) /\ Len(rk) = m - 1 /\ rk \in Schedules(k, m - 1)
  BY DEF Schedules
<1> HIDE DEF m
<1>3. Len(rk) >= nk
  BY <1>1, <1>2
<1>4. w \in Word /\ Extend(nk, i, j)[rk] = Append(rk, w)
  BY <1>2, <1>3, ExtendType
<1>5. w = XorWord(rk[m - nk], Mixed(rk[m - 1], nk, (m - 1) \div nk, ((m - 1) % nk) + 1))
  BY <1>1, <1>2
<1> HIDE DEF w
<1>6. Append(rk, w) \in Schedules(k, m)
  BY <1>1, <1>2, <1>4, <1>5, AppendScheduled
<1> QED
  BY <1>4, <1>6 DEF m

LEMMA ExpandScheduled ==
  ASSUME NEW nk \in {4, 6, 8}, NEW i \in 1..10, NEW k, Len(k) = nk,
         NEW rk \in Schedules(k, nk * i)
  PROVE  Expand(nk, i)[rk] \in Schedules(k, nk * (i + 1))
<1> DEFINE step == [j \in 1..nk |-> Extend(nk, i, j)]
           S == [j \in 0..nk |-> Schedules(k, (nk * i) + j)]
<1>1. rk \in Seq(Word) /\ Expand(nk, i)[rk] = Loop(step, rk, nk)
  BY DEF Expand, Schedules
<1>2. \A j \in 1..nk : step[j] = Extend(nk, i, j)
  OBVIOUS
<1> HIDE DEF step
<1>3. PICK y : Steps(y, step, rk, nk)
  BY LoopSteps
<1>4. nk \in Nat /\ nk * i \in Nat /\ (nk * i) + 0 = nk * i /\ (nk * i) + nk = nk * (i + 1)
  OBVIOUS
<1>5. y[0] \in S[0]
  BY <1>3, <1>4 DEF Steps
<1>6. ASSUME NEW j \in 1..nk, y[j - 1] \in S[j - 1] PROVE y[j] \in S[j]
  <2>1. j - 1 \in 0..nk /\ j \in 0..nk /\ (nk * i) + (j - 1) = (nk * i) + j - 1
    BY <1>4
  <2>2. PICK last \in Schedules(k, (nk * i) + j - 1) : last = y[j - 1]
    BY <1>6, <2>1
  <2>3. y[j] = Extend(nk, i, j)[last]
    BY <1>2, <1>3, <2>2 DEF Steps
  <2> QED
    BY <2>1, <2>2, <2>3, ExtendScheduled
<1>7. S[nk] = Schedules(k, nk * (i + 1))
  BY <1>4
<1> HIDE DEF S
<1>8. y[nk] \in S[nk]
  <2>1. \A j \in 0..nk : y[j] \in S[j]
    BY <1>4, <1>5, <1>6, LoopStays
  <2> QED
    BY <1>4, <2>1
<1> QED
  BY <1>1, <1>3, <1>7, <1>8 DEF Steps

(* The schedule of a legal key has a round key for each round, and one.    *)
LEMMA EncryptionKey ==
  ASSUME NEW k \in Seq(Word), LegalKey(k)
  PROVE  LET ctx == aes_setkey_enc(k)
         IN  /\ ctx.nr = Len(k) + 6 /\ ctx.nr \in {10, 12, 14}
             /\ ctx.rk \in Seq(Word) /\ 4 * (ctx.nr + 1) <= Len(ctx.rk)
             /\ Scheduled(ctx.rk, k)
<1> DEFINE nk == Len(k)
           n == Loops(nk)
           step == [i \in 1..n |-> Expand(nk, i)]
           S == [i \in 0..n |-> Schedules(k, nk * (i + 1))]
<1>1. nk \in {4, 6, 8} /\ n \in 1..10 /\ 4 * (nk + 7) <= nk * (n + 1)
  <2>1. nk \in {4, 6, 8}
    BY DEF LegalKey
  <2> HIDE DEF nk
  <2>2. CASE nk = 4
    BY <2>2 DEF Loops
  <2>3. CASE nk = 6
    BY <2>3 DEF Loops
  <2>4. CASE nk = 8
    BY <2>4 DEF Loops
  <2> QED
    BY <2>1, <2>2, <2>3, <2>4
<1>2. aes_setkey_enc(k) = [nr |-> nk + 6, rk |-> Loop(step, k, n)]
  BY DEF aes_setkey_enc
<1>3. \A i \in 1..n : step[i] = Expand(nk, i)
  OBVIOUS
<1>4. k \in Seq(Word) /\ Len(k) = nk
  OBVIOUS
<1>5. \A i \in 0..n : S[i] = Schedules(k, nk * (i + 1))
  OBVIOUS
<1> HIDE DEF nk, n, step, S
<1>6. n \in Nat /\ 0 \in 0..n /\ n \in 0..n
  BY <1>1
<1>7. PICK y : Steps(y, step, k, n)
  BY <1>6, LoopSteps
<1>8. y[0] \in S[0]
  <2>1. k \in Schedules(k, nk)
    BY <1>1, <1>4 DEF Schedules, Scheduled
  <2>2. nk * (0 + 1) = nk
    BY <1>1
  <2> QED
    BY <1>5, <1>6, <1>7, <2>1, <2>2 DEF Steps
<1>9. ASSUME NEW i \in 1..n, y[i - 1] \in S[i - 1] PROVE y[i] \in S[i]
  <2>1. i \in 1..10 /\ i \in 0..n /\ i - 1 \in 0..n /\ i - 1 + 1 = i
    BY <1>1
  <2>2. PICK rk \in Schedules(k, nk * i) : rk = y[i - 1]
    BY <1>5, <1>9, <2>1
  <2>3. y[i] = Expand(nk, i)[rk]
    BY <1>3, <1>7, <2>2 DEF Steps
  <2>4. Expand(nk, i)[rk] \in Schedules(k, nk * (i + 1))
    BY <1>1, <1>4, <2>1, ExpandScheduled
  <2> QED
    BY <1>5, <2>1, <2>3, <2>4
<1>10. y[n] \in S[n]
  <2>1. \A i \in 0..n : y[i] \in S[i]
    BY <1>6, <1>8, <1>9, LoopStays
  <2> QED
    BY <1>6, <2>1
<1>11. Loop(step, k, n) \in Schedules(k, nk * (n + 1))
  BY <1>5, <1>6, <1>7, <1>10 DEF Steps
<1> QED
  BY <1>1, <1>2, <1>4, <1>11 DEF Schedules

LEMMA RoundKeyType ==
  ASSUME NEW ctx, NEW n \in Nat, ctx.rk \in Seq(Word), 4 * (n + 1) <= Len(ctx.rk),
         NEW r \in 0..n
  PROVE  RoundKey(ctx, r) \in Block
<1>1. \A i \in 1..4 : ctx.rk[(4 * r) + i] \in Word
  OBVIOUS
<1> QED
  BY <1>1 DEF RoundKey, Block

LEMMA ThroughIs ==
  ASSUME NEW w \in Word
  PROVE  /\ \A j \in 1..4 : RT[j][FSb[w[j]]] \in Word
         /\ Through[w] = XorWord(XorWord(RT[1][FSb[w[1]]], RT[2][FSb[w[2]]]),
                                 XorWord(RT[3][FSb[w[3]]], RT[4][FSb[w[4]]]))
         /\ Through[w] \in Word
<1>1. \A j \in 1..4 : RT[j][FSb[w[j]]] \in Word
  BY TablesAssumption DEF Word
<1>2. Through[w] = XorWord(XorWord(RT[1][FSb[w[1]]], RT[2][FSb[w[2]]]),
                           XorWord(RT[3][FSb[w[3]]], RT[4][FSb[w[4]]]))
  <2>1. Through[w] = XorFour(<<RT[1][FSb[w[1]]], RT[2][FSb[w[2]]],
                               RT[3][FSb[w[3]]], RT[4][FSb[w[4]]]>>)
    BY DEF Through, Four
  <2> QED
    BY <2>1 DEF XorFour
<1> QED
  <2> DEFINE e(j) == RT[j][FSb[w[j]]]
  <2>1. e(1) \in Word /\ e(2) \in Word /\ e(3) \in Word /\ e(4) \in Word
    BY <1>1
  <2> HIDE DEF e
  <2>2. XorWord(XorWord(e(1), e(2)), XorWord(e(3), e(4))) \in Word
    BY <2>1, XorWordLaws
  <2> QED
    BY <1>1, <1>2, <2>2 DEF e

(* The key of round r of a decryption is that of round nr - r.             *)
LEMMA DecryptionKey ==
  ASSUME NEW k, NEW r \in 0..aes_setkey_enc(k).nr, aes_setkey_enc(k).nr \in {10, 12, 14}
  PROVE  LET cty == aes_setkey_enc(k)
             ctx == aes_setkey_dec(k)
         IN  /\ ctx.nr = cty.nr
             /\ RoundKey(ctx, r) =
                  IF r \in 1..(cty.nr - 1)
                    THEN [i \in 1..4 |-> Through[RoundKey(cty, cty.nr - r)[i]]]
                    ELSE RoundKey(cty, cty.nr - r)
<1> DEFINE cty == aes_setkey_enc(k)
           ctx == aes_setkey_dec(k)
           RK(n) == IF n \in 1..(cty.nr - 1)
                      THEN [i \in 1..4 |-> Through[RoundKey(cty, n)[i]]]
                      ELSE RoundKey(cty, n)
           rk == [m \in 1..(4 * (cty.nr + 1)) |->
                    RK(cty.nr - ((m - 1) \div 4))[((m - 1) % 4) + 1]]
<1>1. ctx = [nr |-> cty.nr, rk |-> rk]
  BY DEF aes_setkey_dec, InReverse
<1>2. ctx.nr = cty.nr /\ ctx.rk = rk
  BY <1>1
<1>3. RK(cty.nr - r) = [i \in 1..4 |-> RK(cty.nr - r)[i]]
  BY DEF RoundKey
<1>4. ASSUME NEW i \in 1..4
      PROVE  ctx.rk[(4 * r) + i] = RK(cty.nr - r)[i]
  <2> DEFINE m == (4 * r) + i
  <2> HIDE DEF ctx, cty, RK
  <2>1. m \in 1..(4 * (cty.nr + 1)) /\ (m - 1) \div 4 = r /\ ((m - 1) % 4) + 1 = i
    BY DEF cty
  <2>2. rk[m] = RK(cty.nr - ((m - 1) \div 4))[((m - 1) % 4) + 1]
    BY <2>1
  <2> QED
    BY <1>2, <2>1, <2>2
<1>5. RoundKey(ctx, r) = [i \in 1..4 |-> ctx.rk[(4 * r) + i]]
  BY DEF RoundKey
<1> HIDE DEF ctx, RK
<1>6. RoundKey(ctx, r) = RK(cty.nr - r)
  BY <1>3, <1>4, <1>5
<1>7. r \in 1..(cty.nr - 1) <=> cty.nr - r \in 1..(cty.nr - 1)
  <2> HIDE DEF cty
  <2> QED
    BY DEF cty
<1> QED
  BY <1>2, <1>6, <1>7 DEF ctx, RK

------------------------------------------------------------------------------
(* One round. *)
LEMMA FromIs ==
  ASSUME NEW i \in 1..4, NEW j \in 1..4
  PROVE  /\ From(ENCRYPT, i, j) \in 1..4 /\ From(DECRYPT, i, j) \in 1..4
         /\ From(ENCRYPT, From(DECRYPT, i, j), j) = i
BY DEF From, ENCRYPT, DECRYPT

(* The bytes that a round of encryption takes from y for word i. *)
Taken(y, i) == [j \in 1..4 |-> y[From(ENCRYPT, i, j)][j]]
(* The same, substituted, for all words. *)
Shifted(y) == [i \in 1..4 |-> [j \in 1..4 |-> FSb[Taken(y, i)[j]]]]
(* A word of four bytes, each through its table. *)
Looked(T, b) == XorWord(XorWord(T[1][b[1]], T[2][b[2]]), XorWord(T[3][b[3]], T[4][b[4]]))

LEMMA TakenType ==
  ASSUME NEW y \in Block, NEW i \in 1..4
  PROVE  Taken(y, i) \in Word /\ \A j \in 1..4 : Taken(y, i)[j] = y[From(ENCRYPT, i, j)][j]
<1>1. \A j \in 1..4 : y[From(ENCRYPT, i, j)][j] \in Byte
  BY FromIs DEF Block, Word
<1> QED
  BY <1>1 DEF Taken, Word

LEMMA ShiftedType ==
  ASSUME NEW y \in Block
  PROVE  /\ Shifted(y) \in Block
         /\ \A i, j \in 1..4 : Shifted(y)[i][j] = FSb[Taken(y, i)[j]]
<1>1. \A i, j \in 1..4 : FSb[Taken(y, i)[j]] \in Byte
  BY TakenType, TablesAssumption DEF Word
<1> QED
  BY <1>1 DEF Shifted, Block, Word

LEMMA LookedType ==
  ASSUME NEW b \in Word
  PROVE  Looked(FT, b) \in Word /\ Looked(RT, b) \in Word
<1>1. \A j \in 1..4 : b[j] \in Byte
  BY DEF Word
<1>2. ASSUME NEW p \in Word, NEW q \in Word, NEW r \in Word, NEW s \in Word
      PROVE  XorWord(XorWord(p, q), XorWord(r, s)) \in Word
  BY XorWordLaws
<1>3. /\ FT[1][b[1]] \in Word /\ FT[2][b[2]] \in Word
      /\ FT[3][b[3]] \in Word /\ FT[4][b[4]] \in Word
  BY <1>1, TablesAssumption
<1>4. /\ RT[1][b[1]] \in Word /\ RT[2][b[2]] \in Word
      /\ RT[3][b[3]] \in Word /\ RT[4][b[4]] \in Word
  BY <1>1, TablesAssumption
<1>5. Looked(FT, b) \in Word
  BY <1>2, <1>3 DEF Looked
<1>6. Looked(RT, b) \in Word
  BY <1>2, <1>4 DEF Looked
<1> QED
  BY <1>5, <1>6

(* Byte by byte, what a word of an encryption round was made of comes back *)
(* when it is taken through FSb and the tables of decryption.              *)
LEMMA ThroughLinear ==
  ASSUME NEW v \in Word, NEW w \in Word
  PROVE  Through[XorWord(v, w)] = XorWord(Through[v], Through[w])
<1> DEFINE e(j, x) == RT[j][FSb[x]]
<1>1. XorWord(v, w) \in Word /\ \A j \in 1..4 : XorWord(v, w)[j] = Xor(v[j], w[j])
  BY XorWordParts
<1>2. \A j \in 1..4 : v[j] \in Byte /\ w[j] \in Byte
  BY DEF Word
<1>3. ASSUME NEW j \in 1..4
      PROVE  /\ e(j, v[j]) \in Word /\ e(j, w[j]) \in Word
             /\ e(j, XorWord(v, w)[j]) = XorWord(e(j, v[j]), e(j, w[j]))
  <2>1. FSb[v[j]] \in Byte /\ FSb[w[j]] \in Byte
    BY <1>2, TablesAssumption
  <2>2. e(j, v[j]) \in Word /\ e(j, w[j]) \in Word
    BY <2>1, TablesAssumption
  <2>3. e(j, Xor(v[j], w[j])) = XorWord(e(j, v[j]), e(j, w[j]))
    BY <1>2, TablesAssumption
  <2> QED
    BY <1>1, <2>2, <2>3
<1>4. \A t \in Word : Through[t] = XorWord(XorWord(e(1, t[1]), e(2, t[2])),
                                           XorWord(e(3, t[3]), e(4, t[4])))
  BY ThroughIs
<1> HIDE DEF e
<1>5. /\ e(1, v[1]) \in Word /\ e(2, v[2]) \in Word /\ e(3, v[3]) \in Word /\ e(4, v[4]) \in Word
      /\ e(1, w[1]) \in Word /\ e(2, w[2]) \in Word /\ e(3, w[3]) \in Word /\ e(4, w[4]) \in Word
  BY <1>3
<1>6. Through[XorWord(v, w)]
        = XorWord(XorWord(XorWord(e(1, v[1]), e(1, w[1])), XorWord(e(2, v[2]), e(2, w[2]))),
                  XorWord(XorWord(e(3, v[3]), e(3, w[3])), XorWord(e(4, v[4]), e(4, w[4]))))
  BY <1>1, <1>3, <1>4
<1> DEFINE a == XorWord(e(1, v[1]), e(2, v[2]))  b == XorWord(e(1, w[1]), e(2, w[2]))
           c == XorWord(e(3, v[3]), e(4, v[4]))  d == XorWord(e(3, w[3]), e(4, w[4]))
<1>7. a \in Word /\ b \in Word /\ c \in Word /\ d \in Word
  BY <1>5, XorWordLaws
<1>8. /\ XorWord(XorWord(e(1, v[1]), e(1, w[1])), XorWord(e(2, v[2]), e(2, w[2]))) = XorWord(a, b)
      /\ XorWord(XorWord(e(3, v[3]), e(3, w[3])), XorWord(e(4, v[4]), e(4, w[4]))) = XorWord(c, d)
  BY <1>5, XorWordPairs
<1>9. Through[v] = XorWord(a, c) /\ Through[w] = XorWord(b, d)
  BY <1>4
<1> HIDE DEF a, b, c, d
<1>10. XorWord(XorWord(a, b), XorWord(c, d)) = XorWord(XorWord(a, c), XorWord(b, d))
  BY <1>7, XorWordPairs
<1> QED
  BY <1>6, <1>8, <1>9, <1>10

Single(j, x) == [i \in 1..4 |-> IF i = j THEN x ELSE 0]

LEMMA XorSingles ==
  ASSUME NEW b \in Word
  PROVE  XorWord(XorWord(Single(1, b[1]), Single(2, b[2])),
                 XorWord(Single(3, b[3]), Single(4, b[4]))) = b
<1> DEFINE s(j) == Single(j, b[j])
           t == XorWord(XorWord(s(1), s(2)), XorWord(s(3), s(4)))
<1>1. 0 \in Byte /\ \A j \in 1..4 : b[j] \in Byte
  BY DEF Word, Byte
<1>2. \A j \in 1..4 : s(j) \in Word /\ \A i \in 1..4 : s(j)[i] = IF i = j THEN b[j] ELSE 0
  BY <1>1 DEF Single, Word
<1> HIDE DEF s
<1>3. s(1) \in Word /\ s(2) \in Word /\ s(3) \in Word /\ s(4) \in Word
  BY <1>2
<1>4. XorWord(s(1), s(2)) \in Word /\ XorWord(s(3), s(4)) \in Word
  BY <1>3, XorWordLaws
<1>5. t \in Word /\ \A i \in 1..4 : t[i] = Xor(Xor(s(1)[i], s(2)[i]), Xor(s(3)[i], s(4)[i]))
  BY <1>3, <1>4, XorWordParts
<1> HIDE DEF t
<1>6. PICK o \in Byte : o = 0
  BY <1>1
<1>7. \A x \in Byte : Xor(x, o) = x /\ Xor(o, x) = x
  BY <1>6, XorLaws
<1>8. ASSUME NEW i \in 1..4 PROVE t[i] = b[i]
  <2>1. CASE i = 1
    <3>1. s(1)[i] = b[1] /\ s(2)[i] = o /\ s(3)[i] = o /\ s(4)[i] = o
      BY <1>2, <1>6, <2>1
    <3> QED
      BY <1>1, <1>5, <1>7, <2>1, <3>1
  <2>2. CASE i = 2
    <3>1. s(1)[i] = o /\ s(2)[i] = b[2] /\ s(3)[i] = o /\ s(4)[i] = o
      BY <1>2, <1>6, <2>2
    <3> QED
      BY <1>1, <1>5, <1>7, <2>2, <3>1
  <2>3. CASE i = 3
    <3>1. s(1)[i] = o /\ s(2)[i] = o /\ s(3)[i] = b[3] /\ s(4)[i] = o
      BY <1>2, <1>6, <2>3
    <3> QED
      BY <1>1, <1>5, <1>7, <2>3, <3>1
  <2>4. CASE i = 4
    <3>1. s(1)[i] = o /\ s(2)[i] = o /\ s(3)[i] = o /\ s(4)[i] = b[4]
      BY <1>2, <1>6, <2>4
    <3> QED
      BY <1>1, <1>5, <1>7, <2>4, <3>1
  <2> QED
    BY <2>1, <2>2, <2>3, <2>4
<1>9. t = b
  BY <1>5, <1>8, SameItems DEF Word
<1> QED
  BY <1>9 DEF t, s

LEMMA ThroughLooked ==
  ASSUME NEW b \in Word
  PROVE  Through[Looked(FT, b)] = [j \in 1..4 |-> FSb[b[j]]]
<1> DEFINE f(j) == FT[j][b[j]]
           c == [j \in 1..4 |-> FSb[b[j]]]
<1>1. \A j \in 1..4 : b[j] \in Byte
  BY DEF Word
<1>2. ASSUME NEW j \in 1..4
      PROVE  f(j) \in Word /\ Through[f(j)] = Single(j, c[j])
  BY <1>1, TablesAssumption DEF Single
<1>3. c \in Word
  BY <1>1, TablesAssumption DEF Word
<1>4. Looked(FT, b) = XorWord(XorWord(f(1), f(2)), XorWord(f(3), f(4)))
  BY DEF Looked
<1> HIDE DEF f, c
<1>5. f(1) \in Word /\ f(2) \in Word /\ f(3) \in Word /\ f(4) \in Word
  BY <1>2
<1>6. XorWord(f(1), f(2)) \in Word /\ XorWord(f(3), f(4)) \in Word
  BY <1>5, XorWordLaws
<1>7. Through[Looked(FT, b)]
        = XorWord(Through[XorWord(f(1), f(2))], Through[XorWord(f(3), f(4))])
  BY <1>4, <1>6, ThroughLinear
<1>8. /\ Through[XorWord(f(1), f(2))] = XorWord(Through[f(1)], Through[f(2)])
      /\ Through[XorWord(f(3), f(4))] = XorWord(Through[f(3)], Through[f(4)])
  BY <1>5, ThroughLinear
<1>9. Through[Looked(FT, b)] = XorWord(XorWord(Single(1, c[1]), Single(2, c[2])),
                                       XorWord(Single(3, c[3]), Single(4, c[4])))
  BY <1>2, <1>7, <1>8
<1>10. Through[Looked(FT, b)] = c
  BY <1>3, <1>9, XorSingles
<1> QED
  BY <1>10 DEF c

(* A round as a function of the state.                                     *)
Encrypted(K, y) == XorBlock(K, [i \in 1..4 |-> Looked(FT, Taken(y, i))])
Decrypted(K, z) ==
  XorBlock([i \in 1..4 |-> Through[K[i]]],
           [i \in 1..4 |-> Looked(RT, [j \in 1..4 |-> z[From(DECRYPT, i, j)][j]])])

LEMMA EncryptedIs ==
  ASSUME NEW K \in Block, NEW y \in Block
  PROVE  /\ Encrypted(K, y) \in Block
         /\ \A i \in 1..4 : Encrypted(K, y)[i] = XorWord(K[i], Looked(FT, Taken(y, i)))
<1> DEFINE m == [i \in 1..4 |-> Looked(FT, Taken(y, i))]
<1>1. m \in Block
  BY TakenType, LookedType DEF Block
<1>2. \A i \in 1..4 : m[i] = Looked(FT, Taken(y, i))
  OBVIOUS
<1>3. Encrypted(K, y) = XorBlock(K, m)
  BY DEF Encrypted
<1> HIDE DEF m
<1> QED
  BY <1>1, <1>2, <1>3, XorBlockLaws

(* A round of decryption makes of what follows a round what preceded it.   *)
LEMMA RoundUndone ==
  ASSUME NEW K \in Block, NEW y \in Block
  PROVE  Decrypted(K, Shifted(Encrypted(K, y))) = Shifted(y)
<1> DEFINE x == Encrypted(K, y)
           z == Shifted(x)
           back(i) == [j \in 1..4 |-> z[From(DECRYPT, i, j)][j]]
           T == [i \in 1..4 |-> Through[K[i]]]
           R == [i \in 1..4 |-> Looked(RT, back(i))]
<1>1. x \in Block /\ \A i \in 1..4 : x[i] = XorWord(K[i], Looked(FT, Taken(y, i)))
  BY EncryptedIs
<1>2. \A i \in 1..4 : K[i] \in Word /\ x[i] \in Word /\ Looked(FT, Taken(y, i)) \in Word
  BY <1>1, TakenType, LookedType DEF Block
<1>3. ASSUME NEW i \in 1..4 PROVE R[i] = Through[x[i]]
  <2>1. ASSUME NEW j \in 1..4 PROVE back(i)[j] = FSb[x[i][j]]
    <3>1. PICK k \in 1..4 : k = From(DECRYPT, i, j) /\ From(ENCRYPT, k, j) = i
      BY FromIs
    <3>2. z[k][j] = FSb[Taken(x, k)[j]]
      BY <1>1, ShiftedType
    <3>3. Taken(x, k)[j] = x[i][j]
      BY <3>1 DEF Taken
    <3> QED
      BY <3>1, <3>2, <3>3
  <2>2. R[i] = Looked(RT, back(i))
    OBVIOUS
  <2> HIDE DEF back
  <2>3. Looked(RT, back(i)) = Through[x[i]]
    BY <1>2, <2>1, ThroughIs DEF Looked
  <2> QED
    BY <2>2, <2>3
<1>4. \A i \in 1..4 : T[i] = Through[K[i]] /\ T[i] \in Word /\ R[i] \in Word
  BY <1>2, <1>3, ThroughIs
<1>5. T \in Block /\ R \in Block
  BY <1>4 DEF Block
<1>6. Decrypted(K, z) = XorBlock(T, R)
  BY DEF Decrypted
<1>7. Shifted(y) \in Block
  BY ShiftedType
<1>8. ASSUME NEW i \in 1..4 PROVE XorBlock(T, R)[i] = Shifted(y)[i]
  <2> DEFINE b == Looked(FT, Taken(y, i))
  <2>1. b \in Word /\ K[i] \in Word /\ x[i] = XorWord(K[i], b)
    BY <1>1, <1>2
  <2>2. XorBlock(T, R)[i] = XorWord(Through[K[i]], Through[x[i]])
    BY <1>3, <1>4, <1>5, XorBlockLaws
  <2>3. Through[b] = Shifted(y)[i]
    BY TakenType, ThroughLooked DEF Shifted
  <2> HIDE DEF b, x, T, R
  <2>4. Through[x[i]] = XorWord(Through[b], Through[K[i]])
    <3>1. x[i] = XorWord(b, K[i])
      BY <2>1, XorWordLaws
    <3> QED
      BY <2>1, <3>1, ThroughLinear
  <2>5. XorWord(XorWord(Through[b], Through[K[i]]), Through[K[i]]) = Through[b]
    BY <2>1, ThroughIs, XorWordLaws
  <2>6. XorWord(Through[K[i]], Through[x[i]]) = XorWord(Through[x[i]], Through[K[i]])
    BY <1>2, <2>1, ThroughIs, XorWordLaws
  <2> QED
    BY <2>2, <2>3, <2>4, <2>5, <2>6
<1> HIDE DEF T, R
<1>9. XorBlock(T, R) = Shifted(y)
  BY <1>5, <1>7, <1>8, XorBlockLaws, SameItems DEF Block
<1> QED
  BY <1>6, <1>9

LEMMA TableRoundIs ==
  ASSUME NEW ctx, NEW r
  PROVE  /\ \A y \in Block : TableRound(ctx, ENCRYPT, r)[y] = Encrypted(RoundKey(ctx, r), y)
         /\ \A z \in Block :
              TableRound(ctx, DECRYPT, r)[z]
                = XorBlock(RoundKey(ctx, r),
                           [i \in 1..4 |-> Looked(RT, [j \in 1..4 |-> z[From(DECRYPT, i, j)][j]])])
<1>1. ASSUME NEW y \in Block
      PROVE  TableRound(ctx, ENCRYPT, r)[y] = Encrypted(RoundKey(ctx, r), y)
  <2> DEFINE sum(i) == XorFour(Four(LAMBDA j : FT[j][y[From(ENCRYPT, i, j)][j]]))
  <2>1. TableRound(ctx, ENCRYPT, r)[y] = XorBlock(RoundKey(ctx, r), Four(LAMBDA i : sum(i)))
    BY DEF TableRound
  <2>2. Four(LAMBDA i : sum(i)) = <<sum(1), sum(2), sum(3), sum(4)>>
    BY DEF Four
  <2>3. ASSUME NEW i \in 1..4 PROVE sum(i) = Looked(FT, Taken(y, i))
    <3>1. sum(i) = XorFour(<<FT[1][y[From(ENCRYPT, i, 1)][1]], FT[2][y[From(ENCRYPT, i, 2)][2]],
                             FT[3][y[From(ENCRYPT, i, 3)][3]], FT[4][y[From(ENCRYPT, i, 4)][4]]>>)
      BY DEF Four
    <3>2. \A j \in 1..4 : Taken(y, i)[j] = y[From(ENCRYPT, i, j)][j]
      BY TakenType
    <3>3. sum(i) = XorFour(<<FT[1][Taken(y, i)[1]], FT[2][Taken(y, i)[2]],
                             FT[3][Taken(y, i)[3]], FT[4][Taken(y, i)[4]]>>)
      BY <3>1, <3>2
    <3> QED
      BY <3>3 DEF XorFour, Looked
  <2> HIDE DEF sum
  <2>4. Four(LAMBDA i : sum(i)) = [i \in 1..4 |-> Looked(FT, Taken(y, i))]
    BY <2>2, <2>3
  <2> QED
    BY <2>1, <2>4 DEF Encrypted
<1>2. ASSUME NEW z \in Block
      PROVE  TableRound(ctx, DECRYPT, r)[z]
               = XorBlock(RoundKey(ctx, r),
                          [i \in 1..4 |-> Looked(RT, [j \in 1..4 |-> z[From(DECRYPT, i, j)][j]])])
  <2> DEFINE sum(i) == XorFour(Four(LAMBDA j : RT[j][z[From(DECRYPT, i, j)][j]]))
             back(i) == [j \in 1..4 |-> z[From(DECRYPT, i, j)][j]]
  <2>1. TableRound(ctx, DECRYPT, r)[z] = XorBlock(RoundKey(ctx, r), Four(LAMBDA i : sum(i)))
    BY DEF TableRound, ENCRYPT, DECRYPT
  <2>2. Four(LAMBDA i : sum(i)) = <<sum(1), sum(2), sum(3), sum(4)>>
    BY DEF Four
  <2>3. ASSUME NEW i \in 1..4 PROVE sum(i) = Looked(RT, back(i))
    <3>1. sum(i) = XorFour(<<RT[1][z[From(DECRYPT, i, 1)][1]], RT[2][z[From(DECRYPT, i, 2)][2]],
                             RT[3][z[From(DECRYPT, i, 3)][3]], RT[4][z[From(DECRYPT, i, 4)][4]]>>)
      BY DEF Four
    <3> QED
      BY <3>1 DEF XorFour, Looked
  <2> HIDE DEF sum, back
  <2>4. Four(LAMBDA i : sum(i)) = [i \in 1..4 |-> Looked(RT, back(i))]
    BY <2>2, <2>3
  <2> QED
    BY <2>1, <2>4 DEF back
<1> QED
  BY <1>1, <1>2

LEMMA LastRoundIs ==
  ASSUME NEW ctx
  PROVE  /\ \A y \in Block :
              LastRound(ctx, ENCRYPT)[y] = XorBlock(RoundKey(ctx, ctx.nr), Shifted(y))
         /\ \A z \in Block :
              LastRound(ctx, DECRYPT)[z]
                = XorBlock(RoundKey(ctx, ctx.nr),
                           [i \in 1..4 |-> [j \in 1..4 |-> RSb[z[From(DECRYPT, i, j)][j]]]])
<1>1. ASSUME NEW y \in Block
      PROVE  LastRound(ctx, ENCRYPT)[y] = XorBlock(RoundKey(ctx, ctx.nr), Shifted(y))
  <2> DEFINE bytes(i) == Four(LAMBDA j : FSb[y[From(ENCRYPT, i, j)][j]])
  <2>1. LastRound(ctx, ENCRYPT)[y]
          = XorBlock(RoundKey(ctx, ctx.nr), Four(LAMBDA i : bytes(i)))
    BY DEF LastRound
  <2>2. Four(LAMBDA i : bytes(i)) = <<bytes(1), bytes(2), bytes(3), bytes(4)>>
    BY DEF Four
  <2>3. ASSUME NEW i \in 1..4 PROVE bytes(i) = Shifted(y)[i]
    BY DEF Four, Shifted, Taken
  <2> HIDE DEF bytes
  <2>4. Four(LAMBDA i : bytes(i)) = Shifted(y)
    BY <2>2, <2>3 DEF Shifted
  <2> QED
    BY <2>1, <2>4
<1>2. ASSUME NEW z \in Block
      PROVE  LastRound(ctx, DECRYPT)[z]
               = XorBlock(RoundKey(ctx, ctx.nr),
                          [i \in 1..4 |-> [j \in 1..4 |-> RSb[z[From(DECRYPT, i, j)][j]]]])
  <2> DEFINE bytes(i) == Four(LAMBDA j : RSb[z[From(DECRYPT, i, j)][j]])
  <2>1. LastRound(ctx, DECRYPT)[z]
          = XorBlock(RoundKey(ctx, ctx.nr), Four(LAMBDA i : bytes(i)))
    BY DEF LastRound, ENCRYPT, DECRYPT
  <2>2. Four(LAMBDA i : bytes(i)) = <<bytes(1), bytes(2), bytes(3), bytes(4)>>
    BY DEF Four
  <2>3. ASSUME NEW i \in 1..4
        PROVE  bytes(i) = [j \in 1..4 |-> RSb[z[From(DECRYPT, i, j)][j]]]
    BY DEF Four
  <2> HIDE DEF bytes
  <2>4. Four(LAMBDA i : bytes(i)) = [i \in 1..4 |-> [j \in 1..4 |-> RSb[z[From(DECRYPT, i, j)][j]]]]
    BY <2>2, <2>3
  <2> QED
    BY <2>1, <2>4
<1> QED
  BY <1>1, <1>2

(* Decrypting a block under a key undoes encrypting it.                    *)
Undone(k, x) ==
  LET c == aes_crypt_ecb(aes_setkey_enc(k), ENCRYPT, x)
  IN  c \in Block /\ aes_crypt_ecb(aes_setkey_dec(k), DECRYPT, c) = x

(* The loops through the rounds: after i rounds of decryption the state is *)
(* what FSb and the shift of rows make of the state before i more rounds   *)
(* of encryption.                                                          *)
LEMMA BlockIsUndone ==
  ASSUME NEW k \in Seq(Word), LegalKey(k), NEW x \in Block
  PROVE  Undone(k, x)
<1> DEFINE e == aes_setkey_enc(k)
           d == aes_setkey_dec(k)
           n == TableRounds(e)
           up == [r \in 1..n |-> TableRound(e, ENCRYPT, r)]
           down == [r \in 1..n |-> TableRound(d, DECRYPT, r)]
           K(r) == RoundKey(e, r)
           c == aes_crypt_ecb(e, ENCRYPT, x)
<1>1. e.nr \in {10, 12, 14} /\ e.rk \in Seq(Word) /\ 4 * (e.nr + 1) <= Len(e.rk)
  BY EncryptionKey
<1>2. \A r \in 0..e.nr : K(r) \in Block
  BY <1>1, RoundKeyType
<1>3. d.nr = e.nr /\ \A r \in 0..e.nr :
        RoundKey(d, r) = IF r \in 1..(e.nr - 1) THEN [i \in 1..4 |-> Through[K(e.nr - r)[i]]]
                                                ELSE K(e.nr - r)
  BY <1>1, DecryptionKey
<1>4. n \in 1..13 /\ e.nr = n + 1 /\ TableRounds(d) = n
  <2> HIDE DEF e, d
  <2> QED
    BY <1>1, <1>3 DEF TableRounds
<1>5. \A r \in 1..n : up[r] = TableRound(e, ENCRYPT, r) /\ down[r] = TableRound(d, DECRYPT, r)
  OBVIOUS
<1>6. c = LastRound(e, ENCRYPT)[Loop(up, XorBlock(x, K(0)), n)]
  BY DEF aes_crypt_ecb
<1>7. aes_crypt_ecb(d, DECRYPT, c)
        = LastRound(d, DECRYPT)[Loop(down, XorBlock(c, RoundKey(d, 0)), n)]
  BY <1>4 DEF aes_crypt_ecb
<1> HIDE DEF e, d, n, up, down, K, c
<1>8. n \in Nat /\ n \in 0..n /\ 0 \in 0..n /\ n + 1 \in 0..e.nr /\ 0 \in 0..e.nr
  BY <1>4
<1>9. PICK y : Steps(y, up, XorBlock(x, K(0)), n)
  BY <1>8, LoopSteps
<1>10. ASSUME NEW r \in 1..n, y[r - 1] \in Block
       PROVE  y[r] = Encrypted(K(r), y[r - 1]) /\ y[r] \in Block
  <2>1. PICK last \in Block : last = y[r - 1]
    BY <1>10
  <2>2. y[r] = TableRound(e, ENCRYPT, r)[last]
    BY <1>5, <1>9, <2>1 DEF Steps
  <2>3. y[r] = Encrypted(K(r), last) /\ K(r) \in Block
    BY <1>2, <1>4, <2>2, TableRoundIs DEF K
  <2> QED
    BY <2>1, <2>3, EncryptedIs
<1>11. \A r \in 0..n : y[r] \in Block
  <2> DEFINE S == [r \in 0..n |-> Block]
  <2>1. \A r \in 0..n : S[r] = Block
    OBVIOUS
  <2> HIDE DEF S
  <2>2. y[0] \in S[0]
    BY <1>2, <1>8, <1>9, <2>1, XorBlockLaws DEF Steps
  <2>3. \A r \in 1..n : y[r - 1] \in S[r - 1] => y[r] \in S[r]
    <3>1. \A r \in 1..n : r - 1 \in 0..n /\ r \in 0..n
      BY <1>8
    <3> QED
      BY <1>10, <2>1, <3>1
  <2>4. \A r \in 0..n : y[r] \in S[r]
    BY <1>8, <2>2, <2>3, LoopStays
  <2> QED
    BY <2>1, <2>4
<1>12. c = XorBlock(K(n + 1), Shifted(y[n])) /\ Shifted(y[n]) \in Block /\ c \in Block
  <2>1. y[n] \in Block
    BY <1>8, <1>11
  <2>2. Loop(up, XorBlock(x, K(0)), n) = y[n]
    BY <1>9 DEF Steps
  <2>3. c = XorBlock(RoundKey(e, e.nr), Shifted(y[n]))
    BY <1>6, <2>1, <2>2, LastRoundIs
  <2>4. c = XorBlock(K(n + 1), Shifted(y[n]))
    BY <1>4, <2>3 DEF K
  <2> QED
    BY <1>2, <1>8, <2>1, <2>4, ShiftedType, XorBlockLaws
<1>13. XorBlock(c, RoundKey(d, 0)) = Shifted(y[n])
  <2>1. RoundKey(d, 0) = K(n + 1) /\ K(n + 1) \in Block
    BY <1>2, <1>3, <1>4, <1>8
  <2>2. c = XorBlock(Shifted(y[n]), K(n + 1))
    BY <1>12, <2>1, XorBlockLaws
  <2> QED
    BY <1>12, <2>1, <2>2, XorBlockLaws
<1>14. PICK z : Steps(z, down, Shifted(y[n]), n)
  BY <1>8, LoopSteps
<1>15. \A r \in 0..n : z[r] = Shifted(y[n - r])
  <2> DEFINE S == [r \in 0..n |-> {Shifted(y[n - r])}]
  <2>1. \A r \in 0..n : S[r] = {Shifted(y[n - r])}
    OBVIOUS
  <2> HIDE DEF S
  <2>2. z[0] \in S[0]
    <3>1. n - 0 = n
      BY <1>8
    <3> QED
      BY <1>8, <1>14, <2>1, <3>1 DEF Steps
  <2>3. ASSUME NEW r \in 1..n, z[r - 1] \in S[r - 1] PROVE z[r] \in S[r]
    <3>1. PICK s \in 1..n : s = e.nr - r /\ s = n - (r - 1) /\ s - 1 = n - r
      BY <1>4
    <3>2. /\ r \in 0..n /\ r - 1 \in 0..n /\ s - 1 \in 0..n
          /\ r \in 1..(e.nr - 1) /\ r \in 0..e.nr /\ s \in 0..e.nr
      BY <1>4, <3>1
    <3>3. y[s - 1] \in Block
      BY <1>11, <3>2
    <3>4. y[s] = Encrypted(K(s), y[s - 1]) /\ y[s] \in Block
      BY <1>10, <3>3
    <3>5. PICK w \in Block : w = z[r - 1] /\ w = Shifted(y[s])
      <4>1. z[r - 1] = Shifted(y[s])
        BY <2>1, <2>3, <3>1, <3>2
      <4> QED
        BY <3>4, <4>1, ShiftedType
    <3>6. z[r] = TableRound(d, DECRYPT, r)[w]
      BY <1>5, <1>14, <3>5 DEF Steps
    <3>7. RoundKey(d, r) = [m \in 1..4 |-> Through[K(s)[m]]]
      BY <1>3, <3>1, <3>2
    <3>8. z[r] = XorBlock(RoundKey(d, r),
                          [m \in 1..4 |-> Looked(RT, [j \in 1..4 |-> w[From(DECRYPT, m, j)][j]])])
      BY <3>6, TableRoundIs
    <3>9. z[r] = Decrypted(K(s), Shifted(y[s]))
      BY <3>5, <3>7, <3>8 DEF Decrypted
    <3>10. K(s) \in Block
      BY <1>2, <3>2
    <3>11. z[r] = Shifted(y[s - 1])
      BY <3>3, <3>4, <3>9, <3>10, RoundUndone
    <3> QED
      BY <2>1, <3>1, <3>2, <3>11
  <2>4. \A r \in 0..n : z[r] \in S[r]
    BY <1>8, <2>2, <2>3, LoopStays
  <2> QED
    BY <2>1, <2>4
<1>16. z[n] = Shifted(y[0]) /\ y[0] \in Block
  <2>1. n - n = 0
    BY <1>8
  <2> QED
    BY <1>8, <1>11, <1>15, <2>1
<1>17. aes_crypt_ecb(d, DECRYPT, c) = x
  <2> DEFINE s == Shifted(y[0])
             b == [i \in 1..4 |-> [j \in 1..4 |-> RSb[s[From(DECRYPT, i, j)][j]]]]
  <2>1. s \in Block
    BY <1>16, ShiftedType
  <2>2. aes_crypt_ecb(d, DECRYPT, c) = LastRound(d, DECRYPT)[s]
    BY <1>7, <1>13, <1>14, <1>16 DEF Steps
  <2>3. RoundKey(d, d.nr) = K(0)
    <3>1. e.nr \in 0..e.nr /\ e.nr \notin 1..(e.nr - 1) /\ e.nr - e.nr = 0
      BY <1>1
    <3> QED
      BY <1>3, <3>1
  <2> HIDE DEF s
  <2>4. aes_crypt_ecb(d, DECRYPT, c) = XorBlock(K(0), b)
    BY <2>1, <2>2, <2>3, LastRoundIs
  <2>5. ASSUME NEW i \in 1..4, NEW j \in 1..4
        PROVE  RSb[s[From(DECRYPT, i, j)][j]] = y[0][i][j]
    <3>1. PICK m \in 1..4 : m = From(DECRYPT, i, j) /\ From(ENCRYPT, m, j) = i
      BY FromIs
    <3>2. s[m][j] = FSb[Taken(y[0], m)[j]]
      BY <1>16, ShiftedType DEF s
    <3>3. Taken(y[0], m)[j] = y[0][i][j]
      BY <3>1 DEF Taken
    <3>4. y[0][i][j] \in Byte
      BY <1>16 DEF Block, Word
    <3> QED
      BY <3>1, <3>2, <3>3, <3>4, TablesAssumption
  <2>6. b = y[0]
    <3>1. ASSUME NEW i \in 1..4 PROVE b[i] = y[0][i] /\ y[0][i] \in Word
      <4>1. b[i] = [j \in 1..4 |-> y[0][i][j]]
        BY <2>5
      <4>2. y[0][i] \in Word
        BY <1>16 DEF Block
      <4> QED
        BY <4>1, <4>2 DEF Word
    <3>2. b \in Block
      BY <3>1 DEF Block
    <3> HIDE DEF b
    <3> QED
      BY <1>16, <3>1, <3>2, SameItems DEF Block
  <2>7. y[0] = XorBlock(x, K(0)) /\ K(0) \in Block
    BY <1>2, <1>8, <1>9 DEF Steps
  <2> HIDE DEF b
  <2>8. XorBlock(K(0), y[0]) = XorBlock(y[0], K(0))
    BY <1>16, <2>7, XorBlockLaws
  <2> QED
    BY <2>4, <2>6, <2>7, <2>8, XorBlockLaws
<1> QED
  BY <1>12, <1>17 DEF Undone, c, d, e

------------------------------------------------------------------------------
(* The standard: its operations on bytes are those of the tables, so its   *)
(* key schedule and its rounds are those of the code.                      *)
LEMMA StandardPlus ==
  ASSUME NEW f, NEW g, \A j \in 1..4 : f[j] \in Byte /\ g[j] \in Byte
  PROVE  Standard!Column(LAMBDA j : Standard!Plus(f[j], g[j]))
           = XorWord(f, g)
<1>1. \A j \in 1..4 : Standard!Plus(f[j], g[j]) = Xor(f[j], g[j])
  BY StandardAssumption
<1>2. Standard!Column(LAMBDA j : Standard!Plus(f[j], g[j]))
        = <<Standard!Plus(f[1], g[1]), Standard!Plus(f[2], g[2]),
            Standard!Plus(f[3], g[3]), Standard!Plus(f[4], g[4])>>
  BY DEF Standard!Column
<1>3. XorWord(f, g) = <<Xor(f[1], g[1]), Xor(f[2], g[2]), Xor(f[3], g[3]), Xor(f[4], g[4])>>
  BY DEF XorWord, Four
<1> QED
  BY <1>1, <1>2, <1>3

LEMMA StandardSub ==
  ASSUME NEW t \in Word
  PROVE  Standard!SubWord(t) = Subst(FSb, t)
<1>1. \A j \in 1..4 : t[j] \in Byte
  BY DEF Word
<1>2. Standard!SubWord(t) = <<FSb[t[1]], FSb[t[2]], FSb[t[3]], FSb[t[4]]>>
  BY <1>1, StandardAssumption DEF Standard!SubWord, Standard!Column
<1>3. Subst(FSb, t) = <<FSb[t[1]], FSb[t[2]], FSb[t[3]], FSb[t[4]]>>
  BY DEF Subst, Four
<1> QED
  BY <1>2, <1>3

LEMMA StandardCore ==
  ASSUME NEW t \in Word, NEW i \in 1..10
  PROVE  LET u == Standard!SubWord(Standard!RotWord(t))
         IN  <<Standard!Plus(u[1], Standard!Rcon[i]), u[2], u[3], u[4]>> = Core(t, RCON[i])
<1> DEFINE r == <<t[2], t[3], t[4], t[1]>>
           u == Subst(FSb, r)
           c == <<RCON[i], 0, 0, 0>>
<1>1. r \in Word
  BY DEF Word
<1>2. u \in Word /\ \A j \in 1..4 : u[j] \in Byte
  BY <1>1, SubstType DEF Word
<1>3. Standard!SubWord(Standard!RotWord(t)) = u
  BY <1>1, StandardSub DEF Standard!RotWord
<1>4. Core(t, RCON[i]) = XorWord(u, c)
  BY DEF Core
<1>5. c[1] = RCON[i] /\ c[2] = 0 /\ c[3] = 0 /\ c[4] = 0
  OBVIOUS
<1> HIDE DEF u, c
<1>6. XorWord(u, c) = <<Xor(u[1], c[1]), Xor(u[2], c[2]), Xor(u[3], c[3]), Xor(u[4], c[4])>>
  BY DEF XorWord, Four
<1>7. PICK o \in Byte : o = 0
  BY DEF Byte
<1>8. Xor(u[2], o) = u[2] /\ Xor(u[3], o) = u[3] /\ Xor(u[4], o) = u[4]
  <2>1. \A x \in Byte : Xor(x, o) = x
    BY <1>7, XorLaws
  <2> QED
    BY <1>2, <2>1
<1>9. Standard!Plus(u[1], Standard!Rcon[i]) = Xor(u[1], RCON[i])
  BY <1>2, StandardAssumption, TablesAssumption
<1> QED
  BY <1>3, <1>4, <1>5, <1>6, <1>7, <1>8, <1>9

(* The standard's schedule is one, as long as the rounds need it to be.    *)
LEMMA StandardKey ==
  ASSUME NEW k \in Seq(Word), LegalKey(k)
  PROVE  Standard!KeyExpansion(k) \in Schedules(k, 4 * (Len(k) + 7))
<1> DEFINE nk == Len(k)
           new == (3 * nk) + 28
           temp(t, i) ==
             CASE i % nk = 0 -> LET u == Standard!SubWord(Standard!RotWord(t))
                                IN  <<Standard!Plus(u[1], Standard!Rcon[i \div nk]), u[2], u[3], u[4]>>
               [] i % nk = 4 /\ nk > 6 -> Standard!SubWord(t)
               [] OTHER -> t
           sum(t, u) == Standard!Column(LAMBDA j : Standard!Plus(t[j], u[j]))
           word(i) == [w \in Seq(Word) |-> Append(w, sum(w[i + 1 - nk], temp(w[i], i)))]
           step == [n \in 1..new |-> word(nk + n - 1)]
           S == [n \in 0..new |-> Schedules(k, nk + n)]
<1>1. Standard!KeyWords = Seq(Word)
  BY DEF Standard!KeyWords, Standard!Bytes, Word, Byte
<1>2. Standard!KeyExpansion(k) = Standard!Loop(step, k, new)
  BY <1>1 DEF Standard!KeyExpansion
<1>3. Standard!Loop(step, k, new) = Loop(step, k, new)
  BY DEF Standard!Loop, Loop
<1>4. nk \in {4, 6, 8} /\ k \in Seq(Word) /\ Len(k) = nk
  BY DEF LegalKey
<1>5. \A n \in 1..new : step[n] = word(nk + n - 1)
  OBVIOUS
<1>6. \A n \in 0..new : S[n] = Schedules(k, nk + n)
  OBVIOUS
<1>7. ASSUME NEW i \in nk..(nk + new - 1), NEW w \in Schedules(k, i)
      PROVE  word(i)[w] \in Schedules(k, i + 1)
  <2> DEFINE v == XorWord(w[i + 1 - nk], Mixed(w[i], nk, i \div nk, (i % nk) + 1))
  <2>1. w \in Seq(Word) /\ Len(w) = i
    BY DEF Schedules
  <2>2. i \in Nat /\ nk < i + 1 /\ i \div nk \in 1..10 /\ i % nk \in 0..(nk - 1)
        /\ i + 1 - nk \in 1..i /\ i \in 1..i
    <3> HIDE DEF nk
    <3>1. CASE nk = 4
      BY <3>1
    <3>2. CASE nk = 6
      BY <3>2
    <3>3. CASE nk = 8
      BY <3>3
    <3> QED
      BY <1>4, <3>1, <3>2, <3>3
  <2>3. w[i] \in Word /\ w[i + 1 - nk] \in Word
    BY <2>1, <2>2
  <2>4. temp(w[i], i) = Mixed(w[i], nk, i \div nk, (i % nk) + 1)
    <3> DEFINE t == w[i]  row == i \div nk  col == i % nk
    <3>1. t \in Word /\ row \in 1..10 /\ col \in 0..(nk - 1)
      BY <2>2, <2>3
    <3>2. temp(t, i) =
            CASE col = 0 -> LET u == Standard!SubWord(Standard!RotWord(t))
                            IN  <<Standard!Plus(u[1], Standard!Rcon[row]), u[2], u[3], u[4]>>
              [] col = 4 /\ nk > 6 -> Standard!SubWord(t)
              [] OTHER -> t
      OBVIOUS
    <3> HIDE DEF t, row, col, nk
    <3>3. Standard!SubWord(t) = Subst(FSb, t)
      BY <3>1, StandardSub
    <3>4. LET u == Standard!SubWord(Standard!RotWord(t))
          IN  <<Standard!Plus(u[1], Standard!Rcon[row]), u[2], u[3], u[4]>> = Core(t, RCON[row])
      BY <3>1, StandardCore
    <3>5. temp(t, i) = CASE col = 0 -> Core(t, RCON[row])
                         [] col = 4 /\ nk > 6 -> Subst(FSb, t)
                         [] OTHER -> t
      BY <3>2, <3>3, <3>4
    <3> HIDE DEF temp
    <3>6. temp(t, i) = Mixed(t, nk, row, col + 1)
      <4>1. CASE col = 0
        BY <3>5, <4>1 DEF Mixed
      <4>2. CASE col = 4 /\ nk = 8
        BY <3>5, <4>2 DEF Mixed
      <4>3. CASE col # 0 /\ ~(col = 4 /\ nk = 8)
        BY <1>4, <3>1, <3>5, <4>3 DEF Mixed
      <4> QED
        BY <4>1, <4>2, <4>3
    <3> QED
      BY <3>6 DEF t, row, col
  <2>5. Mixed(w[i], nk, i \div nk, (i % nk) + 1) \in Word
    <3>1. (i % nk) + 1 \in 1..nk
      BY <1>4, <2>2
    <3> HIDE DEF nk
    <3> QED
      BY <1>4, <2>2, <2>3, <3>1, MixedType
  <2>6. v \in Word
    BY <2>3, <2>5, XorWordLaws
  <2>7. sum(w[i + 1 - nk], temp(w[i], i)) = v
    <3> DEFINE t == w[i + 1 - nk]  u == Mixed(w[i], nk, i \div nk, (i % nk) + 1)
    <3>1. t \in Word /\ u \in Word
      BY <2>3, <2>5
    <3> HIDE DEF t, u
    <3>2. \A j \in 1..4 : t[j] \in Byte /\ u[j] \in Byte
      BY <3>1 DEF Word
    <3>3. sum(t, u) = XorWord(t, u)
      BY <3>2, StandardPlus
    <3>4. temp(w[i], i) = u
      BY <2>4 DEF u
    <3> HIDE DEF temp, sum
    <3>5. sum(t, temp(w[i], i)) = XorWord(t, u)
      BY <3>3, <3>4
    <3> QED
      BY <3>5 DEF t, u
  <2>8. word(i)[w] = Append(w, v)
    BY <2>1, <2>7
  <2>9. PICK m \in Nat : m = i + 1 /\ nk < m /\ i = m - 1
    BY <2>2
  <2>10. v = XorWord(w[m - nk], Mixed(w[m - 1], nk, (m - 1) \div nk, ((m - 1) % nk) + 1))
    BY <2>9
  <2>11. w \in Schedules(k, m - 1)
    BY <2>9
  <2> HIDE DEF v, nk
  <2>12. Append(w, v) \in Schedules(k, m)
    BY <1>4, <2>6, <2>9, <2>10, <2>11, AppendScheduled
  <2> QED
    BY <2>8, <2>9, <2>12
<1> HIDE DEF step, S, word, nk
<1>8. new \in Nat /\ 0 \in 0..new /\ new \in 0..new /\ nk + 0 = nk /\ nk + new = 4 * (nk + 7)
  BY <1>4
<1>9. PICK y : Steps(y, step, k, new)
  BY <1>8, LoopSteps
<1>10. y[0] \in S[0]
  <2>1. k \in Schedules(k, nk)
    BY <1>4 DEF Schedules, Scheduled
  <2> QED
    BY <1>6, <1>8, <1>9, <2>1 DEF Steps
<1>11. ASSUME NEW n \in 1..new, y[n - 1] \in S[n - 1] PROVE y[n] \in S[n]
  <2>1. PICK i \in nk..(nk + new - 1) : i = nk + n - 1 /\ i = nk + (n - 1) /\ i + 1 = nk + n
    BY <1>4
  <2>2. n - 1 \in 0..new /\ n \in 0..new
    BY <1>8
  <2>3. PICK w \in Schedules(k, i) : w = y[n - 1]
    BY <1>6, <1>11, <2>1, <2>2
  <2>4. y[n] = word(i)[w]
    BY <1>5, <1>9, <2>1, <2>3 DEF Steps
  <2>5. word(i)[w] \in Schedules(k, i + 1)
    BY <1>7
  <2> QED
    BY <1>6, <2>1, <2>2, <2>4, <2>5
<1>12. y[new] \in S[new]
  <2>1. \A n \in 0..new : y[n] \in S[n]
    BY <1>8, <1>10, <1>11, LoopStays
  <2> QED
    BY <1>8, <2>1
<1>13. Loop(step, k, new) \in Schedules(k, 4 * (nk + 7))
  BY <1>6, <1>8, <1>9, <1>12 DEF Steps
<1> QED
  BY <1>2, <1>3, <1>13 DEF nk

(* A key has one schedule. *)
LEMMA SameSchedule ==
  ASSUME NEW k, Len(k) \in {4, 6, 8}, NEW a \in Nat, NEW b \in Nat, a <= b,
         NEW v \in Schedules(k, a), NEW w \in Schedules(k, b)
  PROVE  \A m \in 1..a : v[m] = w[m]
<1> DEFINE T == {n \in Nat : \A m \in 1..n : m <= a => v[m] = w[m]}
<1>1. 0 \in T
  OBVIOUS
<1>2. ASSUME NEW n \in Nat, n \in T PROVE n + 1 \in T
  <2> SUFFICES ASSUME NEW m \in 1..(n + 1), m <= a PROVE v[m] = w[m]
    OBVIOUS
  <2>1. \A q \in 1..n : q <= a => v[q] = w[q]
    BY <1>2
  <2>2. Len(v) = a /\ Len(w) = b /\ Scheduled(v, k) /\ Scheduled(w, k)
    BY DEF Schedules
  <2>3. CASE m <= Len(k)
    <3>1. m \in 1..Len(k)
      BY <2>3
    <3> QED
      BY <2>2, <3>1 DEF Scheduled
  <2>4. CASE m > Len(k)
    <3> DEFINE nk == Len(k)
    <3>1. nk \in {4, 6, 8}
      OBVIOUS
    <3>2. m > nk
      BY <2>4
    <3> HIDE DEF nk
    <3>3. /\ m \in (nk + 1)..Len(v) /\ m \in (nk + 1)..Len(w)
          /\ m - 1 \in 1..n /\ m - 1 <= a /\ m - nk \in 1..n /\ m - nk <= a
      BY <2>2, <3>1, <3>2
    <3>4. /\ m \in (Len(k) + 1)..Len(v) /\ m \in (Len(k) + 1)..Len(w)
          /\ m - 1 \in 1..n /\ m - 1 <= a /\ m - Len(k) \in 1..n /\ m - Len(k) <= a
      BY <3>3 DEF nk
    <3>5. v[m - 1] = w[m - 1] /\ v[m - Len(k)] = w[m - Len(k)]
      BY <2>1, <3>4
    <3>6. /\ v[m] = XorWord(v[m - Len(k)],
                Mixed(v[m - 1], Len(k), (m - 1) \div Len(k), ((m - 1) % Len(k)) + 1))
          /\ w[m] = XorWord(w[m - Len(k)],
                Mixed(w[m - 1], Len(k), (m - 1) \div Len(k), ((m - 1) % Len(k)) + 1))
      BY <2>2, <3>4 DEF Scheduled
    <3> QED
      BY <3>5, <3>6
  <2> QED
    BY <2>3, <2>4
<1> HIDE DEF T
<1>3. \A n \in Nat : n \in T
  BY <1>1, <1>2, SetInduction
<1>4. a \in T
  BY <1>3
<1> QED
  BY <1>4 DEF T

(* The state of the standard after a round of it.                          *)
LEMMA StandardShift ==
  ASSUME NEW s \in Block
  PROVE  Standard!ShiftRows(Standard!SubBytes(s)) = Shifted(s)
<1> DEFINE b(c) == Standard!Column(LAMBDA j : Standard!Sbox[s[c][j]])
           B == Standard!SubBytes(s)
           r(c) == Standard!Column(LAMBDA j : B[((c + j - 2) % 4) + 1][j])
<1>1. B = <<b(1), b(2), b(3), b(4)>>
  BY DEF Standard!SubBytes, Standard!Columns, Standard!Column
<1>2. ASSUME NEW c \in 1..4 PROVE \A j \in 1..4 : B[c][j] = FSb[s[c][j]]
  <2>1. B[c] = b(c)
    <3> HIDE DEF b, B
    <3> QED
      BY <1>1
  <2>2. \A j \in 1..4 : s[c][j] \in Byte
    BY DEF Block, Word
  <2>3. \A j \in 1..4 : b(c)[j] = Standard!Sbox[s[c][j]]
    BY DEF Standard!Column
  <2> QED
    BY <2>1, <2>2, <2>3, StandardAssumption
<1> HIDE DEF B
<1>3. Standard!ShiftRows(B) = <<r(1), r(2), r(3), r(4)>>
  BY DEF Standard!ShiftRows, Standard!Columns, Standard!Column
<1>4. ASSUME NEW c \in 1..4 PROVE r(c) = Shifted(s)[c]
  <2>1. r(c) = <<B[((c + 1 - 2) % 4) + 1][1], B[((c + 2 - 2) % 4) + 1][2],
                 B[((c + 3 - 2) % 4) + 1][3], B[((c + 4 - 2) % 4) + 1][4]>>
    BY DEF Standard!Column
  <2>2. ASSUME NEW j \in 1..4
        PROVE  B[((c + j - 2) % 4) + 1][j] = FSb[s[From(ENCRYPT, c, j)][j]]
    <3>1. ((c + j - 2) % 4) + 1 = From(ENCRYPT, c, j) /\ From(ENCRYPT, c, j) \in 1..4
      BY FromIs DEF From, ENCRYPT
    <3> QED
      BY <1>2, <3>1
  <2>3. Shifted(s)[c] = [j \in 1..4 |-> FSb[s[From(ENCRYPT, c, j)][j]]]
    BY DEF Shifted, Taken
  <2>4. r(c) = <<FSb[s[From(ENCRYPT, c, 1)][1]], FSb[s[From(ENCRYPT, c, 2)][2]],
                 FSb[s[From(ENCRYPT, c, 3)][3]], FSb[s[From(ENCRYPT, c, 4)][4]]>>
    BY <2>1, <2>2
  <2> QED
    BY <2>3, <2>4
<1> HIDE DEF r
<1>5. Standard!ShiftRows(B) = Shifted(s)
  BY <1>3, <1>4 DEF Shifted
<1> QED
  BY <1>5 DEF B

LEMMA StandardMix ==
  ASSUME NEW s \in Block
  PROVE  Standard!MixColumns(Shifted(s)) = [c \in 1..4 |-> Looked(FT, Taken(s, c))]
<1> DEFINE z == Shifted(s)
           term(c, j, k) ==
             Standard!Multiple[Standard!Coefficient[((k + 4 - j) % 4) + 1]][z[c][k]]
           item(c, j) == Standard!Plus(Standard!Plus(term(c, j, 1), term(c, j, 2)),
                                       Standard!Plus(term(c, j, 3), term(c, j, 4)))
           m(c) == Standard!Column(LAMBDA j : item(c, j))
<1>1. Standard!MixColumns(z) = <<m(1), m(2), m(3), m(4)>>
  BY DEF Standard!MixColumns, Standard!Columns, Standard!Column
<1>2. ASSUME NEW c \in 1..4 PROVE m(c) = Looked(FT, Taken(s, c))
  <2> DEFINE b == Taken(s, c)
  <2>1. b \in Word /\ \A k \in 1..4 : b[k] \in Byte /\ z[c][k] = FSb[b[k]]
    BY TakenType, ShiftedType DEF Word
  <2> HIDE DEF b
  <2>2. ASSUME NEW j \in 1..4, NEW k \in 1..4
        PROVE  term(c, j, k) = FT[k][b[k]][j] /\ FT[k][b[k]][j] \in Byte
    <3>1. FT[k][b[k]][j]
            = Standard!Multiple[Standard!Coefficient[((k + 4 - j) % 4) + 1]][FSb[b[k]]]
      BY <2>1, StandardAssumption
    <3>2. FT[k][b[k]] \in Word
      BY <2>1, TablesAssumption
    <3> QED
      BY <2>1, <3>1, <3>2 DEF Word
  <2>3. ASSUME NEW j \in 1..4 PROVE item(c, j) = Looked(FT, b)[j]
    <3> DEFINE p == FT[1][b[1]]  q == FT[2][b[2]]  r == FT[3][b[3]]  t == FT[4][b[4]]
    <3>1. p \in Word /\ q \in Word /\ r \in Word /\ t \in Word
      BY <2>1, TablesAssumption
    <3>2. /\ term(c, j, 1) = p[j] /\ term(c, j, 2) = q[j]
          /\ term(c, j, 3) = r[j] /\ term(c, j, 4) = t[j]
      BY <2>2
    <3>3. Looked(FT, b) = XorWord(XorWord(p, q), XorWord(r, t))
      BY DEF Looked
    <3> HIDE DEF p, q, r, t, term
    <3>4. p[j] \in Byte /\ q[j] \in Byte /\ r[j] \in Byte /\ t[j] \in Byte
      BY <3>1 DEF Word
    <3>5. XorWord(p, q) \in Word /\ XorWord(r, t) \in Word
      BY <3>1, XorWordLaws
    <3>6. /\ XorWord(p, q)[j] = Xor(p[j], q[j]) /\ XorWord(r, t)[j] = Xor(r[j], t[j])
          /\ XorWord(XorWord(p, q), XorWord(r, t))[j]
               = Xor(XorWord(p, q)[j], XorWord(r, t)[j])
      BY <3>1, <3>5, XorWordParts
    <3>7. Xor(p[j], q[j]) \in Byte /\ Xor(r[j], t[j]) \in Byte
      BY <3>4, XorLaws
    <3>8. item(c, j) = Xor(Xor(p[j], q[j]), Xor(r[j], t[j]))
      BY <3>2, <3>4, <3>7, StandardAssumption
    <3> QED
      BY <3>3, <3>6, <3>8
  <2>4. m(c) = <<item(c, 1), item(c, 2), item(c, 3), item(c, 4)>>
    BY DEF Standard!Column
  <2>5. Looked(FT, b) \in Word
    BY <2>1, LookedType
  <2> HIDE DEF item, m
  <2>6. m(c) = Looked(FT, b)
    BY <2>3, <2>4, <2>5 DEF Word
  <2> QED
    BY <2>6 DEF b
<1> HIDE DEF m, z
<1>3. Standard!MixColumns(z) = [c \in 1..4 |-> Looked(FT, Taken(s, c))]
  BY <1>1, <1>2
<1> QED
  BY <1>3 DEF z

LEMMA StandardAdd ==
  ASSUME NEW s \in Block, NEW w, NEW r, NEW K \in Block,
         \A c \in 1..4 : w[(4 * r) + c] = K[c]
  PROVE  Standard!AddRoundKey(s, w, r) = XorBlock(K, s)
<1> DEFINE a(c) == Standard!Column(LAMBDA j : Standard!Plus(s[c][j], w[(4 * r) + c][j]))
<1>1. Standard!AddRoundKey(s, w, r) = <<a(1), a(2), a(3), a(4)>>
  BY DEF Standard!AddRoundKey, Standard!Columns, Standard!Column
<1>2. ASSUME NEW c \in 1..4 PROVE a(c) = XorWord(s[c], K[c])
  <2> DEFINE f == s[c]  g == w[(4 * r) + c]
  <2>1. f \in Word /\ g \in Word /\ g = K[c]
    BY DEF Block
  <2> HIDE DEF f, g
  <2>2. \A j \in 1..4 : f[j] \in Byte /\ g[j] \in Byte
    BY <2>1 DEF Word
  <2>3. Standard!Column(LAMBDA j : Standard!Plus(f[j], g[j])) = XorWord(f, g)
    BY <2>2, StandardPlus
  <2> QED
    BY <2>1, <2>3 DEF f, g
<1> HIDE DEF a
<1>3. XorBlock(s, K) = <<XorWord(s[1], K[1]), XorWord(s[2], K[2]),
                         XorWord(s[3], K[3]), XorWord(s[4], K[4])>>
  BY DEF XorBlock, Four
<1>4. Standard!AddRoundKey(s, w, r) = XorBlock(s, K)
  BY <1>1, <1>2, <1>3
<1> QED
  BY <1>4, XorBlockLaws

(* aes_crypt_ecb computes the cipher of the standard, for every key of a   *)
(* legal length and every block.                                           *)
LEMMA BlockIsStandard ==
  ASSUME NEW k \in Seq(Word), LegalKey(k), NEW x \in Block
  PROVE  aes_crypt_ecb(aes_setkey_enc(k), ENCRYPT, x) = Standard!Cipher(k, x)
<1> DEFINE e == aes_setkey_enc(k)
           n == TableRounds(e)
           Nr == Len(k) + 6
           w == Standard!KeyExpansion(k)
           K(r) == RoundKey(e, r)
           up == [r \in 1..n |-> TableRound(e, ENCRYPT, r)]
           round(r) == [s \in Block |->
                          Standard!AddRoundKey(
                            Standard!MixColumns(Standard!ShiftRows(Standard!SubBytes(s))), w, r)]
           final == [s \in Block |->
                       Standard!AddRoundKey(Standard!ShiftRows(Standard!SubBytes(s)), w, Nr)]
           rounds == [r \in 1..(Nr - 1) |-> round(r)]
<1>1. /\ e.nr = Nr /\ e.nr \in {10, 12, 14}
      /\ e.rk \in Seq(Word) /\ 4 * (e.nr + 1) <= Len(e.rk)
      /\ Scheduled(e.rk, k)
  BY EncryptionKey
<1>2. n = Nr - 1 /\ Nr \in {10, 12, 14}
  <2> HIDE DEF e
  <2> QED
    BY <1>1 DEF TableRounds
<1>3. \A r \in 0..Nr : K(r) \in Block
  BY <1>1, RoundKeyType
<1>4. ASSUME NEW r \in 0..Nr, NEW c \in 1..4 PROVE w[(4 * r) + c] = K(r)[c]
  <2> DEFINE a == 4 * (Len(k) + 7)
             b == Len(e.rk)
  <2>1. /\ a \in Nat /\ b \in Nat /\ a <= b /\ (4 * r) + c \in 1..a
        /\ Len(k) \in {4, 6, 8}
    <3> HIDE DEF e
    <3> QED
      BY <1>1 DEF LegalKey
  <2>2. w \in Schedules(k, a)
    BY StandardKey
  <2>3. e.rk \in Schedules(k, b)
    BY <1>1 DEF Schedules
  <2> HIDE DEF a, b, w, e
  <2>4. w[(4 * r) + c] = e.rk[(4 * r) + c]
    BY <2>1, <2>2, <2>3, SameSchedule
  <2> QED
    BY <2>4 DEF RoundKey
<1>5. Standard!State = Block
  BY DEF Standard!State, Standard!Bytes, Block, Word, Byte
<1>6. Standard!Cipher(k, x) = final[Standard!Loop(rounds, Standard!AddRoundKey(x, w, 0), Nr - 1)]
  BY <1>5 DEF Standard!Cipher
<1>7. Standard!Loop(rounds, Standard!AddRoundKey(x, w, 0), Nr - 1)
        = Loop(rounds, Standard!AddRoundKey(x, w, 0), Nr - 1)
  BY DEF Standard!Loop, Loop
<1>8. aes_crypt_ecb(e, ENCRYPT, x) = LastRound(e, ENCRYPT)[Loop(up, XorBlock(x, K(0)), n)]
  BY DEF aes_crypt_ecb
<1>9. \A r \in 1..n : up[r] = TableRound(e, ENCRYPT, r)
  OBVIOUS
<1>10. \A r \in 1..(Nr - 1) : rounds[r] = round(r)
  OBVIOUS
<1>11. ASSUME NEW r \in 0..Nr, NEW s \in Block
       PROVE  Standard!AddRoundKey(s, w, r) = XorBlock(K(r), s)
  <2> HIDE DEF w, K
  <2> QED
    BY <1>3, <1>4, StandardAdd
<1>12. \A r \in 1..(Nr - 1), s \in Block : round(r)[s] = Encrypted(K(r), s)
  <2> SUFFICES ASSUME NEW r \in 1..(Nr - 1), NEW s \in Block
               PROVE  round(r)[s] = Encrypted(K(r), s)
    OBVIOUS
  <2> DEFINE m == [c \in 1..4 |-> Looked(FT, Taken(s, c))]
  <2>1. Standard!MixColumns(Standard!ShiftRows(Standard!SubBytes(s))) = m
    BY StandardShift, StandardMix
  <2>2. m \in Block
    BY TakenType, LookedType DEF Block
  <2>3. round(r)[s] = Standard!AddRoundKey(m, w, r)
    BY <2>1
  <2>4. r \in 0..Nr
    BY <1>2
  <2>5. Encrypted(K(r), s) = XorBlock(K(r), m)
    BY DEF Encrypted
  <2> HIDE DEF m, w, K, round
  <2> QED
    BY <1>11, <2>2, <2>3, <2>4, <2>5
<1>13. \A s \in Block : final[s] = LastRound(e, ENCRYPT)[s]
  <2> SUFFICES ASSUME NEW s \in Block PROVE final[s] = LastRound(e, ENCRYPT)[s]
    OBVIOUS
  <2>1. Shifted(s) \in Block /\ Standard!ShiftRows(Standard!SubBytes(s)) = Shifted(s)
    BY StandardShift, ShiftedType
  <2>2. final[s] = Standard!AddRoundKey(Shifted(s), w, Nr)
    BY <2>1
  <2>3. LastRound(e, ENCRYPT)[s] = XorBlock(K(Nr), Shifted(s))
    BY <1>1, LastRoundIs
  <2>4. Nr \in 0..Nr
    BY <1>2
  <2> HIDE DEF w, K, final
  <2> QED
    BY <1>11, <2>1, <2>2, <2>3, <2>4
<1>14. Standard!AddRoundKey(x, w, 0) = XorBlock(x, K(0)) /\ XorBlock(x, K(0)) \in Block
  <2>1. 0 \in 0..Nr
    BY <1>2
  <2> HIDE DEF w, K
  <2>2. K(0) \in Block
    BY <1>3, <2>1
  <2> QED
    BY <1>11, <2>1, <2>2, XorBlockLaws
<1> HIDE DEF e, n, w, K, up, round, final, rounds, Nr
<1>15. n \in Nat /\ n \in 0..n /\ 0 \in 0..n
  BY <1>2
<1>16. PICK y : Steps(y, up, XorBlock(x, K(0)), n)
  BY <1>15, LoopSteps
<1>17. PICK z : Steps(z, rounds, XorBlock(x, K(0)), n)
  BY <1>15, LoopSteps
<1>18. \A r \in 0..n : y[r] \in Block /\ z[r] = y[r]
  <2> DEFINE S == [r \in 0..n |-> Block]
             T == [r \in 0..n |-> {y[r]}]
  <2>1. \A r \in 0..n : S[r] = Block /\ T[r] = {y[r]}
    OBVIOUS
  <2>2. \A r \in 1..n : r \in 0..n /\ r - 1 \in 0..n /\ r \in 0..Nr /\ r \in 1..(Nr - 1)
    BY <1>2
  <2> HIDE DEF S, T
  <2>3. ASSUME NEW r \in 1..n, y[r - 1] \in Block
        PROVE  y[r] = Encrypted(K(r), y[r - 1]) /\ y[r] \in Block
    <3>1. PICK last \in Block : last = y[r - 1]
      BY <2>3
    <3>2. y[r] = TableRound(e, ENCRYPT, r)[last]
      BY <1>9, <1>16, <3>1 DEF Steps
    <3>3. y[r] = Encrypted(K(r), last) /\ K(r) \in Block
      BY <1>3, <2>2, <3>2, TableRoundIs DEF K
    <3> QED
      BY <3>1, <3>3, EncryptedIs
  <2>4. y[0] \in S[0] /\ z[0] \in T[0]
    BY <1>14, <1>15, <1>16, <1>17, <2>1 DEF Steps
  <2>5. \A r \in 1..n : y[r - 1] \in S[r - 1] => y[r] \in S[r]
    BY <2>1, <2>2, <2>3
  <2>6. \A r \in 0..n : y[r] \in S[r]
    BY <1>15, <2>4, <2>5, LoopStays
  <2>7. ASSUME NEW r \in 1..n, z[r - 1] \in T[r - 1] PROVE z[r] \in T[r]
    <3>1. PICK last \in Block : last = y[r - 1] /\ last = z[r - 1]
      BY <2>1, <2>2, <2>6, <2>7
    <3>2. z[r] = round(r)[last]
      BY <1>2, <1>10, <1>17, <2>2, <3>1 DEF Steps
    <3>3. z[r] = Encrypted(K(r), last)
      BY <1>12, <2>2, <3>1, <3>2
    <3>4. y[r] = Encrypted(K(r), last)
      BY <2>3, <3>1
    <3> QED
      BY <2>1, <2>2, <3>3, <3>4
  <2>8. \A r \in 0..n : z[r] \in T[r]
    BY <1>15, <2>4, <2>7, LoopStays
  <2> QED
    BY <2>1, <2>6, <2>8
<1>19. Loop(up, XorBlock(x, K(0)), n) = y[n] /\ Loop(rounds, XorBlock(x, K(0)), n) = z[n]
  BY <1>16, <1>17 DEF Steps
<1>20. aes_crypt_ecb(e, ENCRYPT, x) = Standard!Cipher(k, x)
  <2>1. y[n] \in Block /\ z[n] = y[n]
    BY <1>15, <1>18
  <2>2. Standard!Cipher(k, x) = final[z[n]]
    BY <1>2, <1>6, <1>7, <1>14, <1>19
  <2>3. aes_crypt_ecb(e, ENCRYPT, x) = LastRound(e, ENCRYPT)[y[n]]
    BY <1>8, <1>19
  <2> QED
    BY <1>13, <2>1, <2>2, <2>3
<1> QED
  BY <1>20 DEF e

------------------------------------------------------------------------------
(* While the device encrypts, what is behind pos is plain. While the       *)
(* receiver decrypts, what is before pos is plain again, and from pos on   *)
(* the chain is intact: iv takes the place of the block just overwritten.  *)
ChainInv ==
  /\ pc \in {"setkey", "encrypt"} =>
       /\ \A k \in pos..Len(buffer) : buffer[k] = plain[k]
       /\ iv = Before(pos)
  /\ pc = "encrypt" =>
       \A k \in 1..(pos - 1) :
         buffer[k] = aes_crypt_ecb(enc, ENCRYPT, XorBlock(plain[k], Before(k)))
  /\ pc = "decrypt" =>
       /\ \A k \in 1..(pos - 1) : buffer[k] = plain[k]
       /\ \A k \in pos..Len(buffer) :
            buffer[k] =
              aes_crypt_ecb(enc, ENCRYPT,
                            XorBlock(plain[k], IF k = pos THEN iv ELSE buffer[k - 1]))
  /\ pc = "done" => \A k \in 1..Len(buffer) : buffer[k] = plain[k]

ContextInv ==
  /\ pc \in {"encrypt", "decrypt"} => LegalKey(key) /\ enc = aes_setkey_enc(key)
  /\ pc = "decrypt" => dec = aes_setkey_dec(key)
  /\ pc = "setkey" => pos = 1

IInv == TypeOK /\ ContextInv /\ ChainInv

(* Decrypting a block and mixing it with what it was mixed with before     *)
(* gives it back.                                                          *)
LEMMA BlockRoundTrip ==
  ASSUME NEW k \in Keys, LegalKey(k), NEW x \in Block, NEW v \in Block
  PROVE  LET c == aes_crypt_ecb(aes_setkey_enc(k), ENCRYPT, XorBlock(x, v))
         IN  c \in Block /\ XorBlock(aes_crypt_ecb(aes_setkey_dec(k), DECRYPT, c), v) = x
<1>1. XorBlock(x, v) \in Block /\ XorBlock(XorBlock(x, v), v) = x
  BY XorBlockLaws
<1>2. Undone(k, XorBlock(x, v))
  BY <1>1, BlockIsUndone, CbcAssumption
<1> QED
  BY <1>1, <1>2 DEF Undone

LEMMA InitInv == Init => IInv
<1> SUFFICES ASSUME Init PROVE IInv
  OBVIOUS
<1>1. plain \in Seq(Block) /\ header \in Word \X Word
  BY CbcAssumption DEF Init
<1>2. HeaderIv \in Block
  BY <1>1 DEF HeaderIv, Block
<1> QED
  BY <1>1, <1>2 DEF Init, IInv, TypeOK, ContextInv, ChainInv, Before

(* What the encrypting loop makes of a block, and that the receiver can    *)
(* undo it.                                                                *)
LEMMA EncryptedType ==
  ASSUME IInv, pc \in {"encrypt", "decrypt"},
         NEW x \in Block, NEW v \in Block
  PROVE  LET c == aes_crypt_ecb(enc, ENCRYPT, XorBlock(x, v))
         IN  /\ c \in Block
             /\ pc = "decrypt" => XorBlock(aes_crypt_ecb(dec, DECRYPT, c), v) = x
BY BlockRoundTrip DEF IInv, TypeOK, ContextInv

LEMMA SetKeyInv == IInv /\ SetKey => IInv'
<1> SUFFICES ASSUME IInv, SetKey PROVE IInv'
  OBVIOUS
<1>1. /\ pc = "setkey" /\ pc' = "encrypt" /\ LegalKey(key)
      /\ enc' = aes_setkey_enc(key) /\ UNCHANGED <<packet, dec, iv, buffer, pos>>
  BY DEF SetKey
<1>2. TypeOK'
  BY <1>1 DEF IInv, TypeOK, packet
<1>3. ContextInv'
  BY <1>1 DEF ContextInv, packet
<1>4. pos = 1 /\ pos' = 1
  BY <1>1 DEF IInv, ContextInv
<1>5. ChainInv'
  BY <1>1, <1>4 DEF IInv, ChainInv, Before, HeaderIv, packet
<1> QED
  BY <1>2, <1>3, <1>5 DEF IInv

LEMMA EncryptInv == IInv /\ EncryptBlock => IInv'
<1> SUFFICES ASSUME IInv, EncryptBlock PROVE IInv'
  OBVIOUS
<1> DEFINE output == aes_crypt_ecb(enc, ENCRYPT, XorBlock(buffer[pos], iv))
<1>1. /\ pos \in 1..Len(buffer) /\ pc = "encrypt" /\ pc' = "encrypt"
      /\ pos' = pos + 1 /\ iv' = output
      /\ buffer' = [buffer EXCEPT ![pos] = output]
      /\ UNCHANGED <<packet, enc, dec>>
  BY DEF EncryptBlock, IInv, TypeOK
<1>2. buffer[pos] \in Block /\ iv \in Block
  BY <1>1 DEF IInv, TypeOK
<1>3. output \in Block
  BY <1>1, <1>2, EncryptedType
<1> HIDE DEF output
<1>4. /\ buffer' \in Seq(Block) /\ Len(buffer') = Len(buffer)
      /\ \A k \in 1..Len(buffer) :
           buffer'[k] = IF k = pos THEN output ELSE buffer[k]
  BY <1>1, <1>3 DEF IInv, TypeOK
<1>5. TypeOK'
  BY <1>1, <1>3, <1>4 DEF IInv, TypeOK, packet
<1>6. output = aes_crypt_ecb(enc, ENCRYPT, XorBlock(plain[pos], Before(pos)))
  BY <1>1 DEF output, IInv, ChainInv, TypeOK
<1>7. \A k \in 1..(pos' - 1) :
        buffer'[k] = aes_crypt_ecb(enc', ENCRYPT, XorBlock(plain'[k], Before(k)'))
  <2> SUFFICES ASSUME NEW k \in 1..pos
               PROVE  buffer'[k] = aes_crypt_ecb(enc, ENCRYPT, XorBlock(plain[k], Before(k)'))
    BY <1>1 DEF packet, IInv, TypeOK
  <2>1. Before(k)' = Before(k)
    BY <1>1, <1>4 DEF Before, HeaderIv, packet, IInv, TypeOK
  <2>2. CASE k = pos
    BY <1>1, <1>4, <1>6, <2>1, <2>2
  <2>3. CASE k # pos
    BY <1>1, <1>4, <2>1, <2>3 DEF IInv, ChainInv, TypeOK
  <2> QED
    BY <2>2, <2>3
<1>8. iv' = Before(pos)'
  BY <1>1, <1>4 DEF Before, IInv, TypeOK
<1>9. \A k \in pos'..Len(buffer') : buffer'[k] = plain'[k]
  BY <1>1, <1>4 DEF IInv, ChainInv, TypeOK, packet
<1>10. ChainInv'
  BY <1>1, <1>7, <1>8, <1>9 DEF ChainInv
<1>11. ContextInv'
  BY <1>1 DEF IInv, ContextInv, packet
<1> QED
  BY <1>5, <1>10, <1>11 DEF IInv

LEMMA ReceiveInv == IInv /\ Receive => IInv'
<1> SUFFICES ASSUME IInv, Receive PROVE IInv'
  OBVIOUS
<1>1. /\ pc = "encrypt" /\ pc' = "decrypt" /\ pos = Len(buffer) + 1
      /\ pos' = 1 /\ iv' = HeaderIv /\ dec' = aes_setkey_dec(key)
      /\ UNCHANGED <<packet, enc, buffer>>
  BY DEF Receive, IInv, TypeOK
<1>2. HeaderIv \in Block
  BY CbcAssumption DEF HeaderIv, Block, IInv, TypeOK
<1>3. TypeOK'
  BY <1>1, <1>2 DEF IInv, TypeOK, packet
<1>4. ContextInv'
  BY <1>1 DEF IInv, ContextInv, packet
<1>5. ChainInv'
  BY <1>1 DEF IInv, TypeOK, ChainInv, Before, packet
<1> QED
  BY <1>3, <1>4, <1>5 DEF IInv

LEMMA DecryptInv == IInv /\ DecryptBlock => IInv'
<1> SUFFICES ASSUME IInv, DecryptBlock PROVE IInv'
  OBVIOUS
<1> DEFINE output == XorBlock(aes_crypt_ecb(dec, DECRYPT, buffer[pos]), iv)
<1>1. /\ pos \in 1..Len(buffer) /\ pc = "decrypt" /\ pc' = "decrypt"
      /\ pos' = pos + 1 /\ iv' = buffer[pos]
      /\ buffer' = [buffer EXCEPT ![pos] = output]
      /\ UNCHANGED <<packet, enc, dec>>
  BY DEF DecryptBlock, IInv, TypeOK
<1>2. buffer[pos] \in Block /\ plain[pos] \in Block /\ iv \in Block
  BY <1>1, CbcAssumption DEF IInv, TypeOK
<1>3. output = plain[pos]
  <2>1. buffer[pos] = aes_crypt_ecb(enc, ENCRYPT, XorBlock(plain[pos], iv))
    BY <1>1 DEF IInv, ChainInv, TypeOK
  <2> QED
    BY <1>1, <1>2, <2>1, EncryptedType
<1> HIDE DEF output
<1>4. /\ buffer' \in Seq(Block) /\ Len(buffer') = Len(buffer)
      /\ \A k \in 1..Len(buffer) :
           buffer'[k] = IF k = pos THEN plain[pos] ELSE buffer[k]
  BY <1>1, <1>2, <1>3 DEF IInv, TypeOK
<1>5. TypeOK'
  BY <1>1, <1>2, <1>4 DEF IInv, TypeOK, packet
<1>6. \A k \in 1..(pos' - 1) : buffer'[k] = plain'[k]
  BY <1>1, <1>4 DEF IInv, TypeOK, ChainInv, packet
<1>7. \A k \in pos'..Len(buffer') :
        buffer'[k] =
          aes_crypt_ecb(enc', ENCRYPT,
                        XorBlock(plain'[k], IF k = pos' THEN iv' ELSE buffer'[k - 1]))
  <2> SUFFICES ASSUME NEW k \in (pos + 1)..Len(buffer)
               PROVE  buffer'[k] =
                        aes_crypt_ecb(enc, ENCRYPT,
                                      XorBlock(plain[k], IF k = pos + 1 THEN buffer[pos]
                                                         ELSE buffer'[k - 1]))
    BY <1>1, <1>4 DEF packet
  <2>1. buffer'[k] = buffer[k] /\ (k # pos + 1 => buffer'[k - 1] = buffer[k - 1])
    BY <1>1, <1>4
  <2>2. buffer[k] = aes_crypt_ecb(enc, ENCRYPT, XorBlock(plain[k], buffer[k - 1]))
    BY <1>1 DEF IInv, TypeOK, ChainInv
  <2> QED
    BY <1>1, <2>1, <2>2
<1>8. ChainInv'
  BY <1>1, <1>6, <1>7 DEF ChainInv
<1>9. ContextInv'
  BY <1>1 DEF IInv, ContextInv, packet
<1> QED
  BY <1>5, <1>8, <1>9 DEF IInv

LEMMA NextInv == IInv /\ [Next]_vars => IInv'
<1> SUFFICES ASSUME IInv, [Next]_vars PROVE IInv'
  OBVIOUS
<1>1. CASE SetKey
  BY <1>1, SetKeyInv
<1>2. CASE InvalidKeyLength
  BY <1>2 DEF InvalidKeyLength, IInv, TypeOK, ContextInv, ChainInv, packet
<1>3. CASE InvalidLength
  BY <1>3 DEF InvalidLength, IInv, TypeOK, ContextInv, ChainInv, packet
<1>4. CASE EncryptBlock
  BY <1>4, EncryptInv
<1>5. CASE Receive
  BY <1>5, ReceiveInv
<1>6. CASE DecryptBlock
  BY <1>6, DecryptInv
<1>7. CASE DecryptEnds
  BY <1>7 DEF DecryptEnds, IInv, TypeOK, ContextInv, ChainInv, packet
<1>8. CASE UNCHANGED vars
  BY <1>8 DEF vars, IInv, TypeOK, ContextInv, ChainInv, Before, HeaderIv, packet
<1> QED
  BY <1>1, <1>2, <1>3, <1>4, <1>5, <1>6, <1>7, <1>8 DEF Next

(* The invariant holds in every state. *)
LEMMA Invariance == Spec => []IInv
BY InitInv, NextInv, PTL DEF Spec

------------------------------------------------------------------------------
(* aes_crypt_cbc never runs past the buffer nor changes its length.        *)
THEOREM TypeCorrectness == Spec => []TypeOK
<1>1. IInv => TypeOK
  BY DEF IInv
<1> QED
  BY <1>1, Invariance, PTL

(* The loop of aes_crypt_cbc that encrypts in place computes CBC.          *)
THEOREM ChainCorrectness == Spec => []Chained
<1>1. IInv => Chained
  BY DEF IInv, ChainInv, Chained
<1> QED
  BY <1>1, Invariance, PTL

(* Decrypting in place undoes encrypting in place.                         *)
THEOREM RoundTripCorrectness == Spec => []RoundTrip
<1>1. ASSUME IInv, pc = "done" PROVE buffer = plain
  <2>1. plain \in Seq(Block)
    BY <1>1, CbcAssumption DEF IInv, TypeOK
  <2>2. /\ buffer \in Seq(Block) /\ Len(buffer) = Len(plain)
        /\ \A k \in 1..Len(buffer) : buffer[k] = plain[k]
    BY <1>1 DEF IInv, TypeOK, ChainInv
  <2> QED
    BY <2>1, <2>2, SeqEqual
<1>2. IInv => RoundTrip
  BY <1>1 DEF RoundTrip
<1> QED
  BY <1>2, Invariance, PTL

(* Each block a device encrypts is the one the standards ask for.          *)
THEOREM StandardCorrectness == Spec => []BlocksAreStandard
<1>1. ASSUME IInv, pc = "encrypt", pos > 1
      PROVE  buffer[pos - 1] = Standard!Cipher(key, XorBlock(plain[pos - 1], Before(pos - 1)))
  <2> DEFINE k == pos - 1
  <2>1. k \in 1..(pos - 1) /\ k \in 1..Len(buffer) /\ (k # 1 => k - 1 \in 1..Len(buffer))
    BY <1>1 DEF IInv, TypeOK
  <2>2. buffer[k] = aes_crypt_ecb(enc, ENCRYPT, XorBlock(plain[k], Before(k)))
    BY <1>1, <2>1 DEF IInv, ChainInv
  <2>3. key \in Seq(Word) /\ LegalKey(key) /\ enc = aes_setkey_enc(key)
    BY <1>1, CbcAssumption DEF IInv, TypeOK, ContextInv
  <2>4. plain[k] \in Block
    BY <1>1, <2>1, CbcAssumption DEF IInv, TypeOK
  <2>5. Before(k) \in Block
    <3>1. HeaderIv \in Block
      BY <1>1, CbcAssumption DEF HeaderIv, Block, IInv, TypeOK
    <3> QED
      BY <1>1, <2>1, <3>1 DEF Before, IInv, TypeOK
  <2>6. XorBlock(plain[k], Before(k)) \in Block
    BY <2>4, <2>5, XorBlockLaws
  <2> QED
    BY <2>2, <2>3, <2>6, BlockIsStandard
<1>2. IInv => BlocksAreStandard
  BY <1>1 DEF BlocksAreStandard
<1> QED
  BY <1>2, Invariance, PTL
==============================================================================
