----------------------- MODULE WebSocketHandshakeProofs -----------------------
(***************************************************************************)
(* A connection, from the request on, for payloads of every length a frame *)
(* can announce, for every answer and every way the stream may be cut: the *)
(* texts written are the texts received, receive ends for a reason, and    *)
(* both sides agree on whether there is a connection.                      *)
(*                                                                         *)
(* The stream is the frames written, one behind the other, from the one    *)
(* receive is in (Framed, Within); before that it begins with the lines of *)
(* the answer initialize has not read (Lines).                             *)
(***************************************************************************)
EXTENDS WebSocketHandshake, SequenceTheorems, TLAPS

(* Products, with the least of what a product needs.                       *)
LEMMA Product == \A a, b, c \in Nat : a <= b => a * c <= b * c
OBVIOUS

(* A product of naturals is a natural.                                     *)
LEMMA ProductNat == \A a, b \in Nat : a * b \in Nat
OBVIOUS

(* How large the numbers of two, four and eight digits are.                *)
LEMMA Bases ==
  /\ Base \in Nat /\ Base > 1 /\ Base2 \in Nat /\ Base4 \in Nat /\ Base8 \in Nat
  /\ Base2 >= 4 /\ Base4 >= 16 /\ Base8 >= 16 * Base4 /\ Base4 >= 4 * Base2
<1>1. Base \in Nat /\ Base > 1
  BY FrameAssumption
<1>2. \A a, b \in Nat : a >= b => a * a >= b * a /\ a * a \in Nat
  OBVIOUS
<1>3. Base2 \in Nat /\ Base2 >= 2 * Base
  BY <1>1, <1>2 DEF Base2
<1>4. Base4 \in Nat /\ Base4 >= 4 * Base2
  BY <1>1, <1>2, <1>3 DEF Base4
<1>5. Base8 \in Nat /\ Base8 >= 16 * Base4
  BY <1>1, <1>2, <1>3, <1>4 DEF Base8
<1> QED
  BY <1>1, <1>3, <1>4, <1>5

(* A number is its quotient and its remainder.                             *)
LEMMA Division ==
  ASSUME NEW n \in Nat, NEW b \in Nat, b > 0
  PROVE  /\ n \div b \in Nat /\ n % b \in Nat /\ n % b < b
         /\ n = (n \div b) * b + (n % b)
<1>1. n % b \in Nat /\ n % b < b
  OBVIOUS
<1>2. n \div b \in Int
  OBVIOUS
<1>3. n = (n \div b) * b + (n % b)
  OBVIOUS
<1>4. n \div b >= 0
  BY <1>1, <1>2, <1>3
<1> QED
  BY <1>1, <1>2, <1>3, <1>4

(* The quotient is below what the number is below.                         *)
LEMMA Quotient ==
  ASSUME NEW n \in Nat, NEW b \in Nat, NEW c \in Nat, b > 0, n < b * c
  PROVE  n \div b < c
<1> DEFINE q == n \div b
<1>1. q \in Nat /\ q * b <= n
  BY Division
<1> HIDE DEF q
<1> SUFFICES ASSUME q >= c PROVE FALSE
  BY <1>1 DEF q
<1>2. q * b >= c * b
  BY <1>1, Product
<1>3. c * b = b * c
  OBVIOUS
<1> QED
  BY <1>1, <1>2, <1>3

(* The low digits of a byte are not disturbed by its high bit.             *)
LEMMA Residue ==
  ASSUME NEW n \in Nat, NEW b \in Nat, n < b
  PROVE  n % b = n /\ (b + n) % b = n
<1>1. b > 0
  OBVIOUS
<1>2. \A r \in Nat, q \in Nat : r = q * b + n /\ n < b => r % b = n
  <2> SUFFICES ASSUME NEW r \in Nat, NEW q \in Nat, r = q * b + n PROVE r % b = n
    OBVIOUS
  <2> DEFINE p == r \div b
             m == r % b
  <2>1. p \in Nat /\ m \in Nat /\ m < b /\ r = p * b + m
    BY <1>1, Division
  <2> HIDE DEF p, m
  <2>2. ~(p < q)
    <3> SUFFICES ASSUME p + 1 <= q PROVE FALSE
      BY <2>1
    <3>1. (p + 1) * b <= q * b
      BY <2>1, Product
    <3>2. (p + 1) * b = p * b + b
      BY <2>1
    <3> QED
      BY <2>1, <3>1, <3>2
  <2>3. ~(q < p)
    <3> SUFFICES ASSUME q + 1 <= p PROVE FALSE
      BY <2>1
    <3>1. (q + 1) * b <= p * b
      BY <2>1, Product
    <3>2. (q + 1) * b = q * b + b
      BY <2>1
    <3> QED
      BY <2>1, <3>1, <3>2
  <2>4. p = q
    BY <2>1, <2>2, <2>3
  <2>5. m = n
    BY <2>1, <2>4
  <2> QED
    BY <2>5 DEF m
<1>3. n = 0 * b + n /\ b + n = 1 * b + n
  OBVIOUS
<1> QED
  BY <1>2, <1>3

(* Xor takes back what it did: masking twice is not masking.               *)
LEMMA XorTwice == \A a, b \in Bits : Xor(a, b) \in Bits /\ Xor(Xor(a, b), b) = a
BY DEF Bits, Xor

(* The opcode is read from under the bit of fin.                           *)
LEMMA OpcodeOfFirst ==
  ASSUME NEW opcode \in Opcode, NEW fin
  PROVE  /\ First(opcode, fin) \in Nat /\ First(opcode, fin) < 1000
         /\ First(opcode, fin) % 16 = opcode
BY DEF Opcode, First

(* What stands where when one sequence is put behind another.              *)
LEMMA Concat ==
  ASSUME NEW S, NEW s \in Seq(S), NEW t \in Seq(S)
  PROVE  /\ s \o t \in Seq(S) /\ Len(s \o t) = Len(s) + Len(t)
         /\ \A i \in 1..Len(s) : (s \o t)[i] = s[i]
         /\ \A i \in 1..Len(t) : (s \o t)[Len(s) + i] = t[i]
<1>1. /\ s \o t \in Seq(S) /\ Len(s \o t) = Len(s) + Len(t)
      /\ \A i \in 1..(Len(s) + Len(t)) :
           (s \o t)[i] = IF i <= Len(s) THEN s[i] ELSE t[i - Len(s)]
  BY ConcatProperties
<1>2. Len(s) \in Nat /\ Len(t) \in Nat
  OBVIOUS
<1> DEFINE u == s \o t
<1> HIDE DEF u
<1>3. ASSUME NEW i \in 1..Len(s) PROVE u[i] = s[i]
  BY <1>1, <1>2 DEF u
<1>4. ASSUME NEW i \in 1..Len(t) PROVE u[Len(s) + i] = t[i]
  <2> DEFINE p == Len(s) + i
  <2>1. p \in 1..(Len(s) + Len(t)) /\ ~(p <= Len(s)) /\ p - Len(s) = i
    BY <1>2
  <2> HIDE DEF p
  <2>2. u[p] = t[i]
    BY <1>1, <1>2, <2>1 DEF u
  <2> QED
    BY <2>2 DEF p
<1> QED
  BY <1>1, <1>3, <1>4 DEF u

(* Digits of a number: k of them, from the most significant on.            *)
Digital(d, k) ==
  /\ d \in Seq(Nat) /\ Len(d) = k
  /\ \A i \in 1..k : d[i] < Base

(* Two digits are read as they are written.                                *)
LEMMA Two ==
  ASSUME NEW n \in Nat, n < Base2
  PROVE  Digital(Digits2(n), 2) /\ Number2(Digits2(n), 1) = n
<1> DEFINE h == n \div Base
           l == n % Base
<1>1. h \in Nat /\ l \in Nat /\ l < Base /\ n = h * Base + l
  BY Bases, Division
<1>2. h < Base
  BY Bases, Quotient DEF Base2
<1>3. Digits2(n) = <<h, l>>
  BY DEF Digits2
<1> HIDE DEF h, l
<1>4. <<h, l>> \in Seq(Nat) /\ Len(<<h, l>>) = 2 /\ <<h, l>>[1] = h /\ <<h, l>>[2] = l
  BY <1>1
<1> DEFINE u == <<h, l>>
<1> HIDE DEF u
<1>5. \A i \in 1..2 : u[i] < Base
  BY <1>1, <1>2, <1>4 DEF u
<1>6. Digital(u, 2)
  BY <1>4, <1>5 DEF Digital, u
<1>7. Number2(u, 1) = n
  BY <1>1, <1>4 DEF Number2, u
<1> QED
  BY <1>3, <1>6, <1>7 DEF u

Joins(u, s, t, k) ==
  /\ Digital(u, k + k)
  /\ \A i \in 1..k : u[i] = s[i] /\ u[k + i] = t[i]

(* The digits of the halves, read one behind the other, are the number.    *)
LEMMA Joined ==
  ASSUME NEW k \in Nat, NEW s, NEW t, Digital(s, k), Digital(t, k), NEW u, u = s \o t
  PROVE  Joins(u, s, t, k)
<1>1. /\ u \in Seq(Nat) /\ Len(u) = k + k
      /\ \A i \in 1..k : u[i] = s[i] /\ u[k + i] = t[i]
  <2>1. s \in Seq(Nat) /\ t \in Seq(Nat) /\ Len(s) = k /\ Len(t) = k
    BY DEF Digital
  <2>2. /\ u \in Seq(Nat) /\ Len(u) = Len(s) + Len(t)
        /\ \A i \in 1..Len(s) : u[i] = s[i]
        /\ \A i \in 1..Len(t) : u[Len(s) + i] = t[i]
    <3>1. \A a, b \in Seq(Nat) :
            /\ a \o b \in Seq(Nat) /\ Len(a \o b) = Len(a) + Len(b)
            /\ \A i \in 1..Len(a) : (a \o b)[i] = a[i]
            /\ \A i \in 1..Len(b) : (a \o b)[Len(a) + i] = b[i]
      BY Concat
    <3> QED
      BY <2>1, <3>1
  <2> QED
    BY <2>1, <2>2
<1>2. ASSUME NEW i \in 1..(k + k) PROVE u[i] < Base
  <2> i <= k \/ i > k
    OBVIOUS
  <2>1. CASE i <= k
    BY <1>1, <2>1 DEF Digital
  <2>2. CASE i > k
    <3> DEFINE j == i - k
    <3>1. j \in 1..k /\ k + j = i
      BY <2>2
    <3> HIDE DEF j
    <3> QED
      BY <1>1, <3>1 DEF Digital
  <2> QED
    BY <2>1, <2>2
<1>3. Digital(u, k + k)
  BY <1>1, <1>2 DEF Digital
<1> QED
  BY <1>1, <1>3 DEF Joins

(* Four digits are read as they are written.                               *)
LEMMA Four ==
  ASSUME NEW n \in Nat, n < Base4
  PROVE  Digital(Digits4(n), 4) /\ Number4(Digits4(n), 1) = n
<1> DEFINE h == n \div Base2
           l == n % Base2
           s == Digits2(h)
           t == Digits2(l)
           u == s \o t
<1>1. h \in Nat /\ l \in Nat /\ l < Base2 /\ n = h * Base2 + l
  BY Bases, Division
<1>2. h < Base2
  BY Bases, Quotient DEF Base4
<1>3. Digits4(n) = u
  BY DEF Digits4
<1> HIDE DEF h, l
<1>4. /\ Digital(s, 2) /\ Number2(s, 1) = h
      /\ Digital(t, 2) /\ Number2(t, 1) = l
  BY <1>1, <1>2, Two
<1> HIDE DEF s, t
<1>5. Digital(u, 2 + 2) /\ \A i \in 1..2 : u[i] = s[i] /\ u[2 + i] = t[i]
  <2> DEFINE k == 2
  <2>1. k \in Nat /\ Digital(s, k) /\ Digital(t, k) /\ u = s \o t
    BY <1>4
  <2> HIDE DEF k, u
  <2>2. Joins(u, s, t, k)
    BY <2>1, Joined
  <2> QED
    BY <2>2 DEF k, Joins
<1> HIDE DEF u
<1>6. u[1] = s[1] /\ u[2] = s[2] /\ u[3] = t[1] /\ u[4] = t[2]
  BY <1>5
<1>7. Number2(u, 1) = h /\ Number2(u, 3) = l
  BY <1>4, <1>6 DEF Number2
<1>8. Digital(u, 4) /\ Number4(u, 1) = n
  BY <1>1, <1>5, <1>7 DEF Number4
<1> QED
  BY <1>3, <1>8

(* Eight digits are read as they are written: what unpack("NN") and high * *)
(* (2 ** 32) + low make of what pack("L!>") wrote.                         *)
LEMMA Eight ==
  ASSUME NEW n \in Nat, n < Base8
  PROVE  Digital(Digits8(n), 8) /\ Number(Digits8(n)) = n
<1> DEFINE h == n \div Base4
           l == n % Base4
           s == Digits4(h)
           t == Digits4(l)
           u == s \o t
<1>1. h \in Nat /\ l \in Nat /\ l < Base4 /\ n = h * Base4 + l
  BY Bases, Division
<1>2. h < Base4
  BY Bases, Quotient DEF Base8
<1>3. Digits8(n) = u
  BY DEF Digits8
<1> HIDE DEF h, l
<1>4. /\ Digital(s, 4) /\ Number4(s, 1) = h
      /\ Digital(t, 4) /\ Number4(t, 1) = l
  BY <1>1, <1>2, Four
<1> HIDE DEF s, t
<1>5. Digital(u, 4 + 4) /\ \A i \in 1..4 : u[i] = s[i] /\ u[4 + i] = t[i]
  <2> DEFINE k == 4
  <2>1. k \in Nat /\ Digital(s, k) /\ Digital(t, k) /\ u = s \o t
    BY <1>4
  <2> HIDE DEF k, u
  <2>2. Joins(u, s, t, k)
    BY <2>1, Joined
  <2> QED
    BY <2>2 DEF k, Joins
<1> HIDE DEF u
<1>6. /\ u[1] = s[1] /\ u[2] = s[2] /\ u[3] = s[3] /\ u[4] = s[4]
      /\ u[5] = t[1] /\ u[6] = t[2] /\ u[7] = t[3] /\ u[8] = t[4]
  BY <1>5
<1>7. Number4(u, 1) = h /\ Number4(u, 5) = l
  BY <1>4, <1>6 DEF Number4, Number2
<1>8. Digital(u, 8) /\ Len(u) = 8
  BY <1>5 DEF Digital
<1>9. Number(u) = n
  BY <1>1, <1>7, <1>8 DEF Number
<1> QED
  BY <1>3, <1>8, <1>9

(* What a read of n bytes returns, and what it leaves. *)
LEMMA Cut ==
  ASSUME NEW S, NEW s \in Seq(S), NEW n \in Nat, n <= Len(s)
  PROVE  /\ SubSeq(s, 1, n) \in Seq(S) /\ Len(SubSeq(s, 1, n)) = n
         /\ \A i \in 1..n : SubSeq(s, 1, n)[i] = s[i]
         /\ SubSeq(s, n + 1, Len(s)) \in Seq(S)
         /\ Len(SubSeq(s, n + 1, Len(s))) = Len(s) - n
         /\ \A i \in 1..(Len(s) - n) : SubSeq(s, n + 1, Len(s))[i] = s[n + i]
<1>1. Len(s) \in Nat /\ \A i \in 1..Len(s) : s[i] \in S
  BY ElementOfSeq
<1>2. \A i \in 1..n : s[i] \in S
  BY <1>1
<1>3. /\ SubSeq(s, 1, n) \in Seq(S)
      /\ Len(SubSeq(s, 1, n)) = IF 1 <= n THEN n - 1 + 1 ELSE 0
      /\ \A i \in 1..(n - 1 + 1) : SubSeq(s, 1, n)[i] = s[1 + i - 1]
  BY <1>2, SubSeqProperties
<1> DEFINE l == Len(s)
           p == n + 1
<1>4. l \in Nat /\ p \in Int /\ \A i \in p..l : s[i] \in S
  BY <1>1
<1> DEFINE r == SubSeq(s, p, l)
<1> HIDE DEF l, p
<1>5. /\ r \in Seq(S)
      /\ Len(r) = IF p <= l THEN l - p + 1 ELSE 0
      /\ \A i \in 1..(l - p + 1) : r[i] = s[p + i - 1]
  BY <1>4, SubSeqProperties
<1>6. p = n + 1 /\ l = Len(s) /\ r = SubSeq(s, n + 1, Len(s))
  BY DEF p, l
<1> HIDE DEF r
<1>7. Len(r) = Len(s) - n
  BY <1>1, <1>5, <1>6
<1>8. ASSUME NEW i \in 1..(Len(s) - n) PROVE r[i] = s[n + i]
  <2>1. i \in 1..(l - p + 1) /\ p + i - 1 = n + i
    BY <1>1, <1>6
  <2> QED
    BY <1>5, <2>1
<1>9. ASSUME NEW i \in 1..n PROVE SubSeq(s, 1, n)[i] = s[i]
  BY <1>3
<1>10. Len(SubSeq(s, 1, n)) = n
  BY <1>3
<1> QED
  BY <1>3, <1>5, <1>6, <1>7, <1>8, <1>9, <1>10

(* What a sequence begins with is its first elements.                      *)
LEMMA Prefix ==
  ASSUME NEW S, NEW s \in Seq(S), NEW t \in Seq(S), Len(t) <= Len(s),
         \A i \in 1..Len(t) : s[i] = t[i], NEW n, n = Len(t)
  PROVE  SubSeq(s, 1, n) = t
<1>1. n \in Nat /\ n <= Len(s)
  OBVIOUS
<1> DEFINE u == SubSeq(s, 1, n)
<1>2. u \in Seq(S) /\ Len(u) = n /\ \A i \in 1..n : u[i] = s[i]
  BY <1>1, Cut
<1> HIDE DEF u
<1>3. Len(u) = Len(t) /\ \A i \in 1..Len(u) : u[i] = t[i]
  BY <1>2
<1>4. u = t
  BY <1>2, <1>3, SeqEqual
<1> QED
  BY <1>4 DEF u

(* The bytes of a frame: the first two, the digits of a longer length, the *)
(* key and the payload.                                                    *)
Laid(b, x, y, d, k, p) ==
  /\ b \in Seq(Nat)
  /\ Len(b) = 2 + Len(d) + Len(k) + Len(p)
  /\ b[1] = x /\ b[2] = y
  /\ \A i \in 1..Len(d) : b[2 + i] = d[i]
  /\ \A i \in 1..Len(k) : b[2 + Len(d) + i] = k[i]
  /\ \A i \in 1..Len(p) : b[2 + Len(d) + Len(k) + i] = p[i]

(* A first byte, a length, a key and a payload, one behind the other, are  *)
(* laid out as a frame is.                                                 *)
LEMMA Layout ==
  ASSUME NEW x \in Nat, NEW y \in Nat,
         NEW d \in Seq(Nat), NEW k \in Seq(Nat), NEW p \in Seq(Nat)
  PROVE  Laid(<<x>> \o (<<y>> \o d) \o k \o p, x, y, d, k, p)
<1>1. \A a, b \in Seq(Nat) :
        /\ a \o b \in Seq(Nat) /\ Len(a \o b) = Len(a) + Len(b)
        /\ \A i \in 1..Len(a) : (a \o b)[i] = a[i]
        /\ \A i \in 1..Len(b) : (a \o b)[Len(a) + i] = b[i]
  BY Concat
<1> DEFINE l == <<y>> \o d
           h == <<x>> \o l
           g == h \o k
           b == g \o p
<1>2. /\ <<x>> \in Seq(Nat) /\ Len(<<x>>) = 1 /\ <<x>>[1] = x
      /\ <<y>> \in Seq(Nat) /\ Len(<<y>>) = 1 /\ <<y>>[1] = y
  OBVIOUS
<1>3. Len(d) \in Nat /\ Len(k) \in Nat /\ Len(p) \in Nat
  OBVIOUS
<1>4. /\ l \in Seq(Nat) /\ Len(l) = 1 + Len(d) /\ l[1] = y
      /\ \A i \in 1..Len(d) : l[1 + i] = d[i]
  BY <1>1, <1>2
<1> HIDE DEF l
<1>5. /\ h \in Seq(Nat) /\ Len(h) = 1 + Len(l) /\ h[1] = x
      /\ \A i \in 1..Len(l) : h[1 + i] = l[i]
  BY <1>1, <1>2, <1>4
<1> HIDE DEF h
<1>6. h[2] = y /\ Len(h) = 2 + Len(d)
  <2>1. 1 \in 1..Len(l) /\ 1 + 1 = 2
    BY <1>3, <1>4
  <2> QED
    BY <1>3, <1>4, <1>5, <2>1
<1>7. ASSUME NEW i \in 1..Len(d) PROVE h[2 + i] = d[i]
  <2> DEFINE j == 1 + i
  <2>1. j \in 1..Len(l) /\ 1 + j = 2 + i /\ l[j] = d[i]
    BY <1>3, <1>4
  <2> HIDE DEF j
  <2> QED
    BY <1>5, <2>1
<1>8. /\ g \in Seq(Nat) /\ Len(g) = Len(h) + Len(k)
      /\ \A i \in 1..Len(h) : g[i] = h[i]
      /\ \A i \in 1..Len(k) : g[Len(h) + i] = k[i]
  BY <1>1, <1>5
<1> HIDE DEF g
<1>9. /\ b \in Seq(Nat) /\ Len(b) = Len(g) + Len(p)
      /\ \A i \in 1..Len(g) : b[i] = g[i]
      /\ \A i \in 1..Len(p) : b[Len(g) + i] = p[i]
  BY <1>1, <1>8
<1> HIDE DEF b
<1>10. ASSUME NEW i \in 1..Len(h) PROVE b[i] = h[i]
  <2>1. i \in 1..Len(g)
    BY <1>3, <1>6, <1>8
  <2> QED
    BY <1>8, <1>9, <2>1
<1>11. b[1] = x /\ b[2] = y
  BY <1>3, <1>5, <1>6, <1>10
<1>12. ASSUME NEW i \in 1..Len(d) PROVE b[2 + i] = d[i]
  <2> DEFINE j == 2 + i
  <2>1. j \in 1..Len(h) /\ h[j] = d[i]
    BY <1>3, <1>6, <1>7
  <2> HIDE DEF j
  <2>2. b[j] = d[i]
    BY <1>10, <2>1
  <2> QED
    BY <2>2 DEF j
<1>13. ASSUME NEW i \in 1..Len(k) PROVE b[2 + Len(d) + i] = k[i]
  <2> DEFINE j == Len(h) + i
  <2>1. j \in 1..Len(g) /\ g[j] = k[i] /\ 2 + Len(d) + i = j
    BY <1>3, <1>6, <1>8
  <2> HIDE DEF j
  <2>2. b[j] = k[i]
    BY <1>9, <2>1
  <2> QED
    BY <2>1, <2>2
<1>14. ASSUME NEW i \in 1..Len(p) PROVE b[2 + Len(d) + Len(k) + i] = p[i]
  <2>1. 2 + Len(d) + Len(k) + i = Len(g) + i
    BY <1>3, <1>6, <1>8
  <2> QED
    BY <1>9, <2>1
<1>15. Len(b) = 2 + Len(d) + Len(k) + Len(p)
  BY <1>3, <1>6, <1>8, <1>9
<1>16. Laid(b, x, y, d, k, p)
  BY <1>9, <1>11, <1>12, <1>13, <1>14, <1>15 DEF Laid
<1> QED
  BY <1>16 DEF b, g, h, l

(* A server that cuts a text writes another first byte. *)
LEMMA LayoutOfFragment ==
  ASSUME NEW b, NEW x, NEW y, NEW d \in Seq(Nat), NEW k \in Seq(Nat), NEW p \in Seq(Nat),
         Laid(b, x, y, d, k, p), NEW z \in Nat
  PROVE  Laid(<<z>> \o Tail(b), z, y, d, k, p)
<1> DEFINE t == Tail(b)
           u == <<z>> \o t
<1>1. Len(d) \in Nat /\ Len(k) \in Nat /\ Len(p) \in Nat
  OBVIOUS
<1>2. b \in Seq(Nat) /\ Len(b) >= 2 /\ b # <<>>
  BY <1>1 DEF Laid
<1>3. t \in Seq(Nat) /\ Len(t) = Len(b) - 1 /\ \A i \in 1..Len(t) : t[i] = b[i + 1]
  BY <1>2, HeadTailProperties
<1> HIDE DEF t
<1>4. <<z>> \in Seq(Nat) /\ Len(<<z>>) = 1 /\ <<z>>[1] = z
  OBVIOUS
<1>5. /\ u \in Seq(Nat) /\ Len(u) = 1 + Len(t) /\ u[1] = z
      /\ \A i \in 1..Len(t) : u[1 + i] = t[i]
  <2>1. \A v, w \in Seq(Nat) :
          /\ v \o w \in Seq(Nat) /\ Len(v \o w) = Len(v) + Len(w)
          /\ \A i \in 1..Len(v) : (v \o w)[i] = v[i]
          /\ \A i \in 1..Len(w) : (v \o w)[Len(v) + i] = w[i]
    BY Concat
  <2> QED
    BY <1>3, <1>4, <2>1
<1> HIDE DEF u
<1>6. Len(u) = Len(b)
  BY <1>2, <1>3, <1>5
<1>7. ASSUME NEW i \in 2..Len(b) PROVE u[i] = b[i]
  <2> DEFINE j == i - 1
  <2>1. j \in 1..Len(t) /\ 1 + j = i /\ j + 1 = i
    BY <1>2, <1>3
  <2> HIDE DEF j
  <2>2. u[1 + j] = t[j] /\ t[j] = b[j + 1]
    BY <1>3, <1>5, <2>1
  <2> QED
    BY <2>1, <2>2
<1>8. u[2] = y
  BY <1>2, <1>7 DEF Laid
<1>9. ASSUME NEW i \in 1..Len(d) PROVE u[2 + i] = d[i]
  <2>1. 2 + i \in 2..Len(b)
    BY <1>1 DEF Laid
  <2> QED
    BY <1>7, <2>1 DEF Laid
<1>10. ASSUME NEW i \in 1..Len(k) PROVE u[2 + Len(d) + i] = k[i]
  <2>1. 2 + Len(d) + i \in 2..Len(b)
    BY <1>1 DEF Laid
  <2> QED
    BY <1>7, <2>1 DEF Laid
<1>11. ASSUME NEW i \in 1..Len(p) PROVE u[2 + Len(d) + Len(k) + i] = p[i]
  <2>1. 2 + Len(d) + Len(k) + i \in 2..Len(b)
    BY <1>1 DEF Laid
  <2> QED
    BY <1>7, <2>1 DEF Laid
<1>12. Laid(u, z, y, d, k, p)
  BY <1>5, <1>6, <1>8, <1>9, <1>10, <1>11 DEF Laid
<1> QED
  BY <1>12 DEF u, t

(* The length of a payload: the bytes behind its short form, and that.     *)
Ext(n) == IF n <= Field - 3 THEN 0 ELSE IF n < Base2 THEN 2 ELSE 8
Short(n) == IF n <= Field - 3 THEN n ELSE IF n < Base2 THEN Field - 2 ELSE Field - 1

Announces(d, n) == Digital(d, Ext(n)) /\ (Ext(n) # 0 => Number(d) = n)

(* The short length is a byte's field, and says whether one follows.       *)
LEMMA Lengths ==
  ASSUME NEW n \in Nat
  PROVE  /\ Ext(n) \in {0, 2, 8} /\ Short(n) \in 0..(Field - 1)
         /\ Ext(n) = 0 => Short(n) = n /\ Short(n) < Field - 2
         /\ Ext(n) = 2 => Short(n) = Field - 2
         /\ Ext(n) = 8 => Short(n) = Field - 1
BY FrameAssumption DEF Ext, Short

(* The bit of the mask and the short length are told apart.                *)
LEMMA FirstLengthIsByte ==
  ASSUME NEW masked, NEW n \in Nat
  PROVE  FirstLength(masked, Short(n)) \in Nat /\ FirstLength(masked, Short(n)) < 1000
<1>1. Short(n) \in 0..(Field - 1) /\ Field \in Nat /\ 2 * Field <= 1000
  BY Lengths, FrameAssumption, HandshakeAssumption
<1> QED
  BY <1>1 DEF FirstLength

(* The bytes of a length are its short one and the digits announced.       *)
LEMMA LengthIsAnnounced ==
  ASSUME NEW masked \in BOOLEAN, NEW n \in Nat, n < Base8
  PROVE  \E d \in Seq(Nat) : /\ LengthBytes(masked, n) = <<FirstLength(masked, Short(n))>> \o d
                             /\ Announces(d, n)
<1>0. Field \in Nat /\ Field > 2 /\ Base2 \in Nat /\ Base2 >= Field - 2
  BY FrameAssumption, Bases
<1>1. CASE n <= Field - 3
  <2>1. LengthBytes(masked, n) = <<FirstLength(masked, n)>> /\ Short(n) = n /\ Ext(n) = 0
    BY <1>0, <1>1 DEF LengthBytes, Short, Ext
  <2>2. FirstLength(masked, n) \in Nat
    BY <1>0 DEF FirstLength
  <2>3. <<FirstLength(masked, n)>> \in Seq(Nat)
    BY <2>2
  <2>4. <<FirstLength(masked, n)>> \o <<>> = <<FirstLength(masked, n)>>
    BY <2>3, ConcatEmptySeq
  <2>5. <<>> \in Seq(Nat) /\ Announces(<<>>, n)
    BY <2>1 DEF Announces, Digital
  <2> QED
    BY <2>1, <2>4, <2>5
<1>2. CASE n > Field - 3 /\ n < Base2
  <2>1. /\ LengthBytes(masked, n) = <<FirstLength(masked, Field - 2)>> \o Digits2(n)
        /\ Short(n) = Field - 2 /\ Ext(n) = 2
    BY <1>0, <1>2 DEF LengthBytes, Short, Ext
  <2>2. Digital(Digits2(n), 2) /\ Number2(Digits2(n), 1) = n
    BY <1>2, Two
  <2>3. Digits2(n) \in Seq(Nat) /\ Len(Digits2(n)) = 2
    BY <2>2 DEF Digital
  <2>4. Number(Digits2(n)) = n
    BY <2>2, <2>3 DEF Number
  <2>5. Announces(Digits2(n), n)
    BY <2>1, <2>2, <2>4 DEF Announces
  <2> QED
    BY <2>1, <2>3, <2>5
<1>3. CASE ~(n <= Field - 3) /\ ~(n < Base2)
  <2>1. /\ LengthBytes(masked, n) = <<FirstLength(masked, Field - 1)>> \o Digits8(n)
        /\ Short(n) = Field - 1 /\ Ext(n) = 8
    BY <1>0, <1>3 DEF LengthBytes, Short, Ext
  <2>2. Digital(Digits8(n), 8) /\ Number(Digits8(n)) = n
    BY Eight
  <2>3. Digits8(n) \in Seq(Nat)
    BY <2>2 DEF Digital
  <2>4. Announces(Digits8(n), n)
    BY <2>1, <2>2 DEF Announces
  <2> QED
    BY <2>1, <2>3, <2>4
<1>4. n <= Field - 3 \/ (n > Field - 3 /\ n < Base2) \/ (~(n <= Field - 3) /\ ~(n < Base2))
  BY <1>0
<1> QED
  BY <1>1, <1>2, <1>3, <1>4

(* b are the bytes of the frame f: none is taken for a line.               *)
Small(s) == \A i \in 1..Len(s) : s[i] < 1000
Encoding(b, f) ==
  /\ Small(b)
  /\ \E x \in Nat, d, k, p \in Seq(Nat) :
       /\ Laid(b, x, FirstLength(f.mask, Short(Len(f.payload))), d, k, p)
       /\ x % 16 = f.opcode
       /\ Announces(d, Len(f.payload))
       /\ IF f.mask THEN k \in [1..4 -> Bits] /\ p = Mask(f.payload, k)
                    ELSE k = <<>> /\ p = f.payload

(* What makes b the bytes of f. *)
LEMMA IsEncoding ==
  ASSUME NEW b, NEW f, NEW x \in Nat, NEW d \in Seq(Nat), NEW k \in Seq(Nat), NEW p \in Seq(Nat),
         Small(b), Laid(b, x, FirstLength(f.mask, Short(Len(f.payload))), d, k, p),
         x % 16 = f.opcode, Announces(d, Len(f.payload)),
         IF f.mask THEN k \in [1..4 -> Bits] /\ p = Mask(f.payload, k)
                   ELSE k = <<>> /\ p = f.payload
  PROVE  Encoding(b, f)
BY Zenon DEF Encoding

(* No byte of a frame is a line, when none of its parts is one.            *)
LEMMA SmallBytes ==
  ASSUME NEW b, NEW x \in Nat, NEW y \in Nat, NEW d \in Seq(Nat), NEW k \in Seq(Nat),
         NEW p \in Seq(Nat), Laid(b, x, y, d, k, p), x < 1000, y < 1000,
         Small(d), Small(k), Small(p)
  PROVE  Small(b)
<1> SUFFICES ASSUME NEW i \in 1..Len(b) PROVE b[i] < 1000
  BY DEF Small
<1>1. Len(d) \in Nat /\ Len(k) \in Nat /\ Len(p) \in Nat
  OBVIOUS
<1>2. i \in 1..(2 + Len(d) + Len(k) + Len(p))
  BY DEF Laid
<1>3. CASE i <= 2
  <2>1. i = 1 \/ i = 2
    BY <1>2, <1>3
  <2>2. b[1] = x /\ b[2] = y
    BY DEF Laid
  <2> QED
    BY <2>1, <2>2
<1>4. CASE i > 2 /\ i <= 2 + Len(d)
  <2> DEFINE j == i - 2
  <2>1. j \in 1..Len(d) /\ 2 + j = i
    BY <1>1, <1>4
  <2> HIDE DEF j
  <2>2. b[2 + j] = d[j] /\ d[j] < 1000
    BY <2>1 DEF Laid, Small
  <2> QED
    BY <2>1, <2>2
<1>5. CASE i > 2 + Len(d) /\ i <= 2 + Len(d) + Len(k)
  <2> DEFINE j == i - 2 - Len(d)
  <2>1. j \in 1..Len(k) /\ 2 + Len(d) + j = i
    BY <1>1, <1>5
  <2> HIDE DEF j
  <2>2. k[j] < 1000
    BY <2>1 DEF Small
  <2>3. \A l \in 1..Len(k) : b[2 + Len(d) + l] = k[l]
    BY DEF Laid
  <2>4. b[2 + Len(d) + j] = k[j]
    BY <2>1, <2>3
  <2> QED
    BY <2>1, <2>2, <2>4
<1>6. CASE i > 2 + Len(d) + Len(k)
  <2> DEFINE j == i - 2 - Len(d) - Len(k)
  <2>1. j \in 1..Len(p) /\ 2 + Len(d) + Len(k) + j = i
    BY <1>1, <1>2, <1>6
  <2> HIDE DEF j
  <2>2. b[2 + Len(d) + Len(k) + j] = p[j] /\ p[j] < 1000
    BY <2>1 DEF Laid, Small
  <2> QED
    BY <2>1, <2>2
<1> QED
  BY <1>1, <1>2, <1>3, <1>4, <1>5, <1>6

(* A key is four bytes.                                                    *)
LEMMA KeyIsBytes ==
  ASSUME NEW key \in [1..4 -> Bits]
  PROVE  key \in Seq(Nat) /\ Len(key) = 4 /\ \A i \in 1..4 : key[i] < 1000
<1>1. \A i \in 1..4 : key[i] \in {0, 1}
  BY DEF Bits
<1>2. key \in [1..4 -> Nat]
  BY <1>1
<1>3. key \in Seq(Nat)
  <2>1. key = [i \in 1..4 |-> key[i]] /\ 4 \in Nat
    BY <1>2
  <2> QED
    BY <1>1, <2>1
<1>4. Len(key) = 4
  <2>1. DOMAIN key = 1..4 /\ 4 \in Nat
    BY <1>2
  <2> QED
    BY <1>3, <2>1, LenProperties
<1> QED
  BY <1>1, <1>3, <1>4

(* A payload is a sequence of bytes, of a length eight digits hold.        *)
LEMMA PayloadIsBytes ==
  ASSUME NEW payload \in Payload
  PROVE  /\ payload \in Seq(Bits) /\ Len(payload) \in Nat /\ Len(payload) < Base8
         /\ payload \in Seq(Nat) /\ DOMAIN payload = 1..Len(payload)
         /\ \A i \in 1..Len(payload) : payload[i] \in Bits /\ payload[i] < 1000
<1>1. payload \in Seq(Bits) /\ Len(payload) < Base8 /\ Len(payload) \in Nat
  BY FrameAssumption
<1>2. \A i \in 1..Len(payload) : payload[i] \in Bits
  BY <1>1, ElementOfSeq
<1>3. \A i \in 1..Len(payload) : payload[i] \in Nat /\ payload[i] < 1000
  BY <1>2 DEF Bits
<1>4. DOMAIN payload = 1..Len(payload)
  BY <1>1
<1>5. payload \in Seq(Nat)
  <2>1. payload = [i \in 1..Len(payload) |-> payload[i]]
    BY <1>1
  <2> QED
    BY <1>1, <1>3, <2>1
<1> QED
  BY <1>1, <1>2, <1>3, <1>4, <1>5

(* An index into the key.                                                  *)
LEMMA Indices == \A i \in Nat : i >= 1 => ((i - 1) % 4) + 1 \in 1..4
OBVIOUS

(* A masked payload is a sequence of bytes, of the same length.            *)
LEMMA MaskIsBytes ==
  ASSUME NEW payload \in Payload, NEW key \in [1..4 -> Bits]
  PROVE  /\ Mask(payload, key) \in Seq(Nat) /\ Len(Mask(payload, key)) = Len(payload)
         /\ \A i \in 1..Len(payload) :
              /\ Mask(payload, key)[i] = Xor(payload[i], key[((i - 1) % 4) + 1])
              /\ Mask(payload, key)[i] < 1000
<1> DEFINE n == Len(payload)
           m == Mask(payload, key)
<1>1. n \in Nat /\ DOMAIN payload = 1..n /\ \A i \in 1..n : payload[i] \in Bits
  BY PayloadIsBytes
<1>2. m = [i \in 1..n |-> Xor(payload[i], key[((i - 1) % 4) + 1])]
  BY <1>1 DEF Mask
<1> HIDE DEF m, n
<1>3. ASSUME NEW i \in 1..n
      PROVE  Xor(payload[i], key[((i - 1) % 4) + 1]) \in Bits
  <2> DEFINE j == ((i - 1) % 4) + 1
  <2>1. j \in 1..4
    BY <1>1, Indices
  <2> HIDE DEF j
  <2>2. key[j] \in Bits /\ payload[i] \in Bits
    BY <1>1, <2>1
  <2>3. Xor(payload[i], key[j]) \in Bits
    BY <2>2, XorTwice
  <2> QED
    BY <2>3 DEF j
<1>4. \A i \in 1..n : m[i] = Xor(payload[i], key[((i - 1) % 4) + 1]) /\ m[i] \in Nat /\ m[i] < 1000
  BY <1>2, <1>3 DEF Bits
<1>5. m \in [1..n -> Nat]
  BY <1>2, <1>4
<1>6. m \in Seq(Nat) /\ Len(m) = n
  BY <1>1, <1>5
<1> QED
  BY <1>4, <1>6 DEF m, n

(* What encode writes. *)
LEMMA EncodeIsEncoding ==
  ASSUME NEW opcode \in Opcode, NEW payload \in Payload, NEW key \in Key
  PROVE  Encoding(Encode(opcode, payload, key),
                  [opcode |-> opcode, fin |-> TRUE, mask |-> TRUE, payload |-> payload])
<1> DEFINE n == Len(payload)
           x == First(opcode, TRUE)
           y == FirstLength(TRUE, Short(n))
           p == Mask(payload, key)
           b == Encode(opcode, payload, key)
           f == [opcode |-> opcode, fin |-> TRUE, mask |-> TRUE, payload |-> payload]
<1>1. n \in Nat /\ n < Base8
  BY PayloadIsBytes
<1>2. PICK d \in Seq(Nat) : LengthBytes(TRUE, n) = <<y>> \o d /\ Announces(d, n)
  BY <1>1, LengthIsAnnounced
<1>3. key \in [1..4 -> Bits]
  BY FrameAssumption
<1>4. key \in Seq(Nat) /\ Len(key) = 4 /\ \A i \in 1..4 : key[i] < 1000
  BY <1>3, KeyIsBytes
<1>5. p \in Seq(Nat) /\ Len(p) = n /\ \A i \in 1..n : p[i] < 1000
  BY <1>3, MaskIsBytes
<1>6. x \in Nat /\ x < 1000 /\ x % 16 = opcode
  BY OpcodeOfFirst
<1>7. y \in Nat /\ y < 1000
  BY <1>1, FirstLengthIsByte
<1>8. b = <<x>> \o (<<y>> \o d) \o key \o p
  BY <1>2 DEF Encode
<1>9. Small(d)
  <2>1. Len(d) = Ext(n) /\ \A i \in 1..Ext(n) : d[i] < Base
    BY <1>2 DEF Announces, Digital
  <2>2. \A i \in 1..Len(d) : d[i] \in Nat
    BY <1>2, ElementOfSeq
  <2> QED
    BY <2>1, <2>2, Bases, HandshakeAssumption DEF Small
<1>10. f.opcode = opcode /\ f.mask = TRUE /\ f.payload = payload
  OBVIOUS
<1> HIDE DEF b, p, x, y, n, f
<1>11. Laid(b, x, y, d, key, p)
  <2>1. Laid(<<x>> \o (<<y>> \o d) \o key \o p, x, y, d, key, p)
    BY <1>4, <1>5, <1>6, <1>7, Layout
  <2> QED
    BY <1>8, <2>1
<1>12. Small(b)
  <2>1. Small(key) /\ Small(p)
    BY <1>4, <1>5 DEF Small
  <2>2. /\ x \in Nat /\ x < 1000 /\ y \in Nat /\ y < 1000
        /\ d \in Seq(Nat) /\ key \in Seq(Nat) /\ p \in Seq(Nat)
    BY <1>2, <1>4, <1>5, <1>6, <1>7
  <2> QED
    BY <1>9, <1>11, <2>1, <2>2, SmallBytes
<1>13. /\ Laid(b, x, FirstLength(f.mask, Short(Len(f.payload))), d, key, p)
       /\ x % 16 = f.opcode
       /\ Announces(d, Len(f.payload))
  BY <1>2, <1>6, <1>10, <1>11 DEF y, n
<1>14. f.mask /\ key \in [1..4 -> Bits] /\ p = Mask(f.payload, key)
  BY <1>3, <1>10 DEF p
<1>15. Encoding(b, f)
  <2>1. IF f.mask THEN key \in [1..4 -> Bits] /\ p = Mask(f.payload, key)
                  ELSE key = <<>> /\ p = f.payload
    BY <1>14
  <2>2. x \in Nat /\ d \in Seq(Nat) /\ key \in Seq(Nat) /\ p \in Seq(Nat)
    BY <1>2, <1>4, <1>5, <1>6
  <2> QED
    BY <1>12, <1>13, <2>1, <2>2, IsEncoding
<1> QED
  BY <1>15 DEF b, f

(* What send_frame writes without a mask, and what a server does that      *)
(* writes another first byte.                                              *)
LEMMA PlainIsEncoding ==
  ASSUME NEW opcode \in Opcode, NEW payload \in Payload, NEW fin \in BOOLEAN,
         NEW x \in Nat, x < 1000, x % 16 = opcode, NEW b, NEW d \in Seq(Nat),
         Announces(d, Len(payload)),
         Laid(b, x, FirstLength(FALSE, Short(Len(payload))), d, <<>>, payload)
  PROVE  Encoding(b, [opcode |-> opcode, fin |-> fin, mask |-> FALSE, payload |-> payload])
<1> DEFINE n == Len(payload)
           y == FirstLength(FALSE, Short(n))
           k == <<>>
           f == [opcode |-> opcode, fin |-> fin, mask |-> FALSE, payload |-> payload]
<1>1. n \in Nat /\ n < Base8 /\ payload \in Seq(Nat) /\ \A i \in 1..n : payload[i] < 1000
  BY PayloadIsBytes
<1>2. y \in Nat /\ y < 1000
  <2>1. \A masked \in BOOLEAN : LET z == FirstLength(masked, Short(n)) IN z \in Nat /\ z < 1000
    BY <1>1, FirstLengthIsByte
  <2> QED
    BY <2>1
<1>3. Small(d)
  <2>1. Len(d) = Ext(n) /\ \A i \in 1..Ext(n) : d[i] < Base
    BY DEF Announces, Digital
  <2>2. \A i \in 1..Len(d) : d[i] \in Nat
    BY ElementOfSeq
  <2> QED
    BY <2>1, <2>2, Bases, HandshakeAssumption DEF Small
<1>4. f.opcode = opcode /\ f.mask = FALSE /\ f.payload = payload
  OBVIOUS
<1>5. k \in Seq(Nat) /\ Len(k) = 0
  BY EmptySeq
<1> HIDE DEF y, f, k
<1>6. Small(k) /\ Small(payload)
  BY <1>1, <1>5 DEF Small
<1>7. Laid(b, x, y, d, k, payload)
  BY DEF y, k
<1>8. Small(b)
  <2>1. /\ x \in Nat /\ x < 1000 /\ y \in Nat /\ y < 1000
        /\ d \in Seq(Nat) /\ k \in Seq(Nat) /\ payload \in Seq(Nat)
    BY <1>1, <1>2, <1>5
  <2> HIDE DEF n
  <2> QED
    BY <1>3, <1>6, <1>7, <2>1, SmallBytes
<1>9. /\ Laid(b, x, FirstLength(f.mask, Short(Len(f.payload))), d, k, payload)
      /\ x % 16 = f.opcode
      /\ Announces(d, Len(f.payload))
  BY <1>4, <1>7 DEF y
<1>10. ~f.mask /\ k = <<>> /\ payload = f.payload
  BY <1>4 DEF k
<1>11. Encoding(b, f)
  <2>1. IF f.mask THEN k \in [1..4 -> Bits] /\ payload = Mask(f.payload, k)
                  ELSE k = <<>> /\ payload = f.payload
    BY <1>10
  <2>2. x \in Nat /\ d \in Seq(Nat) /\ k \in Seq(Nat) /\ payload \in Seq(Nat)
    BY <1>1, <1>5
  <2> QED
    BY <1>8, <1>9, <2>1, <2>2, IsEncoding
<1> QED
  BY <1>11 DEF f

(* What send_frame writes is laid out as a frame is.                       *)
LEMMA SendFrameIsLaid ==
  ASSUME NEW opcode \in Opcode, NEW payload \in Payload
  PROVE  \E d \in Seq(Nat) :
           /\ Announces(d, Len(payload))
           /\ Laid(SendFrame(opcode, payload), First(opcode, TRUE),
                   FirstLength(FALSE, Short(Len(payload))), d, <<>>, payload)
<1> DEFINE n == Len(payload)
           x == First(opcode, TRUE)
           y == FirstLength(FALSE, Short(n))
           b == SendFrame(opcode, payload)
<1>1. n \in Nat /\ n < Base8 /\ payload \in Seq(Nat)
  BY PayloadIsBytes
<1>2. PICK d \in Seq(Nat) : LengthBytes(FALSE, n) = <<y>> \o d /\ Announces(d, n)
  BY <1>1, LengthIsAnnounced
<1>3. x \in Nat /\ y \in Nat
  <2>1. x \in Nat
    BY OpcodeOfFirst
  <2>2. y \in Nat
    BY <1>1, FirstLengthIsByte
  <2> QED
    BY <2>1, <2>2
<1>4. <<>> \in Seq(Nat)
  BY EmptySeq
<1> DEFINE h == <<x>> \o (<<y>> \o d)
<1>5. b = h \o payload
  BY <1>2 DEF SendFrame
<1>6. h \in Seq(Nat)
  <2> HIDE DEF x, y
  <2>1. <<x>> \in Seq(Nat) /\ <<y>> \in Seq(Nat)
    BY <1>3
  <2> QED
    BY <1>2, <2>1, ConcatProperties
<1> HIDE DEF b, x, y, n
<1>7. h \o <<>> = h
  BY <1>6, ConcatEmptySeq
<1>8. b = h \o <<>> \o payload
  BY <1>5, <1>7
<1>9. Laid(b, x, y, d, <<>>, payload)
  BY <1>1, <1>3, <1>4, <1>8, Layout
<1> QED
  BY <1>2, <1>9 DEF b, x, y, n

(* What send_frame writes is a frame's encoding.                           *)
LEMMA SendFrameIsEncoding ==
  ASSUME NEW opcode \in Opcode, NEW payload \in Payload
  PROVE  Encoding(SendFrame(opcode, payload),
                  [opcode |-> opcode, fin |-> TRUE, mask |-> FALSE, payload |-> payload])
<1>1. PICK d \in Seq(Nat) :
        /\ Announces(d, Len(payload))
        /\ Laid(SendFrame(opcode, payload), First(opcode, TRUE),
                FirstLength(FALSE, Short(Len(payload))), d, <<>>, payload)
  BY SendFrameIsLaid
<1>2. /\ First(opcode, TRUE) \in Nat /\ First(opcode, TRUE) < 1000
      /\ First(opcode, TRUE) % 16 = opcode
  BY OpcodeOfFirst
<1> QED
  BY <1>1, <1>2, PlainIsEncoding

(* So is what a server writes, fin or not.                                 *)
LEMMA FragmentIsEncoding ==
  ASSUME NEW opcode \in Opcode, NEW fin \in BOOLEAN, NEW payload \in Payload
  PROVE  Encoding(<<First(opcode, fin)>> \o Tail(SendFrame(opcode, payload)),
                  [opcode |-> opcode, fin |-> fin, mask |-> FALSE, payload |-> payload])
<1>1. PICK d \in Seq(Nat) :
        /\ Announces(d, Len(payload))
        /\ Laid(SendFrame(opcode, payload), First(opcode, TRUE),
                FirstLength(FALSE, Short(Len(payload))), d, <<>>, payload)
  BY SendFrameIsLaid
<1>2. /\ First(opcode, fin) \in Nat /\ First(opcode, fin) < 1000
      /\ First(opcode, fin) % 16 = opcode
  BY OpcodeOfFirst
<1>3. payload \in Seq(Nat) /\ <<>> \in Seq(Nat)
  BY PayloadIsBytes, EmptySeq
<1>4. Laid(<<First(opcode, fin)>> \o Tail(SendFrame(opcode, payload)), First(opcode, fin),
           FirstLength(FALSE, Short(Len(payload))), d, <<>>, payload)
  BY <1>1, <1>2, <1>3, LayoutOfFragment
<1> QED
  BY <1>1, <1>2, <1>4, PlainIsEncoding

(* The frames fs stand in the stream w one behind the other. Those at its  *)
(* beginning may be read already: start[k] is where the bytes of frame k   *)
(* begin, or began, counted from what is next to be read. Where the stream *)
(* ended, what is behind its end is lost.                                  *)
Framed(w, fs, ended, bytes, start) ==
  /\ bytes \in [Nat -> Seq(Nat)] /\ start \in [Nat -> Int]
  /\ \A k \in 1..Len(fs) : Encoding(bytes[k], fs[k])
  /\ \A k \in 1..Len(fs) : start[k] + Len(bytes[k]) <= start[Len(fs) + 1]
  /\ \A j, k \in 1..(Len(fs) + 1) : j = k + 1 => start[j] = start[k] + Len(bytes[k])
  /\ start[1] <= start[Len(fs) + 1]
  /\ Len(w) <= start[Len(fs) + 1]
  /\ ~ended => Len(w) = start[Len(fs) + 1]
  /\ \A k \in 1..Len(fs) : \A i \in 1..Len(bytes[k]) : \A p \in 1..Len(w) :
       p = start[k] + i => w[p] = bytes[k][i]

(* The stream before the first frame.                                      *)
LEMMA NoFrames ==
  ASSUME NEW w \in Seq(Nat), NEW ended, NEW bytes \in [Nat -> Seq(Nat)], NEW start \in [Nat -> Int],
         start[1] = Len(w)
  PROVE  Framed(w, <<>>, ended, bytes, start)
<1> DEFINE fs == <<>>
<1>1. Len(fs) = 0 /\ Len(w) \in Nat
  OBVIOUS
<1> HIDE DEF fs
<1>2. Len(fs) + 1 = 1 /\ \A k \in 1..Len(fs) : FALSE
  BY <1>1
<1>3. \A j, k \in 1..(Len(fs) + 1) : j # k + 1
  BY <1>1
<1>4. start[Len(fs) + 1] = Len(w) /\ start[1] = Len(w)
  BY <1>2
<1>5. /\ \A k \in 1..Len(fs) : Encoding(bytes[k], fs[k])
      /\ \A k \in 1..Len(fs) : start[k] + Len(bytes[k]) <= start[Len(fs) + 1]
      /\ \A k \in 1..Len(fs) : \A i \in 1..Len(bytes[k]) : \A p \in 1..Len(w) :
           p = start[k] + i => w[p] = bytes[k][i]
  BY <1>2
<1>6. start[1] <= start[Len(fs) + 1] /\ Len(w) <= start[Len(fs) + 1]
  BY <1>1, <1>4
<1>7. Framed(w, fs, ended, bytes, start)
  BY <1>3, <1>4, <1>5, <1>6 DEF Framed
<1> QED
  BY <1>7 DEF fs

(* A read takes bytes off the front. *)
LEMMA Shift ==
  ASSUME NEW w \in Seq(Nat), NEW fs \in Seq(Frame), NEW ended, NEW bytes, NEW start,
         Framed(w, fs, ended, bytes, start), NEW n \in Nat, n <= Len(w)
  PROVE  Framed(SubSeq(w, n + 1, Len(w)), fs, ended, bytes, [k \in Nat |-> start[k] - n])
<1> DEFINE v == SubSeq(w, n + 1, Len(w))
           s == [k \in Nat |-> start[k] - n]
           z == Len(fs) + 1
<1>1. Len(w) \in Nat /\ Len(fs) \in Nat /\ z \in Nat /\ 1..z \subseteq Nat /\ 1..Len(fs) \subseteq Nat
  OBVIOUS
<1>2. Len(v) = Len(w) - n /\ \A i \in 1..(Len(w) - n) : v[i] = w[n + i]
  BY Cut
<1>3. start \in [Nat -> Int] /\ bytes \in [Nat -> Seq(Nat)]
  BY DEF Framed
<1>4. s \in [Nat -> Int] /\ \A k \in Nat : s[k] = start[k] - n
  BY <1>3
<1>5. \A k \in 1..Len(fs) : start[k] \in Int /\ Len(bytes[k]) \in Nat
  BY <1>1, <1>3
<1> HIDE DEF v, s
<1>6. ASSUME NEW k \in 1..Len(fs) PROVE s[k] + Len(bytes[k]) <= s[z]
  <2>1. start[k] + Len(bytes[k]) <= start[z]
    BY DEF Framed
  <2> HIDE DEF z
  <2>2. k \in Nat
    BY <1>1
  <2>3. s[k] = start[k] - n /\ s[z] = start[z] - n
    BY <1>1, <1>4, <2>2
  <2>4. start[k] \in Int /\ start[z] \in Int /\ Len(bytes[k]) \in Nat
    BY <1>1, <1>3, <1>5
  <2> QED
    BY <2>1, <2>3, <2>4
<1>7. ASSUME NEW j \in 1..z, NEW k \in 1..z, j = k + 1
      PROVE  s[j] = s[k] + Len(bytes[k])
  <2>1. start[j] = start[k] + Len(bytes[k])
    BY <1>7 DEF Framed
  <2>2. s[j] = start[j] - n /\ s[k] = start[k] - n /\ start[k] \in Int
    BY <1>1, <1>3, <1>4
  <2>3. Len(bytes[k]) \in Nat
    BY <1>1, <1>3
  <2> QED
    BY <2>1, <2>2, <2>3
<1>8. s[1] <= s[z] /\ Len(v) <= s[z] /\ (~ended => Len(v) = s[z])
  <2>1. start[1] <= start[z] /\ Len(w) <= start[z] /\ (~ended => Len(w) = start[z])
    BY DEF Framed
  <2> HIDE DEF z
  <2>2. start[1] \in Int /\ start[z] \in Int /\ s[1] = start[1] - n /\ s[z] = start[z] - n
    BY <1>1, <1>3, <1>4
  <2> QED
    BY <1>1, <1>2, <2>1, <2>2
<1>9. ASSUME NEW k \in 1..Len(fs), NEW i \in 1..Len(bytes[k]), NEW p \in 1..Len(v), p = s[k] + i
      PROVE  v[p] = bytes[k][i]
  <2> DEFINE q == n + p
  <2>1. start[k] \in Int /\ s[k] = start[k] - n
    BY <1>1, <1>4, <1>5
  <2>4. i \in Int /\ p \in Int
    <3>1. Len(bytes[k]) \in Nat /\ Len(v) \in Nat
      BY <1>1, <1>2, <1>5
    <3> QED
      BY <3>1
  <2>2. q \in 1..Len(w) /\ q = start[k] + i
    <3>1. p = start[k] - n + i
      BY <1>9, <2>1
    <3>2. p >= 1 /\ p <= Len(w) - n
      BY <1>2, <2>4
    <3>3. n + p = start[k] + i
      BY <2>1, <2>4, <3>1
    <3>4. n + p \in Int /\ n + p >= 1 /\ n + p <= Len(w)
      BY <1>1, <2>4, <3>2
    <3>5. n + p \in 1..Len(w)
      BY <1>1, <3>4
    <3> QED
      BY <3>3, <3>5
  <2>3. v[p] = w[q]
    BY <1>1, <1>2
  <2> HIDE DEF q
  <2> QED
    BY <2>2, <2>3 DEF Framed
<1>10. \A k \in 1..Len(fs) : Encoding(bytes[k], fs[k])
  BY DEF Framed
<1>11. Framed(v, fs, ended, bytes, s)
  BY <1>3, <1>4, <1>6, <1>7, <1>8, <1>9, <1>10 DEF Framed
<1> QED
  BY <1>11 DEF v, s

(* A frame is written behind the others. *)
LEMMA Grow ==
  ASSUME NEW w \in Seq(Nat), NEW fs \in Seq(Frame), NEW bytes, NEW start,
         Framed(w, fs, FALSE, bytes, start), NEW b \in Seq(Nat), NEW f \in Frame,
         Encoding(b, f)
  PROVE  Framed(w \o b, Append(fs, f), FALSE, [bytes EXCEPT ![Len(fs) + 1] = b],
                [start EXCEPT ![Len(fs) + 2] = Len(w) + Len(b)])
<1> DEFINE z == Len(fs) + 1
           y == Len(fs) + 2
           v == w \o b
           gs == Append(fs, f)
           bs == [bytes EXCEPT ![z] = b]
           s == [start EXCEPT ![y] = Len(w) + Len(b)]
<1>1. Len(w) \in Nat /\ Len(b) \in Nat /\ Len(fs) \in Nat
  OBVIOUS
<1>2. /\ v \in Seq(Nat) /\ Len(v) = Len(w) + Len(b)
      /\ \A i \in 1..Len(w) : v[i] = w[i]
      /\ \A i \in 1..Len(b) : v[Len(w) + i] = b[i]
  <2>1. \A a, c \in Seq(Nat) :
          /\ a \o c \in Seq(Nat) /\ Len(a \o c) = Len(a) + Len(c)
          /\ \A i \in 1..Len(a) : (a \o c)[i] = a[i]
          /\ \A i \in 1..Len(c) : (a \o c)[Len(a) + i] = c[i]
    BY Concat
  <2> QED
    BY <2>1
<1>3. Len(gs) = z /\ (\A i \in 1..Len(fs) : gs[i] = fs[i]) /\ gs[z] = f
  BY AppendProperties
<1>4. /\ bytes \in [Nat -> Seq(Nat)] /\ start \in [Nat -> Int]
      /\ \A k \in 1..Len(fs) : Encoding(bytes[k], fs[k])
      /\ \A k \in 1..Len(fs) : start[k] + Len(bytes[k]) <= start[z]
      /\ \A j, k \in 1..z : j = k + 1 => start[j] = start[k] + Len(bytes[k])
      /\ start[1] <= start[z] /\ Len(w) = start[z]
      /\ \A k \in 1..Len(fs) : \A i \in 1..Len(bytes[k]) : \A p \in 1..Len(w) :
           p = start[k] + i => w[p] = bytes[k][i]
  BY DEF Framed
<1>5. /\ z \in Nat /\ y \in Nat /\ z >= 1 /\ y = z + 1
      /\ \A k \in 1..z : k \in Nat /\ k # y /\ (k = z \/ k \in 1..Len(fs))
      /\ \A k \in 1..Len(fs) : k \in 1..z /\ k # z
      /\ \A k \in 1..y : k \in Nat /\ (k = y \/ k \in 1..z)
  BY <1>1
<1>6. bs \in [Nat -> Seq(Nat)] /\ bs[z] = b /\ \A k \in Nat : k # z => bs[k] = bytes[k]
  BY <1>4, <1>5
<1>7. s \in [Nat -> Int] /\ s[y] = Len(v) /\ \A k \in Nat : k # y => s[k] = start[k]
  <2>1. Len(w) + Len(b) \in Int /\ Len(v) = Len(w) + Len(b)
    BY <1>1, <1>2
  <2>2. y \in Nat
    BY <1>5
  <2> HIDE DEF y, v
  <2>3. s \in [Nat -> Int]
    BY <1>4, <2>1, <2>2
  <2>4. s[y] = Len(v)
    BY <1>4, <2>1, <2>2
  <2>5. \A k \in Nat : k # y => s[k] = start[k]
    BY <1>4, <2>1, <2>2
  <2> QED
    BY <2>3, <2>4, <2>5
<1> HIDE DEF z, y, v, gs, bs, s
<1>8. /\ \A k \in 1..Len(fs) : bs[k] = bytes[k] /\ s[k] = start[k] /\ gs[k] = fs[k]
                               /\ start[k] \in Int /\ Len(bytes[k]) \in Nat
      /\ s[z] = Len(w) /\ s[1] = start[1] /\ start[1] \in Int
  BY <1>3, <1>4, <1>5, <1>6, <1>7
<1>9. ASSUME NEW k \in 1..z PROVE Encoding(bs[k], gs[k])
  BY <1>3, <1>4, <1>5, <1>6, <1>8
<1>10. ASSUME NEW k \in 1..z PROVE s[k] + Len(bs[k]) <= s[y]
  <2>1. CASE k = z
    <3>1. s[k] = Len(w) /\ bs[k] = b /\ s[y] = Len(w) + Len(b)
      BY <1>2, <1>6, <1>7, <1>8, <2>1
    <3> QED
      BY <1>1, <3>1
  <2>2. CASE k \in 1..Len(fs)
    <3>1. start[k] + Len(bytes[k]) <= Len(w)
      BY <1>4, <2>2
    <3>2. s[k] = start[k] /\ bs[k] = bytes[k] /\ start[k] \in Int /\ Len(bytes[k]) \in Nat
      BY <1>8, <2>2
    <3>3. s[y] = Len(w) + Len(b)
      BY <1>2, <1>7
    <3> QED
      BY <1>1, <3>1, <3>2, <3>3
  <2> QED
    BY <1>5, <2>1, <2>2
<1>11. ASSUME NEW j \in 1..y, NEW k \in 1..y, j = k + 1
       PROVE  s[j] = s[k] + Len(bs[k])
  <2>1. CASE j = y
    <3>1. k = z
      BY <1>5, <1>11, <2>1
    <3> QED
      BY <1>2, <1>6, <1>7, <1>8, <2>1, <3>1
  <2>2. CASE j \in 1..z
    <3>1. k \in 1..z /\ k # z /\ k \in 1..Len(fs)
      BY <1>5, <1>11, <2>2
    <3>2. start[j] = start[k] + Len(bytes[k])
      BY <1>4, <1>11, <2>2, <3>1
    <3>3. s[j] = start[j]
      BY <1>5, <1>7, <2>2
    <3> QED
      BY <1>8, <3>1, <3>2, <3>3
  <2> QED
    BY <1>5, <2>1, <2>2
<1>12. s[1] <= s[y] /\ Len(v) = s[y]
  <2>1. s[1] = start[1] /\ start[1] \in Int /\ start[1] <= Len(w)
    BY <1>4, <1>8
  <2>2. s[y] = Len(w) + Len(b) /\ Len(v) = s[y]
    BY <1>2, <1>7
  <2> QED
    BY <1>1, <2>1, <2>2
<1>13. ASSUME NEW k \in 1..z, NEW i \in 1..Len(bs[k]), NEW p \in 1..Len(v), p = s[k] + i
       PROVE  v[p] = bs[k][i]
  <2>1. CASE k = z
    BY <1>1, <1>2, <1>6, <1>8, <1>13, <2>1
  <2>2. CASE k \in 1..Len(fs)
    <3>1. /\ bs[k] = bytes[k] /\ s[k] = start[k] /\ start[k] \in Int /\ Len(bytes[k]) \in Nat
          /\ start[k] + Len(bytes[k]) <= Len(w)
      BY <1>4, <1>8, <2>2
    <3>2. p \in 1..Len(w) /\ i \in 1..Len(bytes[k]) /\ p = start[k] + i
      BY <1>1, <1>13, <3>1
    <3>3. w[p] = bytes[k][i] /\ v[p] = w[p]
      BY <1>2, <1>4, <2>2, <3>2
    <3> QED
      BY <3>1, <3>3
  <2> QED
    BY <1>5, <2>1, <2>2
<1>14. Len(gs) + 1 = y
  BY <1>3, <1>5
<1>15. Len(v) \in Nat /\ Len(v) <= s[y]
  BY <1>1, <1>2, <1>12
<1>16. Framed(v, gs, FALSE, bs, s)
  <2>1. /\ \A k \in 1..Len(gs) : Encoding(bs[k], gs[k])
        /\ \A k \in 1..Len(gs) : s[k] + Len(bs[k]) <= s[Len(gs) + 1]
    BY <1>3, <1>9, <1>10, <1>14
  <2>2. \A j, k \in 1..(Len(gs) + 1) : j = k + 1 => s[j] = s[k] + Len(bs[k])
    BY <1>11, <1>14
  <2>3. /\ s[1] <= s[Len(gs) + 1] /\ Len(v) <= s[Len(gs) + 1] /\ Len(v) = s[Len(gs) + 1]
    BY <1>12, <1>14, <1>15
  <2>4. \A k \in 1..Len(gs) : \A i \in 1..Len(bs[k]) : \A p \in 1..Len(v) :
          p = s[k] + i => v[p] = bs[k][i]
    BY <1>3, <1>13
  <2> QED
    BY <1>6, <1>7, <2>1, <2>2, <2>3, <2>4 DEF Framed
<1> QED
  BY <1>16 DEF v, gs, bs, s, z, y

(* The stream ends. *)
LEMMA Truncate ==
  ASSUME NEW w \in Seq(Nat), NEW fs, NEW ended, NEW bytes, NEW start,
         Framed(w, fs, ended, bytes, start), fs \in Seq(Frame),
         NEW v \in Seq(Nat), Len(v) <= Len(w),
         \A i \in 1..Len(v) : v[i] = w[i] \/ w[i] >= 1000
  PROVE  Framed(v, fs, TRUE, bytes, start)
<1>1. Len(w) \in Nat /\ Len(v) \in Nat /\ Len(fs) \in Nat
  OBVIOUS
<1>2. ASSUME NEW k \in 1..Len(fs), NEW i \in 1..Len(bytes[k]), NEW p \in 1..Len(v), p = start[k] + i
      PROVE  v[p] = bytes[k][i]
  <2>1. p \in 1..Len(w)
    BY <1>1
  <2>2. w[p] = bytes[k][i]
    BY <1>2, <2>1 DEF Framed
  <2>3. bytes[k][i] < 1000
    BY DEF Framed, Encoding, Small
  <2>4. bytes[k][i] \in Nat
    <3>1. k \in Nat /\ bytes[k] \in Seq(Nat)
      BY <1>1 DEF Framed
    <3> QED
      BY <3>1, ElementOfSeq
  <2> QED
    BY <2>2, <2>3, <2>4
<1>3. start[Len(fs) + 1] \in Int
  BY <1>1 DEF Framed
<1>4. Len(v) <= start[Len(fs) + 1]
  <2>1. Len(w) <= start[Len(fs) + 1]
    BY DEF Framed
  <2> QED
    BY <1>1, <1>3, <2>1
<1> QED
  BY <1>2, <1>4 DEF Framed

(* Nothing is left of it: then it does not matter where the frames stood.  *)
LEMMA Nothing ==
  ASSUME NEW fs \in Seq(Frame), NEW bytes, NEW start,
         Framed(<<>>, fs, TRUE, bytes, start), NEW n \in Nat, n <= start[1]
  PROVE  Framed(<<>>, fs, TRUE, bytes, [k \in Nat |-> start[k] - n])
<1> DEFINE s == [k \in Nat |-> start[k] - n]
           z == Len(fs) + 1
           w == <<>>
<1>1. Len(w) = 0 /\ Len(fs) \in Nat /\ z \in Nat /\ 1..z \subseteq Nat /\ 1..Len(fs) \subseteq Nat
  OBVIOUS
<1>2. start \in [Nat -> Int] /\ bytes \in [Nat -> Seq(Nat)]
  BY DEF Framed
<1>3. s \in [Nat -> Int] /\ \A k \in Nat : s[k] = start[k] - n
  BY <1>2
<1> HIDE DEF s, w
<1>4. \A k \in 1..Len(fs) : start[k] + Len(bytes[k]) <= start[z]
  BY DEF Framed
<1>5. start[1] <= start[z]
  BY DEF Framed
<1>6. \A j, k \in 1..z : j = k + 1 => start[j] = start[k] + Len(bytes[k])
  BY DEF Framed
<1>7. \A k \in 1..Len(fs) : Encoding(bytes[k], fs[k])
  BY DEF Framed
<1>8. Framed(w, fs, TRUE, bytes, s)
  <2> HIDE DEF z
  <2>0. ASSUME NEW k \in Nat
        PROVE  s[k] = start[k] - n /\ start[k] \in Int /\ Len(bytes[k]) \in Nat
    <3>1. bytes[k] \in Seq(Nat) /\ start[k] \in Int
      BY <1>2
    <3> QED
      BY <1>3, <3>1
  <2>1. \A k \in 1..z : s[k] = start[k] - n /\ start[k] \in Int /\ Len(bytes[k]) \in Nat
    BY <1>1, <2>0
  <2>2. \A k \in 1..Len(fs) : s[k] = start[k] - n /\ start[k] \in Int /\ Len(bytes[k]) \in Nat
    BY <1>1, <2>0
  <2>3. s[z] = start[z] - n /\ s[1] = start[1] - n /\ start[z] \in Int /\ start[1] \in Int
    BY <1>1, <1>2, <1>3
  <2>4. \A k \in 1..Len(fs) : s[k] + Len(bytes[k]) <= s[z]
    BY <1>4, <2>2, <2>3
  <2>5. \A j, k \in 1..z : j = k + 1 => s[j] = s[k] + Len(bytes[k])
    BY <1>6, <2>1
  <2>6. s[1] <= s[z] /\ Len(w) <= s[z]
    BY <1>1, <1>5, <2>3
  <2>7. \A p \in 1..Len(w) : FALSE
    BY <1>1
  <2> QED
    BY <1>2, <1>3, <1>7, <2>4, <2>5, <2>6, <2>7 DEF Framed, z
<1> QED
  BY <1>8 DEF s, w

------------------------------------------------------------------------------
(* What receive reads of the frame c.                                      *)
LEMMA FrameIs ==
  ASSUME NEW f \in Frame
  PROVE  /\ f.opcode \in Opcode /\ f.mask \in BOOLEAN /\ f.payload \in Payload
         /\ Len(f.payload) \in Nat /\ Len(f.payload) < Base8
BY PayloadIsBytes DEF Frame

(* The bytes b of a frame f begin behind the place at; those that are      *)
(* read already have places up to 0, those lost are behind the end.        *)
Stands(w, b, f, at) ==
  /\ Encoding(b, f) /\ b \in Seq(Nat) /\ f \in Frame /\ at \in Int
  /\ \A i \in 1..Len(b) : \A p \in 1..Len(w) : p = at + i => w[p] = b[i]

(* The frame that is next stands where it starts.                          *)
LEMMA Found ==
  ASSUME NEW w \in Seq(Nat), NEW fs \in Seq(Frame), NEW ended, NEW bytes, NEW start,
         Framed(w, fs, ended, bytes, start), NEW c \in 1..Len(fs)
  PROVE  Stands(w, bytes[c], fs[c], start[c])
<1>1. c \in Nat /\ fs[c] \in Frame
  BY ElementOfSeq
<1>2. bytes[c] \in Seq(Nat) /\ start[c] \in Int
  BY <1>1 DEF Framed
<1>3. Encoding(bytes[c], fs[c])
  BY DEF Framed
<1>4. \A i \in 1..Len(bytes[c]) : \A p \in 1..Len(w) :
        p = start[c] + i => w[p] = bytes[c][i]
  BY DEF Framed
<1> QED
  BY <1>1, <1>2, <1>3, <1>4 DEF Stands

(* Where bytes are left in the stream, a frame is left.                    *)
LEMMA NextIsWritten ==
  ASSUME NEW w \in Seq(Nat), NEW fs \in Seq(Frame), NEW ended, NEW bytes, NEW start,
         Framed(w, fs, ended, bytes, start), NEW c \in 1..(Len(fs) + 1), start[c] = 0,
         Len(w) > 0
  PROVE  c \in 1..Len(fs)
<1>0. Len(fs) \in Nat /\ Len(w) \in Nat
  OBVIOUS
<1>3. Len(w) <= start[Len(fs) + 1]
  BY DEF Framed
<1>1. Len(fs) \in Nat /\ Len(w) \in Nat /\ Len(w) <= start[Len(fs) + 1]
  BY <1>0, <1>3
<1>2. c # Len(fs) + 1
  <2> SUFFICES ASSUME c = Len(fs) + 1 PROVE FALSE
    OBVIOUS
  <2>1. start[Len(fs) + 1] = 0
    OBVIOUS
  <2> QED
    BY <1>1, <2>1
<1> QED
  BY <1>1, <1>2

(* What receive makes of the first two bytes of a frame.                   *)
LEMMA HeaderBytes ==
  ASSUME NEW w \in Seq(Nat), NEW b, NEW f, NEW at, Stands(w, b, f, at), at = 0, Len(w) >= 2
  PROVE  /\ w[1] % 16 = f.opcode
         /\ w[2] >= Field <=> f.mask
         /\ w[2] % Field = Short(Len(f.payload))
<1> DEFINE n == Len(f.payload)
           s == Short(n)
<1>2. /\ Encoding(b, f) /\ b \in Seq(Nat) /\ Len(b) \in Nat /\ f \in Frame
      /\ \A i \in 1..Len(b) : \A p \in 1..Len(w) : p = at + i => w[p] = b[i]
  BY DEF Stands
<1>3. n \in Nat /\ f.mask \in BOOLEAN
  BY <1>2, FrameIs
<1>4. PICK x \in Nat, d \in Seq(Nat), k \in Seq(Nat), p \in Seq(Nat) :
        Laid(b, x, FirstLength(f.mask, s), d, k, p) /\ x % 16 = f.opcode
  BY <1>2 DEF Encoding
<1> HIDE DEF n
<1>7. s \in Nat /\ s < Field /\ Field \in Nat
  <2>1. s \in 0..(Field - 1)
    BY <1>3, Lengths
  <2> QED
    BY <2>1, FrameAssumption
<1> HIDE DEF s
<1>5. Len(b) >= 2 /\ b[1] = x /\ b[2] = FirstLength(f.mask, s)
  <2>1. Len(d) \in Nat /\ Len(k) \in Nat /\ Len(p) \in Nat
    OBVIOUS
  <2> QED
    BY <1>4, <2>1 DEF Laid
<1>6. w[1] = x /\ w[2] = FirstLength(f.mask, s)
  <2>1. 1 \in 1..Len(b) /\ 2 \in 1..Len(b) /\ 1 \in 1..Len(w) /\ 2 \in 1..Len(w)
    BY <1>2, <1>5
  <2>2. 1 = at + 1 /\ 2 = at + 2
    OBVIOUS
  <2> QED
    BY <1>2, <1>5, <2>1, <2>2
<1>8. s % Field = s /\ (Field + s) % Field = s
  BY <1>7, Residue
<1>9. w[2] = IF f.mask THEN Field + s ELSE s
  BY <1>6 DEF FirstLength
<1>10. (w[2] >= Field <=> f.mask) /\ w[2] % Field = s
  <2>1. CASE f.mask
    BY <1>7, <1>8, <1>9, <2>1
  <2>2. CASE ~f.mask
    BY <1>7, <1>8, <1>9, <2>2
  <2> QED
    BY <2>1, <2>2
<1> QED
  BY <1>4, <1>6, <1>10 DEF n, s

(* A read returns the part of a frame that is next.                        *)
LEMMA PartRead ==
  ASSUME NEW w \in Seq(Nat), NEW b \in Seq(Nat), NEW at \in Int,
         \A i \in 1..Len(b) : \A p \in 1..Len(w) : p = at + i => w[p] = b[i],
         NEW o \in Nat, at + o = 0, NEW s \in Seq(Nat), o + Len(s) <= Len(b),
         \A i \in 1..Len(s) : b[o + i] = s[i], NEW n, n = Len(s), n <= Len(w)
  PROVE  SubSeq(w, 1, n) = s
<1>1. Len(w) \in Nat /\ Len(b) \in Nat /\ Len(s) \in Nat
  OBVIOUS
<1>2. ASSUME NEW i \in 1..Len(s) PROVE w[i] = s[i]
  <2> DEFINE j == o + i
  <2>1. i \in Int /\ i >= 1 /\ i <= Len(s)
    BY <1>1
  <2>2. j \in 1..Len(b)
    BY <1>1, <2>1
  <2>3. i \in 1..Len(w)
    BY <1>1, <2>1
  <2>4. i = at + j
    BY <2>1
  <2>5. b[j] = s[i]
    OBVIOUS
  <2> HIDE DEF j
  <2> QED
    BY <2>2, <2>3, <2>4, <2>5
<1> QED
  BY <1>2, Prefix

(* The digits of a length have a number.                                   *)
LEMMA ExtIsNat == \A n \in Nat : Ext(n) \in Nat
BY DEF Ext

(* What receive makes of the digits of a length.                           *)
LEMMA LengthRead ==
  ASSUME NEW w \in Seq(Nat), NEW b, NEW f, NEW at, Stands(w, b, f, at), at + 2 = 0,
         NEW e, e = Ext(Len(f.payload)), e # 0, Len(w) >= e
  PROVE  Number(SubSeq(w, 1, e)) = Len(f.payload)
<1> DEFINE n == Len(f.payload)
<1>2. /\ Encoding(b, f) /\ b \in Seq(Nat) /\ Len(b) \in Nat /\ f \in Frame /\ at \in Int
      /\ \A i \in 1..Len(b) : \A p \in 1..Len(w) : p = at + i => w[p] = b[i]
  <2>1. /\ Encoding(b, f) /\ b \in Seq(Nat) /\ f \in Frame /\ at \in Int
        /\ \A i \in 1..Len(b) : \A p \in 1..Len(w) : p = at + i => w[p] = b[i]
    BY Zenon DEF Stands
  <2>2. Len(b) \in Nat
    BY <2>1
  <2> QED
    BY <2>1, <2>2, Zenon
<1>3. n \in Nat
  BY <1>2, FrameIs
<1>4. PICK x \in Nat, d \in Seq(Nat), k \in Seq(Nat), p \in Seq(Nat) :
        Laid(b, x, FirstLength(f.mask, Short(n)), d, k, p) /\ Announces(d, n)
  BY <1>2 DEF Encoding
<1>5. e = Ext(n)
  OBVIOUS
<1> HIDE DEF n
<1>10. e \in Nat
  BY <1>3, <1>5, ExtIsNat
<1>6. Len(d) = e /\ Number(d) = n
  BY <1>4, <1>5 DEF Announces, Digital
<1>7. Len(k) \in Nat /\ Len(p) \in Nat /\ Len(w) \in Nat
  OBVIOUS
<1>11. Len(b) >= 2 + e /\ \A i \in 1..Len(d) : b[2 + i] = d[i]
  BY <1>4, <1>6, <1>7, <1>10 DEF Laid
<1>9. SubSeq(w, 1, e) = d
  <2> DEFINE o == 2
  <2>1. o \in Nat /\ at + o = 0 /\ o + Len(d) <= Len(b) /\ \A i \in 1..Len(d) : b[o + i] = d[i]
    BY <1>6, <1>11
  <2>2. e = Len(d) /\ e <= Len(w)
    BY <1>6, <1>7, <1>10
  <2> HIDE DEF o
  <2> QED
    BY <1>2, <2>1, <2>2, PartRead
<1> QED
  BY <1>6, <1>9 DEF n

(* The key of a frame whose payload has length n. *)
KeyIs(key, b, n) ==
  /\ key \in [1..4 -> Bits]
  /\ \A i \in 1..4 : key[i] = b[2 + Ext(n) + i]

(* What receive makes of the four bytes of a key.                          *)
LEMMA KeyRead ==
  ASSUME NEW w \in Seq(Nat), NEW b, NEW f, NEW at, Stands(w, b, f, at), f.mask,
         NEW n, n = Len(f.payload), at + 2 + Ext(n) = 0, Len(w) >= 4
  PROVE  KeyIs(SubSeq(w, 1, 4), b, n)
<1>2. /\ Encoding(b, f) /\ b \in Seq(Nat) /\ Len(b) \in Nat /\ f \in Frame /\ at \in Int
      /\ \A i \in 1..Len(b) : \A p \in 1..Len(w) : p = at + i => w[p] = b[i]
  <2>1. /\ Encoding(b, f) /\ b \in Seq(Nat) /\ f \in Frame /\ at \in Int
        /\ \A i \in 1..Len(b) : \A p \in 1..Len(w) : p = at + i => w[p] = b[i]
    BY Zenon DEF Stands
  <2>2. Len(b) \in Nat
    BY <2>1
  <2> QED
    BY <2>1, <2>2, Zenon
<1>3. n \in Nat
  BY <1>2, FrameIs
<1>4. PICK x \in Nat, d \in Seq(Nat), k \in Seq(Nat), p \in Seq(Nat) :
        /\ Laid(b, x, FirstLength(f.mask, Short(n)), d, k, p) /\ Announces(d, n)
        /\ k \in [1..4 -> Bits]
  BY <1>2 DEF Encoding
<1>5. PICK e \in Nat : e = Ext(n)
  BY <1>3, ExtIsNat
<1>10. e \in Nat
  OBVIOUS
<1>6. Len(d) = e
  BY <1>4, <1>5 DEF Announces, Digital
<1>12. Len(k) = 4
  BY <1>4, KeyIsBytes
<1>7. Len(p) \in Nat /\ Len(w) \in Nat
  OBVIOUS
<1>11. Len(b) >= 2 + e + 4 /\ \A i \in 1..Len(k) : b[2 + e + i] = k[i]
  BY <1>4, <1>6, <1>7, <1>10, <1>12 DEF Laid
<1>9. SubSeq(w, 1, 4) = k
  <2> DEFINE o == 2 + e
  <2>1. o \in Nat /\ at + o = 0 /\ \A i \in 1..Len(k) : b[o + i] = k[i]
    <3>1. o \in Nat
      BY <1>10
    <3>2. at + o = 0
      BY <1>2, <1>5
    <3> QED
      BY <1>11, <3>1, <3>2
  <2>2. o + Len(k) <= Len(b)
    BY <1>11, <1>12
  <2>3. 4 = Len(k) /\ 4 <= Len(w)
    BY <1>7, <1>12
  <2> HIDE DEF o
  <2> QED
    BY <1>2, <2>1, <2>2, <2>3, PartRead
<1> QED
  BY <1>4, <1>5, <1>9, <1>11, <1>12 DEF KeyIs

Unmasked(key, payload) ==
  [i \in DOMAIN payload |-> Xor(payload[i], key[((i - 1) % 4) + 1])]
Plain(masked, key, payload) == IF masked THEN Unmasked(key, payload) ELSE payload

(* apply_mask undoes what encode does.                                     *)
LEMMA PlainOfMask ==
  ASSUME NEW q \in Payload, NEW k \in [1..4 -> Bits], NEW key \in [1..4 -> Bits],
         \A i \in 1..4 : key[i] = k[i]
  PROVE  Unmasked(key, Mask(q, k)) = q
<1> DEFINE n == Len(q)
           p == Mask(q, k)
<1>1. n \in Nat /\ DOMAIN q = 1..n /\ q \in Seq(Bits) /\ \A i \in 1..n : q[i] \in Bits
  BY PayloadIsBytes
<1>2. /\ p \in Seq(Nat) /\ Len(p) = n
      /\ \A i \in 1..n : p[i] = Xor(q[i], k[((i - 1) % 4) + 1])
  BY MaskIsBytes
<1> HIDE DEF n, p
<1>3. DOMAIN p = 1..n
  BY <1>2
<1>5. ASSUME NEW i \in 1..n PROVE Xor(p[i], key[((i - 1) % 4) + 1]) = q[i]
  <2> DEFINE j == ((i - 1) % 4) + 1
  <2>1. j \in 1..4
    BY <1>1, Indices
  <2>2. p[i] = Xor(q[i], k[j])
    BY <1>2
  <2> HIDE DEF j
  <2>3. key[j] = k[j] /\ k[j] \in Bits /\ q[i] \in Bits
    BY <1>1, <2>1
  <2>4. Xor(p[i], key[j]) = q[i]
    BY <2>2, <2>3, XorTwice
  <2> QED
    BY <2>4 DEF j
<1>6. Unmasked(key, p) = [i \in 1..n |-> q[i]]
  BY <1>3, <1>5 DEF Unmasked
<1>7. q = [i \in 1..n |-> q[i]]
  BY <1>1
<1> QED
  BY <1>6, <1>7 DEF p

AtPayload(plength, key, f, b, at) ==
  /\ plength = Len(f.payload)
  /\ at + 2 + Ext(plength) + (IF f.mask THEN 4 ELSE 0) = 0
  /\ f.mask => KeyIs(key, b, plength)

(* What receive makes of the bytes of a payload.                           *)
LEMMA PayloadRead ==
  ASSUME NEW w \in Seq(Nat), NEW b, NEW f, NEW at, NEW n, NEW key,
         Stands(w, b, f, at), AtPayload(n, key, f, b, at), Len(w) >= n
  PROVE  Plain(f.mask, key, SubSeq(w, 1, n)) = f.payload /\ at + Len(b) = n
<1>1. n = Len(f.payload)
  BY DEF AtPayload
<1>2. /\ Encoding(b, f) /\ b \in Seq(Nat) /\ Len(b) \in Nat /\ f \in Frame /\ at \in Int
      /\ \A i \in 1..Len(b) : \A p \in 1..Len(w) : p = at + i => w[p] = b[i]
  <2>1. /\ Encoding(b, f) /\ b \in Seq(Nat) /\ f \in Frame /\ at \in Int
        /\ \A i \in 1..Len(b) : \A p \in 1..Len(w) : p = at + i => w[p] = b[i]
    BY Zenon DEF Stands
  <2>2. Len(b) \in Nat
    BY <2>1
  <2> QED
    BY <2>1, <2>2, Zenon
<1>3. f.payload \in Payload /\ n \in Nat /\ f.mask \in BOOLEAN
  BY <1>1, <1>2, FrameIs
<1>4. PICK e \in Nat : e = Ext(n)
  BY <1>3, ExtIsNat
<1>5. PICK m \in Nat : m = IF f.mask THEN 4 ELSE 0
  OBVIOUS
<1>6. PICK x \in Nat, d \in Seq(Nat), k \in Seq(Nat), p \in Seq(Nat) :
        /\ Laid(b, x, FirstLength(f.mask, Short(n)), d, k, p) /\ Announces(d, n)
        /\ IF f.mask THEN k \in [1..4 -> Bits] /\ p = Mask(f.payload, k)
                     ELSE k = <<>> /\ p = f.payload
  BY <1>1, <1>2 DEF Encoding
<1>7. Len(d) = e
  BY <1>4, <1>6 DEF Announces, Digital
<1>8. Len(k) = m /\ Len(p) = n
  <2>1. CASE f.mask
    <3>1. k \in [1..4 -> Bits] /\ p = Mask(f.payload, k) /\ m = 4
      BY <1>5, <1>6, <2>1
    <3>2. Len(k) = 4
      BY <3>1, KeyIsBytes
    <3>3. Len(p) = n
      BY <1>1, <1>3, <3>1, MaskIsBytes
    <3> QED
      BY <3>1, <3>2, <3>3
  <2>2. CASE ~f.mask
    BY <1>1, <1>5, <1>6, <2>2
  <2> QED
    BY <2>1, <2>2
<1>9. Len(b) = 2 + e + m + n /\ \A i \in 1..Len(p) : b[2 + e + m + i] = p[i]
  BY <1>6, <1>7, <1>8 DEF Laid
<1>10. PICK o \in Nat : o = 2 + e + m
  OBVIOUS
<1>11. at + o = 0
  <2>1. at + 2 + Ext(n) + (IF f.mask THEN 4 ELSE 0) = 0
    BY DEF AtPayload
  <2>2. at + 2 + e + m = 0
    BY <1>4, <1>5, <2>1
  <2> QED
    BY <1>2, <1>10, <2>2
<1>12. SubSeq(w, 1, n) = p
  <2>1. \A i \in 1..Len(p) : b[o + i] = p[i]
    BY <1>9, <1>10
  <2>2. n = Len(p) /\ n <= Len(w) /\ o + Len(p) <= Len(b)
    BY <1>3, <1>8, <1>9, <1>10
  <2> QED
    BY <1>2, <1>11, <2>1, <2>2, PartRead
<1>13. Plain(f.mask, key, p) = f.payload
  <2>1. CASE ~f.mask
    BY <1>6, <2>1 DEF Plain
  <2>2. CASE f.mask
    <3>1. /\ k \in [1..4 -> Bits] /\ p = Mask(f.payload, k) /\ m = 4
      BY <1>5, <1>6, <2>2
    <3>2. key \in [1..4 -> Bits] /\ \A i \in 1..4 : key[i] = b[2 + e + i]
      BY <1>4, <2>2 DEF AtPayload, KeyIs
    <3>3. \A i \in 1..4 : key[i] = k[i]
      <4>1. \A i \in 1..4 : b[2 + e + i] = k[i]
        BY <1>6, <1>7, <1>8, <3>1 DEF Laid
      <4> QED
        BY <3>2, <4>1
    <3>4. Unmasked(key, Mask(f.payload, k)) = f.payload
      BY <1>3, <3>1, <3>2, <3>3, PlainOfMask
    <3> QED
      BY <2>2, <3>1, <3>4 DEF Plain
  <2> QED
    BY <2>1, <2>2
<1>14. at + Len(b) = n
  <2>1. Len(b) = o + n
    BY <1>9, <1>10
  <2> QED
    BY <1>2, <1>3, <1>11, <2>1
<1> QED
  BY <1>12, <1>13, <1>14

------------------------------------------------------------------------------
(***************************************************************************)
(* Where receive is in the stream: in front of a frame, or behind the      *)
(* first two bytes, the length or the key of one, and what it knows of it. *)
(***************************************************************************)
Within(place, hd, key, f, b, at) ==
  /\ hd.opcode = f.opcode /\ hd.mask = f.mask
  /\ \/ /\ place = "length" /\ Ext(Len(f.payload)) # 0
        /\ hd.plength = Short(Len(f.payload)) /\ at + 2 = 0
     \/ /\ place = "mask" /\ f.mask
        /\ hd.plength = Len(f.payload) /\ at + 2 + Ext(hd.plength) = 0
     \/ /\ place = "payload" /\ (server => f.mask)
        /\ AtPayload(hd.plength, key, f, b, at)

(* The stream consists of the frames written, from the one that is to be   *)
(* received on, behind lead lines.                                         *)
Stream(lead) ==
  \E bytes, start :
    /\ Framed(wire, written, eof, bytes, start)
    /\ \E c \in 1..(Len(written) + 1) :
         /\ c = Len(received) + 1
         /\ \/ pc = "header" /\ start[c] = lead
            \/ /\ lead = 0 /\ c \in 1..Len(written)
               /\ Within(pc, header, mask_key, written[c], bytes[c], start[c])

Kinds == {CONTINUATION, TEXT, BINARY, CLOSE, PING, PONG}
KindsOK == \A k \in 1..Len(written) : written[k].opcode \in Kinds

(* A read moves all frames, and they are framed still. *)
LEMMA ReadsBytes ==
  ASSUME TypeOK, NEW place, NEW n \in Nat, Reads(place, n)
  PROVE  /\ wire' \in Seq(Nat) /\ arrived' \in 0..Len(wire') /\ n <= Len(wire)
         /\ server' = server /\ written' = written /\ eof' = eof
         /\ (eof => arrived = Len(wire)) => (eof' => arrived' = Len(wire'))
         /\ \A bytes, start, s : Framed(wire, written, eof, bytes, start)
              /\ s = [k \in Nat |-> start[k] - n] => Framed(wire', written', eof', bytes, s)
<1>1. wire \in Seq(Nat) /\ written \in Seq(Frame) /\ arrived \in 0..Len(wire)
  BY DEF TypeOK
<1>2. Len(wire) \in Nat
  BY <1>1
<1>3. n <= arrived /\ wire' = SubSeq(wire, n + 1, Len(wire)) /\ arrived' = arrived - n
  BY DEF Reads
<1>4. server' = server /\ written' = written /\ eof' = eof
  BY DEF Reads
<1>5. n <= Len(wire)
  BY <1>1, <1>2, <1>3
<1>6. wire' \in Seq(Nat) /\ Len(wire') = Len(wire) - n
  BY <1>1, <1>3, <1>5, Cut
<1>7. arrived' \in 0..Len(wire')
  BY <1>1, <1>2, <1>3, <1>6
<1>8. (eof => arrived = Len(wire)) => (eof' => arrived' = Len(wire'))
  BY <1>3, <1>4, <1>6
<1>9. ASSUME NEW bytes, NEW start, NEW s, Framed(wire, written, eof, bytes, start),
             s = [k \in Nat |-> start[k] - n]
      PROVE  Framed(wire', written', eof', bytes, s)
  BY <1>1, <1>3, <1>4, <1>5, <1>9, Shift
<1> QED
  BY <1>4, <1>5, <1>6, <1>7, <1>8, <1>9

(* With the length known, receive raises for an unmasked frame if it is to,*)
(* and reads on otherwise.                                                 *)
LEMMA LengthKnown ==
  ASSUME TypeOK, NEW f \in Frame, NEW b, NEW at \in Int, NEW key, NEW hd,
         hd.opcode = f.opcode, hd.mask = f.mask, hd.plength = Len(f.payload),
         at + 2 + Ext(hd.plength) = 0
  PROVE  \/ AfterLength(hd.mask) = "raised" /\ server /\ ~f.mask
         \/ Within(AfterLength(hd.mask), hd, key, f, b, at)
<1>1. f.mask \in BOOLEAN /\ server \in BOOLEAN /\ hd.plength \in Nat
  BY FrameIs DEF TypeOK
<1>2. CASE f.mask
  BY <1>2 DEF AfterLength, Within
<1>3. CASE ~f.mask /\ server
  BY <1>3 DEF AfterLength
<1>4. CASE ~f.mask /\ ~server
  <2>1. AfterLength(hd.mask) = "payload"
    BY <1>4 DEF AfterLength
  <2>2. at + 2 + Ext(hd.plength) + 0 = 0
    BY <1>1, ExtIsNat
  <2>3. AtPayload(hd.plength, key, f, b, at)
    BY <1>4, <2>2 DEF AtPayload
  <2> QED
    BY <1>4, <2>1, <2>3 DEF Within
<1> QED
  BY <1>1, <1>2, <1>3, <1>4

(* What a step of receive keeps. *)
Step ==
  /\ TypeOK /\ TextsAreReceived /\ EndsForAReason
  /\ Ended \/ Stream(0)

(* A read within a frame keeps what a step of receive keeps.               *)
LEMMA StepInFrame ==
  ASSUME TypeOK', TextsAreReceived, received' = received, written' = written,
         server' = server, NEW bytes, NEW start,
         Framed(wire', written', eof', bytes, start),
         NEW c \in 1..Len(written), c = Len(received) + 1,
         \/ pc' = "raised" /\ server /\ ~written[c].mask
         \/ /\ pc' \in {"length", "mask", "payload"}
            /\ Within(pc', header', mask_key', written[c], bytes[c], start[c])
  PROVE  Step'
<1>1. TextsAreReceived'
  BY DEF TextsAreReceived
<1>2. c \in 1..Len(written') /\ c \in 1..(Len(written') + 1) /\ c = Len(received') + 1
  OBVIOUS
<1>3. CASE pc' = "raised" /\ server /\ ~written[c].mask
  <2>1. Len(received) < Len(written) /\ Len(received') < Len(written')
    <3>1. Len(written) \in Nat /\ c <= Len(written) /\ Len(received) \in Nat
      <4>1. written' \in Seq(Frame) /\ received' \in Seq(Payload)
        BY DEF TypeOK
      <4> QED
        BY <4>1
    <3> QED
      BY <3>1
  <2>2. server' /\ ~NextFrame'.mask
    BY <1>3 DEF NextFrame
  <2> QED
    BY <1>1, <1>3, <2>1, <2>2 DEF Step, Ended, EndsForAReason
<1>4. CASE /\ pc' \in {"length", "mask", "payload"}
           /\ Within(pc', header', mask_key', written[c], bytes[c], start[c])
  <2>1. EndsForAReason'
    BY <1>4 DEF EndsForAReason
  <2>2. Within(pc, header, mask_key, written[c], bytes[c], start[c])'
    BY <1>4 DEF Within
  <2>3. Stream(0)'
    BY <1>2, <2>2 DEF Stream
  <2> QED
    BY <1>1, <2>1, <2>3 DEF Step
<1> QED
  BY <1>3, <1>4

(* Where receive is in front of a frame.                                   *)
LEMMA AtHeader ==
  ASSUME Stream(0), pc = "header"
  PROVE  \E bytes, start :
           /\ Framed(wire, written, eof, bytes, start)
           /\ \E c \in 1..(Len(written) + 1) : c = Len(received) + 1 /\ start[c] = 0
BY DEF Stream, Within

(* Where receive is within one.                                            *)
LEMMA InFrame ==
  ASSUME Stream(0), pc # "header"
  PROVE  \E bytes, start :
           /\ Framed(wire, written, eof, bytes, start)
           /\ \E c \in 1..Len(written) :
                /\ c = Len(received) + 1
                /\ Within(pc, header, mask_key, written[c], bytes[c], start[c])
BY DEF Stream

(* The short length is a length.                                           *)
LEMMA ShortIsHeld == \A n \in Nat : Short(n) \in 0..(Base8 - 1)
<1>1. Field \in Nat /\ Field > 2 /\ Base2 >= Field - 2
  BY FrameAssumption
<1>2. Base2 \in Nat /\ Base4 \in Nat /\ Base8 \in Nat /\ Base2 >= 4 /\ Base4 >= 4 * Base2 /\ Base8 >= 16 * Base4
  BY Bases
<1>3. Field - 1 <= Base8 - 1
  BY <1>1, <1>2
<1> QED
  BY <1>1, <1>2, <1>3, Lengths

(* receive reads the first two bytes of a frame.                           *)
LEMMA ReadHeaderStep ==
  ASSUME Step, ReadHeader
  PROVE  Step'
<1>1. /\ pc = "header" /\ Reads("header", 2) /\ arrived >= 2 /\ ~Ended
      /\ header' = [opcode |-> wire[1] % 16, mask |-> wire[2] >= Field,
                    plength |-> wire[2] % Field]
      /\ pc' = IF wire[2] % Field >= Field - 2 THEN "length" ELSE AfterLength(wire[2] >= Field)
      /\ mask_key' = mask_key /\ received' = received
  BY DEF ReadHeader, Reads, Ended
<1>2. TypeOK /\ TextsAreReceived /\ Stream(0)
  BY <1>1 DEF Step
<1>3. PICK bytes, start :
        /\ Framed(wire, written, eof, bytes, start)
        /\ \E c \in 1..(Len(written) + 1) : c = Len(received) + 1 /\ start[c] = 0
  BY <1>1, <1>2, AtHeader
<1>4. PICK c \in 1..(Len(written) + 1) : c = Len(received) + 1 /\ start[c] = 0
  BY <1>3
<1>5. wire \in Seq(Nat) /\ written \in Seq(Frame) /\ Len(wire) \in Nat /\ Len(wire) >= 2
  <2>1. wire \in Seq(Nat) /\ written \in Seq(Frame) /\ arrived \in 0..Len(wire)
    BY <1>2 DEF TypeOK
  <2> QED
    BY <1>1, <2>1
<1>6. c \in 1..Len(written)
  BY <1>3, <1>4, <1>5, NextIsWritten
<1> DEFINE f == written[c]
           b == bytes[c]
           n == Len(f.payload)
           s == [k \in Nat |-> start[k] - 2]
<1>7. Stands(wire, b, f, start[c])
  BY <1>3, <1>5, <1>6, Found
<1>8. f \in Frame /\ n \in Nat /\ f.opcode \in Opcode /\ f.mask \in BOOLEAN /\ start[c] \in Int
  BY <1>7, FrameIs DEF Stands
<1>9. wire[1] % 16 = f.opcode /\ (wire[2] >= Field <=> f.mask) /\ wire[2] % Field = Short(n)
  BY <1>4, <1>5, <1>7, HeaderBytes
<1>10. header'.opcode = f.opcode /\ header'.mask = f.mask /\ header'.plength = Short(n)
  BY <1>1, <1>8, <1>9
<1>11. header' \in [opcode : Opcode, mask : BOOLEAN, plength : 0..(Base8 - 1)]
  <2>1. wire[1] % 16 \in Opcode
    BY <1>8, <1>9
  <2>2. (wire[2] >= Field) \in BOOLEAN
    OBVIOUS
  <2>3. wire[2] % Field \in 0..(Base8 - 1)
    BY <1>8, <1>9, ShortIsHeld
  <2> QED
    BY <1>1, <2>1, <2>2, <2>3, Zenon
<1>12. /\ wire' \in Seq(Nat) /\ arrived' \in 0..Len(wire')
       /\ server' = server /\ written' = written /\ eof' = eof
       /\ Framed(wire', written', eof', bytes, s)
  BY <1>1, <1>2, <1>3, ReadsBytes
<1>13. s[c] + 2 = 0 /\ s[c] \in Int
  BY <1>4, <1>6, <1>8
<1>14. IF Ext(n) # 0 THEN pc' = "length" ELSE pc' = AfterLength(header'.mask) /\ Short(n) = n
  <2>1. Field \in Nat /\ Field > 2
    BY FrameAssumption
  <2>2. /\ Ext(n) \in {0, 2, 8} /\ Short(n) \in 0..(Field - 1)
        /\ Ext(n) = 0 => Short(n) = n /\ Short(n) < Field - 2
        /\ Ext(n) = 2 => Short(n) = Field - 2
        /\ Ext(n) = 8 => Short(n) = Field - 1
    BY <1>8, Lengths
  <2>3. Short(n) >= Field - 2 <=> Ext(n) # 0
    BY <2>1, <2>2
  <2>4. pc' = IF Short(n) >= Field - 2 THEN "length" ELSE AfterLength(header'.mask)
    BY <1>1, <1>9
  <2> QED
    BY <2>2, <2>3, <2>4
<1> HIDE DEF s
<1>15. \/ pc' = "raised" /\ server /\ ~f.mask
       \/ /\ pc' \in {"length", "mask", "payload"}
          /\ Within(pc', header', mask_key', f, b, s[c])
  <2>1. CASE Ext(n) # 0
    BY <1>10, <1>13, <1>14, <2>1 DEF Within
  <2>2. CASE Ext(n) = 0
    <3>1. header'.plength = n /\ s[c] + 2 + Ext(header'.plength) = 0 /\ pc' = AfterLength(header'.mask)
      BY <1>10, <1>13, <1>14, <2>2
    <3>2. \/ AfterLength(header'.mask) = "raised" /\ server /\ ~f.mask
          \/ Within(AfterLength(header'.mask), header', mask_key', f, b, s[c])
      BY <1>2, <1>8, <1>10, <1>13, <3>1, LengthKnown
    <3> QED
      BY <3>1, <3>2 DEF Within
  <2> QED
    BY <2>1, <2>2
<1>16. TypeOK'
  BY <1>1, <1>2, <1>11, <1>12, <1>15 DEF TypeOK
<1> QED
  BY <1>1, <1>2, <1>4, <1>6, <1>12, <1>15, <1>16, StepInFrame

(* It reads the digits of a length.                                        *)
LEMMA ReadLengthStep ==
  ASSUME Step, ReadLength
  PROVE  Step'
<1> DEFINE m == Missing("length")
<1>1. /\ pc = "length" /\ Reads("length", m) /\ arrived >= m /\ ~Ended
      /\ header' = [header EXCEPT !.plength = Number(SubSeq(wire, 1, m))]
      /\ pc' = AfterLength(header.mask)
      /\ mask_key' = mask_key /\ received' = received
  BY DEF ReadLength, Reads, Ended
<1>2. TypeOK /\ TextsAreReceived /\ Stream(0)
  BY <1>1 DEF Step
<1>3. PICK bytes, start :
        /\ Framed(wire, written, eof, bytes, start)
        /\ \E c \in 1..Len(written) :
             /\ c = Len(received) + 1
             /\ Within(pc, header, mask_key, written[c], bytes[c], start[c])
  BY <1>1, <1>2, InFrame
<1>4. PICK c \in 1..Len(written) :
        /\ c = Len(received) + 1
        /\ Within(pc, header, mask_key, written[c], bytes[c], start[c])
  BY <1>3
<1> DEFINE f == written[c]
           b == bytes[c]
           n == Len(f.payload)
<1>5. /\ wire \in Seq(Nat) /\ written \in Seq(Frame) /\ Len(wire) \in Nat
      /\ header \in [opcode : Opcode, mask : BOOLEAN, plength : 0..(Base8 - 1)]
      /\ arrived \in 0..Len(wire)
  BY <1>2 DEF TypeOK
<1>6. /\ header.opcode = f.opcode /\ header.mask = f.mask
      /\ Ext(n) # 0 /\ header.plength = Short(n) /\ start[c] + 2 = 0
  BY <1>1, <1>4 DEF Within
<1>7. Stands(wire, b, f, start[c])
  BY <1>3, <1>5, Found
<1>8. /\ f \in Frame /\ n \in Nat /\ n < Base8 /\ f.opcode \in Opcode /\ f.mask \in BOOLEAN
      /\ start[c] \in Int
  BY <1>7, FrameIs DEF Stands
<1>9. m = Ext(n) /\ m \in Nat
  <2>1. Field \in Nat /\ Field > 2
    BY FrameAssumption
  <2>2. m = IF Short(n) = Field - 2 THEN 2 ELSE 8
    BY <1>6 DEF Missing
  <2>3. /\ Ext(n) \in {0, 2, 8}
        /\ Ext(n) = 2 => Short(n) = Field - 2
        /\ Ext(n) = 8 => Short(n) = Field - 1
    BY <1>8, Lengths
  <2> HIDE DEF m
  <2>4. m = Ext(n)
    BY <1>6, <2>1, <2>2, <2>3
  <2> QED
    BY <2>3, <2>4
<1> DEFINE s == [k \in Nat |-> start[k] - m]
<1> HIDE DEF m
<1>10. Number(SubSeq(wire, 1, m)) = n
  <2>1. m # 0 /\ Len(wire) >= m
    BY <1>1, <1>5, <1>6, <1>9
  <2> QED
    BY <1>5, <1>6, <1>7, <1>9, <2>1, LengthRead
<1>11. /\ header' \in [opcode : Opcode, mask : BOOLEAN, plength : 0..(Base8 - 1)]
       /\ header'.opcode = f.opcode /\ header'.mask = f.mask /\ header'.plength = n
  <2>1. header' = [header EXCEPT !.plength = n]
    BY <1>1, <1>10
  <2>2. n \in 0..(Base8 - 1)
    BY <1>8, Bases
  <2> HIDE DEF n
  <2> QED
    BY <1>5, <1>6, <2>1, <2>2
<1>12. /\ wire' \in Seq(Nat) /\ arrived' \in 0..Len(wire')
       /\ server' = server /\ written' = written /\ eof' = eof
       /\ Framed(wire', written', eof', bytes, s)
  BY <1>1, <1>2, <1>3, <1>9, ReadsBytes
<1>13. s[c] + 2 + Ext(header'.plength) = 0 /\ s[c] \in Int
  <2>1. c \in Nat /\ s[c] = start[c] - m
    OBVIOUS
  <2> HIDE DEF s
  <2> QED
    BY <1>6, <1>8, <1>9, <1>11, <2>1
<1> HIDE DEF s
<1>14. pc' = AfterLength(header'.mask)
  BY <1>1, <1>6, <1>11
<1>15. \/ pc' = "raised" /\ server /\ ~f.mask
       \/ /\ pc' \in {"length", "mask", "payload"}
          /\ Within(pc', header', mask_key', f, b, s[c])
  <2>1. \/ AfterLength(header'.mask) = "raised" /\ server /\ ~f.mask
        \/ Within(AfterLength(header'.mask), header', mask_key', f, b, s[c])
    BY <1>2, <1>8, <1>11, <1>13, LengthKnown
  <2> QED
    BY <1>14, <2>1 DEF Within
<1>16. TypeOK'
  BY <1>1, <1>2, <1>11, <1>12, <1>15 DEF TypeOK
<1> QED
  BY <1>1, <1>2, <1>4, <1>12, <1>15, <1>16, StepInFrame

(* It reads a key.                                                         *)
LEMMA ReadMaskStep ==
  ASSUME Step, ReadMask
  PROVE  Step'
<1>1. /\ pc = "mask" /\ Reads("mask", 4) /\ arrived >= 4 /\ ~Ended
      /\ mask_key' = SubSeq(wire, 1, 4) /\ pc' = "payload"
      /\ header' = header /\ received' = received
  BY DEF ReadMask, Reads, Ended
<1>2. TypeOK /\ TextsAreReceived /\ Stream(0)
  BY <1>1 DEF Step
<1>3. PICK bytes, start :
        /\ Framed(wire, written, eof, bytes, start)
        /\ \E c \in 1..Len(written) :
             /\ c = Len(received) + 1
             /\ Within(pc, header, mask_key, written[c], bytes[c], start[c])
  BY <1>1, <1>2, InFrame
<1>4. PICK c \in 1..Len(written) :
        /\ c = Len(received) + 1
        /\ Within(pc, header, mask_key, written[c], bytes[c], start[c])
  BY <1>3
<1> DEFINE f == written[c]
           b == bytes[c]
           n == Len(f.payload)
           s == [k \in Nat |-> start[k] - 4]
<1>5. /\ wire \in Seq(Nat) /\ written \in Seq(Frame) /\ Len(wire) \in Nat /\ Len(wire) >= 4
      /\ arrived \in 0..Len(wire)
  <2>1. wire \in Seq(Nat) /\ written \in Seq(Frame) /\ arrived \in 0..Len(wire)
    BY <1>2 DEF TypeOK
  <2> QED
    BY <1>1, <2>1
<1>6. /\ header.opcode = f.opcode /\ header.mask = f.mask /\ f.mask
      /\ header.plength = n /\ start[c] + 2 + Ext(n) = 0
  BY <1>1, <1>4 DEF Within
<1>7. Stands(wire, b, f, start[c])
  BY <1>3, <1>5, Found
<1>8. f \in Frame /\ n \in Nat /\ start[c] \in Int
  BY <1>7, FrameIs DEF Stands
<1>9. KeyIs(mask_key', b, n)
  BY <1>1, <1>5, <1>6, <1>7, KeyRead
<1>10. /\ wire' \in Seq(Nat) /\ arrived' \in 0..Len(wire')
       /\ server' = server /\ written' = written /\ eof' = eof
       /\ Framed(wire', written', eof', bytes, s)
  BY <1>1, <1>2, <1>3, ReadsBytes
<1>11. s[c] + 2 + Ext(n) + 4 = 0
  <2>1. c \in Nat /\ s[c] = start[c] - 4
    OBVIOUS
  <2>2. Ext(n) \in Nat
    BY <1>8, ExtIsNat
  <2> HIDE DEF s
  <2> QED
    BY <1>6, <1>8, <2>1, <2>2
<1> HIDE DEF s
<1>12. AtPayload(header'.plength, mask_key', f, b, s[c])
  BY <1>1, <1>6, <1>9, <1>11 DEF AtPayload
<1>13. Within(pc', header', mask_key', f, b, s[c])
  BY <1>1, <1>6, <1>12 DEF Within
<1>14. TypeOK'
  BY <1>1, <1>2, <1>9, <1>10 DEF TypeOK, KeyIs
<1> QED
  BY <1>1, <1>2, <1>4, <1>10, <1>13, <1>14, StepInFrame

(* It reads a payload, and ends or is called again.                        *)
LEMMA ReadPayloadStep ==
  ASSUME Step, KindsOK, ReadPayload
  PROVE  Step'
<1> DEFINE n == header.plength
           text == Unmask(SubSeq(wire, 1, n))
<1>1. /\ pc = "payload" /\ Reads("payload", n) /\ arrived >= n /\ ~Ended
      /\ received' = IF header.opcode = TEXT THEN Append(received, text) ELSE received
      /\ pc' = AfterPayload(header.opcode)
      /\ header' = header /\ mask_key' = mask_key
  BY DEF ReadPayload, Reads, Ended
<1>2. TypeOK /\ TextsAreReceived /\ Stream(0)
  BY <1>1 DEF Step
<1>3. PICK bytes, start :
        /\ Framed(wire, written, eof, bytes, start)
        /\ \E c \in 1..Len(written) :
             /\ c = Len(received) + 1
             /\ Within(pc, header, mask_key, written[c], bytes[c], start[c])
  BY <1>1, <1>2, InFrame
<1>4. PICK c \in 1..Len(written) :
        /\ c = Len(received) + 1
        /\ Within(pc, header, mask_key, written[c], bytes[c], start[c])
  BY <1>3
<1> DEFINE f == written[c]
           b == bytes[c]
           s == [k \in Nat |-> start[k] - n]
<1>5. /\ wire \in Seq(Nat) /\ written \in Seq(Frame) /\ Len(wire) \in Nat
      /\ received \in Seq(Payload) /\ Len(written) \in Nat /\ Len(received) \in Nat
      /\ arrived \in 0..Len(wire)
  BY <1>2 DEF TypeOK
<1>6. /\ header.opcode = f.opcode /\ header.mask = f.mask
      /\ AtPayload(n, mask_key, f, b, start[c])
  BY <1>1, <1>4 DEF Within
<1>7. Stands(wire, b, f, start[c])
  BY <1>3, <1>5, Found
<1>8. f \in Frame /\ n \in Nat /\ start[c] \in Int /\ f.payload \in Payload /\ Len(b) \in Nat
  BY <1>6, <1>7, FrameIs DEF Stands, AtPayload
<1>9. Plain(f.mask, mask_key, SubSeq(wire, 1, n)) = f.payload /\ start[c] + Len(b) = n
  <2>1. Len(wire) >= n
    BY <1>1, <1>5, <1>8
  <2> QED
    BY <1>5, <1>6, <1>7, <2>1, PayloadRead
<1>10. text = f.payload
  BY <1>6, <1>9 DEF Unmask, Plain, Unmasked
<1>11. /\ wire' \in Seq(Nat) /\ arrived' \in 0..Len(wire')
       /\ server' = server /\ written' = written /\ eof' = eof
       /\ Framed(wire', written', eof', bytes, s)
  BY <1>1, <1>2, <1>3, <1>8, ReadsBytes
<1>12. f.opcode \in Kinds /\ c <= Len(written) /\ Len(received) < Len(written)
  BY <1>4, <1>5 DEF KindsOK
<1> HIDE DEF text
<1>13. CASE f.opcode = TEXT
  <2>1. received' = Append(received, f.payload) /\ pc' = "header"
    <3>1. AfterPayload(TEXT) = "header"
      BY DEF AfterPayload, TEXT, CLOSE, PONG
    <3> QED
      BY <1>1, <1>6, <1>10, <1>13, <3>1
  <2>2. /\ received' \in Seq(Payload) /\ Len(received') = c
        /\ \A i \in 1..Len(received) : received'[i] = received[i]
        /\ received'[c] = f.payload
    BY <1>4, <1>5, <1>8, <2>1, AppendProperties
  <2>3. TypeOK'
    BY <1>1, <1>2, <1>11, <2>1, <2>2 DEF TypeOK
  <2>4. TextsAreReceived'
    <3>1. ASSUME NEW i \in 1..Len(received')
          PROVE  written'[i].opcode = TEXT /\ received'[i] = written'[i].payload
      <4>1. CASE i = c
        BY <1>11, <1>13, <2>2, <4>1
      <4>2. CASE i \in 1..Len(received)
        BY <1>2, <1>11, <2>2, <4>2 DEF TextsAreReceived
      <4> QED
        BY <1>4, <1>5, <2>2, <4>1, <4>2
    <3> QED
      BY <1>11, <1>12, <2>2, <3>1 DEF TextsAreReceived
  <2>5. EndsForAReason'
    BY <2>1 DEF EndsForAReason
  <2>6. Stream(0)'
    <3> DEFINE d == c + 1
    <3>1. d \in 1..(Len(written') + 1) /\ c \in 1..(Len(written) + 1) /\ d \in 1..(Len(written) + 1)
          /\ d = Len(received') + 1 /\ d \in Nat
      BY <1>5, <1>11, <1>12, <2>2
    <3>2. start[d] = start[c] + Len(b)
      BY <1>3, <3>1 DEF Framed
    <3> HIDE DEF d
    <3>3. s[d] = 0
      BY <1>8, <1>9, <3>1, <3>2
    <3> HIDE DEF s
    <3> QED
      BY <1>11, <2>1, <3>1, <3>3 DEF Stream
  <2> QED
    BY <2>3, <2>4, <2>5, <2>6 DEF Step
<1>14. CASE f.opcode # TEXT
  <2>1. received' = received /\ pc' = AfterPayload(f.opcode)
    BY <1>1, <1>6, <1>14
  <2>2. \/ pc' = "nil" /\ f.opcode \in {CLOSE, PONG}
        \/ pc' = "raised" /\ f.opcode \in {CONTINUATION, BINARY, PING}
    BY <1>12, <1>14, <2>1
       DEF AfterPayload, Kinds, TEXT, CLOSE, PONG, CONTINUATION, BINARY, PING
  <2>3. TypeOK'
    BY <1>1, <1>2, <1>11, <2>1, <2>2 DEF TypeOK
  <2>4. TextsAreReceived'
    BY <1>2, <1>11, <2>1 DEF TextsAreReceived
  <2>5. NextFrame' = f /\ Len(received') < Len(written')
    BY <1>4, <1>11, <1>12, <2>1 DEF NextFrame
  <2>6. EndsForAReason' /\ Ended'
    BY <2>2, <2>5 DEF EndsForAReason, Ended
  <2> QED
    BY <2>3, <2>4, <2>6 DEF Step
<1> QED
  BY <1>13, <1>14

(* It rescues the EOFError of a short read.                                *)
LEMMA EndOfFileStep ==
  ASSUME Step, EndOfFile
  PROVE  Step'
<1>1. /\ eof /\ pc' = "nil" /\ wire' = <<>> /\ arrived' = 0
      /\ server' = server /\ written' = written /\ eof' = eof /\ header' = header
      /\ mask_key' = mask_key /\ received' = received
  BY DEF EndOfFile
<1>2. TypeOK /\ TextsAreReceived
  BY DEF Step
<1>3. TypeOK'
  BY <1>1, <1>2 DEF TypeOK
<1>4. TextsAreReceived'
  BY <1>1, <1>2 DEF TextsAreReceived
<1>5. EndsForAReason' /\ Ended'
  BY <1>1 DEF EndsForAReason, Ended
<1> QED
  BY <1>3, <1>4, <1>5 DEF Step

------------------------------------------------------------------------------
(* What is written is a frame, and goes behind the others.                 *)
Written(f, b) ==
  /\ f \in Frame /\ f.opcode \in Kinds /\ b \in Seq(Nat) /\ Encoding(b, f)
  /\ ~eof /\ Len(written) < MaxFrames
  /\ written' = Append(written, f) /\ wire' = wire \o b
  /\ server' = server /\ arrived' = arrived /\ eof' = eof
  /\ pc' = pc /\ header' = header /\ mask_key' = mask_key /\ received' = received

(* The opcodes written are opcodes.                                        *)
LEMMA KindsAreOpcodes == Kinds \subseteq Opcode
BY DEF Kinds, Opcode, CONTINUATION, TEXT, BINARY, CLOSE, PING, PONG

(* Whoever writes the encoding of a frame writes that frame.               *)
LEMMA WriteIsWritten ==
  ASSUME NEW opcode \in Kinds, NEW fin \in BOOLEAN, NEW masked \in BOOLEAN,
         NEW payload \in Payload, NEW b,
         Encoding(b, [opcode |-> opcode, fin |-> fin, mask |-> masked, payload |-> payload]),
         Write(opcode, fin, masked, payload, b)
  PROVE  \E f, c : Written(f, c)
<1> DEFINE f == [opcode |-> opcode, fin |-> fin, mask |-> masked, payload |-> payload]
<1>1. f \in Frame /\ f.opcode \in Kinds
  BY KindsAreOpcodes DEF Frame
<1>2. Encoding(b, f)
  OBVIOUS
<1> HIDE DEF f
<1>3. b \in Seq(Nat)
  BY <1>2 DEF Encoding, Laid
<1>4. /\ ~eof /\ Len(written) < MaxFrames
      /\ written' = Append(written, f) /\ wire' = wire \o b
      /\ server' = server /\ arrived' = arrived /\ eof' = eof
      /\ pc' = pc /\ header' = header /\ mask_key' = mask_key /\ received' = received
  BY DEF Write, f
<1>5. Written(f, b)
  BY <1>1, <1>2, <1>3, <1>4 DEF Written
<1> QED
  BY <1>5

(* Both writers do: send, send_binary and close, and the server.           *)
LEMMA WriterWrites ==
  ASSUME Writer
  PROVE  \E f, b : Written(f, b)
<1>1. /\ TEXT \in Kinds /\ BINARY \in Kinds /\ CLOSE \in Kinds
      /\ \A k \in {CONTINUATION, TEXT, BINARY, CLOSE, PING, PONG} : k \in Kinds
      /\ \A k \in Kinds : k \in Opcode
  BY KindsAreOpcodes DEF Kinds
<1>2. CASE ClientSends
  <2>1. PICK opcode \in {TEXT, BINARY}, payload \in Payload, key \in Key :
          Write(opcode, TRUE, TRUE, payload, Encode(opcode, payload, key))
    BY <1>2 DEF ClientSends
  <2>2. opcode \in Kinds /\ opcode \in Opcode
    BY <1>1
  <2>3. Encoding(Encode(opcode, payload, key),
                 [opcode |-> opcode, fin |-> TRUE, mask |-> TRUE, payload |-> payload])
    BY <2>2, EncodeIsEncoding
  <2>4. TRUE \in BOOLEAN
    OBVIOUS
  <2> QED
    BY <2>1, <2>2, <2>3, <2>4, WriteIsWritten
<1>3. CASE ClientCloses
  <2>1. Write(CLOSE, TRUE, FALSE, <<>>, SendFrame(CLOSE, <<>>))
    BY <1>3 DEF ClientCloses
  <2>2. <<>> \in Payload
    BY FrameAssumption
  <2>3. Encoding(SendFrame(CLOSE, <<>>),
                 [opcode |-> CLOSE, fin |-> TRUE, mask |-> FALSE, payload |-> <<>>])
    BY <1>1, <2>2, SendFrameIsEncoding
  <2>4. TRUE \in BOOLEAN /\ FALSE \in BOOLEAN
    OBVIOUS
  <2> QED
    BY <1>1, <2>1, <2>2, <2>3, <2>4, WriteIsWritten
<1>4. CASE ServerSends
  <2>1. PICK opcode \in {CONTINUATION, TEXT, BINARY, CLOSE, PING, PONG},
             fin \in BOOLEAN, payload \in Payload :
          Write(opcode, fin, FALSE, payload,
                <<First(opcode, fin)>> \o Tail(SendFrame(opcode, payload)))
    BY <1>4 DEF ServerSends
  <2>2. opcode \in Kinds /\ opcode \in Opcode
    BY <1>1
  <2>3. Encoding(<<First(opcode, fin)>> \o Tail(SendFrame(opcode, payload)),
                 [opcode |-> opcode, fin |-> fin, mask |-> FALSE, payload |-> payload])
    BY <2>2, FragmentIsEncoding
  <2>4. FALSE \in BOOLEAN
    OBVIOUS
  <2> QED
    BY <2>1, <2>2, <2>3, <2>4, WriteIsWritten
<1> QED
  BY <1>2, <1>3, <1>4 DEF Writer

(* Writing keeps the types, the texts and the reasons. *)
LEMMA WrittenTypes ==
  ASSUME TypeOK, NEW f, NEW b, Written(f, b)
  PROVE  /\ TypeOK' /\ Len(wire') = Len(wire) + Len(b) /\ Len(b) \in Nat
         /\ \A i \in 1..Len(wire) : wire'[i] = wire[i]
         /\ \A i \in 1..Len(wire') : i > Len(wire) => wire'[i] \notin Line
         /\ written' # <<>>
         /\ Len(written') = Len(written) + 1
         /\ \A i \in 1..Len(written) : written'[i] = written[i]
         /\ written'[Len(written) + 1] = f
<1>1. /\ wire \in Seq(Nat) /\ written \in Seq(Frame) /\ arrived \in 0..Len(wire)
      /\ b \in Seq(Nat) /\ f \in Frame /\ wire' = wire \o b /\ written' = Append(written, f)
      /\ Len(written) < MaxFrames /\ arrived' = arrived
  BY DEF TypeOK, Written
<1>2. Len(wire) \in Nat /\ Len(b) \in Nat /\ Len(written) \in Nat /\ MaxFrames \in Nat
  BY <1>1, FrameAssumption
<1>3. /\ wire' \in Seq(Nat) /\ Len(wire') = Len(wire) + Len(b)
      /\ \A i \in 1..Len(wire) : wire'[i] = wire[i]
      /\ \A i \in 1..Len(b) : wire'[Len(wire) + i] = b[i]
  <2>1. \A u, v \in Seq(Nat) :
          /\ u \o v \in Seq(Nat) /\ Len(u \o v) = Len(u) + Len(v)
          /\ \A i \in 1..Len(u) : (u \o v)[i] = u[i]
          /\ \A i \in 1..Len(v) : (u \o v)[Len(u) + i] = v[i]
    BY Concat
  <2> QED
    BY <1>1, <2>1
<1>4. /\ written' \in Seq(Frame) /\ written' # <<>> /\ Len(written') = Len(written) + 1
      /\ \A i \in 1..Len(written) : written'[i] = written[i]
      /\ written'[Len(written) + 1] = f
  <2> DEFINE gs == Append(written, f)
  <2>1. gs \in Seq(Frame) /\ gs # <<>>
    BY <1>1, AppendProperties
  <2>2. Len(gs) = Len(written) + 1
    BY <1>1, AppendProperties
  <2>3. \A i \in 1..Len(written) : gs[i] = written[i]
    BY <1>1, AppendProperties
  <2>4. gs[Len(written) + 1] = f
    BY <1>1, AppendProperties
  <2>5. written' = gs
    BY <1>1
  <2> HIDE DEF gs
  <2> QED
    BY <2>1, <2>2, <2>3, <2>4, <2>5
<1>5. Len(written') <= MaxFrames /\ arrived' \in 0..Len(wire')
  BY <1>1, <1>2, <1>3, <1>4
<1>6. TypeOK'
  BY <1>3, <1>4, <1>5 DEF TypeOK, Written
<1>7. ASSUME NEW i \in 1..Len(wire'), i > Len(wire) PROVE wire'[i] \notin Line
  <2> DEFINE j == i - Len(wire)
  <2>1. i \in Int /\ i <= Len(wire) + Len(b)
    BY <1>2, <1>3
  <2>2. j \in 1..Len(b) /\ Len(wire) + j = i
    BY <1>2, <1>7, <2>1
  <2> HIDE DEF j
  <2>3. wire'[i] = b[j]
    BY <1>3, <2>2
  <2>4. b[j] < 1000
    BY <2>2 DEF Written, Encoding, Small
  <2>5. b[j] \in Nat
    BY <1>1, <2>2, ElementOfSeq
  <2> QED
    BY <2>3, <2>4, <2>5 DEF Line
<1> QED
  BY <1>2, <1>3, <1>4, <1>6, <1>7

(* A frame written is one more in the stream.                              *)
LEMMA StreamWritten ==
  ASSUME TypeOK, NEW lead, Stream(lead), NEW f, NEW b, Written(f, b)
  PROVE  Stream(lead)'
<1>1. PICK bytes, start :
        /\ Framed(wire, written, eof, bytes, start)
        /\ \E c \in 1..(Len(written) + 1) :
             /\ c = Len(received) + 1
             /\ \/ pc = "header" /\ start[c] = lead
                \/ /\ lead = 0 /\ c \in 1..Len(written)
                   /\ Within(pc, header, mask_key, written[c], bytes[c], start[c])
  BY DEF Stream
<1>2. PICK c \in 1..(Len(written) + 1) :
        /\ c = Len(received) + 1
        /\ \/ pc = "header" /\ start[c] = lead
           \/ /\ lead = 0 /\ c \in 1..Len(written)
              /\ Within(pc, header, mask_key, written[c], bytes[c], start[c])
  BY <1>1
<1> DEFINE bs == [bytes EXCEPT ![Len(written) + 1] = b]
           s == [start EXCEPT ![Len(written) + 2] = Len(wire) + Len(b)]
<1>3. /\ wire \in Seq(Nat) /\ written \in Seq(Frame) /\ eof = FALSE /\ eof' = FALSE
      /\ b \in Seq(Nat) /\ f \in Frame /\ Encoding(b, f)
      /\ wire' = wire \o b /\ written' = Append(written, f)
      /\ pc' = pc /\ header' = header /\ mask_key' = mask_key /\ received' = received
      /\ server' = server
  BY DEF TypeOK, Written
<1>4. Framed(wire \o b, Append(written, f), FALSE, bs, s)
  <2>1. Framed(wire, written, FALSE, bytes, start)
    BY <1>1, <1>3
  <2> QED
    BY <1>3, <2>1, Grow
<1>5. Framed(wire', written', eof', bs, s)
  BY <1>3, <1>4
<1>6. /\ Len(written) \in Nat /\ Len(written') = Len(written) + 1
      /\ \A i \in 1..Len(written) : written'[i] = written[i]
  BY <1>3, WrittenTypes
<1>7. /\ bytes \in [Nat -> Seq(Nat)] /\ start \in [Nat -> Int]
  BY <1>1 DEF Framed
<1>8. c \in Nat /\ c # Len(written) + 2 /\ c \in 1..(Len(written') + 1)
  BY <1>6
<1>9. s[c] = start[c]
  BY <1>7, <1>8
<1>10. c \in 1..Len(written) => bs[c] = bytes[c] /\ written'[c] = written[c] /\ c \in 1..Len(written')
  <2> SUFFICES ASSUME c \in 1..Len(written)
               PROVE  bs[c] = bytes[c] /\ written'[c] = written[c] /\ c \in 1..Len(written')
    OBVIOUS
  <2>1. c # Len(written) + 1 /\ c \in 1..Len(written')
    BY <1>6
  <2>2. bs[c] = bytes[c]
    BY <1>7, <1>8, <2>1
  <2> QED
    BY <1>6, <2>1, <2>2
<1> HIDE DEF bs, s
<1>11. PICK bt, st :
         /\ Framed(wire', written', eof', bt, st) /\ st[c] = start[c]
         /\ c \in 1..Len(written) => bt[c] = bytes[c]
  BY <1>5, <1>9, <1>10
<1>12. c = Len(received') + 1
  BY <1>2, <1>3
<1>13. CASE pc = "header" /\ start[c] = lead
  <2>1. pc' = "header" /\ st[c] = lead
    BY <1>3, <1>11, <1>13
  <2> QED
    BY <1>8, <1>11, <1>12, <2>1 DEF Stream
<1>14. CASE /\ lead = 0 /\ c \in 1..Len(written)
            /\ Within(pc, header, mask_key, written[c], bytes[c], start[c])
  <2>1. c \in 1..Len(written') /\ written'[c] = written[c] /\ bt[c] = bytes[c]
    BY <1>10, <1>11, <1>14
  <2>2. Within(pc', header', mask_key', written'[c], bt[c], st[c])
    BY <1>3, <1>11, <1>14, <2>1
  <2>3. Within(pc, header, mask_key, written[c], bt[c], st[c])'
    BY <1>3, <2>2 DEF Within
  <2> QED
    BY <1>8, <1>11, <1>12, <1>14, <2>1, <2>3 DEF Stream
<1> QED
  BY <1>2, <1>13, <1>14

(* The stream ends, in a line perhaps. *)
LEMMA StreamEnds ==
  ASSUME TypeOK, NEW lead, Stream(lead), eof' = TRUE, wire' \in Seq(Nat),
         Len(wire') <= Len(wire),
         \A i \in 1..Len(wire') : wire'[i] = wire[i] \/ wire[i] >= 1000,
         server' = server, written' = written, pc' = pc, header' = header,
         mask_key' = mask_key, received' = received
  PROVE  Stream(lead)'
<1>1. PICK bytes, start :
        /\ Framed(wire, written, eof, bytes, start)
        /\ \E c \in 1..(Len(written) + 1) :
             /\ c = Len(received) + 1
             /\ \/ pc = "header" /\ start[c] = lead
                \/ /\ lead = 0 /\ c \in 1..Len(written)
                   /\ Within(pc, header, mask_key, written[c], bytes[c], start[c])
  BY DEF Stream
<1>2. wire \in Seq(Nat) /\ written \in Seq(Frame)
  BY DEF TypeOK
<1>3. Framed(wire', written', TRUE, bytes, start)
  <2>1. Framed(wire', written, TRUE, bytes, start)
    BY <1>1, <1>2, Truncate
  <2> QED
    BY <2>1
<1>4. \E c \in 1..(Len(written') + 1) :
        /\ c = Len(received') + 1
        /\ \/ pc' = "header" /\ start[c] = lead
           \/ /\ lead = 0 /\ c \in 1..Len(written')
              /\ Within(pc, header, mask_key, written[c], bytes[c], start[c])'
  BY <1>1 DEF Within
<1> QED
  BY <1>3, <1>4 DEF Stream

(* initialize takes a line. *)
LEMMA StreamGets ==
  ASSUME TypeOK, NEW lead \in Nat, lead > 0, Stream(lead), wire # <<>>, wire' = Tail(wire),
         eof' = eof, server' = server, written' = written, pc' = pc, header' = header,
         mask_key' = mask_key, received' = received, NEW less, less = lead - 1
  PROVE  Stream(less)'
<1>1. PICK bytes, start :
        /\ Framed(wire, written, eof, bytes, start)
        /\ \E c \in 1..(Len(written) + 1) :
             c = Len(received) + 1 /\ pc = "header" /\ start[c] = lead
  BY DEF Stream
<1>2. PICK c \in 1..(Len(written) + 1) :
        c = Len(received) + 1 /\ pc = "header" /\ start[c] = lead
  BY <1>1
<1>3. wire \in Seq(Nat) /\ written \in Seq(Frame) /\ Len(wire) \in Nat /\ Len(wire) >= 1
  BY EmptySeq DEF TypeOK
<1>4. wire' = SubSeq(wire, 1 + 1, Len(wire))
  BY <1>3, TailIsSubSeq
<1> DEFINE s == [k \in Nat |-> start[k] - 1]
<1>5. Framed(wire', written', eof', bytes, s)
  <2>1. Framed(SubSeq(wire, 1 + 1, Len(wire)), written, eof, bytes, s)
    BY <1>1, <1>3, Shift
  <2> QED
    BY <1>4, <2>1
<1>6. s[c] = less /\ c \in 1..(Len(written') + 1) /\ c = Len(received') + 1 /\ pc' = "header"
  BY <1>2
<1> HIDE DEF s
<1> QED
  BY <1>5, <1>6 DEF Stream

(* It stops where the stream ended. *)
LEMMA StreamIsCut ==
  ASSUME TypeOK, NEW lead \in Nat, Stream(lead), wire = <<>>, eof, received = <<>>, pc = "header"
  PROVE  Stream(0)
<1>1. PICK bytes, start :
        /\ Framed(wire, written, eof, bytes, start)
        /\ \E c \in 1..(Len(written) + 1) : c = Len(received) + 1 /\ start[c] = lead
  BY DEF Stream, Within
<1>2. Len(received) = 0 /\ written \in Seq(Frame) /\ eof = TRUE
  BY DEF TypeOK
<1>3. start[1] = lead /\ 1 \in 1..(Len(written) + 1) /\ 1 = Len(received) + 1
  BY <1>1, <1>2
<1> DEFINE s == [k \in Nat |-> start[k] - lead]
<1>4. Framed(<<>>, written, TRUE, bytes, start)
  BY <1>1, <1>2
<1>5. Framed(<<>>, written, TRUE, bytes, s)
  <2>1. lead <= start[1]
    BY <1>3
  <2> QED
    BY <1>2, <1>4, <2>1, Nothing
<1>6. s[1] = 0
  BY <1>3
<1> HIDE DEF s
<1>7. Framed(wire, written, eof, bytes, s)
  BY <1>2, <1>5
<1> QED
  BY <1>3, <1>6, <1>7 DEF Stream

------------------------------------------------------------------------------
(***************************************************************************)
(* initialize has read q lines of the answer, lead are left. Of the fields *)
(* it has what the last one of each name in those lines says, unless the   *)
(* stream ended and a line is not what it was. Behind the answer there is  *)
(* no line.                                                                *)
(***************************************************************************)
FieldRead(v, q, good, bad) ==
  v = "good" <=>
    \E i \in 1..q : response[i] = good /\ \A j \in (i + 1)..q : response[j] # bad

AsAnswered(line, was) == line \in Line /\ (line = was \/ (eof /\ line \in Torn(was)))

Lines(q, lead) ==
  /\ phase = "status" <=> q = 0
  /\ q > 0 => response[1] = SWITCHING_PROTOCOLS
  /\ \A i \in 1..Len(wire) : i <= lead => AsAnswered(wire[i], response[q + i])
  /\ \A i \in 1..Len(wire) : i > lead => wire[i] \notin Line
  /\ written = <<>> => Len(wire) <= lead
  /\ \A i \in 1..q : response[i] # EMPTY
  /\ ~eof => lead <= Len(wire)
  /\ ~eof => FieldRead(upgrade, q, UPGRADE_WEBSOCKET, UPGRADE_OTHER)
  /\ ~eof => FieldRead(connection, q, CONNECTION_UPGRADE, CONNECTION_OTHER)
  /\ ~eof => \A i \in 1..q : response[i] \notin {NO_FIELD, UNSPACED_FIELD}

Shaking ==
  phase \in {"status", "fields"} =>
    \E q, lead \in Nat : q + lead = Len(response) /\ Lines(q, lead) /\ Stream(lead)

(* The whole answers initialize returns for: what its loop and its checks  *)
(* come to, said of the answer.                                            *)
LastIsGood(lines, good, bad) ==
  \E i \in 1..Len(lines) :
    lines[i] = good /\ \A j \in (i + 1)..Len(lines) : lines[j] # bad
Passes(lines) ==
  /\ Switched(lines)
  /\ \A i \in 1..Len(lines) : lines[i] \notin {NO_FIELD, UNSPACED_FIELD}
  /\ LastIsGood(lines, UPGRADE_WEBSOCKET, UPGRADE_OTHER)
  /\ LastIsGood(lines, CONNECTION_UPGRADE, CONNECTION_OTHER)

Agreed ==
  ~server =>
    /\ phase = "open" =>
         /\ response # <<>> /\ Head(response) = SWITCHING_PROTOCOLS
         /\ Passes(response) \/ eof
    /\ phase = "failed" => eof \/ (response # <<>> /\ ~Passes(response))

NoLines == \A i \in 1..Len(wire) : wire[i] \notin Line

Connected == phase = "open" => NoLines /\ (Ended \/ Stream(0))

Context ==
  /\ response \in Responses \cup {<<>>}
  /\ phase \in {"status", "fields", "open", "failed"}
  /\ server => phase = "open"
  /\ eof => arrived = Len(wire)
  /\ written # <<>> => server \/ Switched(response)
  /\ phase # "open" => pc = "header" /\ received = <<>>
  /\ KindsOK

IInv ==
  /\ TypeOK /\ TextsAreReceived /\ EndsForAReason
  /\ Context /\ Agreed /\ Shaking /\ Connected

(* What the lines are. *)
LEMMA LinesAre ==
  /\ Line \subseteq Nat /\ \A line \in Line : line >= 1000 /\ Torn(line) \subseteq Line
  /\ \A line : EMPTY \in Torn(line) => line = EMPTY
  /\ \A line : SWITCHING_PROTOCOLS \in Torn(line) => line = SWITCHING_PROTOCOLS
  /\ Torn(EMPTY) = {EMPTY}
  /\ EMPTY # SWITCHING_PROTOCOLS /\ EMPTY \notin {NO_FIELD, UNSPACED_FIELD}
  /\ EMPTY \notin {UPGRADE_WEBSOCKET, UPGRADE_OTHER, CONNECTION_UPGRADE, CONNECTION_OTHER}
  /\ UPGRADE_WEBSOCKET # UPGRADE_OTHER /\ CONNECTION_UPGRADE # CONNECTION_OTHER
<1> USE DEF SWITCHING_PROTOCOLS, OTHER_STATUS, UPGRADE_WEBSOCKET, UPGRADE_OTHER,
            CONNECTION_UPGRADE, CONNECTION_OTHER, FIELD, NO_FIELD, EMPTY,
            UNSPACED_FIELD, Line
<1>1. Line \subseteq Nat
  OBVIOUS
<1>2. ASSUME NEW line \in Line PROVE line >= 1000 /\ Torn(line) \subseteq Line
  BY DEF Torn
<1>3. ASSUME NEW line, EMPTY \in Torn(line) PROVE line = EMPTY
  BY <1>3 DEF Torn
<1>4. ASSUME NEW line, SWITCHING_PROTOCOLS \in Torn(line) PROVE line = SWITCHING_PROTOCOLS
  BY <1>4 DEF Torn
<1>5. Torn(EMPTY) = {EMPTY}
  BY DEF Torn
<1> QED
  BY <1>1, <1>2, <1>3, <1>4, <1>5

(* An answer is a sequence of lines, the empty one at its end.             *)
LEMMA Answers ==
  ASSUME NEW lines \in Responses
  PROVE  /\ lines \in Seq(Line) /\ Len(lines) \in Nat /\ Len(lines) > 0
         /\ \A i \in 1..Len(lines) : lines[i] \in Line
         /\ \A i \in 1..Len(lines) : lines[i] = EMPTY => i = Len(lines)
         /\ lines \in Seq(Nat)
<1>1. lines \in Seq(Line) /\ lines # <<>> /\ \A i \in 1..(Len(lines) - 1) : lines[i] # EMPTY
  BY HandshakeAssumption
<1>2. Len(lines) \in Nat /\ Len(lines) > 0
  BY <1>1, EmptySeq
<1>3. \A i \in 1..Len(lines) : lines[i] \in Line
  BY <1>1, ElementOfSeq
<1>4. ASSUME NEW i \in 1..Len(lines), lines[i] = EMPTY PROVE i = Len(lines)
  <2>1. i \notin 1..(Len(lines) - 1)
    BY <1>1, <1>4
  <2> QED
    BY <1>2, <2>1
<1>5. lines \in Seq(Nat)
  <2>1. Line \subseteq Nat
    BY LinesAre
  <2>2. \A i \in 1..Len(lines) : lines[i] \in Nat
    BY <1>3, <2>1
  <2>3. lines = [i \in 1..Len(lines) |-> lines[i]]
    BY <1>1
  <2>4. \A n \in Nat : \A g \in [1..n -> Nat] : g \in Seq(Nat)
    BY SeqDef
  <2> QED
    BY <1>2, <2>2, <2>3, <2>4
<1> QED
  BY <1>1, <1>2, <1>3, <1>4, <1>5

(* The same of what the server answered, if it did.                        *)
LEMMA AnswerOf ==
  ASSUME response \in Responses \cup {<<>>}
  PROVE  /\ Len(response) \in Nat
         /\ \A i \in 1..Len(response) : response[i] = EMPTY => i = Len(response)
         /\ response = <<>> <=> Len(response) = 0
<1>1. CASE response \in Responses
  <2>1. /\ Len(response) \in Nat /\ Len(response) > 0
        /\ \A i \in 1..Len(response) : response[i] = EMPTY => i = Len(response)
    BY <1>1, Answers
  <2>2. response # <<>>
    BY <2>1
  <2> QED
    BY <2>1, <2>2
<1>2. CASE response = <<>>
  <2>1. Len(response) = 0
    BY <1>2
  <2> QED
    BY <1>2, <2>1
<1> QED
  BY <1>1, <1>2

(* An answer that passes. *)
LEMMA PassesAre ==
  ASSUME response \in Responses \cup {<<>>}
  PROVE  Passes(response) <=>
           /\ response # <<>>
           /\ response[1] = SWITCHING_PROTOCOLS /\ response[Len(response)] = EMPTY
           /\ \A i \in 1..Len(response) : response[i] \notin {NO_FIELD, UNSPACED_FIELD}
           /\ LastIsGood(response, UPGRADE_WEBSOCKET, UPGRADE_OTHER)
           /\ LastIsGood(response, CONNECTION_UPGRADE, CONNECTION_OTHER)
BY DEF Passes, Switched, Last

------------------------------------------------------------------------------
(* Without a frame, the lines are all there is.                            *)
LEMMA OnlyLines ==
  ASSUME NEW w \in Seq(Nat), NEW ended
  PROVE  \E bytes, start : Framed(w, <<>>, ended, bytes, start) /\ start[1] = Len(w)
<1> DEFINE bytes == [k \in Nat |-> <<>>]
           start == [k \in Nat |-> Len(w)]
<1>1. Len(w) \in Int
  OBVIOUS
<1>2. bytes \in [Nat -> Seq(Nat)] /\ start \in [Nat -> Int] /\ start[1] = Len(w)
  BY <1>1
<1> HIDE DEF bytes, start
<1>3. Framed(w, <<>>, ended, bytes, start)
  BY <1>2, NoFrames
<1> QED
  BY <1>2, <1>3

(* The invariant holds at the start.                                       *)
LEMMA InitEstablishes == ASSUME HandshakeInit PROVE IInv
<1>1. /\ server \in BOOLEAN /\ written = <<>> /\ wire = <<>> /\ arrived = 0 /\ eof = FALSE
      /\ pc = "header" /\ header = [opcode |-> 0, mask |-> FALSE, plength |-> 0]
      /\ mask_key = [i \in 1..4 |-> 0] /\ received = <<>> /\ response = <<>>
      /\ phase = IF server THEN "open" ELSE "status"
      /\ upgrade = "none" /\ connection = "none"
  BY DEF HandshakeInit, Init
<1>2. Len(wire) = 0 /\ Len(written) = 0 /\ Len(received) = 0 /\ Len(response) = 0
  BY <1>1
<1>3. TypeOK
  <2>1. header \in [opcode : Opcode, mask : BOOLEAN, plength : 0..(Base8 - 1)]
    <3>1. 0 \in 0..(Base8 - 1)
      BY Bases
    <3>2. 0 \in Opcode
      BY DEF Opcode
    <3> QED
      BY <1>1, <3>1, <3>2, Zenon
  <2>2. mask_key \in [1..4 -> Bits]
    BY <1>1 DEF Bits
  <2>3. written \in Seq(Frame) /\ wire \in Seq(Nat) /\ received \in Seq(Payload)
    BY <1>1
  <2>4. Len(written) <= MaxFrames /\ arrived \in 0..Len(wire)
    BY <1>1, <1>2, FrameAssumption
  <2> QED
    BY <1>1, <2>1, <2>2, <2>3, <2>4 DEF TypeOK
<1>4. TextsAreReceived /\ EndsForAReason
  BY <1>1, <1>2 DEF TextsAreReceived, EndsForAReason
<1>5. Stream(0)
  <2>1. PICK bytes, start : Framed(wire, <<>>, eof, bytes, start) /\ start[1] = Len(wire)
    <3>1. wire \in Seq(Nat)
      BY <1>1
    <3> QED
      BY <3>1, OnlyLines
  <2>2. Framed(wire, written, eof, bytes, start) /\ start[1] = 0 /\ 1 \in 1..(Len(written) + 1)
        /\ 1 = Len(received) + 1
    BY <1>1, <1>2, <2>1
  <2> QED
    BY <1>1, <2>2 DEF Stream
<1>6. NoLines
  BY <1>2 DEF NoLines
<1>7. Context
  BY <1>1, <1>2 DEF Context, KindsOK
<1>8. Agreed
  BY <1>1 DEF Agreed
<1>9. Connected
  BY <1>5, <1>6 DEF Connected
<1>10. Shaking
  <2>1. CASE phase = "status"
    <3>1. Lines(0, 0)
      BY <1>1, <1>2, <2>1 DEF Lines, FieldRead
    <3>2. 0 + 0 = Len(response)
      BY <1>2
    <3> QED
      BY <1>5, <3>1, <3>2 DEF Shaking
  <2>2. CASE phase # "status"
    BY <1>1, <2>2 DEF Shaking
  <2> QED
    BY <2>1, <2>2
<1> QED
  BY <1>3, <1>4, <1>7, <1>8, <1>9, <1>10 DEF IInv

(* A step that leaves receive alone. *)
Apart ==
  /\ server' = server /\ written' = written /\ pc' = pc /\ header' = header
  /\ mask_key' = mask_key /\ received' = received

(* Then what receive read, and why it ended, stays.                        *)
LEMMA ApartKeeps ==
  ASSUME IInv, Apart, wire' \in Seq(Nat), arrived' \in 0..Len(wire'), eof' \in BOOLEAN, eof => eof'
  PROVE  TypeOK' /\ TextsAreReceived' /\ EndsForAReason' /\ KindsOK' /\ Ended' = Ended
<1>1. TypeOK'
  BY DEF IInv, TypeOK, Apart
<1>2. TextsAreReceived'
  BY DEF IInv, TextsAreReceived, Apart
<1>3. EndsForAReason'
  BY DEF IInv, EndsForAReason, NextFrame, Apart
<1>4. KindsOK'
  BY DEF IInv, Context, KindsOK, Apart
<1>5. Ended' = Ended
  BY DEF Ended, Apart
<1> QED
  BY <1>1, <1>2, <1>3, <1>4, <1>5

(* What the invariant says of types and of the answer.                     *)
LEMMA Facts ==
  ASSUME IInv
  PROVE  /\ wire \in Seq(Nat) /\ Len(wire) \in Nat /\ arrived \in 0..Len(wire)
         /\ eof \in BOOLEAN /\ server \in BOOLEAN /\ written \in Seq(Frame) /\ received \in Seq(Payload)
         /\ Len(response) \in Nat
         /\ \A i \in 1..Len(response) : response[i] = EMPTY => i = Len(response)
         /\ response = <<>> <=> Len(response) = 0
         /\ \A i \in 1..Len(wire) : wire[i] \in Nat
<1>1. /\ wire \in Seq(Nat) /\ Len(wire) \in Nat /\ arrived \in 0..Len(wire)
      /\ eof \in BOOLEAN /\ server \in BOOLEAN /\ written \in Seq(Frame) /\ received \in Seq(Payload)
  BY DEF IInv, TypeOK
<1>2. \A i \in 1..Len(wire) : wire[i] \in Nat
  BY <1>1, ElementOfSeq
<1> QED
  BY <1>1, <1>2, AnswerOf DEF IInv, Context

(* While initialize reads, and is not through with the answer. *)
LEMMA Reading ==
  ASSUME IInv, phase \in {"status", "fields"}
  PROVE  /\ ~server /\ pc = "header" /\ received = <<>>
         /\ \E q, lead \in Nat : q + lead = Len(response) /\ Lines(q, lead) /\ Stream(lead)
         /\ response = <<>> => phase = "status" /\ wire = <<>> /\ written = <<>>
<1>1. ~server /\ pc = "header" /\ received = <<>>
  BY DEF IInv, Context
<1>2. PICK q, lead \in Nat : q + lead = Len(response) /\ Lines(q, lead) /\ Stream(lead)
  BY DEF IInv, Shaking
<1>3. ASSUME response = <<>> PROVE phase = "status" /\ wire = <<>> /\ written = <<>>
  <2>1. q = 0 /\ lead = 0
    BY <1>2, <1>3
  <2>2. written = <<>>
    BY <1>1, <1>3 DEF IInv, Context, Switched
  <2>3. phase = "status" /\ Len(wire) <= 0
    BY <1>2, <2>1, <2>2 DEF Lines
  <2> QED
    BY <2>2, <2>3, Facts
<1> QED
  BY <1>1, <1>2, <1>3

(* The server answers.                                                     *)
LEMMA RespondKeeps == ASSUME IInv, Respond PROVE IInv'
<1>1. /\ ~server /\ ~eof /\ response = <<>> /\ Apart
      /\ arrived' = arrived /\ eof' = eof /\ phase' = phase
      /\ upgrade' = upgrade /\ connection' = connection
  BY DEF Respond, Apart, header_fields
<1>2. PICK lines \in Responses : response' = lines /\ wire' = wire \o lines
  BY DEF Respond
<1>3. phase = "status" /\ wire = <<>> /\ written = <<>> /\ pc = "header" /\ received = <<>>
  <2>1. phase # "open" /\ phase # "failed"
    BY <1>1 DEF IInv, Agreed
  <2>2. phase \in {"status", "fields"}
    BY <2>1 DEF IInv, Context
  <2> QED
    BY <1>1, <2>2, Reading
<1>4. /\ lines \in Seq(Nat) /\ Len(lines) \in Nat /\ Len(lines) > 0
      /\ \A i \in 1..Len(lines) : lines[i] \in Line
  BY <1>2, Answers
<1>5. wire' = lines
  <2>1. \A s \in Seq(Nat) : <<>> \o s = s
    OBVIOUS
  <2> QED
    BY <1>2, <1>3, <1>4, <2>1
<1>6. arrived = 0 /\ arrived' \in 0..Len(wire') /\ eof \in BOOLEAN
  <2>1. arrived \in 0..Len(wire) /\ eof \in BOOLEAN
    BY Facts
  <2>2. Len(wire) = 0
    BY <1>3
  <2> QED
    BY <1>1, <1>4, <1>5, <2>1, <2>2
<1>7. TypeOK' /\ TextsAreReceived' /\ EndsForAReason' /\ KindsOK'
  BY <1>1, <1>4, <1>5, <1>6, ApartKeeps
<1>8. Context'
  BY <1>1, <1>2, <1>3, <1>7 DEF IInv, Context, Apart
<1>9. Agreed' /\ Connected'
  BY <1>1, <1>3 DEF Agreed, Connected
<1> DEFINE lead == Len(lines)
<1>10. Lines(0, lead)'
  <2>1. FieldRead(upgrade, 0, UPGRADE_WEBSOCKET, UPGRADE_OTHER)
        /\ FieldRead(connection, 0, CONNECTION_UPGRADE, CONNECTION_OTHER)
    <3>1. PICK q, rest \in Nat : q + rest = Len(response) /\ Lines(q, rest)
      BY <1>3, Reading
    <3>2. q = 0
      BY <1>3, <3>1 DEF Lines
    <3> QED
      BY <1>1, <3>1, <3>2 DEF Lines
  <2>2. upgrade # "good" /\ connection # "good" /\ \A i \in 1..0 : FALSE
    BY <2>1 DEF FieldRead
  <2>3. FieldRead(upgrade, 0, UPGRADE_WEBSOCKET, UPGRADE_OTHER)'
        /\ FieldRead(connection, 0, CONNECTION_UPGRADE, CONNECTION_OTHER)'
    BY <1>1, <2>2 DEF FieldRead
  <2>4. \A i \in 1..Len(wire') : AsAnswered(wire[i], response[0 + i])' /\ i <= lead
    <3> SUFFICES ASSUME NEW i \in 1..Len(wire') PROVE AsAnswered(wire[i], response[0 + i])' /\ i <= lead
      OBVIOUS
    <3>1. 0 + i = i /\ i \in 1..Len(lines) /\ i <= lead
      BY <1>4, <1>5
    <3>2. wire'[i] = lines[i] /\ response'[0 + i] = lines[i] /\ lines[i] \in Line
      BY <1>2, <1>4, <1>5, <3>1
    <3> QED
      BY <3>1, <3>2 DEF AsAnswered
  <2>5. phase' = "status" /\ eof' = FALSE
    BY <1>1, <1>3, <1>6
  <2>6. lead <= Len(wire') /\ Len(wire') <= lead /\ \A i \in 1..Len(wire') : ~(i > lead)
    BY <1>4, <1>5
  <2>7. \A i \in 1..0 : FALSE
    OBVIOUS
  <2> QED
    BY <2>3, <2>4, <2>5, <2>6, <2>7 DEF Lines
<1>11. Stream(lead)'
  <2>1. PICK bytes, start : Framed(lines, <<>>, eof', bytes, start) /\ start[1] = Len(lines)
    BY <1>4, OnlyLines
  <2>2. Framed(wire, written, eof, bytes, start)'
    BY <1>1, <1>3, <1>5, <2>1 DEF Apart
  <2>3. 1 \in 1..(Len(written') + 1) /\ 1 = Len(received') + 1 /\ pc' = "header" /\ start[1] = lead
    <3>1. Len(written') = 0 /\ Len(received') = 0
      BY <1>1, <1>3 DEF Apart
    <3> QED
      BY <1>1, <1>3, <2>1, <3>1 DEF Apart
  <2> QED
    BY <2>2, <2>3 DEF Stream
<1>12. Shaking'
  <2>1. lead \in Nat /\ 0 + lead = Len(response')
    BY <1>2, <1>4
  <2> HIDE DEF lead
  <2>2. \E r, n \in Nat : r + n = Len(response') /\ Lines(r, n)' /\ Stream(n)'
    BY <1>10, <1>11, <2>1
  <2> QED
    BY <2>2 DEF Shaking
<1> QED
  BY <1>7, <1>8, <1>9, <1>12 DEF IInv

(* What goes on when only the stream changes: initialize's view of it. *)
LEMMA ShakingGoesOn ==
  ASSUME IInv, phase' = phase, response' = response,
         \A q, lead \in Nat :
           q + lead = Len(response) /\ Lines(q, lead) /\ Stream(lead) => Lines(q, lead)' /\ Stream(lead)'
  PROVE  Shaking'
<1> SUFFICES ASSUME phase' \in {"status", "fields"}
             PROVE  \E q, lead \in Nat : q + lead = Len(response') /\ Lines(q, lead)' /\ Stream(lead)'
  BY DEF Shaking
<1>1. PICK q, lead \in Nat : q + lead = Len(response) /\ Lines(q, lead) /\ Stream(lead)
  BY Reading
<1> QED
  BY <1>1

(* A byte arrives.                                                         *)
LEMMA ArriveKeeps ==
  ASSUME IInv, Arrive, UNCHANGED handshake
  PROVE  IInv'
<1>1. /\ ~eof /\ Apart /\ wire' = wire /\ arrived' = arrived + 1 /\ arrived < Len(wire)
      /\ eof' = eof /\ response' = response /\ phase' = phase
      /\ upgrade' = upgrade /\ connection' = connection
  BY DEF Arrive, Apart, handshake, header_fields
<1>2. wire' \in Seq(Nat) /\ arrived' \in 0..Len(wire') /\ eof' \in BOOLEAN
  BY <1>1, Facts
<1>3. TypeOK' /\ TextsAreReceived' /\ EndsForAReason' /\ KindsOK' /\ Ended' = Ended
  BY <1>1, <1>2, ApartKeeps
<1>4. Context'
  BY <1>1, <1>3 DEF IInv, Context, Apart
<1>5. Agreed'
  BY <1>1 DEF IInv, Agreed, Apart
<1>6. \A lead \in Nat : Stream(lead)' <=> Stream(lead)
  BY <1>1 DEF Stream, Apart, Within
<1>7. Connected'
  BY <1>1, <1>3, <1>6 DEF IInv, Connected, NoLines
<1>8. \A q, lead \in Nat : Lines(q, lead) => Lines(q, lead)'
  BY <1>1 DEF Lines, AsAnswered, FieldRead, Apart
<1>9. Shaking'
  BY <1>1, <1>6, <1>8, ShakingGoesOn
<1> QED
  BY <1>3, <1>4, <1>5, <1>7, <1>9 DEF IInv

(* The stream ends, in a line perhaps. *)
LEMMA CutKeeps ==
  ASSUME IInv, Apart, UNCHANGED handshake, ~eof, eof' = TRUE, wire' \in Seq(Nat),
         Len(wire') <= Len(wire), arrived' = Len(wire'),
         \A i \in 1..Len(wire') :
           wire'[i] = wire[i] \/ (wire[i] \in Line /\ wire'[i] \in Torn(wire[i]))
  PROVE  IInv'
<1>1. /\ response' = response /\ phase' = phase /\ upgrade' = upgrade /\ connection' = connection
  BY DEF handshake, header_fields
<1>2. Len(wire') \in Nat /\ \A i \in 1..Len(wire') : i \in 1..Len(wire)
  BY Facts
<1>3. TypeOK' /\ TextsAreReceived' /\ EndsForAReason' /\ KindsOK' /\ Ended' = Ended
  <2>1. arrived' \in 0..Len(wire')
    BY <1>2
  <2> QED
    BY <2>1, ApartKeeps
<1>4. Context'
  BY <1>1, <1>3 DEF IInv, Context, Apart
<1>5. Agreed'
  BY <1>1 DEF IInv, Agreed, Apart
<1>6. ASSUME NEW lead, Stream(lead) PROVE Stream(lead)'
  <2>1. \A i \in 1..Len(wire') : wire'[i] = wire[i] \/ wire[i] >= 1000
    BY LinesAre
  <2>2. TypeOK
    BY DEF IInv
  <2> QED
    BY <1>6, <2>1, <2>2, StreamEnds DEF Apart
<1>7. Connected'
  <2> SUFFICES ASSUME phase = "open" PROVE NoLines' /\ (Ended' \/ Stream(0)')
    BY <1>1 DEF Connected
  <2>1. NoLines /\ (Ended \/ Stream(0))
    BY DEF IInv, Connected
  <2>2. NoLines'
    BY <1>2, <2>1 DEF NoLines
  <2>3. Ended' \/ Stream(0)'
    BY <1>3, <1>6, <2>1
  <2> QED
    BY <2>2, <2>3
<1>8. ASSUME NEW q \in Nat, NEW lead \in Nat, Lines(q, lead) PROVE Lines(q, lead)'
  <2>1. /\ phase' = "status" <=> q = 0
        /\ q > 0 => response'[1] = SWITCHING_PROTOCOLS
        /\ \A i \in 1..q : response'[i] # EMPTY
    BY <1>1, <1>8 DEF Lines
  <2>2. ASSUME NEW i \in 1..Len(wire'), i <= lead
        PROVE  AsAnswered(wire[i], response[q + i])'
    <3>1. i \in 1..Len(wire)
      BY <1>2
    <3>2. AsAnswered(wire[i], response[q + i])
      BY <1>8, <2>2, <3>1 DEF Lines
    <3>3. wire[i] \in Line /\ wire[i] = response[q + i]
      BY <3>2 DEF AsAnswered
    <3>4. wire'[i] = wire[i] \/ wire'[i] \in Torn(wire[i])
      OBVIOUS
    <3>5. Torn(wire[i]) \subseteq Line
      BY <3>3, LinesAre
    <3>6. wire'[i] \in Line
      BY <3>3, <3>4, <3>5
    <3>7. wire'[i] = response[q + i] \/ wire'[i] \in Torn(response[q + i])
      BY <3>3, <3>4
    <3> QED
      BY <1>1, <3>6, <3>7 DEF AsAnswered
  <2>3. ASSUME NEW i \in 1..Len(wire'), i > lead
        PROVE  wire'[i] \notin Line
    <3>1. wire[i] \notin Line
      BY <1>2, <1>8, <2>3 DEF Lines
    <3> QED
      BY <3>1
  <2>4. written' = <<>> => Len(wire') <= lead
    <3> SUFFICES ASSUME written = <<>> PROVE Len(wire') <= lead
      BY DEF Apart
    <3>1. Len(wire) <= lead
      BY <1>8 DEF Lines
    <3> QED
      BY <1>2, <3>1, Facts
  <2> QED
    BY <2>1, <2>2, <2>3, <2>4 DEF Lines
<1>9. Shaking'
  BY <1>1, <1>6, <1>8, ShakingGoesOn
<1> QED
  BY <1>3, <1>4, <1>5, <1>7, <1>9 DEF IInv

(* The stream ends between two lines, or among the bytes of a frame.       *)
LEMMA EndKeeps ==
  ASSUME IInv, End, UNCHANGED handshake
  PROVE  IInv'
<1>1. /\ ~eof /\ Apart /\ wire' = SubSeq(wire, 1, arrived) /\ arrived' = arrived /\ eof' = TRUE
  BY DEF End, Apart
<1>2. wire \in Seq(Nat) /\ arrived \in Nat /\ arrived <= Len(wire)
  BY Facts
<1>3. wire' \in Seq(Nat) /\ Len(wire') = arrived /\ \A i \in 1..Len(wire') : wire'[i] = wire[i]
  BY <1>1, <1>2, Cut
<1>4. Len(wire') <= Len(wire) /\ arrived' = Len(wire')
  BY <1>1, <1>2, <1>3
<1> QED
  BY <1>1, <1>3, <1>4, CutKeeps

(* It ends within a line.                                                  *)
LEMMA EndInLineKeeps == ASSUME IInv, EndInLine PROVE IInv'
<1>1. /\ ~eof /\ Apart /\ arrived' = arrived + 1 /\ eof' = TRUE /\ UNCHANGED handshake
      /\ arrived < Len(wire) /\ wire[arrived + 1] \in Line
  BY DEF EndInLine, Apart
<1>2. PICK line \in Torn(wire[arrived + 1]) : wire' = SubSeq(wire, 1, arrived) \o <<line>>
  BY DEF EndInLine
<1>3. wire \in Seq(Nat) /\ arrived \in Nat /\ arrived <= Len(wire) /\ Len(wire) \in Nat
  BY Facts
<1> DEFINE u == SubSeq(wire, 1, arrived)
           v == <<line>>
<1>4. u \in Seq(Nat) /\ Len(u) = arrived /\ \A i \in 1..arrived : u[i] = wire[i]
  BY <1>3, Cut
<1>5. line \in Nat
  BY <1>1, <1>2, LinesAre
<1>6. v \in Seq(Nat) /\ Len(v) = 1 /\ v[1] = line
  BY <1>5
<1> HIDE DEF u, v
<1>7. /\ u \o v \in Seq(Nat) /\ Len(u \o v) = arrived + 1
      /\ \A i \in 1..arrived : (u \o v)[i] = wire[i]
      /\ (u \o v)[arrived + 1] = line
  <2>1. u \o v \in Seq(Nat) /\ Len(u \o v) = Len(u) + Len(v)
    BY <1>4, <1>6, Concat
  <2>2. \A i \in 1..Len(u) : (u \o v)[i] = u[i]
    BY <1>4, <1>6, Concat
  <2>3. \A i \in 1..Len(v) : (u \o v)[Len(u) + i] = v[i]
    <3>1. \A s, t \in Seq(Nat) : \A i \in 1..Len(t) : (s \o t)[Len(s) + i] = t[i]
      BY Concat
    <3> QED
      BY <1>4, <1>6, <3>1
  <2>4. 1 \in 1..Len(v)
    BY <1>6
  <2> QED
    BY <1>4, <1>6, <2>1, <2>2, <2>3, <2>4
<1>8. wire' = u \o v
  BY <1>2 DEF u, v
<1>9. wire' \in Seq(Nat) /\ Len(wire') <= Len(wire) /\ arrived' = Len(wire')
  BY <1>1, <1>3, <1>7, <1>8
<1>10. ASSUME NEW i \in 1..Len(wire')
       PROVE  wire'[i] = wire[i] \/ (wire[i] \in Line /\ wire'[i] \in Torn(wire[i]))
  <2>1. i \in 1..arrived \/ i = arrived + 1
    BY <1>3, <1>7, <1>8
  <2> QED
    BY <1>1, <1>2, <1>7, <1>8, <2>1
<1> QED
  BY <1>1, <1>9, <1>10, CutKeeps

(* A frame is written. *)
LEMMA WriteFrameKeeps == ASSUME IInv, WriteFrame PROVE IInv'
<1>1. /\ response' = response /\ phase' = phase /\ upgrade' = upgrade /\ connection' = connection
      /\ server \/ Switched(response)
  BY DEF WriteFrame, handshake, header_fields
<1>2. PICK f, b : Written(f, b)
  BY WriterWrites DEF WriteFrame
<1>3. TypeOK
  BY DEF IInv
<1>4. /\ ~eof /\ server' = server /\ arrived' = arrived /\ eof' = eof /\ pc' = pc
      /\ received' = received /\ f.opcode \in Kinds
  BY <1>2 DEF Written
<1>5. /\ TypeOK' /\ Len(wire') = Len(wire) + Len(b) /\ Len(b) \in Nat
      /\ \A i \in 1..Len(wire) : wire'[i] = wire[i]
      /\ \A i \in 1..Len(wire') : i > Len(wire) => wire'[i] \notin Line
      /\ written' # <<>>
      /\ Len(written') = Len(written) + 1
      /\ \A i \in 1..Len(written) : written'[i] = written[i]
      /\ written'[Len(written) + 1] = f
  BY <1>2, <1>3, WrittenTypes
<1>6. /\ Len(wire) \in Nat /\ Len(written) \in Nat /\ Len(received) \in Nat
      /\ \A i \in 1..Len(wire') : i \in 1..Len(wire) \/ i > Len(wire)
  <2>1. /\ Len(wire) \in Nat /\ Len(written) \in Nat /\ Len(received) \in Nat
    BY Facts
  <2> QED
    BY <1>5, <2>1
<1>7. TextsAreReceived'
  <2>1. Len(received) <= Len(written) /\ \A i \in 1..Len(received) :
          written[i].opcode = TEXT /\ received[i] = written[i].payload
    BY DEF IInv, TextsAreReceived
  <2>2. \A i \in 1..Len(received) : written'[i] = written[i]
    BY <1>5, <1>6, <2>1
  <2>3. Len(received') <= Len(written')
    BY <1>4, <1>5, <1>6, <2>1
  <2> QED
    BY <1>4, <2>1, <2>2, <2>3 DEF TextsAreReceived
<1>8. EndsForAReason'
  <2>1. Len(received) < Len(written) =>
          NextFrame' = NextFrame /\ Len(received') < Len(written')
    BY <1>4, <1>5, <1>6 DEF NextFrame
  <2> QED
    BY <1>4, <2>1 DEF IInv, EndsForAReason
<1>9. KindsOK'
  <2>1. \A k \in 1..Len(written') : k \in 1..Len(written) \/ k = Len(written) + 1
    BY <1>5, <1>6
  <2> QED
    BY <1>4, <1>5, <2>1 DEF IInv, Context, KindsOK
<1>10. Context'
  BY <1>1, <1>4, <1>9 DEF IInv, Context
<1>11. Agreed'
  BY <1>1, <1>4 DEF IInv, Agreed
<1>12. ASSUME NEW lead, Stream(lead) PROVE Stream(lead)'
  BY <1>2, <1>3, <1>12, StreamWritten
<1>13. Connected'
  <2> SUFFICES ASSUME phase = "open" PROVE NoLines' /\ (Ended' \/ Stream(0)')
    BY <1>1 DEF Connected
  <2>1. NoLines /\ (Ended \/ Stream(0))
    BY DEF IInv, Connected
  <2>2. NoLines'
    BY <1>5, <1>6, <2>1 DEF NoLines
  <2>3. Ended' \/ Stream(0)'
    BY <1>4, <1>12, <2>1 DEF Ended
  <2> QED
    BY <2>2, <2>3
<1>14. ASSUME NEW q \in Nat, NEW lead \in Nat, Lines(q, lead) PROVE Lines(q, lead)'
  <2>1. lead <= Len(wire)
    BY <1>4, <1>14 DEF Lines
  <2>2. ASSUME NEW i \in 1..Len(wire'), i <= lead
        PROVE  AsAnswered(wire[i], response[q + i])'
    <3>1. i \in 1..Len(wire)
      BY <1>6, <2>1, <2>2
    <3> QED
      BY <1>1, <1>4, <1>5, <1>14, <2>2, <3>1 DEF Lines, AsAnswered
  <2>3. ASSUME NEW i \in 1..Len(wire'), i > lead
        PROVE  wire'[i] \notin Line
    BY <1>5, <1>6, <1>14, <2>3 DEF Lines
  <2>4. lead <= Len(wire')
    BY <1>5, <1>6, <2>1
  <2>5. /\ phase' = "status" <=> q = 0
        /\ q > 0 => response'[1] = SWITCHING_PROTOCOLS
        /\ \A i \in 1..q : response'[i] # EMPTY
        /\ FieldRead(upgrade, q, UPGRADE_WEBSOCKET, UPGRADE_OTHER)'
        /\ FieldRead(connection, q, CONNECTION_UPGRADE, CONNECTION_OTHER)'
        /\ \A i \in 1..q : response'[i] \notin {NO_FIELD, UNSPACED_FIELD}
    BY <1>1, <1>4, <1>14 DEF Lines, FieldRead
  <2> QED
    BY <1>5, <2>2, <2>3, <2>4, <2>5 DEF Lines
<1>15. Shaking'
  BY <1>1, <1>12, <1>14, ShakingGoesOn
<1> QED
  BY <1>5, <1>7, <1>8, <1>10, <1>11, <1>13, <1>15 DEF IInv

------------------------------------------------------------------------------
(* gets takes the next line of the answer.                                 *)
LEMMA GetsTakes ==
  ASSUME IInv, NEW place \in {"status", "fields"}, Gets(place)
  PROVE  /\ Apart /\ eof' = eof /\ response' = response /\ phase = place
         /\ Len(wire) >= 1 /\ Len(wire') = Len(wire) - 1 /\ wire # <<>> /\ wire' = Tail(wire)
         /\ \A i \in 1..Len(wire') : wire'[i] = wire[i + 1]
         /\ TypeOK' /\ TextsAreReceived' /\ EndsForAReason' /\ KindsOK'
         /\ eof => arrived' = Len(wire')
         /\ ~server /\ pc = "header" /\ received = <<>> /\ response # <<>>
<1>1. /\ Apart /\ eof' = eof /\ response' = response /\ phase = place
      /\ arrived >= 1 /\ wire' = Tail(wire) /\ arrived' = arrived - 1
  BY DEF Gets, Apart
<1>2. wire \in Seq(Nat) /\ Len(wire) \in Nat /\ arrived \in 0..Len(wire) /\ eof \in BOOLEAN
  BY Facts
<1>3. Len(wire) >= 1 /\ wire # <<>>
  BY <1>1, <1>2
<1>4. PICK n \in Nat : n = 1 /\ wire' = SubSeq(wire, n + 1, Len(wire))
  <2>1. wire' = SubSeq(wire, 1 + 1, Len(wire))
    BY <1>1, <1>2, <1>3, TailIsSubSeq
  <2> QED
    BY <2>1
<1>5. wire' \in Seq(Nat) /\ Len(wire') = Len(wire) - 1
  <2>1. n <= Len(wire)
    BY <1>3, <1>4
  <2>2. \A s \in Seq(Nat) : \A m \in Nat : m <= Len(s) =>
          SubSeq(s, m + 1, Len(s)) \in Seq(Nat) /\ Len(SubSeq(s, m + 1, Len(s))) = Len(s) - m
    BY Cut
  <2>3. wire' \in Seq(Nat) /\ Len(wire') = Len(wire) - n
    BY <1>2, <1>4, <2>1, <2>2
  <2> QED
    BY <1>4, <2>3
<1>6. \A i \in 1..Len(wire') : wire'[i] = wire[i + 1]
  <2>1. \A i \in 1..(Len(wire) - 1) : wire'[i] = wire[1 + i]
    <3>1. n <= Len(wire)
      BY <1>3, <1>4
    <3>2. \A i \in 1..(Len(wire) - n) : wire'[i] = wire[n + i]
      BY <1>2, <1>4, <3>1, Cut
    <3> QED
      BY <1>4, <3>2
  <2>2. \A i \in 1..Len(wire') : i \in 1..(Len(wire) - 1) /\ 1 + i = i + 1
    BY <1>2, <1>5
  <2> QED
    BY <2>1, <2>2
<1>7. arrived' \in 0..Len(wire') /\ eof' \in BOOLEAN
  BY <1>1, <1>2, <1>3, <1>5
<1>8. TypeOK' /\ TextsAreReceived' /\ EndsForAReason' /\ KindsOK'
  BY <1>1, <1>5, <1>7, ApartKeeps
<1>9. eof => arrived' = Len(wire')
  BY <1>1, <1>5 DEF IInv, Context
<1>10. ~server /\ pc = "header" /\ received = <<>> /\ response # <<>>
  BY <1>1, <1>3, Reading
<1> QED
  BY <1>1, <1>3, <1>5, <1>6, <1>8, <1>9, <1>10

(* As long as there is something on the wire, a line is.                   *)
LEMMA LinesAreLeft ==
  ASSUME IInv, phase \in {"status", "fields"}, wire # <<>>,
         NEW q \in Nat, NEW lead \in Nat, q + lead = Len(response), Lines(q, lead)
  PROVE  lead > 0
<1> SUFFICES ASSUME lead = 0 PROVE FALSE
  OBVIOUS
<1>1. ~server /\ response # <<>>
  BY Reading
<1>2. q = Len(response) /\ q > 0
  BY <1>1, Facts
<1>3. response[Len(response)] # EMPTY
  BY <1>2 DEF Lines
<1>4. ~Switched(response)
  BY <1>3 DEF Switched, Last
<1>5. written = <<>>
  BY <1>1, <1>4 DEF IInv, Context
<1>6. Len(wire) <= 0
  BY <1>5 DEF Lines
<1> QED
  BY <1>6, Facts

(* The line taken is the next one of the answer.                           *)
LEMMA NextLine ==
  ASSUME IInv, NEW place \in {"status", "fields"}, Gets(place)
  PROVE  \E q, lead, less \in Nat :
           /\ q + lead = Len(response) /\ less = lead - 1 /\ Lines(q, lead)
           /\ AsAnswered(wire[1], response[q + 1]) /\ Stream(less)'
<1>1. /\ Apart /\ eof' = eof /\ phase = place /\ Len(wire) >= 1 /\ wire # <<>>
      /\ wire' = Tail(wire) /\ ~server /\ response # <<>>
  BY GetsTakes
<1>2. PICK q, lead \in Nat : q + lead = Len(response) /\ Lines(q, lead) /\ Stream(lead)
  BY <1>1, Reading
<1>3. lead > 0
  BY <1>1, <1>2, LinesAreLeft
<1>4. AsAnswered(wire[1], response[q + 1])
  <2>1. 1 \in 1..Len(wire) /\ 1 <= lead
    BY <1>1, <1>2, <1>3, Facts
  <2> QED
    BY <1>2, <2>1 DEF Lines
<1>5. PICK less \in Nat : less = lead - 1
  BY <1>3
<1>6. Stream(less)'
  <2>1. TypeOK
    BY DEF IInv
  <2> QED
    BY <1>1, <1>2, <1>3, <1>5, <2>1, StreamGets DEF Apart
<1> QED
  BY <1>2, <1>4, <1>5, <1>6

(* A field read decides as the last line of its kind does.                 *)
LEMMA FieldIsRead ==
  ASSUME NEW v, NEW q \in Nat, NEW p, p = q + 1, NEW good, NEW bad, good # bad,
         FieldRead(v, q, good, bad)
  PROVE  FieldRead(FieldOf(v, response[p], good, bad), p, good, bad)
<1>1. /\ p \in 1..p /\ \A i \in 1..p : i = p \/ i \in 1..q
      /\ \A i \in 1..q : i \in 1..p /\ p \in (i + 1)..p /\ i # p
      /\ \A j \in (p + 1)..p : FALSE
  OBVIOUS
<1>2. \A i \in 1..q : \A j \in (i + 1)..p : j = p \/ j \in (i + 1)..q
  OBVIOUS
<1>3. \A i \in 1..q : \A j \in (i + 1)..q : j \in (i + 1)..p
  OBVIOUS
<1> DEFINE w == FieldOf(v, response[p], good, bad)
           Good(i, n) == response[i] = good /\ \A j \in (i + 1)..n : response[j] # bad
<1>4. CASE response[p] = good
  <2>1. w = "good"
    BY <1>4 DEF FieldOf
  <2>2. Good(p, p)
    BY <1>1, <1>4
  <2> QED
    BY <1>1, <2>1, <2>2 DEF FieldRead
<1>5. CASE response[p] = bad
  <2>1. w # "good"
    BY <1>5 DEF FieldOf
  <2>2. \A i \in 1..p : ~Good(i, p)
    BY <1>1, <1>5
  <2> QED
    BY <2>1, <2>2 DEF FieldRead
<1>6. CASE response[p] # good /\ response[p] # bad
  <2>1. w = v
    BY <1>6 DEF FieldOf
  <2>2. \A i \in 1..q : Good(i, p) <=> Good(i, q)
    BY <1>2, <1>3, <1>6
  <2>3. ~Good(p, p)
    BY <1>6
  <2>4. (\E i \in 1..p : Good(i, p)) <=> \E i \in 1..q : Good(i, q)
    BY <1>1, <2>2, <2>3
  <2> QED
    BY <2>1, <2>4 DEF FieldRead
<1> QED
  BY <1>4, <1>5, <1>6

(* initialize goes on to the next field. *)
LEMMA NextField ==
  ASSUME IInv, NEW place \in {"status", "fields"}, Gets(place),
         phase' = "fields", NEW q \in Nat, NEW lead \in Nat, NEW less \in Nat,
         q + lead = Len(response), less = lead - 1, Lines(q, lead), Stream(less)',
         response[1] = SWITCHING_PROTOCOLS, NEW p, p = q + 1, response[p] # EMPTY,
         upgrade' = FieldOf(upgrade, response[p], UPGRADE_WEBSOCKET, UPGRADE_OTHER) \/ eof,
         connection' = FieldOf(connection, response[p], CONNECTION_UPGRADE, CONNECTION_OTHER) \/ eof,
         response[p] \notin {NO_FIELD, UNSPACED_FIELD} \/ eof
  PROVE  IInv'
<1>1. /\ Apart /\ eof' = eof /\ response' = response
      /\ Len(wire) >= 1 /\ Len(wire') = Len(wire) - 1
      /\ \A i \in 1..Len(wire') : wire'[i] = wire[i + 1]
      /\ TypeOK' /\ TextsAreReceived' /\ EndsForAReason' /\ KindsOK'
      /\ eof => arrived' = Len(wire')
      /\ ~server /\ pc = "header" /\ received = <<>>
  BY GetsTakes
<1>2. Context'
  BY <1>1 DEF IInv, Context, Apart
<1>3. Agreed' /\ Connected'
  BY DEF Agreed, Connected
<1>4. p \in Nat /\ p > 0 /\ p + less = Len(response) /\ Len(wire) \in Nat /\ Len(wire') \in Nat
  <2>1. Len(wire) \in Nat
    BY Facts
  <2>2. p + less = q + lead
    OBVIOUS
  <2>3. p \in Nat /\ p > 0
    OBVIOUS
  <2>4. Len(wire) >= 1 /\ Len(wire') = Len(wire) - 1
    BY <1>1
  <2>5. Len(wire') \in Nat
    BY <2>1, <2>4
  <2> QED
    BY <2>1, <2>2, <2>3, <2>5
<1>5. \A i \in 1..p : i = p \/ i \in 1..q
  OBVIOUS
<1>6. ASSUME NEW i \in 1..Len(wire')
      PROVE  /\ i <= less => AsAnswered(wire[i], response[p + i])'
             /\ i > less => wire'[i] \notin Line
  <2> DEFINE j == i + 1
  <2>0. i \in Nat /\ i >= 1 /\ i <= Len(wire) - 1
    BY <1>1, <1>4
  <2>1. j \in 1..Len(wire) /\ p + i = q + j /\ (i <= less <=> j <= lead) /\ (i > less <=> j > lead)
    <3>1. j \in 1..Len(wire)
      BY <1>4, <2>0
    <3>2. p + i = q + j
      BY <2>0
    <3>3. (i <= less <=> j <= lead) /\ (i > less <=> j > lead)
      BY <2>0
    <3> QED
      BY <3>1, <3>2, <3>3
  <2>2. wire'[i] = wire[j]
    BY <1>1
  <2> HIDE DEF j
  <2>3. /\ j <= lead => AsAnswered(wire[j], response[q + j])
        /\ j > lead => wire[j] \notin Line
    BY <2>1 DEF Lines
  <2> QED
    BY <1>1, <2>1, <2>2, <2>3 DEF AsAnswered
<1>7. written' = <<>> => Len(wire') <= less
  <2> SUFFICES ASSUME written = <<>> PROVE Len(wire') <= less
    BY <1>1 DEF Apart
  <2>1. Len(wire) <= lead
    BY DEF Lines
  <2> QED
    BY <1>1, <1>4, <2>1
<1>8. ~eof => less <= Len(wire')
  <2> SUFFICES ASSUME ~eof PROVE less <= Len(wire')
    OBVIOUS
  <2>1. lead <= Len(wire)
    BY DEF Lines
  <2> QED
    BY <1>1, <1>4, <2>1
<1>9. \A i \in 1..p : response[i] # EMPTY
  BY <1>5 DEF Lines
<1>10. ~eof => \A i \in 1..p : response[i] \notin {NO_FIELD, UNSPACED_FIELD}
  BY <1>5 DEF Lines
<1>11. ~eof => /\ FieldRead(upgrade', p, UPGRADE_WEBSOCKET, UPGRADE_OTHER)
               /\ FieldRead(connection', p, CONNECTION_UPGRADE, CONNECTION_OTHER)
  <2> SUFFICES ASSUME ~eof
               PROVE  /\ FieldRead(upgrade', p, UPGRADE_WEBSOCKET, UPGRADE_OTHER)
                      /\ FieldRead(connection', p, CONNECTION_UPGRADE, CONNECTION_OTHER)
    OBVIOUS
  <2>1. /\ FieldRead(upgrade, q, UPGRADE_WEBSOCKET, UPGRADE_OTHER)
        /\ FieldRead(connection, q, CONNECTION_UPGRADE, CONNECTION_OTHER)
    BY DEF Lines
  <2>2. UPGRADE_WEBSOCKET # UPGRADE_OTHER /\ CONNECTION_UPGRADE # CONNECTION_OTHER
    BY LinesAre
  <2>3. FieldRead(upgrade', p, UPGRADE_WEBSOCKET, UPGRADE_OTHER)
    BY <2>1, <2>2, FieldIsRead
  <2>4. FieldRead(connection', p, CONNECTION_UPGRADE, CONNECTION_OTHER)
    BY <2>1, <2>2, FieldIsRead
  <2> QED
    BY <2>3, <2>4
<1>12. Lines(p, less)'
  <2>1. ~eof => /\ FieldRead(upgrade, p, UPGRADE_WEBSOCKET, UPGRADE_OTHER)'
                /\ FieldRead(connection, p, CONNECTION_UPGRADE, CONNECTION_OTHER)'
    BY <1>1, <1>11 DEF FieldRead
  <2> QED
    BY <1>1, <1>4, <1>6, <1>7, <1>8, <1>9, <1>10, <2>1 DEF Lines
<1>13. Shaking'
  BY <1>1, <1>4, <1>12 DEF Shaking
<1> QED
  BY <1>1, <1>2, <1>3, <1>13 DEF IInv

(* initialize raises. *)
LEMMA Raises ==
  ASSUME IInv, phase \in {"status", "fields"}, phase' = "failed", Apart, eof' = eof,
         response' = response, TypeOK', TextsAreReceived', EndsForAReason', KindsOK',
         eof => arrived' = Len(wire'),
         eof \/ (response # <<>> /\ ~Passes(response))
  PROVE  IInv'
<1>1. ~server /\ pc = "header" /\ received = <<>>
  BY Reading
<1>2. Context'
  BY <1>1 DEF IInv, Context, Apart
<1>3. Agreed' /\ Connected' /\ Shaking'
  BY <1>1 DEF Agreed, Connected, Shaking, Apart
<1> QED
  BY <1>2, <1>3 DEF IInv

(* initialize returns. *)
LEMMA Returns ==
  ASSUME IInv, phase \in {"status", "fields"}, phase' = "open", Apart, eof' = eof,
         response' = response, TypeOK', TextsAreReceived', EndsForAReason', KindsOK',
         eof => arrived' = Len(wire'), Stream(0)', NoLines',
         response # <<>>, response[1] = SWITCHING_PROTOCOLS, Passes(response) \/ eof
  PROVE  IInv'
<1>1. ~server /\ pc = "header" /\ received = <<>>
  BY Reading
<1>2. Context'
  BY <1>1 DEF IInv, Context, Apart
<1>3. Head(response) = SWITCHING_PROTOCOLS
  BY DEF IInv, Context
<1>4. Agreed' /\ Connected' /\ Shaking'
  BY <1>1, <1>3 DEF Agreed, Connected, Shaking, Apart
<1> QED
  BY <1>2, <1>4 DEF IInv

(* initialize reads the status line.                                       *)
LEMMA ReadStatusKeeps == ASSUME IInv, ReadStatus PROVE IInv'
<1>1. /\ Gets("status") /\ upgrade' = upgrade /\ connection' = connection
      /\ phase' = IF wire[1] = SWITCHING_PROTOCOLS THEN "fields" ELSE "failed"
  BY DEF ReadStatus, header_fields
<1>2. "status" \in {"status", "fields"}
  OBVIOUS
<1>3. /\ Apart /\ eof' = eof /\ response' = response /\ phase = "status"
      /\ TypeOK' /\ TextsAreReceived' /\ EndsForAReason' /\ KindsOK'
      /\ eof => arrived' = Len(wire')
      /\ response # <<>>
  BY <1>1, <1>2, GetsTakes
<1>4. PICK q, lead, less \in Nat :
        /\ q + lead = Len(response) /\ less = lead - 1 /\ Lines(q, lead)
        /\ AsAnswered(wire[1], response[q + 1]) /\ Stream(less)'
  BY <1>1, <1>2, NextLine
<1>5. q = 0
  BY <1>3, <1>4 DEF Lines
<1> DEFINE p == q + 1
<1>6. p = q + 1 /\ p = 1
  BY <1>5
<1> HIDE DEF p
<1>7. wire[1] = response[p] \/ (eof /\ wire[1] \in Torn(response[p]))
  BY <1>4, <1>6 DEF AsAnswered
<1>8. CASE wire[1] = SWITCHING_PROTOCOLS
  <2>1. response[p] = SWITCHING_PROTOCOLS /\ response[1] = SWITCHING_PROTOCOLS
    BY <1>6, <1>7, <1>8, LinesAre
  <2>2. response[p] # EMPTY /\ response[p] \notin {NO_FIELD, UNSPACED_FIELD}
    BY <2>1 DEF SWITCHING_PROTOCOLS, EMPTY, NO_FIELD, UNSPACED_FIELD
  <2>3. /\ upgrade' = FieldOf(upgrade, response[p], UPGRADE_WEBSOCKET, UPGRADE_OTHER)
        /\ connection' = FieldOf(connection, response[p], CONNECTION_UPGRADE, CONNECTION_OTHER)
    BY <1>1, <2>1 DEF FieldOf, SWITCHING_PROTOCOLS, UPGRADE_WEBSOCKET, UPGRADE_OTHER,
                      CONNECTION_UPGRADE, CONNECTION_OTHER
  <2>4. phase' = "fields"
    BY <1>1, <1>8
  <2> QED
    BY <1>1, <1>2, <1>4, <1>6, <2>1, <2>2, <2>3, <2>4, NextField
<1>9. CASE wire[1] # SWITCHING_PROTOCOLS
  <2>1. phase' = "failed"
    BY <1>1, <1>9
  <2>2. ASSUME ~eof PROVE ~Passes(response)
    <3>1. response[1] # SWITCHING_PROTOCOLS
      BY <1>6, <1>7, <1>9, <2>2
    <3> QED
      BY <3>1, PassesAre DEF IInv, Context
  <2> QED
    BY <1>3, <2>1, <2>2, Raises
<1> QED
  BY <1>8, <1>9

(* read_header reads a field.                                              *)
LEMMA ReadFieldKeeps == ASSUME IInv, ReadField PROVE IInv'
<1>1. /\ Gets("fields") /\ wire[1] # EMPTY
      /\ phase' = IF wire[1] \in {NO_FIELD, UNSPACED_FIELD} THEN "failed" ELSE phase
      /\ upgrade' = FieldOf(upgrade, wire[1], UPGRADE_WEBSOCKET, UPGRADE_OTHER)
      /\ connection' = FieldOf(connection, wire[1], CONNECTION_UPGRADE, CONNECTION_OTHER)
  BY DEF ReadField
<1>2. "fields" \in {"status", "fields"}
  OBVIOUS
<1>3. /\ Apart /\ eof' = eof /\ response' = response /\ phase = "fields"
      /\ TypeOK' /\ TextsAreReceived' /\ EndsForAReason' /\ KindsOK'
      /\ eof => arrived' = Len(wire')
      /\ response # <<>>
  BY <1>1, <1>2, GetsTakes
<1>4. PICK q, lead, less \in Nat :
        /\ q + lead = Len(response) /\ less = lead - 1 /\ Lines(q, lead)
        /\ AsAnswered(wire[1], response[q + 1]) /\ Stream(less)'
  BY <1>1, <1>2, NextLine
<1> DEFINE p == q + 1
<1>5. p = q + 1
  OBVIOUS
<1>6. p \in 1..Len(response)
  BY <1>4, Facts
<1>7. AsAnswered(wire[1], response[p])
  BY <1>4
<1> HIDE DEF p
<1>8. wire[1] = response[p] \/ (eof /\ wire[1] \in Torn(response[p]))
  BY <1>7 DEF AsAnswered
<1>9. response[1] = SWITCHING_PROTOCOLS
  BY <1>3, <1>4 DEF Lines
<1>10. response[p] # EMPTY
  BY <1>1, <1>8, LinesAre
<1>11. CASE wire[1] \in {NO_FIELD, UNSPACED_FIELD}
  <2>1. phase' = "failed"
    BY <1>1, <1>11
  <2>2. ASSUME ~eof PROVE ~Passes(response)
    <3>1. response[p] \in {NO_FIELD, UNSPACED_FIELD}
      BY <1>8, <1>11, <2>2
    <3> QED
      BY <1>6, <3>1, PassesAre DEF IInv, Context
  <2> QED
    BY <1>3, <2>1, <2>2, Raises
<1>12. CASE wire[1] \notin {NO_FIELD, UNSPACED_FIELD}
  <2>1. phase' = "fields"
    BY <1>1, <1>3, <1>12
  <2>2. /\ upgrade' = FieldOf(upgrade, response[p], UPGRADE_WEBSOCKET, UPGRADE_OTHER) \/ eof
        /\ connection' = FieldOf(connection, response[p], CONNECTION_UPGRADE, CONNECTION_OTHER) \/ eof
        /\ response[p] \notin {NO_FIELD, UNSPACED_FIELD} \/ eof
    BY <1>1, <1>8, <1>12
  <2> QED
    BY <1>1, <1>2, <1>4, <1>5, <1>9, <1>10, <2>1, <2>2, NextField
<1> QED
  BY <1>11, <1>12

(* It reads the empty line: initialize decides by the last field of each   *)
(* name in the answer.                                                     *)
LEMMA HeaderEndsKeeps == ASSUME IInv, HeaderEnds PROVE IInv'
<1>1. Gets("fields") /\ wire[1] = EMPTY /\ phase' = Checked
  BY DEF HeaderEnds
<1>2. "fields" \in {"status", "fields"}
  OBVIOUS
<1>3. /\ Apart /\ eof' = eof /\ response' = response /\ phase = "fields"
      /\ Len(wire) >= 1 /\ Len(wire') = Len(wire) - 1
      /\ \A i \in 1..Len(wire') : wire'[i] = wire[i + 1]
      /\ TypeOK' /\ TextsAreReceived' /\ EndsForAReason' /\ KindsOK'
      /\ eof => arrived' = Len(wire')
      /\ response # <<>>
  BY <1>1, <1>2, GetsTakes
<1>4. PICK q, lead, less \in Nat :
        /\ q + lead = Len(response) /\ less = lead - 1 /\ Lines(q, lead)
        /\ AsAnswered(wire[1], response[q + 1]) /\ Stream(less)'
  BY <1>1, <1>2, NextLine
<1> DEFINE p == q + 1
<1>5. p = q + 1 /\ q > 0
  BY <1>3, <1>4 DEF Lines
<1>6. p \in 1..Len(response)
  BY <1>4, Facts
<1>7. AsAnswered(wire[1], response[p])
  BY <1>4
<1> HIDE DEF p
<1>8. response[p] = EMPTY
  BY <1>1, <1>7, LinesAre DEF AsAnswered
<1>9. p = Len(response) /\ less = 0 /\ lead = 1
  <2>1. p = Len(response)
    BY <1>6, <1>8, Facts
  <2> QED
    BY <1>4, <1>5, <2>1
<1>10. Stream(0)'
  BY <1>4, <1>9
<1>11. NoLines'
  <2>1. ASSUME NEW i \in 1..Len(wire') PROVE wire'[i] \notin Line
    <3> DEFINE j == i + 1
    <3>1. Len(wire) \in Nat
      BY Facts
    <3>2. i \in Nat /\ i >= 1 /\ i <= Len(wire) - 1
      BY <1>3, <3>1
    <3>3. j \in 1..Len(wire) /\ j > 1
      BY <3>1, <3>2
    <3>4. wire'[i] = wire[j]
      BY <1>3
    <3> HIDE DEF j
    <3>5. wire[j] \notin Line
      BY <1>4, <1>9, <3>3 DEF Lines
    <3> QED
      BY <3>4, <3>5
  <2> QED
    BY <2>1 DEF NoLines
<1>12. response[1] = SWITCHING_PROTOCOLS
  BY <1>3, <1>4 DEF Lines
<1>13. ASSUME ~eof
       PROVE  Passes(response) <=> (upgrade = "good" /\ connection = "good")
  <2>1. /\ FieldRead(upgrade, q, UPGRADE_WEBSOCKET, UPGRADE_OTHER)
        /\ FieldRead(connection, q, CONNECTION_UPGRADE, CONNECTION_OTHER)
        /\ \A i \in 1..q : response[i] \notin {NO_FIELD, UNSPACED_FIELD}
    BY <1>4, <1>13 DEF Lines
  <2>2. /\ EMPTY \notin {UPGRADE_WEBSOCKET, UPGRADE_OTHER, CONNECTION_UPGRADE, CONNECTION_OTHER}
        /\ UPGRADE_WEBSOCKET # UPGRADE_OTHER /\ CONNECTION_UPGRADE # CONNECTION_OTHER
        /\ EMPTY \notin {NO_FIELD, UNSPACED_FIELD}
    BY LinesAre
  <2>3. /\ FieldOf(upgrade, EMPTY, UPGRADE_WEBSOCKET, UPGRADE_OTHER) = upgrade
        /\ FieldOf(connection, EMPTY, CONNECTION_UPGRADE, CONNECTION_OTHER) = connection
    BY <2>2 DEF FieldOf
  <2>4. FieldRead(upgrade, p, UPGRADE_WEBSOCKET, UPGRADE_OTHER)
    <3>1. FieldRead(FieldOf(upgrade, response[p], UPGRADE_WEBSOCKET, UPGRADE_OTHER), p,
                    UPGRADE_WEBSOCKET, UPGRADE_OTHER)
      BY <1>5, <2>1, <2>2, FieldIsRead
    <3> QED
      BY <1>8, <2>3, <3>1
  <2>5. FieldRead(connection, p, CONNECTION_UPGRADE, CONNECTION_OTHER)
    <3>1. FieldRead(FieldOf(connection, response[p], CONNECTION_UPGRADE, CONNECTION_OTHER), p,
                    CONNECTION_UPGRADE, CONNECTION_OTHER)
      BY <1>5, <2>1, <2>2, FieldIsRead
    <3> QED
      BY <1>8, <2>3, <3>1
  <2>6. upgrade = "good" <=> LastIsGood(response, UPGRADE_WEBSOCKET, UPGRADE_OTHER)
    BY <1>9, <2>4 DEF FieldRead, LastIsGood
  <2>7. connection = "good" <=> LastIsGood(response, CONNECTION_UPGRADE, CONNECTION_OTHER)
    BY <1>9, <2>5 DEF FieldRead, LastIsGood
  <2>8. \A i \in 1..Len(response) : response[i] \notin {NO_FIELD, UNSPACED_FIELD}
    <3>1. \A i \in 1..Len(response) : i = p \/ i \in 1..q
      BY <1>5, <1>9
    <3> QED
      BY <1>8, <2>1, <2>2, <3>1
  <2> QED
    BY <1>3, <1>8, <1>9, <1>12, <2>6, <2>7, <2>8, PassesAre DEF IInv, Context
<1>14. CASE upgrade = "good" /\ connection = "good"
  <2>1. phase' = "open"
    BY <1>1, <1>14 DEF Checked
  <2>2. Passes(response) \/ eof
    BY <1>13, <1>14
  <2> QED
    BY <1>3, <1>10, <1>11, <1>12, <2>1, <2>2, Returns
<1>15. CASE ~(upgrade = "good" /\ connection = "good")
  <2>1. phase' = "failed"
    BY <1>1, <1>15 DEF Checked
  <2>2. eof \/ (response # <<>> /\ ~Passes(response))
    BY <1>3, <1>13, <1>15
  <2> QED
    BY <1>3, <2>1, <2>2, Raises
<1> QED
  BY <1>14, <1>15

(* Nothing is left of the stream when gets returns nil. *)
LEMMA NilTakes ==
  ASSUME IInv, NEW place \in {"status", "fields"}, GetsNil(place)
  PROVE  /\ Apart /\ wire' = wire /\ arrived' = arrived /\ eof' = eof /\ response' = response
         /\ upgrade' = upgrade /\ connection' = connection
         /\ eof = TRUE /\ phase = place /\ Len(wire) = 0 /\ wire = <<>>
         /\ TypeOK' /\ TextsAreReceived' /\ EndsForAReason' /\ KindsOK'
         /\ eof => arrived' = Len(wire')
<1>1. /\ Apart /\ wire' = wire /\ arrived' = arrived /\ eof' = eof /\ response' = response
      /\ upgrade' = upgrade /\ connection' = connection
      /\ eof /\ phase = place /\ arrived = 0
  BY DEF GetsNil, Apart, vars, stream, header_fields
<1>2. eof = TRUE /\ wire \in Seq(Nat) /\ arrived \in 0..Len(wire)
  BY <1>1, Facts
<1>3. Len(wire) = 0 /\ arrived' = Len(wire')
  BY <1>1 DEF IInv, Context
<1>4. wire = <<>>
  BY <1>2, <1>3
<1>5. TypeOK' /\ TextsAreReceived' /\ EndsForAReason' /\ KindsOK'
  BY <1>1, <1>2, ApartKeeps
<1> QED
  BY <1>1, <1>2, <1>3, <1>4, <1>5

(* There is no status line.                                                *)
LEMMA NoStatusKeeps == ASSUME IInv, NoStatus PROVE IInv'
<1>1. GetsNil("status") /\ phase' = "failed" /\ "status" \in {"status", "fields"}
  BY DEF NoStatus
<1> QED
  BY <1>1, NilTakes, Raises

(* There is no empty line.                                                 *)
LEMMA HeaderIsCutKeeps == ASSUME IInv, HeaderIsCut PROVE IInv'
<1>1. GetsNil("fields") /\ phase' = Checked /\ "fields" \in {"status", "fields"}
  BY DEF HeaderIsCut
<1>2. /\ Apart /\ wire' = wire /\ arrived' = arrived /\ eof' = eof /\ response' = response
      /\ upgrade' = upgrade /\ connection' = connection
      /\ eof = TRUE /\ phase = "fields" /\ Len(wire) = 0 /\ wire = <<>>
      /\ TypeOK' /\ TextsAreReceived' /\ EndsForAReason' /\ KindsOK'
      /\ eof => arrived' = Len(wire')
  BY <1>1, NilTakes
<1>3. CASE phase' = "failed"
  BY <1>2, <1>3, Raises
<1>4. CASE phase' = "open"
  <2>1. PICK q, lead \in Nat : q + lead = Len(response) /\ Lines(q, lead) /\ Stream(lead)
    BY <1>2, Reading
  <2>2. pc = "header" /\ received = <<>> /\ response # <<>>
    BY <1>2, Reading
  <2>3. response[1] = SWITCHING_PROTOCOLS
    BY <1>2, <2>1 DEF Lines
  <2>4. Stream(0)
    <3>1. TypeOK
      BY DEF IInv
    <3> QED
      BY <1>2, <2>1, <2>2, <3>1, StreamIsCut
  <2>5. Stream(0)'
    <3>1. wire' = wire /\ eof' = eof /\ Apart
      BY <1>2
    <3>2. \A n \in Nat : Stream(n)' <=> Stream(n)
      BY <3>1 DEF Stream, Within, Apart
    <3> QED
      BY <2>4, <3>2
  <2>6. NoLines'
    BY <1>2 DEF NoLines
  <2> QED
    BY <1>2, <1>4, <2>2, <2>3, <2>5, <2>6, Returns
<1> QED
  BY <1>1, <1>3, <1>4 DEF Checked

(* receive reads from the stream.                                          *)
LEMMA ReceiveKeeps == ASSUME IInv, Receive PROVE IInv'
<1>1. /\ phase = "open" /\ Reader /\ response' = response /\ phase' = phase
      /\ upgrade' = upgrade /\ connection' = connection
  BY DEF Receive, handshake, header_fields
<1>2. ~Ended
  BY <1>1 DEF Ended, Reader, EndOfFile, ReadHeader, ReadLength, ReadMask, ReadPayload, Reads
<1>3. TypeOK /\ KindsOK /\ Step /\ NoLines
  BY <1>1, <1>2 DEF IInv, Context, Connected, Step
<1>4. Step'
  BY <1>1, <1>3, EndOfFileStep, ReadHeaderStep, ReadLengthStep, ReadMaskStep, ReadPayloadStep
     DEF Reader
<1>5. /\ server' = server /\ written' = written /\ eof' = eof
      /\ NoLines' /\ (eof' => arrived' = Len(wire'))
  <2>1. CASE EndOfFile
    <3>1. wire' = <<>> /\ arrived' = 0 /\ server' = server /\ written' = written /\ eof' = eof
      BY <2>1 DEF EndOfFile
    <3>2. Len(wire') = 0
      BY <3>1
    <3> QED
      BY <3>1, <3>2 DEF NoLines
  <2>2. CASE ~EndOfFile
    <3>1. PICK place, n : n \in Nat /\ Reads(place, n)
      <4>1. header.plength \in Nat
        <5>1. \A a \in 0..(Base8 - 1) : a \in Nat
          BY Bases
        <5>2. header.plength \in 0..(Base8 - 1)
          BY <1>3 DEF TypeOK
        <5> QED
          BY <5>1, <5>2
      <4>2. Missing("length") \in Nat
        BY DEF Missing
      <4>3. CASE ReadHeader
        <5>1. Reads("header", 2) /\ 2 \in Nat
          BY <4>3 DEF ReadHeader
        <5> QED
          BY <5>1
      <4>4. CASE ReadLength
        BY <4>2, <4>4 DEF ReadLength
      <4>5. CASE ReadMask
        <5>1. Reads("mask", 4) /\ 4 \in Nat
          BY <4>5 DEF ReadMask
        <5> QED
          BY <5>1
      <4>6. CASE ReadPayload
        BY <4>1, <4>6 DEF ReadPayload
      <4> QED
        BY <1>1, <2>2, <4>3, <4>4, <4>5, <4>6 DEF Reader
    <3>2. /\ n <= Len(wire) /\ server' = server /\ written' = written /\ eof' = eof
          /\ (eof => arrived = Len(wire)) => (eof' => arrived' = Len(wire'))
      BY <1>3, <3>1, ReadsBytes
    <3>3. wire \in Seq(Nat) /\ Len(wire) \in Nat /\ wire' = SubSeq(wire, n + 1, Len(wire))
      BY <3>1, Facts DEF Reads
    <3>4. Len(wire') = Len(wire) - n
      BY <3>1, <3>2, <3>3, Cut
    <3>5. \A i \in 1..(Len(wire) - n) : wire'[i] = wire[n + i]
      BY <3>1, <3>2, <3>3, Cut
    <3>6. ASSUME NEW i \in 1..Len(wire') PROVE wire'[i] \notin Line
      <4> DEFINE j == n + i
      <4>1. i \in 1..(Len(wire) - n) /\ j \in 1..Len(wire)
        <5>1. i \in 1..(Len(wire) - n)
          BY <3>4
        <5> QED
          BY <3>1, <3>3, <5>1
      <4>2. wire'[i] = wire[j]
        BY <3>5, <4>1
      <4> HIDE DEF j
      <4> QED
        BY <1>3, <4>1, <4>2 DEF NoLines
    <3>7. NoLines'
      BY <3>6 DEF NoLines
    <3> QED
      BY <3>2, <3>7 DEF IInv, Context
  <2> QED
    BY <2>1, <2>2
<1>6. TypeOK' /\ TextsAreReceived' /\ EndsForAReason'
  BY <1>4 DEF Step
<1>7. KindsOK'
  BY <1>3, <1>5 DEF KindsOK
<1>8. Context'
  BY <1>1, <1>5, <1>7 DEF IInv, Context
<1>9. Agreed'
  BY <1>1, <1>5 DEF IInv, Agreed
<1>10. Connected'
  BY <1>4, <1>5 DEF Connected, Step
<1>11. Shaking'
  BY <1>1 DEF Shaking
<1> QED
  BY <1>6, <1>8, <1>9, <1>10, <1>11 DEF IInv

(* A step that changes nothing. *)
LEMMA StutterKeeps == ASSUME IInv, UNCHANGED allvars PROVE IInv'
<1>1. /\ Apart /\ wire' = wire /\ arrived' = arrived /\ eof' = eof
      /\ response' = response /\ phase' = phase /\ upgrade' = upgrade /\ connection' = connection
  BY DEF allvars, vars, stream, handshake, header_fields, Apart
<1>2. TypeOK' /\ TextsAreReceived' /\ EndsForAReason' /\ KindsOK' /\ Ended' = Ended
  BY <1>1, Facts, ApartKeeps
<1>3. Context'
  BY <1>1, <1>2 DEF IInv, Context, Apart
<1>4. Agreed'
  BY <1>1 DEF IInv, Agreed, Apart
<1>5. \A lead \in Nat : Stream(lead)' <=> Stream(lead)
  BY <1>1 DEF Stream, Apart, Within
<1>6. Connected'
  BY <1>1, <1>2, <1>5 DEF IInv, Connected, NoLines
<1>7. \A q, lead \in Nat : Lines(q, lead) => Lines(q, lead)'
  BY <1>1 DEF Lines, AsAnswered, FieldRead, Apart
<1>8. Shaking'
  BY <1>1, <1>5, <1>7, ShakingGoesOn
<1> QED
  BY <1>2, <1>3, <1>4, <1>6, <1>8 DEF IInv

------------------------------------------------------------------------------
(* Every step keeps the invariant.                                         *)
LEMMA StepKeeps == ASSUME IInv, [HandshakeNext]_allvars PROVE IInv'
<1>1. CASE Respond
  BY <1>1, RespondKeeps
<1>2. CASE WriteFrame
  BY <1>2, WriteFrameKeeps
<1>3. CASE Arrive /\ UNCHANGED handshake
  BY <1>3, ArriveKeeps
<1>4. CASE End /\ UNCHANGED handshake
  BY <1>4, EndKeeps
<1>5. CASE EndInLine
  BY <1>5, EndInLineKeeps
<1>6. CASE Handshake
  BY <1>6, ReadStatusKeeps, NoStatusKeeps, ReadFieldKeeps, HeaderEndsKeeps, HeaderIsCutKeeps
     DEF Handshake
<1>7. CASE Receive
  BY <1>7, ReceiveKeeps
<1>8. CASE UNCHANGED allvars
  BY <1>8, StutterKeeps
<1> QED
  BY <1>1, <1>2, <1>3, <1>4, <1>5, <1>6, <1>7, <1>8 DEF HandshakeNext

(* What holds of a connection at every moment: its types, the texts        *)
(* received and the reason receive ended with; what initialize knows of    *)
(* the answer; and that the stream is the frames written.                  *)
THEOREM Invariance == HandshakeSpec => []IInv
BY InitEstablishes, StepKeeps, PTL DEF HandshakeSpec

(* The variables have their types: a length is never one the eight bytes   *)
(* of its field cannot hold, and what receive returns is a payload.        *)
THEOREM TypeCorrectness == HandshakeSpec => []TypeOK
<1>1. IInv => TypeOK
  BY DEF IInv
<1> QED
  BY <1>1, Invariance, PTL

(* receive returns the texts that were written, in order and whole: mask   *)
(* and length undo what encode and send_frame wrote, for every payload,    *)
(* however the stream is cut in pieces and wherever it ends.               *)
THEOREM Delivery == HandshakeSpec => []TextsAreReceived
<1>1. IInv => TextsAreReceived
  BY DEF IInv
<1> QED
  BY <1>1, Invariance, PTL

(* The loop around receive ends for the frame that is next, or with the    *)
(* stream: never for a byte taken from the middle of a frame.              *)
THEOREM Ending == HandshakeSpec => []EndsForAReason
<1>1. IInv => EndsForAReason
  BY DEF IInv
<1> QED
  BY <1>1, Invariance, PTL

(* Where what initialize makes of an answer and what the standards make of *)
(* it part.                                                                *)
LEMMA PassesOrAccepts ==
  ASSUME response \in Responses
  PROVE  /\ Passes(response) => Accepts(response) \/ Repeats(response, UpgradeFields)
         /\ Accepts(response) =>
              \/ Passes(response)
              \/ Repeats(response, ConnectionFields)
              \/ UNSPACED_FIELD \in ToSet(response)
<1>1. /\ response \in Seq(Line) /\ Len(response) \in Nat
      /\ DOMAIN response = 1..Len(response)
  BY Answers
<1>2. ASSUME Passes(response), ~Repeats(response, UpgradeFields) PROVE Accepts(response)
  <2>1. PICK i \in 1..Len(response) : response[i] = UPGRADE_WEBSOCKET
    BY <1>2 DEF Passes, LastIsGood
  <2>2. ASSUME NEW j \in 1..Len(response), j # i PROVE response[j] \notin UpgradeFields
    <3>1. response[i] \in UpgradeFields
      BY <2>1 DEF UpgradeFields
    <3>2. i < j \/ j < i
      BY <1>1, <2>2
    <3> QED
      BY <1>2, <3>1, <3>2 DEF Repeats
  <2>3. \E k \in 1..Len(response) : response[k] = CONNECTION_UPGRADE
    BY <1>2 DEF Passes, LastIsGood
  <2>4. Switched(response) /\ \A k \in 1..Len(response) : response[k] # NO_FIELD
    BY <1>2 DEF Passes
  <2> QED
    BY <2>1, <2>2, <2>3, <2>4 DEF Accepts
<1>3. ASSUME Accepts(response), ~Repeats(response, ConnectionFields),
             UNSPACED_FIELD \notin ToSet(response)
      PROVE  Passes(response)
  <2>1. \A k \in 1..Len(response) : response[k] # UNSPACED_FIELD
    BY <1>1, <1>3 DEF ToSet
  <2>2. Switched(response) /\ \A k \in 1..Len(response) : response[k] # NO_FIELD
    BY <1>3 DEF Accepts
  <2>3. LastIsGood(response, UPGRADE_WEBSOCKET, UPGRADE_OTHER)
    <3>1. PICK i \in 1..Len(response) :
            /\ response[i] = UPGRADE_WEBSOCKET
            /\ \A j \in 1..Len(response) : j # i => response[j] \notin UpgradeFields
      BY <1>3 DEF Accepts
    <3>2. ASSUME NEW j \in (i + 1)..Len(response) PROVE response[j] # UPGRADE_OTHER
      <4>1. j \in 1..Len(response) /\ j # i
        BY <1>1
      <4> QED
        BY <3>1, <4>1 DEF UpgradeFields
    <3> QED
      BY <3>1, <3>2 DEF LastIsGood
  <2>4. LastIsGood(response, CONNECTION_UPGRADE, CONNECTION_OTHER)
    <3>1. PICK i \in 1..Len(response) : response[i] = CONNECTION_UPGRADE
      BY <1>3 DEF Accepts
    <3>2. ASSUME NEW j \in (i + 1)..Len(response) PROVE response[j] # CONNECTION_OTHER
      <4>1. j \in 1..Len(response) /\ i < j
        BY <1>1
      <4>2. response[i] \in ConnectionFields
        BY <3>1 DEF ConnectionFields
      <4>3. response[j] \notin ConnectionFields
        BY <1>3, <4>1, <4>2 DEF Repeats
      <4> QED
        BY <4>3 DEF ConnectionFields
    <3> QED
      BY <3>1, <3>2 DEF LastIsGood
  <2> QED
    BY <2>1, <2>2, <2>3, <2>4 DEF Passes
<1> QED
  BY <1>2, <1>3

(* For every answer a server may give and wherever the stream ends:        *)
(* initialize returns for the answers that make a connection by RFC 6455   *)
(* and RFC 7230, and raises for the others, but for repeated fields and for*)
(* one without a space, which web_socket.rb:263-267 read in their own way. *)
THEOREM SameConnection == HandshakeSpec => []Agreement
<1>1. ASSUME IInv PROVE Agreement
  <2>1. response # <<>> => response \in Responses
    BY <1>1 DEF IInv, Context
  <2>2. Agreed
    BY <1>1 DEF IInv
  <2> QED
    BY <2>1, <2>2, PassesOrAccepts DEF Agreed, Agreement
<1> QED
  BY <1>1, Invariance, PTL

(* initialize takes the lines of the answer and no byte of a frame.        *)
THEOREM LineDiscipline == HandshakeSpec => []LinesThenFrames
<1>1. ASSUME IInv PROVE LinesThenFrames
  <2>1. phase = "open" => \A i \in 1..Len(wire) : wire[i] \notin Line
    BY <1>1 DEF IInv, Connected, NoLines
  <2>2. ASSUME ~server, phase \in {"status", "fields"}, wire # <<>>
        PROVE  Head(wire) \in Line
    <3>1. wire \in Seq(Nat) /\ Len(wire) \in Nat /\ Len(wire) >= 1
      BY <1>1, <2>2, Facts, EmptySeq
    <3>2. PICK q, lead \in Nat : q + lead = Len(response) /\ Lines(q, lead)
      BY <1>1, <2>2, Reading
    <3>3. lead > 0
      BY <1>1, <2>2, <3>1, <3>2, LinesAreLeft
    <3>4. wire[1] \in Line
      <4>1. 1 \in 1..Len(wire) /\ 1 <= lead
        BY <3>1, <3>2, <3>3
      <4> QED
        BY <3>2, <4>1 DEF Lines, AsAnswered
    <3> QED
      BY <3>1, <3>4
  <2> QED
    BY <2>1, <2>2 DEF LinesThenFrames
<1> QED
  BY <1>1, Invariance, PTL
===============================================================================
