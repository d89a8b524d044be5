-------------------------------- MODULE Fips197 --------------------------------
(***************************************************************************)
(* The cipher of FIPS 197, as the standard defines it: the reference for   *)
(* aes.c. The state is a list of columns of bytes; a byte is a polynomial  *)
(* over GF(2), Poly gives its exponents.                                   *)
(***************************************************************************)
EXTENDS Integers, Sequences, SequencesExt, FiniteSets, FiniteSetsExt, Iteration

Bytes == 0..255
Column(item(_)) == <<item(1), item(2), item(3), item(4)>>
Columns(item(_, _)) == Column(LAMBDA c : Column(LAMBDA j : item(c, j)))

Poly == [a \in Bytes |-> {k \in 0..7 : (a \div 2^k) % 2 = 1}]
ByteOf(p) == SumSet({2^k : k \in p})

Add(p, q) == (p \ q) \cup (q \ p)
Plus(a, b) == ByteOf(Add(Poly[a], Poly[b]))

(* 4.2: the remainder modulo x^8 + x^4 + x^3 + x + 1. *)
Odd(set) == Cardinality(set) % 2 = 1
Times(a, b) ==
  LET product == {d \in 0..14 : Odd({k \in Poly[a] : d - k \in Poly[b]})}
      Reduce(p, e) == IF e \in p THEN Add(p, {e - 8, e - 7, e - 5, e - 4, e}) ELSE p
  IN  ByteOf(FoldLeft(Reduce, product, <<14, 13, 12, 11, 10, 9, 8>>))

(* 5.1.1: the inverse, then an affine map. *)
Sbox ==
  [a \in Bytes |->
     LET inverse == IF a = 0 THEN 0 ELSE CHOOSE b \in Bytes : Times(a, b) = 1
         taken(i) == {k \in {0, 4, 5, 6, 7} : (i + k) % 8 \in Poly[inverse]}
     IN  Plus(ByteOf({i \in 0..7 : Odd(taken(i))}), 99)]
SubBytes(s) == Columns(LAMBDA c, j : Sbox[s[c][j]])

(* 5.1.2: row j is shifted by j - 1. *)
ShiftRows(s) == Columns(LAMBDA c, j : s[((c + j - 2) % 4) + 1][j])

(* 5.1.3: columns are multiplied by a fixed polynomial.                    *)
Coefficient == <<2, 3, 1, 1>>
Multiple == [f \in 1..3 |-> [a \in Bytes |-> Times(f, a)]]
MixColumns(s) ==
  LET term(c, j, k) == Multiple[Coefficient[((k + 4 - j) % 4) + 1]][s[c][k]]
  IN  Columns(LAMBDA c, j : Plus(Plus(term(c, j, 1), term(c, j, 2)),
                                 Plus(term(c, j, 3), term(c, j, 4))))

(* 5.1.4 *)
AddRoundKey(s, w, round) ==
  Columns(LAMBDA c, j : Plus(s[c][j], w[(4 * round) + c][j]))

(* 5.2 *)
SubWord(t) == Column(LAMBDA j : Sbox[t[j]])
RotWord(t) == <<t[2], t[3], t[4], t[1]>>
Rcon == <<1, 2, 4, 8, 16, 32, 64, 128, 27, 54>>
KeyWords == Seq([1..4 -> Bytes])
(* Word i of the standard, which counts from 0, is w[i + 1]. *)
KeyExpansion(key) ==
  LET Nk == Len(key)
      Temp(t, i) ==
        CASE i % Nk = 0 -> LET u == SubWord(RotWord(t))
                           IN  <<Plus(u[1], Rcon[i \div Nk]), u[2], u[3], u[4]>>
          [] i % Nk = 4 /\ Nk > 6 -> SubWord(t)
          [] OTHER -> t
      Sum(t, u) == Column(LAMBDA j : Plus(t[j], u[j]))
      Word(i) == [w \in KeyWords |-> Append(w, Sum(w[i + 1 - Nk], Temp(w[i], i)))]
      New == (3 * Nk) + 28
  IN  Loop([n \in 1..New |-> Word(Nk + n - 1)], key, New)

(* 5.1 *)
State == [1..4 -> [1..4 -> Bytes]]
Cipher(key, input) ==
  LET Nr == Len(key) + 6
      w == KeyExpansion(key)
      Round(r) == [s \in State |-> AddRoundKey(MixColumns(ShiftRows(SubBytes(s))), w, r)]
      Final == [s \in State |-> AddRoundKey(ShiftRows(SubBytes(s)), w, Nr)]
  IN  Final[Loop([r \in 1..(Nr - 1) |-> Round(r)], AddRoundKey(input, w, 0), Nr - 1)]
================================================================================
