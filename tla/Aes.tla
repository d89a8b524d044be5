---------------------------------- MODULE Aes ----------------------------------
(***************************************************************************)
(* The block cipher of aes.c as it is built: the tables are generated, no  *)
(* hardware is used. A word, an unsigned long, is the tuple of its four    *)
(* bytes, the least significant first: as GET_ULONG_LE and PUT_ULONG_LE    *)
(* take it from memory and put it back.                                    *)
(***************************************************************************)
EXTENDS Naturals, Sequences, SequencesExt, Iteration

Byte == 0..255
Word == [1..4 -> Byte]
Block == [1..4 -> Word]

(* A word of its bytes, a block of its words. *)
Four(item(_)) == <<item(1), item(2), item(3), item(4)>>

(* `^', of four bits by their sum modulo two, then of both halves.         *)
XorBit(a, b, bit) == bit * (((a \div bit) + (b \div bit)) % 2)
XorHalf == [a \in 0..15 |-> [b \in 0..15 |->
              XorBit(a, b, 1) + XorBit(a, b, 2) + XorBit(a, b, 4) + XorBit(a, b, 8)]]
Xor(a, b) == (16 * XorHalf[a \div 16][b \div 16]) + XorHalf[a % 16][b % 16]

XorWord(v, w) == Four(LAMBDA j : Xor(v[j], w[j]))
XorBlock(x, y) == Four(LAMBDA i : XorWord(x[i], y[i]))
XorFour(words) == XorWord(XorWord(words[1], words[2]), XorWord(words[3], words[4]))

------------------------------------------------------------------------------
(* aes_gen_tables *)

RotateBits(x) == ((2 * x) % 256) + (x \div 128)
XTIME(x) == Xor((2 * x) % 256, IF x >= 128 THEN 27 ELSE 0)

Times3 == [x \in Byte |-> Xor(x, XTIME(x))]
(* i rounds of the loop on x, by halves: the recursion stays shallow. *)
Rounds[i \in Byte] ==
  IF i = 0 THEN [x \in Byte |-> x]
           ELSE LET half == Rounds[i \div 2]
                IN  [x \in Byte |-> IF i % 2 = 0 THEN half[half[x]]
                                                 ELSE Times3[half[half[x]]]]
pow == [i \in Byte |-> Rounds[i][1]]

(* A later entry overwrites an earlier one: log[1] is 255. log[0] is never *)
(* written, nor read.                                                      *)
log == [x \in 1..255 |-> CHOOSE i \in 1..255 : pow[i] = x]

MUL(x, y) == IF x # 0 /\ y # 0 THEN pow[(log[x] + log[y]) % 255] ELSE 0

RCON[i \in 1..10] == IF i = 1 THEN 1 ELSE XTIME(RCON[i - 1])

Inverted(x) == IF x = 0 THEN 0 ELSE pow[255 - log[x]]
(* x, rotated four times over, and 0x63. *)
Spread(x) ==
  LET y == RotateBits(x)
      z == RotateBits(y)
      t == RotateBits(z)
  IN  Xor(Xor(Xor(x, y), Xor(z, t)), Xor(RotateBits(t), 99))

FSb == [i \in Byte |-> Spread(Inverted(i))]
RSb == [x \in Byte |-> CHOOSE i \in Byte : FSb[i] = x]

(* FT1 to FT3 are FT0 with the bytes of each entry moved up by ROTL8 once, *)
(* twice, three times, RT1 to RT3 are RT0.                                 *)
Rotated(table) ==
  [k \in 1..4 |->
     [x \in Byte |-> Four(LAMBDA j : table[x][((j + 4 - k) % 4) + 1])]]

FT0 == [i \in Byte |->
          LET x == FSb[i] IN <<XTIME(x), x, x, Xor(XTIME(x), x)>>]
RT0 == [i \in Byte |->
          LET x == RSb[i]
          IN  <<MUL(14, x), MUL(9, x), MUL(13, x), MUL(11, x)>>]
FT == Rotated(FT0)
RT == Rotated(RT0)

------------------------------------------------------------------------------
(* Key schedules. A key is a sequence of 4, 6 or 8 words; a context holds  *)
(* nr and the round keys in rk[1 .. 4 * (nr + 1)], and maybe more.         *)

Subst(table, w) == Four(LAMBDA j : table[w[j]])
(* RK[3] >> 8 first: the word is rotated, then substituted. *)
Core(w, rcon) ==
  XorWord(Subst(FSb, <<w[2], w[3], w[4], w[1]>>), <<rcon, 0, 0, 0>>)

(* Word j of round i of the loop: from the one nk words before it and the  *)
(* last one, which goes through Core or FSb first in some places. The slip *)
(* forgets that 256 bits have one more such place.                         *)
Mixed128(w, nk, i, j) == IF j = 1 THEN Core(w, RCON[i]) ELSE w
Mixed(w, nk, i, j) == CASE j = 1 -> Core(w, RCON[i])
                        [] j = 5 /\ nk = 8 -> Subst(FSb, w)
                        [] OTHER -> w
Extend(nk, i, j) ==
  [rk \in Seq(Word) |->
     Append(rk, XorWord(rk[Len(rk) + 1 - nk], Mixed(Last(rk), nk, i, j)))]
Expand(nk, i) ==
  [rk \in Seq(Word) |-> Loop([j \in 1..nk |-> Extend(nk, i, j)], rk, nk)]

Loops(nk) == CASE nk = 4 -> 10 [] nk = 6 -> 8 [] nk = 8 -> 7
aes_setkey_enc(key) ==
  [nr |-> Len(key) + 6,
   rk |-> Loop([i \in 1..Loops(Len(key)) |-> Expand(Len(key), i)],
               key, Loops(Len(key)))]

(* A word through four tables, its bytes first through FSb. *)
Through == [w \in Word |-> XorFour(Four(LAMBDA j : RT[j][FSb[w[j]]]))]

(* The four words of the key from *RK on. *)
RoundKey(ctx, r) == [i \in 1..4 |-> ctx.rk[(4 * r) + i]]

(* The round keys in reverse, those of the inner rounds taken through the  *)
(* tables of a decryption round; the slip leaves that out.                 *)
InReverse(cty, inner) ==
  LET RK(r) == IF r \in 1..(cty.nr - 1)
                 THEN [i \in 1..4 |-> inner[RoundKey(cty, r)[i]]]
                 ELSE RoundKey(cty, r)
  IN  [nr |-> cty.nr,
       rk |-> [k \in 1..(4 * (cty.nr + 1)) |->
                 RK(cty.nr - ((k - 1) \div 4))[((k - 1) % 4) + 1]]]
aes_setkey_dec_untouched(key) == InReverse(aes_setkey_enc(key), [w \in Word |-> w])
aes_setkey_dec(key) == InReverse(aes_setkey_enc(key), Through)

------------------------------------------------------------------------------
(* aes_crypt_ecb *)

ENCRYPT == 1
DECRYPT == 0

(* Byte j of X0 .. X3 is taken from Y0 .. Y3 by going up, or down, j words.*)
From(mode, i, j) == IF mode = ENCRYPT THEN ((i + j - 2) % 4) + 1
                                      ELSE ((i + 4 - j) % 4) + 1

(* AES_FROUND, AES_RROUND and what follows them, as functions on blocks. *)
TableRound(ctx, mode, r) ==
  LET T == IF mode = ENCRYPT THEN FT ELSE RT
      Sum(y, i) == XorFour(Four(LAMBDA j : T[j][y[From(mode, i, j)][j]]))
  IN  [y \in Block |-> XorBlock(RoundKey(ctx, r), Four(LAMBDA i : Sum(y, i)))]

LastRound(ctx, mode) ==
  LET S == IF mode = ENCRYPT THEN FSb ELSE RSb
      Bytes(y, i) == Four(LAMBDA j : S[y[From(mode, i, j)][j]])
  IN  [y \in Block |-> XorBlock(RoundKey(ctx, ctx.nr), Four(LAMBDA i : Bytes(y, i)))]

(* Two rounds in each iteration, and one more. *)
TableRounds(ctx) == (2 * ((ctx.nr \div 2) - 1)) + 1
aes_crypt_ecb(ctx, mode, input) ==
  LastRound(ctx, mode)[
    Loop([r \in 1..TableRounds(ctx) |-> TableRound(ctx, mode, r)],
         XorBlock(input, RoundKey(ctx, 0)), TableRounds(ctx))]

------------------------------------------------------------------------------
(* What of the tables decryption rests on, evaluated for every byte: RSb   *)
(* undoes FSb; a word taken through RT by way of FSb is linear, byte by    *)
(* byte, and gives from an entry of FT the byte it was made from.          *)
ASSUME TablesAssumption ==
  /\ \A x \in Byte : FSb[x] \in Byte /\ RSb[x] \in Byte /\ RSb[FSb[x]] = x
  /\ \A j \in 1..4, x \in Byte : FT[j][x] \in Word /\ RT[j][x] \in Word
  /\ \A j \in 1..4, x, y \in Byte :
       RT[j][FSb[Xor(x, y)]] = XorWord(RT[j][FSb[x]], RT[j][FSb[y]])
  /\ \A j \in 1..4, x \in Byte :
       Through[FT[j][x]] = [i \in 1..4 |-> IF i = j THEN FSb[x] ELSE 0]
  /\ \A i \in 1..10 : RCON[i] \in Byte
================================================================================
