------------------------------- MODULE MCAesCbc -------------------------------
(***************************************************************************)
(* AesCbc with keys of each length, one of an illegal length, and the      *)
(* blocks and keys of the examples of FIPS 197.                            *)
(***************************************************************************)
EXTENDS AesCbc

(* 00 01 02 .. and 00 11 22 .. ff *)
Counting(n) == [i \in 1..n |-> Four(LAMBDA j : (4 * i) + j - 5)]
Elevens == Four(LAMBDA i : Four(LAMBDA j : 17 * ((4 * i) + j - 5)))
Zeros == Four(LAMBDA i : Four(LAMBDA j : 0))

MCKeys == {Counting(n) : n \in 4..6} \cup {Counting(8), Zeros}
MCPlaintexts == UNION {[1..n -> {Elevens, Zeros}] : n \in 0..3}
MCHeaders == {<<Counting(2)[1], Counting(2)[2]>>, <<Zeros[1], Zeros[1]>>}
==============================================================================
