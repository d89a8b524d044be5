------------------------------- MODULE Iteration -------------------------------
(***************************************************************************)
(* A loop that counts from 1 to n.                                         *)
(***************************************************************************)
EXTENDS Naturals

(* What it makes of x by the functions step[1] to step[n], in turn.        *)
Loop(step, x, n) ==
  LET y[r \in 0..n] == IF r = 0 THEN x ELSE step[r][y[r - 1]]
  IN  y[n]
================================================================================
