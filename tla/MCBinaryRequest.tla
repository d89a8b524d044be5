---------------------------- MODULE MCBinaryRequest ----------------------------
(* Instances of BinaryRequest for TLC.                                     *)
EXTENDS BinaryRequest

CONSTANTS d1, d2, d3, s1, s2

(* A digest without collisions: the schema itself. *)
InjectiveDigest(s) == s

(* Two devices with the same firmware, and one with another. *)
TwoSchemas == [d \in Device |-> IF d = d3 THEN s2 ELSE s1]
================================================================================
