------------------------ MODULE MCSensocolWebSocket ------------------------
(* Instances of SensocolWebSocket for TLC.                                 *)
EXTENDS SensocolWebSocket, TLC

(* A digest without collisions: the schema itself. *)
InjectiveDigest(s) == s

(* Feature names are interchangeable. *)
FeatureSymmetry == Permutations(Feature)
=============================================================================
