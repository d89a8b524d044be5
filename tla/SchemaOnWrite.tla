---------------------------- MODULE SchemaOnWrite ----------------------------
(***************************************************************************)
(* What Sensocol promises ("schema-on-write"): a client posts packets, and *)
(* the server, which has no schema in advance, decodes a posted packet     *)
(* with the very schema the packet was encoded by, or not at all.          *)
(* How the schema travels (hash, request, response) is not visible here.   *)
(***************************************************************************)

VARIABLES
  posted,  (* the packets posted; the field body is the schema encoded by   *)
  decoded  (* records [packet, schema]: what was decoded, and with which    *)

vars == <<posted, decoded>>

Init ==
  /\ posted = {}
  /\ decoded = {}

(* A packet with an identity of its own is posted. *)
Post ==
  /\ \E p \in posted' : posted' = posted \cup {p} /\ p \notin posted
  /\ \A p, q \in posted' : p.id = q.id => p = q
  /\ UNCHANGED decoded

(* Some posted packets are decoded, each with its own schema: one response *)
(* of the client may release several packets at once.                      *)
Decode ==
  /\ UNCHANGED posted
  /\ \E ps \in SUBSET posted :
       decoded' = decoded \cup {[packet |-> p, schema |-> p.body] : p \in ps}

(* Packets not yet decoded are lost with the connection. *)
Lose ==
  /\ posted' \in SUBSET posted
  /\ {d.packet : d \in decoded} \subseteq posted'
  /\ UNCHANGED decoded

Next == Post \/ Decode \/ Lose

Spec == Init /\ [][Next]_vars
==============================================================================
