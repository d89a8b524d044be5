----------------------------- MODULE BinaryRequest -----------------------------
(***************************************************************************)
(* The C client, main.c: a device posts a reading over a TCP connection of *)
(* its own, sends the schema if the server asks for it, and exits. It runs *)
(* again for the next reading. Several devices, with schemas of their own  *)
(* or the same one, use the server at the same time.                       *)
(*                                                                         *)
(* A server that is left with a part of a frame waits for the rest, so the *)
(* part is no frame here. The server is not part of the repository: it     *)
(* follows the dialogue of the top-level README.                           *)
(***************************************************************************)
EXTENDS Naturals, Sequences, Functions

CONSTANTS
  Device,       (* the devices                                              *)
  Schema,       (* the JSON documents                                       *)
  SchemaOf,     (* the schema of the readings of a device                   *)
  Digest4(_),   (* first four bytes of the MD5 of a schema                  *)
  NoSchema,     (* no schema is known                                       *)
  MaxRuns,      (* bound: readings of one device                            *)
  MayRefuse,    (* whether the server may answer with an error              *)
  MayBreak      (* whether a connection may break                           *)

ASSUME RequestAssumption ==
  /\ SchemaOf \in [Device -> Schema]
  /\ NoSchema \notin Schema
  /\ MaxRuns \in Nat
  /\ MayRefuse \in BOOLEAN /\ MayBreak \in BOOLEAN

Hash == {Digest4(s) : s \in Schema}
Packet == [kind : {"post"}, id : Device \X (1..MaxRuns), hash : Hash,
           body : Schema]
SchemaResponse == [kind : {"schema"}, schema : Schema]
Error == {"auth_error", "schema_error", "data_error"}
Outcome == {"sent", "auth_error", "unknown", "unreported", "died"}

VARIABLES
  pc,        (* where main of a device is; "exited" between two runs        *)
  run,       (* the reading of a device                                     *)
  results,   (* how each run ended                                          *)
  link,      (* the connection: "none", "open", "closed" by the server,     *)
             (* "broken"                                                    *)
  toServer,  (* the frames on it                                            *)
  toClient,  (* the response bytes on it                                    *)
  waiting,   (* the packets for whose schema the server waits on it         *)
  known,     (* the schemas the server knows, by hash                       *)
  decoded    (* packets decoded, each with the schema used                  *)

wire == <<link, toServer, toClient>>
vars == <<pc, run, results, wire, waiting, known, decoded>>

TypeOK ==
  /\ pc \in [Device -> {"exited", "connected", "posted", "requested",
                        "schema_sent"}]
  /\ run \in [Device -> 0..MaxRuns]
  /\ results \subseteq [id : Device \X (1..MaxRuns), outcome : Outcome]
  /\ link \in [Device -> {"none", "open", "closed", "broken"}]
  /\ toServer \in [Device -> Seq(Packet \cup SchemaResponse)]
  /\ toClient \in [Device -> Seq(Error \cup {"ok", "request_schema"})]
  /\ waiting \in [Device -> SUBSET Packet]
  /\ known \in [Hash -> Schema \cup {NoSchema}]
  /\ decoded \subseteq [packet : Packet, schema : Schema]

Init ==
  /\ pc = [d \in Device |-> "exited"]
  /\ run = [d \in Device |-> 0]
  /\ results = {}
  /\ link = [d \in Device |-> "none"]
  /\ toServer = [d \in Device |-> <<>>]
  /\ toClient = [d \in Device |-> <<>>]
  /\ waiting = [d \in Device |-> {}]
  /\ known = [h \in Hash |-> NoSchema]
  /\ decoded = {}

------------------------------------------------------------------------------
(* The client. Whatever is left on a connection is lost when main exits.   *)

Goto(d, place) == pc' = [pc EXCEPT ![d] = place]

Exit(d, outcome) ==
  /\ Goto(d, "exited")
  /\ results' = results \cup {[id |-> <<d, run[d]>>, outcome |-> outcome]}
  /\ link' = [link EXCEPT ![d] = "none"]
  /\ toServer' = [toServer EXCEPT ![d] = <<>>]
  /\ toClient' = [toClient EXCEPT ![d] = <<>>]
  /\ waiting' = [waiting EXCEPT ![d] = {}]
  /\ UNCHANGED <<run, known, decoded>>

(* The packet and its schema are built, the socket connects. *)
Connect(d) ==
  /\ pc[d] = "exited"
  /\ run[d] < MaxRuns
  /\ run' = [run EXCEPT ![d] = @ + 1]
  /\ link' = [link EXCEPT ![d] = "open"]
  /\ Goto(d, "connected")
  /\ UNCHANGED <<results, toServer, toClient, waiting, known, decoded>>

Send(d, frame) ==
  /\ link[d] \in {"open", "closed"}
  /\ toServer' = [toServer EXCEPT ![d] = Append(@, frame)]

SendPost(d) ==
  /\ pc[d] = "connected"
  /\ Send(d, [kind |-> "post", id |-> <<d, run[d]>>,
              hash |-> Digest4(SchemaOf[d]), body |-> SchemaOf[d]])
  /\ Goto(d, "posted")
  /\ UNCHANGED <<run, results, link, toClient, waiting, known, decoded>>

(* send writes fewer bytes than it was given, or none: main dies, and the  *)
(* connection ends inside the frame. The slip does not look at what send   *)
(* returns.                                                                *)
SendFailsUnnoticed(d) ==
  /\ pc[d] \in {"connected", "requested"}
  /\ Goto(d, IF pc[d] = "connected" THEN "posted" ELSE "schema_sent")
  /\ UNCHANGED <<run, results, wire, waiting, known, decoded>>
SendFails(d) ==
  /\ pc[d] \in {"connected", "requested"}
  /\ Exit(d, "died")

(* recv fails, or finds the connection closed with nothing left to read.   *)
RecvFails(d) ==
  /\ pc[d] \in {"posted", "schema_sent"}
  /\ link[d] \in {"closed", "broken"} /\ toClient[d] = <<>>
  /\ Exit(d, "died")

(* RecvBytes(sock, recvBuffer, 1) has a byte; the slip waits for two.      *)
Response(d) == Head(toClient[d])
HasTwoBytes(d, place) == pc[d] = place /\ Len(toClient[d]) >= 2
HasResponse(d, place) == pc[d] = place /\ toClient[d] # <<>>

(* The outer switch; the slip falls through to "Data Sent Successfully".   *)
OutcomeFellThrough(response) ==
  CASE response = "ok" -> "sent"
    [] response = "auth_error" -> "sent"
    [] OTHER -> "unknown"
OutcomeOfPost(response) ==
  CASE response = "ok" -> "sent"
    [] response = "auth_error" -> "auth_error"
    [] OTHER -> "unknown"

ReceivePostResponse(d) ==
  /\ HasResponse(d, "posted")
  /\ Response(d) # "request_schema"
  /\ Exit(d, OutcomeOfPost(Response(d)))

ReceiveSchemaRequest(d) ==
  /\ HasResponse(d, "posted")
  /\ Response(d) = "request_schema"
  /\ Goto(d, "requested")
  /\ toClient' = [toClient EXCEPT ![d] = Tail(@)]
  /\ UNCHANGED <<run, results, link, toServer, waiting, known, decoded>>

(* sensocol_schema_generate_response, from the schema of this very packet; *)
(* the slip sends a document that is hard-coded.                           *)
HardCodedDocument(d) == CHOOSE s \in Schema : TRUE
Document(d) == SchemaOf[d]

SendSchema(d) ==
  /\ pc[d] = "requested"
  /\ Send(d, [kind |-> "schema", schema |-> Document(d)])
  /\ Goto(d, "schema_sent")
  /\ UNCHANGED <<run, results, link, toClient, waiting, known, decoded>>

(* The inner switch has no case for the other responses, and no default:   *)
(* main goes on to exit(0) and reports nothing. The slip takes the errors  *)
(* for outcomes of their own.                                              *)
OutcomeAsReceived(response) == IF response = "ok" THEN "sent" ELSE response
OutcomeOfSchema(response) ==
  CASE response = "ok" -> "sent"
    [] response \in {"schema_error", "data_error"} -> "died"
    [] OTHER -> "unreported"

ReceiveSchemaResponse(d) ==
  /\ HasResponse(d, "schema_sent")
  /\ Exit(d, OutcomeOfSchema(Response(d)))

------------------------------------------------------------------------------
(* The server, and the network.                                            *)

Reads(d, kind) ==
  /\ link[d] = "open"
  /\ toServer[d] # <<>> /\ Head(toServer[d]).kind = kind

(* The server reads a frame and responds with a byte; if it has nothing to *)
(* ask it closes the connection.                                           *)
Respond(d, response) ==
  /\ toServer' = [toServer EXCEPT ![d] = Tail(@)]
  /\ toClient' = [toClient EXCEPT ![d] = Append(@, response)]
  /\ link' = IF response = "request_schema" THEN link
                                            ELSE [link EXCEPT ![d] = "closed"]
  /\ UNCHANGED <<pc, run, results>>

DecodePost(d) ==
  /\ Reads(d, "post")
  /\ LET p == Head(toServer[d])
     IN  IF known[p.hash] # NoSchema
           THEN /\ decoded' = decoded \cup {[packet |-> p, schema |-> known[p.hash]]}
                /\ Respond(d, "ok")
                /\ UNCHANGED <<waiting, known>>
           ELSE /\ waiting' = [waiting EXCEPT ![d] = {p}]
                /\ Respond(d, "request_schema")
                /\ UNCHANGED <<known, decoded>>

LearnSchema(d) ==
  /\ Reads(d, "schema")
  /\ LET s == Head(toServer[d]).schema
     IN  /\ known' = [h \in Hash |-> IF \E p \in waiting[d] : p.hash = h
                                       THEN s ELSE known[h]]
         /\ decoded' = decoded \cup {[packet |-> p, schema |-> s] : p \in waiting[d]}
  /\ waiting' = [waiting EXCEPT ![d] = {}]
  /\ Respond(d, "ok")

(* The access key, the schema or the data are not to the server's liking.  *)
Refuse(d) ==
  /\ MayRefuse
  /\ Reads(d, "post") \/ Reads(d, "schema")
  /\ \E e \in Error : Respond(d, e)
  /\ waiting' = [waiting EXCEPT ![d] = {}]
  /\ UNCHANGED <<known, decoded>>

(* The connection breaks, or is refused in the first place. *)
Break(d) ==
  /\ MayBreak
  /\ link[d] = "open"
  /\ link' = [link EXCEPT ![d] = "broken"]
  /\ toServer' = [toServer EXCEPT ![d] = <<>>]
  /\ \/ UNCHANGED toClient
     \/ toClient' = [toClient EXCEPT ![d] = <<>>]
  /\ waiting' = [waiting EXCEPT ![d] = {}]
  /\ UNCHANGED <<pc, run, results, known, decoded>>

------------------------------------------------------------------------------
Client(d) ==
  \/ SendPost(d) \/ SendSchema(d) \/ SendFails(d)
  \/ ReceivePostResponse(d) \/ ReceiveSchemaRequest(d)
  \/ ReceiveSchemaResponse(d) \/ RecvFails(d)
Server(d) == DecodePost(d) \/ LearnSchema(d) \/ Refuse(d)

Next == \E d \in Device : Connect(d) \/ Client(d) \/ Server(d) \/ Break(d)

Spec == Init /\ [][Next]_vars

(* A program that runs goes on, and the server, which is not ours, answers *)
(* or closes: main.c sets no timeout of its own.                           *)
FairSpec ==
  Spec /\ \A d \in Device : WF_vars(Client(d)) /\ WF_vars(Server(d))

------------------------------------------------------------------------------
(* What must hold.                                                         *)

Outcomes(d, r) == {x.outcome : x \in {y \in results : y.id = <<d, r>>}}

(* "Data Sent Successfully" is true: a run that reports it posted a packet *)
(* that the server has decoded.                                            *)
SuccessIsTrue ==
  \A d \in Device, r \in 1..MaxRuns :
    "sent" \in Outcomes(d, r) => \E x \in decoded : x.packet.id = <<d, r>>

(* The binary request implements schema-on-write too: every reading is     *)
(* decoded by its own schema, whichever device taught it to the server.    *)
InFlight(d) == {m \in Range(toServer[d]) : m.kind = "post"}
Posted == (UNION {InFlight(d) \cup waiting[d] : d \in Device})
            \cup {x.packet : x \in decoded}
Abstract == INSTANCE SchemaOnWrite WITH posted <- Posted
DecodesByOwnSchema == Abstract!Spec

(* A run ends, whatever the server answers, however little send writes and *)
(* wherever the link breaks.                                               *)
RunEnds == \A d \in Device : pc[d] # "exited" ~> pc[d] = "exited"
================================================================================
