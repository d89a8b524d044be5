-------------------------- MODULE BinaryRequestProofs --------------------------
(***************************************************************************)
(* The C client tells the truth: for any devices, schemas, digest, number  *)
(* of runs, refusals, short sends and broken connections.                  *)
(***************************************************************************)
EXTENDS BinaryRequest, SequenceTheorems, TLAPS

------------------------------------------------------------------------------
(* Sequences as channels. *)

(* Sending adds one frame to those on the connection. *)
LEMMA AppendRange ==
  ASSUME NEW S, NEW s \in Seq(S), NEW e \in S
  PROVE  /\ Append(s, e) \in Seq(S)
         /\ Range(Append(s, e)) = Range(s) \cup {e}
<1>1. Len(s) \in Nat /\ DOMAIN s = 1..Len(s)
  BY LenProperties
<1>2. /\ Append(s, e) \in Seq(S)
      /\ DOMAIN Append(s, e) = 1..(Len(s) + 1)
      /\ \A i \in 1..Len(s) : Append(s, e)[i] = s[i]
      /\ Append(s, e)[Len(s) + 1] = e
  BY <1>1, AppendProperties
<1>3. Len(s) + 1 \in 1..(Len(s) + 1) /\ \A i \in 1..Len(s) : i \in 1..(Len(s) + 1)
  BY <1>1
<1>4. \A i \in 1..(Len(s) + 1) : i \in 1..Len(s) \/ i = Len(s) + 1
  BY <1>1
<1> QED
  BY <1>1, <1>2, <1>3, <1>4 DEF Range

(* Reading takes the first frame and adds none. *)
LEMMA TailRange ==
  ASSUME NEW S, NEW s \in Seq(S), s # <<>>
  PROVE  /\ Head(s) \in Range(s) /\ Head(s) \in S
         /\ Tail(s) \in Seq(S)
         /\ Range(Tail(s)) \subseteq Range(s)
<1>1. Len(s) \in Nat /\ Len(s) # 0 /\ DOMAIN s = 1..Len(s)
  BY LenProperties, EmptySeq
<1>2. /\ Head(s) \in S /\ Tail(s) \in Seq(S)
      /\ Len(Tail(s)) = Len(s) - 1
      /\ \A i \in 1..Len(Tail(s)) : Tail(s)[i] = s[i + 1]
  BY HeadTailProperties
<1>3. Head(s) = s[1] /\ 1 \in 1..Len(s)
  BY <1>1
<1>4. \A i \in 1..Len(Tail(s)) : i + 1 \in 1..Len(s)
  BY <1>1, <1>2
<1>5. DOMAIN Tail(s) = 1..Len(Tail(s))
  BY <1>2, LenProperties
<1> QED
  BY <1>1, <1>2, <1>3, <1>4, <1>5 DEF Range

(* Nothing is on an empty connection. *)
LEMMA EmptyRange == \A S : <<>> \in Seq(S) /\ Range(<<>>) = {}
BY EmptySeq DEF Range

------------------------------------------------------------------------------
(* The inductive invariant. All that is on a connection belongs to the run *)
(* its device is in, and an "ok" on its way, or to come, has its reason.   *)

PostOf(d) ==
  [kind |-> "post", id |-> <<d, run[d]>>, hash |-> Digest4(SchemaOf[d]),
   body |-> SchemaOf[d]]

(* Between two runs nothing is left of the last one. *)
Clean(d) ==
  /\ pc[d] = "exited" => link[d] = "none"
  /\ pc[d] \in {"exited", "connected"} =>
       toServer[d] = <<>> /\ toClient[d] = <<>> /\ waiting[d] = {}

(* A schema is sent only when asked for, and a server that asked keeps the *)
(* packet as long as the link is open.                                     *)
OwnFrames(d) ==
  /\ pc[d] # "exited" => run[d] \in 1..MaxRuns
  /\ \A m \in Range(toServer[d]) :
       \/ m = PostOf(d)
       \/ m = [kind |-> "schema", schema |-> SchemaOf[d]] /\ pc[d] = "schema_sent"
  /\ waiting[d] \subseteq {PostOf(d)}
Asked(d) ==
  /\ link[d] = "open"
  /\ \/ pc[d] \in {"requested", "schema_sent"}
     \/ "request_schema" \in Range(toClient[d])
SchemaIsAwaited(d) == Asked(d) => waiting[d] # {}

DecodedIn(d, r) == \E x \in decoded : x.packet.id = <<d, r>>
OkIsTrue(d) == "ok" \in Range(toClient[d]) => DecodedIn(d, run[d])

DeviceInv(d) ==
  Clean(d) /\ OwnFrames(d) /\ SchemaIsAwaited(d) /\ OkIsTrue(d)
IInv == TypeOK /\ SuccessIsTrue /\ \A d \in Device : DeviceInv(d)
------------------------------------------------------------------------------
(* One device at a time: an action of a device changes its own part of the *)
(* state, and may decode more.                                             *)

Same(e) ==
  /\ pc'[e] = pc[e] /\ run'[e] = run[e] /\ link'[e] = link[e]
  /\ toServer'[e] = toServer[e] /\ toClient'[e] = toClient[e]
  /\ waiting'[e] = waiting[e]

(* A step of one device leaves the others' part of the invariant alone. *)
LEMMA Elsewhere ==
  ASSUME NEW e \in Device, DeviceInv(e), Same(e), decoded \subseteq decoded'
  PROVE  DeviceInv(e)'
<1>1. PostOf(e)' = PostOf(e)
  BY DEF Same, PostOf
<1>2. Clean(e)' /\ SchemaIsAwaited(e)'
  BY DEF DeviceInv, Same, Clean, SchemaIsAwaited, Asked
<1>3. OwnFrames(e)'
  BY <1>1 DEF DeviceInv, Same, OwnFrames
<1>4. OkIsTrue(e)'
  BY DEF DeviceInv, Same, OkIsTrue, DecodedIn
<1> QED
  BY <1>2, <1>3, <1>4 DEF DeviceInv

(* The packet of a run is a packet. *)
LEMMA PostType ==
  ASSUME TypeOK, NEW d \in Device, run[d] \in 1..MaxRuns
  PROVE  PostOf(d) \in Packet /\ [kind |-> "schema", schema |-> SchemaOf[d]] \in SchemaResponse
<1>1. SchemaOf[d] \in Schema
  BY RequestAssumption
<1>2. Digest4(SchemaOf[d]) \in Hash
  BY <1>1 DEF Hash
<1> QED
  BY <1>1, <1>2 DEF PostOf, Packet, SchemaResponse

(* A run that ends adds a result of its own, and leaves its place clean. *)
LEMMA ExitPreserves ==
  ASSUME IInv, NEW d \in Device, NEW outcome \in Outcome, pc[d] # "exited",
         outcome = "sent" => DecodedIn(d, run[d]),
         Exit(d, outcome)
  PROVE  IInv'
<1> USE DEF IInv
<1>1. run[d] \in 1..MaxRuns
  BY DEF DeviceInv, OwnFrames
<1>2. TypeOK'
  <2>1. pc' \in [Device -> {"exited", "connected", "posted", "requested", "schema_sent"}]
    BY DEF TypeOK, Exit, Goto
  <2>2. results' \subseteq [id : Device \X (1..MaxRuns), outcome : Outcome]
    BY <1>1 DEF TypeOK, Exit
  <2>3. link' \in [Device -> {"none", "open", "closed", "broken"}]
    BY DEF TypeOK, Exit
  <2>4. /\ toServer' \in [Device -> Seq(Packet \cup SchemaResponse)]
        /\ toClient' \in [Device -> Seq(Error \cup {"ok", "request_schema"})]
    BY EmptyRange DEF TypeOK, Exit
  <2>5. waiting' \in [Device -> SUBSET Packet]
    BY DEF TypeOK, Exit
  <2> QED
    BY <2>1, <2>2, <2>3, <2>4, <2>5 DEF TypeOK, Exit
<1>3. SuccessIsTrue'
  <2>1. decoded' = decoded /\ results' = results \cup {[id |-> <<d, run[d]>>, outcome |-> outcome]}
    BY DEF Exit
  <2> SUFFICES ASSUME NEW e \in Device, NEW r \in 1..MaxRuns, "sent" \in Outcomes(e, r)'
               PROVE  \E x \in decoded : x.packet.id = <<e, r>>
    BY <2>1 DEF SuccessIsTrue
  <2>2. PICK y \in results' : y.id = <<e, r>> /\ y.outcome = "sent"
    BY DEF Outcomes
  <2>3. CASE y \in results
    <3>1. "sent" \in Outcomes(e, r)
      BY <2>2, <2>3 DEF Outcomes
    <3> QED
      BY <3>1 DEF SuccessIsTrue
  <2>4. CASE y = [id |-> <<d, run[d]>>, outcome |-> outcome]
    <3>1. e = d /\ r = run[d] /\ outcome = "sent"
      BY <2>2, <2>4
    <3> QED
      BY <3>1 DEF DecodedIn
  <2> QED
    BY <2>1, <2>2, <2>3, <2>4
<1>4. ASSUME NEW e \in Device PROVE DeviceInv(e)'
  <2>1. CASE e = d
    <3>1. /\ pc'[d] = "exited" /\ link'[d] = "none"
          /\ toServer'[d] = <<>> /\ toClient'[d] = <<>> /\ waiting'[d] = {}
      BY DEF TypeOK, Exit, Goto
    <3> QED
      BY <2>1, <3>1, EmptyRange
      DEF DeviceInv, Clean, OwnFrames, SchemaIsAwaited, Asked, OkIsTrue
  <2>2. CASE e # d
    <3>1. Same(e) /\ decoded' = decoded
      BY <2>2 DEF TypeOK, Exit, Goto, Same
    <3> QED
      BY <3>1, Elsewhere
  <2> QED
    BY <2>1, <2>2
<1> QED
  BY <1>2, <1>3, <1>4

(* The other steps report nothing. *)
LEMMA StepPreserves ==
  ASSUME IInv, NEW d \in Device, TypeOK', DeviceInv(d)',
         results' = results, decoded \subseteq decoded',
         \A e \in Device \ {d} : Same(e)
  PROVE  IInv'
<1>1. ASSUME NEW e \in Device PROVE DeviceInv(e)'
  <2>1. CASE e = d
    BY <2>1
  <2>2. CASE e # d
    BY <2>2, Elsewhere DEF IInv
  <2> QED
    BY <2>1, <2>2
<1>2. SuccessIsTrue'
  BY DEF IInv, SuccessIsTrue, Outcomes
<1> QED
  BY <1>1, <1>2 DEF IInv

(* send adds a frame to those on the connection. *)
LEMMA FrameAppended ==
  ASSUME TypeOK, NEW d \in Device, NEW frame \in Packet \cup SchemaResponse
  PROVE  /\ Append(toServer[d], frame) \in Seq(Packet \cup SchemaResponse)
         /\ Range(Append(toServer[d], frame)) = Range(toServer[d]) \cup {frame}
<1> DEFINE Frames == Packet \cup SchemaResponse
<1>1. toServer[d] \in Seq(Frames) /\ frame \in Frames
  BY DEF TypeOK
<1> HIDE DEF Frames
<1>2. /\ Append(toServer[d], frame) \in Seq(Frames)
      /\ Range(Append(toServer[d], frame)) = Range(toServer[d]) \cup {frame}
  BY <1>1, AppendRange
<1> QED
  BY <1>2 DEF Frames

------------------------------------------------------------------------------
(* The client. *)

(* A new run starts on a connection of its own. *)
LEMMA ConnectPreserves ==
  ASSUME IInv, NEW d \in Device, Connect(d)
  PROVE  IInv'
<1> USE DEF IInv
<1>1. /\ pc[d] = "exited" /\ toServer[d] = <<>> /\ toClient[d] = <<>> /\ waiting[d] = {}
      /\ run[d] \in 0..MaxRuns /\ run[d] < MaxRuns
  BY DEF Connect, DeviceInv, Clean, TypeOK
<1>2. run[d] + 1 \in 1..MaxRuns
  BY <1>1, RequestAssumption
<1>3. TypeOK'
  BY <1>2, RequestAssumption DEF TypeOK, Connect, Goto
<1>4. /\ pc'[d] = "connected" /\ run'[d] \in 1..MaxRuns
      /\ toServer'[d] = <<>> /\ toClient'[d] = <<>> /\ waiting'[d] = {}
  BY <1>1, <1>2 DEF TypeOK, Connect, Goto
<1>5. DeviceInv(d)'
  BY <1>4, EmptyRange
  DEF DeviceInv, Clean, OwnFrames, SchemaIsAwaited, Asked, OkIsTrue
<1>6. \A e \in Device \ {d} : Same(e)
  BY DEF TypeOK, Connect, Goto, Same
<1> QED
  BY <1>3, <1>5, <1>6, StepPreserves DEF Connect

(* The packet sent is that of the run. *)
LEMMA SendPostPreserves ==
  ASSUME IInv, NEW d \in Device, SendPost(d)
  PROVE  IInv'
<1> USE DEF IInv
<1>1. /\ pc[d] = "connected" /\ run[d] \in 1..MaxRuns
      /\ toServer[d] = <<>> /\ toClient[d] = <<>> /\ waiting[d] = {}
  BY DEF SendPost, DeviceInv, Clean, OwnFrames
<1>2. PostOf(d) \in Packet
  BY <1>1, PostType
<1>3. toServer' = [toServer EXCEPT ![d] = Append(@, PostOf(d))]
  BY DEF SendPost, Send, PostOf
<1>4. /\ Append(toServer[d], PostOf(d)) \in Seq(Packet \cup SchemaResponse)
      /\ Range(Append(toServer[d], PostOf(d))) = {PostOf(d)}
  BY <1>1, <1>2, EmptyRange, FrameAppended
<1>5. TypeOK'
  BY <1>3, <1>4 DEF TypeOK, SendPost, Goto
<1>6. /\ pc'[d] = "posted" /\ run' = run /\ link' = link /\ toClient' = toClient
      /\ waiting' = waiting /\ Range(toServer'[d]) = {PostOf(d)}
      /\ PostOf(d)' = PostOf(d)
  BY <1>3, <1>4 DEF TypeOK, SendPost, Goto, PostOf
<1>7. DeviceInv(d)'
  BY <1>1, <1>6, EmptyRange
  DEF DeviceInv, Clean, OwnFrames, SchemaIsAwaited, Asked, OkIsTrue
<1>8. \A e \in Device \ {d} : Same(e)
  BY DEF TypeOK, SendPost, Send, Goto, Same
<1> QED
  BY <1>5, <1>7, <1>8, StepPreserves DEF SendPost

(* The schema sent is that of the device. *)
LEMMA SendSchemaPreserves ==
  ASSUME IInv, NEW d \in Device, SendSchema(d)
  PROVE  IInv'
<1> USE DEF IInv
<1> DEFINE frame == [kind |-> "schema", schema |-> SchemaOf[d]]
<1>1. pc[d] = "requested" /\ run[d] \in 1..MaxRuns
  BY DEF SendSchema, DeviceInv, OwnFrames
<1>2. frame \in SchemaResponse
  BY <1>1, PostType
<1>3. toServer' = [toServer EXCEPT ![d] = Append(@, frame)]
  BY DEF SendSchema, Send, Document
<1>4. /\ Append(toServer[d], frame) \in Seq(Packet \cup SchemaResponse)
      /\ Range(Append(toServer[d], frame)) = Range(toServer[d]) \cup {frame}
  BY <1>2, FrameAppended
<1>5. TypeOK'
  BY <1>3, <1>4 DEF TypeOK, SendSchema, Goto
<1>6. /\ pc'[d] = "schema_sent" /\ run' = run /\ link' = link /\ toClient' = toClient
      /\ waiting' = waiting /\ decoded' = decoded
      /\ Range(toServer'[d]) = Range(toServer[d]) \cup {frame}
      /\ PostOf(d)' = PostOf(d)
  BY <1>3, <1>4 DEF TypeOK, SendSchema, Goto, PostOf
<1>7. OwnFrames(d)'
  BY <1>1, <1>6 DEF DeviceInv, OwnFrames
<1>8. SchemaIsAwaited(d)'
  BY <1>1, <1>6 DEF DeviceInv, SchemaIsAwaited, Asked
<1>9. DeviceInv(d)'
  BY <1>6, <1>7, <1>8 DEF DeviceInv, Clean, OkIsTrue, DecodedIn
<1>10. \A e \in Device \ {d} : Same(e)
  BY DEF TypeOK, SendSchema, Send, Goto, Same
<1> QED
  BY <1>5, <1>9, <1>10, StepPreserves DEF SendSchema

(* A schema request takes no answer that is still due. *)
LEMMA ReceiveSchemaRequestPreserves ==
  ASSUME IInv, NEW d \in Device, ReceiveSchemaRequest(d)
  PROVE  IInv'
<1> USE DEF IInv
<1>1. pc[d] = "posted" /\ toClient[d] # <<>> /\ Head(toClient[d]) = "request_schema"
  BY DEF ReceiveSchemaRequest, HasResponse, Response
<1>2. toClient[d] \in Seq(Error \cup {"ok", "request_schema"})
  BY DEF TypeOK
<1>3. /\ Head(toClient[d]) \in Range(toClient[d])
      /\ Tail(toClient[d]) \in Seq(Error \cup {"ok", "request_schema"})
      /\ Range(Tail(toClient[d])) \subseteq Range(toClient[d])
  BY <1>1, <1>2, TailRange
<1>4. TypeOK'
  BY <1>3 DEF TypeOK, ReceiveSchemaRequest, Goto
<1>5. /\ pc'[d] = "requested" /\ run' = run /\ link' = link /\ toServer' = toServer
      /\ waiting' = waiting /\ decoded' = decoded
      /\ Range(toClient'[d]) \subseteq Range(toClient[d])
      /\ PostOf(d)' = PostOf(d)
  BY <1>3 DEF TypeOK, ReceiveSchemaRequest, Goto, PostOf
<1>6. SchemaIsAwaited(d)'
  BY <1>1, <1>3, <1>5 DEF DeviceInv, SchemaIsAwaited, Asked
<1>7. OwnFrames(d)'
  BY <1>1, <1>5 DEF DeviceInv, OwnFrames
<1>8. DeviceInv(d)'
  BY <1>5, <1>6, <1>7 DEF DeviceInv, Clean, OkIsTrue, DecodedIn
<1>9. \A e \in Device \ {d} : Same(e)
  BY DEF TypeOK, ReceiveSchemaRequest, Goto, Same
<1> QED
  BY <1>4, <1>8, <1>9, StepPreserves DEF ReceiveSchemaRequest

(* Every way to the end of a run. *)
LEMMA EndsPreserve ==
  ASSUME IInv, NEW d \in Device,
         SendFails(d) \/ RecvFails(d) \/ ReceivePostResponse(d) \/ ReceiveSchemaResponse(d)
  PROVE  IInv'
<1>1. CASE SendFails(d)
  BY <1>1, ExitPreserves DEF SendFails, Outcome
<1>2. CASE RecvFails(d)
  BY <1>2, ExitPreserves DEF RecvFails, Outcome
<1>3. ASSUME toClient[d] # <<>>, Response(d) = "ok" PROVE DecodedIn(d, run[d])
  BY <1>3, TailRange DEF IInv, TypeOK, DeviceInv, OkIsTrue, Response
<1>4. CASE ReceivePostResponse(d)
  <2>1. /\ OutcomeOfPost(Response(d)) \in Outcome
        /\ OutcomeOfPost(Response(d)) = "sent" => Response(d) = "ok"
    BY DEF OutcomeOfPost, Outcome
  <2> QED
    BY <1>3, <1>4, <2>1, ExitPreserves DEF ReceivePostResponse, HasResponse
<1>5. CASE ReceiveSchemaResponse(d)
  <2>1. /\ OutcomeOfSchema(Response(d)) \in Outcome
        /\ OutcomeOfSchema(Response(d)) = "sent" => Response(d) = "ok"
    BY DEF OutcomeOfSchema, Outcome
  <2> QED
    BY <1>3, <1>5, <2>1, ExitPreserves DEF ReceiveSchemaResponse, HasResponse
<1> QED
  BY <1>1, <1>2, <1>4, <1>5

------------------------------------------------------------------------------
(* The server, and the network. *)

(* The server reads nothing but frames of the run. *)
LEMMA ReadsHead ==
  ASSUME IInv, NEW d \in Device, toServer[d] # <<>>
  PROVE  /\ Head(toServer[d]) \in Range(toServer[d])
         /\ Head(toServer[d]) \in Packet \cup SchemaResponse
         /\ \/ Head(toServer[d]) = PostOf(d)
            \/ /\ Head(toServer[d]) = [kind |-> "schema", schema |-> SchemaOf[d]]
               /\ pc[d] = "schema_sent"
         /\ Tail(toServer[d]) \in Seq(Packet \cup SchemaResponse)
         /\ Range(Tail(toServer[d])) \subseteq Range(toServer[d])
<1> DEFINE Frames == Packet \cup SchemaResponse
<1>1. toServer[d] \in Seq(Frames)
  BY DEF IInv, TypeOK
<1> HIDE DEF Frames
<1>2. /\ Head(toServer[d]) \in Range(toServer[d]) /\ Head(toServer[d]) \in Frames
      /\ Tail(toServer[d]) \in Seq(Frames)
      /\ Range(Tail(toServer[d])) \subseteq Range(toServer[d])
  BY <1>1, TailRange
<1> QED
  BY <1>2 DEF Frames, IInv, DeviceInv, OwnFrames

(* What a response does to the connection. *)
LEMMA RespondEffect ==
  ASSUME IInv, NEW d \in Device, toServer[d] # <<>>, link[d] = "open",
         NEW response \in Error \cup {"ok", "request_schema"},
         Respond(d, response)
  PROVE  /\ toServer' \in [Device -> Seq(Packet \cup SchemaResponse)]
         /\ toClient' \in [Device -> Seq(Error \cup {"ok", "request_schema"})]
         /\ link' \in [Device -> {"none", "open", "closed", "broken"}]
         /\ pc' = pc /\ run' = run /\ results' = results /\ PostOf(d)' = PostOf(d)
         /\ pc[d] \notin {"exited", "connected"}
         /\ toServer'[d] = Tail(toServer[d])
         /\ Range(toServer'[d]) \subseteq Range(toServer[d])
         /\ Range(toClient'[d]) = Range(toClient[d]) \cup {response}
         /\ link'[d] = IF response = "request_schema" THEN "open" ELSE "closed"
         /\ \A e \in Device \ {d} :
              /\ toServer'[e] = toServer[e] /\ toClient'[e] = toClient[e]
              /\ link'[e] = link[e]
<1> DEFINE Responses == Error \cup {"ok", "request_schema"}
<1>1. toClient[d] \in Seq(Responses) /\ response \in Responses
  BY DEF IInv, TypeOK
<1>2. Append(toClient[d], response) \in Seq(Responses)
      /\ Range(Append(toClient[d], response)) = Range(toClient[d]) \cup {response}
  <2> HIDE DEF Responses
  <2> QED
    BY <1>1, AppendRange
<1>3. /\ Tail(toServer[d]) \in Seq(Packet \cup SchemaResponse)
      /\ Range(Tail(toServer[d])) \subseteq Range(toServer[d])
  BY ReadsHead
<1>4. toServer' \in [Device -> Seq(Packet \cup SchemaResponse)]
  BY <1>3 DEF IInv, TypeOK, Respond
<1>5. toClient' \in [Device -> Seq(Responses)]
  BY <1>2 DEF IInv, TypeOK, Respond
<1>6. link' \in [Device -> {"none", "open", "closed", "broken"}]
  BY DEF IInv, TypeOK, Respond
<1>7. pc[d] \notin {"exited", "connected"}
  BY DEF IInv, DeviceInv, Clean
<1>8. pc' = pc /\ run' = run /\ results' = results /\ PostOf(d)' = PostOf(d)
  BY DEF Respond, PostOf
<1>9. /\ toServer'[d] = Tail(toServer[d])
      /\ toClient'[d] = Append(toClient[d], response)
      /\ link'[d] = IF response = "request_schema" THEN "open" ELSE "closed"
  BY DEF IInv, TypeOK, Respond
<1>10. \A e \in Device \ {d} :
         /\ toServer'[e] = toServer[e] /\ toClient'[e] = toClient[e]
         /\ link'[e] = link[e]
  BY DEF IInv, TypeOK, Respond
<1> QED
  BY <1>2, <1>3, <1>4, <1>5, <1>6, <1>7, <1>8, <1>9, <1>10

(* The server says ok to a packet only with the packet decoded. *)
LEMMA DecodePostPreserves ==
  ASSUME IInv, NEW d \in Device, DecodePost(d)
  PROVE  IInv'
<1> DEFINE p == Head(toServer[d])
<1>1. toServer[d] # <<>> /\ link[d] = "open" /\ p.kind = "post"
  BY DEF DecodePost, Reads
<1>2. p = PostOf(d) /\ p \in Packet /\ p.hash \in Hash
  <2>1. /\ p \in Packet \cup SchemaResponse
        /\ p = PostOf(d) \/ p = [kind |-> "schema", schema |-> SchemaOf[d]]
    BY <1>1, ReadsHead
  <2>2. p.kind = "post"
    BY <1>1
  <2> HIDE DEF p
  <2> QED
    BY <2>1, <2>2 DEF Packet, SchemaResponse
<1>3. CASE known[p.hash] # NoSchema
  <2>1. /\ decoded' = decoded \cup {[packet |-> p, schema |-> known[p.hash]]}
        /\ Respond(d, "ok") /\ waiting' = waiting /\ known' = known
    BY <1>3 DEF DecodePost
  <2> HIDE DEF p
  <2>2. known[p.hash] \in Schema
    BY <1>2, <1>3 DEF IInv, TypeOK
  <2>3. TypeOK'
    <3>1. decoded' \subseteq [packet : Packet, schema : Schema]
      BY <1>2, <2>1, <2>2 DEF IInv, TypeOK
    <3>2. /\ toServer' \in [Device -> Seq(Packet \cup SchemaResponse)]
          /\ toClient' \in [Device -> Seq(Error \cup {"ok", "request_schema"})]
          /\ link' \in [Device -> {"none", "open", "closed", "broken"}]
          /\ pc' = pc /\ run' = run /\ results' = results
      BY <1>1, <2>1, RespondEffect
    <3> QED
      BY <2>1, <3>1, <3>2 DEF IInv, TypeOK
  <2>4. DecodedIn(d, run[d])'
    <3>1. p.id = <<d, run[d]>> /\ run' = run
      BY <1>2, <2>1 DEF PostOf, Respond
    <3> DEFINE x == [packet |-> p, schema |-> known[p.hash]]
    <3>2. x \in decoded' /\ x.packet = p
      BY <2>1
    <3> HIDE DEF x
    <3> QED
      BY <3>1, <3>2 DEF DecodedIn
  <2>5. DeviceInv(d)'
    <3>1. link'[d] = "closed" /\ pc' = pc /\ run' = run /\ PostOf(d)' = PostOf(d)
          /\ pc[d] \notin {"exited", "connected"}
          /\ Range(toServer'[d]) \subseteq Range(toServer[d])
      <4>1. "ok" # "request_schema"
        OBVIOUS
      <4> QED
        BY <1>1, <2>1, <4>1, RespondEffect
    <3>2. Clean(d)' /\ OwnFrames(d)'
      BY <3>1, <2>1 DEF IInv, DeviceInv, Clean, OwnFrames
    <3>3. SchemaIsAwaited(d)'
      BY <3>1 DEF SchemaIsAwaited, Asked
    <3>4. OkIsTrue(d)'
      BY <3>1, <2>4 DEF OkIsTrue, DecodedIn
    <3> QED
      BY <3>2, <3>3, <3>4 DEF DeviceInv
  <2>6. results' = results /\ decoded \subseteq decoded' /\ \A e \in Device \ {d} : Same(e)
    BY <1>1, <2>1, RespondEffect DEF Same
  <2> QED
    BY <2>3, <2>5, <2>6, StepPreserves
<1>4. CASE known[p.hash] = NoSchema
  <2>1. /\ waiting' = [waiting EXCEPT ![d] = {p}]
        /\ Respond(d, "request_schema") /\ decoded' = decoded /\ known' = known
    BY <1>4 DEF DecodePost
  <2> HIDE DEF p
  <2>2. TypeOK'
    <3>1. waiting' \in [Device -> SUBSET Packet]
      BY <1>2, <2>1 DEF IInv, TypeOK
    <3>2. /\ toServer' \in [Device -> Seq(Packet \cup SchemaResponse)]
          /\ toClient' \in [Device -> Seq(Error \cup {"ok", "request_schema"})]
          /\ link' \in [Device -> {"none", "open", "closed", "broken"}]
          /\ pc' = pc /\ run' = run /\ results' = results
      BY <1>1, <2>1, RespondEffect
    <3> QED
      BY <2>1, <3>1, <3>2 DEF IInv, TypeOK
  <2>3. waiting'[d] = {PostOf(d)} /\ \A e \in Device \ {d} : waiting'[e] = waiting[e]
    BY <1>2, <2>1 DEF IInv, TypeOK
  <2>4. DeviceInv(d)'
    <3>1. pc' = pc /\ run' = run /\ PostOf(d)' = PostOf(d)
          /\ pc[d] \notin {"exited", "connected"}
          /\ Range(toServer'[d]) \subseteq Range(toServer[d])
          /\ Range(toClient'[d]) = Range(toClient[d]) \cup {"request_schema"}
      BY <1>1, <2>1, RespondEffect
    <3>2. Clean(d)' /\ OwnFrames(d)'
      BY <3>1, <2>3 DEF IInv, DeviceInv, Clean, OwnFrames
    <3>3. SchemaIsAwaited(d)'
      BY <2>3 DEF SchemaIsAwaited
    <3>4. OkIsTrue(d)'
      BY <3>1, <2>1 DEF IInv, DeviceInv, OkIsTrue, DecodedIn
    <3> QED
      BY <3>2, <3>3, <3>4 DEF DeviceInv
  <2>5. results' = results /\ decoded \subseteq decoded' /\ \A e \in Device \ {d} : Same(e)
    BY <1>1, <2>1, <2>3, RespondEffect DEF Same
  <2> QED
    BY <2>2, <2>4, <2>5, StepPreserves
<1> QED
  BY <1>3, <1>4

(* The server says ok to a schema only with the packet decoded. *)
LEMMA LearnSchemaPreserves ==
  ASSUME IInv, NEW d \in Device, LearnSchema(d)
  PROVE  IInv'
<1> DEFINE s == Head(toServer[d]).schema
<1> DEFINE learnt == {[packet |-> p, schema |-> s] : p \in waiting[d]}
<1>1. toServer[d] # <<>> /\ link[d] = "open" /\ Head(toServer[d]).kind = "schema"
  BY DEF LearnSchema, Reads
<1>2. s \in Schema /\ pc[d] = "schema_sent"
  <2> DEFINE frame == Head(toServer[d])
  <2>1. /\ frame \in Packet \cup SchemaResponse
        /\ frame = PostOf(d) \/ pc[d] = "schema_sent"
    BY <1>1, ReadsHead
  <2>2. frame.kind = "schema"
    BY <1>1
  <2> HIDE DEF frame
  <2>3. frame \in SchemaResponse /\ pc[d] = "schema_sent"
    BY <2>1, <2>2 DEF Packet, SchemaResponse, PostOf
  <2> QED
    BY <2>3 DEF SchemaResponse, frame
<1>3. /\ known' = [h \in Hash |-> IF \E p \in waiting[d] : p.hash = h THEN s ELSE known[h]]
      /\ decoded' = decoded \cup learnt
      /\ waiting' = [waiting EXCEPT ![d] = {}]
      /\ Respond(d, "ok")
  BY DEF LearnSchema
<1> HIDE DEF s
<1>4. learnt \subseteq [packet : Packet, schema : Schema]
  BY <1>2 DEF IInv, TypeOK
<1>5. PICK p \in waiting[d] : p.id = <<d, run[d]>>
  BY <1>1, <1>2 DEF IInv, DeviceInv, SchemaIsAwaited, Asked, OwnFrames, PostOf
<1>6. DecodedIn(d, run[d])'
  <2> DEFINE x == [packet |-> p, schema |-> s]
  <2>1. x \in decoded' /\ x.packet = p
    BY <1>3
  <2>2. run' = run
    BY <1>3 DEF Respond
  <2> HIDE DEF x
  <2> QED
    BY <1>5, <2>1, <2>2 DEF DecodedIn
<1> HIDE DEF learnt
<1>7. /\ toServer' \in [Device -> Seq(Packet \cup SchemaResponse)]
      /\ toClient' \in [Device -> Seq(Error \cup {"ok", "request_schema"})]
      /\ link' \in [Device -> {"none", "open", "closed", "broken"}]
      /\ pc' = pc /\ run' = run /\ results' = results /\ PostOf(d)' = PostOf(d)
      /\ Range(toServer'[d]) \subseteq Range(toServer[d])
      /\ link'[d] = "closed"
      /\ \A e \in Device \ {d} :
           /\ toServer'[e] = toServer[e] /\ toClient'[e] = toClient[e]
           /\ link'[e] = link[e]
  <2>1. "ok" # "request_schema"
    OBVIOUS
  <2> QED
    BY <1>1, <1>3, <2>1, RespondEffect
<1>8. TypeOK'
  <2>1. known' \in [Hash -> Schema \cup {NoSchema}]
    BY <1>2, <1>3 DEF IInv, TypeOK
  <2>2. waiting' \in [Device -> SUBSET Packet]
    BY <1>3 DEF IInv, TypeOK
  <2>3. decoded' \subseteq [packet : Packet, schema : Schema]
    BY <1>3, <1>4 DEF IInv, TypeOK
  <2> QED
    BY <1>7, <2>1, <2>2, <2>3 DEF IInv, TypeOK
<1>9. waiting'[d] = {} /\ \A e \in Device \ {d} : waiting'[e] = waiting[e]
  BY <1>3 DEF IInv, TypeOK
<1>10. DeviceInv(d)'
  <2>1. Clean(d)' /\ OwnFrames(d)'
    BY <1>2, <1>7, <1>9 DEF IInv, DeviceInv, Clean, OwnFrames
  <2>2. SchemaIsAwaited(d)'
    BY <1>7 DEF SchemaIsAwaited, Asked
  <2>3. OkIsTrue(d)'
    BY <1>6, <1>7 DEF OkIsTrue, DecodedIn
  <2> QED
    BY <2>1, <2>2, <2>3 DEF DeviceInv
<1>11. decoded \subseteq decoded' /\ \A e \in Device \ {d} : Same(e)
  BY <1>3, <1>7, <1>9 DEF Same
<1> QED
  BY <1>7, <1>8, <1>10, <1>11, StepPreserves

(* An error is no success. *)
LEMMA RefusePreserves ==
  ASSUME IInv, NEW d \in Device, Refuse(d)
  PROVE  IInv'
<1>1. PICK e \in Error : Respond(d, e)
  BY DEF Refuse
<1>2. /\ toServer[d] # <<>> /\ link[d] = "open"
      /\ waiting' = [waiting EXCEPT ![d] = {}] /\ known' = known /\ decoded' = decoded
  BY DEF Refuse, Reads
<1>3. e # "request_schema" /\ e # "ok"
  BY DEF Error
<1>4. /\ toServer' \in [Device -> Seq(Packet \cup SchemaResponse)]
      /\ toClient' \in [Device -> Seq(Error \cup {"ok", "request_schema"})]
      /\ link' \in [Device -> {"none", "open", "closed", "broken"}]
      /\ pc' = pc /\ run' = run /\ results' = results /\ PostOf(d)' = PostOf(d)
      /\ pc[d] \notin {"exited", "connected"}
      /\ Range(toServer'[d]) \subseteq Range(toServer[d])
      /\ Range(toClient'[d]) = Range(toClient[d]) \cup {e}
      /\ link'[d] = "closed"
      /\ \A c \in Device \ {d} :
           /\ toServer'[c] = toServer[c] /\ toClient'[c] = toClient[c]
           /\ link'[c] = link[c]
  BY <1>1, <1>2, <1>3, RespondEffect
<1>5. TypeOK'
  <2>1. waiting' \in [Device -> SUBSET Packet]
    BY <1>2 DEF IInv, TypeOK
  <2> QED
    BY <1>2, <1>4, <2>1 DEF IInv, TypeOK
<1>6. waiting'[d] = {} /\ \A c \in Device \ {d} : waiting'[c] = waiting[c]
  BY <1>2 DEF IInv, TypeOK
<1>7. DeviceInv(d)'
  <2>1. Clean(d)' /\ OwnFrames(d)'
    BY <1>4, <1>6 DEF IInv, DeviceInv, Clean, OwnFrames
  <2>2. SchemaIsAwaited(d)'
    BY <1>4 DEF SchemaIsAwaited, Asked
  <2>3. OkIsTrue(d)'
    BY <1>2, <1>3, <1>4 DEF IInv, DeviceInv, OkIsTrue, DecodedIn
  <2> QED
    BY <2>1, <2>2, <2>3 DEF DeviceInv
<1>8. \A c \in Device \ {d} : Same(c)
  BY <1>4, <1>6 DEF Same
<1> QED
  BY <1>2, <1>4, <1>5, <1>7, <1>8, StepPreserves

(* A connection that breaks takes its frames along. *)
LEMMA BreakPreserves ==
  ASSUME IInv, NEW d \in Device, Break(d)
  PROVE  IInv'
<1>1. link[d] = "open" /\ pc[d] # "exited"
  BY DEF Break, IInv, DeviceInv, Clean
<1>2. TypeOK'
  <2>1. toServer' \in [Device -> Seq(Packet \cup SchemaResponse)]
    BY EmptyRange DEF IInv, TypeOK, Break
  <2>2. toClient' \in [Device -> Seq(Error \cup {"ok", "request_schema"})]
    BY EmptyRange DEF IInv, TypeOK, Break
  <2>3. link' \in [Device -> {"none", "open", "closed", "broken"}]
    BY DEF IInv, TypeOK, Break
  <2>4. waiting' \in [Device -> SUBSET Packet]
    BY DEF IInv, TypeOK, Break
  <2> QED
    BY <2>1, <2>2, <2>3, <2>4 DEF IInv, TypeOK, Break
<1>3. /\ link'[d] = "broken" /\ toServer'[d] = <<>> /\ waiting'[d] = {}
      /\ toClient'[d] = toClient[d] \/ toClient'[d] = <<>>
      /\ pc' = pc /\ run' = run /\ results' = results /\ decoded' = decoded
  BY DEF IInv, TypeOK, Break
<1>4. DeviceInv(d)'
  <2>1. Clean(d)' /\ OwnFrames(d)'
    BY <1>1, <1>3, EmptyRange DEF IInv, DeviceInv, Clean, OwnFrames
  <2>2. SchemaIsAwaited(d)'
    BY <1>3 DEF SchemaIsAwaited, Asked
  <2>3. OkIsTrue(d)'
    BY <1>3, EmptyRange DEF IInv, DeviceInv, OkIsTrue, DecodedIn
  <2> QED
    BY <2>1, <2>2, <2>3 DEF DeviceInv
<1>5. \A e \in Device \ {d} : Same(e)
  BY DEF IInv, TypeOK, Break, Same
<1> QED
  BY <1>2, <1>3, <1>4, <1>5, StepPreserves

------------------------------------------------------------------------------
(* No run, no frame, no result. *)
LEMMA InitHolds == Init => IInv
<1> SUFFICES ASSUME Init PROVE IInv
  OBVIOUS
<1>1. TypeOK
  BY EmptyRange, RequestAssumption DEF Init, TypeOK
<1>2. SuccessIsTrue
  BY DEF Init, SuccessIsTrue, Outcomes
<1>3. ASSUME NEW d \in Device PROVE DeviceInv(d)
  BY EmptyRange
  DEF Init, DeviceInv, Clean, OwnFrames, SchemaIsAwaited, Asked, OkIsTrue
<1> QED
  BY <1>1, <1>2, <1>3 DEF IInv

(* The invariant is inductive. *)
LEMMA NextPreserves == IInv /\ [Next]_vars => IInv'
<1> SUFFICES ASSUME IInv, [Next]_vars PROVE IInv'
  OBVIOUS
<1>1. CASE UNCHANGED vars
  BY <1>1 DEF vars, wire, IInv, TypeOK, SuccessIsTrue, Outcomes, DeviceInv, Clean,
              OwnFrames, PostOf, SchemaIsAwaited, Asked, OkIsTrue, DecodedIn
<1>2. ASSUME NEW d \in Device, Connect(d) PROVE IInv'
  BY <1>2, ConnectPreserves
<1>3. ASSUME NEW d \in Device, Client(d) PROVE IInv'
  BY <1>3, SendPostPreserves, SendSchemaPreserves, ReceiveSchemaRequestPreserves,
     EndsPreserve DEF Client
<1>4. ASSUME NEW d \in Device, Server(d) PROVE IInv'
  BY <1>4, DecodePostPreserves, LearnSchemaPreserves, RefusePreserves DEF Server
<1>5. ASSUME NEW d \in Device, Break(d) PROVE IInv'
  BY <1>5, BreakPreserves
<1> QED
  BY <1>1, <1>2, <1>3, <1>4, <1>5 DEF Next

(* main.c: a response is one of the protocol, a run ends in one of the     *)
(* ways of its switches, and each run has its own connection.              *)
THEOREM TypeCorrectness == Spec => []TypeOK
<1>1. IInv => TypeOK
  BY DEF IInv
<1> QED
  BY <1>1, InitHolds, NextPreserves, PTL DEF Spec

(* "Data Sent Successfully" is printed only for a packet the server has    *)
(* decoded: an "ok" on its way has its reason, and no answer of one run is *)
(* read by another.                                                        *)
THEOREM SuccessCorrectness == Spec => []SuccessIsTrue
<1>1. IInv => SuccessIsTrue
  BY DEF IInv
<1> QED
  BY <1>1, InitHolds, NextPreserves, PTL DEF Spec

------------------------------------------------------------------------------
(* The refinement of SchemaOnWrite, for a digest without collisions.       *)

Injective == \A s, t \in Schema : Digest4(s) = Digest4(t) => s = t

PacketOf(d, r) ==
  [kind |-> "post", id |-> <<d, r>>, hash |-> Digest4(SchemaOf[d]),
   body |-> SchemaOf[d]]

(* What was decoded was posted by a run of its device, a run that has not  *)
(* posted yet has nothing decoded, and schemas are known by their hash.    *)
DecodedOwn ==
  \A x \in decoded : \E d \in Device : \E r \in 1..run[d] : x.packet = PacketOf(d, r)
Fresh == \A d \in Device : pc[d] = "connected" => ~DecodedIn(d, run[d])
KnownHashes == \A h \in Hash : known[h] # NoSchema => Digest4(known[h]) = h

RInv == IInv /\ DecodedOwn /\ Fresh /\ KnownHashes

(* The packet on the wire is the packet of the abstract specification. *)
LEMMA PostIsPacket == \A d \in Device : PostOf(d) = PacketOf(d, run[d])
BY DEF PostOf, PacketOf

(* A packet was posted if it is carried by a link or decoded: now, and in  *)
(* the next state.                                                         *)
LEMMA PostedMember ==
  ASSUME NEW p
  PROVE  p \in Posted <=> \/ \E d \in Device : p \in InFlight(d) \cup waiting[d]
                          \/ \E x \in decoded : p = x.packet
<1> DEFINE Carried == UNION {InFlight(d) \cup waiting[d] : d \in Device}
<1> DEFINE Done == {x.packet : x \in decoded}
<1>1. p \in Carried <=> \E d \in Device : p \in InFlight(d) \cup waiting[d]
  BY Zenon
<1>2. p \in Done <=> \E x \in decoded : p = x.packet
  BY Zenon
<1>3. Posted = Carried \cup Done
  BY Zenon DEF Posted
<1> HIDE DEF Carried, Done
<1> QED
  BY <1>1, <1>2, <1>3

(* The same, after a step. *)
LEMMA PostedMemberNext ==
  ASSUME NEW p
  PROVE  p \in Posted' <=> \/ \E d \in Device : p \in InFlight(d)' \cup waiting'[d]
                           \/ \E x \in decoded' : p = x.packet
<1> DEFINE Carried == UNION {InFlight(d)' \cup waiting'[d] : d \in Device}
<1> DEFINE Done == {x.packet : x \in decoded'}
<1>1. p \in Carried <=> \E d \in Device : p \in InFlight(d)' \cup waiting'[d]
  BY Zenon
<1>2. p \in Done <=> \E x \in decoded' : p = x.packet
  BY Zenon
<1>3. Posted' = Carried \cup Done
  BY Zenon DEF Posted
<1> HIDE DEF Carried, Done
<1> QED
  BY <1>1, <1>2, <1>3

(* A device has at most its current packet on the way. *)
LEMMA InFlightIsPost ==
  ASSUME IInv, NEW d \in Device
  PROVE  InFlight(d) \subseteq {PostOf(d)} /\ waiting[d] \subseteq {PostOf(d)}
<1>1. ASSUME NEW m \in InFlight(d) PROVE m = PostOf(d)
  <2>1. m \in Range(toServer[d]) /\ m.kind = "post"
    BY DEF InFlight
  <2>2. m = PostOf(d) \/ m = [kind |-> "schema", schema |-> SchemaOf[d]]
    BY <2>1 DEF IInv, DeviceInv, OwnFrames
  <2> QED
    BY <2>1, <2>2
<1> QED
  BY <1>1 DEF IInv, DeviceInv, OwnFrames

(* What counts as posted is a packet. *)
LEMMA PostedIsPacket ==
  ASSUME RInv, NEW p \in Posted
  PROVE  \E d \in Device : \E r \in 1..run[d] : p = PacketOf(d, r)
<1>1. ASSUME NEW d \in Device, p = PostOf(d), pc[d] # "exited"
      PROVE  \E r \in 1..run[d] : p = PacketOf(d, r)
  <2>1. run[d] \in 1..run[d]
    BY <1>1, RequestAssumption DEF RInv, IInv, DeviceInv, OwnFrames
  <2> QED
    BY <1>1, <2>1, PostIsPacket
<1>2. ASSUME NEW d \in Device, pc[d] = "exited" PROVE InFlight(d) = {} /\ waiting[d] = {}
  BY <1>2, EmptyRange DEF RInv, IInv, DeviceInv, Clean, InFlight
<1>3. CASE \E d \in Device : p \in InFlight(d) \cup waiting[d]
  BY <1>1, <1>2, <1>3, InFlightIsPost DEF RInv
<1>4. CASE \E x \in decoded : p = x.packet
  BY <1>4 DEF RInv, DecodedOwn
<1> QED
  BY <1>3, <1>4, PostedMember

(* A run posts one packet, so an id names one. *)
LEMMA IdsAreUnique ==
  ASSUME RInv, NEW p \in Posted, NEW q \in Posted, p.id = q.id
  PROVE  p = q
<1>1. PICK d \in Device : \E r \in 1..run[d] : p = PacketOf(d, r)
  BY PostedIsPacket
<1>2. PICK e \in Device : \E r \in 1..run[e] : q = PacketOf(e, r)
  BY PostedIsPacket
<1>3. PICK r \in 1..run[d] : p = PacketOf(d, r)
  BY <1>1
<1>4. PICK t \in 1..run[e] : q = PacketOf(e, t)
  BY <1>2
<1>5. d = e /\ r = t
  BY <1>3, <1>4 DEF PacketOf
<1> QED
  BY <1>3, <1>4, <1>5

(* A step that posts and decodes nothing loses packets, or none.           *)
LEMMA LosingStep ==
  ASSUME decoded' = decoded,
         \A d \in Device : InFlight(d)' \cup waiting'[d] \subseteq InFlight(d) \cup waiting[d]
  PROVE  Abstract!Next
<1>1. Posted' \subseteq Posted
  BY PostedMember, PostedMemberNext
<1>2. {x.packet : x \in decoded} \subseteq Posted'
  BY PostedMemberNext
<1> QED
  BY <1>1, <1>2 DEF Abstract!Next, Abstract!Lose

(* The invariant, for a step that decodes nothing, or a packet of one      *)
(* device that has posted.                                                 *)
LEMMA RInvStep ==
  ASSUME RInv, IInv', KnownHashes', NEW d \in Device, run' = run,
         pc'[d] # "connected",
         \A e \in Device \ {d} : pc'[e] = pc[e],
         \A x \in decoded' : x \in decoded \/ x.packet = PostOf(d),
         run[d] \in 1..MaxRuns
  PROVE  RInv'
<1>1. DecodedOwn'
  <2> SUFFICES ASSUME NEW x \in decoded'
               PROVE  \E e \in Device : \E r \in 1..run[e] : x.packet = PacketOf(e, r)
    BY DEF DecodedOwn, PacketOf
  <2>1. CASE x \in decoded
    BY <2>1 DEF RInv, DecodedOwn
  <2>2. CASE x.packet = PostOf(d)
    <3>1. run[d] \in 1..run[d]
      BY RequestAssumption
    <3> QED
      BY <2>2, <3>1, PostIsPacket
  <2> QED
    BY <2>1, <2>2
<1>2. Fresh'
  <2> SUFFICES ASSUME NEW e \in Device, pc'[e] = "connected", DecodedIn(e, run[e])'
               PROVE  FALSE
    BY DEF Fresh
  <2>1. e # d /\ pc[e] = "connected"
    OBVIOUS
  <2>2. PICK x \in decoded' : x.packet.id = <<e, run[e]>>
    BY DEF DecodedIn
  <2>3. x.packet # PostOf(d)
    BY <2>1, <2>2 DEF PostOf
  <2>4. x \in decoded
    BY <2>3
  <2> QED
    BY <2>1, <2>2, <2>4 DEF RInv, Fresh, DecodedIn
<1> QED
  BY <1>1, <1>2 DEF RInv

UniqueIds == \A p, q \in Posted : p.id = q.id => p = q

(* Ids are unique, *)
LEMMA IdsOf == RInv => UniqueIds
BY IdsAreUnique DEF UniqueIds

(* and stay so. *)
LEMMA IdsOfNext == RInv' => UniqueIds'
BY IdsOf, PTL

(* The steps of main, but for the one that posts.                          *)

(* To connect is to lose what the last run left waiting. *)
LEMMA ConnectSimulates ==
  ASSUME RInv, NEW d \in Device, Connect(d)
  PROVE  RInv' /\ Abstract!Next
<1>1. IInv'
  BY ConnectPreserves DEF RInv
<1>2. /\ decoded' = decoded /\ known' = known /\ toServer' = toServer /\ waiting' = waiting
      /\ run' = [run EXCEPT ![d] = @ + 1] /\ run[d] \in Nat
      /\ pc[d] = "exited" /\ \A e \in Device \ {d} : pc'[e] = pc[e]
      /\ \A e \in Device : run[e] \in Nat
  BY RequestAssumption DEF RInv, IInv, TypeOK, Connect, Goto
<1>3. /\ run'[d] = run[d] + 1 /\ \A e \in Device \ {d} : run'[e] = run[e]
      /\ \A e \in Device : 1..run[e] \subseteq 1..run'[e]
  BY <1>2 DEF RInv, IInv, TypeOK
<1>4. DecodedOwn'
  BY <1>2, <1>3 DEF RInv, DecodedOwn, PacketOf
<1>5. Fresh'
  <2> SUFFICES ASSUME NEW e \in Device, pc'[e] = "connected",
                      NEW x \in decoded, x.packet.id = <<e, run'[e]>>
               PROVE  FALSE
    BY <1>2 DEF Fresh, DecodedIn
  <2>1. CASE e = d
    <3>1. PICK c \in Device : \E r \in 1..run[c] : x.packet = PacketOf(c, r)
      BY DEF RInv, DecodedOwn
    <3>2. PICK r \in 1..run[c] : x.packet = PacketOf(c, r)
      BY <3>1
    <3>3. c = d /\ r = run[d] + 1
      BY <1>3, <2>1, <3>2 DEF PacketOf
    <3> QED
      BY <1>2, <3>2, <3>3
  <2>2. CASE e # d
    BY <1>2, <1>3, <2>2 DEF RInv, Fresh, DecodedIn
  <2> QED
    BY <2>1, <2>2
<1>6. Abstract!Next
  BY <1>2, LosingStep DEF InFlight
<1> QED
  BY <1>1, <1>2, <1>4, <1>5, <1>6 DEF RInv, KnownHashes

(* To exit is to lose what was on its way. *)
LEMMA ExitSimulates ==
  ASSUME RInv, IInv', NEW d \in Device, NEW outcome, pc[d] # "exited", Exit(d, outcome)
  PROVE  RInv' /\ Abstract!Next
<1>1. /\ decoded' = decoded /\ known' = known /\ run' = run
      /\ pc'[d] = "exited" /\ toServer'[d] = <<>> /\ waiting'[d] = {}
      /\ \A e \in Device \ {d} : /\ pc'[e] = pc[e] /\ toServer'[e] = toServer[e]
                                 /\ waiting'[e] = waiting[e]
  BY DEF RInv, IInv, TypeOK, Exit, Goto
<1>2. run[d] \in 1..MaxRuns
  BY DEF RInv, IInv, DeviceInv, OwnFrames
<1>3. RInv'
  BY <1>1, <1>2, RInvStep DEF RInv, KnownHashes
<1>4. \A e \in Device : InFlight(e)' \cup waiting'[e] \subseteq InFlight(e) \cup waiting[e]
  BY <1>1, EmptyRange DEF InFlight
<1> QED
  BY <1>1, <1>3, <1>4, LosingStep

(* So is every way to the end of a run. *)
LEMMA EndsSimulate ==
  ASSUME RInv, NEW d \in Device,
         SendFails(d) \/ RecvFails(d) \/ ReceivePostResponse(d) \/ ReceiveSchemaResponse(d)
  PROVE  RInv' /\ Abstract!Next
<1>1. IInv'
  BY EndsPreserve DEF RInv
<1>2. /\ pc[d] # "exited"
      /\ \/ Exit(d, "died") \/ Exit(d, OutcomeOfPost(Response(d)))
         \/ Exit(d, OutcomeOfSchema(Response(d)))
  BY DEF SendFails, RecvFails, ReceivePostResponse, ReceiveSchemaResponse, HasResponse
<1> QED
  BY <1>1, <1>2, ExitSimulates

(* To send a schema stutters. *)
LEMMA SendSchemaSimulates ==
  ASSUME RInv, NEW d \in Device, SendSchema(d)
  PROVE  RInv' /\ Abstract!Next
<1> DEFINE frame == [kind |-> "schema", schema |-> SchemaOf[d]]
<1>1. IInv'
  BY SendSchemaPreserves DEF RInv
<1>2. run[d] \in 1..MaxRuns
  BY DEF SendSchema, RInv, IInv, DeviceInv, OwnFrames
<1>3. /\ decoded' = decoded /\ known' = known /\ run' = run /\ waiting' = waiting
      /\ pc'[d] = "schema_sent" /\ toServer'[d] = Append(toServer[d], frame)
      /\ \A e \in Device \ {d} : pc'[e] = pc[e] /\ toServer'[e] = toServer[e]
  BY DEF RInv, IInv, TypeOK, SendSchema, Send, Document, Goto
<1>4. Range(toServer'[d]) = Range(toServer[d]) \cup {frame}
  <2>1. frame \in Packet \cup SchemaResponse
    BY <1>2, PostType DEF RInv, IInv
  <2> HIDE DEF frame
  <2> QED
    BY <1>3, <2>1, FrameAppended DEF RInv, IInv
<1>5. frame.kind # "post"
  OBVIOUS
<1> HIDE DEF frame
<1>6. \A e \in Device : InFlight(e)' \subseteq InFlight(e)
  BY <1>3, <1>4, <1>5 DEF InFlight
<1>7. RInv'
  BY <1>1, <1>2, <1>3, RInvStep DEF RInv, KnownHashes
<1> QED
  BY <1>3, <1>6, <1>7, LosingStep

(* To be asked for one does as well. *)
LEMMA ReceiveSchemaRequestSimulates ==
  ASSUME RInv, NEW d \in Device, ReceiveSchemaRequest(d)
  PROVE  RInv' /\ Abstract!Next
<1>1. IInv'
  BY ReceiveSchemaRequestPreserves DEF RInv
<1>2. run[d] \in 1..MaxRuns
  BY DEF ReceiveSchemaRequest, HasResponse, RInv, IInv, DeviceInv, OwnFrames
<1>3. /\ decoded' = decoded /\ known' = known /\ run' = run /\ waiting' = waiting
      /\ pc'[d] = "requested" /\ toServer' = toServer
      /\ \A e \in Device \ {d} : pc'[e] = pc[e]
  BY DEF RInv, IInv, TypeOK, ReceiveSchemaRequest, Goto
<1>4. RInv'
  BY <1>1, <1>2, <1>3, RInvStep DEF RInv, KnownHashes
<1> QED
  BY <1>3, <1>4, LosingStep DEF InFlight

(* send of the packet is the abstract Post. *)
LEMMA SendPostSimulates ==
  ASSUME RInv, NEW d \in Device, SendPost(d)
  PROVE  RInv' /\ Abstract!Next
<1>1. IInv'
  BY SendPostPreserves DEF RInv
<1>2. /\ pc[d] = "connected" /\ run[d] \in 1..MaxRuns
      /\ toServer[d] = <<>> /\ waiting[d] = {}
  BY DEF SendPost, RInv, IInv, DeviceInv, Clean, OwnFrames
<1>3. /\ decoded' = decoded /\ known' = known /\ run' = run /\ waiting' = waiting
      /\ pc'[d] = "posted" /\ toServer'[d] = Append(toServer[d], PostOf(d))
      /\ \A e \in Device \ {d} : pc'[e] = pc[e] /\ toServer'[e] = toServer[e]
  BY DEF RInv, IInv, TypeOK, SendPost, Send, PostOf, Goto
<1>4. Range(toServer'[d]) = {PostOf(d)} /\ Range(toServer[d]) = {}
  BY <1>2, <1>3, EmptyRange, PostType, FrameAppended DEF RInv, IInv
<1>5. PostOf(d).kind = "post" /\ PostOf(d).id = <<d, run[d]>>
  BY DEF PostOf
<1>6. /\ InFlight(d)' = {PostOf(d)} /\ InFlight(d) = {}
      /\ \A e \in Device \ {d} : InFlight(e)' = InFlight(e)
  BY <1>3, <1>4, <1>5 DEF InFlight
<1>7. RInv'
  BY <1>1, <1>2, <1>3, RInvStep DEF RInv, KnownHashes
<1>8. Posted' = Posted \cup {PostOf(d)}
  <2>1. ASSUME NEW p PROVE p \in Posted' <=> p \in Posted \cup {PostOf(d)}
    BY <1>3, <1>6, PostedMember, PostedMemberNext
  <2> QED
    BY <2>1
<1>9. PostOf(d) \notin Posted
  <2> SUFFICES ASSUME PostOf(d) \in Posted PROVE FALSE
    OBVIOUS
  <2>1. CASE \E e \in Device : PostOf(d) \in InFlight(e) \cup waiting[e]
    <3>1. PICK e \in Device : PostOf(d) \in InFlight(e) \cup waiting[e]
      BY <2>1
    <3>2. PostOf(d) = PostOf(e)
      BY <3>1, InFlightIsPost DEF RInv
    <3>3. e = d
      BY <3>2 DEF PostOf
    <3> QED
      BY <1>2, <1>6, <3>1, <3>3
  <2>2. CASE \E x \in decoded : PostOf(d) = x.packet
    BY <1>2, <1>5, <2>2 DEF RInv, Fresh, DecodedIn
  <2> QED
    BY <2>1, <2>2, PostedMember
<1>10. \A p, q \in Posted' : p.id = q.id => p = q
  BY <1>7, IdsOfNext DEF UniqueIds
<1>11. Abstract!Post
  BY <1>3, <1>8, <1>9, <1>10 DEF Abstract!Post
<1> QED
  BY <1>7, <1>11 DEF Abstract!Next

(* The steps of the server and the network.                                *)

(* A frame read or still to be read: none is skipped. *)
LEMMA HeadOrTail ==
  ASSUME NEW S, NEW s \in Seq(S), s # <<>>
  PROVE  Range(s) \subseteq {Head(s)} \cup Range(Tail(s))
<1>1. Len(s) \in Nat /\ Len(s) # 0 /\ DOMAIN s = 1..Len(s)
  BY LenProperties, EmptySeq
<1>2. /\ Tail(s) \in Seq(S) /\ Len(Tail(s)) = Len(s) - 1 /\ Head(s) = s[1]
      /\ \A i \in 1..Len(Tail(s)) : Tail(s)[i] = s[i + 1]
  BY HeadTailProperties
<1>3. DOMAIN Tail(s) = 1..Len(Tail(s))
  BY <1>2, LenProperties
<1>4. ASSUME NEW i \in 1..Len(s), i # 1
      PROVE  i - 1 \in 1..Len(Tail(s)) /\ Tail(s)[i - 1] = s[i]
  BY <1>1, <1>2, <1>4
<1> SUFFICES ASSUME NEW y \in Range(s)
             PROVE  y = Head(s) \/ y \in Range(Tail(s))
  OBVIOUS
<1>5. PICK i \in 1..Len(s) : y = s[i]
  BY <1>1 DEF Range
<1>6. CASE i = 1
  BY <1>2, <1>5, <1>6
<1>7. CASE i # 1
  BY <1>3, <1>4, <1>5, <1>7 DEF Range
<1> QED
  BY <1>6, <1>7

(* What the server takes off the connection. *)
LEMMA HeadTaken ==
  ASSUME RInv, NEW d \in Device, toServer[d] # <<>>, link[d] = "open",
         NEW response \in Error \cup {"ok", "request_schema"},
         Respond(d, response)
  PROVE  /\ pc' = pc /\ run' = run /\ pc[d] # "connected" /\ run[d] \in 1..MaxRuns
         /\ InFlight(d)' \subseteq InFlight(d)
         /\ InFlight(d) \subseteq InFlight(d)' \cup {Head(toServer[d])}
         /\ Head(toServer[d]).kind = "post" => Head(toServer[d]) \in InFlight(d)
         /\ Head(toServer[d]).kind = "schema" => InFlight(d)' = InFlight(d)
         /\ \A e \in Device \ {d} : InFlight(e)' = InFlight(e)
<1>1. /\ pc' = pc /\ run' = run /\ pc[d] \notin {"exited", "connected"}
      /\ toServer'[d] = Tail(toServer[d])
      /\ \A e \in Device \ {d} : toServer'[e] = toServer[e]
  BY RespondEffect DEF RInv
<1>2. run[d] \in 1..MaxRuns
  BY <1>1 DEF RInv, IInv, DeviceInv, OwnFrames
<1>3. /\ Head(toServer[d]) \in Range(toServer[d])
      /\ Range(toServer'[d]) \subseteq Range(toServer[d])
  BY <1>1, ReadsHead DEF RInv
<1>4. Range(toServer[d]) \subseteq {Head(toServer[d])} \cup Range(toServer'[d])
  <2> DEFINE Frames == Packet \cup SchemaResponse
  <2>1. toServer[d] \in Seq(Frames)
    BY DEF RInv, IInv, TypeOK
  <2> HIDE DEF Frames
  <2> QED
    BY <1>1, <2>1, HeadOrTail
<1> QED
  BY <1>1, <1>2, <1>3, <1>4 DEF InFlight

(* With a schema of its own hash, a packet is decoded by its own schema:   *)
(* DecodePost is the abstract Decode of one packet, or asks for more.      *)
LEMMA DecodePostSimulates ==
  ASSUME RInv, Injective, NEW d \in Device, DecodePost(d)
  PROVE  RInv' /\ Abstract!Next
<1> DEFINE p == Head(toServer[d])
<1>1. toServer[d] # <<>> /\ link[d] = "open" /\ p.kind = "post"
  BY DEF DecodePost, Reads
<1>2. IInv'
  BY DecodePostPreserves DEF RInv
<1>3. p = PostOf(d) /\ p.hash = Digest4(p.body) /\ p.body = SchemaOf[d] /\ p.hash \in Hash
  <2>1. /\ p = PostOf(d) \/ p = [kind |-> "schema", schema |-> SchemaOf[d]]
    BY <1>1, ReadsHead DEF RInv
  <2>2. p.kind = "post"
    BY <1>1
  <2>3. SchemaOf[d] \in Schema
    BY RequestAssumption
  <2> HIDE DEF p
  <2> QED
    BY <2>1, <2>2, <2>3 DEF PostOf, Hash
<1>4. CASE known[p.hash] # NoSchema
  <2>1. /\ decoded' = decoded \cup {[packet |-> p, schema |-> known[p.hash]]}
        /\ Respond(d, "ok") /\ waiting' = waiting /\ known' = known
    BY <1>4 DEF DecodePost
  <2>2. known[p.hash] = p.body
    <3> HIDE DEF p
    <3>1. Digest4(known[p.hash]) = Digest4(p.body)
      BY <1>3, <1>4 DEF RInv, KnownHashes
    <3>2. known[p.hash] \in Schema /\ p.body \in Schema
      BY <1>3, <1>4, RequestAssumption DEF RInv, IInv, TypeOK
    <3> QED
      BY <3>1, <3>2 DEF Injective
  <2>3. /\ pc' = pc /\ run' = run /\ pc[d] # "connected" /\ run[d] \in 1..MaxRuns
        /\ InFlight(d)' \subseteq InFlight(d)
        /\ InFlight(d) \subseteq InFlight(d)' \cup {p} /\ p \in InFlight(d)
        /\ \A e \in Device \ {d} : InFlight(e)' = InFlight(e)
    BY <1>1, <2>1, HeadTaken
  <2> HIDE DEF p
  <2>4. \A x \in decoded' : x \in decoded \/ x.packet = PostOf(d)
    BY <1>3, <2>1
  <2>5. RInv'
    BY <1>2, <2>1, <2>3, <2>4, RInvStep DEF RInv, KnownHashes
  <2>6. p \in Posted
    BY <2>3, PostedMember
  <2>7. Posted' = Posted
    <3>1. \E x \in decoded' : p = x.packet
      <4> DEFINE x == [packet |-> p, schema |-> known[p.hash]]
      <4>1. x \in decoded'
        BY <2>1
      <4>2. p = x.packet
        OBVIOUS
      <4> HIDE DEF x
      <4> QED
        BY <4>1, <4>2
    <3>2. p \in Posted'
      BY <3>1, PostedMemberNext
    <3>3. ASSUME NEW q, q # p PROVE q \in Posted' <=> q \in Posted
      <4>1. (\E x \in decoded' : q = x.packet) <=> (\E x \in decoded : q = x.packet)
        BY <2>1, <3>3
      <4>2. \A e \in Device : q \in InFlight(e)' \cup waiting'[e] <=> q \in InFlight(e) \cup waiting[e]
        BY <2>1, <2>3, <3>3
      <4> QED
        BY <4>1, <4>2, PostedMember, PostedMemberNext
    <3> QED
      BY <2>6, <3>2, <3>3
  <2>8. decoded' = decoded \cup {[packet |-> q, schema |-> q.body] : q \in {p}}
    BY <2>1, <2>2
  <2>9. Abstract!Decode
    BY <2>6, <2>7, <2>8 DEF Abstract!Decode
  <2> QED
    BY <2>5, <2>9 DEF Abstract!Next
<1>5. CASE known[p.hash] = NoSchema
  <2>1. /\ waiting' = [waiting EXCEPT ![d] = {p}]
        /\ Respond(d, "request_schema") /\ decoded' = decoded /\ known' = known
    BY <1>5 DEF DecodePost
  <2>2. /\ pc' = pc /\ run' = run /\ pc[d] # "connected" /\ run[d] \in 1..MaxRuns
        /\ InFlight(d)' \subseteq InFlight(d) /\ p \in InFlight(d)
        /\ \A e \in Device \ {d} : InFlight(e)' = InFlight(e)
    BY <1>1, <2>1, HeadTaken
  <2> HIDE DEF p
  <2>3. waiting'[d] = {p} /\ \A e \in Device \ {d} : waiting'[e] = waiting[e]
    BY <2>1 DEF RInv, IInv, TypeOK
  <2>4. RInv'
    BY <1>2, <2>1, <2>2, RInvStep DEF RInv, KnownHashes
  <2>5. \A e \in Device : InFlight(e)' \cup waiting'[e] \subseteq InFlight(e) \cup waiting[e]
    BY <2>2, <2>3
  <2> QED
    BY <2>1, <2>4, <2>5, LosingStep
<1> QED
  BY <1>4, <1>5

(* A schema that arrives decodes what waits for it: the abstract Decode. *)
LEMMA LearnSchemaSimulates ==
  ASSUME RInv, NEW d \in Device, LearnSchema(d)
  PROVE  RInv' /\ Abstract!Next
<1> DEFINE s == Head(toServer[d]).schema
<1> DEFINE learnt == {[packet |-> p, schema |-> s] : p \in waiting[d]}
<1>1. toServer[d] # <<>> /\ link[d] = "open" /\ Head(toServer[d]).kind = "schema"
  BY DEF LearnSchema, Reads
<1>2. IInv'
  BY LearnSchemaPreserves DEF RInv
<1>3. s = SchemaOf[d]
  <2> DEFINE frame == Head(toServer[d])
  <2>1. frame = PostOf(d) \/ frame = [kind |-> "schema", schema |-> SchemaOf[d]]
    BY <1>1, ReadsHead DEF RInv
  <2>2. frame.kind = "schema"
    BY <1>1
  <2> HIDE DEF frame
  <2>3. frame.schema = SchemaOf[d]
    BY <2>1, <2>2 DEF PostOf
  <2> QED
    BY <2>3 DEF frame
<1>4. /\ known' = [h \in Hash |-> IF \E p \in waiting[d] : p.hash = h THEN s ELSE known[h]]
      /\ decoded' = decoded \cup learnt
      /\ waiting' = [waiting EXCEPT ![d] = {}]
      /\ Respond(d, "ok")
  BY DEF LearnSchema
<1>5. waiting[d] \subseteq {PostOf(d)}
  BY InFlightIsPost DEF RInv
<1>6. PostOf(d).hash = Digest4(SchemaOf[d]) /\ PostOf(d).body = SchemaOf[d]
  BY DEF PostOf
<1>7. /\ pc' = pc /\ run' = run /\ pc[d] # "connected" /\ run[d] \in 1..MaxRuns
      /\ InFlight(d)' = InFlight(d)
      /\ \A e \in Device \ {d} : InFlight(e)' = InFlight(e)
  BY <1>1, <1>4, HeadTaken
<1> HIDE DEF s
<1>8. learnt = {[packet |-> p, schema |-> p.body] : p \in waiting[d]}
  BY <1>3, <1>5, <1>6
<1>9. \A x \in learnt : x.packet \in waiting[d]
  OBVIOUS
<1>10. ASSUME NEW p \in waiting[d]
       PROVE  \E x \in learnt : p = x.packet
  <2> DEFINE x == [packet |-> p, schema |-> s]
  <2>1. x \in learnt
    OBVIOUS
  <2>2. p = x.packet
    OBVIOUS
  <2> HIDE DEF x, learnt
  <2> QED
    BY <2>1, <2>2
<1> HIDE DEF learnt
<1>11. KnownHashes'
  BY <1>3, <1>4, <1>5, <1>6 DEF RInv, KnownHashes
<1>12. \A x \in decoded' : x \in decoded \/ x.packet = PostOf(d)
  BY <1>4, <1>5, <1>9
<1>13. RInv'
  BY <1>2, <1>7, <1>11, <1>12, RInvStep
<1>14. waiting'[d] = {} /\ \A e \in Device \ {d} : waiting'[e] = waiting[e]
  BY <1>4 DEF RInv, IInv, TypeOK
<1>15. Posted' = Posted
  <2> SUFFICES ASSUME NEW q PROVE q \in Posted' <=> q \in Posted
    OBVIOUS
  <2>1. (\E x \in decoded' : q = x.packet) <=> (\E x \in decoded : q = x.packet) \/ q \in waiting[d]
    BY <1>4, <1>9, <1>10
  <2>2. (\E e \in Device : q \in InFlight(e) \cup waiting[e])
          <=> (\E e \in Device : q \in InFlight(e)' \cup waiting'[e]) \/ q \in waiting[d]
    BY <1>7, <1>14
  <2> QED
    BY <2>1, <2>2, PostedMember, PostedMemberNext
<1>16. waiting[d] \subseteq Posted
  BY PostedMember
<1>17. Abstract!Decode
  BY <1>4, <1>8, <1>15, <1>16 DEF Abstract!Decode
<1> QED
  BY <1>13, <1>17 DEF Abstract!Next

(* A refusal loses the packet. *)
LEMMA RefuseSimulates ==
  ASSUME RInv, NEW d \in Device, Refuse(d)
  PROVE  RInv' /\ Abstract!Next
<1>1. IInv'
  BY RefusePreserves DEF RInv
<1>2. PICK e \in Error : Respond(d, e)
  BY DEF Refuse
<1>3. /\ toServer[d] # <<>> /\ link[d] = "open"
      /\ waiting' = [waiting EXCEPT ![d] = {}] /\ known' = known /\ decoded' = decoded
  BY DEF Refuse, Reads
<1>4. /\ pc' = pc /\ run' = run /\ pc[d] # "connected" /\ run[d] \in 1..MaxRuns
      /\ InFlight(d)' \subseteq InFlight(d)
      /\ \A c \in Device \ {d} : InFlight(c)' = InFlight(c)
  BY <1>2, <1>3, HeadTaken
<1>5. waiting'[d] = {} /\ \A c \in Device \ {d} : waiting'[c] = waiting[c]
  BY <1>3 DEF RInv, IInv, TypeOK
<1>6. RInv'
  BY <1>1, <1>3, <1>4, RInvStep DEF RInv, KnownHashes
<1> QED
  BY <1>3, <1>4, <1>5, <1>6, LosingStep

(* So does a connection that breaks. *)
LEMMA BreakSimulates ==
  ASSUME RInv, NEW d \in Device, Break(d)
  PROVE  RInv' /\ Abstract!Next
<1>1. IInv'
  BY BreakPreserves DEF RInv
<1>2. /\ toServer'[d] = <<>> /\ waiting'[d] = {}
      /\ pc' = pc /\ run' = run /\ decoded' = decoded /\ known' = known
      /\ \A e \in Device \ {d} : toServer'[e] = toServer[e] /\ waiting'[e] = waiting[e]
  BY DEF RInv, IInv, TypeOK, Break
<1>3. \A e \in Device : InFlight(e)' \cup waiting'[e] \subseteq InFlight(e) \cup waiting[e]
  BY <1>2, EmptyRange DEF InFlight
<1>4. RInv'
  BY <1>1, <1>2 DEF RInv, DecodedOwn, Fresh, KnownHashes, DecodedIn
<1> QED
  BY <1>2, <1>3, <1>4, LosingStep

------------------------------------------------------------------------------
(* Nothing is posted at the start. *)
LEMMA InitSimulates == Init => RInv /\ Abstract!Init
<1> SUFFICES ASSUME Init PROVE RInv /\ Abstract!Init
  OBVIOUS
<1>1. RInv
  BY InitHolds DEF Init, RInv, DecodedOwn, Fresh, KnownHashes
<1>2. ASSUME NEW p PROVE p \notin Posted
  BY PostedMember, EmptyRange DEF Init, InFlight
<1>3. decoded = {}
  BY DEF Init
<1> QED
  BY <1>1, <1>2, <1>3 DEF Abstract!Init

(* Every step is an abstract step or a stutter. *)
LEMMA StepSimulates ==
  ASSUME Injective
  PROVE  RInv /\ [Next]_vars => RInv' /\ [Abstract!Next]_(Abstract!vars)
<1> SUFFICES ASSUME RInv, [Next]_vars PROVE RInv' /\ [Abstract!Next]_(Abstract!vars)
  OBVIOUS
<1>1. CASE UNCHANGED vars
  <2>1. IInv'
    BY <1>1, NextPreserves DEF RInv
  <2>2. RInv'
    BY <1>1, <2>1 DEF vars, wire, RInv, DecodedOwn, Fresh, DecodedIn, KnownHashes
  <2>3. ASSUME NEW q PROVE q \in Posted' <=> q \in Posted
    BY <1>1, PostedMember, PostedMemberNext DEF vars, wire, InFlight
  <2>4. decoded' = decoded
    BY <1>1 DEF vars
  <2> QED
    BY <2>2, <2>3, <2>4 DEF Abstract!vars
<1>2. ASSUME NEW d \in Device, Connect(d) PROVE RInv' /\ Abstract!Next
  BY <1>2, ConnectSimulates
<1>3. ASSUME NEW d \in Device, Client(d) PROVE RInv' /\ Abstract!Next
  BY <1>3, SendPostSimulates, SendSchemaSimulates, ReceiveSchemaRequestSimulates,
     EndsSimulate DEF Client
<1>4. ASSUME NEW d \in Device, Server(d) PROVE RInv' /\ Abstract!Next
  BY <1>4, DecodePostSimulates, LearnSchemaSimulates, RefuseSimulates DEF Server
<1>5. ASSUME NEW d \in Device, Break(d) PROVE RInv' /\ Abstract!Next
  BY <1>5, BreakSimulates
<1> QED
  BY <1>1, <1>2, <1>3, <1>4, <1>5 DEF Next

(* The binary request implements schema-on-write: if no two schemas have   *)
(* the same digest, whatever devices teach the server at the same time,    *)
(* every packet is decoded by the schema its device encoded it by.         *)
THEOREM Implementation ==
  ASSUME Injective
  PROVE  Spec => DecodesByOwnSchema
<1>1. Init => RInv /\ Abstract!Init
  BY InitSimulates
<1>2. RInv /\ [Next]_vars => RInv' /\ [Abstract!Next]_(Abstract!vars)
  BY StepSimulates
<1> QED
  BY <1>1, <1>2, PTL DEF Spec, DecodesByOwnSchema, Abstract!Spec
==============================================================================
