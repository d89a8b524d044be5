----------------------- MODULE SensocolWebSocketProofs -----------------------
(***************************************************************************)
(* The Ruby client keeps the schemas of what it posted, and answers with   *)
(* them, for any features, any number of packets and any digest.           *)
(***************************************************************************)
EXTENDS SensocolWebSocket, SequenceTheorems, TLAPS

------------------------------------------------------------------------------
(* Sequences as channels. *)

LEMMA AppendRange ==
  ASSUME NEW S, NEW s \in Seq(S), NEW e
  PROVE  Range(Append(s, e)) = Range(s) \cup {e}
<1>1. Len(s) \in Nat /\ DOMAIN s = 1..Len(s)
  BY LenProperties
<1>2. DOMAIN Append(s, e) = 1..(Len(s) + 1)
  OBVIOUS
<1>3. /\ \A i \in 1..Len(s) : Append(s, e)[i] = s[i]
      /\ Append(s, e)[Len(s) + 1] = e
  BY <1>1
<1>4. \A x : x \in Range(Append(s, e)) => x \in Range(s) \cup {e}
  BY <1>1, <1>2, <1>3 DEF Range
<1>5. \A x : x \in Range(s) \cup {e} => x \in Range(Append(s, e))
  <2>1. \A i \in 1..Len(s) : i \in 1..(Len(s) + 1)
    BY <1>1
  <2>2. Len(s) + 1 \in 1..(Len(s) + 1)
    BY <1>1
  <2> QED
    BY <1>1, <1>2, <1>3, <2>1, <2>2 DEF Range
<1> QED
  BY <1>4, <1>5

LEMMA TailRange ==
  ASSUME NEW S, NEW s \in Seq(S), s # <<>>
  PROVE  /\ Head(s) \in Range(s) /\ Head(s) \in S
         /\ Tail(s) \in Seq(S)
         /\ Range(Tail(s)) \subseteq Range(s)
<1>1. Len(s) \in Nat /\ Len(s) # 0 /\ DOMAIN s = 1..Len(s)
  BY LenProperties, EmptySeq
<1>2. /\ Head(s) \in S /\ Tail(s) \in Seq(S)
      /\ Len(Tail(s)) = Len(s) - 1
      /\ \A i \in 1..Len(Tail(s)) : Tail(s)[i] = s[i + 1]
  BY HeadTailProperties
<1>3. Head(s) = s[1] /\ 1 \in 1..Len(s)
  BY <1>1
<1>4. \A i \in 1..Len(Tail(s)) : i + 1 \in 1..Len(s)
  BY <1>1, <1>2
<1>5. DOMAIN Tail(s) = 1..Len(Tail(s))
  BY <1>2, LenProperties
<1> QED
  BY <1>1, <1>2, <1>3, <1>4, <1>5 DEF Range

LEMMA AppendMember ==
  ASSUME NEW S, NEW s \in Seq(S), NEW e \in S
  PROVE  Append(s, e) \in Seq(S)
BY AppendProperties

------------------------------------------------------------------------------
(* Features and schemas. *)

LEMMA FeatureListSeq ==
  FeatureList = {s \in Seq(Feature) : Len(s) <= MaxFeatures}
<1>1. ASSUME NEW s \in FeatureList
      PROVE  s \in Seq(Feature) /\ Len(s) <= MaxFeatures
  <2>1. PICK n \in 0..MaxFeatures : s \in [1..n -> Feature]
    BY DEF FeatureList
  <2>2. n \in Nat /\ n <= MaxFeatures
    BY <2>1, BoundsAssumption
  <2>3. s \in Seq(Feature)
    BY <2>1, <2>2
  <2>4. Len(s) = n
    BY <2>1, <2>2, <2>3, LenProperties
  <2> QED
    BY <2>2, <2>3, <2>4
<1>2. ASSUME NEW s \in Seq(Feature), Len(s) <= MaxFeatures
      PROVE  s \in FeatureList
  <2>1. Len(s) \in 0..MaxFeatures /\ s \in [1..Len(s) -> Feature]
    BY <1>2, LenProperties, BoundsAssumption
  <2> QED
    BY <2>1 DEF FeatureList
<1> QED
  BY <1>1, <1>2

LEMMA FeatureListAppend ==
  ASSUME NEW s \in FeatureList, NEW f \in Feature, Len(s) < MaxFeatures
  PROVE  Append(s, f) \in FeatureList
<1>1. s \in Seq(Feature)
  BY FeatureListSeq
<1>2. Append(s, f) \in Seq(Feature) /\ Len(Append(s, f)) = Len(s) + 1
  BY <1>1, AppendProperties
<1>3. Len(s) + 1 <= MaxFeatures
  BY <1>1, BoundsAssumption, LenProperties
<1> QED
  BY <1>2, <1>3, FeatureListSeq

LEMMA FeatureListEmpty == <<>> \in FeatureList
BY FeatureListSeq, BoundsAssumption, EmptySeq

LEMMA HashType == \A s \in Schema : Digest4(s) \in Hash
BY DEF Hash

------------------------------------------------------------------------------
(* Types. TypeOK alone is not inductive: add appends to two lists that     *)
(* have to be of the same length, send counts a packet that Register let   *)
(* in, and the listener answers from what LookUp left in its hands.        *)

DataIsShared == data = arrays[feature_schema]
SendingCounted == main = "registered" => sends < MaxSends
ListedAllocated ==
  \A h \in Hash :
    schema_list[h] # NoEntry => schema_list[h].features <= feature_schema
HoldingEntry ==
  listener = "found" => /\ held \in [hash : Hash, entry : Entry]
                        /\ held.entry.features <= feature_schema

TypeInv ==
  /\ TypeOK
  /\ DataIsShared
  /\ SendingCounted
  /\ ListedAllocated
  /\ HoldingEntry

LEMMA CodecTypes ==
  ASSUME TypeInv
  PROVE  /\ feature_schema \in Ref /\ feature_schema \in 1..Len(arrays)
         /\ DOMAIN arrays = 1..Len(arrays)
         /\ RawSchema \in Entry
         /\ \A e \in Entry : e.features <= Len(arrays) => Content(e) \in Schema
         /\ HashOfSchema \in Hash
         /\ DataWithHeaders = Content(RawSchema)
         /\ DataWithHeaders \in Schema
<1>1. /\ arrays \in Seq(FeatureList) /\ Len(arrays) \in Ref
      /\ data \in FeatureList /\ timestamp \in BOOLEAN
      /\ data = arrays[Len(arrays)]
  BY DEF TypeInv, TypeOK, DataIsShared, feature_schema
<1>2. DOMAIN arrays = 1..Len(arrays) /\ Len(arrays) \in 1..Len(arrays)
  BY <1>1, LenProperties, BoundsAssumption DEF Ref
<1>3. RawSchema \in Entry
  BY <1>1 DEF RawSchema, Entry, feature_schema
<1>4. \A e \in Entry : e.features <= Len(arrays) => Content(e) \in Schema
  <2> SUFFICES ASSUME NEW e \in Entry, e.features <= Len(arrays)
               PROVE  Content(e) \in Schema
    OBVIOUS
  <2>1. e.features \in 1..Len(arrays) /\ e.timestamp \in BOOLEAN
    BY <1>1, BoundsAssumption DEF Entry, Ref
  <2>2. arrays[e.features] \in FeatureList
    BY <2>1, <1>1, ElementOfSeq
  <2> QED
    BY <2>1, <2>2 DEF Content, Schema
<1>5. DataWithHeaders = Content(RawSchema)
  BY <1>1 DEF DataWithHeaders, Content, RawSchema, feature_schema
<1>6. DataWithHeaders \in Schema
  BY <1>1 DEF DataWithHeaders, Schema
<1>7. HashOfSchema \in Hash
  BY <1>5, <1>6, HashType DEF HashOfSchema
<1> QED
  BY <1>1, <1>2, <1>3, <1>4, <1>5, <1>6, <1>7 DEF feature_schema

LEMMA TypeInitially == Init => TypeInv
<1> SUFFICES ASSUME Init PROVE TypeInv
  OBVIOUS
<1>1. data = <<>> /\ arrays = <<data>> /\ data \in FeatureList
  BY FeatureListEmpty DEF Init
<1>2. arrays \in Seq(FeatureList) /\ Len(arrays) = 1 /\ arrays[1] = data
  BY <1>1
<1>3. TypeOK
  <2>1. feature_schema \in Ref /\ sends \in 0..MaxSends /\ asks \in 0..MaxAsks
    BY <1>2, BoundsAssumption DEF Init, feature_schema, Ref
  <2>2. /\ schema_list \in [Hash -> Entry \cup {NoEntry}]
        /\ known \in [Hash -> Schema \cup {NoEntry}]
    BY DEF Init
  <2>3. /\ toServer \in Seq(Packet \cup Response \cup {Close})
        /\ toClient \in Seq(Request \cup Stray \cup {Close})
    BY EmptySeq DEF Init
  <2> QED
    BY <1>1, <1>2, <2>1, <2>2, <2>3 DEF Init, TypeOK
<1> QED
  BY <1>2, <1>3 DEF Init, TypeInv, DataIsShared, SendingCounted, ListedAllocated, HoldingEntry,
                    feature_schema

(* The steps of the codec change the lists together. *)
LEMMA CodecKeepsTypes ==
  TypeInv /\ (SetTimestamp \/ SetFeatures \/ Add) => TypeInv'
<1> SUFFICES ASSUME TypeInv, SetTimestamp \/ SetFeatures \/ Add PROVE TypeInv'
  OBVIOUS
<1> USE DEF TypeInv, DataIsShared, SendingCounted, ListedAllocated, HoldingEntry,
           threads, server
<1>1. CASE SetTimestamp
  BY <1>1 DEF SetTimestamp, TypeOK, feature_schema
<1>2. CASE SetFeatures
  <2>1. PICK fs \in FeatureHash : data' = fs /\ arrays' = Append(arrays, fs)
    BY <1>2 DEF SetFeatures, FreshArray
  <2>2. fs \in FeatureList /\ Len(arrays) < MaxArrays /\ Len(arrays) \in Nat
    BY <1>2, BoundsAssumption
       DEF SetFeatures, FeatureHash, TypeOK, feature_schema, Ref
  <2>3. /\ arrays' \in Seq(FeatureList) /\ Len(arrays') = Len(arrays) + 1
        /\ arrays'[Len(arrays')] = fs
    BY <2>1, <2>2, AppendProperties DEF TypeOK
  <2>4. Len(arrays') \in Ref
    BY <2>2, <2>3, BoundsAssumption DEF Ref
  <2>5. ListedAllocated' /\ HoldingEntry'
    <3>1. \A e \in Entry :
            e.features <= Len(arrays) => e.features <= Len(arrays')
      BY <2>2, <2>3, BoundsAssumption DEF Entry, Ref
    <3>2. /\ schema_list' = schema_list /\ held' = held /\ listener' = listener
          /\ \A h \in Hash : schema_list[h] # NoEntry => schema_list[h] \in Entry
      BY <1>2 DEF SetFeatures, TypeOK
    <3> QED
      BY <3>1, <3>2 DEF feature_schema
  <2>6. TypeOK'
    BY <1>2, <2>1, <2>2, <2>3, <2>4 DEF SetFeatures, TypeOK, feature_schema
  <2> QED
    BY <1>2, <2>1, <2>3, <2>5, <2>6 DEF SetFeatures, feature_schema
<1>3. CASE Add
  <2>1. PICK f \in Feature :
          /\ data' = Append(data, f)
          /\ arrays' = [arrays EXCEPT ![feature_schema] = Append(@, f)]
    BY <1>3 DEF Add
  <2>2. feature_schema \in 1..Len(arrays) /\ feature_schema = Len(arrays)
    BY CodecTypes DEF feature_schema
  <2>3. data' \in FeatureList
    BY <1>3, <2>1, FeatureListAppend DEF Add, TypeOK
  <2>4. arrays' = [arrays EXCEPT ![feature_schema] = data']
    BY <2>1
  <2>5. /\ arrays' \in Seq(FeatureList) /\ Len(arrays') = Len(arrays)
        /\ arrays'[feature_schema] = data'
    BY <2>2, <2>3, <2>4, ExceptSeq DEF TypeOK
  <2> QED
    BY <1>3, <2>2, <2>3, <2>5 DEF Add, TypeOK, feature_schema
<1> QED
  BY <1>1, <1>2, <1>3

(* The wire of the client, and that of the server. *)
ClientFrame == Packet \cup Response \cup {Close}
ServerFrame == Request \cup Stray \cup {Close}

LEMMA MainKeepsTypes ==
  TypeInv /\ (Register \/ Transmit \/ MainBroken \/ MainExit) => TypeInv'
<1> SUFFICES ASSUME TypeInv, Register \/ Transmit \/ MainBroken \/ MainExit
             PROVE  TypeInv'
  OBVIOUS
<1> USE DEF TypeInv, DataIsShared, SendingCounted, ListedAllocated, HoldingEntry,
           feature_schema
<1>1. CASE Register
  <2>1. schema_list' = [schema_list EXCEPT ![HashOfSchema] = RawSchema]
    BY <1>1 DEF Register, Listed
  <2>2. schema_list' \in [Hash -> Entry \cup {NoEntry}]
    BY <2>1, CodecTypes DEF TypeOK
  <2>3. ListedAllocated'
    <3>1. RawSchema.features <= Len(arrays) /\ arrays' = arrays
      BY <1>1, CodecTypes, BoundsAssumption DEF Register, codec, RawSchema, Ref
    <3>2. \A h \in Hash : schema_list'[h] = RawSchema
                          \/ schema_list'[h] = schema_list[h]
      BY <2>1 DEF TypeOK
    <3> QED
      BY <3>1, <3>2
  <2> QED
    BY <1>1, <2>2, <2>3 DEF Register, TypeOK, codec, server
<1>2. CASE Transmit
  <2>1. main = "registered" /\ sends + 1 \in 1..MaxSends
    BY <1>2, BoundsAssumption DEF Transmit, MainAt, TypeOK
  <2>2. PacketFrame \in Packet
    BY <2>1, CodecTypes DEF PacketFrame, Packet
  <2>3. toServer' \in Seq(ClientFrame)
    BY <1>2, <2>2, AppendMember DEF Transmit, TypeOK, ClientFrame
  <2>4. sends' \in 0..MaxSends
    BY <1>2, <2>1, BoundsAssumption DEF Transmit
  <2>5. data' = data /\ arrays' = arrays /\ main' = "idle" /\ timestamp' = FALSE
    BY <1>2 DEF Transmit
  <2> QED
    BY <1>2, <2>3, <2>4, <2>5 DEF Transmit, TypeOK, server, ClientFrame
<1>3. CASE MainBroken
  BY <1>3 DEF MainBroken, TypeOK, codec, server
<1>4. CASE MainExit
  BY <1>4 DEF MainExit, TypeOK, codec, server
<1> QED
  BY <1>1, <1>2, <1>3, <1>4

LEMMA CloseFrameType ==
  TypeInv /\ WriteCloseFrame => toServer' \in Seq(ClientFrame)
BY AppendMember DEF TypeInv, TypeOK, WriteCloseFrame, ClientFrame

LEMMA CloseKeepsTypes ==
  TypeInv /\ (Trap \/ PeerCloseBegin \/ PeerCloseEnd) => TypeInv'
<1> SUFFICES ASSUME TypeInv, Trap \/ PeerCloseBegin \/ PeerCloseEnd
             PROVE  TypeInv'
  OBVIOUS
<1> USE DEF TypeInv, DataIsShared, SendingCounted, ListedAllocated, HoldingEntry,
           feature_schema
<1>1. CASE TrapCloseBegin
  <2>1. toServer' \in Seq(ClientFrame)
    BY <1>1, CloseFrameType DEF TrapCloseBegin
  <2> QED
    BY <1>1, <2>1 DEF TrapCloseBegin, TypeOK, codec, server, ClientFrame
<1>2. CASE TrapCloseEnd
  BY <1>2 DEF TrapCloseEnd, TypeOK, codec, server
<1>3. CASE PeerCloseBegin
  <2>1. toServer' \in Seq(ClientFrame)
    BY <1>3, CloseFrameType DEF PeerCloseBegin
  <2>2. toClient' \in Seq(ServerFrame)
    BY <1>3, TailRange DEF PeerCloseBegin, Received, TypeOK, ServerFrame
  <2> QED
    BY <1>3, <2>1, <2>2
       DEF PeerCloseBegin, TypeOK, codec, server, ClientFrame, ServerFrame
<1>4. CASE PeerCloseEnd
  BY <1>4 DEF PeerCloseEnd, TypeOK, codec, server
<1> QED
  BY <1>1, <1>2, <1>3, <1>4 DEF Trap

LEMMA RequestByKind ==
  \A m \in ServerFrame : m.kind = "schema_request" => m \in Request
<1> SUFFICES ASSUME NEW m \in ServerFrame, m.kind = "schema_request"
             PROVE  m \in Request
  OBVIOUS
<1>1. m # Close
  BY DEF Close
<1>2. ASSUME m \in Stray PROVE FALSE
  <2>1. m.kind \in Strays
    BY <1>2 DEF Stray
  <2> QED
    BY <2>1, ModeAssumption
<1> QED
  BY <1>1, <1>2 DEF ServerFrame

LEMMA ListenerKeepsTypes ==
  TypeInv /\ (LookUp \/ Respond \/ Ignore \/ ListenerDies \/ ListenerExit)
    => TypeInv'
<1> SUFFICES ASSUME TypeInv,
                    LookUp \/ Respond \/ Ignore \/ ListenerDies \/ ListenerExit
             PROVE  TypeInv'
  OBVIOUS
<1> USE DEF TypeInv, DataIsShared, SendingCounted, ListedAllocated, HoldingEntry,
           feature_schema
<1>1. ASSUME toClient # <<>>
      PROVE  /\ Head(toClient) \in ServerFrame
             /\ Tail(toClient) \in Seq(ServerFrame)
  BY <1>1, TailRange DEF TypeOK, ServerFrame
<1>2. CASE LookUp
  <2> DEFINE h == Head(toClient).hash
  <2>1. h \in Hash
    BY <1>1, <1>2, RequestByKind DEF LookUp, Received, Request
  <2>2. toClient' \in Seq(ServerFrame)
    BY <1>1, <1>2 DEF LookUp, Received
  <2>3. CASE schema_list[h] # NoEntry
    <3>1. schema_list[h] \in Entry /\ schema_list[h].features <= Len(arrays)
      BY <2>1, <2>3 DEF TypeOK
    <3>2. held' = [hash |-> h, entry |-> schema_list[h]] /\ listener' = "found"
      BY <1>2, <2>3 DEF LookUp, Held
    <3>3. /\ held' \in [hash : Hash, entry : Entry]
          /\ held'.entry.features <= Len(arrays)
      BY <2>1, <3>1, <3>2
    <3>4. UNCHANGED <<codec, schema_list, sends, main, trap, closing_started,
                      process, toServer, server>>
      BY <1>2 DEF LookUp
    <3> QED
      BY <2>2, <3>2, <3>3, <3>4 DEF TypeOK, codec, server, ServerFrame
  <2>4. CASE schema_list[h] = NoEntry
    BY <1>2, <2>2, <2>4 DEF LookUp, TypeOK, codec, server, ServerFrame
  <2> QED
    BY <2>3, <2>4
<1>3. CASE Respond
  <2>1. held.hash \in Hash /\ Content(held.entry) \in Schema
    BY <1>3, CodecTypes DEF Respond, ListenerAt
  <2>2. ResponseFrame \in Response
    BY <2>1 DEF ResponseFrame, Response
  <2>3. toServer' \in Seq(ClientFrame)
    BY <1>3, <2>2, AppendMember DEF Respond, TypeOK, ClientFrame
  <2> QED
    BY <1>3, <2>3 DEF Respond, TypeOK, codec, server, ClientFrame
<1>4. CASE Ignore
  BY <1>1, <1>4
     DEF Ignore, Received, TypeOK, codec, threads, server, ServerFrame
<1>5. CASE ListenerDies
  <2>1. toClient' \in Seq(ServerFrame)
    BY <1>1, <1>5 DEF ListenerDies, Received, TypeOK, ServerFrame
  <2> QED
    BY <1>5, <2>1 DEF ListenerDies, TypeOK, codec, server, ServerFrame
<1>6. CASE ListenerExit
  BY <1>6 DEF ListenerExit, TypeOK, codec, server
<1> QED
  BY <1>2, <1>3, <1>4, <1>5, <1>6

LEMMA ServerKeepsTypes == TypeInv /\ Server => TypeInv'
<1> SUFFICES ASSUME TypeInv, Server PROVE TypeInv'
  OBVIOUS
<1> USE DEF TypeInv, DataIsShared, SendingCounted, ListedAllocated, HoldingEntry,
           feature_schema
<1>1. ASSUME toServer # <<>>
      PROVE  /\ Head(toServer) \in ClientFrame
             /\ Tail(toServer) \in Seq(ClientFrame)
  BY <1>1, TailRange DEF TypeOK, ClientFrame
<1>2. \A m \in ServerFrame : Append(toClient, m) \in Seq(ServerFrame)
  BY AppendMember DEF TypeOK, ServerFrame
<1>3. \A h \in Hash : Ask(h) \in ServerFrame
  BY DEF Ask, Request, ServerFrame
<1>4. CASE ServerTakesPacket
  <2> DEFINE p == Head(toServer)
  <2>1. p \in Packet /\ toServer' \in Seq(ClientFrame)
    BY <1>1, <1>4
       DEF ServerTakesPacket, Reads, ClientFrame, Packet, Response, Close
  <2>2. p.hash \in Hash
    BY <2>1 DEF Packet
  <2>3. CASE known[p.hash] # NoEntry
    <3>1. known[p.hash] \in Schema
      BY <2>2, <2>3 DEF TypeOK
    <3>2. decoded' = decoded \cup {[packet |-> p, schema |-> known[p.hash]]}
      BY <1>4, <2>3 DEF ServerTakesPacket, DecodedWith
    <3>3. decoded' \subseteq [packet : Packet, schema : Schema]
      BY <2>1, <3>1, <3>2 DEF TypeOK
    <3> QED
      BY <1>4, <2>1, <2>3, <3>3
         DEF ServerTakesPacket, TypeOK, codec, threads, ClientFrame
  <2>4. CASE known[p.hash] = NoEntry
    <3>1. toClient' \in Seq(ServerFrame) /\ pending' \subseteq Packet
      BY <1>2, <1>3, <1>4, <2>1, <2>2, <2>4 DEF ServerTakesPacket, TypeOK
    <3> QED
      BY <1>4, <2>1, <2>4, <3>1
         DEF ServerTakesPacket, TypeOK, codec, threads, ClientFrame, ServerFrame
  <2> QED
    BY <2>3, <2>4
<1>5. CASE ServerTakesResponse
  <2> DEFINE r == Head(toServer)
             released == {p \in pending : p.hash = r.hash}
  <2>1. r \in Response /\ toServer' \in Seq(ClientFrame)
    BY <1>1, <1>5
       DEF ServerTakesResponse, Reads, ClientFrame, Packet, Response, Close
  <2>2. r.hash \in Hash /\ r.schema \in Schema
    BY <2>1 DEF Response
  <2>3. /\ known' = [known EXCEPT ![r.hash] = r.schema]
        /\ decoded' = decoded \cup DecodedWith(released, r.schema)
        /\ pending' = pending \ released
    BY <1>5 DEF ServerTakesResponse
  <2>4. known' \in [Hash -> Schema \cup {NoEntry}] /\ pending' \subseteq Packet
    BY <2>2, <2>3 DEF TypeOK
  <2>5. decoded' \subseteq [packet : Packet, schema : Schema]
    BY <2>2, <2>3 DEF TypeOK, DecodedWith
  <2> QED
    BY <1>5, <2>1, <2>4, <2>5
       DEF ServerTakesResponse, TypeOK, codec, threads, ClientFrame
<1>6. CASE ServerSpeaks
  <2>1. toClient' \in Seq(ServerFrame)
    <3>1. \A kind \in Strays : [kind |-> kind] \in ServerFrame
      BY DEF Stray, ServerFrame
    <3> QED
      BY <1>2, <1>3, <1>6, <3>1 DEF ServerSpeaks
  <2>2. asks' \in 0..MaxAsks
    BY <1>6, BoundsAssumption DEF ServerSpeaks, TypeOK
  <2> QED
    BY <1>6, <2>1, <2>2 DEF ServerSpeaks, TypeOK, codec, threads, ServerFrame
<1>7. CASE ServerCloses
  BY <1>2, <1>7 DEF ServerCloses, TypeOK, codec, threads, ServerFrame
<1>8. CASE ServerTakesClose
  BY <1>1, <1>2, <1>8
     DEF ServerTakesClose, TypeOK, codec, threads, ClientFrame, ServerFrame
<1>9. CASE ServerDiscards
  BY <1>1, <1>9
     DEF ServerDiscards, TypeOK, codec, threads, server, ClientFrame
<1>10. CASE ConnectionLost
  BY <1>10 DEF ConnectionLost, TypeOK, codec, threads
<1> QED
  BY <1>4, <1>5, <1>6, <1>7, <1>8, <1>9, <1>10 DEF Server, ServerReads

LEMMA StutterKeepsTypes == TypeInv /\ UNCHANGED vars => TypeInv'
BY DEF vars, codec, threads, server, TypeInv, TypeOK, DataIsShared,
       SendingCounted, ListedAllocated, HoldingEntry, feature_schema

LEMMA TypeInvariant == Spec => []TypeInv
<1>1. TypeInv /\ [Next]_vars => TypeInv'
  BY CodecKeepsTypes, MainKeepsTypes, CloseKeepsTypes, ListenerKeepsTypes,
     ServerKeepsTypes, StutterKeepsTypes DEF Next, Main, Listener
<1> QED
  BY TypeInitially, <1>1, PTL DEF Spec

(* The variables keep their types: in particular the listener never tries  *)
(* to answer from an entry it did not find.                                *)
THEOREM TypeCorrectness == Spec => []TypeOK
<1>1. TypeInv => TypeOK
  BY DEF TypeInv
<1> QED
  BY TypeInvariant, <1>1, PTL

------------------------------------------------------------------------------
(* What a step puts on the wire of the client.                             *)

LEMMA WireStep ==
  ASSUME TypeInv, [Next]_vars,
         NEW m \in Range(toServer'), m \notin Range(toServer), m # Close
  PROVE  \/ Transmit /\ m = PacketFrame
         \/ Respond /\ m = ResponseFrame
<1>1. toServer \in Seq(ClientFrame)
  BY DEF TypeInv, TypeOK, ClientFrame
<1>2. toServer' # toServer
  OBVIOUS
<1>3. \A e : toServer' = Append(toServer, e) => m = e
  BY <1>1, AppendRange
<1>4. ~(toServer # <<>> /\ toServer' = Tail(toServer))
  BY <1>1, TailRange
<1>5. CASE Transmit
  BY <1>3, <1>5 DEF Transmit
<1>6. CASE Respond
  BY <1>3, <1>6 DEF Respond
<1>7. ~WriteCloseFrame
  BY <1>2, <1>3 DEF WriteCloseFrame
<1>8. ~SetTimestamp /\ ~SetFeatures /\ ~Add /\ ~Register /\ ~MainBroken /\ ~MainExit
  BY <1>2 DEF SetTimestamp, SetFeatures, Add, Register, MainBroken, MainExit
<1>9. ~Trap /\ ~PeerCloseBegin /\ ~PeerCloseEnd
  BY <1>2, <1>7
     DEF Trap, TrapCloseBegin, TrapCloseEnd, PeerCloseBegin, PeerCloseEnd
<1>10. ~LookUp /\ ~Ignore /\ ~ListenerDies /\ ~ListenerExit
  BY <1>2 DEF LookUp, Ignore, ListenerDies, ListenerExit
<1>11. ~ServerReads
  BY <1>4 DEF ServerReads, ServerTakesPacket, ServerTakesResponse,
              ServerTakesClose, ServerDiscards, Reads
<1>12. ~ServerSpeaks /\ ~ServerCloses /\ ~ConnectionLost
  BY <1>2 DEF ServerSpeaks, ServerCloses, ConnectionLost
<1>13. ~UNCHANGED vars
  BY <1>2 DEF vars
<1> QED
  BY <1>5, <1>6, <1>8, <1>9, <1>10, <1>11, <1>12, <1>13
     DEF Next, Main, Listener, Server

(* Only the packet sent is posted anew. *)
LEMMA PostedStep ==
  ASSUME TypeInv, [Next]_vars,
         NEW p \in Posted', p \notin Posted
  PROVE  Transmit /\ p = PacketFrame
<1>1. ASSUME p \in Frames("data")' PROVE Transmit /\ p = PacketFrame
  <2>1. p \in Range(toServer') /\ p.kind = "data"
    BY <1>1 DEF Frames
  <2>2. p \notin Range(toServer) /\ p # Close
    BY <2>1 DEF Posted, Frames, Close
  <2> QED
    BY <2>1, <2>2, WireStep DEF ResponseFrame
<1>2. CASE ServerTakesPacket
  <2>1. Head(toServer) \in Posted
    BY <1>2, TailRange
       DEF ServerTakesPacket, Reads, Posted, Frames, TypeInv, TypeOK
  <2>2. p \in pending' \cup {d.packet : d \in decoded'} => p \in Posted
    BY <1>2, <2>1 DEF ServerTakesPacket, DecodedWith, Posted
  <2> QED
    BY <1>1, <2>2 DEF Posted
<1>3. CASE ServerTakesResponse
  <2>1. p \in pending' \cup {d.packet : d \in decoded'} => p \in Posted
    BY <1>3 DEF ServerTakesResponse, DecodedWith, Posted
  <2> QED
    BY <1>1, <2>1 DEF Posted
<1>4. CASE ~ServerTakesPacket /\ ~ServerTakesResponse
  <2>1. pending' = pending /\ decoded' = decoded
    BY <1>4 DEF Next, Main, SetTimestamp, SetFeatures, Add, Register, Transmit,
         MainBroken, MainExit, Trap, TrapCloseBegin, TrapCloseEnd, Listener,
         LookUp, Respond, Ignore, ListenerDies, ListenerExit, PeerCloseBegin,
         PeerCloseEnd, Server, ServerReads, ServerTakesClose, ServerDiscards,
         ServerSpeaks, ServerCloses, ConnectionLost, vars, server
  <2> QED
    BY <1>1, <2>1 DEF Posted
<1> QED
  BY <1>2, <1>3, <1>4

------------------------------------------------------------------------------
(* A request about a posted packet finds its entry. The packet being sent  *)
(* is covered before it is posted.                                         *)

AnswerInv ==
  /\ Answerable
  /\ main = "registered" => schema_list[HashOfSchema] # NoEntry

LEMMA EntriesStay ==
  ASSUME TypeInv, [Next]_vars, NEW h \in Hash, schema_list[h] # NoEntry
  PROVE  schema_list'[h] # NoEntry
<1>1. CASE Register
  <2>1. RawSchema # NoEntry
    BY CodecTypes, NoEntryAssumption
  <2> QED
    BY <1>1, <2>1 DEF Register, Listed, TypeInv, TypeOK
<1>2. CASE ~Register
  BY <1>2 DEF Next, Main, SetTimestamp, SetFeatures, Add, Transmit,
       MainBroken, MainExit, Trap, TrapCloseBegin, TrapCloseEnd, Listener,
       LookUp, Respond, Ignore, ListenerDies, ListenerExit, PeerCloseBegin,
       PeerCloseEnd, Server, ServerReads, ServerTakesPacket, ServerTakesResponse,
       ServerTakesClose, ServerDiscards, ServerSpeaks, ServerCloses,
       ConnectionLost, vars
<1> QED
  BY <1>1, <1>2

LEMMA PostedType == TypeInv => Posted \subseteq Packet
<1> SUFFICES ASSUME TypeInv, NEW p \in Posted PROVE p \in Packet
  OBVIOUS
<1>1. CASE p \in Frames("data")
  <2>1. p \in ClientFrame /\ p.kind = "data"
    <3>1. toServer \in Seq(ClientFrame)
      BY DEF TypeInv, TypeOK, ClientFrame
    <3> QED
      BY <1>1, <3>1, LenProperties DEF Frames, Range
  <2> QED
    BY <2>1 DEF ClientFrame, Response, Close
<1>2. CASE p \in pending \cup {d.packet : d \in decoded}
  BY <1>2 DEF TypeInv, TypeOK
<1> QED
  BY <1>1, <1>2 DEF Posted

(* Between the two halves of send nothing touches the codec. *)
LEMMA SendingStep ==
  ASSUME [Next]_vars, main' = "registered"
  PROVE  /\ HashOfSchema' = HashOfSchema
         /\ Register \/ (main = "registered" /\ ~Transmit)
<1>1. codec' = codec /\ (Register \/ (main = "registered" /\ ~Transmit))
  BY DEF Next, Main, SetTimestamp, SetFeatures, Add, Register, Transmit,
       MainAt, MainBroken, MainExit, Trap, TrapCloseBegin, TrapCloseEnd,
       Listener, LookUp, Respond, Ignore, ListenerDies, ListenerExit,
       PeerCloseBegin, PeerCloseEnd, Server, ServerReads, ServerTakesPacket,
       ServerTakesResponse, ServerTakesClose, ServerDiscards, ServerSpeaks,
       ServerCloses, ConnectionLost, vars, threads
<1> QED
  BY <1>1 DEF codec, HashOfSchema, Content, RawSchema, feature_schema

LEMMA AnswerStep ==
  ASSUME TypeInv, AnswerInv, [Next]_vars
  PROVE  AnswerInv'
<1>1. ASSUME NEW p \in Posted' PROVE schema_list'[p.hash] # NoEntry
  <2>1. CASE p \in Posted
    <3>1. p.hash \in Hash
      BY <2>1, PostedType DEF Packet
    <3> QED
      BY <2>1, <3>1, EntriesStay DEF AnswerInv, Answerable
  <2>2. CASE p \notin Posted
    <3>1. Transmit /\ p.hash = HashOfSchema
      BY <2>2, PostedStep DEF PacketFrame
    <3> QED
      BY <3>1, CodecTypes, EntriesStay DEF AnswerInv, Transmit, MainAt
  <2> QED
    BY <2>1, <2>2
<1>2. ASSUME main' = "registered"
      PROVE  schema_list'[HashOfSchema'] # NoEntry
  <2>1. HashOfSchema' = HashOfSchema /\ HashOfSchema \in Hash
    BY <1>2, SendingStep, CodecTypes
  <2>2. CASE Register
    <3>1. schema_list'[HashOfSchema] = RawSchema
      BY <2>1, <2>2 DEF Register, Listed, TypeInv, TypeOK
    <3> QED
      BY <2>1, <3>1, CodecTypes, NoEntryAssumption
  <2>3. CASE main = "registered"
    BY <2>1, <2>3, EntriesStay DEF AnswerInv
  <2> QED
    BY <1>2, <2>2, <2>3, SendingStep
<1> QED
  BY <1>1, <1>2 DEF AnswerInv, Answerable

(* From the moment a packet is on the wire, and for ever after, the        *)
(* listener finds an entry for its hash: for any digest, also one with     *)
(* collisions, and whatever the caller does with the codec.                *)
THEOREM Answerability == Spec => []Answerable
<1>1. Init => AnswerInv
  BY EmptySeq DEF Init, AnswerInv, Answerable, Posted, Frames, Range
<1>2. TypeInv /\ AnswerInv /\ [Next]_vars => AnswerInv'
  BY AnswerStep
<1>3. AnswerInv => Answerable
  BY DEF AnswerInv
<1> QED
  BY TypeInvariant, <1>1, <1>2, <1>3, PTL DEF Spec

------------------------------------------------------------------------------
(* The schema of a response is the one its hash names, if the caller adds  *)
(* nothing to what it sent. The listener may hold an entry that is no      *)
(* longer listed; then its array is not the one `add' appends to.          *)

InUse(r) == \E h \in Hash : schema_list[h] # NoEntry /\ schema_list[h].features = r

ListedUnderHash ==
  \A h \in Hash : schema_list[h] # NoEntry => Digest4(Content(schema_list[h])) = h

HeldUnderHash ==
  listener = "found" =>
    /\ Digest4(Content(held.entry)) = held.hash
    /\ held.entry.features = feature_schema => InUse(feature_schema)

MatchInv == SchemaMatchesHash /\ ListedUnderHash /\ HeldUnderHash

ContentIn(as, e) == [features |-> as[e.features], timestamp |-> e.timestamp]

(* An array keeps its content, but for the one `add' appends to. *)
LEMMA ContentStays ==
  ASSUME TypeInv, [Next]_vars, ~AddAfterSend,
         NEW e \in Entry, e.features <= feature_schema,
         e.features = feature_schema => InUse(feature_schema)
  PROVE  ContentIn(arrays', e) = ContentIn(arrays, e)
<1>1. /\ e.features \in 1..Len(arrays) /\ feature_schema = Len(arrays)
      /\ Len(arrays) \in 1..Len(arrays)
      /\ arrays \in Seq(FeatureList)
  BY CodecTypes, BoundsAssumption
     DEF Entry, Ref, feature_schema, TypeInv, TypeOK
<1> SUFFICES arrays'[e.features] = arrays[e.features]
  BY DEF ContentIn
<1>2. CASE Add
  <2>1. e.features # feature_schema
    BY <1>2 DEF Add, MayAdd, InUse
  <2>2. PICK f \in Feature :
          arrays' = [arrays EXCEPT ![feature_schema] = Append(@, f)]
    BY <1>2 DEF Add
  <2> QED
    BY <1>1, <2>1, <2>2
<1>3. CASE SetFeatures
  BY <1>1, <1>3 DEF SetFeatures, FreshArray
<1>4. CASE ~Add /\ ~SetFeatures
  <2>1. arrays' = arrays
    BY <1>4 DEF Next, Main, SetTimestamp, Register, Transmit, MainBroken,
         MainExit, Trap, TrapCloseBegin, TrapCloseEnd, Listener, LookUp,
         Respond, Ignore, ListenerDies, ListenerExit, PeerCloseBegin,
         PeerCloseEnd, Server, ServerReads, ServerTakesPacket,
         ServerTakesResponse, ServerTakesClose, ServerDiscards, ServerSpeaks,
         ServerCloses, ConnectionLost, vars, codec
  <2> QED
    BY <2>1
<1> QED
  BY <1>2, <1>3, <1>4

(* How the entry in the hands of the listener changes. *)
LEMMA HeldStep ==
  ASSUME [Next]_vars, listener' = "found"
  PROVE  \/ /\ LookUp /\ schema_list[Head(toClient).hash] # NoEntry
            /\ held' = Held(Head(toClient).hash)
         \/ listener = "found" /\ held' = held
<1>1. CASE LookUp
  BY <1>1 DEF LookUp, ListenerAt
<1>2. CASE ~LookUp
  BY <1>2 DEF Next, Main, SetTimestamp, SetFeatures, Add, Register, Transmit,
       MainBroken, MainExit, Trap, TrapCloseBegin, TrapCloseEnd, Listener,
       Respond, Ignore, ListenerDies, ListenerExit, PeerCloseBegin,
       PeerCloseEnd, Server, ServerReads, ServerTakesPacket,
       ServerTakesResponse, ServerTakesClose, ServerDiscards, ServerSpeaks,
       ServerCloses, ConnectionLost, vars, threads
<1> QED
  BY <1>1, <1>2

(* What the server files comes from a response. *)
LEMMA KnownStep ==
  ASSUME TypeInv, [Next]_vars, SchemaMatchesHash,
         NEW h \in Hash, known'[h] # NoEntry
  PROVE  Digest4(known'[h]) = h
<1>1. CASE ServerTakesResponse
  <2> DEFINE r == Head(toServer)
  <2>1. r \in Frames("schema_response")
    BY <1>1, TailRange
       DEF ServerTakesResponse, Reads, Frames, TypeInv, TypeOK
  <2>2. Digest4(r.schema) = r.hash
    BY <2>1 DEF SchemaMatchesHash
  <2>3. known'[h] = IF h = r.hash THEN r.schema ELSE known[h]
    BY <1>1 DEF ServerTakesResponse, TypeInv, TypeOK
  <2> QED
    BY <2>2, <2>3 DEF SchemaMatchesHash
<1>2. CASE ~ServerTakesResponse
  <2>1. known' = known
    BY <1>2 DEF Next, Main, SetTimestamp, SetFeatures, Add, Register, Transmit,
         MainBroken, MainExit, Trap, TrapCloseBegin, TrapCloseEnd, Listener,
         LookUp, Respond, Ignore, ListenerDies, ListenerExit, PeerCloseBegin,
         PeerCloseEnd, Server, ServerReads, ServerTakesPacket,
         ServerTakesClose, ServerDiscards, ServerSpeaks, ServerCloses,
         ConnectionLost, vars, server
  <2> QED
    BY <2>1 DEF SchemaMatchesHash
<1> QED
  BY <1>1, <1>2

LEMMA ListStep ==
  ASSUME TypeInv, [Next]_vars, NEW h \in Hash
  PROVE  \/ schema_list'[h] = schema_list[h]
         \/ /\ Register /\ h = HashOfSchema /\ schema_list'[h] = RawSchema
<1>1. CASE Register
  BY <1>1 DEF Register, Listed, TypeInv, TypeOK
<1>2. CASE ~Register
  BY <1>2 DEF Next, Main, SetTimestamp, SetFeatures, Add, Transmit,
       MainBroken, MainExit, Trap, TrapCloseBegin, TrapCloseEnd, Listener,
       LookUp, Respond, Ignore, ListenerDies, ListenerExit, PeerCloseBegin,
       PeerCloseEnd, Server, ServerReads, ServerTakesPacket, ServerTakesResponse,
       ServerTakesClose, ServerDiscards, ServerSpeaks, ServerCloses,
       ConnectionLost, vars
<1> QED
  BY <1>1, <1>2

(* The arrays the list uses stay in use, and the current one is allocated  *)
(* last.                                                                   *)
LEMMA InUseStep ==
  ASSUME TypeInv, [Next]_vars,
         InUse(feature_schema), feature_schema' = feature_schema
  PROVE  InUse(feature_schema)'
<1>1. PICK h \in Hash : /\ schema_list[h] # NoEntry
                        /\ schema_list[h].features = feature_schema
  BY DEF InUse
<1>2. schema_list'[h] # NoEntry
  BY <1>1, EntriesStay
<1>3. schema_list'[h].features = feature_schema
  BY <1>1, ListStep DEF RawSchema
<1> QED
  BY <1>2, <1>3 DEF InUse

LEMMA ArraysGrow ==
  ASSUME TypeInv, [Next]_vars
  PROVE  feature_schema <= feature_schema' /\ feature_schema' \in Nat
<1>1. arrays \in Seq(FeatureList) /\ Len(arrays) \in Nat
  BY LenProperties DEF TypeInv, TypeOK
<1>2. CASE SetFeatures
  <2>1. Len(arrays') = Len(arrays) + 1
    BY <1>1, <1>2 DEF SetFeatures, FreshArray
  <2> QED
    BY <1>1, <2>1 DEF feature_schema
<1>3. CASE Add
  <2>1. Len(arrays') = Len(arrays)
    BY <1>1, <1>3 DEF Add
  <2> QED
    BY <1>1, <2>1 DEF feature_schema
<1>4. CASE ~SetFeatures /\ ~Add
  <2>1. arrays' = arrays
    BY <1>4 DEF Next, Main, SetTimestamp, Register, Transmit, MainBroken,
         MainExit, Trap, TrapCloseBegin, TrapCloseEnd, Listener, LookUp,
         Respond, Ignore, ListenerDies, ListenerExit, PeerCloseBegin,
         PeerCloseEnd, Server, ServerReads, ServerTakesPacket,
         ServerTakesResponse, ServerTakesClose, ServerDiscards, ServerSpeaks,
         ServerCloses, ConnectionLost, vars, codec
  <2> QED
    BY <1>1, <2>1 DEF feature_schema
<1> QED
  BY <1>2, <1>3, <1>4

(* Listed and held entries keep their content in a step. *)
LEMMA ListedContentStays ==
  ASSUME TypeInv, [Next]_vars, ~AddAfterSend,
         NEW h \in Hash, schema_list[h] # NoEntry
  PROVE  ContentIn(arrays', schema_list[h]) = ContentIn(arrays, schema_list[h])
<1>1. schema_list[h] \in Entry /\ schema_list[h].features <= feature_schema
  BY DEF TypeInv, TypeOK, ListedAllocated
<1>2. schema_list[h].features = feature_schema => InUse(feature_schema)
  BY DEF InUse
<1> QED
  BY <1>1, <1>2, ContentStays

LEMMA HeldContentStays ==
  ASSUME TypeInv, HeldUnderHash, [Next]_vars, ~AddAfterSend, listener = "found"
  PROVE  ContentIn(arrays', held.entry) = ContentIn(arrays, held.entry)
<1>1. held.entry \in Entry /\ held.entry.features <= feature_schema
  BY DEF TypeInv, HoldingEntry
<1>2. held.entry.features = feature_schema => InUse(feature_schema)
  BY DEF HeldUnderHash
<1> QED
  BY <1>1, <1>2, ContentStays

LEMMA ListedUnderHashStep ==
  ASSUME TypeInv, MatchInv, [Next]_vars, ~AddAfterSend
  PROVE  ListedUnderHash'
<1> SUFFICES ASSUME NEW h \in Hash, schema_list'[h] # NoEntry
             PROVE  Digest4(ContentIn(arrays', schema_list'[h])) = h
  BY DEF ListedUnderHash, Content, ContentIn
<1>1. CASE schema_list'[h] = schema_list[h]
  <2>1. Digest4(ContentIn(arrays, schema_list[h])) = h
    BY <1>1 DEF MatchInv, ListedUnderHash, Content, ContentIn
  <2>2. ContentIn(arrays', schema_list[h]) = ContentIn(arrays, schema_list[h])
    BY <1>1, ListedContentStays
  <2> QED
    BY <1>1, <2>1, <2>2
<1>2. CASE Register /\ h = HashOfSchema /\ schema_list'[h] = RawSchema
  <2>1. arrays' = arrays
    BY <1>2 DEF Register, codec
  <2>2. ContentIn(arrays', schema_list'[h]) = Content(RawSchema)
    BY <1>2, <2>1 DEF Content, ContentIn
  <2> QED
    BY <1>2, <2>2 DEF HashOfSchema
<1> QED
  BY <1>1, <1>2, ListStep

LEMMA HeldUnderHashStep ==
  ASSUME TypeInv, MatchInv, [Next]_vars, ~AddAfterSend, listener' = "found"
  PROVE  /\ Digest4(ContentIn(arrays', held'.entry)) = held'.hash
         /\ held'.entry.features = feature_schema' => InUse(feature_schema)'
<1>1. CASE listener = "found" /\ held' = held
  <2>1. Digest4(ContentIn(arrays, held.entry)) = held.hash
    BY <1>1 DEF MatchInv, HeldUnderHash, Content, ContentIn
  <2>2. ContentIn(arrays', held.entry) = ContentIn(arrays, held.entry)
    BY <1>1, HeldContentStays DEF MatchInv
  <2>3. ASSUME held.entry.features = feature_schema' PROVE InUse(feature_schema)'
    <3>1. /\ held.entry.features \in Nat /\ feature_schema \in Nat
          /\ held.entry.features <= feature_schema
      BY <1>1, BoundsAssumption, LenProperties
         DEF TypeInv, TypeOK, HoldingEntry, Entry, Ref, feature_schema
    <3>2. feature_schema' = feature_schema
      BY <2>3, <3>1, ArraysGrow
    <3> QED
      BY <1>1, <2>3, <3>2, InUseStep DEF MatchInv, HeldUnderHash
  <2> QED
    BY <1>1, <2>1, <2>2, <2>3
<1>2. CASE /\ LookUp /\ schema_list[Head(toClient).hash] # NoEntry
           /\ held' = Held(Head(toClient).hash)
  <2> DEFINE h == Head(toClient).hash
  <2>1. /\ held'.hash = h /\ held'.entry = schema_list[h]
        /\ arrays' = arrays /\ schema_list' = schema_list
    BY <1>2 DEF Held, LookUp, codec
  <2>2. h \in Hash
    <3>1. Head(toClient) \in ServerFrame /\ Head(toClient).kind = "schema_request"
      BY <1>2, TailRange DEF LookUp, Received, TypeInv, TypeOK, ServerFrame
    <3> QED
      BY <3>1, RequestByKind DEF Request
  <2>3. Digest4(ContentIn(arrays, schema_list[h])) = h
    BY <1>2, <2>2 DEF MatchInv, ListedUnderHash, Content, ContentIn
  <2>4. feature_schema' = feature_schema
    BY <2>1 DEF feature_schema
  <2> QED
    BY <1>2, <2>1, <2>2, <2>3, <2>4 DEF InUse
<1> QED
  BY <1>1, <1>2, HeldStep

LEMMA MatchStep ==
  ASSUME TypeInv, MatchInv, [Next]_vars, ~AddAfterSend
  PROVE  MatchInv'
<1>1. ListedUnderHash'
  BY ListedUnderHashStep
<1>2. HeldUnderHash'
  BY HeldUnderHashStep DEF HeldUnderHash, Content, ContentIn
<1>3. ASSUME NEW r \in Frames("schema_response")'
      PROVE  Digest4(r.schema) = r.hash
  <2>1. r \in Range(toServer') /\ r.kind = "schema_response"
    BY <1>3 DEF Frames
  <2>2. CASE r \in Range(toServer)
    BY <2>1, <2>2 DEF MatchInv, SchemaMatchesHash, Frames
  <2>3. CASE r \notin Range(toServer)
    <3>1. Respond /\ r = ResponseFrame
      BY <2>1, <2>3, WireStep DEF Close, PacketFrame
    <3> QED
      BY <3>1 DEF Respond, ListenerAt, ResponseFrame, MatchInv, HeldUnderHash
  <2> QED
    BY <2>2, <2>3
<1>4. SchemaMatchesHash'
  BY <1>3, KnownStep DEF SchemaMatchesHash, MatchInv
<1> QED
  BY <1>1, <1>2, <1>4 DEF MatchInv

(* A caller that adds nothing to what it sent never has its packets read   *)
(* by another schema: whatever the threads do, the schema of a response,   *)
(* and so the one the server files, is the one the hash was computed from. *)
THEOREM MatchCorrectness ==
  ASSUME ~AddAfterSend
  PROVE  Spec => []SchemaMatchesHash
<1>1. Init => MatchInv
  BY EmptySeq DEF Init, MatchInv, SchemaMatchesHash, ListedUnderHash,
                  HeldUnderHash, Frames, Range
<1>2. TypeInv /\ MatchInv /\ [Next]_vars => MatchInv'
  BY MatchStep
<1>3. MatchInv => SchemaMatchesHash
  BY DEF MatchInv
<1> QED
  BY TypeInvariant, <1>1, <1>2, <1>3, PTL DEF Spec
==============================================================================
