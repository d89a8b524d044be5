---------------------- MODULE SensocolWebSocketRefinement ----------------------
(***************************************************************************)
(* The Ruby client, its listener and the server implement schema-on-write, *)
(* for any features, bounds and stray frames.                              *)
(***************************************************************************)
EXTENDS SensocolWebSocketProofs

(* No two schemas have the same digest: the protocol asks for no less.     *)
Injective == \A s, t \in Schema : Digest4(s) = Digest4(t) => s = t

(* A packet carries the hash of the schema it was encoded by, and an id of *)
(* its own.                                                                *)
OwnHash == \A p \in Posted : p.hash = Digest4(p.body)
OwnId ==
  /\ \A p \in Posted : p.id <= sends
  /\ \A p, q \in Posted : p.id = q.id => p = q

RInv == TypeInv /\ MatchInv /\ OwnHash /\ OwnId

------------------------------------------------------------------------------
(* What counts as posted. *)

(* A packet was posted if it is on the wire, waits or is decoded. *)
LEMMA PostedMember ==
  ASSUME NEW p
  PROVE  p \in Posted <=> \/ p \in Range(toServer) /\ p.kind = "data"
                          \/ p \in pending
                          \/ \E x \in decoded : p = x.packet
BY DEF Posted, Frames

(* The same, after a step. *)
LEMMA PostedMemberNext ==
  ASSUME NEW p
  PROVE  p \in Posted' <=> \/ p \in Range(toServer') /\ p.kind = "data"
                           \/ p \in pending'
                           \/ \E x \in decoded' : p = x.packet
BY DEF Posted, Frames

(* The server skips no frame. *)
LEMMA HeadOrTail ==
  ASSUME NEW S, NEW s \in Seq(S), s # <<>>, NEW y \in Range(s)
  PROVE  y = Head(s) \/ y \in Range(Tail(s))
<1>1. Len(s) \in Nat /\ Len(s) # 0 /\ DOMAIN s = 1..Len(s)
  BY LenProperties, EmptySeq
<1>2. /\ Tail(s) \in Seq(S) /\ Len(Tail(s)) = Len(s) - 1 /\ Head(s) = s[1]
      /\ \A i \in 1..Len(Tail(s)) : Tail(s)[i] = s[i + 1]
  BY HeadTailProperties
<1>3. DOMAIN Tail(s) = 1..Len(Tail(s))
  BY <1>2, LenProperties
<1>4. PICK i \in 1..Len(s) : y = s[i]
  BY <1>1 DEF Range
<1>5. CASE i = 1
  BY <1>2, <1>4, <1>5
<1>6. CASE i # 1
  <2>1. i - 1 \in 1..Len(Tail(s)) /\ Tail(s)[i - 1] = s[i]
    BY <1>1, <1>2, <1>6
  <2> QED
    BY <1>3, <1>4, <2>1 DEF Range
<1> QED
  BY <1>5, <1>6

(* Transmit posts a packet whose id is not in use and whose hash is that   *)
(* of the shape of its data, which @feature_schema shares.                 *)
LEMMA TransmitPosts ==
  ASSUME RInv, Transmit
  PROVE  /\ PacketFrame.id = sends + 1 /\ sends' = sends + 1
         /\ PacketFrame.hash = Digest4(PacketFrame.body)
         /\ decoded' = decoded
         /\ PacketFrame \in Posted'
         /\ Posted \subseteq Posted'
<1>1. /\ PacketFrame.id = sends + 1 /\ PacketFrame.kind = "data"
      /\ PacketFrame.hash = HashOfSchema /\ PacketFrame.body = DataWithHeaders
  BY DEF PacketFrame
<1>2. HashOfSchema = Digest4(DataWithHeaders)
  BY DEF RInv, TypeInv, DataIsShared, HashOfSchema, Content, RawSchema,
         DataWithHeaders, feature_schema
<1>3. /\ sends' = sends + 1 /\ decoded' = decoded /\ pending' = pending
      /\ toServer' = Append(toServer, PacketFrame)
  BY DEF Transmit, server
<1>4. Range(toServer') = Range(toServer) \cup {PacketFrame}
  <2>1. toServer \in Seq(ClientFrame)
    BY DEF RInv, TypeInv, TypeOK, ClientFrame
  <2> QED
    BY <1>3, <2>1, AppendRange
<1> HIDE DEF PacketFrame
<1>5. PacketFrame \in Posted'
  BY <1>1, <1>4, PostedMemberNext
<1>6. Posted \subseteq Posted'
  BY <1>3, <1>4, PostedMember, PostedMemberNext
<1> QED
  BY <1>1, <1>2, <1>3, <1>5, <1>6

(* No other step posts, nor takes an id. *)
LEMMA SendsStep ==
  ASSUME [Next]_vars, ~Transmit
  PROVE  sends' = sends
BY DEF Next, Main, SetTimestamp, SetFeatures, Add, Register, MainBroken, MainExit,
       Trap, TrapCloseBegin, TrapCloseEnd, Listener, LookUp, Respond, Ignore,
       ListenerDies, ListenerExit, PeerCloseBegin, PeerCloseEnd, Server,
       ServerReads, ServerTakesPacket, ServerTakesResponse, ServerTakesClose,
       ServerDiscards, ServerSpeaks, ServerCloses, ConnectionLost, vars

(* Hashes and ids are those of the packets, and stay so. *)
LEMMA OwnStep ==
  ASSUME RInv, [Next]_vars
  PROVE  OwnHash' /\ OwnId'
<1>1. CASE Transmit
  <2>1. ASSUME NEW p \in Posted', p \notin Posted PROVE p = PacketFrame
    BY <2>1, PostedStep DEF RInv
  <2>2. sends \in Nat /\ sends' = sends + 1
    BY <1>1, TransmitPosts, BoundsAssumption DEF RInv, TypeInv, TypeOK
  <2>3. PacketFrame.id = sends + 1 /\ PacketFrame.hash = Digest4(PacketFrame.body)
    BY <1>1, TransmitPosts
  <2>4. \A p \in Posted : p.id \in Nat /\ p.id <= sends
    BY PostedType, BoundsAssumption DEF RInv, OwnId, Packet
  <2>5. ASSUME NEW p \in Posted' PROVE p.hash = Digest4(p.body) /\ p.id <= sends'
    BY <2>1, <2>2, <2>3, <2>4 DEF RInv, OwnHash
  <2>6. ASSUME NEW p \in Posted', NEW q \in Posted', p.id = q.id PROVE p = q
    <3>1. CASE p \in Posted /\ q \in Posted
      BY <2>6, <3>1 DEF RInv, OwnId
    <3>2. CASE p \notin Posted \/ q \notin Posted
      BY <2>1, <2>2, <2>3, <2>4, <2>6, <3>2
    <3> QED
      BY <3>1, <3>2
  <2> QED
    BY <2>5, <2>6 DEF OwnHash, OwnId
<1>2. CASE ~Transmit
  <2>1. Posted' \subseteq Posted
    BY <1>2, PostedStep DEF RInv
  <2> QED
    BY <1>2, <2>1, SendsStep DEF RInv, OwnHash, OwnId
<1> QED
  BY <1>1, <1>2

------------------------------------------------------------------------------
(* Each step is an abstract one, or none. *)

(* Transmit is the abstract Post. *)
LEMMA TransmitSimulates ==
  ASSUME RInv, [Next]_vars, Transmit
  PROVE  Abstract!Post
<1>1. /\ decoded' = decoded /\ PacketFrame \in Posted' /\ Posted \subseteq Posted'
      /\ PacketFrame.id = sends + 1
  BY TransmitPosts
<1>2. PacketFrame \notin Posted
  <2>1. sends \in Nat
    BY BoundsAssumption DEF RInv, TypeInv, TypeOK
  <2>2. \A p \in Posted : p.id \in Nat /\ p.id <= sends
    BY PostedType, BoundsAssumption DEF RInv, OwnId, Packet
  <2> QED
    BY <1>1, <2>1, <2>2
<1>3. Posted' = Posted \cup {PacketFrame}
  BY <1>1, PostedStep DEF RInv
<1>4. \A p, q \in Posted' : p.id = q.id => p = q
  BY OwnStep DEF OwnId
<1> QED
  BY <1>1, <1>2, <1>3, <1>4 DEF Abstract!Post

(* A step that posts and decodes nothing loses packets, or none: those     *)
(* the server drops once it sent its Close frame.                          *)
LEMMA LosingStep ==
  ASSUME RInv, [Next]_vars, ~Transmit, decoded' = decoded
  PROVE  Abstract!Lose
<1>1. Posted' \subseteq Posted
  BY PostedStep DEF RInv
<1>2. {x.packet : x \in decoded} \subseteq Posted'
  BY PostedMemberNext
<1> QED
  BY <1>1, <1>2 DEF Abstract!Lose

(* A packet whose hash the server knows is decoded by its own schema. *)
LEMMA TakesPacketSimulates ==
  ASSUME RInv, Injective, [Next]_vars, ServerTakesPacket, decoded' # decoded
  PROVE  Abstract!Decode
<1> DEFINE p == Head(toServer)
<1>1. toServer \in Seq(ClientFrame) /\ toServer # <<>> /\ p.kind = "data"
  BY DEF ServerTakesPacket, Reads, RInv, TypeInv, TypeOK, ClientFrame
<1>2. /\ known[p.hash] # NoEntry /\ pending' = pending /\ toServer' = Tail(toServer)
      /\ decoded' = decoded \cup {[packet |-> p, schema |-> known[p.hash]]}
  BY DEF ServerTakesPacket, DecodedWith
<1>3. p \in Posted
  BY <1>1, TailRange, PostedMember
<1>4. known[p.hash] = p.body
  <2>1. p.hash \in Hash /\ p.body \in Schema /\ p.hash = Digest4(p.body)
    BY <1>3, PostedType DEF RInv, OwnHash, Packet
  <2> HIDE DEF p
  <2>2. known[p.hash] \in Schema /\ Digest4(known[p.hash]) = p.hash
    BY <1>2, <2>1 DEF RInv, MatchInv, SchemaMatchesHash, TypeInv, TypeOK
  <2> QED
    BY <2>1, <2>2 DEF Injective
<1> HIDE DEF p
<1>5. p \in Posted'
  <2> DEFINE x == [packet |-> p, schema |-> known[p.hash]]
  <2>1. x \in decoded'
    BY <1>2
  <2>2. p = x.packet
    OBVIOUS
  <2> HIDE DEF x
  <2> QED
    BY <2>1, <2>2, PostedMemberNext
<1>6. ASSUME NEW q \in Posted PROVE q \in Posted'
  <2>1. q \in Range(toServer) => q = p \/ q \in Range(toServer')
    BY <1>1, <1>2, HeadOrTail DEF p
  <2>2. decoded \subseteq decoded'
    BY <1>2
  <2> QED
    BY <1>2, <1>5, <2>1, <2>2, PostedMember, PostedMemberNext
<1>7. Posted' = Posted
  <2>1. ~Transmit
    BY DEF Transmit, server
  <2> QED
    BY <1>6, <2>1, PostedStep DEF RInv
<1>8. decoded' = decoded \cup {[packet |-> q, schema |-> q.body] : q \in {p}}
  BY <1>2, <1>4
<1> QED
  BY <1>3, <1>7, <1>8 DEF Abstract!Decode

(* A schema that arrives decodes the packets it was asked for. *)
LEMMA TakesResponseSimulates ==
  ASSUME RInv, Injective, [Next]_vars, ServerTakesResponse, decoded' # decoded
  PROVE  Abstract!Decode
<1> DEFINE r == Head(toServer)
<1> DEFINE released == {p \in pending : p.hash = r.hash}
<1> DEFINE fresh == {[packet |-> p, schema |-> r.schema] : p \in released}
<1>1. toServer \in Seq(ClientFrame) /\ toServer # <<>> /\ r.kind = "schema_response"
  BY DEF ServerTakesResponse, Reads, RInv, TypeInv, TypeOK, ClientFrame
<1>2. /\ pending' = pending \ released /\ toServer' = Tail(toServer)
      /\ decoded' = decoded \cup fresh
  BY DEF ServerTakesResponse, DecodedWith
<1>3. r.schema \in Schema /\ Digest4(r.schema) = r.hash
  <2>1. r \in Range(toServer) /\ r \in ClientFrame
    BY <1>1, TailRange
  <2>2. r \in Response
    BY <1>1, <2>1 DEF ClientFrame, Packet, Close
  <2> QED
    BY <1>1, <2>1, <2>2 DEF Response, RInv, MatchInv, SchemaMatchesHash, Frames
<1> HIDE DEF r
<1>4. released \subseteq Posted
  BY PostedMember
<1>5. ASSUME NEW p \in released PROVE r.schema = p.body
  <2>1. p.body \in Schema /\ p.hash = Digest4(p.body) /\ p.hash = r.hash
    BY <1>4, PostedType DEF RInv, OwnHash, Packet
  <2> QED
    BY <1>3, <2>1 DEF Injective
<1>6. fresh = {[packet |-> p, schema |-> p.body] : p \in released}
  BY <1>5
<1>7. ASSUME NEW p \in released PROVE p \in Posted'
  <2> DEFINE x == [packet |-> p, schema |-> r.schema]
  <2>1. x \in decoded'
    BY <1>2
  <2>2. p = x.packet
    OBVIOUS
  <2> HIDE DEF x
  <2> QED
    BY <2>1, <2>2, PostedMemberNext
<1>8. ASSUME NEW q \in Posted PROVE q \in Posted'
  <2>1. q \in Range(toServer) /\ q.kind = "data" => q \in Range(toServer')
    BY <1>1, <1>2, HeadOrTail DEF r
  <2>2. q \in pending => q \in released \/ q \in pending'
    BY <1>2
  <2>3. decoded \subseteq decoded'
    BY <1>2
  <2> QED
    BY <1>7, <2>1, <2>2, <2>3, PostedMember, PostedMemberNext
<1>9. Posted' = Posted
  <2>1. ~Transmit
    BY DEF Transmit, server
  <2> QED
    BY <1>8, <2>1, PostedStep DEF RInv
<1> HIDE DEF released, fresh
<1> QED
  BY <1>2, <1>4, <1>6, <1>9 DEF Abstract!Decode

(* Nothing else decodes. *)
LEMMA DecodingStep ==
  ASSUME [Next]_vars, ~ServerTakesPacket, ~ServerTakesResponse
  PROVE  decoded' = decoded
BY DEF Next, Main, SetTimestamp, SetFeatures, Add, Register, Transmit, MainBroken,
       MainExit, Trap, TrapCloseBegin, TrapCloseEnd, Listener, LookUp, Respond,
       Ignore, ListenerDies, ListenerExit, PeerCloseBegin, PeerCloseEnd, Server,
       ServerReads, ServerTakesClose, ServerDiscards, ServerSpeaks, ServerCloses,
       ConnectionLost, vars, server

(* Every step is an abstract step, some of which change nothing. *)
LEMMA StepSimulates ==
  ASSUME RInv, Injective, [Next]_vars
  PROVE  Abstract!Next
<1>1. CASE Transmit
  BY <1>1, TransmitSimulates DEF Abstract!Next
<1>2. CASE ~Transmit /\ decoded' = decoded
  BY <1>2, LosingStep DEF Abstract!Next
<1>3. CASE ServerTakesPacket /\ decoded' # decoded
  BY <1>3, TakesPacketSimulates DEF Abstract!Next
<1>4. CASE ServerTakesResponse /\ decoded' # decoded
  BY <1>4, TakesResponseSimulates DEF Abstract!Next
<1> QED
  BY <1>1, <1>2, <1>3, <1>4, DecodingStep

(* The Ruby client implements schema-on-write: if no two schemas have the  *)
(* same digest and the caller adds nothing to what it sent, every packet   *)
(* is decoded by the schema it was encoded by, whatever the main thread,   *)
(* the trap, the listener and the server do meanwhile.                     *)
THEOREM Implementation ==
  ASSUME Injective, ~AddAfterSend
  PROVE  Spec => DecodesByOwnSchema
<1>1. Init => MatchInv
  BY EmptySeq DEF Init, MatchInv, SchemaMatchesHash, ListedUnderHash,
                  HeldUnderHash, Frames, Range
<1>2. Init => Posted = {} /\ decoded = {}
  BY EmptySeq DEF Init, Posted, Frames, Range
<1>3. Init => RInv /\ Abstract!Init
  BY <1>1, <1>2, TypeInitially DEF RInv, OwnHash, OwnId, Abstract!Init
<1>4. TypeInv /\ [Next]_vars => TypeInv'
  BY CodecKeepsTypes, MainKeepsTypes, CloseKeepsTypes, ListenerKeepsTypes,
     ServerKeepsTypes, StutterKeepsTypes DEF Next, Main, Listener
<1>5. RInv /\ [Next]_vars => RInv'
  BY <1>4, MatchStep, OwnStep DEF RInv
<1>6. RInv /\ [Next]_vars => [Abstract!Next]_(Abstract!vars)
  BY StepSimulates
<1> QED
  BY <1>3, <1>5, <1>6, PTL DEF Spec, DecodesByOwnSchema, Abstract!Spec
==============================================================================
