-------------------------- MODULE SensocolWebSocket --------------------------
(***************************************************************************)
(* The Ruby client: class SensocolWebSocket over SensocolCodec and         *)
(* WebSocket. The main thread fills the codec and sends packets headed by  *)
(* the first four bytes of the MD5 of their schema; a listener thread      *)
(* answers the schema requests of the server from @schema_list; an INT     *)
(* trap, which runs on the main thread between any two of its steps,       *)
(* closes the connection.                                                  *)
(*                                                                         *)
(* Ruby arrays are mutable objects, and @schema_list keeps a reference to  *)
(* the array of the codec, not a copy: arrays are modelled as objects of a *)
(* heap. A value is abstracted to the feature (name and type) it is        *)
(* encoded for. One IO#write is one append to the TCP stream.              *)
(***************************************************************************)
EXTENDS Naturals, Sequences, Functions

CONSTANTS
  Feature,        (* the {"name", "type"} pairs                             *)
  MaxFeatures,    (* bound: features in one array                           *)
  MaxArrays,      (* bound: arrays the codec ever allocates                 *)
  MaxSends,       (* bound: packets sent                                    *)
  MaxAsks,        (* bound: frames the server sends on its own account      *)
  Digest4(_),     (* first four bytes of the MD5 of a schema's JSON         *)
  NoEntry,        (* what a Ruby Hash returns for a key it does not have    *)
  AddAfterSend,   (* whether the caller calls `add' on an array that a      *)
                  (* packet already sent registered                         *)
  MayEnd,         (* whether either side may end the connection             *)
  Strays          (* frames a server may send besides requests and Close    *)

ASSUME BoundsAssumption ==
  /\ MaxFeatures \in Nat /\ MaxArrays \in Nat \ {0}
  /\ MaxSends \in Nat /\ MaxAsks \in Nat

ASSUME ModeAssumption ==
  /\ AddAfterSend \in BOOLEAN /\ MayEnd \in BOOLEAN
  /\ Strays \subseteq {"text", "not_json", "binary", "ping", "pong"}

FeatureList == UNION {[1..n -> Feature] : n \in 0..MaxFeatures}
(* The content of raw_schema: the features, and whether a timestamp leads. *)
Schema == [features : FeatureList, timestamp : BOOLEAN]
Hash == {Digest4(s) : s \in Schema}
Ref == 1..MaxArrays
(* The object raw_schema returns: its features are a reference. *)
Entry == [features : Ref, timestamp : BOOLEAN]

ASSUME NoEntryAssumption == NoEntry \notin Entry

(* The argument of features=: a Ruby Hash, so no name comes twice. *)
FeatureHash ==
  {fs \in FeatureList : \A i, j \in DOMAIN fs : fs[i] = fs[j] => i = j}

(* What is put on the wire. The body of a packet is the shape of its data; *)
(* the id only tells one packet from another.                              *)
Packet == [kind : {"data"}, id : 1..MaxSends, hash : Hash, body : Schema]
Response == [kind : {"schema_response"}, hash : Hash, schema : Schema]
Close == [kind |-> "close"]
Request == [kind : {"schema_request"}, hash : Hash]
Stray == [kind : Strays]

VARIABLES
  data,            (* @data: the features whose values are encoded in it    *)
  arrays,          (* the arrays allocated; the last one is @feature_schema *)
  timestamp,       (* whether @timestamp is set                             *)
  schema_list,     (* @schema_list: Hash -> Entry, NoEntry by default       *)
  main,            (* main thread: "idle", or "registered" within send      *)
  sends,           (* packets sent so far                                   *)
  trap,            (* the INT trap: "ready", "closing" within close, "done" *)
  listener,        (* listener: "receiving", "found", "closing", "dead"     *)
  held,            (* the request and the entry the listener holds          *)
  closing_started, (* @closing_started                                      *)
  process,         (* "up" or "exited"                                      *)
  toServer,        (* frames written by the client, not yet read            *)
  toClient,        (* frames written by the server, not yet read            *)
  peer,            (* the server's end: "open", "closing" or "closed"       *)
  known,           (* the schemas the server knows, by hash                 *)
  pending,         (* packets that wait for their schema                    *)
  decoded,         (* packets decoded, each with the schema used            *)
  asks             (* frames the server sent on its own account             *)

codec == <<data, arrays, timestamp>>
threads == <<main, trap, listener, held, closing_started, process>>
server == <<peer, known, pending, decoded, asks>>
vars == <<codec, schema_list, sends, threads, toServer, toClient, server>>

feature_schema == Len(arrays)

TypeOK ==
  /\ data \in FeatureList
  /\ arrays \in Seq(FeatureList) /\ feature_schema \in Ref
  /\ timestamp \in BOOLEAN
  /\ schema_list \in [Hash -> Entry \cup {NoEntry}]
  /\ main \in {"idle", "registered"}
  /\ sends \in 0..MaxSends
  /\ trap \in {"ready", "closing", "done"}
  /\ listener \in {"receiving", "found", "closing", "dead"}
  /\ held \in [hash : Hash, entry : Entry] \cup {NoEntry}
  /\ closing_started \in BOOLEAN
  /\ process \in {"up", "exited"}
  /\ toServer \in Seq(Packet \cup Response \cup {Close})
  /\ toClient \in Seq(Request \cup Stray \cup {Close})
  /\ peer \in {"open", "closing", "closed"}
  /\ known \in [Hash -> Schema \cup {NoEntry}]
  /\ pending \subseteq Packet
  /\ decoded \subseteq [packet : Packet, schema : Schema]
  /\ asks \in 0..MaxAsks

Init ==
  /\ data = <<>>
  /\ arrays = <<data>>
  /\ timestamp = FALSE
  /\ schema_list = [h \in Hash |-> NoEntry]
  /\ main = "idle"
  /\ sends = 0
  /\ trap = "ready"
  /\ listener = "receiving"
  /\ held = NoEntry
  /\ closing_started = FALSE
  /\ process = "up"
  /\ toServer = <<>>
  /\ toClient = <<>>
  /\ peer = "open"
  /\ known = [h \in Hash |-> NoEntry]
  /\ pending = {}
  /\ decoded = {}
  /\ asks = 0

------------------------------------------------------------------------------
(* The main thread. It is suspended while the trap runs.                   *)

MainAt(step) == process = "up" /\ trap # "closing" /\ main = step

(* timestamp=(time), with a time or with nil. *)
SetTimestamp ==
  /\ MainAt("idle")
  /\ timestamp' \in BOOLEAN
  /\ UNCHANGED <<data, arrays, schema_list, sends, threads, toServer, toClient,
                 server>>

(* A new array becomes @feature_schema; the slip would empty the old one.  *)
ClearedArray(fs) == [arrays EXCEPT ![feature_schema] = fs]
FreshArray(fs) == Append(arrays, fs)

(* features=(hash): fresh @data and @feature_schema, then add for each     *)
(* pair. A value that cannot be encoded raises before either changes, and  *)
(* leaves the pairs before it: that is the call with the shorter hash.     *)
SetFeatures ==
  /\ MainAt("idle")
  /\ Len(arrays) < MaxArrays
  /\ \E fs \in FeatureHash : data' = fs /\ arrays' = FreshArray(fs)
  /\ UNCHANGED <<timestamp, schema_list, sends, threads, toServer, toClient,
                 server>>

(* The contract of a caller that never adds to what was already sent.      *)
MayAdd ==
  \/ AddAfterSend
  \/ \A h \in Hash : schema_list[h] # NoEntry
                       => schema_list[h].features # feature_schema

(* add(name, val) appends in place to both @data and @feature_schema. *)
Add ==
  /\ MainAt("idle")
  /\ Len(data) < MaxFeatures
  /\ MayAdd
  /\ \E f \in Feature :
       /\ data' = Append(data, f)
       /\ arrays' = [arrays EXCEPT ![feature_schema] = Append(@, f)]
  /\ UNCHANGED <<timestamp, schema_list, sends, threads, toServer, toClient,
                 server>>

(* raw_schema as an object, and its content, which to_json serialises. *)
RawSchema == [features |-> feature_schema, timestamp |-> timestamp]
Content(entry) ==
  [features |-> arrays[entry.features], timestamp |-> entry.timestamp]

(* The shape of data_with_headers; the slip would forget the header.       *)
DataWithoutHeaders == [features |-> data, timestamp |-> FALSE]
DataWithHeaders == [features |-> data, timestamp |-> timestamp]

(* @schema_list with the schema of the codec under its hash; the slip      *)
(* would hash the features alone.                                          *)
HashOfSchema == Digest4(Content(RawSchema))
ListedByFeatures ==
  [schema_list EXCEPT ![Digest4([Content(RawSchema) EXCEPT !.timestamp = FALSE])]
     = RawSchema]
Listed == [schema_list EXCEPT ![HashOfSchema] = RawSchema]

(* send, first part: register the schema under its hash. *)
Register ==
  /\ MainAt("idle")
  /\ sends < MaxSends
  /\ schema_list' = Listed
  /\ main' = "registered"
  /\ UNCHANGED <<codec, sends, trap, listener, held, closing_started, process,
                 toServer, toClient, server>>

(* The binary frame of packet. *)
PacketFrame == [kind |-> "data", id |-> sends + 1, hash |-> HashOfSchema,
                body |-> DataWithHeaders]

(* send, second part: write the packet, then forget the timestamp (the     *)
(* reset of @features touches a variable nothing reads). Nothing looks at  *)
(* @closing_started.                                                       *)
Transmit ==
  /\ MainAt("registered")
  /\ toServer' = Append(toServer, PacketFrame)
  /\ sends' = sends + 1
  /\ timestamp' = FALSE
  /\ main' = "idle"
  /\ UNCHANGED <<data, arrays, schema_list, trap, listener, held,
                 closing_started, process, toClient, server>>

(* Writing to a connection the server closed may raise Errno::EPIPE, which *)
(* nothing rescues: the main thread ends, and with it the process.         *)
MainBroken ==
  /\ MainAt("registered") \/ (process = "up" /\ trap = "closing")
  /\ peer = "closed"
  /\ process' = "exited"
  /\ UNCHANGED <<codec, schema_list, sends, main, trap, listener, held,
                 closing_started, toServer, toClient, server>>

(* The caller is done after a close: the script ends. *)
MainExit ==
  /\ MainAt("idle")
  /\ trap = "done"
  /\ process' = "exited"
  /\ UNCHANGED <<codec, schema_list, sends, main, trap, listener, held,
                 closing_started, toServer, toClient, server>>

------------------------------------------------------------------------------
(* WebSocket#close, called by the trap and, for a Close of the peer, by    *)
(* the listener: the check and the frame first, the flag afterwards.       *)

NoCloseFrame == toServer' = toServer
WriteCloseFrame ==
  toServer' = IF closing_started THEN toServer ELSE Append(toServer, Close)

TrapCloseBegin ==
  /\ MayEnd
  /\ process = "up" /\ trap = "ready"
  /\ WriteCloseFrame
  /\ trap' = "closing"
  /\ UNCHANGED <<codec, schema_list, sends, main, listener, held,
                 closing_started, process, toClient, server>>

TrapCloseEnd ==
  /\ process = "up" /\ trap = "closing"
  /\ closing_started' = TRUE
  /\ trap' = "done"
  /\ UNCHANGED <<codec, schema_list, sends, main, listener, held, process,
                 toServer, toClient, server>>

------------------------------------------------------------------------------
(* The listener thread: receive, dispatch, answer.                         *)

ListenerAt(step) == process = "up" /\ listener = step
Received(kind) == toClient # <<>> /\ Head(toClient).kind = kind

(* A schema_request whose hash is in @schema_list: keep the entry. The     *)
(* lookup does not take the mutex. The slip would not test what it found.  *)
Held(h) == [hash |-> h, entry |-> schema_list[h]]

LookUpUnchecked ==
  /\ ListenerAt("receiving")
  /\ Received("schema_request")
  /\ held' = Held(Head(toClient).hash)
  /\ listener' = "found"
  /\ toClient' = Tail(toClient)
  /\ UNCHANGED <<codec, schema_list, sends, main, trap, closing_started,
                 process, toServer, server>>

LookUp ==
  /\ ListenerAt("receiving")
  /\ Received("schema_request")
  /\ LET h == Head(toClient).hash
     IN  IF schema_list[h] # NoEntry
           THEN /\ held' = Held(h)
                /\ listener' = "found"
           ELSE UNCHANGED <<held, listener>>
  /\ toClient' = Tail(toClient)
  /\ UNCHANGED <<codec, schema_list, sends, main, trap, closing_started,
                 process, toServer, server>>

(* The response is serialised now, from what the entry now refers to. *)
ResponseFrame == [kind |-> "schema_response", hash |-> held.hash,
                  schema |-> Content(held.entry)]

Respond ==
  /\ ListenerAt("found")
  /\ toServer' = Append(toServer, ResponseFrame)
  /\ held' = NoEntry
  /\ listener' = "receiving"
  /\ UNCHANGED <<codec, schema_list, sends, main, trap, closing_started,
                 process, toClient, server>>

(* Any other JSON object is read and ignored. *)
Ignore ==
  /\ ListenerAt("receiving")
  /\ Received("text")
  /\ toClient' = Tail(toClient)
  /\ UNCHANGED <<codec, schema_list, sends, threads, toServer, server>>

(* JSON.parse raises, receive raises on binary and ping, the connection is *)
(* reset under a read or a write: the thread ends, the process goes on.    *)
ListenerDies ==
  /\ \/ /\ ListenerAt("receiving")
        /\ \E kind \in {"not_json", "binary", "ping"} : Received(kind)
        /\ toClient' = Tail(toClient)
     \/ /\ \/ ListenerAt("receiving") \/ ListenerAt("found")
           \/ ListenerAt("closing") /\ ~closing_started
        /\ peer = "closed"
        /\ UNCHANGED toClient
  /\ listener' = "dead"
  /\ held' = NoEntry
  /\ UNCHANGED <<codec, schema_list, sends, main, trap, closing_started,
                 process, toServer, server>>

(* receive returns nil on a pong, and on the end of the stream: exit().    *)
ListenerExit ==
  /\ ListenerAt("receiving")
  /\ \/ Received("pong")
     \/ toClient = <<>> /\ peer = "closed"
  /\ process' = "exited"
  /\ UNCHANGED <<codec, schema_list, sends, main, trap, listener, held,
                 closing_started, toServer, toClient, server>>

PeerCloseBegin ==
  /\ ListenerAt("receiving")
  /\ Received("close")
  /\ WriteCloseFrame
  /\ listener' = "closing"
  /\ toClient' = Tail(toClient)
  /\ UNCHANGED <<codec, schema_list, sends, main, trap, held, closing_started,
                 process, server>>

(* The socket is closed, the flag is set, receive returns nil, exit().     *)
(* One step: a write in between raises, which ends the process as well.    *)
PeerCloseEnd ==
  /\ ListenerAt("closing")
  /\ closing_started' = TRUE
  /\ process' = "exited"
  /\ UNCHANGED <<codec, schema_list, sends, main, trap, listener, held,
                 toServer, toClient, server>>

------------------------------------------------------------------------------
(* The server is not part of the repository: it does what the protocol     *)
(* description in the top-level README expects of it.                      *)

Reads(kind) == peer = "open" /\ toServer # <<>> /\ Head(toServer).kind = kind
Ask(h) == [kind |-> "schema_request", hash |-> h]
DecodedWith(ps, s) == {[packet |-> p, schema |-> s] : p \in ps}

ServerTakesPacket ==
  /\ Reads("data")
  /\ LET p == Head(toServer)
     IN  IF known[p.hash] # NoEntry
           THEN /\ decoded' = decoded \cup DecodedWith({p}, known[p.hash])
                /\ UNCHANGED <<pending, toClient>>
           ELSE /\ pending' = pending \cup {p}
                /\ toClient' = Append(toClient, Ask(p.hash))
                /\ UNCHANGED decoded
  /\ toServer' = Tail(toServer)
  /\ UNCHANGED <<codec, schema_list, sends, threads, peer, known, asks>>

ServerTakesResponse ==
  /\ Reads("schema_response")
  /\ LET r == Head(toServer)
         released == {p \in pending : p.hash = r.hash}
     IN  /\ known' = [known EXCEPT ![r.hash] = r.schema]
         /\ decoded' = decoded \cup DecodedWith(released, r.schema)
         /\ pending' = pending \ released
  /\ toServer' = Tail(toServer)
  /\ UNCHANGED <<codec, schema_list, sends, threads, toClient, peer, asks>>

(* It may ask again, or for a hash of another client, or send anything else.*)
ServerSpeaks ==
  /\ peer = "open"
  /\ asks < MaxAsks
  /\ asks' = asks + 1
  /\ \/ \E h \in Hash : toClient' = Append(toClient, Ask(h))
     \/ \E kind \in Strays : toClient' = Append(toClient, [kind |-> kind])
  /\ UNCHANGED <<codec, schema_list, sends, threads, toServer, peer, known,
                 pending, decoded>>

ServerCloses ==
  /\ MayEnd
  /\ peer = "open"
  /\ peer' = "closing"
  /\ toClient' = Append(toClient, Close)
  /\ UNCHANGED <<codec, schema_list, sends, threads, toServer, known, pending,
                 decoded, asks>>

ServerTakesClose ==
  /\ peer # "closed"
  /\ toServer # <<>> /\ Head(toServer).kind = "close"
  /\ toClient' = IF peer = "closing" THEN toClient ELSE Append(toClient, Close)
  /\ peer' = "closed"
  /\ toServer' = Tail(toServer)
  /\ UNCHANGED <<codec, schema_list, sends, threads, known, pending, decoded,
                 asks>>

(* Once it sent Close the server drops what still arrives before Close. *)
ServerDiscards ==
  /\ peer = "closing"
  /\ toServer # <<>> /\ Head(toServer).kind # "close"
  /\ toServer' = Tail(toServer)
  /\ UNCHANGED <<codec, schema_list, sends, threads, toClient, server>>

(* The connection is lost, or the server crashes. *)
ConnectionLost ==
  /\ MayEnd
  /\ peer # "closed"
  /\ peer' = "closed"
  /\ UNCHANGED <<codec, schema_list, sends, threads, toServer, toClient, known,
                 pending, decoded, asks>>

------------------------------------------------------------------------------
Main == SetTimestamp \/ SetFeatures \/ Add \/ Register \/ Transmit
          \/ MainBroken \/ MainExit
Trap == TrapCloseBegin \/ TrapCloseEnd
Listener == LookUp \/ Respond \/ Ignore \/ ListenerDies \/ ListenerExit
              \/ PeerCloseBegin \/ PeerCloseEnd
ServerReads == ServerTakesPacket \/ ServerTakesResponse \/ ServerTakesClose
                 \/ ServerDiscards
Server == ServerReads \/ ServerSpeaks \/ ServerCloses \/ ConnectionLost

Next == Main \/ Trap \/ Listener \/ Server

Spec == Init /\ [][Next]_vars

(* Ruby schedules its threads preemptively, a send that started goes on,   *)
(* and a server that is up reads its socket. The caller owes nothing.      *)
Fairness == WF_vars(Transmit) /\ WF_vars(Listener) /\ WF_vars(ServerReads)

FairSpec == Spec /\ Fairness

------------------------------------------------------------------------------
(* What must hold.                                                         *)

Frames(kind) == {m \in Range(toServer) : m.kind = kind}
Posted == Frames("data") \cup pending \cup {d.packet : d \in decoded}

(* Whenever the server asks for the schema of a packet, from the moment    *)
(* the packet is on the wire and for ever after, `@schema_list[...]' in    *)
(* the listener finds an entry: send registers before it writes, under the *)
(* key the packet carries, and nothing ever removes a key.                 *)
Answerable == \A p \in Posted : schema_list[p.hash] # NoEntry

(* The schema of a response is the one its hash names, although it is      *)
(* serialised long after the packet was, from an array the main thread     *)
(* shares; so the server files only true schemas under a hash.             *)
SchemaMatchesHash ==
  /\ \A r \in Frames("schema_response") : Digest4(r.schema) = r.hash
  /\ \A h \in Hash : known[h] # NoEntry => Digest4(known[h]) = h

(* Schema-on-write: the client, its threads and the server together        *)
(* implement SchemaOnWrite, every packet is decoded by its own schema. It  *)
(* takes a digest that tells the schemas apart.                            *)
Abstract == INSTANCE SchemaOnWrite WITH posted <- Posted
DecodesByOwnSchema == Abstract!Spec

(* What is posted is decoded in the end, as long as the connection lasts   *)
(* and the listener with it: it answers each request, whatever the main    *)
(* thread does meanwhile.                                                  *)
Ended == peer # "open" \/ process = "exited" \/ listener = "dead"
Delivered ==
  \A n \in 1..MaxSends :
    (\E p \in Posted : p.id = n)
      ~> ((\E d \in decoded : d.packet.id = n) \/ Ended)

(* A connection closed by the trap comes to its end: the server answers    *)
(* the Close frame, the listener sees it and ends the process, unless it   *)
(* died before.                                                            *)
CloseEnds == trap = "done" ~> (process = "exited" \/ listener = "dead")

(* The Close frame is the last the client writes (the trap of basic_test   *)
(* calls itself a clean exit).                                             *)
CloseIsLast ==
  \A i, j \in DOMAIN toServer :
    toServer[i].kind = "close" /\ i < j => toServer[j].kind = "close"
==============================================================================
