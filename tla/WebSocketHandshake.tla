--------------------------- MODULE WebSocketHandshake ---------------------------
(***************************************************************************)
(* A WebSocket from `new' on: initialize writes a request, reads the       *)
(* server's answer line by line and only then lets receive read frames off *)
(* the same stream (WebSocketFrame). A line stands on the wire as one      *)
(* number, above those of the bytes. Where the stream ends within a line,  *)
(* gets returns what there is of it.                                       *)
(*                                                                         *)
(* The request ends with a line of its own only by way of the credentials: *)
(* encode64 puts a newline behind them, so that the "\r\n" written next is *)
(* the empty line. It also puts one behind every 45 bytes of them.         *)
(***************************************************************************)
EXTENDS WebSocketFrame, SequencesExt

CONSTANT Responses  (* what a server may answer: sequences of lines        *)

(* Lines, as far as initialize and read_header tell them apart. *)
SWITCHING_PROTOCOLS == 1000   (* HTTP/1.1 101                              *)
OTHER_STATUS == 1001
UPGRADE_WEBSOCKET == 1002     (* Upgrade: WebSocket                        *)
UPGRADE_OTHER == 1003
CONNECTION_UPGRADE == 1004    (* Connection: ..., Upgrade, ...             *)
CONNECTION_OTHER == 1005
FIELD == 1006                 (* any other name: value                     *)
NO_FIELD == 1007              (* no name or no colon                       *)
EMPTY == 1008
UNSPACED_FIELD == 1009        (* a field without a space behind the colon  *)
Line == 1000..1009
UpgradeFields == {UPGRADE_WEBSOCKET, UPGRADE_OTHER}
ConnectionFields == {CONNECTION_UPGRADE, CONNECTION_OTHER}

(* An answer begins with a status line and is all that comes up to an      *)
(* empty line, if there is one. No byte is a line.                         *)
ASSUME HandshakeAssumption ==
  /\ Responses \subseteq Seq(Line)
  /\ \A lines \in Responses :
       /\ lines # <<>>
       /\ \A i \in 1..(Len(lines) - 1) : lines[i] # EMPTY
       /\ \A i \in 2..Len(lines) : lines[i] \notin {SWITCHING_PROTOCOLS, OTHER_STATUS}
  /\ 2 * Field <= 1000 /\ Base <= 1000

VARIABLES
  credentials,  (* params[:username]: "none", "short", or "long", more     *)
                (* than 45 bytes with the password                         *)
  response,     (* what the server answered, <<>> before                   *)
  phase,        (* "status", "fields": what initialize reads next; "open", *)
                (* "failed"                                                *)
  upgrade,      (* @header["upgrade"]: "none", "good" or "bad"             *)
  connection    (* @header["connection"]                                   *)

header_fields == <<upgrade, connection>>
handshake == <<credentials, response, phase, header_fields>>
allvars == <<vars, handshake>>

------------------------------------------------------------------------------
(* A server that reads has shaken hands already. *)
HandshakeInit ==
  /\ Init
  /\ credentials \in IF server THEN {"short"} ELSE {"none", "short", "long"}
  /\ response = <<>>
  /\ phase = IF server THEN "open" ELSE "status"
  /\ upgrade = "none" /\ connection = "none"

(* A whole answer that says 101. *)
Switched(lines) ==
  lines # <<>> /\ Head(lines) = SWITCHING_PROTOCOLS /\ Last(lines) = EMPTY

(* What the standards make of an answer, whatever this client does: HTTP   *)
(* (RFC 7230, 3.2) asks for no space behind the colon and joins fields of  *)
(* one name to a list, and RFC 6455, 4.1, wants an Upgrade that is         *)
(* "websocket" and nothing else, and a Connection that lists Upgrade. Its  *)
(* third demand, Sec-WebSocket-Accept, is left out on both sides: the code *)
(* has it as a TODO (web_socket.rb:91).                                    *)
Accepts(lines) ==
  /\ Switched(lines)
  /\ \A i \in 1..Len(lines) : lines[i] # NO_FIELD
  /\ \E i \in 1..Len(lines) :
       /\ lines[i] = UPGRADE_WEBSOCKET
       /\ \A j \in 1..Len(lines) : j # i => lines[j] \notin UpgradeFields
  /\ \E i \in 1..Len(lines) : lines[i] = CONNECTION_UPGRADE
Repeats(lines, fields) ==
  \E i, j \in 1..Len(lines) : i < j /\ lines[i] \in fields /\ lines[j] \in fields

(* The server answers once it has read the empty line that ends a request, *)
(* and refuses one with a broken field in it.                              *)
Respond ==
  /\ ~server /\ ~eof
  /\ response = <<>>
  /\ credentials # "none"
  /\ \E lines \in Responses :
       /\ credentials = "long" => Head(lines) # SWITCHING_PROTOCOLS
       /\ response' = lines
       /\ wire' = wire \o lines
  /\ UNCHANGED <<server, written, arrived, eof, pc, header, mask_key, received>>
  /\ UNCHANGED <<credentials, phase, header_fields>>

(* Frames follow a whole 101, whether or not the client takes it for one. *)
WriteFrame ==
  /\ server \/ Switched(response)
  /\ Writer
  /\ UNCHANGED handshake

(* What gets may return of a line whose end is lost. *)
Torn(line) ==
  CASE line = SWITCHING_PROTOCOLS -> {SWITCHING_PROTOCOLS, OTHER_STATUS}
    [] line = UPGRADE_WEBSOCKET -> {UPGRADE_WEBSOCKET, UPGRADE_OTHER, NO_FIELD}
    [] line = UPGRADE_OTHER -> {UPGRADE_OTHER, NO_FIELD}
    [] line = CONNECTION_UPGRADE -> {CONNECTION_UPGRADE, CONNECTION_OTHER, NO_FIELD}
    [] line = CONNECTION_OTHER -> {CONNECTION_OTHER, NO_FIELD}
    [] line \in {FIELD, UNSPACED_FIELD} -> {line, NO_FIELD}
    [] OTHER -> {line}

EndInLine ==
  /\ ~eof
  /\ arrived < Len(wire) /\ wire[arrived + 1] \in Line
  /\ \E line \in Torn(wire[arrived + 1]) :
       wire' = SubSeq(wire, 1, arrived) \o <<line>>
  /\ arrived' = arrived + 1
  /\ eof' = TRUE
  /\ UNCHANGED <<server, written, pc, header, mask_key, received, handshake>>

------------------------------------------------------------------------------
(* initialize. *)

(* gets returns a line. *)
Gets(place) ==
  /\ phase = place
  /\ arrived >= 1
  /\ wire' = Tail(wire) /\ arrived' = arrived - 1
  /\ UNCHANGED <<server, written, eof, pc, header, mask_key, received>>
  /\ UNCHANGED <<credentials, response>>

(* gets returns nil. *)
GetsNil(place) ==
  /\ phase = place
  /\ eof /\ arrived = 0
  /\ UNCHANGED <<vars, credentials, response, header_fields>>

ReadStatus ==
  /\ Gets("status")
  /\ phase' = IF wire[1] = SWITCHING_PROTOCOLS THEN "fields" ELSE "failed"
  /\ UNCHANGED header_fields

(* nil.chomp() *)
NoStatus ==
  /\ GetsNil("status")
  /\ phase' = "failed"

(* A later field overwrites an earlier one. *)
FieldOf(old, line, good, bad) ==
  CASE line = good -> "good"
    [] line = bad -> "bad"
    [] OTHER -> old

ReadField ==
  /\ Gets("fields")
  /\ wire[1] # EMPTY
  /\ phase' = IF wire[1] \in {NO_FIELD, UNSPACED_FIELD} THEN "failed" ELSE phase
  /\ upgrade' = FieldOf(upgrade, wire[1], UPGRADE_WEBSOCKET, UPGRADE_OTHER)
  /\ connection' = FieldOf(connection, wire[1], CONNECTION_UPGRADE, CONNECTION_OTHER)

(* The checks behind the loop; the slip leaves the second one out.         *)
CheckedUpgrade == IF upgrade = "good" THEN "open" ELSE "failed"
Checked == IF upgrade = "good" /\ connection = "good" THEN "open" ELSE "failed"

(* The loop ends with an empty line, or with the stream. In the slip only  *)
(* with the stream.                                                        *)
HeaderGoesOn ==
  /\ Gets("fields")
  /\ wire[1] = EMPTY
  /\ UNCHANGED <<phase, header_fields>>
HeaderEnds ==
  /\ Gets("fields")
  /\ wire[1] = EMPTY
  /\ phase' = Checked
  /\ UNCHANGED header_fields

HeaderIsCut ==
  /\ GetsNil("fields")
  /\ phase' = Checked

Handshake == ReadStatus \/ NoStatus \/ ReadField \/ HeaderEnds \/ HeaderIsCut

(* receive may be called once the object is there. *)
Receive ==
  /\ phase = "open"
  /\ Reader
  /\ UNCHANGED handshake

HandshakeNext ==
  \/ Respond \/ WriteFrame
  \/ Arrive /\ UNCHANGED handshake
  \/ End /\ UNCHANGED handshake
  \/ EndInLine
  \/ Handshake
  \/ Receive

HandshakeSpec == HandshakeInit /\ [][HandshakeNext]_allvars

(* The server answers a whole request, what is written arrives, unless the *)
(* stream ends, and neither initialize nor the listener stops by itself.   *)
FairHandshakeSpec ==
  /\ HandshakeSpec
  /\ WF_allvars(Respond)
  /\ WF_allvars(Arrive /\ UNCHANGED handshake)
  /\ WF_allvars(Handshake)
  /\ WF_allvars(Receive)

------------------------------------------------------------------------------
(* What must hold.                                                         *)

(* initialize opens a connection for the answers that make one by the      *)
(* standards, and raises for the others; nothing opens without a 101. They *)
(* part when the stream ends, and otherwise in two places only. The last   *)
(* of repeated fields counts, instead of their list (web_socket.rb:266,    *)
(* :267): so an Upgrade may be taken that was contradicted, and a          *)
(* Connection missed that was there. And a field without a space behind the*)
(* colon, which is a field, raises (:263).                                 *)
Agreement ==
  ~server =>
    /\ phase = "open" =>
         /\ response # <<>> /\ Head(response) = SWITCHING_PROTOCOLS
         /\ Accepts(response) \/ eof \/ Repeats(response, UpgradeFields)
    /\ phase = "failed" =>
         \/ eof
         \/ /\ response # <<>>
            /\ \/ ~Accepts(response)
               \/ Repeats(response, ConnectionFields)
               \/ UNSPACED_FIELD \in ToSet(response)

(* initialize stops right behind the empty line: no byte of a frame is     *)
(* taken for a line, and no line is left for receive.                      *)
LinesThenFrames ==
  ~server =>
    /\ phase = "open" => \A i \in 1..Len(wire) : wire[i] \notin Line
    /\ phase \in {"status", "fields"} /\ wire # <<>> => Head(wire) \in Line

(* initialize ends when the server answers, however the answer arrives:    *)
(* with credentials, a request is whole.                                   *)
Answered == phase \in {"open", "failed"}
HandshakeEnds == credentials # "none" => <>(eof \/ Answered)

(* Each text written is received, unless the loop around receive or the    *)
(* stream ended: neither initialize nor receive takes a byte too much, or  *)
(* waits for bytes that are not part of an answer or a frame.              *)
TextsArrive ==
  \A i \in 1..MaxFrames :
    Len(written) >= i ~> (Len(received) >= i \/ Ended \/ phase = "failed")

(* `client = WebSocket.new(ARGV[1])' of web_socket.rb, without credentials, *)
(* and what follows it: puts("Connected").                                 *)
ClientConnects == credentials = "none" => <>(eof \/ Answered)
================================================================================
