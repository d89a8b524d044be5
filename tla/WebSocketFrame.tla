---------------------------- MODULE WebSocketFrame ----------------------------
(***************************************************************************)
(* One direction of a WebSocket connection: frames are written byte by     *)
(* byte to a TCP stream that delivers any number of them at a time and may *)
(* end anywhere; receive reads a header, a length, a mask and a payload    *)
(* with a blocking read each. The reader is the client, and what it reads  *)
(* was written by a server; or it is the server, and what it reads was     *)
(* written by the client with encode and send_frame. The server is not     *)
(* part of the repository: it stands for any that reads frames as receive  *)
(* does and, as RFC 6455 wants and receive would if @server were ever set, *)
(* insists on masks. WebSocketHandshake says when frames are written and   *)
(* read: its specification is the one that is checked.                     *)
(*                                                                         *)
(* Xor works bit by bit: a byte of a payload or a key stands for one of    *)
(* its bits. The field of the short length is scaled from 128 to Field,    *)
(* and the digits of the long ones from 256 to Base.                       *)
(***************************************************************************)
EXTENDS Integers, Sequences

CONSTANTS
  Field,     (* values of the short length: the last two announce a longer  *)
  Base,      (* values of a byte of a longer length                         *)
  Payload,   (* the payloads written                                        *)
  Key,       (* the masking keys drawn: four bytes                          *)
  MaxFrames  (* bound: frames written                                       *)

Bits == {0, 1}

(* 2^16, 2^32 and 2^64, scaled: the numbers of two, four and eight digits. *)
Base2 == Base * Base
Base4 == Base2 * Base2
Base8 == Base4 * Base4

ASSUME FrameAssumption ==
  /\ Field \in Nat /\ Field > 2
  /\ Base \in Nat /\ Base > 1
  /\ Base2 >= Field - 2
  /\ Payload \subseteq Seq(Bits) /\ <<>> \in Payload
  /\ \A p \in Payload : Len(p) < Base8
  /\ Key \subseteq [1..4 -> Bits]
  /\ MaxFrames \in Nat

CONTINUATION == 0
TEXT == 1
BINARY == 2
CLOSE == 8
PING == 9
PONG == 10
Opcode == 0..15

Frame == [opcode : Opcode, fin : BOOLEAN, mask : BOOLEAN, payload : Payload]

VARIABLES
  server,    (* whether the reader has the server's role                    *)
  written,   (* the frames written                                          *)
  wire,      (* their bytes, in order, that are not read yet                *)
  arrived,   (* how many of them have arrived                               *)
  eof,       (* whether nothing more will arrive                            *)
  pc,        (* what receive reads next: "header", "length", "mask",        *)
             (* "payload"; or how the loop around it ended: "nil", "raised" *)
  header,    (* opcode, mask and plength of the frame that is read          *)
  mask_key,
  received   (* the texts receive returned                                  *)

stream == <<wire, arrived, eof>>
vars == <<server, written, stream, pc, header, mask_key, received>>

------------------------------------------------------------------------------
(* Writing: the layout of a frame. *)

(* pack("n"); pack("NN") of size / 2 ** 32 and size % 2 ** 32, which is    *)
(* pack("L!>") of the size.                                                *)
Digits2(n) == <<n \div Base, n % Base>>
Digits4(n) == Digits2(n \div Base2) \o Digits2(n % Base2)
Digits8(n) == Digits4(n \div Base4) \o Digits4(n % Base4)

(* The length in its shortest form; masked sets the high bit of the first  *)
(* byte. The slip puts the boundary one too high.                          *)
FirstLength(masked, n) == IF masked THEN Field + n ELSE n
LengthBytesOffByOne(masked, n) ==
  CASE n <= Field - 2 -> <<FirstLength(masked, n)>>
    [] n > Field - 2 /\ n < Base2 -> <<FirstLength(masked, Field - 2)>> \o Digits2(n)
    [] OTHER -> <<FirstLength(masked, Field - 1)>> \o Digits8(n)
LengthBytes(masked, n) ==
  CASE n <= Field - 3 -> <<FirstLength(masked, n)>>
    [] n > Field - 3 /\ n < Base2 -> <<FirstLength(masked, Field - 2)>> \o Digits2(n)
    [] OTHER -> <<FirstLength(masked, Field - 1)>> \o Digits8(n)

Xor(a, b) == (a + b) % 2

(* encode masks byte i with the byte i % 4 of the key counted from its most*)
(* significant one, as the key is written; the slip counts from the other  *)
(* end.                                                                    *)
MaskFromLeast(payload, key) ==
  [i \in DOMAIN payload |-> Xor(payload[i], key[4 - ((i - 1) % 4)])]
Mask(payload, key) ==
  [i \in DOMAIN payload |-> Xor(payload[i], key[((i - 1) % 4) + 1])]

(* encode: masked always. send_frame with mask = false. *)
First(opcode, fin) == IF fin THEN 16 + opcode ELSE opcode
Encode(opcode, payload, key) ==
  <<First(opcode, TRUE)>> \o LengthBytes(TRUE, Len(payload)) \o key \o Mask(payload, key)
SendFrame(opcode, payload) ==
  <<First(opcode, TRUE)>> \o LengthBytes(FALSE, Len(payload)) \o payload

------------------------------------------------------------------------------
TypeOK ==
  /\ server \in BOOLEAN
  /\ written \in Seq(Frame) /\ Len(written) <= MaxFrames
  /\ wire \in Seq(Nat)
  /\ arrived \in 0..Len(wire)
  /\ eof \in BOOLEAN
  /\ pc \in {"header", "length", "mask", "payload", "nil", "raised"}
  /\ header \in [opcode : Opcode, mask : BOOLEAN, plength : 0..(Base8 - 1)]
  /\ mask_key \in [1..4 -> Bits]
  /\ received \in Seq(Payload)

Init ==
  /\ server \in BOOLEAN
  /\ written = <<>>
  /\ wire = <<>> /\ arrived = 0
  /\ eof = FALSE
  /\ pc = "header"
  /\ header = [opcode |-> 0, mask |-> FALSE, plength |-> 0]
  /\ mask_key = [i \in 1..4 |-> 0]
  /\ received = <<>>

(* A whole frame is written, or the rest of it is lost with the connection.*)
Write(opcode, fin, masked, payload, bytes) ==
  /\ ~eof
  /\ Len(written) < MaxFrames
  /\ written' = Append(written, [opcode |-> opcode, fin |-> fin, mask |-> masked,
                                 payload |-> payload])
  /\ wire' = wire \o bytes
  /\ UNCHANGED <<server, arrived, eof, pc, header, mask_key, received>>

(* send and send_binary of the client. *)
ClientSends ==
  /\ server
  /\ \E opcode \in {TEXT, BINARY}, payload \in Payload, key \in Key :
       Write(opcode, TRUE, TRUE, payload, Encode(opcode, payload, key))

(* close of the client, with the code 1005 all its callers use. *)
ClientCloses ==
  /\ server
  /\ Write(CLOSE, TRUE, FALSE, <<>>, SendFrame(CLOSE, <<>>))

(* The server need not mask, and may cut a text in fragments, but not a    *)
(* control frame, which is short.                                          *)
ServerSends ==
  /\ ~server
  /\ \E opcode \in {CONTINUATION, TEXT, BINARY, CLOSE, PING, PONG},
        fin \in BOOLEAN, payload \in Payload :
       /\ ~fin => opcode = TEXT
       /\ opcode \in {CLOSE, PING, PONG} => Len(payload) <= Field - 3
       /\ Write(opcode, fin, FALSE, payload,
                <<First(opcode, fin)>> \o Tail(SendFrame(opcode, payload)))

Arrive ==
  /\ ~eof
  /\ arrived < Len(wire)
  /\ arrived' = arrived + 1
  /\ UNCHANGED <<server, written, wire, eof, pc, header, mask_key, received>>

(* The stream ends: what has not arrived is lost. *)
End ==
  /\ ~eof
  /\ eof' = TRUE
  /\ wire' = SubSeq(wire, 1, arrived)
  /\ UNCHANGED <<server, written, arrived, pc, header, mask_key, received>>

------------------------------------------------------------------------------
(* receive. *)

(* read(n) at some place of receive returns n bytes once they are there.   *)
Reads(place, n) ==
  /\ pc = place
  /\ arrived >= n
  /\ wire' = SubSeq(wire, n + 1, Len(wire))
  /\ arrived' = arrived - n
  /\ UNCHANGED <<server, written, eof>>

Missing(place) ==
  CASE place = "header" -> 2
    [] place = "length" -> IF header.plength = Field - 2 THEN 2 ELSE 8
    [] place = "mask" -> 4
    [] place = "payload" -> header.plength

(* A short read is an EOFError, which receive rescues, and returns nil.    *)
EndOfFile ==
  /\ pc \in {"header", "length", "mask", "payload"}
  /\ eof /\ arrived < Missing(pc)
  /\ pc' = "nil"
  /\ wire' = <<>> /\ arrived' = 0
  /\ UNCHANGED <<server, written, eof, header, mask_key, received>>

(* With the length known a server insists on a mask. *)
AfterLength(mask) ==
  IF mask THEN "mask" ELSE IF server THEN "raised" ELSE "payload"

(* fin is taken from the first byte and not looked at.                     *)
ReadHeader ==
  /\ Reads("header", 2)
  /\ LET mask == wire[2] >= Field
         plength == wire[2] % Field
     IN  /\ header' = [opcode |-> wire[1] % 16, mask |-> mask, plength |-> plength]
         /\ pc' = IF plength >= Field - 2 THEN "length" ELSE AfterLength(mask)
  /\ UNCHANGED <<mask_key, received>>

(* unpack("n"), and unpack("NN") with high * (2 ** 32) + low; the slip     *)
(* takes high for low.                                                     *)
Number2(digits, i) == digits[i] * Base + digits[i + 1]
Number4(digits, i) == Number2(digits, i) * Base2 + Number2(digits, i + 2)
NumberLowHigh(digits) ==
  IF Len(digits) = 2 THEN Number2(digits, 1)
  ELSE Number4(digits, 5) * Base4 + Number4(digits, 1)
Number(digits) ==
  IF Len(digits) = 2 THEN Number2(digits, 1)
  ELSE Number4(digits, 1) * Base4 + Number4(digits, 5)

ReadLength ==
  /\ Reads("length", Missing("length"))
  /\ header' = [header EXCEPT !.plength =
                  Number(SubSeq(wire, 1, Missing("length")))]
  /\ pc' = AfterLength(header.mask)
  /\ UNCHANGED <<mask_key, received>>

ReadMask ==
  /\ Reads("mask", 4)
  /\ mask_key' = SubSeq(wire, 1, 4)
  /\ pc' = "payload"
  /\ UNCHANGED <<header, received>>

(* apply_mask *)
Unmask(payload) ==
  IF header.mask
    THEN [i \in DOMAIN payload |-> Xor(payload[i], mask_key[((i - 1) % 4) + 1])]
    ELSE payload

(* How receive ends, by opcode: a text is returned and receive is called   *)
(* again. The slip would not raise for a binary frame.                     *)
AfterPayloadSilent(opcode) ==
  CASE opcode = TEXT -> "header"
    [] opcode \in {BINARY, CLOSE, PONG} -> "nil"
    [] OTHER -> "raised"
AfterPayload(opcode) ==
  CASE opcode = TEXT -> "header"
    [] opcode \in {CLOSE, PONG} -> "nil"
    [] OTHER -> "raised"

ReadPayload ==
  /\ Reads("payload", header.plength)
  /\ received' = IF header.opcode = TEXT
                   THEN Append(received, Unmask(SubSeq(wire, 1, header.plength)))
                   ELSE received
  /\ pc' = AfterPayload(header.opcode)
  /\ UNCHANGED <<header, mask_key>>

------------------------------------------------------------------------------
Writer == ClientSends \/ ClientCloses \/ ServerSends
Reader == EndOfFile \/ ReadHeader \/ ReadLength \/ ReadMask \/ ReadPayload

------------------------------------------------------------------------------
(* What must hold.                                                         *)

Ended == pc \in {"nil", "raised"}

(* The texts received are those of the first frames written, in order and  *)
(* whole, however the stream is cut in pieces and wherever it ends.        *)
TextsAreReceived ==
  /\ Len(received) <= Len(written)
  /\ \A i \in 1..Len(received) :
       written[i].opcode = TEXT /\ received[i] = written[i].payload

(* The loop around receive ends for what is next in the stream: receive    *)
(* raises for a frame that is not supported or not masked, and nil means a *)
(* Close, a pong or the end of the stream, never a length or an opcode     *)
(* taken from the middle of a frame.                                       *)
NextFrame == written[Len(received) + 1]
EndsForAReason ==
  /\ pc = "raised" =>
       /\ Len(received) < Len(written)
       /\ \/ NextFrame.opcode \in {CONTINUATION, BINARY, PING}
          \/ server /\ ~NextFrame.mask
  /\ pc = "nil" =>
       \/ eof
       \/ Len(received) < Len(written) /\ NextFrame.opcode \in {CLOSE, PONG}
==============================================================================
