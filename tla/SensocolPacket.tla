---------------------------- MODULE SensocolPacket ----------------------------
(***************************************************************************)
(* The packet of the C library: one pre-allocated structure that a device  *)
(* initialises, fills with features and sends, reading after reading. A    *)
(* value is abstracted to its type and the bytes it takes, the name of a   *)
(* feature to its length and whether JSON has to escape it. The caller     *)
(* keeps within the arrays, as sensocol.h asks for.                        *)
(***************************************************************************)
EXTENDS SensocolLayout, SequencesExt

CONSTANTS
  MaxFeatures,    (* MAX_FEATURES                                           *)
  MaxBuffer,      (* MAX_BUFFER_LENGTH                                      *)
  MaxName,        (* MAX_FEATURE_NAME_LENGTH                                *)
  PointerSize,    (* bytes of a pointer                                     *)
  IdLengths,      (* lengths of a sensor id                                 *)
  ValueLengths,   (* lengths of a string or byte array                      *)
  IntLengths,     (* lengths of an encoded integer                          *)
  NameLengths,    (* lengths of the name of a feature                       *)
  MaxFrames       (* bound: frames generated                                *)

(* The limits are adjusted to the use: MaxFeatures values fit the buffer. *)
ASSUME PacketAssumption ==
  /\ MaxFeatures \in Nat /\ MaxBuffer \in Nat /\ MaxFrames \in Nat
  /\ IdLengths \subseteq Nat /\ ValueLengths \subseteq Nat
  /\ IntLengths \subseteq 1..10
  /\ NameLengths \subseteq 0..MaxName
  /\ PointerSize \in Nat \ {0}
  /\ \A n \in {8} \cup IntLengths \cup {BytesSize(m) : m \in ValueLengths} :
       MaxFeatures * n <= MaxBuffer

(* A pointer takes two bytes or more, and the buffer holds a block or more *)
(* (sensocol.h has 1024 bytes).                                            *)
ASSUME FillingAssumption == PointerSize >= 2 /\ MaxBuffer >= 16

Feature == [type : Type, name : NameContent, name_len : NameLengths]
Value == [type : Type, length : Nat]

VARIABLES
  timestamp,         (* packet->timestamp > 0                               *)
  sensor_id_length,
  features,          (* features[0 .. feature_count - 1]                    *)
  buffer,            (* the values in buffer[0 .. buffer_offset - 1]        *)
  frames             (* the frames generated                                *)

packet == <<timestamp, sensor_id_length, features, buffer>>
vars == <<packet, frames>>

feature_count == Len(features)
buffer_offset == FrameLength(buffer)

(* sizeof(buffer): `sc_byte_t * buffer[MAX_BUFFER_LENGTH]' has room for as *)
(* many pointers. The slip is the array of bytes it is used as.            *)
BufferOfBytes == MaxBuffer
BufferSize == PointerSize * MaxBuffer

TypeOK ==
  /\ timestamp \in BOOLEAN
  /\ sensor_id_length \in IdLengths
  /\ features \in Seq(Feature) /\ feature_count <= MaxFeatures
  /\ buffer \in Seq(Value) /\ buffer_offset <= MaxBuffer

(* main: the packet is on the stack; sensocol_packet_init comes first.     *)
Init ==
  /\ timestamp = FALSE
  /\ sensor_id_length \in IdLengths
  /\ features = <<>> /\ buffer = <<>>
  /\ frames = <<>>

(* sensocol_packet_init, for the next reading; the slip keeps the buffer.  *)
PacketInitKeepsBuffer ==
  /\ timestamp' = FALSE
  /\ features' = <<>>
  /\ sensor_id_length' \in IdLengths
  /\ UNCHANGED <<buffer, frames>>

PacketInit ==
  /\ timestamp' = FALSE
  /\ features' = <<>>
  /\ buffer' = <<>>
  /\ sensor_id_length' \in IdLengths
  /\ UNCHANGED <<frames>>

(* The caller assigns packet.timestamp. *)
SetTimestamp ==
  /\ timestamp' \in BOOLEAN
  /\ UNCHANGED <<sensor_id_length, features, buffer, frames>>

------------------------------------------------------------------------------
(* sensocol_packet_add_long and its siblings: the feature, then the value. *)

AddValue(type, length) ==
  /\ feature_count < MaxFeatures
  /\ \E name \in NameContent, n \in NameLengths :
       /\ name = "special" => n > 0
       /\ features' = Append(features, [type |-> type, name |-> name, name_len |-> n])
  /\ buffer' = Append(buffer, [type |-> type, length |-> length])
  /\ UNCHANGED <<timestamp, sensor_id_length, frames>>

(* add_long and add_long_long *)
AddInt == \E n \in IntLengths : AddValue("int", n)
AddFloat == AddValue("float", 4)
AddDouble == AddValue("double", 8)
AddString == \E n \in ValueLengths : AddValue("string", BytesSize(n))
AddBytes == \E n \in ValueLengths : AddValue("bytes", BytesSize(n))

------------------------------------------------------------------------------
(* Generating frames. A frame keeps what it was generated from.            *)

(* sensocol_schema_from_packet *)
SchemaFromPacket == SchemaDocument(timestamp, features)

Generate(frame) ==
  /\ Len(frames) < MaxFrames
  /\ frames' = Append(frames, frame)
  /\ UNCHANGED packet

PostFrame ==
  [kind |-> "post", schema |-> SchemaFromPacket, timestamp |-> timestamp,
   features |-> features, values |-> buffer,
   fields |-> PostFields(sensor_id_length, buffer_offset),
   size |-> PostSize(sensor_id_length, buffer_offset)]

Aes128Frame ==
  [kind |-> "aes", schema |-> SchemaFromPacket, timestamp |-> timestamp,
   features |-> features, values |-> buffer,
   fields |-> AesFields(sensor_id_length, buffer_offset),
   size |-> AesSize(sensor_id_length, buffer_offset),
   header |-> AesHeader(sensor_id_length),
   encrypted |-> EncryptedSize(buffer_offset)]

(* sensocol_schema_generate_response, of the document as it is now. *)
SchemaFrame ==
  LET schema_len == FrameLength(SchemaFromPacket)
  IN  [kind |-> "schema", schema |-> SchemaFromPacket, timestamp |-> timestamp,
       features |-> features, values |-> buffer,
       fields |-> SchemaFields(schema_len), size |-> SchemaSize(schema_len)]

GeneratePost == Generate(PostFrame)
GenerateAes128 == Generate(Aes128Frame)
GenerateSchema == Generate(SchemaFrame)

Next ==
  \/ PacketInit \/ SetTimestamp
  \/ AddInt \/ AddFloat \/ AddDouble \/ AddString \/ AddBytes
  \/ GeneratePost \/ GenerateAes128 \/ GenerateSchema

Spec == Init /\ [][Next]_vars

------------------------------------------------------------------------------
(* What must hold.                                                         *)

Generated(kind) == {f \in ToSet(frames) : f.kind = kind}

(* The bytes of the literals of a document. *)
ASSUME LiteralAssumption ==
  /\ Len("{\"headers\": {") = 13 /\ Len("\"timestamp\":true") = 16
  /\ Len("}, \"features\": [") = 16 /\ Len("]}") = 2
  /\ Len(", ") = 2 /\ Len("{\"name\":\"") = 9
  /\ Len("\", \"type\":\"int\"}") = 16
  /\ Len("\", \"type\":\"string\"}") = 19
  /\ Len("\", \"type\":\"bytes\"}") = 18
  /\ Len("\", \"type\":\"float\"}") = 18
  /\ Len("\", \"type\":\"double\"}") = 19

(* What a reader makes of a document. It is JSON only if each piece is     *)
(* whole, no name has a character that wants escaping, and commas are where*)
(* they belong.                                                            *)
Whole(piece) == piece.name \in NameContent \/ Len(piece.name) = piece.length
TypeNamed(piece) == {type \in Type : TypePiece(type).name = piece.name}
IsJSON(document) ==
  /\ \A i \in DOMAIN document :
       Whole(document[i]) /\ document[i].name # "special"
  /\ \A i \in 1..(Len(document) - 1) :
       document[i + 1].name = ", " <=>
         TypeNamed(document[i]) # {} /\ i + 1 < Len(document)

(* What it announces of the data, in order: the headers come first. *)
Announced(piece) ==
  IF piece.name = "\"timestamp\":true" THEN <<"timestamp">>
  ELSE IF TypeNamed(piece) = {} THEN <<>>
  ELSE <<CHOOSE type \in TypeNamed(piece) : TRUE>>
Announcement(document) ==
  LET read[i \in 0..Len(document)] ==
        IF i = 0 THEN <<>> ELSE read[i - 1] \o Announced(document[i])
  IN  read[Len(document)]

Stamped(frame) == IF frame.timestamp THEN <<"timestamp">> ELSE <<>>
TypesWritten(frame) == [i \in DOMAIN frame.values |-> frame.values[i].type]

(* What the document of a frame says of the data of the frame, also for the*)
(* second reading in the same structure. It can be read exactly if no name *)
(* wants escaping (README.md:43 supports all characters,                   *)
(* sensocol_schema.c:37 copies them). It announces each value written, and *)
(* the values fill the data (up to the filling, if it is encrypted); but of*)
(* a packet with a timestamp it announces the timestamp in front of them   *)
(* (sensocol_schema.c:27), which is not written (sensocol.c:137, :174),    *)
(* although README.md:36 says the data includes it. So a decoder that      *)
(* follows the document ends where the values end exactly if the packet    *)
(* has no timestamp.                                                       *)
SchemaDescribesValues ==
  \A f \in ToSet(frames) :
    /\ IsJSON(f.schema) <=> \A i \in DOMAIN f.features : f.features[i].name = "plain"
    /\ Announcement(f.schema) = Stamped(f) \o TypesWritten(f)
    /\ Announcement(f.schema) = TypesWritten(f) <=> ~f.timestamp
    /\ f.kind = "aes" =>
         Begin(f.fields, "data") + FrameLength(f.values) <= FrameLength(f.fields)
    /\ f.kind = "post" =>
         Begin(f.fields, "data") + FrameLength(f.values) = FrameLength(f.fields)

(* The Size field of an encrypted frame, and of a schema, is the length of *)
(* the whole frame.                                                        *)
SizeIsLength ==
  \A f \in Generated("aes") \cup Generated("schema") : f.size = FrameLength(f.fields)

(* The same of a frame that is not encrypted. *)
PostSizeIsLength ==
  \A f \in Generated("post") : f.size = FrameLength(f.fields)

(* aes_crypt_cbc is given whole blocks, from the byte behind the sensor id *)
(* to the last byte of the frame.                                          *)
EncryptsTheRest ==
  \A f \in Generated("aes") :
    /\ f.header = Begin(f.fields, "access_token")
    /\ f.header + f.encrypted = FrameLength(f.fields)
    /\ f.encrypted % 16 = 0

(* The data of an encrypted frame, filled up to whole blocks, is copied    *)
(* from the array that holds the values, and nothing behind it, although   *)
(* the limit the caller keeps to leaves no room for the filling.           *)
FillingIsInBuffer ==
  \A f \in Generated("aes") : EncryptedSize(FrameLength(f.values)) - 20 <= BufferSize
===============================================================================
