---------------------------- MODULE SensocolLayout ----------------------------
(***************************************************************************)
(* The frames the C library generates for a Binary Request, as sequences   *)
(* of fields with their lengths in bytes, next to what it computes for the *)
(* Size field and for the encryption. The content of a field is left out.  *)
(***************************************************************************)
EXTENDS Naturals, Sequences, FiniteSets

Field(name, length) == [name |-> name, length |-> length]

(* The bytes of the first n fields: `offset' when field n + 1 is written.   *)
Offset(fields, n) ==
  LET offset[k \in 0..n] ==
        IF k = 0 THEN 0 ELSE offset[k - 1] + fields[k].length
  IN  offset[n]
FrameLength(fields) == Offset(fields, Len(fields))
Begin(fields, name) ==
  Offset(fields, (CHOOSE i \in DOMAIN fields : fields[i].name = name) - 1)

(* sensocol_size_int32_encoded of a length: zig-zag doubles it, and each   *)
(* power of 128 takes one byte more.                                       *)
SizeEncoded(n) == 1 + Cardinality({k \in 1..4 : 2 * n >= 128^k})

(* sensocol_write_bytes: the length, then the bytes. *)
BytesSize(n) == SizeEncoded(n) + n

------------------------------------------------------------------------------
(* sensocol_generate_post_packet, for a sensor id and a buffer of the given*)
(* lengths. The code computes the size before it writes.                   *)

PostFields(sid, data) ==
  <<Field("command", 1), Field("size", 2), Field("access_key", 4),
    Field("sensor_id", BytesSize(sid)), Field("access_token", 16),
    Field("schema_md5", 4), Field("data", data)>>

PostSize(sid, data) == 23 + SizeEncoded(sid) + sid + data

------------------------------------------------------------------------------
(* sensocol_generate_aes128_post_packet. What follows the sensor id is     *)
(* filled up to blocks of 16 bytes with what the packet buffer holds, and  *)
(* encrypted in place; the slips forget to fill up, and to count the nonce.*)

NotAligned(n) == n
Aligned(n) == IF (n % 16) > 0 THEN n + (16 - (n % 16)) ELSE n
EncryptedSize(data) == Aligned(data + 16 + 4)

AesHeaderWithoutNonce(sid) == 7 + SizeEncoded(sid) + sid
AesHeader(sid) == 11 + SizeEncoded(sid) + sid

AesFields(sid, data) ==
  <<Field("command", 1), Field("size", 2), Field("access_key", 4),
    Field("nonce", 4), Field("sensor_id", BytesSize(sid)),
    Field("access_token", 16), Field("schema_md5", 4),
    Field("data", EncryptedSize(data) - 20)>>

AesSize(sid, data) == AesHeader(sid) + EncryptedSize(data)

------------------------------------------------------------------------------
(* sensocol_schema_from_packet: the pieces of the JSON document, each with *)
(* the number of its bytes the code has counted by hand. The name of a     *)
(* feature is copied as it is: "special" is one with characters that JSON  *)
(* wants escaped, "plain" any other.                                       *)

NameContent == {"plain", "special"}

Type == {"int", "float", "double", "string", "bytes"}

(* The slip counts one byte too few for strings. *)
TypePieceShort(type) ==
  CASE type = "int" -> Field("\", \"type\":\"int\"}", 16)
    [] type = "string" -> Field("\", \"type\":\"string\"}", 18)
    [] type = "bytes" -> Field("\", \"type\":\"bytes\"}", 18)
    [] type = "float" -> Field("\", \"type\":\"float\"}", 18)
    [] type = "double" -> Field("\", \"type\":\"double\"}", 19)
TypePiece(type) ==
  CASE type = "int" -> Field("\", \"type\":\"int\"}", 16)
    [] type = "string" -> Field("\", \"type\":\"string\"}", 19)
    [] type = "bytes" -> Field("\", \"type\":\"bytes\"}", 18)
    [] type = "float" -> Field("\", \"type\":\"float\"}", 18)
    [] type = "double" -> Field("\", \"type\":\"double\"}", 19)

(* An object for each feature; the slip puts no comma between them. *)
FeaturePiecesBare(features, i) ==
  <<Field("{\"name\":\"", 9), Field(features[i].name, features[i].name_len),
    TypePiece(features[i].type)>>
FeaturePieces(features, i) ==
  (IF i > 1 THEN <<Field(", ", 2)>> ELSE <<>>) \o
  <<Field("{\"name\":\"", 9), Field(features[i].name, features[i].name_len),
    TypePiece(features[i].type)>>

(* The loop over the features. *)
FeatureList(features, n) ==
  LET list[i \in 0..n] ==
        IF i = 0 THEN <<>> ELSE list[i - 1] \o FeaturePieces(features, i)
  IN  list[n]

SchemaDocument(timestamp, features) ==
  <<Field("{\"headers\": {", 13)>> \o
  (IF timestamp THEN <<Field("\"timestamp\":true", 16)>> ELSE <<>>) \o
  <<Field("}, \"features\": [", 16)>> \o
  FeatureList(features, Len(features)) \o <<Field("]}", 2)>>

------------------------------------------------------------------------------
(* sensocol_schema_generate_response; the slip forgets the three bytes.    *)

SchemaFields(schema) ==
  <<Field("command", 1), Field("size", 2), Field("schema", schema)>>

SchemaSizeAlone(schema) == schema
SchemaSize(schema) == 3 + schema
===============================================================================
