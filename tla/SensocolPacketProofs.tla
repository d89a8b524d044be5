------------------------ MODULE SensocolPacketProofs ------------------------
(***************************************************************************)
(* The packet of the C library stays within its arrays, and the frames it  *)
(* generates announce their sizes, encrypt what they say and come with a   *)
(* schema that announces their values: for arrays of every size, features  *)
(* of every number and values of every length.                             *)
(***************************************************************************)
EXTENDS SensocolPacket, FiniteSetTheorems, SequenceTheorems,
        WellFoundedInduction, TLAPS

(* Induction over the naturals, for a set: the least natural outside of it *)
(* is neither 0 nor a successor. The recursive functions of the model, each*)
(* a loop of the code, are reasoned about with it.                         *)
LEMMA SetInduction ==
  ASSUME NEW T, 0 \in T, \A n \in Nat : n \in T => n + 1 \in T
  PROVE  \A n \in Nat : n \in T
<1> DEFINE Rest == Nat \ T
<1> SUFFICES ASSUME Rest # {} PROVE FALSE
  OBVIOUS
<1>1. PICK x \in Rest : \A y \in Rest : ~(<<y, x>> \in OpToRel(<, Nat))
  <2>1. Rest \subseteq Nat
    OBVIOUS
  <2> HIDE DEF Rest
  <2> QED
    BY <2>1, NatLessThanWellFounded, WFMin
<1>2. x \in Nat /\ x # 0
  OBVIOUS
<1>3. x - 1 \in Nat /\ x - 1 < x /\ x - 1 + 1 = x
  BY <1>2
<1>4. <<x - 1, x>> \in OpToRel(<, Nat)
  BY <1>2, <1>3 DEF OpToRel
<1>5. x - 1 \in T
  BY <1>1, <1>3, <1>4
<1> QED
  BY <1>3, <1>5

------------------------------------------------------------------------------
(***************************************************************************)
(* Offsets. Summing(sum, fields, n): sum is the function that Offset means *)
(* by its recursion.                                                       *)
(***************************************************************************)
Fields(fields, n) == \A i \in 1..n : fields[i].length \in Nat

Summing(sum, fields, n) ==
  sum = [k \in 0..n |-> IF k = 0 THEN 0 ELSE sum[k - 1] + fields[k].length]

(* The loop runs to its end, whatever the number of fields. *)
LEMMA SummingExists ==
  ASSUME NEW fields
  PROVE  \A n \in Nat : \E sum : Summing(sum, fields, n)
<1> DEFINE T == {n \in Nat : \E sum : Summing(sum, fields, n)}
<1>1. 0 \in T
  <2> DEFINE zero == [k \in 0..0 |-> 0]
  <2>1. Summing(zero, fields, 0)
    BY DEF Summing
  <2> QED
    BY <2>1
<1>2. ASSUME NEW n \in Nat, n \in T PROVE n + 1 \in T
  <2>1. PICK sum : Summing(sum, fields, n)
    BY <1>2
  <2> DEFINE next == [k \in 0..(n + 1) |->
                        IF k = n + 1 THEN sum[n] + fields[n + 1].length ELSE sum[k]]
  <2>2. ASSUME NEW k \in 0..(n + 1)
        PROVE  next[k] = IF k = 0 THEN 0 ELSE next[k - 1] + fields[k].length
    <3>1. CASE k = n + 1
      BY <3>1
    <3>2. CASE k # n + 1
      <4>1. k \in 0..n /\ (k # 0 => k - 1 \in 0..(n + 1) /\ k - 1 # n + 1)
        BY <3>2
      <4>2. sum[k] = IF k = 0 THEN 0 ELSE sum[k - 1] + fields[k].length
        BY <2>1, <4>1 DEF Summing
      <4> QED
        BY <3>2, <4>1, <4>2
    <3> QED
      BY <3>1, <3>2
  <2>3. next = [k \in 0..(n + 1) |-> next[k]]
    OBVIOUS
  <2>4. Summing(next, fields, n + 1)
    <3> HIDE DEF next
    <3> QED
      BY <2>2, <2>3 DEF Summing
  <2> QED
    BY <2>4
<1> HIDE DEF T
<1>3. \A n \in Nat : n \in T
  BY <1>1, <1>2, SetInduction
<1> QED
  BY <1>3 DEF T

(* What the loop adds up does not depend on how far it will run. *)
LEMMA SummingUnique ==
  ASSUME NEW f, NEW g, NEW n \in Nat, NEW m \in Nat, NEW sum, NEW other,
         Summing(sum, f, n), Summing(other, g, m), Fields(f, n),
         \A i \in 1..n : i <= m => g[i].length = f[i].length
  PROVE  \A k \in Nat : k <= n /\ k <= m => sum[k] = other[k] /\ sum[k] \in Nat
<1> DEFINE T == {k \in Nat : k <= n /\ k <= m => sum[k] = other[k] /\ sum[k] \in Nat}
<1>1. 0 \in T
  BY DEF Summing
<1>2. ASSUME NEW k \in Nat, k \in T PROVE k + 1 \in T
  <2> SUFFICES ASSUME k + 1 <= n, k + 1 <= m
               PROVE  sum[k + 1] = other[k + 1] /\ sum[k + 1] \in Nat
    OBVIOUS
  <2>1. k + 1 \in 0..n /\ k + 1 \in 0..m /\ k + 1 # 0 /\ k + 1 - 1 = k /\ k + 1 \in 1..n
    OBVIOUS
  <2>2. sum[k] = other[k] /\ sum[k] \in Nat
    BY <1>2
  <2>3. sum[k + 1] = sum[k] + f[k + 1].length
    BY <2>1 DEF Summing
  <2>4. other[k + 1] = other[k] + g[k + 1].length
    BY <2>1 DEF Summing
  <2>5. f[k + 1].length = g[k + 1].length /\ f[k + 1].length \in Nat
    BY <2>1 DEF Fields
  <2> QED
    BY <2>2, <2>3, <2>4, <2>5
<1> HIDE DEF T
<1>3. \A k \in Nat : k \in T
  BY <1>1, <1>2, SetInduction
<1> QED
  BY <1>3 DEF T

LEMMA OffsetIsSum ==
  ASSUME NEW fields, NEW n \in Nat
  PROVE  \E sum : Summing(sum, fields, n) /\ Offset(fields, n) = sum[n]
<1> DEFINE offset[k \in 0..n] ==
             IF k = 0 THEN 0 ELSE offset[k - 1] + fields[k].length
<1>1. \E sum : Summing(sum, fields, n)
  BY SummingExists
<1>2. Summing(offset, fields, n)
  BY <1>1 DEF Summing
<1>3. Offset(fields, n) = offset[n]
  BY DEF Offset
<1> HIDE DEF offset
<1> QED
  BY <1>2, <1>3

(* Fields that have the same lengths take as many bytes. *)
LEMMA OffsetSame ==
  ASSUME NEW f, NEW g, NEW n \in Nat, Fields(f, n),
         \A i \in 1..n : g[i].length = f[i].length
  PROVE  Offset(g, n) = Offset(f, n) /\ Offset(f, n) \in Nat
<1>1. PICK sum : Summing(sum, f, n) /\ Offset(f, n) = sum[n]
  BY OffsetIsSum
<1>2. PICK other : Summing(other, g, n) /\ Offset(g, n) = other[n]
  BY OffsetIsSum
<1> QED
  BY <1>1, <1>2, SummingUnique

(* Writing a field moves the offset by its length. *)
LEMMA OffsetZero == \A fields : Offset(fields, 0) = 0
<1> SUFFICES ASSUME NEW fields PROVE Offset(fields, 0) = 0
  OBVIOUS
<1>1. PICK sum : Summing(sum, fields, 0) /\ Offset(fields, 0) = sum[0]
  BY OffsetIsSum
<1> QED
  BY <1>1 DEF Summing

LEMMA OffsetStep ==
  ASSUME NEW fields, NEW n \in Nat, Fields(fields, n + 1)
  PROVE  Offset(fields, n + 1) = Offset(fields, n) + fields[n + 1].length
<1>1. PICK sum : Summing(sum, fields, n + 1) /\ Offset(fields, n + 1) = sum[n + 1]
  BY OffsetIsSum
<1>2. PICK other : Summing(other, fields, n) /\ Offset(fields, n) = other[n]
  BY OffsetIsSum
<1>3. sum[n] = other[n]
  <2>1. Fields(fields, n)
    BY DEF Fields
  <2> QED
    BY <1>1, <1>2, <2>1, SummingUnique
<1>4. n + 1 \in 0..(n + 1) /\ n + 1 # 0 /\ n + 1 - 1 = n
  OBVIOUS
<1>5. sum[n + 1] = sum[n] + fields[n + 1].length
  BY <1>1, <1>4 DEF Summing
<1> QED
  BY <1>1, <1>2, <1>3, <1>5

(* The same, for sequences of typed fields. *)
LEMMA FrameLengthEmpty == FrameLength(<<>>) = 0
BY OffsetZero DEF FrameLength

LEMMA FrameLengthAppend ==
  ASSUME NEW S, NEW fields \in Seq(S), NEW field \in S, field.length \in Nat,
         \A i \in 1..Len(fields) : fields[i].length \in Nat
  PROVE  /\ FrameLength(fields) \in Nat
         /\ FrameLength(Append(fields, field)) = FrameLength(fields) + field.length
<1> DEFINE n == Len(fields)
           more == Append(fields, field)
<1>1. n \in Nat /\ Len(more) = n + 1 /\ more[n + 1] = field
  OBVIOUS
<1>2. \A i \in 1..n : more[i] = fields[i]
  OBVIOUS
<1>3. Fields(more, n + 1)
  <2> SUFFICES ASSUME NEW i \in 1..(n + 1) PROVE more[i].length \in Nat
    BY DEF Fields
  <2>1. CASE i = n + 1
    BY <1>1, <2>1
  <2>2. CASE i # n + 1
    BY <1>1, <1>2, <2>2
  <2> QED
    BY <2>1, <2>2
<1>4. Fields(fields, n)
  BY DEF Fields
<1> HIDE DEF more, n
<1>5. Offset(more, n + 1) = Offset(more, n) + field.length
  BY <1>1, <1>3, OffsetStep
<1>6. Offset(more, n) = Offset(fields, n) /\ Offset(fields, n) \in Nat
  BY <1>1, <1>2, <1>4, OffsetSame
<1> QED
  BY <1>1, <1>5, <1>6 DEF FrameLength, n, more

------------------------------------------------------------------------------
(***************************************************************************)
(* The frames: where each field begins, in sums.                           *)
(***************************************************************************)
LEMMA SizeEncodedType == \A n : SizeEncoded(n) \in 1..5
<1> SUFFICES ASSUME NEW n PROVE SizeEncoded(n) \in 1..5
  OBVIOUS
<1> DEFINE More == {k \in 1..4 : 2 * n >= 128^k}
<1>1. IsFiniteSet(1..4) /\ Cardinality(1..4) = 4
  BY FS_Interval, 1 \in Int, 4 \in Int, 4 - 1 + 1 = 4, ~(1 > 4)
<1>2. More \in SUBSET (1..4)
  OBVIOUS
<1> HIDE DEF More
<1>3. Cardinality(More) \in Nat /\ Cardinality(More) <= 4
  BY <1>1, <1>2, FS_Subset, FS_CardinalityType
<1> QED
  BY <1>3 DEF SizeEncoded, More

LEMMA BytesSizeType == \A n \in Nat : BytesSize(n) \in Nat
BY SizeEncodedType DEF BytesSize

LEMMA AlignedIsBlocks ==
  \A n \in Nat : /\ Aligned(n) \in Nat /\ Aligned(n) % 16 = 0
                 /\ n <= Aligned(n) /\ Aligned(n) <= n + 15
BY DEF Aligned

LEMMA PostLayout ==
  ASSUME NEW sid \in Nat, NEW data \in Nat
  PROVE  LET f == PostFields(sid, data)
         IN  /\ Begin(f, "data") = 27 + BytesSize(sid)
             /\ FrameLength(f) = 27 + BytesSize(sid) + data
<1> DEFINE f == PostFields(sid, data)
<1>1. BytesSize(sid) \in Nat
  BY BytesSizeType
<1>2. /\ DOMAIN f = 1..7 /\ Len(f) = 7
      /\ f[1].length = 1 /\ f[2].length = 2 /\ f[3].length = 4
      /\ f[4].length = BytesSize(sid) /\ f[5].length = 16
      /\ f[6].length = 4 /\ f[7].length = data
  BY DEF PostFields, Field
<1>3. /\ f[1].name = "command" /\ f[2].name = "size" /\ f[3].name = "access_key"
      /\ f[4].name = "sensor_id" /\ f[5].name = "access_token"
      /\ f[6].name = "schema_md5" /\ f[7].name = "data"
  BY DEF PostFields, Field
<1> HIDE DEF f
<1>4. Fields(f, 1) /\ Fields(f, 2) /\ Fields(f, 3) /\ Fields(f, 4) /\ Fields(f, 5)
      /\ Fields(f, 6) /\ Fields(f, 7)
  BY <1>1, <1>2 DEF Fields
<1>5. /\ Offset(f, 1) = Offset(f, 0) + f[1].length
      /\ Offset(f, 2) = Offset(f, 1) + f[2].length
      /\ Offset(f, 3) = Offset(f, 2) + f[3].length
      /\ Offset(f, 4) = Offset(f, 3) + f[4].length
      /\ Offset(f, 5) = Offset(f, 4) + f[5].length
      /\ Offset(f, 6) = Offset(f, 5) + f[6].length
      /\ Offset(f, 7) = Offset(f, 6) + f[7].length
  BY <1>4, OffsetStep, 0 + 1 = 1, 1 + 1 = 2, 2 + 1 = 3, 3 + 1 = 4, 4 + 1 = 5,
     5 + 1 = 6, 6 + 1 = 7
<1>6. Offset(f, 6) = 27 + BytesSize(sid) /\ Offset(f, 7) = 27 + BytesSize(sid) + data
  BY <1>1, <1>2, <1>5, OffsetZero
<1>7. (CHOOSE i \in DOMAIN f : f[i].name = "data") = 7
  BY <1>2, <1>3
<1>8. Begin(f, "data") = Offset(f, 6) /\ FrameLength(f) = Offset(f, 7)
  BY <1>2, <1>7, 7 - 1 = 6 DEF Begin, FrameLength
<1> QED
  BY <1>6, <1>8 DEF f

LEMMA AesLayout ==
  ASSUME NEW sid \in Nat, NEW data \in Nat
  PROVE  LET f == AesFields(sid, data)
         IN  /\ Begin(f, "access_token") = AesHeader(sid)
             /\ Begin(f, "data") = AesHeader(sid) + 20
             /\ FrameLength(f) = AesHeader(sid) + EncryptedSize(data)
<1> DEFINE f == AesFields(sid, data)
           filled == EncryptedSize(data) - 20
<1>1. BytesSize(sid) \in Nat /\ AesHeader(sid) = 11 + BytesSize(sid)
  BY BytesSizeType, SizeEncodedType DEF AesHeader, BytesSize
<1>2. filled \in Nat /\ EncryptedSize(data) = filled + 20
  BY AlignedIsBlocks DEF EncryptedSize
<1> HIDE DEF filled
<1>3. /\ DOMAIN f = 1..8 /\ Len(f) = 8
      /\ f[1].length = 1 /\ f[2].length = 2 /\ f[3].length = 4 /\ f[4].length = 4
      /\ f[5].length = BytesSize(sid) /\ f[6].length = 16
      /\ f[7].length = 4 /\ f[8].length = filled
  BY DEF AesFields, Field, filled
<1>4. /\ f[1].name = "command" /\ f[2].name = "size" /\ f[3].name = "access_key"
      /\ f[4].name = "nonce" /\ f[5].name = "sensor_id" /\ f[6].name = "access_token"
      /\ f[7].name = "schema_md5" /\ f[8].name = "data"
  BY DEF AesFields, Field
<1> HIDE DEF f
<1>5. Fields(f, 1) /\ Fields(f, 2) /\ Fields(f, 3) /\ Fields(f, 4) /\ Fields(f, 5)
      /\ Fields(f, 6) /\ Fields(f, 7) /\ Fields(f, 8)
  BY <1>1, <1>2, <1>3 DEF Fields
<1>6. /\ Offset(f, 1) = Offset(f, 0) + f[1].length
      /\ Offset(f, 2) = Offset(f, 1) + f[2].length
      /\ Offset(f, 3) = Offset(f, 2) + f[3].length
      /\ Offset(f, 4) = Offset(f, 3) + f[4].length
      /\ Offset(f, 5) = Offset(f, 4) + f[5].length
      /\ Offset(f, 6) = Offset(f, 5) + f[6].length
      /\ Offset(f, 7) = Offset(f, 6) + f[7].length
      /\ Offset(f, 8) = Offset(f, 7) + f[8].length
  BY <1>5, OffsetStep, 0 + 1 = 1, 1 + 1 = 2, 2 + 1 = 3, 3 + 1 = 4, 4 + 1 = 5,
     5 + 1 = 6, 6 + 1 = 7, 7 + 1 = 8
<1>7. /\ Offset(f, 5) = AesHeader(sid) /\ Offset(f, 7) = AesHeader(sid) + 20
      /\ Offset(f, 8) = AesHeader(sid) + EncryptedSize(data)
  BY <1>1, <1>2, <1>3, <1>6, OffsetZero
<1>8. /\ (CHOOSE i \in DOMAIN f : f[i].name = "access_token") = 6
      /\ (CHOOSE i \in DOMAIN f : f[i].name = "data") = 8
  BY <1>3, <1>4
<1>9. /\ Begin(f, "access_token") = Offset(f, 5) /\ Begin(f, "data") = Offset(f, 7)
      /\ FrameLength(f) = Offset(f, 8)
  BY <1>3, <1>8, 6 - 1 = 5, 8 - 1 = 7 DEF Begin, FrameLength
<1> QED
  BY <1>7, <1>9 DEF f

LEMMA SchemaLayout ==
  ASSUME NEW schema \in Nat
  PROVE  FrameLength(SchemaFields(schema)) = SchemaSize(schema)
<1> DEFINE f == SchemaFields(schema)
<1>1. Len(f) = 3 /\ f[1].length = 1 /\ f[2].length = 2 /\ f[3].length = schema
  BY DEF SchemaFields, Field
<1> HIDE DEF f
<1>2. Fields(f, 1) /\ Fields(f, 2) /\ Fields(f, 3)
  BY <1>1 DEF Fields
<1>3. /\ Offset(f, 1) = Offset(f, 0) + f[1].length
      /\ Offset(f, 2) = Offset(f, 1) + f[2].length
      /\ Offset(f, 3) = Offset(f, 2) + f[3].length
  BY <1>2, OffsetStep, 0 + 1 = 1, 1 + 1 = 2, 2 + 1 = 3
<1> QED
  BY <1>1, <1>3, OffsetZero DEF FrameLength, SchemaSize, f

------------------------------------------------------------------------------
(***************************************************************************)
(* The schema document.                                                    *)
(***************************************************************************)
Headers == Field("{\"headers\": {", 13)
Stamp == Field("\"timestamp\":true", 16)
Features == Field("}, \"features\": [", 16)
Comma == Field(", ", 2)
Open == Field("{\"name\":\"", 9)
Name(content, n) == Field(content, n)
Close == Field("]}", 2)

Piece ==
  {Headers, Stamp, Features, Comma, Open, Close} \cup 
  {Name(content, n) : content \in NameContent, n \in Nat} \cup
  {TypePiece(type) : type \in Type}

LEMMA PieceLengths == \A piece \in Piece : piece.length \in Nat
<1>1. \A name : \A n \in Nat : Field(name, n).length \in Nat
  BY DEF Field
<1>2. \A type \in Type : TypePiece(type).length \in Nat
  BY <1>1 DEF TypePiece, Type
<1>3. \A piece \in {Headers, Stamp, Features, Comma, Open, Close} : piece.length \in Nat
  BY <1>1 DEF Headers, Stamp, Features, Comma, Open, Close
<1>4. \A content \in NameContent, n \in Nat : Name(content, n).length \in Nat
  BY <1>1 DEF Name
<1> QED
  BY <1>2, <1>3, <1>4 DEF Piece

(* Each literal is as long as the code has counted. *)
LEMMA PiecesWhole ==
  /\ Whole(Headers) /\ Whole(Stamp) /\ Whole(Features)
  /\ Whole(Comma) /\ Whole(Open) /\ Whole(Close)
  /\ \A content \in NameContent, n \in Nat : Whole(Name(content, n))
  /\ \A type \in Type : Whole(TypePiece(type))
BY LiteralAssumption
   DEF Headers, Stamp, Features, Comma, Open, Close, Name, TypePiece, Type,
       Whole, Field, NameContent

(* Only a name may want escaping. *)
LEMMA PiecesPlain ==
  /\ Headers.name # "special" /\ Stamp.name # "special" /\ Features.name # "special"
  /\ Comma.name # "special" /\ Open.name # "special" /\ Close.name # "special"
  /\ \A content \in NameContent, n \in Nat : Name(content, n).name = content
  /\ \A type \in Type : TypePiece(type).name # "special"
BY DEF Headers, Stamp, Features, Comma, Open, Close, Name, TypePiece, Type, Field

(* Only the piece of a type names it. *)
LEMMA PiecesTyped ==
  /\ TypeNamed(Headers) = {} /\ TypeNamed(Stamp) = {} /\ TypeNamed(Features) = {}
  /\ TypeNamed(Comma) = {} /\ TypeNamed(Open) = {} /\ TypeNamed(Close) = {}
  /\ \A content \in NameContent, n \in Nat : TypeNamed(Name(content, n)) = {}
  /\ \A type \in Type : TypeNamed(TypePiece(type)) = {type}
BY DEF Headers, Stamp, Features, Comma, Open, Close, Name, TypePiece, Type,
       TypeNamed, Field, NameContent

LEMMA PiecesNoComma ==
  /\ Comma.name = ", "
  /\ Headers.name # ", " /\ Stamp.name # ", " /\ Features.name # ", "
  /\ Open.name # ", " /\ Close.name # ", "
  /\ \A content \in NameContent, n \in Nat : Name(content, n).name # ", "
  /\ \A type \in Type : TypePiece(type).name # ", "
BY DEF Headers, Stamp, Features, Comma, Open, Close, Name, TypePiece, Type, Field,
       NameContent

------------------------------------------------------------------------------
(* Listing(list, features, n): list is the function that FeatureList means *)
(* by its recursion.                                                       *)
Listing(list, features_, n) ==
  list = [i \in 0..n |->
            IF i = 0 THEN <<>> ELSE list[i - 1] \o FeaturePieces(features_, i)]

LEMMA ListingExists ==
  ASSUME NEW fs
  PROVE  \A n \in Nat : \E list : Listing(list, fs, n)
<1> DEFINE T == {n \in Nat : \E list : Listing(list, fs, n)}
<1>1. 0 \in T
  <2> DEFINE none == [i \in 0..0 |-> <<>>]
  <2>1. Listing(none, fs, 0)
    BY DEF Listing
  <2> QED
    BY <2>1
<1>2. ASSUME NEW n \in Nat, n \in T PROVE n + 1 \in T
  <2>1. PICK list : Listing(list, fs, n)
    BY <1>2
  <2> DEFINE next == [i \in 0..(n + 1) |->
                        IF i = n + 1 THEN list[n] \o FeaturePieces(fs, n + 1) ELSE list[i]]
  <2>2. ASSUME NEW i \in 0..(n + 1)
        PROVE  next[i] = IF i = 0 THEN <<>> ELSE next[i - 1] \o FeaturePieces(fs, i)
    <3>1. CASE i = n + 1
      <4>1. i - 1 = n /\ n \in 0..(n + 1) /\ n # n + 1 /\ i # 0
        BY <3>1
      <4>2. next[i] = list[n] \o FeaturePieces(fs, i)
        BY <3>1
      <4>3. next[i - 1] = list[n]
        BY <4>1
      <4> QED
        BY <4>1, <4>2, <4>3
    <3>2. CASE i # n + 1
      <4>1. i \in 0..n /\ (i # 0 => i - 1 \in 0..(n + 1) /\ i - 1 # n + 1)
        BY <3>2
      <4>2. list[i] = IF i = 0 THEN <<>> ELSE list[i - 1] \o FeaturePieces(fs, i)
        BY <2>1, <4>1 DEF Listing
      <4> QED
        BY <3>2, <4>1, <4>2
    <3> QED
      BY <3>1, <3>2
  <2>3. next = [i \in 0..(n + 1) |-> next[i]]
    OBVIOUS
  <2>4. Listing(next, fs, n + 1)
    <3> HIDE DEF next
    <3> QED
      BY <2>2, <2>3 DEF Listing
  <2> QED
    BY <2>4
<1> HIDE DEF T
<1>3. \A n \in Nat : n \in T
  BY <1>1, <1>2, SetInduction
<1> QED
  BY <1>3 DEF T

LEMMA ListingStep ==
  ASSUME NEW fs, NEW n \in Nat, NEW list, Listing(list, fs, n), NEW i \in 1..n
  PROVE  list[i] = list[i - 1] \o FeaturePieces(fs, i)
<1> DEFINE L(l, k) == IF k = 0 THEN <<>> ELSE l[k - 1] \o FeaturePieces(fs, k)
<1>1. list = [k \in 0..n |-> L(list, k)]
  BY DEF Listing
<1>2. i \in 0..n /\ i # 0
  OBVIOUS
<1>3. L(list, i) = list[i - 1] \o FeaturePieces(fs, i)
  BY <1>2
<1> HIDE DEF L
<1>4. list[i] = L(list, i)
  BY <1>1, <1>2
<1> QED
  BY <1>3, <1>4

(* The pieces of the first n features, four for each but the first, which  *)
(* has no comma.                                                           *)
FeatureLength(n) == IF n = 0 THEN 0 ELSE 4 * n - 1

ListedAt(list, fs, j) ==
  /\ list[4 * j - 3] = Open
  /\ list[4 * j - 2] = Name(fs[j].name, fs[j].name_len)
  /\ list[4 * j - 1] = TypePiece(fs[j].type)
  /\ j > 1 => list[4 * j - 4] = Comma

Listed(list, fs, n) ==
  /\ list \in Seq(Piece)
  /\ Len(list) = FeatureLength(n)
  /\ \A j \in 1..n : ListedAt(list, fs, j)

(* The pieces of one feature. *)
LEMMA FeatureIsListed ==
  ASSUME NEW fs, NEW i \in Nat \ {0},
         fs[i].type \in Type, fs[i].name \in NameContent, fs[i].name_len \in Nat
  PROVE  LET pieces == FeaturePieces(fs, i)
             c == IF i > 1 THEN 1 ELSE 0
         IN  /\ pieces \in Seq(Piece) /\ Len(pieces) = c + 3
             /\ i > 1 => pieces[1] = Comma
             /\ pieces[c + 1] = Open /\ pieces[c + 2] = Name(fs[i].name, fs[i].name_len)
             /\ pieces[c + 3] = TypePiece(fs[i].type)
<1> DEFINE first == IF i > 1 THEN <<Comma>> ELSE <<>>
           rest == <<Open, Name(fs[i].name, fs[i].name_len), TypePiece(fs[i].type)>>
           pieces == FeaturePieces(fs, i)
           c == IF i > 1 THEN 1 ELSE 0
<1>1. /\ Open \in Piece /\ Name(fs[i].name, fs[i].name_len) \in Piece
      /\ TypePiece(fs[i].type) \in Piece /\ Comma \in Piece
  BY DEF Piece
<1>2. /\ first \in Seq(Piece) /\ Len(first) = c /\ (i > 1 => first[1] = Comma)
  BY <1>1
<1>3. /\ rest \in Seq(Piece) /\ Len(rest) = 3 /\ rest[1] = Open
      /\ rest[2] = Name(fs[i].name, fs[i].name_len) /\ rest[3] = TypePiece(fs[i].type)
  BY <1>1
<1>4. pieces = first \o rest
  BY DEF FeaturePieces, Open, Name, Comma
<1>5. (i > 1 /\ c = 1) \/ (~(i > 1) /\ c = 0)
  OBVIOUS
<1> HIDE DEF first, rest, pieces, c
<1>6. /\ pieces \in Seq(Piece) /\ Len(pieces) = Len(first) + Len(rest)
      /\ \A k \in 1..(Len(first) + Len(rest)) :
           pieces[k] = IF k <= Len(first) THEN first[k] ELSE rest[k - Len(first)]
  BY <1>2, <1>3, <1>4, ConcatProperties
<1>7. /\ c \in Nat /\ pieces \in Seq(Piece) /\ Len(pieces) = c + 3
      /\ \A k \in 1..(c + 3) : pieces[k] = IF k <= c THEN first[k] ELSE rest[k - c]
  BY <1>2, <1>3, <1>5, <1>6
<1>8. pieces[c + 1] = rest[1] /\ pieces[c + 2] = rest[2] /\ pieces[c + 3] = rest[3]
  BY <1>5, <1>7
<1>9. i > 1 => pieces[1] = first[1]
  BY <1>5, <1>7
<1> QED
  BY <1>2, <1>3, <1>7, <1>8, <1>9 DEF pieces, c

LEMMA FeatureListed ==
  ASSUME NEW fs, NEW n \in Nat,
         \A j \in 1..n :
           fs[j].type \in Type /\ fs[j].name \in NameContent /\ fs[j].name_len \in Nat
  PROVE  Listed(FeatureList(fs, n), fs, n)
<1> DEFINE list[i \in 0..n] ==
             IF i = 0 THEN <<>> ELSE list[i - 1] \o FeaturePieces(fs, i)
<1>1. Listing(list, fs, n)
  <2>1. \E l : Listing(l, fs, n)
    BY ListingExists
  <2> QED
    BY <2>1 DEF Listing
<1>2. FeatureList(fs, n) = list[n]
  BY DEF FeatureList
<1> HIDE DEF list
<1>6. ASSUME NEW i \in 1..n PROVE list[i] = list[i - 1] \o FeaturePieces(fs, i)
  BY <1>1, ListingStep
<1> DEFINE T == {k \in Nat : k <= n => Listed(list[k], fs, k)}
<1>3. 0 \in T
  <2>1. list[0] = <<>>
    BY <1>1 DEF Listing
  <2>2. <<>> \in Seq(Piece) /\ Len(<<>>) = 0
    BY EmptySeq
  <2>3. Len(list[0]) = FeatureLength(0) /\ list[0] \in Seq(Piece)
    BY <2>1, <2>2 DEF FeatureLength
  <2> QED
    BY <2>3 DEF Listed
<1>4. ASSUME NEW k \in Nat, k \in T PROVE k + 1 \in T
  <2> SUFFICES ASSUME k + 1 <= n PROVE Listed(list[k + 1], fs, k + 1)
    OBVIOUS
  <2> DEFINE before == list[k]
             pieces == FeaturePieces(fs, k + 1)
             after == list[k + 1]
             c == IF k + 1 > 1 THEN 1 ELSE 0
             m == FeatureLength(k)
  <2>1. Listed(before, fs, k)
    BY <1>4
  <2>2. after = before \o pieces
    <3> DEFINE i == k + 1
    <3>1. i \in 1..n /\ i - 1 = k
      OBVIOUS
    <3> HIDE DEF i
    <3>2. list[i] = list[i - 1] \o FeaturePieces(fs, i)
      BY <1>6, <3>1
    <3>3. list[i] = list[k] \o FeaturePieces(fs, i)
      BY <3>1, <3>2
    <3> QED
      BY <3>3 DEF i
  <2>3. /\ pieces \in Seq(Piece) /\ Len(pieces) = c + 3
        /\ k + 1 > 1 => pieces[1] = Comma
        /\ pieces[c + 1] = Open /\ pieces[c + 2] = Name(fs[k + 1].name, fs[k + 1].name_len)
        /\ pieces[c + 3] = TypePiece(fs[k + 1].type)
    <3>1. k + 1 \in 1..n /\ k + 1 \in Nat \ {0}
      OBVIOUS
    <3>2. /\ fs[k + 1].type \in Type /\ fs[k + 1].name \in NameContent
          /\ fs[k + 1].name_len \in Nat
      BY <3>1
    <3> QED
      BY <3>1, <3>2, FeatureIsListed
  <2>4. c \in Nat /\ m \in Nat /\ m + c = 4 * k /\ (k + 1 > 1 => c = 1)
    BY DEF FeatureLength
  <2>5. m + c + 3 = FeatureLength(k + 1)
    BY DEF FeatureLength
  <2>6. before \in Seq(Piece) /\ Len(before) = m
    BY <2>1 DEF Listed
  <2> HIDE DEF before, after, pieces, c, m
  <2>7. /\ after \in Seq(Piece) /\ Len(after) = m + c + 3
        /\ \A i \in 1..(m + c + 3) :
             after[i] = IF i <= m THEN before[i] ELSE pieces[i - m]
    <3>1. /\ after \in Seq(Piece) /\ Len(after) = Len(before) + Len(pieces)
          /\ \A i \in 1..(Len(before) + Len(pieces)) :
               after[i] = IF i <= Len(before) THEN before[i] ELSE pieces[i - Len(before)]
      BY <2>2, <2>3, <2>6, ConcatProperties
    <3>2. Len(before) + Len(pieces) = m + c + 3
      BY <2>3, <2>4, <2>6
    <3> QED
      BY <2>6, <3>1, <3>2
  <2>8. ASSUME NEW j \in 1..k PROVE ListedAt(after, fs, j)
    <3>1. m = 4 * k - 1
      BY DEF FeatureLength, m
    <3>2. /\ 4 * j - 3 \in 1..(m + c + 3) /\ 4 * j - 3 <= m
          /\ 4 * j - 2 \in 1..(m + c + 3) /\ 4 * j - 2 <= m
          /\ 4 * j - 1 \in 1..(m + c + 3) /\ 4 * j - 1 <= m
          /\ j > 1 => 4 * j - 4 \in 1..(m + c + 3) /\ 4 * j - 4 <= m
      BY <2>4, <3>1
    <3>3. ListedAt(before, fs, j)
      BY <2>1 DEF Listed
    <3> QED
      BY <2>7, <3>2, <3>3 DEF ListedAt
  <2>9. ListedAt(after, fs, k + 1)
    <3>1. ASSUME NEW i \in 1..(c + 3) PROVE after[m + i] = pieces[i]
      <4> DEFINE p == m + i
      <4>1. p \in 1..(m + c + 3) /\ ~(p <= m) /\ p - m = i
        BY <2>4
      <4> HIDE DEF p
      <4>2. after[p] = pieces[i]
        BY <2>4, <2>7, <4>1
      <4> QED
        BY <4>2 DEF p
    <3>2. /\ 4 * (k + 1) - 3 = m + (c + 1) /\ c + 1 \in 1..(c + 3)
          /\ 4 * (k + 1) - 2 = m + (c + 2) /\ c + 2 \in 1..(c + 3)
          /\ 4 * (k + 1) - 1 = m + (c + 3) /\ c + 3 \in 1..(c + 3)
          /\ k + 1 > 1 => 4 * (k + 1) - 4 = m + 1 /\ 1 \in 1..(c + 3)
      BY <2>4
    <3> QED
      BY <2>3, <3>1, <3>2 DEF ListedAt
  <2>10. \A j \in 1..(k + 1) : ListedAt(after, fs, j)
    <3>1. \A j \in 1..(k + 1) : j \in 1..k \/ j = k + 1
      OBVIOUS
    <3> QED
      BY <2>8, <2>9, <3>1
  <2> QED
    BY <2>5, <2>7, <2>10 DEF Listed, after
<1> HIDE DEF T
<1>5. \A k \in Nat : k \in T
  BY <1>3, <1>4, SetInduction
<1> QED
  BY <1>2, <1>5 DEF T

(* A document: h pieces before the list, with one for the timestamp if     *)
(* there is one, the list, and a last piece.                               *)
Document(d, h, ts, fs) ==
  LET n == FeatureLength(Len(fs))
  IN  /\ h = IF ts THEN 3 ELSE 2
      /\ d \in Seq(Piece)
      /\ Len(d) = h + n + 1
      /\ d[1] = Headers /\ (ts => d[2] = Stamp) /\ d[h] = Features
      /\ \A j \in 1..Len(fs) :
           /\ d[h + (4 * j - 3)] = Open
           /\ d[h + (4 * j - 2)] = Name(fs[j].name, fs[j].name_len)
           /\ d[h + (4 * j - 1)] = TypePiece(fs[j].type)
           /\ j > 1 => d[h + (4 * j - 4)] = Comma
      /\ d[h + n + 1] = Close

LEMMA Concat ==
  ASSUME NEW S, NEW s \in Seq(S), NEW t \in Seq(S)
  PROVE  /\ s \o t \in Seq(S) /\ Len(s \o t) = Len(s) + Len(t)
         /\ \A i \in 1..Len(s) : (s \o t)[i] = s[i]
         /\ \A i \in 1..Len(t) : (s \o t)[Len(s) + i] = t[i]
<1>1. /\ s \o t \in Seq(S) /\ Len(s \o t) = Len(s) + Len(t)
      /\ \A i \in 1..(Len(s) + Len(t)) :
           (s \o t)[i] = IF i <= Len(s) THEN s[i] ELSE t[i - Len(s)]
  BY ConcatProperties
<1>2. Len(s) \in Nat /\ Len(t) \in Nat
  OBVIOUS
<1> DEFINE u == s \o t
<1> HIDE DEF u
<1>3. ASSUME NEW i \in 1..Len(s) PROVE u[i] = s[i]
  BY <1>1, <1>2 DEF u
<1>4. ASSUME NEW i \in 1..Len(t) PROVE u[Len(s) + i] = t[i]
  <2> DEFINE p == Len(s) + i
  <2>1. p \in 1..(Len(s) + Len(t)) /\ ~(p <= Len(s)) /\ p - Len(s) = i
    BY <1>2
  <2> HIDE DEF p
  <2>2. u[p] = t[i]
    BY <1>1, <1>2, <2>1 DEF u
  <2> QED
    BY <2>2 DEF p
<1> QED
  BY <1>1, <1>3, <1>4 DEF u

(* The code writes a document. *)
LEMMA DocumentWritten ==
  ASSUME NEW ts \in BOOLEAN, NEW fs \in Seq(Feature)
  PROVE  \E h \in Nat : Document(SchemaDocument(ts, fs), h, ts, fs)
<1> DEFINE stamp == IF ts THEN <<Stamp>> ELSE <<>>
           before == <<Headers>> \o stamp
           prefix == before \o <<Features>>
           list == FeatureList(fs, Len(fs))
           open == prefix \o list
           d == SchemaDocument(ts, fs)
           c == IF ts THEN 1 ELSE 0
           h == c + 2
           n == FeatureLength(Len(fs))
<1>1. /\ <<Headers>> \in Seq(Piece) /\ <<Features>> \in Seq(Piece)
      /\ <<Close>> \in Seq(Piece) /\ stamp \in Seq(Piece)
      /\ Len(<<Headers>>) = 1 /\ <<Headers>>[1] = Headers
      /\ Len(<<Features>>) = 1 /\ <<Features>>[1] = Features
      /\ Len(<<Close>>) = 1 /\ <<Close>>[1] = Close
      /\ Len(stamp) = c /\ (ts => stamp[1] = Stamp)
  <2>1. /\ <<Headers>> \in Seq(Piece) /\ <<Features>> \in Seq(Piece)
        /\ <<Close>> \in Seq(Piece) /\ <<Stamp>> \in Seq(Piece)
    BY DEF Piece
  <2>2. \A x : Len(<<x>>) = 1 /\ <<x>>[1] = x
    OBVIOUS
  <2>3. stamp \in Seq(Piece) /\ Len(stamp) = c /\ (ts => stamp[1] = Stamp)
    <3>1. CASE ts
      BY <2>1, <2>2, <3>1
    <3>2. CASE ~ts
      <4>1. stamp = <<>>
        BY <3>2
      <4> QED
        BY <4>1, EmptySeq
    <3> QED
      BY <3>1, <3>2
  <2> QED
    BY <2>1, <2>2, <2>3
<1>2. d = open \o <<Close>>
  BY DEF SchemaDocument, Headers, Stamp, Features, Close
<1>3. Listed(list, fs, Len(fs))
  <2>1. Len(fs) \in Nat
    OBVIOUS
  <2>2. ASSUME NEW j \in 1..Len(fs)
        PROVE  fs[j].type \in Type /\ fs[j].name \in NameContent /\ fs[j].name_len \in Nat
    <3>1. fs[j] \in Feature
      OBVIOUS
    <3>2. NameLengths \subseteq Nat
      BY PacketAssumption
    <3> QED
      BY <3>1, <3>2 DEF Feature
  <2> QED
    BY <2>1, <2>2, FeatureListed
<1>4. list \in Seq(Piece) /\ Len(list) = n /\ n \in Nat
  <2>1. n \in Nat
    BY DEF FeatureLength
  <2> QED
    BY <1>3, <2>1 DEF Listed
<1>5. /\ c \in Nat /\ h \in Nat /\ h >= 2 /\ h = (1 + c) + 1 /\ h = IF ts THEN 3 ELSE 2
      /\ ts => c = 1
  OBVIOUS
<1> HIDE DEF stamp, c, h
<1>6. /\ before \in Seq(Piece) /\ Len(before) = 1 + c /\ before[1] = Headers
      /\ ts => before[2] = Stamp
  <2>1. /\ before \in Seq(Piece) /\ Len(before) = Len(<<Headers>>) + Len(stamp)
        /\ \A i \in 1..Len(<<Headers>>) : before[i] = <<Headers>>[i]
        /\ \A i \in 1..Len(stamp) : before[Len(<<Headers>>) + i] = stamp[i]
    BY <1>1, Concat
  <2>2. 1 \in 1..1 /\ 1 + 1 = 2
    OBVIOUS
  <2> QED
    BY <1>1, <1>5, <2>1, <2>2
<1> HIDE DEF before
<1>7. /\ prefix \in Seq(Piece) /\ Len(prefix) = h
      /\ \A i \in 1..(1 + c) : prefix[i] = before[i]
      /\ prefix[h] = Features
  <2>1. 1 \in 1..1
    OBVIOUS
  <2> QED
    BY <1>1, <1>5, <1>6, <2>1, Concat
<1>8. h \in Nat \ {0}
  BY <1>5
<1>9. prefix[1] = Headers /\ (ts => prefix[2] = Stamp) /\ prefix[h] = Features
  BY <1>5, <1>6, <1>7
<1> HIDE DEF prefix, list
<1>10. /\ open \in Seq(Piece) /\ Len(open) = h + n
       /\ \A i \in 1..h : open[i] = prefix[i]
       /\ \A i \in 1..n : open[h + i] = list[i]
  <2>1. \A s, t \in Seq(Piece) :
          /\ s \o t \in Seq(Piece) /\ Len(s \o t) = Len(s) + Len(t)
          /\ \A i \in 1..Len(s) : (s \o t)[i] = s[i]
          /\ \A i \in 1..Len(t) : (s \o t)[Len(s) + i] = t[i]
    BY Concat
  <2> HIDE DEF n
  <2> QED
    BY <1>4, <1>7, <2>1
<1> HIDE DEF open
<1>11. /\ d \in Seq(Piece) /\ Len(d) = h + n + 1
       /\ \A i \in 1..(h + n) : d[i] = open[i]
       /\ d[h + n + 1] = Close
  <2>1. 1 \in 1..1
    OBVIOUS
  <2> QED
    BY <1>1, <1>2, <1>10, <2>1, Concat
<1> HIDE DEF d, n
<1>12. d[1] = Headers /\ (ts => d[2] = Stamp) /\ d[h] = Features
  <2>1. 1 \in 1..h /\ 2 \in 1..h /\ h \in 1..h
    BY <1>5
  <2>2. \A i \in 1..h : d[i] = prefix[i]
    BY <1>4, <1>8, <1>10, <1>11
  <2> QED
    BY <1>9, <2>1, <2>2
<1>13. ASSUME NEW i \in 1..n PROVE d[h + i] = list[i]
  <2>1. h + i \in 1..(h + n)
    BY <1>4, <1>8
  <2> QED
    BY <1>10, <1>11, <2>1
<1>14. ASSUME NEW j \in 1..Len(fs)
       PROVE  /\ d[h + (4 * j - 3)] = Open
              /\ d[h + (4 * j - 2)] = Name(fs[j].name, fs[j].name_len)
              /\ d[h + (4 * j - 1)] = TypePiece(fs[j].type)
              /\ j > 1 => d[h + (4 * j - 4)] = Comma
  <2>1. ListedAt(list, fs, j)
    BY <1>3 DEF Listed
  <2>2. /\ 4 * j - 3 \in 1..n /\ 4 * j - 2 \in 1..n /\ 4 * j - 1 \in 1..n
        /\ j > 1 => 4 * j - 4 \in 1..n
    BY DEF n, FeatureLength
  <2> QED
    BY <1>13, <2>1, <2>2 DEF ListedAt
<1>15. Document(d, h, ts, fs)
  BY <1>5, <1>11, <1>12, <1>14 DEF Document, n
<1> QED
  BY <1>8, <1>15 DEF d

(* What is before the list. *)
LEMMA Prefix ==
  ASSUME NEW d, NEW h, NEW ts \in BOOLEAN, NEW fs, Document(d, h, ts, fs)
  PROVE  /\ h \in Nat \ {0}
         /\ \A i \in 1..h : d[i] \in {Headers, Stamp, Features}
<1>1. CASE ts
  BY <1>1 DEF Document
<1>2. CASE ~ts
  BY <1>2 DEF Document
<1> QED
  BY <1>1, <1>2

(* Every position is before, in or behind the list. *)
LEMMA Positions ==
  ASSUME NEW d, NEW h, NEW ts \in BOOLEAN, NEW fs \in Seq(Feature),
         Document(d, h, ts, fs),
         NEW i \in 1..Len(d)
  PROVE  \/ i \in 1..h
         \/ i = h + FeatureLength(Len(fs)) + 1
         \/ \E j \in 1..Len(fs) :
              i \in {h + (4 * j - 3), h + (4 * j - 2), h + (4 * j - 1)}
              \/ (j > 1 /\ i = h + (4 * j - 4))
<1> DEFINE n == FeatureLength(Len(fs))
           k == i - h
           j == (k + 4) \div 4
<1>1. Len(fs) \in Nat /\ n \in Nat /\ h \in Nat /\ Len(d) = h + n + 1
  <2>1. Len(fs) \in Nat
    OBVIOUS
  <2> QED
    BY <2>1, Prefix DEF Document, FeatureLength
<1>2. CASE k \in 1..n
  <2>1. Len(fs) > 0 /\ n = 4 * Len(fs) - 1
    BY <1>1, <1>2 DEF FeatureLength
  <2>2. k \in Nat /\ i = h + k /\ k + 4 <= 4 * Len(fs) + 3
    BY <1>1, <1>2, <2>1
  <2> HIDE DEF k, n
  <2>3. j \in 1..Len(fs)
    BY <1>1, <1>2, <2>1, <2>2
  <2>4. k \in {4 * j - 3, 4 * j - 2, 4 * j - 1, 4 * j - 4}
    BY <2>2
  <2>5. k = 4 * j - 4 => j > 1
    BY <1>2, <2>2, <2>3
  <2> HIDE DEF j
  <2> QED
    BY <1>1, <2>2, <2>3, <2>4, <2>5
<1>3. CASE ~(k \in 1..n)
  BY <1>1, <1>3
<1> QED
  BY <1>2, <1>3

(* A document is JSON exactly if no name wants escaping. *)
LEMMA DocumentIsJSON ==
  ASSUME NEW d, NEW h, NEW ts \in BOOLEAN, NEW fs \in Seq(Feature),
         Document(d, h, ts, fs)
  PROVE  IsJSON(d) <=> \A j \in 1..Len(fs) : fs[j].name = "plain"
<1> DEFINE n == FeatureLength(Len(fs))
           last == h + n + 1
<1>1. /\ Len(fs) \in Nat /\ n \in Nat /\ h \in Nat \ {0}
      /\ Len(d) = last /\ DOMAIN d = 1..last /\ d[last] = Close
      /\ Len(fs) > 0 => n = 4 * Len(fs) - 1
      /\ Len(fs) = 0 => n = 0
  <2>1. Len(fs) \in Nat
    OBVIOUS
  <2> QED
    BY <2>1, Prefix DEF Document, FeatureLength
<1>2. \A i \in 1..h : d[i] \in {Headers, Stamp, Features}
  BY Prefix
<1>3. ASSUME NEW j \in 1..Len(fs)
      PROVE  /\ fs[j].type \in Type /\ fs[j].name \in NameContent /\ fs[j].name_len \in Nat
             /\ d[h + (4 * j - 3)] = Open
             /\ d[h + (4 * j - 2)] = Name(fs[j].name, fs[j].name_len)
             /\ d[h + (4 * j - 1)] = TypePiece(fs[j].type)
             /\ j > 1 => d[h + (4 * j - 4)] = Comma
  <2>1. fs[j] \in Feature
    OBVIOUS
  <2>2. NameLengths \subseteq Nat
    BY PacketAssumption
  <2> QED
    BY <2>1, <2>2 DEF Document, Feature
<1>6. ASSUME NEW i \in 1..Len(d)
      PROVE  \/ i \in 1..h
             \/ i = last
             \/ \E j \in 1..Len(fs) :
                  i \in {h + (4 * j - 3), h + (4 * j - 2), h + (4 * j - 1)}
                  \/ (j > 1 /\ i = h + (4 * j - 4))
  BY Positions
<1> HIDE DEF n, last
<1>4. ASSUME NEW i \in DOMAIN d PROVE Whole(d[i])
  <2>1. CASE i \in 1..h
    BY <1>2, <2>1, PiecesWhole
  <2>2. CASE i = last
    BY <1>1, <2>2, PiecesWhole
  <2>3. CASE \E j \in 1..Len(fs) :
               i \in {h + (4 * j - 3), h + (4 * j - 2), h + (4 * j - 1)}
               \/ (j > 1 /\ i = h + (4 * j - 4))
    BY <1>3, <2>3, PiecesWhole
  <2> QED
    BY <1>1, <1>6, <2>1, <2>2, <2>3
<1>5. ASSUME NEW i \in 1..(Len(d) - 1)
      PROVE  d[i + 1].name = ", " <=> TypeNamed(d[i]) # {} /\ i + 1 < Len(d)
  <2>1. CASE i \in 1..h
    <3>1. TypeNamed(d[i]) = {}
      BY <1>2, <2>1, PiecesTyped
    <3>2. d[i + 1].name # ", "
      <4>1. CASE i < h
        <5>1. d[i + 1] \in {Headers, Stamp, Features}
          BY <1>1, <1>2, <4>1
        <5> QED
          BY <5>1, PiecesNoComma
      <4>2. CASE i = h /\ Len(fs) > 0
        <5>1. 1 \in 1..Len(fs) /\ h + (4 * 1 - 3) = i + 1
          BY <1>1, <4>2 DEF last
        <5>2. d[i + 1] = Open
          BY <1>3, <5>1
        <5> QED
          BY <5>2, PiecesNoComma
      <4>3. CASE i = h /\ Len(fs) = 0
        <5>1. i + 1 = last
          BY <1>1, <4>3 DEF last
        <5> QED
          BY <1>1, <5>1, PiecesNoComma
      <4>4. i < h \/ (i = h /\ (Len(fs) > 0 \/ Len(fs) = 0))
        BY <1>1, <2>1
      <4> QED
        BY <4>1, <4>2, <4>3, <4>4
    <3> QED
      BY <3>1, <3>2
  <2>2. ASSUME NEW j \in 1..Len(fs), i = h + (4 * j - 3)
        PROVE  d[i + 1].name # ", " /\ TypeNamed(d[i]) = {}
    <3>1. i + 1 = h + (4 * j - 2)
      BY <1>1, <2>2
    <3> QED
      BY <1>3, <2>2, <3>1, PiecesTyped, PiecesNoComma
  <2>3. ASSUME NEW j \in 1..Len(fs), i = h + (4 * j - 2)
        PROVE  d[i + 1].name # ", " /\ TypeNamed(d[i]) = {}
    <3>1. i + 1 = h + (4 * j - 1)
      BY <1>1, <2>3
    <3> QED
      BY <1>3, <2>3, <3>1, PiecesTyped, PiecesNoComma
  <2>4. ASSUME NEW j \in 1..Len(fs), i = h + (4 * j - 1)
        PROVE  d[i + 1].name = ", " <=> TypeNamed(d[i]) # {} /\ i + 1 < Len(d)
    <3>1. TypeNamed(d[i]) # {}
      BY <1>3, <2>4, PiecesTyped
    <3>2. CASE j < Len(fs)
      <4> DEFINE k == j + 1
      <4>1. k \in 1..Len(fs) /\ k > 1 /\ h + (4 * k - 4) = i + 1 /\ i + 1 < last
        BY <1>1, <2>4, <3>2 DEF last
      <4> HIDE DEF k
      <4>2. d[i + 1] = Comma
        BY <1>3, <4>1
      <4> QED
        BY <1>1, <3>1, <4>1, <4>2, PiecesNoComma
    <3>3. CASE j = Len(fs)
      <4>1. i + 1 = last
        BY <1>1, <2>4, <3>3 DEF last
      <4>2. d[i + 1].name # ", " /\ ~(i + 1 < Len(d))
        <5>1. d[i + 1] = Close
          BY <1>1, <4>1
        <5>2. ~(i + 1 < Len(d))
          BY <1>1, <4>1 DEF last
        <5> QED
          BY <5>1, <5>2, PiecesNoComma
      <4> QED
        BY <4>2
    <3>4. j < Len(fs) \/ j = Len(fs)
      BY <1>1
    <3> QED
      BY <3>2, <3>3, <3>4
  <2>5. ASSUME NEW j \in 1..Len(fs), j > 1, i = h + (4 * j - 4)
        PROVE  d[i + 1].name # ", " /\ TypeNamed(d[i]) = {}
    <3>1. i + 1 = h + (4 * j - 3)
      BY <1>1, <2>5
    <3> QED
      BY <1>3, <2>5, <3>1, PiecesTyped, PiecesNoComma
  <2>6. i # last /\ i \in 1..Len(d)
    BY <1>1
  <2> QED
    BY <1>6, <2>1, <2>2, <2>3, <2>4, <2>5, <2>6
<1>7. ASSUME NEW j \in 1..Len(fs), fs[j].name # "plain"
      PROVE  \E i \in DOMAIN d : d[i].name = "special"
  <2> DEFINE i == h + (4 * j - 2)
  <2>1. i \in DOMAIN d
    BY <1>1 DEF last
  <2>2. d[i].name = fs[j].name
    BY <1>3, PiecesPlain
  <2>3. fs[j].name = "special"
    BY <1>3, <1>7 DEF NameContent
  <2> QED
    BY <2>1, <2>2, <2>3
<1>8. ASSUME \A j \in 1..Len(fs) : fs[j].name = "plain", NEW i \in DOMAIN d
      PROVE  d[i].name # "special"
  <2>1. CASE i \in 1..h
    BY <1>2, <2>1, PiecesPlain
  <2>2. CASE i = last
    BY <1>1, <2>2, PiecesPlain
  <2>3. CASE \E j \in 1..Len(fs) :
               i \in {h + (4 * j - 3), h + (4 * j - 2), h + (4 * j - 1)}
               \/ (j > 1 /\ i = h + (4 * j - 4))
    <3>1. PICK j \in 1..Len(fs) :
            i \in {h + (4 * j - 3), h + (4 * j - 2), h + (4 * j - 1)}
            \/ (j > 1 /\ i = h + (4 * j - 4))
      BY <2>3
    <3>2. d[i] \in {Open, Name(fs[j].name, fs[j].name_len), TypePiece(fs[j].type), Comma}
      BY <1>3, <3>1
    <3>3. /\ Name(fs[j].name, fs[j].name_len).name = "plain"
          /\ TypePiece(fs[j].type).name # "special"
      BY <1>3, <1>8, PiecesPlain
    <3> QED
      BY <3>2, <3>3, PiecesPlain
  <2> QED
    BY <1>1, <1>6, <2>1, <2>2, <2>3
<1> QED
  BY <1>4, <1>5, <1>7, <1>8 DEF IsJSON

------------------------------------------------------------------------------
(* Naming(read, d, n): read is the function that Announcement means by its *)
(* recursion.                                                              *)
Naming(read, d, n) ==
  read = [i \in 0..n |-> IF i = 0 THEN <<>> ELSE read[i - 1] \o Announced(d[i])]

LEMMA NamingExists ==
  ASSUME NEW d
  PROVE  \A n \in Nat : \E read : Naming(read, d, n)
<1> DEFINE T == {n \in Nat : \E read : Naming(read, d, n)}
<1>1. 0 \in T
  <2> DEFINE none == [i \in 0..0 |-> <<>>]
  <2>1. Naming(none, d, 0)
    BY DEF Naming
  <2> QED
    BY <2>1
<1>2. ASSUME NEW n \in Nat, n \in T PROVE n + 1 \in T
  <2>1. PICK read : Naming(read, d, n)
    BY <1>2
  <2> DEFINE next == [i \in 0..(n + 1) |->
                        IF i = n + 1 THEN read[n] \o Announced(d[n + 1]) ELSE read[i]]
  <2>2. ASSUME NEW i \in 0..(n + 1)
        PROVE  next[i] = IF i = 0 THEN <<>> ELSE next[i - 1] \o Announced(d[i])
    <3>1. CASE i = n + 1
      <4>1. i - 1 = n /\ n \in 0..(n + 1) /\ n # n + 1 /\ i # 0
        BY <3>1
      <4>2. next[i] = read[n] \o Announced(d[i])
        BY <3>1
      <4>3. next[i - 1] = read[n]
        BY <4>1
      <4> QED
        BY <4>1, <4>2, <4>3
    <3>2. CASE i # n + 1
      <4>1. i \in 0..n /\ (i # 0 => i - 1 \in 0..(n + 1) /\ i - 1 # n + 1)
        BY <3>2
      <4>2. read[i] = IF i = 0 THEN <<>> ELSE read[i - 1] \o Announced(d[i])
        BY <2>1, <4>1 DEF Naming
      <4> QED
        BY <3>2, <4>1, <4>2
    <3> QED
      BY <3>1, <3>2
  <2>3. next = [i \in 0..(n + 1) |-> next[i]]
    OBVIOUS
  <2>4. Naming(next, d, n + 1)
    <3> HIDE DEF next
    <3> QED
      BY <2>2, <2>3 DEF Naming
  <2> QED
    BY <2>4
<1> HIDE DEF T
<1>3. \A n \in Nat : n \in T
  BY <1>1, <1>2, SetInduction
<1> QED
  BY <1>3 DEF T

LEMMA NamingStep ==
  ASSUME NEW d, NEW n \in Nat, NEW read, Naming(read, d, n), NEW i \in 1..n
  PROVE  read[i] = read[i - 1] \o Announced(d[i])
<1> DEFINE R(r, k) == IF k = 0 THEN <<>> ELSE r[k - 1] \o Announced(d[k])
<1>1. read = [k \in 0..n |-> R(read, k)]
  BY DEF Naming
<1>2. i \in 0..n /\ i # 0
  OBVIOUS
<1>3. R(read, i) = read[i - 1] \o Announced(d[i])
  BY <1>2
<1> HIDE DEF R
<1>4. read[i] = R(read, i)
  BY <1>1, <1>2
<1> QED
  BY <1>3, <1>4

LEMMA AnnouncementIsNaming ==
  ASSUME NEW d, Len(d) \in Nat
  PROVE  \E read : Naming(read, d, Len(d)) /\ Announcement(d) = read[Len(d)]
<1> DEFINE read[i \in 0..Len(d)] ==
             IF i = 0 THEN <<>> ELSE read[i - 1] \o Announced(d[i])
<1>1. \E r : Naming(r, d, Len(d))
  BY NamingExists
<1>2. Naming(read, d, Len(d))
  BY <1>1 DEF Naming
<1>3. Announcement(d) = read[Len(d)]
  BY DEF Announcement
<1> HIDE DEF read
<1> QED
  BY <1>2, <1>3

(* A document of the code announces the timestamp, if there is one, and    *)
(* the types of the features, in their order.                              *)
Item == Type \cup {"timestamp"}
Stamps(ts) == IF ts THEN <<"timestamp">> ELSE <<>>

LEMMA AnnouncedPieces ==
  /\ Announced(Headers) = <<>> /\ Announced(Features) = <<>>
  /\ Announced(Comma) = <<>> /\ Announced(Open) = <<>> /\ Announced(Close) = <<>>
  /\ Announced(Stamp) = <<"timestamp">>
  /\ \A content \in NameContent, n \in Nat : Announced(Name(content, n)) = <<>>
  /\ \A type \in Type : Announced(TypePiece(type)) = <<type>>
<1> DEFINE stamp == "\"timestamp\":true"
<1>1. /\ Headers.name # stamp /\ Features.name # stamp /\ Comma.name # stamp
      /\ Open.name # stamp /\ Close.name # stamp /\ Stamp.name = stamp
  BY DEF Headers, Stamp, Features, Comma, Open, Close, Field
<1>2. \A content \in NameContent, n \in Nat : Name(content, n).name # stamp
  BY DEF Name, Field, NameContent
<1>3. \A type \in Type : TypePiece(type).name # stamp
  BY DEF TypePiece, Type, Field
<1> QED
  BY <1>1, <1>2, <1>3, PiecesTyped DEF Announced

LEMMA StampsType == \A ts \in BOOLEAN : Stamps(ts) \in Seq(Item)
<1> SUFFICES ASSUME NEW ts \in BOOLEAN PROVE Stamps(ts) \in Seq(Item)
  OBVIOUS
<1>1. CASE ts
  BY <1>1 DEF Stamps, Item
<1>2. CASE ~ts
  BY <1>2, EmptySeq DEF Stamps
<1> QED
  BY <1>1, <1>2

LEMMA DocumentAnnounces ==
  ASSUME NEW d, NEW h, NEW ts \in BOOLEAN, NEW fs \in Seq(Feature),
         Document(d, h, ts, fs)
  PROVE  Announcement(d) = Stamps(ts) \o [i \in 1..Len(fs) |-> fs[i].type]
<1> DEFINE n == FeatureLength(Len(fs))
           at(j) == h + FeatureLength(j)
           types(j) == [i \in 1..j |-> fs[i].type]
           items(j) == Stamps(ts) \o types(j)
<1>1. /\ Len(fs) \in Nat /\ n \in Nat /\ h \in Nat \ {0}
      /\ Len(d) = h + n + 1 /\ d[h + n + 1] = Close
  <2>1. Len(fs) \in Nat
    OBVIOUS
  <2> QED
    BY <2>1, Prefix DEF Document, FeatureLength
<1>2. PICK read : Naming(read, d, Len(d)) /\ Announcement(d) = read[Len(d)]
  <2>1. Len(d) \in Nat
    BY <1>1
  <2> QED
    BY <2>1, AnnouncementIsNaming
<1>3. ASSUME NEW i \in 1..Len(d) PROVE read[i] = read[i - 1] \o Announced(d[i])
  <2> DEFINE e == Len(d)
  <2>1. e \in Nat /\ i \in 1..e /\ Naming(read, d, e)
    BY <1>1, <1>2
  <2> HIDE DEF e
  <2> QED
    BY <2>1, NamingStep
<1>4. /\ h = IF ts THEN 3 ELSE 2
      /\ d[1] = Headers /\ (ts => d[2] = Stamp) /\ d[h] = Features
  BY DEF Document
<1>5. ASSUME NEW j \in 1..Len(fs)
      PROVE  /\ fs[j].type \in Type /\ fs[j].name \in NameContent /\ fs[j].name_len \in Nat
             /\ d[h + (4 * j - 3)] = Open
             /\ d[h + (4 * j - 2)] = Name(fs[j].name, fs[j].name_len)
             /\ d[h + (4 * j - 1)] = TypePiece(fs[j].type)
             /\ j > 1 => d[h + (4 * j - 4)] = Comma
  <2>1. fs[j] \in Feature
    OBVIOUS
  <2>2. NameLengths \subseteq Nat
    BY PacketAssumption
  <2> QED
    BY <2>1, <2>2 DEF Document, Feature
<1> HIDE DEF n
<1>6. ASSUME NEW i \in 1..Len(d), NEW s \in Seq(Item), read[i - 1] = s,
             Announced(d[i]) = <<>>
      PROVE  read[i] = s
  <2>1. read[i] = s \o <<>>
    BY <1>3, <1>6
  <2> QED
    BY <2>1, ConcatEmptySeq
<1>7. read[0] = <<>> /\ <<>> \in Seq(Item)
  <2>1. 0 \in 0..Len(d)
    BY <1>1
  <2> QED
    BY <1>2, <2>1, EmptySeq DEF Naming
<1>8. read[h] = Stamps(ts)
  <2>1. 1 \in 1..Len(d) /\ 2 \in 1..Len(d) /\ h \in 1..Len(d)
        /\ 1 - 1 = 0 /\ 2 - 1 = 1 /\ 3 - 1 = 2
    BY <1>1, <1>4
  <2>2. read[1] = <<>>
    BY <1>4, <1>6, <1>7, <2>1, AnnouncedPieces
  <2>3. CASE ts
    <3>1. read[2] = <<>> \o <<"timestamp">>
      BY <1>3, <1>4, <2>1, <2>2, <2>3, AnnouncedPieces
    <3>2. read[2] = Stamps(ts)
      BY <2>3, <3>1 DEF Stamps
    <3> QED
      BY <1>4, <1>6, <2>1, <2>3, <3>2, AnnouncedPieces, StampsType
  <2>4. CASE ~ts
    BY <1>4, <1>6, <1>7, <2>1, <2>2, <2>4, AnnouncedPieces DEF Stamps
  <2> QED
    BY <2>3, <2>4
<1>9. ASSUME NEW j \in Nat, j <= Len(fs)
      PROVE  types(j) \in Seq(Item) /\ items(j) \in Seq(Item)
  <2>1. types(j) \in Seq(Item)
    BY <1>1, <1>5, <1>9 DEF Item
  <2> HIDE DEF types
  <2> QED
    BY <2>1, StampsType, ConcatProperties
<1>10. \A j \in Nat : j <= Len(fs) => read[at(j)] = items(j)
  <2> DEFINE Read(j) == read[at(j)] = items(j)
             T == {j \in Nat : j <= Len(fs) => Read(j)}
  <2>1. 0 \in T
    <3>1. at(0) = h
      BY <1>1 DEF FeatureLength
    <3>2. types(0) = <<>>
      OBVIOUS
    <3>3. items(0) = Stamps(ts)
      BY <3>2, StampsType, ConcatEmptySeq
    <3> QED
      BY <1>1, <1>8, <3>1, <3>3
  <2>2. ASSUME NEW k \in Nat, k \in T PROVE k + 1 \in T
    <3> HIDE DEF Read
    <3> SUFFICES ASSUME k + 1 <= Len(fs) PROVE Read(k + 1)
      OBVIOUS
    <3> USE DEF Read
    <3> DEFINE j == k + 1
               o == h + (4 * j - 3)
               m == h + (4 * j - 2)
               t == h + (4 * j - 1)
               c == h + (4 * j - 4)
               s == items(k)
    <3>1. j \in 1..Len(fs) /\ k <= Len(fs)
      BY <1>1
    <3>2. n = 4 * Len(fs) - 1
      BY <1>1, <3>1 DEF FeatureLength, n
    <3>3. /\ o \in 1..Len(d) /\ m \in 1..Len(d) /\ t \in 1..Len(d)
          /\ m - 1 = o /\ t - 1 = m /\ o - 1 = c
          /\ k > 0 => c \in 1..Len(d) /\ c - 1 = at(k) /\ j > 1
          /\ k = 0 => c = at(k)
          /\ t = at(j)
      BY <1>1, <3>1, <3>2 DEF FeatureLength
    <3>4. s \in Seq(Item) /\ read[at(k)] = s
      BY <1>9, <2>2, <3>1
    <3>5. /\ Announced(d[o]) = <<>> /\ Announced(d[m]) = <<>>
          /\ Announced(d[t]) = <<fs[j].type>>
          /\ j > 1 => Announced(d[c]) = <<>>
      BY <1>5, <3>1, AnnouncedPieces
    <3>6. items(j) = s \o <<fs[j].type>>
      <4>1. fs[j].type \in Item /\ <<fs[j].type>> \in Seq(Item)
        BY <1>5, <3>1 DEF Item
      <4>2. types(k) \in Seq(Item) /\ types(j) \in Seq(Item)
        BY <1>9, <3>1
      <4>3. types(k) \o <<fs[j].type>> = Append(types(k), fs[j].type)
        BY <4>1, <4>2
      <4>4. Append(types(k), fs[j].type) = types(j)
        BY <3>1, <4>1, <4>2
      <4> HIDE DEF types
      <4>5. Stamps(ts) \o (types(k) \o <<fs[j].type>>)
              = (Stamps(ts) \o types(k)) \o <<fs[j].type>>
        BY <4>1, <4>2, StampsType, ConcatAssociative
      <4> QED
        BY <4>3, <4>4, <4>5
    <3> HIDE DEF o, m, t, c, s, j, at, types, items
    <3>7. read[c] = s
      <4>1. CASE k = 0
        BY <3>3, <3>4, <4>1
      <4>2. CASE k > 0
        BY <1>6, <3>3, <3>4, <3>5, <4>2
      <4> QED
        BY <4>1, <4>2
    <3>8. read[o] = s
      BY <1>6, <3>3, <3>4, <3>5, <3>7
    <3>9. read[m] = s
      BY <1>6, <3>3, <3>4, <3>5, <3>8
    <3>10. read[t] = s \o <<fs[j].type>>
      BY <1>3, <3>3, <3>5, <3>9
    <3> QED
      BY <3>3, <3>6, <3>10 DEF j
  <2> HIDE DEF T
  <2>3. \A j \in Nat : j \in T
    BY <2>1, <2>2, SetInduction
  <2> QED
    BY <2>3 DEF T
<1>11. read[h + n] = items(Len(fs))
  BY <1>1, <1>10 DEF n
<1>12. read[h + n + 1] = items(Len(fs))
  <2> DEFINE i == h + n + 1
             s == items(Len(fs))
  <2>1. i \in 1..Len(d) /\ i - 1 = h + n /\ d[i] = Close
    BY <1>1
  <2>2. s \in Seq(Item)
    BY <1>1, <1>9
  <2> HIDE DEF i, s
  <2>3. Announced(d[i]) = <<>>
    BY <2>1, AnnouncedPieces
  <2>4. read[i - 1] = s
    BY <1>11, <2>1 DEF s
  <2>5. read[i] = s
    BY <1>6, <2>1, <2>2, <2>3, <2>4
  <2> QED
    BY <2>5 DEF i, s
<1> QED
  BY <1>1, <1>2, <1>12

LEMMA DocumentLength ==
  ASSUME NEW d \in Seq(Piece)
  PROVE  FrameLength(d) \in Nat
<1>1. \A i \in 1..Len(d) : d[i] \in Piece
  BY ElementOfSeq
<1>2. Len(d) \in Nat /\ Fields(d, Len(d))
  BY <1>1, PieceLengths DEF Fields
<1> QED
  BY <1>2, OffsetSame DEF FrameLength

------------------------------------------------------------------------------
(***************************************************************************)
(* The reading in the structure: a value for each feature, of its type,    *)
(* and no more bytes than the share of so many values.                     *)
(***************************************************************************)
Reading ==
  /\ timestamp \in BOOLEAN
  /\ sensor_id_length \in IdLengths
  /\ features \in Seq(Feature) /\ Len(features) <= MaxFeatures
  /\ buffer \in Seq(Value) /\ Len(buffer) = Len(features)
  /\ \A i \in 1..Len(features) : buffer[i].type = features[i].type
  /\ FrameLength(buffer) \in Nat
  /\ MaxFeatures * FrameLength(buffer) <= Len(features) * MaxBuffer

(* The frames, as a sequence of whatever they are. *)
Frames == frames \in Seq(ToSet(frames))

IInv == Reading /\ Frames

LEMMA ToSetAppend ==
  ASSUME NEW s, s \in Seq(ToSet(s)), NEW x
  PROVE  /\ ToSet(Append(s, x)) = ToSet(s) \cup {x}
         /\ Append(s, x) \in Seq(ToSet(Append(s, x)))
<1>1. /\ Len(s) \in Nat /\ DOMAIN s = 1..Len(s)
      /\ DOMAIN Append(s, x) = 1..(Len(s) + 1)
      /\ \A i \in 1..(Len(s) + 1) :
           Append(s, x)[i] = IF i = Len(s) + 1 THEN x ELSE s[i]
  OBVIOUS
<1>2. ToSet(Append(s, x)) = ToSet(s) \cup {x}
  <2>1. \A e \in ToSet(Append(s, x)) : e \in ToSet(s) \cup {x}
    BY <1>1 DEF ToSet
  <2>2. \A e \in ToSet(s) : e \in ToSet(Append(s, x))
    <3> SUFFICES ASSUME NEW i \in 1..Len(s) PROVE s[i] \in ToSet(Append(s, x))
      BY <1>1 DEF ToSet
    <3>1. i \in 1..(Len(s) + 1) /\ Append(s, x)[i] = s[i]
      BY <1>1
    <3> QED
      BY <1>1, <3>1 DEF ToSet
  <2>3. x \in ToSet(Append(s, x))
    <3>1. Len(s) + 1 \in 1..(Len(s) + 1)
      BY <1>1
    <3> QED
      BY <1>1, <3>1 DEF ToSet
  <2> QED
    BY <2>1, <2>2, <2>3
<1>3. Append(s, x) \in Seq(ToSet(s) \cup {x})
  <2>1. s \in Seq(ToSet(s) \cup {x})
    BY SeqMonotonic
  <2> QED
    BY <2>1
<1> QED
  BY <1>2, <1>3

(* Values that take their share keep within the array. *)
LEMMA Share ==
  ASSUME NEW F \in Nat, NEW B \in Nat, NEW L \in Nat, NEW x \in Nat,
         F * x <= L * B, L <= F, F > 0
  PROVE  x <= B
<1>1. L * B <= F * B
  OBVIOUS
<1>2. F * x <= F * B
  BY <1>1
<1> QED
  BY <1>2

LEMMA ReadingFits == Reading => FrameLength(buffer) <= MaxBuffer
<1> SUFFICES ASSUME Reading PROVE FrameLength(buffer) <= MaxBuffer
  OBVIOUS
<1>1. MaxFeatures \in Nat /\ MaxBuffer \in Nat /\ Len(features) \in Nat
  BY PacketAssumption DEF Reading
<1>2. CASE MaxFeatures = 0
  <2>1. buffer = <<>>
    BY <1>1, <1>2 DEF Reading
  <2> QED
    BY <1>1, <2>1, FrameLengthEmpty
<1>3. CASE MaxFeatures > 0
  BY <1>1, <1>3, Share DEF Reading
<1> QED
  BY <1>1, <1>2, <1>3

LEMMA IInvImpliesTypeOK == IInv => TypeOK
BY ReadingFits DEF IInv, Reading, TypeOK, feature_count, buffer_offset

LEMMA InitInv == Init => IInv
<1> SUFFICES ASSUME Init PROVE IInv
  OBVIOUS
<1>1. features \in Seq(Feature) /\ buffer \in Seq(Value) /\ Len(features) = 0
      /\ Len(buffer) = 0 /\ FrameLength(buffer) = 0
  BY FrameLengthEmpty DEF Init
<1>2. frames \in Seq(ToSet(frames))
  BY DEF Init
<1>3. MaxFeatures * 0 = 0 /\ 0 * MaxBuffer = 0 /\ 0 <= MaxFeatures
  BY PacketAssumption
<1>4. MaxFeatures * FrameLength(buffer) <= Len(features) * MaxBuffer
  BY <1>1, <1>3, PacketAssumption
<1>5. Reading
  <2>1. timestamp \in BOOLEAN
    BY Zenon DEF Init
  <2>2. \A i \in 1..Len(features) : buffer[i].type = features[i].type
    BY <1>1
  <2> QED
    BY <1>1, <1>3, <1>4, <2>1, <2>2 DEF Init, Reading
<1> QED
  BY <1>2, <1>5 DEF IInv, Frames

(* Adding a value that takes its share. *)
LEMMA AddValueInv ==
  ASSUME IInv, NEW type \in Type, NEW length \in Nat,
         MaxFeatures * length <= MaxBuffer, AddValue(type, length)
  PROVE  IInv'
<1> DEFINE value == [type |-> type, length |-> length]
<1>1. PICK name \in NameContent, n \in NameLengths :
        features' = Append(features, [type |-> type, name |-> name, name_len |-> n])
  BY DEF AddValue
<1>2. value \in Value /\ buffer' = Append(buffer, value) /\ value.length = length
      /\ value.type = type
  BY DEF AddValue, Value
<1> HIDE DEF value
<1>3. /\ features' \in Seq(Feature) /\ Len(features') = Len(features) + 1
      /\ Len(features') <= MaxFeatures
      /\ buffer' \in Seq(Value) /\ Len(buffer') = Len(features')
  BY <1>1, <1>2, PacketAssumption
     DEF IInv, Reading, AddValue, Feature, feature_count
<1>4. \A i \in 1..Len(features') : buffer'[i].type = features'[i].type
  <2> SUFFICES ASSUME NEW i \in 1..(Len(features) + 1)
               PROVE  buffer'[i].type = features'[i].type
    BY <1>3
  <2>1. CASE i = Len(features) + 1
    BY <1>1, <1>2, <2>1 DEF IInv, Reading
  <2>2. CASE i # Len(features) + 1
    BY <1>1, <1>2, <2>2 DEF IInv, Reading
  <2> QED
    BY <2>1, <2>2
<1>5. FrameLength(buffer') = FrameLength(buffer) + length
  <2>1. buffer \in Seq(Value)
    BY DEF IInv, Reading
  <2>2. \A i \in 1..Len(buffer) : buffer[i].length \in Nat
    <3>1. \A i \in 1..Len(buffer) : buffer[i] \in Value
      BY <2>1, ElementOfSeq
    <3> QED
      BY <3>1 DEF Value
  <2> QED
    BY <1>2, <2>1, <2>2, FrameLengthAppend
<1>6. /\ FrameLength(buffer') \in Nat
      /\ MaxFeatures * FrameLength(buffer') <= Len(features') * MaxBuffer
  <2>1. MaxFeatures * (FrameLength(buffer) + length)
          = MaxFeatures * FrameLength(buffer) + MaxFeatures * length
    BY PacketAssumption DEF IInv, Reading
  <2>2. (Len(features) + 1) * MaxBuffer = Len(features) * MaxBuffer + MaxBuffer
    BY PacketAssumption DEF IInv, Reading
  <2> QED
    BY <1>3, <1>5, <2>1, <2>2, PacketAssumption DEF IInv, Reading
<1>7. UNCHANGED <<timestamp, sensor_id_length, frames>>
  BY DEF AddValue
<1> QED
  BY <1>3, <1>4, <1>6, <1>7 DEF IInv, Reading, Frames

LEMMA GenerateInv ==
  ASSUME IInv, NEW frame, Generate(frame)
  PROVE  IInv' /\ ToSet(frames') = ToSet(frames) \cup {frame}
<1>1. /\ ToSet(frames') = ToSet(frames) \cup {frame}
      /\ frames' \in Seq(ToSet(frames'))
  BY ToSetAppend DEF Generate, IInv, Frames
<1> QED
  BY <1>1 DEF Generate, IInv, Reading, Frames, packet

LEMMA NextInv == IInv /\ [Next]_vars => IInv'
<1> SUFFICES ASSUME IInv, [Next]_vars PROVE IInv'
  OBVIOUS
<1>1. CASE PacketInit
  <2>1. /\ features' \in Seq(Feature) /\ buffer' \in Seq(Value)
        /\ Len(features') = 0 /\ Len(buffer') = 0 /\ FrameLength(buffer') = 0
    BY <1>1, FrameLengthEmpty DEF PacketInit
  <2>2. MaxFeatures * 0 = 0 /\ 0 * MaxBuffer = 0 /\ 0 <= MaxFeatures
    BY PacketAssumption
  <2>3. MaxFeatures * FrameLength(buffer') <= Len(features') * MaxBuffer
    BY <2>1, <2>2, PacketAssumption
  <2>4. Reading'
    <3>1. timestamp' \in BOOLEAN
      BY <1>1, Zenon DEF PacketInit
    <3>2. \A i \in 1..Len(features') : buffer'[i].type = features'[i].type
      BY <2>1
    <3> QED
      BY <1>1, <2>1, <2>2, <2>3, <3>1, <3>2 DEF PacketInit, Reading
  <2> QED
    BY <1>1, <2>4 DEF PacketInit, IInv, Frames
<1>2. CASE SetTimestamp
  BY <1>2 DEF SetTimestamp, IInv, Reading, Frames
<1>3. CASE AddInt
  <2>1. PICK n \in IntLengths : AddValue("int", n)
    BY <1>3 DEF AddInt
  <2>2. n \in Nat /\ MaxFeatures * n <= MaxBuffer
    BY PacketAssumption
  <2> QED
    BY <2>1, <2>2, AddValueInv DEF Type
<1>4. CASE AddFloat
  <2>1. MaxFeatures * 4 <= MaxBuffer
    <3>1. MaxFeatures * 8 <= MaxBuffer
      BY PacketAssumption
    <3> QED
      BY <3>1, PacketAssumption
  <2> QED
    BY <1>4, <2>1, AddValueInv DEF AddFloat, Type
<1>5. CASE AddDouble
  <2>1. MaxFeatures * 8 <= MaxBuffer
    BY PacketAssumption
  <2> QED
    BY <1>5, <2>1, AddValueInv DEF AddDouble, Type
<1>6. ASSUME NEW n \in ValueLengths
      PROVE  BytesSize(n) \in Nat /\ MaxFeatures * BytesSize(n) <= MaxBuffer
  BY PacketAssumption, BytesSizeType
<1>7. CASE AddString
  <2>1. PICK n \in ValueLengths : AddValue("string", BytesSize(n))
    BY <1>7 DEF AddString
  <2> QED
    BY <1>6, <2>1, AddValueInv DEF Type
<1>8. CASE AddBytes
  <2>1. PICK n \in ValueLengths : AddValue("bytes", BytesSize(n))
    BY <1>8 DEF AddBytes
  <2> QED
    BY <1>6, <2>1, AddValueInv DEF Type
<1>9. CASE GeneratePost
  BY <1>9, GenerateInv DEF GeneratePost
<1>10. CASE GenerateAes128
  BY <1>10, GenerateInv DEF GenerateAes128
<1>11. CASE GenerateSchema
  BY <1>11, GenerateInv DEF GenerateSchema
<1>12. CASE UNCHANGED vars
  BY <1>12 DEF vars, packet, IInv, Reading, Frames
<1> QED
  BY <1>1, <1>2, <1>3, <1>4, <1>5, <1>7, <1>8, <1>9, <1>10, <1>11, <1>12 DEF Next

(* What every action of the packet keeps, for every number of readings.    *)
THEOREM Invariance == Spec => []IInv
BY InitInv, NextInv, PTL DEF Spec

(* However many readings the structure has held, the one in it keeps within*)
(* its arrays: packet_init leaves nothing of the last one (sensocol.c:29). *)
THEOREM TypeCorrectness == Spec => []TypeOK
BY Invariance, IInvImpliesTypeOK, PTL

------------------------------------------------------------------------------
(***************************************************************************)
(* The frames.                                                             *)
(***************************************************************************)
LEMMA FramesGrow ==
  ASSUME IInv, [Next]_vars
  PROVE  \/ frames' = frames
         \/ \E frame \in {PostFrame, Aes128Frame, SchemaFrame} :
              ToSet(frames') = ToSet(frames) \cup {frame}
<1>1. CASE GeneratePost
  BY <1>1, GenerateInv DEF GeneratePost
<1>2. CASE GenerateAes128
  BY <1>2, GenerateInv DEF GenerateAes128
<1>3. CASE GenerateSchema
  BY <1>3, GenerateInv DEF GenerateSchema
<1>4. CASE ~(GeneratePost \/ GenerateAes128 \/ GenerateSchema)
  BY <1>4 DEF Next, vars, packet, PacketInit, SetTimestamp, AddInt, AddFloat,
       AddDouble, AddString, AddBytes, AddValue
<1> QED
  BY <1>1, <1>2, <1>3, <1>4

LEMMA Kinds ==
  /\ PostFrame.kind = "post" /\ Aes128Frame.kind = "aes"
  /\ SchemaFrame.kind = "schema"
BY DEF PostFrame, Aes128Frame, SchemaFrame

LEMMA ReadingLengths ==
  IInv => sensor_id_length \in Nat /\ buffer_offset \in Nat
BY PacketAssumption DEF IInv, Reading, buffer_offset

LEMMA AesSizes ==
  ASSUME IInv
  PROVE  LET f == Aes128Frame
         IN  /\ f.size = FrameLength(f.fields)
             /\ f.header = Begin(f.fields, "access_token")
             /\ f.header + f.encrypted = FrameLength(f.fields)
             /\ f.encrypted % 16 = 0
             /\ EncryptedSize(FrameLength(f.values)) - 20 <= BufferSize
             /\ Begin(f.fields, "data") + FrameLength(f.values) <= FrameLength(f.fields)
<1> DEFINE sid == sensor_id_length
           data == buffer_offset
           f == Aes128Frame
<1>1. sid \in Nat /\ data \in Nat /\ data <= MaxBuffer
  BY ReadingLengths, ReadingFits DEF IInv, buffer_offset
<1>2. /\ f.size = AesSize(sid, data) /\ f.fields = AesFields(sid, data)
      /\ f.header = AesHeader(sid) /\ f.encrypted = EncryptedSize(data)
      /\ FrameLength(f.values) = data
  BY DEF Aes128Frame, buffer_offset
<1> HIDE DEF f, sid, data
<1>3. /\ Begin(f.fields, "access_token") = AesHeader(sid)
      /\ Begin(f.fields, "data") = AesHeader(sid) + 20
      /\ FrameLength(f.fields) = AesHeader(sid) + EncryptedSize(data)
  BY <1>1, <1>2, AesLayout
<1>4. AesHeader(sid) \in Nat
  BY <1>1, SizeEncodedType DEF AesHeader
<1>5. /\ EncryptedSize(data) \in Nat /\ EncryptedSize(data) % 16 = 0
      /\ data + 20 <= EncryptedSize(data) /\ EncryptedSize(data) <= data + 35
  BY <1>1, AlignedIsBlocks DEF EncryptedSize
<1>6. MaxBuffer + 15 <= BufferSize
  <2>1. PointerSize \in Nat /\ PointerSize >= 2 /\ MaxBuffer \in Nat /\ MaxBuffer >= 16
    BY PacketAssumption, FillingAssumption
  <2>2. 2 * MaxBuffer <= PointerSize * MaxBuffer
    BY <2>1
  <2> QED
    BY <2>1, <2>2 DEF BufferSize
<1>7. EncryptedSize(data) - 20 <= BufferSize
  BY <1>1, <1>5, <1>6, PacketAssumption DEF BufferSize
<1> QED
  BY <1>1, <1>2, <1>3, <1>4, <1>5, <1>7 DEF AesSize, f

LEMMA SchemaSizes ==
  IInv => SchemaFrame.size = FrameLength(SchemaFrame.fields)
<1> SUFFICES ASSUME IInv PROVE SchemaFrame.size = FrameLength(SchemaFrame.fields)
  OBVIOUS
<1>1. FrameLength(SchemaFromPacket) \in Nat
  <2>1. timestamp \in BOOLEAN /\ features \in Seq(Feature)
    BY DEF IInv, Reading
  <2>2. SchemaFromPacket \in Seq(Piece)
    BY <2>1, DocumentWritten DEF SchemaFromPacket, Document
  <2> QED
    BY <2>2, DocumentLength
<1> QED
  BY <1>1, SchemaLayout DEF SchemaFrame

LEMMA PostSizes ==
  ASSUME IInv
  PROVE  Begin(PostFrame.fields, "data") + FrameLength(PostFrame.values)
           = FrameLength(PostFrame.fields)
<1>1. sensor_id_length \in Nat /\ buffer_offset \in Nat
  BY ReadingLengths
<1> QED
  BY <1>1, PostLayout, BytesSizeType DEF PostFrame, buffer_offset

(* What a decoder reads in the document of the structure. *)
LEMMA Description ==
  ASSUME IInv
  PROVE  /\ IsJSON(SchemaFromPacket)
              <=> \A i \in DOMAIN features : features[i].name = "plain"
         /\ Announcement(SchemaFromPacket)
              = Stamps(timestamp) \o [i \in DOMAIN buffer |-> buffer[i].type]
         /\ Announcement(SchemaFromPacket) = [i \in DOMAIN buffer |-> buffer[i].type]
              <=> ~timestamp
<1> DEFINE types == [i \in DOMAIN buffer |-> buffer[i].type]
<1>1. timestamp \in BOOLEAN /\ features \in Seq(Feature)
  BY DEF IInv, Reading
<1>2. PICK h : Document(SchemaFromPacket, h, timestamp, features)
  BY <1>1, DocumentWritten DEF SchemaFromPacket
<1>3. IsJSON(SchemaFromPacket)
        <=> \A i \in DOMAIN features : features[i].name = "plain"
  BY <1>1, <1>2, DocumentIsJSON
<1>4. Announcement(SchemaFromPacket)
        = Stamps(timestamp) \o [i \in 1..Len(features) |-> features[i].type]
  BY <1>1, <1>2, DocumentAnnounces
<1>5. /\ DOMAIN buffer = 1..Len(features)
      /\ \A i \in 1..Len(features) : buffer[i].type = features[i].type
  BY DEF IInv, Reading
<1>6. types = [i \in 1..Len(features) |-> features[i].type]
  BY <1>5
<1>7. types \in Seq(Item)
  <2>1. ASSUME NEW i \in 1..Len(features) PROVE features[i].type \in Item
    <3>1. features[i] \in Feature
      BY <1>1
    <3> QED
      BY <3>1 DEF Feature, Item
  <2> QED
    BY <1>1, <1>6, <2>1
<1> HIDE DEF types
<1>8. Stamps(timestamp) \o types = types <=> ~timestamp
  <2>1. Stamps(timestamp) \o types = types <=> Stamps(timestamp) = <<>>
    BY <1>1, <1>7, StampsType, ConcatEqualIffEmpty
  <2>2. CASE timestamp
    BY <2>1, <2>2 DEF Stamps
  <2>3. CASE ~timestamp
    BY <2>1, <2>3 DEF Stamps
  <2> QED
    BY <1>1, <2>2, <2>3
<1> QED
  BY <1>3, <1>4, <1>6, <1>8 DEF types

------------------------------------------------------------------------------
(* The properties of the frames are inductive, given the reading.          *)
LEMMA SizeStep == IInv /\ SizeIsLength /\ [Next]_vars => SizeIsLength'
BY FramesGrow, AesSizes, SchemaSizes, Kinds DEF SizeIsLength, Generated

LEMMA EncryptsStep == IInv /\ EncryptsTheRest /\ [Next]_vars => EncryptsTheRest'
BY FramesGrow, AesSizes, Kinds DEF EncryptsTheRest, Generated

LEMMA FillingStep == IInv /\ FillingIsInBuffer /\ [Next]_vars => FillingIsInBuffer'
BY FramesGrow, AesSizes, Kinds DEF FillingIsInBuffer, Generated, BufferSize

LEMMA DescribesStep ==
  IInv /\ SchemaDescribesValues /\ [Next]_vars => SchemaDescribesValues'
<1> SUFFICES ASSUME IInv, SchemaDescribesValues, [Next]_vars
             PROVE  SchemaDescribesValues'
  OBVIOUS
<1> DEFINE Described(f) ==
      /\ IsJSON(f.schema)
           <=> \A i \in DOMAIN f.features : f.features[i].name = "plain"
      /\ Announcement(f.schema) = Stamped(f) \o TypesWritten(f)
      /\ Announcement(f.schema) = TypesWritten(f) <=> ~f.timestamp
      /\ f.kind = "aes" =>
           Begin(f.fields, "data") + FrameLength(f.values) <= FrameLength(f.fields)
      /\ f.kind = "post" =>
           Begin(f.fields, "data") + FrameLength(f.values) = FrameLength(f.fields)
<1>1. \A frame \in {PostFrame, Aes128Frame, SchemaFrame} :
        /\ frame.schema = SchemaFromPacket /\ frame.timestamp = timestamp
        /\ frame.features = features /\ frame.values = buffer
  BY DEF PostFrame, Aes128Frame, SchemaFrame
<1>2. \A frame \in {PostFrame, Aes128Frame, SchemaFrame} : Described(frame)
  <2>1. ASSUME NEW frame \in {PostFrame, Aes128Frame, SchemaFrame}
        PROVE  /\ Stamped(frame) = Stamps(timestamp)
               /\ TypesWritten(frame) = [i \in DOMAIN buffer |-> buffer[i].type]
    BY <1>1 DEF Stamped, Stamps, TypesWritten
  <2> QED
    BY <1>1, <2>1, Description, AesSizes, PostSizes, Kinds
<1>3. \A f \in ToSet(frames) : Described(f)
  BY DEF SchemaDescribesValues
<1> HIDE DEF Described
<1>4. \A f \in ToSet(frames') : Described(f)
  BY <1>2, <1>3, FramesGrow
<1> QED
  BY <1>4 DEF Described, SchemaDescribesValues

LEMMA NoFrames ==
  Init => SizeIsLength /\ EncryptsTheRest /\ FillingIsInBuffer /\ SchemaDescribesValues
<1> SUFFICES ASSUME Init
             PROVE  SizeIsLength /\ EncryptsTheRest /\ FillingIsInBuffer
                    /\ SchemaDescribesValues
  OBVIOUS
<1>1. ToSet(frames) = {}
  BY DEF Init, ToSet
<1> QED
  BY <1>1 DEF SizeIsLength, EncryptsTheRest, FillingIsInBuffer,
       SchemaDescribesValues, Generated

(* The sums the code adds up by hand for an encrypted frame and for a      *)
(* schema (sensocol.c:145-158, sensocol_schema.c:68-69) are the bytes it   *)
(* then writes, for ids, values and schemas of every length.               *)
THEOREM Sizes == Spec => []SizeIsLength
BY Invariance, NoFrames, SizeStep, PTL DEF Spec

(* The encrypted part is whole blocks, and exactly what follows the sensor *)
(* id (sensocol.c:190): a nonce, an id of any length and values of any     *)
(* length do not shift it.                                                 *)
THEOREM Encryption == Spec => []EncryptsTheRest
BY Invariance, NoFrames, EncryptsStep, PTL DEF Spec

(* Filling up to a block reads no further than the array of the values     *)
(* (sensocol.c:174), because it is declared as one of pointers.            *)
THEOREM Filling == Spec => []FillingIsInBuffer
BY Invariance, NoFrames, FillingStep, PTL DEF Spec

(* What the schema of a frame says of it, for readings of any features     *)
(* (sensocol_schema.c:22-63): it is JSON exactly if no name wants escaping,*)
(* and it announces the values the frame carries, in order, behind a       *)
(* timestamp that, where it is announced, no frame carries.                *)
THEOREM SchemaDescribes == Spec => []SchemaDescribesValues
BY Invariance, NoFrames, DescribesStep, PTL DEF Spec
===============================================================================
