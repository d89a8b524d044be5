# A TLA+ verification of the Sensocol clients

Sensocol sends sensor readings in a compact binary form. A reading is encoded
without its schema; at its head stands the hash of the schema (four bytes of an
MD5), and the server asks the client for the schema when it does not know the
hash ("schema-on-write"). The repository holds two clients: a C library with a
TCP client for embedded devices, and a Ruby client over WebSockets. This project
models both, checks the models with TLC and proves the main results with TLAPS.

## 1. Inventory

| Component | State | Operations | Interacts with |
|---|---|---|---|
| `SensocolCodec` (`ruby/.../sensocol_codec.rb`) | `@data`, `@feature_schema`, `@timestamp` | `features=`, `add`, `timestamp=`, `schema`, `packet` | inherited by `SensocolWebSocket`; its arrays are shared with the listener thread |
| `SensocolWebSocket` (`sensocol_web_socket.rb`) | `@schema_list`, `@mutex`, a listener thread | `send`, `close`, `setup_listen` | calls `WebSocket`; main thread and listener share `@schema_list` and the socket |
| `WebSocket` (`web_socket.rb`) | socket, `@header`, `@closing_started`, `@handshaked` | `initialize`, `read_header`, `encode`, `send_binary`, `send`, `receive`, `close` | TCP stream, used by two threads and by the signal trap |
| `basic_test.rb` | `@continue_loop` | INT trap, loop | drives the client; the trap runs inside any operation of the main thread |
| Integer encoding (`c/sensocol_encoding.c`, `create_long`) | none | zig-zag, varint, its size | used by all encoders |
| Packet builder (`c/sensocol.c`, `sensocol.h`) | `sensocol_packet_t`: features, buffer, offsets | init, add, generate post, generate AES post | `sensocol_schema.c`, `aes.c` |
| Schema (`c/sensocol_schema.c`) | none | schema from packet, schema response | packet builder, `main.c` |
| Binary-request client (`c/main.c`) | socket, send and receive buffers | connect, post, receive, answer a schema request, die | server over TCP |
| MD5 (`c/md5.c`) | chaining state | init, block, finish | `main.c` |
| AES (`c/aes.c`, vendored) | tables, key schedule, iv | table generation, key setup, a block, CBC | AES post generator |
| `sensocol_dump.c` | none | prints | debugging only |
| `WebSocketServer` (in `web_socket.rb`) | server socket | accept | nothing in the repository |

What is hard here: the listener thread, the main thread and the trap share a
codec, a table and a socket with next to no locking; a schema is serialised long
after the packet it belongs to; either end may close, or the connection break,
at any step; streams are cut anywhere; sizes and ranges are computed apart from
the bytes they announce; arithmetic depends on the width of a `long`.
`PROJECT.json` lists each of these hazards at its line with the properties for it.

What makes each component correct:

* client and server together: a packet is decoded by the schema it was encoded
  by, or not at all; what is asked for can be answered; what is posted is decoded;
* WebSocket: a connection is opened for the answers that make one by the
  standards; what is received is what was sent, whole and in order; a close ends;
* encoding: decoding is the inverse, values delimit themselves, sizes agree;
* packet builder: the document can be read, schema and values describe each
  other, sizes, encrypted range and filling are those of the bytes;
* MD5 and AES: the bytes, blocks and rounds are those of the standards;
* binary-request client: it reports success only if there was, and it ends.

## 2. Modules

| Module | Models | Composes |
|---|---|---|
| `SchemaOnWrite` | the abstract promise: post, decode with the own schema, lose | |
| `SensocolWebSocket` | codec, listener, trap, close; the server it talks to (external) | implements `SchemaOnWrite` |
| `SensocolWebSocketProofs` | theorems about it | |
| `SensocolWebSocketRefinement` | that it implements `SchemaOnWrite` | |
| `SensocolEncoding` | zig-zag and varints, bit by bit, loop by loop | |
| `SensocolEncodingProofs` | theorems about it | |
| `SensocolLayout` | the fields of the frames of the C library, their sizes, AES alignment; the pieces of the schema document | |
| `SensocolPacket` | the packet structure over several readings | `SensocolLayout` |
| `SensocolPacketProofs` | theorems about it | |
| `BinaryRequest` | `main.c` on several devices, and the server (external) | implements `SchemaOnWrite` |
| `BinaryRequestProofs` | theorems about it | |
| `WebSocketFrame` | frames on a byte stream: `encode`, `send_frame`, `receive` | |
| `WebSocketHandshake` | `initialize` and `read_header`, and the frames behind the answer on the same stream | `WebSocketFrame` |
| `WebSocketHandshakeProofs` | theorems about both | |
| `Md5` | `md5()`: the blocks, the padding, the schedule of the steps | |
| `Md5Proofs` | theorems about it | |
| `Iteration` | a counting loop, as a recursive function | |
| `Aes` | the cipher of `aes.c`: tables, key schedules, `aes_crypt_ecb` | `Iteration` |
| `Fips197` | the same cipher as the standard defines it: the reference | `Iteration` |
| `AesCbc` | `aes_crypt_cbc` in place, one way and back, with its keys | `Aes`, compared with `Fips197` |
| `AesCbcProofs` | theorems about it | |
| `MC...` | instances for TLC | |

Some definitions stand next to a variant with a small slip in it
(`FitsEight` next to `FitsGroup`). The specifications do not use the variants:
each shows that a property notices the slip (`mutants` in `PROJECT.json`).

### SensocolWebSocket

Ruby arrays are mutable and `@schema_list` holds references: `arrays` is a heap
of arrays, the last of which is `@feature_schema`, and an entry of `schema_list`
names an array. `data` keeps the shape of `@data`, the list of features encoded
in it. The wire is a FIFO of frames per direction.

| Action | Code |
|---|---|
| `SetTimestamp`, `SetFeatures`, `Add` | `timestamp=`, `features=`, `add` |
| `Register`, `Transmit` | the two parts of `send`: the synchronised block; the write and the resets |
| `MainBroken`, `MainExit` | a write to a closed connection raises; the script ends |
| `TrapCloseBegin`, `TrapCloseEnd` | `close` in the trap: check and frame, then the flag. The main thread is suspended in between |
| `LookUp`, `Respond`, `Ignore` | the loop of `setup_listen`; the entry found is serialised only by `Respond` |
| `ListenerDies` | an exception that ends the listener thread: not JSON, binary, ping, reset connection |
| `ListenerExit` | `receive` returns nil (pong, end of the stream): `exit()` |
| `PeerCloseBegin`, `PeerCloseEnd` | `receive` of a Close frame calls `close` |
| `Server...`, `ConnectionLost` | the server of the top-level README's protocol, and the network |

`AddAfterSend` tells two kinds of callers apart: those that only use `features=`
between two packets, as `basic_test.rb` does, and those that also `add` to a
codec whose packet was sent.

### SensocolEncoding

A word is the function of its bits. `Width` and `Shift` are apart because
`sc_int32_t` is a `long`: on LP64 it has 64 bits and is shifted by 31. `SizeLoop`
is an iteration of `sensocol_size_int32_encoded`, `WriteLoop` one of
`write_raw_varint32`. The Ruby `create_long` is the case 64/63, on integers of
64 bits.

### SensocolLayout, SensocolPacket

A frame is a list of fields with lengths, next to the literals the code computes
its sizes from. `SensocolPacket` fills, sends and re-initialises one structure;
every frame keeps the document and values it was generated from. The caller
keeps to the limits of `sensocol.h`, as its comments demand: the functions do not
check them.

`SchemaDocument` is the document of `sensocol_schema_from_packet`, piece by piece
as it is copied, each literal with the number of bytes the code counted by hand.
The name of a feature is its length and whether it has characters that JSON wants
escaped (`NameContent`). `IsJSON` and `Announcement` read the document as a receiver
would, the headers included: `SchemaDescribesValues` says what it makes of the data
and when that is not what the data has. Sizes are numbers without a width where the
code's `Size` and offsets have 16 bits: within the limits of `sensocol.h` (a buffer of
1024 bytes, ids of 25, 10 features with names of 25 bytes) no frame comes near
65536 bytes. `PostFrame`, `Aes128Frame` and `SchemaFrame` are the frames the three
generators append.

`generate_aes128` fills up the last block with what lies behind the last value,
which is part of the field `data`. `BufferSize` is why that stays within the
structure: `sensocol.h:79` declares `buffer` as an array of pointers, which is
used as one of bytes. `FillingAssumption` is what that takes: pointers of two
bytes or more and a buffer of a block or more (1024 bytes in `sensocol.h:34`).

### BinaryRequest

One `pc` per device walks through `main`: connected, posted, requested,
schema sent, exited. `results` is what it prints and how it exits. A `send` or
`recv` may fail at any place, and a `send` may write a part of a frame
(`SendFails`): a part of a frame is no frame, and the client dies, which closes
the connection. The server answers as the README's dialogue has it, refuses if
it likes, and closes after its last answer. `RecvBytes` takes up to as many bytes
as the buffer has; the model takes one, as the server never has two answers under
way.

### WebSocketFrame

A stream of bytes between a writer and `receive`. With `server` the reader is a
`WebSocket` in the role of a server and the writer the client (`encode`, which
masks, and `send_frame`, which `close` calls without a mask); otherwise the
reader is the client and the writer a server, which may cut a text in fragments.
`Arrive` delivers a byte, `End` cuts the stream; each `read` of `receive` is an
action. The bit of a length byte, the 126/127 forms and the 16- and 64-bit digits
are scaled (`Field`, `Base`); one bit stands for a byte of payload and key, since
xor works bit by bit. `Digits2` to `Digits8` are what `pack` writes of a length and
`Number` is what `unpack` reads, halves and bytes in the order of the code.
`FrameAssumption` asks of the scale what holds of 128 and 256: a length too long
for the short form fits the next one, and one of a payload fits eight digits.
`fin` is written, read and, as in the code, ignored.

### WebSocketHandshake

What `WebSocket.new` does once it is connected: the request, `gets` for the
status line, the loop of `read_header`, the checks. A line is one number on the
same stream the bytes of the frames follow on, and is known by what the code
tells apart (`101` or not, the two fields that are checked with a good or a bad
value, another field, one without a space behind its colon, no field, the empty
line). The stream may end within a line, and `gets` returns what there is of it
(`Torn`). The server, external, answers a whole request with any of `Responses` and
may send frames behind any whole answer that says `101`.

`Accepts` is the reference for an answer, taken from the standards and not from the
client: RFC 7230 (3.2) wants no space behind a colon and joins fields of one name
to a list; RFC 6455 (4.1) wants `Upgrade` to be "websocket" and nothing else, and
`Connection` to list "Upgrade". `Sec-WebSocket-Accept`, its third demand, is left out
on both sides: the code has it as a TODO. `Agreement` says on which answers
`read_header` and the standards part, and that there are no others:

* a repeated `Upgrade` may open a connection the answer contradicts, as the last one
  counts (`web_socket.rb:266`);
* a repeated `Connection` may hide the "Upgrade" of an earlier one (same lines);
* a field without a space behind its colon raises (`web_socket.rb:263`);
* the end of the stream passes for the end of the header (`web_socket.rb:260`).

`HandshakeAssumption` says what an answer is: lines up to the
first empty one, a status line only in front; and that no byte is taken for a line.

### Md5

One step is a round of the loop of `md5`, a part of `md5_lastBlock`, or one of
the 64 calls of `md5_core`. The sums and rotations inside a call are left out
(a call is known by its arguments) and the chaining state is the list of blocks
added to it: what can go wrong apart from the tables is which bytes are
digested and in which order. `PaddedByte` and `RfcCall` are the reference, RFC
1321. Messages are whole bytes, as `main.c` passes them, so the branches of
`md5_lastBlock` for other lengths are not reached and not modelled.

### Aes, Fips197, AesCbc

`Aes` is the cipher as `aes.c` computes it in the client's build: tables generated
by `aes_gen_tables` from powers and logarithms, the three strides of
`aes_setkey_enc`, the reversed schedule of `aes_setkey_dec`, table rounds and the
last round. A word is its four bytes. `Fips197` defines the same cipher the way
the standard does, by polynomials, and shares nothing with `Aes` but `Loop`.

Two assumptions are about the tables alone and are evaluated for every byte:
`TablesAssumption` says what of them decryption rests on (`RSb` undoes `FSb`, a word
that goes through `RT` by way of `FSb` is linear and undoes an entry of `FT`),
`StandardAssumption` that they are the tables of the standard. They have no
parameter, so that a run that evaluates them has checked all of them.

`AesCbc` is what CBC adds, step by step: the buffer that is input and output at
once, `temp`, and the `iv` both loops change. The receiver, which is not in the
repository, is assumed to decrypt with the same functions.

## 3. Runs

| Run | Question | Bounds |
|---|---|---|
| `exchange` | Can every request be answered, with the schema its hash names, and is every packet decoded by its own schema? | 2 features, 2 arrays of 2, 2 packets, 1 unsolicited request; no closing. Two packets are enough for a schema that is known, one that is asked for twice, and one that changes in between |
| `liveness` | Is every packet decoded in the end, never by a wrong schema although the connection may break, and does a close end? | 2 packets, timestamp or not, a stray frame of any kind, both ends close, the connection breaks |
| `encoding` | Are all integers encoded, measured, decoded? | all 65536 words of 16 bits, shift 13: more bits than the shift uses, two full groups and a third |
| `packet` | When can the document be read and when does it describe the data, and do sizes, encrypted range and filling agree with the bytes? | 2 values a reading of all 5 types, with names that want escaping and names that do not, timestamp or not; ids of 11 and 64 bytes (one- and two-byte lengths), data of 0 to 26 bytes: both sides of the block boundary; several readings |
| `request` | Does a run report the truth and end, and is every packet decoded by its own schema? | 2 devices with different schemas, 2 runs each, refusals, short sends and broken connections at every step |
| `connection` | Does `initialize` open a connection for the answers that make one, and is what is received behind the answer what was sent? | 8 answers: accepting, refusing, with repeated, missing, broken and unspaced fields, with an end at any place; 2 frames of the three forms of length (up to 2 bytes the short one, 3 the middle one, 6 the long one), a key used more than once around |
| `md5` | Are the blocks and steps those of RFC 1321? | blocks of 64 bytes as in the code, messages of 0 to 130 bytes: two places where the length needs a block of its own, two where the message ends with a block |
| `cbc` | Are the blocks those of FIPS 197 and CBC, and is encryption in place undone in place? | the bytes and words of the code; keys of 128, 192 and 256 bits and one of an illegal length, messages of up to 3 blocks: a first, an inner and a last one |

All properties of these runs hold. The other runs show where the code departs
from what the repository says of it:

| Run | Shows |
|---|---|
| `late_add` | `add` after `send` changes the registered array, and the schema sent is not the one its hash names (`sensocol_web_socket.rb:58`) |
| `close_race` | the trap runs inside `send`; a data frame follows the Close frame (`sensocol_web_socket.rb:60`) |
| `post_size` | the Size field of an unencrypted packet does not count the schema hash (`sensocol.c:125`) |
| `no_username` | without credentials the request has no empty line at its end: client and server wait for each other (`web_socket.rb:74`) |

Met on the way, without a run:

* a ping, or any frame `receive` does not support, ends the listener thread while
  the client goes on (`web_socket.rb:194`): the action `ListenerDies`. From then
  on no schema request is answered; `Delivered` holds for a listener that lives;
* the schema announces a timestamp (`sensocol_schema.c:27`) for which nothing is
  written (`sensocol.c:137`, `:174`), although README.md:36 of the repository says
  "If "timestamp" is set to true then the data includes a timestamp."; a decoder
  takes the first bytes of the values for it. `SchemaDescribesValues` states it: the
  document announces the values and nothing else exactly if there is no timestamp;
* names of features are copied into the document unescaped (`sensocol_schema.c:37`),
  although README.md:43 says that all characters are supported: the document is JSON
  exactly if no name wants escaping (same property);
* of repeated fields in the server's answer the last one counts instead of their
  list, and a field without a space behind its colon is refused (`web_socket.rb:263`
  to `:267`): see `Agreement` above;
* a fragment of a text passes for the text, as `fin` is not looked at
  (`web_socket.rb:165`), and the rest of the message raises;
* the end of the stream passes for the end of the header (`web_socket.rb:260`): if
  both fields are there by then the connection counts as open. `Agreement`
  allows it, and `receive` returns nil at once;
* credentials of more than 45 bytes are encoded on two lines, the second of which
  is no header field (`web_socket.rb:79`); the server of the model refuses them;
* the condition of `web_socket.rb:45` is an assignment, so that a scheme that is
  not supported is never refused;
* `Sec-WebSocket-Accept` is not verified (a TODO at `web_socket.rb:91`), and the
  socket is not closed when `initialize` raises;
* the Close frame of the client is not masked (`web_socket.rb:243`), which the
  class itself refuses in the role of a server (`web_socket.rb:178`): it ends
  `receive` there by an exception (`AfterLength`);
* `sensocol.c:189` ignores the error `aes_crypt_cbc` returns for a length that is
  no multiple of 16 (`InvalidLength`); the run `packet` shows that the length is
  one;
* `generate_aes128` takes its nonce from a `rand()` nobody seeds (a TODO of the
  source says it is to be replaced);
* `main.c` calls some responses of the protocol unknown, or says nothing of them.

### Fairness

`FairSpec` of `SensocolWebSocket` is weakly fair to the listener (Ruby schedules
its threads preemptively), to the second half of a `send` that started, and to a
server that is up and reads its socket. Nothing obliges the caller to send, the
trap to fire or the server to speak. `BinaryRequest` is weakly fair to a program
that runs, once connected, and to the server: `main.c` has no timeout, so a
server that neither answers nor closes leaves it waiting; that the run ends
depends on it. `FairHandshakeSpec` is fair to a server that has read a whole
request and answers it, to the delivery of what was written, up
to the end of the stream, and to `initialize` and the reader. Runs whose system may stop
(a process that exited, a loop that ended, the bounds reached) do not check for
deadlock; `exchange` does.

## 4. Proofs

`SensocolWebSocketProofs`, for any features, bounds, strays and digest function
(collisions included):

* `TypeCorrectness`: `TypeOK`. It is inductive together with `DataIsShared` (`add`
  appends to two lists of one length), `SendingCounted`, `ListedAllocated` and
  `HoldingEntry`: the listener that is about to respond holds an entry.
* `Answerability`: `Answerable`, which alone is not inductive: the packet
  must be registered before it is on the wire (`main = "registered"` implies that
  the hash of the schema the codec has now is in the table, and nothing but
  `Transmit` changes the codec while it holds), and entries are never removed.
* `MatchCorrectness`: `SchemaMatchesHash`, assuming `~AddAfterSend`, which the
  run `late_add` shows to be needed. The invariant: an entry of the table refers
  to an array whose content still hashes to its key. It is kept because the
  array of an entry is never appended to: `MayAdd`, and `SetFeatures` allocates.

`SensocolWebSocketRefinement`, on top of these:

* `Implementation`: `DecodesByOwnSchema`, that client, listener and server implement
  `SchemaOnWrite`, assuming `~AddAfterSend` and `Injective`, no two schemas with one
  digest. Besides the invariants above it takes that the hash of a packet is that of
  the shape of its data (the arrays `data` and `@feature_schema` grow together) and
  that ids are used once. `Transmit` is the abstract Post, the two ways the server
  decodes are Decode, and every other step loses packets or leaves them alone.

`SensocolEncodingProofs`, for words of any width and any shift below it:

* the inductive invariant says that both loops walk the same word: after k
  iterations what is left is `ZigZag(n)` shifted down by 7k, all of it has been
  written as groups, and a word that is not yet exhausted has a bit from 7k on;
* `TypeCorrectness` bounds the iterations of both loops, so they end: each
  step counts or writes one byte more;
* `Correctness` (`RoundTrip`), `Delimitation` (`SelfDelimiting`),
  `SizeCorrectness` (`SizeAgrees`) and `Compactness` (`Compact`) follow.

`Md5Proofs`, for messages of every length and blocks and length fields of every
size:

* `TypeCorrectness`, `PaddingCorrectness` (`Padded`), `ScheduleCorrectness`
  (`Scheduled`). `Padded` speaks of the end; the invariant says, for each place
  in the program, how many blocks were added, where the message was left
  and what the block in hand contains. The counter equals the number of blocks
  except between `state->counter--` and the last block, and that is what makes the
  length written the length of the message. The schedule rests on the lemma
  `Digits`: the loops' indices are the formulas of the RFC modulo 16.

`AesCbcProofs`, for every key and every message:

* `TypeCorrectness`, `ChainCorrectness` (`Chained`), `RoundTripCorrectness`
  (`RoundTrip`), `StandardCorrectness` (`BlocksAreStandard`). The invariant for the
  third is that the chain is intact from the current block on, with `iv` in the
  place of the ciphertext just overwritten.
* `BlockIsUndone`: under the two schedules of a key `aes_crypt_ecb` undoes itself.
  After i rounds of decryption the state is that of encryption, nr - i
  rounds on, with its bytes shifted (`RoundUndone`): a round of decryption undoes the
  rotation, `RT` undoes `FT`, and as it is linear it meets the round key that was
  taken through `RT` by `aes_setkey_dec` (`DecryptionKey`).
* `BlockIsStandard`: a block is that of the standard. Both key schedules,
  a loop in a loop of three strides in the code and one loop in the standard,
  satisfy one recurrence (`Scheduled`), which has one solution (`SameSchedule`); the
  rounds agree one by one (`StandardShift`, `StandardMix`, `StandardAdd`).
* Xor is proved a group from the bits up (`HalfLaws`, `XorLaws`, `XorWordLaws`,
  `XorBlockLaws`). What a loop does is shown with `LoopSteps` by the least number of
  rounds for which it would fail (`SetInduction`). Of the tables nothing is used but
  `TablesAssumption` and `StandardAssumption`.

`BinaryRequestProofs`, for any devices, schemas, number of runs and digest
(collisions included), refusals, short sends and breaks:

* `TypeCorrectness`: `TypeOK`.
* `SuccessCorrectness`: `SuccessIsTrue`. The invariant `DeviceInv` says that all
  that is on a connection, or waits at the server, belongs to the run the device
  is in; that an "ok" on its way has its packet decoded; that the server still has
  the packet of a device it asked for a schema, so that its next "ok" is true as
  well; and that nothing is left of a run that exited. Without the first part an
  old "ok" could pass for a new one.
* `Implementation`: `DecodesByOwnSchema`, so that the client, the server and the
  network implement `SchemaOnWrite`, assuming `Injective`, no two schemas with one
  digest. In addition to the above, `RInv` says that a schema the server knows has
  the hash it is known by, that what is decoded was posted by a run of its device,
  and that a run which has not posted has nothing decoded, so that an id is used
  once. Post and Decode are the abstract actions, a refusal, a break
  and an exit lose packets, all else stutters.

`SensocolPacketProofs`, for arrays of any size, ids, names and values of any
length and any number of readings:

* `TypeCorrectness`: `TypeOK`. The invariant is that of a structure that is full to
  the same degree in both arrays: as many values as features, of their types, and
  `MaxFeatures` times the bytes used is at most the number of features times the size
  of the buffer. So what is left in the buffer is enough for what is left in
  the list; a counter that `packet_init` did not reset breaks it.
* `SchemaDescribes` (`SchemaDescribesValues`) reads the document as its receiver:
  `DocumentIsJSON` says that it is JSON exactly if every name is plain,
  `DocumentAnnounces` that what it announces is the timestamp, if there is one, and
  the types of the features in order. `Description` compares that with what was
  written: the announcement of a packet with a timestamp is longer by one.
* `Sizes` (`SizeIsLength`), `Encryption` (`EncryptsTheRest`), `Filling`
  (`FillingIsInBuffer`) and `SchemaDescribes`: each holds of a frame when it is generated, from the invariant, and frames do not change. The
  length of a frame and the feature list are recursive functions, one iteration of
  a loop each; what they give for every number of fields is shown by the least
  number for which it would fail (`SetInduction`), as an induction theorem with an
  operator for a parameter cannot be used. `Filling` needs `FillingAssumption`,
  and `SchemaDescribes` the lengths of the literals (`LiteralAssumption`), which are
  facts about strings that TLC evaluates and the provers do not know.

`WebSocketHandshakeProofs`, for any payloads of a length eight digits can hold, any
keys, answers of any number of lines, any number of frames, any scale, and every
way to cut the stream:

* `Delivery` (`TextsAreReceived`), `Ending` (`EndsForAReason`) and `TypeCorrectness`
  (`TypeOK`). The invariant has to say what all the bytes that are not yet read
  are: `Stream` says that they are the encodings of the frames written, one behind
  the other (`Framed`), from the frame `receive` is in, whose first bytes may have been
  read; `Within` says which, and that the header and the key `receive` holds
  are those of that frame. Where the stream ended, only what is left of
  it has to agree. Each read then gives what was written there: `HeaderBytes`,
  `LengthRead`, `KeyRead` and `PayloadRead` say so, and rest on the arithmetic of the
  digits (`Two`, `Four`, `Eight`) and on masking twice being no masking
  (`PlainOfMask`).
* `SameConnection` (`Agreement`) and `LineDiscipline` (`LinesThenFrames`). While
  `initialize` reads, the stream begins with the lines of the answer it has not
  read, and `@header` holds the last field of a kind among those it has read
  (`FieldRead`, `FieldIsRead`). So `initialize` opens for the answers that pass its own
  checks (`Passes`, the invariant `Agreed`), and what remains is to compare these
  with the standards: `PassesOrAccepts` says that an answer which only one of the
  two takes has a repeated or an unspaced field. A torn line is never
  an empty one or a `101` that was none. That no line is left for `receive` takes
  that frames follow only an answer that ends with an empty line.

The other assumptions are the named `ASSUME`s of the modules (bounds are naturals,
`NoEntry` is no entry, `Shift < Width`, the length field is shorter than a block);
each is evaluated by a run. Those about tables and literals have no parameter:
there the run is the proof.

Only model-checked: all liveness and what depends on ENABLED, which are out of the
prover's reach. Every invariant and every refinement of a passing run is a theorem.

## 5. Not modelled

* The arithmetic of `md5_core` and its table: a call is known by its arguments. In
  the other modules a digest is the parameter `Digest4`.
* In `aes.c`: CFB, CTR and the self test, which nothing calls; the ready-made
  tables and the padlock branches, which the build leaves out.
* In `web_socket.rb`: parsing of URIs and of the arguments, TLS, the challenge
  keys, which are not compared with anything.
* `WebSocketServer`: nothing uses it, and it cannot run: `create_web_socket` passes
  a socket to `initialize`, which expects a URI, and `handshake` is not defined.
* `sensocol_dump.c`: prints only.
* In the Ruby client the text of the JSON schema: its content is the list of
  features and the header. The bytes of floats and strings: their lengths and types.
* What a ping, a fragment or a repeated nonce should have led to: the code has no
  behaviour there that could be right or wrong in more than one step.
* Hazards without a property. The nonce (`sensocol.c:167`), the Close frame without a
  mask (`web_socket.rb:243`), and a listener that dies of a ping or of a text that is
  not JSON (`web_socket.rb:194`, `sensocol_web_socket.rb:40`) or ends the process on a
  pong (`web_socket.rb:195`) are what the code does, and nothing says what it should
  do instead: `Delivered` and `CloseEnds` excuse them. Two Close frames from trap and
  listener (`web_socket.rb:233`) do no harm, as the server stops at the first. The
  limits of the packet (`sensocol.c:41`) are the caller's to keep, and the model's
  caller keeps them: no property could fail for one who does not.
* Two writes of one socket that mix their bytes: one `IO#write` is one append.

## 6. Plan

1. `SchemaOnWrite` and `SensocolWebSocket`, the core: modelled, checked, its
   invariants and the refinement proved.
2. `SensocolEncoding`: modelled, checked, proved.
3. `BinaryRequest`: modelled, checked, proved down to the refinement.
4. `SensocolLayout`, `SensocolPacket`, `WebSocketFrame`, `WebSocketHandshake`:
   modelled, checked, proved.
5. `Md5`, `Iteration`, `Aes`, `Fips197` and `AesCbc`: modelled, checked, proved.
6. To add: what of liveness can be said as an invariant and proved (that a state
   in which nothing can happen is one where the work is done), and the parts of
   `aes.c` a server would use.
