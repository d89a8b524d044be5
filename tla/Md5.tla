--------------------------------- MODULE Md5 ---------------------------------
(***************************************************************************)
(* md5() of md5.c, which main.c calls on the schema to get the hash that   *)
(* stands at the head of every packet: the loop over the blocks of the     *)
(* message, the last block with its padding, and in each block the         *)
(* schedule of the 64 calls of md5_core.                                   *)
(*                                                                         *)
(* The arithmetic of md5_core (lines 62-95) is left out: a call is known   *)
(* by its arguments, and the chaining state state->a by the blocks added   *)
(* to it. Two implementations agree on every hash when they add the same   *)
(* blocks and call the same steps.                                         *)
(*                                                                         *)
(* A byte of the message is known by its index. Lengths are in bytes: a    *)
(* caller of md5() passes a multiple of 8 bits, so the branches of         *)
(* md5_lastBlock for other lengths, and its loop for 512 bits and more,    *)
(* are not reached.                                                        *)
(***************************************************************************)
EXTENDS Integers, Sequences

CONSTANTS
  BlockBytes,   (* MD5_BLOCK_BYTES, 64                                     *)
  LengthBytes,  (* sizeof(uint64_t), 8                                     *)
  MaxLength     (* bound: the longest message                              *)

ASSUME Md5Assumption ==
  /\ BlockBytes \in Nat /\ LengthBytes \in Nat /\ MaxLength \in Nat
  /\ 0 < LengthBytes /\ LengthBytes < BlockBytes

VARIABLES
  length,    (* the message, `length_b' of the caller                      *)
  rest,      (* what is left of it: `length_b' of md5 and md5_lastBlock    *)
  msg,       (* the index `msg' points to                                  *)
  counter,   (* `counter' of the context                                   *)
  absorbed,  (* the blocks added to `a' of the context                     *)
  b,         (* the block md5_nextBlock is called with, or `b'             *)
  round, m, n, i,  (* the loops of md5_nextBlock                           *)
  calls,     (* the calls of md5_core for the block                        *)
  pc,        (* "whole", "length", "overflow", "insert", "rounds", "done"  *)
  ret        (* where md5_nextBlock returns to                             *)

message == <<length, rest, msg>>
loops == <<round, m, n, i, calls>>
vars == <<message, counter, absorbed, b, loops, pc, ret>>

------------------------------------------------------------------------------
(* Bytes and blocks.                                                       *)

Index == 0..(BlockBytes - 1)
Data(p) == <<"data", p, 0>>
One == <<"one", 0, 0>>     (* 0x80                                          *)
Zero == <<"zero", 0, 0>>
LengthByte(j, bits) == <<"length", j, bits>>
Byte == {"data", "one", "zero", "length"} \X Nat \X Nat
Block == [Index -> Byte]

(* A call of md5_core: the function, the register it changes (0 is A), the *)
(* word of the block, the rotation and the entry of md5_T.                 *)
Call == [func : 0..3, as : 0..3, word : 0..15, s : Nat, t : 0..63]

------------------------------------------------------------------------------
(* md5_nextBlock. *)

(* The word each round takes. In the slip the third one runs upwards.      *)
WordUpwards(r, mm, nn) ==
  <<mm * 4 + nn, (1 + mm * 4 + nn * 5) % 16,
    (5 + mm * 4 + nn * 3) % 16, (0 - mm * 4 + nn * 7) % 16>>[r + 1]
Word(r, mm, nn) ==
  <<mm * 4 + nn, (1 + mm * 4 + nn * 5) % 16,
    (5 - mm * 4 + nn * 3) % 16, (0 - mm * 4 + nn * 7) % 16>>[r + 1]

(* s1t to s4t. *)
Rotation ==
  << <<7, 12, 17, 22>>, <<5, 9, 14, 20>>, <<4, 11, 16, 23>>, <<6, 10, 15, 21>> >>

CoreCall ==
  [func |-> round, as |-> (4 - n) % 4, word |-> Word(round, m, n),
   s |-> Rotation[round + 1][n + 1], t |-> i]

(* A call of md5_nextBlock with the block just put in b. *)
CallNextBlock(return) ==
  /\ pc' = "rounds" /\ ret' = return
  /\ round' = 0 /\ m' = 0 /\ n' = 0 /\ i' = 0
  /\ calls' = <<>>

CoreStep ==
  /\ pc = "rounds" /\ round < 4
  /\ calls' = Append(calls, CoreCall)
  /\ i' = i + 1
  /\ n' = (n + 1) % 4
  /\ m' = IF n < 3 THEN m ELSE (m + 1) % 4
  /\ round' = IF n < 3 \/ m < 3 THEN round ELSE round + 1
  /\ UNCHANGED <<message, counter, absorbed, b, pc, ret>>

AddToState ==
  /\ pc = "rounds" /\ round = 4
  /\ absorbed' = Append(absorbed, b)
  /\ counter' = counter + 1
  /\ pc' = ret
  /\ UNCHANGED <<message, b, loops, ret>>

------------------------------------------------------------------------------
(* md5 and md5_lastBlock. *)

Init ==
  /\ length \in 0..MaxLength
  /\ rest = length /\ msg = 0
  /\ counter = 0 /\ absorbed = <<>>
  /\ b = [k \in Index |-> Zero]
  /\ round = 0 /\ m = 0 /\ n = 0 /\ i = 0 /\ calls = <<>>
  /\ pc = "whole" /\ ret = "whole"

(* The loop of md5; the slip goes on while there is a byte left. *)
WholeBlockAny ==
  /\ pc = "whole" /\ rest > 0
  /\ b' = [k \in Index |-> Data(msg + k)]
  /\ msg' = msg + BlockBytes
  /\ rest' = rest - BlockBytes
  /\ CallNextBlock("whole")
  /\ UNCHANGED <<length, counter, absorbed>>

WholeBlock ==
  /\ pc = "whole" /\ rest >= BlockBytes
  /\ b' = [k \in Index |-> Data(msg + k)]
  /\ msg' = msg + BlockBytes
  /\ rest' = rest - BlockBytes
  /\ CallNextBlock("whole")
  /\ UNCHANGED <<length, counter, absorbed>>

(* md5_lastBlock: memset, memcpy, the padding one. *)
LastBlock ==
  /\ pc = "whole" /\ rest < BlockBytes
  /\ b' = [k \in Index |-> IF k < rest THEN Data(msg + k)
                           ELSE IF k = rest THEN One ELSE Zero]
  /\ pc' = "length"
  /\ UNCHANGED <<message, counter, absorbed, loops, ret>>

(* l + sizeof(uint64_t) >= 512/8: no room for the length behind the one;   *)
(* the slip forgets that the one takes a byte as well.                     *)
NoRoomWithoutOne == rest + LengthBytes > BlockBytes
NoRoom == rest + LengthBytes >= BlockBytes

Overflow ==
  /\ pc = "length" /\ NoRoom
  /\ CallNextBlock("overflow")
  /\ UNCHANGED <<message, counter, absorbed, b>>

(* state->counter--, and memset of all but the length. *)
ClearBlock ==
  /\ pc = "overflow"
  /\ counter' = counter - 1
  /\ b' = [k \in Index |-> IF k < BlockBytes - LengthBytes THEN Zero ELSE b[k]]
  /\ pc' = "insert"
  /\ UNCHANGED <<message, absorbed, loops, ret>>

InsertLength ==
  /\ pc = "insert" \/ (pc = "length" /\ ~NoRoom)
  /\ b' = [k \in Index |->
             IF k < BlockBytes - LengthBytes THEN b[k]
             ELSE LengthByte(k - (BlockBytes - LengthBytes),
                             8 * (BlockBytes * counter + rest))]
  /\ CallNextBlock("done")
  /\ UNCHANGED <<message, counter, absorbed>>

Next ==
  \/ WholeBlock \/ LastBlock \/ Overflow \/ ClearBlock \/ InsertLength
  \/ CoreStep \/ AddToState

Spec == Init /\ [][Next]_vars

------------------------------------------------------------------------------
(* The reference, RFC 1321.                                                *)

(* Byte p of the padded message, the length apart (3.1). *)
PaddedByte(p) ==
  IF p < length THEN Data(p) ELSE IF p = length THEN One ELSE Zero

(* Operation j of a block, counted from 0 (3.4): [abcd k s i] to the       *)
(* registers ABCD, DABC, CDAB, BCDA in turn.                               *)
RfcCall(j) ==
  [func |-> j \div 16,
   as |-> (0 - j) % 4,
   word |-> <<j % 16, (5 * j + 1) % 16, (3 * j + 5) % 16, (7 * j) % 16>>[(j \div 16) + 1],
   s |-> Rotation[(j \div 16) + 1][(j % 4) + 1],
   t |-> j]

------------------------------------------------------------------------------
(* What must hold.                                                         *)

(* Indices stay inside the message and the block, counters inside their    *)
(* loops; in particular nothing behind the end of the schema is read.      *)
TypeOK ==
  /\ length \in 0..MaxLength /\ rest \in 0..length /\ msg \in 0..length
  /\ counter \in Nat
  /\ absorbed \in Seq(Block)
  /\ b \in Block
  /\ round \in 0..4 /\ m \in 0..3 /\ n \in 0..3 /\ i \in 0..64
  /\ calls \in Seq(Call)
  /\ pc \in {"whole", "length", "overflow", "insert", "rounds", "done"}
  /\ ret \in {"whole", "overflow", "done"}

(* What md5() digests is the message, a one, zeros and the length of the   *)
(* message in bits, in as few blocks as hold them: also where the length   *)
(* does not fit behind the one any more, where the counter of blocks runs  *)
(* ahead of the message and has to be set back.                            *)
Padded ==
  pc = "done" =>
    /\ BlockBytes * Len(absorbed) >= length + 1 + LengthBytes
    /\ BlockBytes * (Len(absorbed) - 1) < length + 1 + LengthBytes
    /\ \A k \in 1..Len(absorbed), j \in Index :
         absorbed[k][j] =
           IF k = Len(absorbed) /\ j >= BlockBytes - LengthBytes
             THEN LengthByte(j - (BlockBytes - LengthBytes), 8 * length)
             ELSE PaddedByte(BlockBytes * (k - 1) + j)

(* Each block takes the 64 steps of RFC 1321, in its order: the loops with *)
(* their wrapping indices walk the words, registers and rotations of the   *)
(* table there.                                                            *)
Scheduled ==
  pc = "rounds" /\ round = 4 => calls = [j \in 1..64 |-> RfcCall(j - 1)]
==============================================================================
