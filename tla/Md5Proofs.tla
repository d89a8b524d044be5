------------------------------ MODULE Md5Proofs ------------------------------
(***************************************************************************)
(* The blocks and the schedule of md5() are those of RFC 1321 for messages *)
(* of every length, and for blocks and length fields of every size.        *)
(***************************************************************************)
EXTENDS Md5, SequenceTheorems, TLAPS

(* Where block k of the padded message starts, counted from 0. *)
Start(k) == BlockBytes * k

------------------------------------------------------------------------------
LEMMA StartType == \A k \in Nat : Start(k) \in Nat
BY Md5Assumption DEF Start

LEMMA StartZero == Start(0) = 0
BY Md5Assumption DEF Start

LEMMA StartStep ==
  \A k \in Nat : /\ Start(k + 1) = Start(k) + BlockBytes
                 /\ k > 0 => Start(k) = Start(k - 1) + BlockBytes
BY Md5Assumption DEF Start

------------------------------------------------------------------------------
(* The schedule. *)

LEMMA Digits ==
  ASSUME NEW r \in 0..3, NEW mm \in 0..3, NEW nn \in 0..3
  PROVE  LET j == 16 * r + 4 * mm + nn IN
           /\ j \in 0..63
           /\ j \div 16 = r
           /\ j % 4 = nn /\ (0 - j) % 4 = (4 - nn) % 4
           /\ j % 16 = mm * 4 + nn
           /\ (5 * j + 1) % 16 = (1 + mm * 4 + nn * 5) % 16
           /\ (3 * j + 5) % 16 = (5 - mm * 4 + nn * 3) % 16
           /\ (7 * j) % 16 = (0 - mm * 4 + nn * 7) % 16
OBVIOUS

LEMMA Schedule ==
  ASSUME round \in 0..3, m \in 0..3, n \in 0..3, i = 16 * round + 4 * m + n
  PROVE  CoreCall = RfcCall(i) /\ CoreCall \in Call
<1>1. CoreCall = RfcCall(i)
  BY Digits DEF CoreCall, RfcCall, Word
<1>2. Word(round, m, n) \in 0..15
  BY DEF Word
<1>3. Rotation[round + 1][n + 1] \in Nat
  BY DEF Rotation
<1> QED
  BY <1>1, <1>2, <1>3, Digits DEF CoreCall, Call

------------------------------------------------------------------------------
(***************************************************************************)
(* The inductive invariant.                                                *)
(***************************************************************************)

(* The calls made so far are the first i of the table. *)
SchedInv ==
  pc = "rounds" =>
    /\ i = 16 * round + 4 * m + n
    /\ round = 4 => m = 0 /\ n = 0
    /\ Len(calls) = i
    /\ \A j \in 1..i : calls[j] = RfcCall(j - 1)

c == Len(absorbed)

(* The first k bytes of b are those of the padded message from s on. *)
Body(s, k) == \A j \in Index : j < k => b[j] = PaddedByte(s + j)
LengthAt == BlockBytes - LengthBytes
Trailer(block) ==
  \A j \in Index : j >= LengthAt => block[j] = LengthByte(j - LengthAt, 8 * length)
(* A last block that starts at s is needed, and enough. *)
Last(s) ==
  /\ s + BlockBytes >= length + 1 + LengthBytes
  /\ s < length + 1 + LengthBytes

(* The last piece of the message is in block k. *)
RestIn(k) == rest < BlockBytes /\ msg = Start(k)

(* All blocks added but the last one at the end. *)
AbsorbedInv ==
  \A k \in 1..c, j \in Index :
    absorbed[k][j] = PaddedByte(Start(k - 1) + j) \/ (pc = "done" /\ k = c)

(* The counter is the number of blocks added, except where md5_lastBlock   *)
(* set it back to the number of whole blocks of the message.               *)
BlockInv ==
  /\ length = msg + rest
  /\ AbsorbedInv
  /\ pc = "whole" => msg = Start(c) /\ counter = c
  /\ pc = "rounds" /\ ret = "whole" =>
       msg = Start(c) + BlockBytes /\ counter = c /\ Body(Start(c), BlockBytes)
  /\ pc = "length" => RestIn(c) /\ counter = c /\ Body(Start(c), BlockBytes)
  /\ pc = "rounds" /\ ret = "overflow" =>
       RestIn(c) /\ counter = c /\ Body(Start(c), BlockBytes) /\ NoRoom
  /\ pc = "overflow" => c >= 1 /\ RestIn(c - 1) /\ counter = c /\ NoRoom
  /\ pc = "insert" =>
       /\ c >= 1 /\ RestIn(c - 1) /\ counter = c - 1 /\ NoRoom
       /\ Body(Start(c), LengthAt)
  /\ pc = "rounds" /\ ret = "done" =>
       Last(Start(c)) /\ Body(Start(c), LengthAt) /\ Trailer(b)
  /\ pc = "done" =>
       /\ c >= 1 /\ Last(Start(c - 1)) /\ Trailer(absorbed[c])
       /\ \A j \in Index :
            j < LengthAt => absorbed[c][j] = PaddedByte(Start(c - 1) + j)

IInv == TypeOK /\ SchedInv /\ BlockInv

------------------------------------------------------------------------------
LEMMA ByteType ==
  /\ One \in Byte /\ Zero \in Byte
  /\ \A p \in Nat : Data(p) \in Byte
  /\ \A j, bits \in Nat : LengthByte(j, bits) \in Byte
BY DEF One, Zero, Data, LengthByte, Byte

LEMMA InitInv == Init => IInv
<1> SUFFICES ASSUME Init PROVE IInv
  OBVIOUS
<1> USE DEF Init
<1>1. length \in Nat
  BY Md5Assumption
<1>2. b \in Block
  BY ByteType DEF Block
<1>3. TypeOK
  BY <1>1, <1>2 DEF TypeOK
<1>4. SchedInv
  BY DEF SchedInv
<1>5. BlockInv
  BY <1>1, StartZero DEF BlockInv, AbsorbedInv, c
<1> QED
  BY <1>3, <1>4, <1>5 DEF IInv

LEMMA CallInv ==
  ASSUME IInv, NEW return, CallNextBlock(return)
  PROVE  /\ SchedInv'
         /\ round' \in 0..4 /\ m' \in 0..3 /\ n' \in 0..3 /\ i' \in 0..64
         /\ calls' \in Seq(Call)
BY DEF CallNextBlock, SchedInv

LEMMA WholeBlockInv == IInv /\ WholeBlock => IInv'
<1> SUFFICES ASSUME IInv, WholeBlock PROVE IInv'
  OBVIOUS
<1> USE DEF WholeBlock
<1>0. /\ pc = "whole" /\ pc' = "rounds" /\ ret' = "whole" /\ c \in Nat /\ c' = c
      /\ length \in Nat /\ rest \in Nat /\ msg \in Nat /\ BlockBytes \in Nat
      /\ length = msg + rest /\ msg = Start(c) /\ counter = c
  BY Md5Assumption DEF IInv, TypeOK, BlockInv, c, CallNextBlock
<1>1. b' \in Block
  BY <1>0, ByteType DEF Block, Index
<1>2. TypeOK'
  BY <1>0, <1>1, CallInv DEF IInv, TypeOK
<1>3. Body(Start(c), BlockBytes)'
  BY <1>0 DEF Body, Index, PaddedByte, Start
<1>4. AbsorbedInv'
  BY <1>0 DEF IInv, BlockInv, AbsorbedInv, PaddedByte, Start
<1>5. BlockInv'
  BY <1>0, <1>3, <1>4 DEF BlockInv, Start
<1> QED
  BY <1>2, <1>5, CallInv DEF IInv

LEMMA LastBlockInv == IInv /\ LastBlock => IInv'
<1> SUFFICES ASSUME IInv, LastBlock PROVE IInv'
  OBVIOUS
<1> USE DEF LastBlock, message, loops
<1>0. /\ pc = "whole" /\ pc' = "length" /\ c \in Nat /\ c' = c
      /\ length \in Nat /\ rest \in Nat /\ msg \in Nat /\ BlockBytes \in Nat
      /\ length = msg + rest /\ msg = Start(c) /\ counter = c
  BY Md5Assumption DEF IInv, TypeOK, BlockInv, c
<1>1. b' \in Block
  BY <1>0, ByteType DEF Block, Index
<1>2. TypeOK'
  BY <1>0, <1>1 DEF IInv, TypeOK
<1>3. Body(Start(c), BlockBytes)'
  BY <1>0 DEF Body, Index, PaddedByte, Start
<1>4. AbsorbedInv'
  BY <1>0 DEF IInv, BlockInv, AbsorbedInv, PaddedByte, Start
<1>5. BlockInv'
  BY <1>0, <1>3, <1>4 DEF BlockInv, RestIn, Start
<1>6. SchedInv'
  BY <1>0 DEF SchedInv
<1> QED
  BY <1>2, <1>5, <1>6 DEF IInv

LEMMA OverflowInv == IInv /\ Overflow => IInv'
<1> SUFFICES ASSUME IInv, Overflow PROVE IInv'
  OBVIOUS
<1> USE DEF Overflow, message
<1>0. pc = "length" /\ pc' = "rounds" /\ ret' = "overflow" /\ c' = c
  BY DEF CallNextBlock, c
<1>1. TypeOK'
  BY <1>0, CallInv DEF IInv, TypeOK
<1>2. BlockInv'
  BY <1>0 DEF IInv, BlockInv, AbsorbedInv, PaddedByte, Body, RestIn, NoRoom, Start
<1> QED
  BY <1>1, <1>2, CallInv DEF IInv

LEMMA ClearBlockInv == IInv /\ ClearBlock => IInv'
<1> SUFFICES ASSUME IInv, ClearBlock PROVE IInv'
  OBVIOUS
<1> USE DEF ClearBlock, message, loops
<1>0. /\ pc = "overflow" /\ pc' = "insert" /\ c \in Nat /\ c' = c /\ c >= 1
      /\ length \in Nat /\ rest \in Nat /\ msg \in Nat /\ BlockBytes \in Nat
      /\ length = msg + rest /\ RestIn(c - 1) /\ counter = c
  BY Md5Assumption DEF IInv, TypeOK, BlockInv, c
<1>1. b' \in Block
  BY ByteType DEF Block, IInv, TypeOK
<1>2. TypeOK'
  BY <1>0, <1>1 DEF IInv, TypeOK
<1>3. Start(c) = msg + BlockBytes /\ Start(c) > length
  BY <1>0, StartStep DEF RestIn
<1>4. Body(Start(c), LengthAt)'
  BY <1>0, <1>3 DEF Body, Index, PaddedByte, LengthAt, Start
<1>5. AbsorbedInv'
  BY <1>0 DEF IInv, BlockInv, AbsorbedInv, PaddedByte, Start
<1>6. BlockInv'
  BY <1>0, <1>4, <1>5 DEF IInv, BlockInv, RestIn, NoRoom, Start
<1>7. SchedInv'
  BY <1>0 DEF SchedInv
<1> QED
  BY <1>2, <1>6, <1>7 DEF IInv

LEMMA InsertLengthInv == IInv /\ InsertLength => IInv'
<1> SUFFICES ASSUME IInv, InsertLength PROVE IInv'
  OBVIOUS
<1> USE DEF InsertLength, message
<1>0. /\ pc \in {"insert", "length"} /\ pc' = "rounds" /\ ret' = "done"
      /\ c \in Nat /\ c' = c /\ counter \in Nat
      /\ length \in Nat /\ rest \in Nat /\ msg \in Nat /\ BlockBytes \in Nat
      /\ length = msg + rest
  BY Md5Assumption DEF IInv, TypeOK, BlockInv, c, CallNextBlock
<1>1. Start(counter) = msg /\ 8 * (BlockBytes * counter + rest) = 8 * length
  BY <1>0 DEF IInv, BlockInv, RestIn, Start
<1>2. b' = [k \in Index |-> IF k < LengthAt THEN b[k]
                            ELSE LengthByte(k - LengthAt, 8 * length)]
  BY <1>1 DEF LengthAt
<1>3. LengthAt \in Nat /\ LengthAt < BlockBytes
  BY Md5Assumption DEF LengthAt
<1>4. b' \in Block
  <2>1. \A k \in Index : b[k] \in Byte
    BY DEF IInv, TypeOK, Block
  <2>2. \A k \in Index : k >= LengthAt => k - LengthAt \in Nat
    BY <1>3 DEF Index
  <2>3. 8 * length \in Nat
    BY <1>0
  <2> QED
    BY <1>2, <1>3, <2>1, <2>2, <2>3, ByteType DEF Block, Index
<1>5. TypeOK'
  BY <1>0, <1>4, CallInv DEF IInv, TypeOK
<1>6. Last(Start(c))
  <2>1. CASE pc = "length"
    BY <1>0, <2>1, Md5Assumption DEF IInv, BlockInv, RestIn, NoRoom, Last
  <2>2. CASE pc = "insert"
    <3>1. Start(c) = msg + BlockBytes
      BY <1>0, <2>2, StartStep DEF IInv, BlockInv, RestIn
    <3> QED
      BY <1>0, <2>2, <3>1, Md5Assumption DEF IInv, BlockInv, RestIn, NoRoom, Last
  <2> QED
    BY <1>0, <2>1, <2>2
<1>7. Body(Start(c), LengthAt)
  BY <1>0, <1>3 DEF IInv, BlockInv, Body, Index
<1>8. Body(Start(c), LengthAt)' /\ Trailer(b)'
  BY <1>0, <1>2, <1>3, <1>7 DEF Body, Trailer, LengthAt, PaddedByte, Start, Index
<1>9. AbsorbedInv'
  BY <1>0 DEF IInv, BlockInv, AbsorbedInv, PaddedByte, Start
<1>10. BlockInv'
  BY <1>0, <1>6, <1>8, <1>9 DEF BlockInv, Last, Start
<1> QED
  BY <1>5, <1>10, CallInv DEF IInv

LEMMA CoreStepInv == IInv /\ CoreStep => IInv'
<1> SUFFICES ASSUME IInv, CoreStep PROVE IInv'
  OBVIOUS
<1> USE DEF CoreStep, message
<1>0. /\ pc = "rounds" /\ pc' = "rounds" /\ c' = c
      /\ round \in 0..3 /\ m \in 0..3 /\ n \in 0..3
      /\ i = 16 * round + 4 * m + n
      /\ calls \in Seq(Call) /\ Len(calls) = i
  BY DEF IInv, TypeOK, SchedInv, c
<1>1. CoreCall = RfcCall(i) /\ CoreCall \in Call
  BY <1>0, Schedule
<1>2. i \in 0..63
  BY <1>0
<1>3. /\ calls' \in Seq(Call) /\ Len(calls') = i'
      /\ \A j \in 1..i' : calls'[j] = RfcCall(j - 1)
  BY <1>0, <1>1, <1>2 DEF IInv, SchedInv
<1>4. /\ round' \in 0..4 /\ m' \in 0..3 /\ n' \in 0..3
      /\ i' = 16 * round' + 4 * m' + n'
      /\ round' = 4 => m' = 0 /\ n' = 0
  BY <1>0
<1>5. SchedInv'
  BY <1>3, <1>4 DEF SchedInv
<1>6. TypeOK'
  BY <1>2, <1>3, <1>4 DEF IInv, TypeOK
<1>7. BlockInv'
  BY <1>0 DEF IInv, BlockInv, AbsorbedInv, PaddedByte, Body, RestIn, NoRoom, Start,
              Last, Trailer
<1> QED
  BY <1>5, <1>6, <1>7 DEF IInv

LEMMA AddToStateInv == IInv /\ AddToState => IInv'
<1> SUFFICES ASSUME IInv, AddToState PROVE IInv'
  OBVIOUS
<1>0. /\ pc = "rounds" /\ pc' = ret /\ ret \in {"whole", "overflow", "done"}
      /\ length' = length /\ rest' = rest /\ msg' = msg /\ counter' = counter + 1
      /\ c \in Nat /\ counter \in Nat
  BY DEF AddToState, message, IInv, TypeOK, c
<1>1. /\ c' = c + 1
      /\ \A k \in 1..c : absorbed'[k] = absorbed[k]
      /\ absorbed'[c + 1] = b
  BY DEF AddToState, IInv, TypeOK, c
<1>2. TypeOK'
  BY DEF AddToState, message, loops, IInv, TypeOK
<1>3. SchedInv'
  BY <1>0 DEF SchedInv
<1>4. Start(c + 1) = Start(c) + BlockBytes /\ c + 1 - 1 = c
  BY <1>0, StartStep
<1>5. \A p : PaddedByte(p)' = PaddedByte(p)
  BY <1>0 DEF PaddedByte
<1>6. length = msg + rest /\ length' = msg' + rest'
  BY <1>0 DEF IInv, BlockInv
<1>7. \A k \in 1..c, j \in Index : absorbed'[k][j] = PaddedByte(Start(k - 1) + j)
  BY <1>0, <1>1 DEF IInv, BlockInv, AbsorbedInv
<1>8. ASSUME Body(Start(c), BlockBytes)
      PROVE  AbsorbedInv'
  <2>1. \A j \in Index : absorbed'[c + 1][j] = PaddedByte(Start(c) + j)
    BY <1>1, <1>8, Md5Assumption DEF Body, Index
  <2>2. ASSUME NEW k \in 1..(c + 1), NEW j \in Index
        PROVE  absorbed'[k][j] = PaddedByte(Start(k - 1) + j)
    <3>1. k \in 1..c \/ k = c + 1
      BY <1>0
    <3> QED
      BY <1>0, <1>4, <1>7, <2>1, <3>1
  <2> QED
    BY <1>0, <1>1, <2>2 DEF AbsorbedInv, PaddedByte, Start
<1>9. ASSUME ret = "whole" PROVE BlockInv'
  <2>1. Body(Start(c), BlockBytes) /\ msg = Start(c) + BlockBytes /\ counter = c
    BY <1>0, <1>9 DEF IInv, BlockInv
  <2>2. msg' = Start(c') /\ counter' = c'
    BY <1>0, <1>1, <1>4, <2>1
  <2> QED
    BY <1>0, <1>6, <1>8, <1>9, <2>1, <2>2 DEF BlockInv, Start
<1>10. ASSUME ret = "overflow" PROVE BlockInv'
  <2>1. Body(Start(c), BlockBytes) /\ RestIn(c) /\ NoRoom /\ counter = c
    BY <1>0, <1>10 DEF IInv, BlockInv
  <2>2. /\ c' >= 1 /\ c' - 1 = c /\ counter' = c'
        /\ rest' < BlockBytes /\ msg' = Start(c) /\ NoRoom'
    BY <1>0, <1>1, <2>1 DEF RestIn, NoRoom, Start
  <2> QED
    BY <1>0, <1>6, <1>8, <1>10, <2>1, <2>2 DEF BlockInv, RestIn, Start
<1>11. ASSUME ret = "done" PROVE BlockInv'
  <2>1. Last(Start(c)) /\ Body(Start(c), LengthAt) /\ Trailer(b)
    BY <1>0, <1>11 DEF IInv, BlockInv
  <2>2. AbsorbedInv'
    <3>1. ASSUME NEW k \in 1..(c + 1), NEW j \in Index
          PROVE  absorbed'[k][j] = PaddedByte(Start(k - 1) + j) \/ k = c + 1
      BY <1>0, <1>7
    <3> QED
      BY <1>0, <1>1, <1>11, <3>1 DEF AbsorbedInv, PaddedByte, Start
  <2>3. c' >= 1 /\ c' - 1 = c
    BY <1>0, <1>1
  <2>4. \A j \in Index : j < LengthAt => absorbed'[c'][j] = PaddedByte(Start(c) + j)
    BY <1>1, <2>1 DEF Body
  <2>5. \A j \in Index :
          j >= LengthAt => absorbed'[c'][j] = LengthByte(j - LengthAt, 8 * length)
    BY <1>1, <2>1 DEF Trailer
  <2>6. /\ Start(c) + BlockBytes >= length + 1 + LengthBytes
        /\ Start(c) < length + 1 + LengthBytes
    BY <2>1 DEF Last
  <2> QED
    BY <1>0, <1>6, <1>11, <2>2, <2>3, <2>4, <2>5, <2>6
       DEF BlockInv, Last, Trailer, PaddedByte, Start
<1>12. BlockInv'
  BY <1>0, <1>9, <1>10, <1>11
<1> QED
  BY <1>2, <1>3, <1>12 DEF IInv

LEMMA NextInv == IInv /\ [Next]_vars => IInv'
<1> SUFFICES ASSUME IInv, [Next]_vars PROVE IInv'
  OBVIOUS
<1>1. CASE UNCHANGED vars
  <2>1. TypeOK'
    BY <1>1 DEF vars, message, loops, IInv, TypeOK
  <2>2. SchedInv'
    BY <1>1 DEF vars, message, loops, IInv, SchedInv
  <2>3. BlockInv'
    BY <1>1 DEF vars, message, loops, IInv, BlockInv, AbsorbedInv, PaddedByte, c,
                Body, RestIn, NoRoom, Start, Last, Trailer
  <2> QED
    BY <2>1, <2>2, <2>3 DEF IInv
<1> QED
  BY <1>1, WholeBlockInv, LastBlockInv, OverflowInv, ClearBlockInv,
     InsertLengthInv, CoreStepInv, AddToStateInv DEF Next

(* The invariant holds in every state. *)
LEMMA Invariance == Spec => []IInv
BY InitInv, NextInv, PTL DEF Spec

------------------------------------------------------------------------------
(* md5() reads nothing behind the message and writes inside its block.     *)
THEOREM TypeCorrectness == Spec => []TypeOK
<1>1. IInv => TypeOK
  BY DEF IInv
<1> QED
  BY <1>1, Invariance, PTL

(* md5_nextBlock follows the table of RFC 1321 in every block.             *)
THEOREM ScheduleCorrectness == Spec => []Scheduled
<1>1. ASSUME IInv, pc = "rounds", round = 4
      PROVE  calls = [j \in 1..64 |-> RfcCall(j - 1)]
  <2>1. /\ calls \in Seq(Call) /\ Len(calls) = 64
        /\ \A j \in 1..64 : calls[j] = RfcCall(j - 1)
    <3>1. calls \in Seq(Call) /\ m = 0 /\ n = 0
      BY <1>1 DEF IInv, TypeOK, SchedInv
    <3>2. i = 64 /\ Len(calls) = i /\ \A j \in 1..i : calls[j] = RfcCall(j - 1)
      BY <1>1, <3>1 DEF IInv, SchedInv
    <3> QED
      BY <3>1, <3>2
  <2> QED
    BY <2>1
<1>2. IInv => Scheduled
  BY <1>1 DEF Scheduled
<1> QED
  BY <1>2, Invariance, PTL

(* md5() and md5_lastBlock digest the padded message of RFC 1321.          *)
THEOREM PaddingCorrectness == Spec => []Padded
<1>1. ASSUME IInv, pc = "done"
      PROVE  Padded
  <2>1. /\ c \in Nat /\ c >= 1 /\ Last(Start(c - 1)) /\ Trailer(absorbed[c])
        /\ \A j \in Index :
             j < LengthAt => absorbed[c][j] = PaddedByte(Start(c - 1) + j)
        /\ \A k \in 1..c, j \in Index :
             absorbed[k][j] = PaddedByte(Start(k - 1) + j) \/ k = c
    BY <1>1 DEF IInv, TypeOK, BlockInv, AbsorbedInv, c
  <2>2. Start(c) = Start(c - 1) + BlockBytes
    BY <2>1, StartStep
  <2>3. /\ Start(c) >= length + 1 + LengthBytes
        /\ Start(c - 1) < length + 1 + LengthBytes
    BY <2>1, <2>2 DEF Last
  <2>4. ASSUME NEW k \in 1..c, NEW j \in Index
        PROVE  absorbed[k][j] =
                 IF k = c /\ j >= BlockBytes - LengthBytes
                   THEN LengthByte(j - (BlockBytes - LengthBytes), 8 * length)
                   ELSE PaddedByte(Start(k - 1) + j)
    BY <2>1, <2>4, Md5Assumption DEF Trailer, LengthAt, Index
  <2> QED
    BY <2>3, <2>4 DEF Padded, Start, c
<1>2. IInv => Padded
  BY <1>1 DEF Padded
<1> QED
  BY <1>2, Invariance, PTL
==============================================================================
