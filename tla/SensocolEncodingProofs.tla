------------------------ MODULE SensocolEncodingProofs ------------------------
(***************************************************************************)
(* The encoding of integers is correct for words of every width.           *)
(***************************************************************************)
EXTENDS SensocolEncoding, SequenceTheorems, TLAPS

(* No bit of a is set from place k on. *)
ClearFrom(a, k) == \A i \in Place : i >= k => a[i] = 0

(* k groups are enough for a, and fewer are not. *)
TakesGroups(a, k) ==
  /\ k >= 1
  /\ ClearFrom(a, 7 * k)
  /\ k = 1 \/ ~ClearFrom(a, 7 * (k - 1))

(* The j-th group of a, counted from 1. *)
GroupOf(a, j) == [k \in 0..6 |-> Bit(a, 7 * (j - 1) + k)]

------------------------------------------------------------------------------
(* Words. *)

LEMMA PlaceType == Place \subseteq Nat /\ 0 \in Place /\ Width - 1 \in Place
BY WidthAssumption DEF Place

LEMMA BitType == \A a \in Word, i \in Nat : Bit(a, i) \in {0, 1}
BY DEF Bit, Word

LEMMA ZigZagType == \A a \in Word : ZigZag(a) \in Word
BY DEF ZigZag, Xor, Word

LEMMA ShiftType ==
  \A a \in Word, k \in Nat : ShiftRightUnsigned(a, k) \in Word
BY BitType, PlaceType DEF ShiftRightUnsigned, Word

LEMMA ShiftZero == \A a \in Word : ShiftRightUnsigned(a, 0) = a
BY PlaceType DEF ShiftRightUnsigned, Word, Bit

LEMMA ShiftMore ==
  ASSUME NEW a \in Word, NEW k \in Nat
  PROVE  NextGroups(ShiftRightUnsigned(a, k)) = ShiftRightUnsigned(a, k + 7)
<1> SUFFICES ASSUME NEW i \in Place
             PROVE  Bit(ShiftRightUnsigned(a, k), i + 7) = Bit(a, i + (k + 7))
  BY DEF NextGroups, ShiftRightUnsigned
<1>1. CASE i + 7 \in Place
  BY <1>1, PlaceType DEF Bit, ShiftRightUnsigned
<1>2. CASE i + 7 \notin Place
  <2>1. i + (k + 7) \notin Place
    BY <1>2, WidthAssumption DEF Place
  <2> QED
    BY <1>2, <2>1 DEF Bit
<1> QED
  BY <1>1, <1>2

LEMMA LowGroupOfShift ==
  ASSUME NEW a \in Word, NEW k \in Nat
  PROVE  LowGroup(ShiftRightUnsigned(a, k)) = [i \in 0..6 |-> Bit(a, k + i)]
<1> SUFFICES ASSUME NEW i \in 0..6
             PROVE  Bit(ShiftRightUnsigned(a, k), i) = Bit(a, k + i)
  BY DEF LowGroup
<1>1. CASE i \in Place
  BY <1>1 DEF Bit, ShiftRightUnsigned
<1>2. CASE i \notin Place
  <2>1. k + i \notin Place
    BY <1>2, WidthAssumption DEF Place
  <2> QED
    BY <1>2, <2>1 DEF Bit
<1> QED
  BY <1>1, <1>2

LEMMA FitsGroupOfShift ==
  ASSUME NEW a \in Word, NEW k \in Nat
  PROVE  FitsGroup(ShiftRightUnsigned(a, k)) <=> ClearFrom(a, k + 7)
<1>1. ASSUME FitsGroup(ShiftRightUnsigned(a, k)), NEW i \in Place, i >= k + 7
      PROVE  a[i] = 0
  <2>1. i - k \in Place /\ i - k >= 7
    BY <1>1, WidthAssumption DEF Place
  <2>2. ShiftRightUnsigned(a, k)[i - k] = 0
    BY <1>1, <2>1 DEF FitsGroup
  <2>3. ShiftRightUnsigned(a, k)[i - k] = Bit(a, (i - k) + k)
    BY <2>1 DEF ShiftRightUnsigned
  <2>4. (i - k) + k = i
    BY PlaceType
  <2> QED
    BY <2>2, <2>3, <2>4 DEF Bit
<1>2. ASSUME ClearFrom(a, k + 7), NEW i \in Place, i >= 7
      PROVE  ShiftRightUnsigned(a, k)[i] = 0
  BY <1>2, PlaceType DEF ClearFrom, ShiftRightUnsigned, Bit
<1> QED
  BY <1>1, <1>2 DEF FitsGroup, ClearFrom

(* The decoder undoes zig-zag on the integers the operation is for. *)
LEMMA ZigZagInverse ==
  ASSUME NEW a \in Word, InRange(a)
  PROVE  UnZigZag(ZigZag(a)) = a
<1>1. Shift \in Place
  BY WidthAssumption DEF Place
<1>2. ZigZag(a)[0] = a[Shift]
  BY <1>1, PlaceType DEF ZigZag, Xor, ShiftLeft, ShiftRightSigned, Word
<1> SUFFICES ASSUME NEW i \in Place
             PROVE  UnZigZag(ZigZag(a))[i] = a[i]
  BY DEF UnZigZag, Word
<1>3. UnZigZag(ZigZag(a))[i]
        = IF Bit(ZigZag(a), i + 1) = a[Shift] THEN 0 ELSE 1
  BY <1>2 DEF UnZigZag
<1>4. a[i] \in {0, 1} /\ a[Shift] \in {0, 1} /\ a[Width - 1] \in {0, 1}
  BY <1>1, PlaceType DEF Word
<1>5. a[Width - 1] = a[Shift]
  BY PlaceType, WidthAssumption DEF InRange
<1>6. CASE i + 1 \in Place
  <2>1. ShiftLeft(a)[i + 1] = a[i]
    BY <1>6, PlaceType DEF ShiftLeft
  <2>2. ShiftRightSigned(a, Shift)[i + 1] = a[Shift]
    BY <1>6, <1>5, PlaceType, WidthAssumption
       DEF ShiftRightSigned, InRange, Place
  <2>3. Bit(ZigZag(a), i + 1) = IF a[i] = a[Shift] THEN 0 ELSE 1
    BY <1>6, <2>1, <2>2 DEF Bit, ZigZag, Xor
  <2> QED
    BY <1>3, <1>4, <2>3
<1>7. CASE i + 1 \notin Place
  <2>1. i = Width - 1
    BY <1>7, WidthAssumption DEF Place
  <2>2. Bit(ZigZag(a), i + 1) = 0
    BY <1>7 DEF Bit
  <2> QED
    BY <1>3, <1>4, <1>5, <2>1, <2>2
<1> QED
  BY <1>6, <1>7

(* The sign moves to the bit 0: nothing is left above the Shift + 1 bits.  *)
LEMMA ZigZagIsShort ==
  ASSUME NEW a \in Word, InRange(a)
  PROVE  ClearFrom(ZigZag(a), Shift + 1)
<1> SUFFICES ASSUME NEW i \in Place, i >= Shift + 1
             PROVE  ZigZag(a)[i] = 0
  BY DEF ClearFrom
<1>1. i - 1 \in Place /\ i - 1 >= Shift /\ i # 0
  BY WidthAssumption DEF Place
<1>2. ShiftLeft(a)[i] = a[Shift]
  BY <1>1 DEF ShiftLeft, InRange
<1>3. ShiftRightSigned(a, Shift)[i] = a[Shift]
  BY PlaceType, WidthAssumption DEF ShiftRightSigned, InRange, Place
<1> QED
  BY <1>2, <1>3 DEF ZigZag, Xor

(* The number of groups is determined by the word. *)
LEMMA GroupsUnique ==
  ASSUME NEW a \in Word, NEW j \in Nat, NEW k \in Nat,
         TakesGroups(a, j), TakesGroups(a, k)
  PROVE  j = k
<1>1. ASSUME NEW x \in Nat, NEW y \in Nat, x < y,
             TakesGroups(a, x), TakesGroups(a, y)
      PROVE  FALSE
  <2>1. y # 1 /\ 7 * (y - 1) >= 7 * x
    BY <1>1 DEF TakesGroups
  <2> QED
    BY <1>1, <2>1, PlaceType DEF TakesGroups, ClearFrom
<1> QED
  BY <1>1

(* A word with a bit from place 7k on needs one more of the bytes reserved.*)
LEMMA RoomForOneMore ==
  ASSUME NEW a, NEW k \in Nat, k = 0 \/ ~ClearFrom(a, 7 * k)
  PROVE  k + 1 <= MaxBytes
<1>1. 7 * k < Width
  BY WidthAssumption, PlaceType DEF ClearFrom, Place
<1> QED
  BY <1>1, WidthAssumption DEF MaxBytes

------------------------------------------------------------------------------
(* The inductive invariant: both loops walk the groups of ZigZag(n), and   *)
(* the bytes written are the groups behind them.                           *)

TypeCorrect ==
  /\ n \in Word /\ value2 \in Word /\ value \in Word
  /\ size \in Nat
  /\ out \in Seq(Byte)
  /\ pc \in {"size", "write", "done"}

SizeWalks ==
  IF pc = "size"
    THEN /\ value2 = ShiftRightUnsigned(ZigZag(n), 7 * size)
         /\ size = 0 \/ ~ClearFrom(ZigZag(n), 7 * size)
    ELSE TakesGroups(ZigZag(n), size)

WriteWalks ==
  /\ pc = "size" => value = ZigZag(n) /\ Len(out) = 0
  /\ pc = "write" => /\ value = ShiftRightUnsigned(ZigZag(n), 7 * Len(out))
                     /\ Len(out) = 0 \/ ~ClearFrom(ZigZag(n), 7 * Len(out))
  /\ pc = "done" => TakesGroups(ZigZag(n), Len(out))

GroupsWritten ==
  \A j \in 1..Len(out) :
    /\ out[j].bits = GroupOf(ZigZag(n), j)
    /\ out[j].more <=> (j < Len(out) \/ pc # "done")

IInv == TypeCorrect /\ SizeWalks /\ WriteWalks /\ GroupsWritten

LEMMA Initially == Init => IInv
<1> SUFFICES ASSUME Init PROVE IInv
  OBVIOUS
<1> USE DEF Init
<1>1. TypeCorrect
  BY ZigZagType DEF TypeCorrect
<1>2. SizeWalks
  BY ShiftZero, ZigZagType DEF SizeWalks
<1>3. WriteWalks
  BY DEF WriteWalks
<1>4. GroupsWritten
  BY DEF GroupsWritten
<1> QED
  BY <1>1, <1>2, <1>3, <1>4 DEF IInv

(* One iteration of the size loop. *)
LEMMA SizeLoopKeeps == IInv /\ SizeLoop => IInv'
<1> SUFFICES ASSUME IInv, SizeLoop PROVE IInv'
  OBVIOUS
<1> DEFINE E == ZigZag(n)
<1>1. /\ pc = "size" /\ size' = size + 1
      /\ n' = n /\ value' = value /\ out' = out
  BY DEF SizeLoop
<1>2. /\ TypeCorrect
      /\ value2 = ShiftRightUnsigned(E, 7 * size)
      /\ value = E /\ Len(out) = 0
  BY <1>1 DEF IInv, SizeWalks, WriteWalks
<1>3. E \in Word /\ 7 * size \in Nat /\ 7 * size + 7 = 7 * (size + 1)
  BY <1>2, ZigZagType DEF TypeCorrect
<1>4. FitsGroup(value2) <=> ClearFrom(E, 7 * (size + 1))
  BY <1>2, <1>3, FitsGroupOfShift
<1>5. CASE FitsGroup(value2)
  <2>1. pc' = "write" /\ value2' = value2
    BY <1>1, <1>5 DEF SizeLoop
  <2>2. TypeCorrect'
    BY <1>1, <1>2, <2>1 DEF TypeCorrect
  <2>3. size = 0 \/ ~ClearFrom(E, 7 * size)
    BY <1>1 DEF IInv, SizeWalks
  <2>4. TakesGroups(E, size + 1)
    <3>1. size + 1 >= 1 /\ (size + 1) - 1 = size
      BY <1>2 DEF TypeCorrect
    <3> QED
      BY <1>2, <1>4, <1>5, <2>3, <3>1 DEF TakesGroups, TypeCorrect
  <2>5. SizeWalks'
    BY <1>1, <2>1, <2>4 DEF SizeWalks
  <2>6. WriteWalks' /\ GroupsWritten'
    BY <1>1, <1>2, <1>3, <2>1, ShiftZero DEF WriteWalks, GroupsWritten
  <2> QED
    BY <2>2, <2>5, <2>6 DEF IInv
<1>6. CASE ~FitsGroup(value2)
  <2>1. pc' = pc /\ value2' = NextGroups(value2)
    BY <1>1, <1>6 DEF SizeLoop
  <2>2. value2' = ShiftRightUnsigned(E, 7 * (size + 1))
    BY <2>1, <1>2, <1>3, ShiftMore
  <2>3. TypeCorrect'
    BY <1>1, <1>2, <1>3, <2>1, <2>2, ShiftType DEF TypeCorrect
  <2>4. SizeWalks'
    BY <1>1, <1>4, <1>6, <2>1, <2>2 DEF SizeWalks
  <2>5. WriteWalks' /\ GroupsWritten'
    BY <1>1, <1>2, <2>1 DEF WriteWalks, GroupsWritten
  <2> QED
    BY <2>3, <2>4, <2>5 DEF IInv
<1> QED
  BY <1>5, <1>6

(* One iteration of the write loop. *)
LEMMA WriteLoopKeeps == IInv /\ WriteLoop => IInv'
<1> SUFFICES ASSUME IInv, WriteLoop PROVE IInv'
  OBVIOUS
<1> DEFINE E == ZigZag(n)
           L == Len(out)
           b == [more |-> ~FitsGroup(value), bits |-> LowGroup(value)]
<1>1. /\ pc = "write" /\ out' = Append(out, b)
      /\ n' = n /\ value2' = value2 /\ size' = size
  BY DEF WriteLoop, WriteByte
<1>2. /\ TypeCorrect
      /\ value = ShiftRightUnsigned(E, 7 * L)
      /\ L = 0 \/ ~ClearFrom(E, 7 * L)
      /\ TakesGroups(E, size)
  BY <1>1 DEF IInv, SizeWalks, WriteWalks
<1>3. L \in Nat
  BY <1>2, LenProperties DEF TypeCorrect
<1>4. E \in Word /\ 7 * L \in Nat /\ 7 * L + 7 = 7 * (L + 1)
  BY <1>2, <1>3, ZigZagType DEF TypeCorrect
<1>5. FitsGroup(value) <=> ClearFrom(E, 7 * (L + 1))
  BY <1>2, <1>4, FitsGroupOfShift
<1>6. LowGroup(value) = GroupOf(E, L + 1)
  <2>1. 7 * ((L + 1) - 1) = 7 * L
    BY <1>3
  <2> QED
    BY <1>2, <1>4, <2>1, LowGroupOfShift DEF GroupOf
<1>7. b \in Byte
  <2>1. LowGroup(value) \in Group
    BY <1>2, BitType DEF LowGroup, Group, TypeCorrect
  <2>2. FitsGroup(value) \in BOOLEAN
    BY DEF FitsGroup
  <2> QED
    BY <2>1, <2>2 DEF Byte
<1>8. /\ out' \in Seq(Byte) /\ Len(out') = L + 1
      /\ \A j \in 1..L : out'[j] = out[j]
      /\ out'[L + 1] = b
  BY <1>1, <1>2, <1>7, AppendProperties DEF TypeCorrect
<1>flag. out'[L + 1].more = (~FitsGroup(value))
  <2>1. b.more = (~FitsGroup(value))
    BY Zenon
  <2> HIDE DEF b
  <2> QED
    BY <1>8, <2>1, Zenon
<1>9. \A j \in 1..(L + 1) : out'[j].bits = GroupOf(E, j)
  <2> SUFFICES ASSUME NEW j \in 1..(L + 1)
               PROVE  out'[j].bits = GroupOf(E, j)
    OBVIOUS
  <2>1. CASE j = L + 1
    BY <2>1, <1>6, <1>8
  <2>2. CASE j # L + 1
    <3>1. j \in 1..L
      BY <2>2, <1>3
    <3> QED
      BY <3>1, <1>8 DEF IInv, GroupsWritten
  <2> QED
    BY <2>1, <2>2
<1>10. \A j \in 1..L : out'[j].more
  BY <1>1, <1>8 DEF IInv, GroupsWritten
<1>11. CASE FitsGroup(value)
  <2>1. pc' = "done" /\ value' = value
    BY <1>1, <1>11 DEF WriteLoop
  <2>2. TypeCorrect'
    BY <1>1, <1>2, <1>8, <2>1 DEF TypeCorrect
  <2>3. TakesGroups(E, L + 1)
    <3>1. L + 1 >= 1 /\ (L + 1) - 1 = L
      BY <1>3
    <3> QED
      BY <1>2, <1>3, <1>5, <1>11, <3>1 DEF TakesGroups
  <2>4. SizeWalks' /\ WriteWalks'
    BY <1>1, <1>2, <1>8, <2>1, <2>3 DEF SizeWalks, WriteWalks
  <2>5. ~out'[L + 1].more
    BY <1>11, <1>flag, Zenon
  <2>6. \A j \in 1..(L + 1) : out'[j].more <=> j < L + 1
    <3> SUFFICES ASSUME NEW j \in 1..(L + 1)
                 PROVE  out'[j].more <=> j < L + 1
      OBVIOUS
    <3>1. CASE j = L + 1
      BY <3>1, <2>5, <1>3
    <3>2. CASE j # L + 1
      <4>1. j \in 1..L /\ j < L + 1
        BY <3>2, <1>3
      <4> QED
        BY <4>1, <1>10
    <3> QED
      BY <3>1, <3>2
  <2>7. GroupsWritten'
    BY <1>1, <1>8, <1>9, <2>1, <2>6 DEF GroupsWritten
  <2> QED
    BY <2>2, <2>4, <2>7 DEF IInv
<1>12. CASE ~FitsGroup(value)
  <2>1. pc' = pc /\ value' = NextGroups(value)
    BY <1>1, <1>12 DEF WriteLoop
  <2>2. value' = ShiftRightUnsigned(E, 7 * (L + 1))
    BY <2>1, <1>2, <1>4, ShiftMore
  <2>3. TypeCorrect'
    BY <1>1, <1>2, <1>3, <1>4, <1>8, <2>1, <2>2, ShiftType DEF TypeCorrect
  <2>4. SizeWalks' /\ WriteWalks'
    BY <1>1, <1>2, <1>5, <1>8, <1>12, <2>1, <2>2 DEF SizeWalks, WriteWalks
  <2>5. \A j \in 1..(L + 1) : out'[j].more
    <3>1. out'[L + 1].more
      BY <1>12, <1>flag, Zenon
    <3> QED
      BY <1>3, <1>10, <3>1
  <2>6. GroupsWritten'
    BY <1>1, <1>8, <1>9, <2>1, <2>5 DEF GroupsWritten
  <2> QED
    BY <2>3, <2>4, <2>6 DEF IInv
<1> QED
  BY <1>11, <1>12

LEMMA Stutters == IInv /\ UNCHANGED vars => IInv'
BY DEF vars, IInv, TypeCorrect, SizeWalks, WriteWalks, GroupsWritten

LEMMA Invariant == Spec => []IInv
<1>1. IInv /\ [Next]_vars => IInv'
  BY SizeLoopKeeps, WriteLoopKeeps, Stutters DEF Next
<1> QED
  BY Initially, <1>1, PTL DEF Spec

------------------------------------------------------------------------------
(* What the invariant implies.                                             *)

LEMMA TypeOKFollows == IInv => TypeOK
<1> SUFFICES ASSUME IInv PROVE TypeOK
  OBVIOUS
<1> DEFINE E == ZigZag(n)
<1>1. TypeCorrect /\ E \in Word
  BY ZigZagType DEF IInv, TypeCorrect
<1>2. MaxBytes \in Nat /\ 1 <= MaxBytes
  BY WidthAssumption DEF MaxBytes
<1>3. ASSUME NEW k \in Nat, TakesGroups(E, k)
      PROVE  k <= MaxBytes
  <2>1. CASE k = 1
    BY <2>1, <1>2
  <2>2. CASE k # 1
    <3>1. k - 1 \in Nat /\ ~ClearFrom(E, 7 * (k - 1))
      BY <1>3, <2>2 DEF TakesGroups
    <3>2. (k - 1) + 1 <= MaxBytes
      BY <3>1, RoomForOneMore
    <3> QED
      BY <3>2
  <2> QED
    BY <2>1, <2>2
<1>4. size <= MaxBytes
  <2>1. CASE pc = "size"
    BY <1>1, <1>2, <2>1, RoomForOneMore DEF IInv, SizeWalks, TypeCorrect
  <2>2. CASE pc # "size"
    BY <1>1, <1>3, <2>2 DEF IInv, SizeWalks, TypeCorrect
  <2> QED
    BY <2>1, <2>2
<1>5. Len(out) \in Nat /\ Len(out) <= MaxBytes
  <2>1. Len(out) \in Nat
    BY <1>1, LenProperties DEF TypeCorrect
  <2>2. CASE pc = "size"
    BY <2>2, <1>2 DEF IInv, WriteWalks
  <2>3. CASE pc = "write"
    BY <2>1, <2>3, <1>2, RoomForOneMore DEF IInv, WriteWalks
  <2>4. CASE pc = "done"
    BY <2>1, <2>4, <1>3 DEF IInv, WriteWalks
  <2> QED
    BY <2>1, <2>2, <2>3, <2>4, <1>1 DEF TypeCorrect
<1> QED
  BY <1>1, <1>2, <1>4, <1>5 DEF TypeOK, TypeCorrect

(* The decoder finds the word again in the groups. *)
LEMMA GroupsFollow == IInv /\ pc = "done" => Groups(out) = ZigZag(n)
<1> SUFFICES ASSUME IInv, pc = "done" PROVE Groups(out) = ZigZag(n)
  OBVIOUS
<1> DEFINE E == ZigZag(n)
<1>1. E \in Word /\ Len(out) \in Nat
  BY ZigZagType, LenProperties DEF IInv, TypeCorrect
<1>2. ClearFrom(E, 7 * Len(out))
  BY DEF IInv, WriteWalks, TakesGroups
<1> SUFFICES ASSUME NEW i \in Place PROVE Groups(out)[i] = E[i]
  BY <1>1 DEF Groups, Word
<1> DEFINE q == i \div 7
           r == i % 7
<1>3. q \in Nat /\ r \in 0..6 /\ i = 7 * q + r
  BY PlaceType
<1>4. CASE q < Len(out)
  <2>1. q + 1 \in 1..Len(out) /\ 7 * ((q + 1) - 1) + r = i
    BY <1>1, <1>3, <1>4
  <2>2. out[q + 1].bits = GroupOf(E, q + 1)
    BY <2>1 DEF IInv, GroupsWritten
  <2>3. GroupOf(E, q + 1)[r] = Bit(E, 7 * ((q + 1) - 1) + r)
    BY <1>3 DEF GroupOf
  <2>4. Groups(out)[i] = Bit(E, i)
    BY <1>4, <2>1, <2>2, <2>3 DEF Groups
  <2> QED
    BY <2>4 DEF Bit
<1>5. CASE ~(q < Len(out))
  <2>1. i >= 7 * Len(out)
    BY <1>1, <1>3, <1>5
  <2> QED
    BY <1>2, <1>5, <2>1 DEF Groups, ClearFrom
<1> QED
  BY <1>4, <1>5

------------------------------------------------------------------------------
(* The theorems.                                                           *)

(* Neither loop counts or writes more bytes than MaxBytes, five for 32     *)
(* bits and ten for 64: what a caller of sensocol_write_long reserves.     *)
THEOREM TypeCorrectness == Spec => []TypeOK
BY Invariant, TypeOKFollows, PTL

(* Decoding what sensocol_write_long wrote gives every integer of          *)
(* Shift + 1 bits back, whatever the width of the platform's word.         *)
THEOREM Correctness == Spec => []RoundTrip
<1>1. IInv => RoundTrip
  BY GroupsFollow, ZigZagInverse DEF RoundTrip, IInv, TypeCorrect
<1> QED
  BY Invariant, <1>1, PTL

(* A reader of the bytes stops exactly at the end of the integer. *)
THEOREM Delimitation == Spec => []SelfDelimiting
<1>1. IInv => SelfDelimiting
  <2> SUFFICES ASSUME IInv, pc = "done"
               PROVE  /\ out # <<>>
                      /\ \A i \in 1..Len(out) : out[i].more <=> i < Len(out)
    BY DEF SelfDelimiting
  <2>1. Len(out) >= 1
    BY DEF IInv, WriteWalks, TakesGroups
  <2>2. out # <<>>
    BY <2>1, EmptySeq
  <2> QED
    BY <2>2 DEF IInv, GroupsWritten
<1> QED
  BY Invariant, <1>1, PTL

(* sensocol_size_int32_encoded counts the bytes write_raw_varint32 writes. *)
THEOREM SizeCorrectness == Spec => []SizeAgrees
<1>1. IInv => SizeAgrees
  <2> SUFFICES ASSUME IInv, pc = "done" PROVE size = Len(out)
    BY DEF SizeAgrees
  <2>1. TakesGroups(ZigZag(n), size) /\ TakesGroups(ZigZag(n), Len(out))
    BY DEF IInv, SizeWalks, WriteWalks
  <2>2. size \in Nat /\ Len(out) \in Nat /\ ZigZag(n) \in Word
    BY ZigZagType, LenProperties DEF IInv, TypeCorrect
  <2> QED
    BY <2>1, <2>2, GroupsUnique
<1> QED
  BY Invariant, <1>1, PTL

(* A 32-bit integer takes five bytes, not ten, where `long' has 64 bits.   *)
THEOREM Compactness == Spec => []Compact
<1>1. IInv => Compact
  <2> SUFFICES ASSUME IInv, pc = "done", InRange(n)
               PROVE  7 * (Len(out) - 1) <= Shift
    BY DEF Compact
  <2>1. n \in Word /\ ZigZag(n) \in Word /\ Len(out) \in Nat
    BY ZigZagType, LenProperties DEF IInv, TypeCorrect
  <2>2. ClearFrom(ZigZag(n), Shift + 1)
    BY <2>1, ZigZagIsShort
  <2>3. Len(out) = 1 \/ ~ClearFrom(ZigZag(n), 7 * (Len(out) - 1))
    BY DEF IInv, WriteWalks, TakesGroups
  <2>4. CASE Len(out) = 1
    BY <2>4, WidthAssumption
  <2>5. CASE ~ClearFrom(ZigZag(n), 7 * (Len(out) - 1))
    <3>1. PICK i \in Place : i >= 7 * (Len(out) - 1) /\ ZigZag(n)[i] # 0
      BY <2>5 DEF ClearFrom
    <3>2. ~(i >= Shift + 1)
      BY <2>2, <3>1 DEF ClearFrom
    <3> QED
      BY <2>1, <3>1, <3>2, WidthAssumption, PlaceType
  <2> QED
    BY <2>3, <2>4, <2>5
<1> QED
  BY Invariant, <1>1, PTL
==============================================================================
