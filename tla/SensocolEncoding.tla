--------------------------- MODULE SensocolEncoding ---------------------------
(***************************************************************************)
(* The integer encoding: zig-zag, then base-128 groups, least significant  *)
(* first, all but the last one flagged to continue. The program first asks *)
(* for the size of the encoding, then writes it, with two separate loops:  *)
(* one step here is one iteration of a loop.                               *)
(*                                                                         *)
(* A machine word is the function of its bits, in two's complement. Width  *)
(* and Shift are apart in the code: sc_int32_t is a `long', 64 bits wide   *)
(* on LP64, and still shifted by 31. For write_long_long, and for the      *)
(* create_long of the Ruby codec on any integer of 64 bits, they are 64    *)
(* and 63.                                                                 *)
(***************************************************************************)
EXTENDS Integers, Sequences

CONSTANTS
  Width,  (* bits of a word                                                *)
  Shift   (* how far the sign is shifted down: 31 or 63                    *)

ASSUME WidthAssumption ==
  /\ Width \in Nat /\ Shift \in Nat
  /\ Shift < Width

Place == 0..(Width - 1)
Word == [Place -> {0, 1}]
Group == [0..6 -> {0, 1}]
Byte == [more : BOOLEAN, bits : Group]
(* The bytes a caller has to reserve for one integer: 5 for 32 bits, 10    *)
(* for 64.                                                                 *)
MaxBytes == (Width + 6) \div 7

VARIABLES
  n,       (* the integer                                                  *)
  value2,  (* what is left of it in the size loop                          *)
  size,    (* `offset' of the size loop                                    *)
  value,   (* what is left of it in the write loop                         *)
  out,     (* the bytes written                                            *)
  pc       (* the loop that runs: "size", "write", then "done"             *)

vars == <<n, value2, size, value, out, pc>>

------------------------------------------------------------------------------
(* Words. *)

(* A bit of an unsigned word: zero beyond its width. *)
Bit(a, i) == IF i \in Place THEN a[i] ELSE 0

ShiftLeft(a) == [i \in Place |-> IF i = 0 THEN 0 ELSE a[i - 1]]
ShiftRightSigned(a, k) ==
  [i \in Place |-> IF i + k \in Place THEN a[i + k] ELSE a[Width - 1]]
ShiftRightUnsigned(a, k) == [i \in Place |-> Bit(a, i + k)]
Xor(a, b) == [i \in Place |-> IF a[i] = b[i] THEN 0 ELSE 1]

(* "Note: the right-shift must be arithmetic". The slip is the other one.  *)
ZigZagLogical(a) == Xor(ShiftLeft(a), ShiftRightUnsigned(a, Shift))
ZigZag(a) == Xor(ShiftLeft(a), ShiftRightSigned(a, Shift))

(* (value & ~0x7F) == 0; the slip masks one bit too many. *)
FitsEight(a) == \A i \in Place : i >= 8 => a[i] = 0
FitsGroup(a) == \A i \in Place : i >= 7 => a[i] = 0

(* value & 0x7F, and value >> 7 of an unsigned word; the slip would shift  *)
(* a signed one.                                                           *)
LowGroup(a) == [i \in 0..6 |-> Bit(a, i)]
NextGroupsSigned(a) == ShiftRightSigned(a, 7)
NextGroups(a) == ShiftRightUnsigned(a, 7)

------------------------------------------------------------------------------
TypeOK ==
  /\ n \in Word /\ value2 \in Word /\ value \in Word
  /\ size \in 0..MaxBytes
  /\ out \in Seq(Byte) /\ Len(out) <= MaxBytes
  /\ pc \in {"size", "write", "done"}

Init ==
  /\ n \in Word
  /\ value2 = ZigZag(n)
  /\ size = 0
  /\ value = ZigZag(n)
  /\ out = <<>>
  /\ pc = "size"

(* sensocol_size_int32_encoded; the slip leaves before it counts. *)
SizeLoopEarly ==
  /\ pc = "size"
  /\ IF FitsGroup(value2)
       THEN pc' = "write" /\ UNCHANGED <<value2, size>>
       ELSE size' = size + 1 /\ value2' = NextGroups(value2) /\ UNCHANGED pc
  /\ UNCHANGED <<n, value, out>>

SizeLoop ==
  /\ pc = "size"
  /\ size' = size + 1
  /\ IF FitsGroup(value2)
       THEN pc' = "write" /\ UNCHANGED value2
       ELSE value2' = NextGroups(value2) /\ UNCHANGED pc
  /\ UNCHANGED <<n, value, out>>

(* write_raw_varint32, write_raw_varint64; the slip flags every byte. *)
WriteByteFlagged(more) ==
  out' = Append(out, [more |-> TRUE, bits |-> LowGroup(value)])
WriteByte(more) ==
  out' = Append(out, [more |-> more, bits |-> LowGroup(value)])

WriteLoop ==
  /\ pc = "write"
  /\ WriteByte(~FitsGroup(value))
  /\ IF FitsGroup(value)
       THEN pc' = "done" /\ UNCHANGED value
       ELSE value' = NextGroups(value) /\ UNCHANGED pc
  /\ UNCHANGED <<n, value2, size>>

Next == SizeLoop \/ WriteLoop

Spec == Init /\ [][Next]_vars

------------------------------------------------------------------------------
(* The decoder, after the encoding the README refers to.                   *)

Groups(bytes) ==
  [i \in Place |-> IF i \div 7 < Len(bytes) THEN bytes[i \div 7 + 1].bits[i % 7]
                                            ELSE 0]
UnZigZag(a) ==
  [i \in Place |-> IF Bit(a, i + 1) = a[0] THEN 0 ELSE 1]

(* The integers the operation is for: Shift + 1 bits, sign-extended. *)
InRange(a) == \A i \in Place : i >= Shift => a[i] = a[Shift]

------------------------------------------------------------------------------
(* What must hold.                                                         *)

(* Decoding what sensocol_write_long wrote gives the integer back, for any *)
(* integer of Shift + 1 bits, on a platform whose word has that width or a *)
(* greater one.                                                            *)
RoundTrip == pc = "done" /\ InRange(n) => UnZigZag(Groups(out)) = n

(* A reader that stops at the first byte without the flag stops at the end *)
(* of this integer, neither inside it nor in the next one.                 *)
SelfDelimiting ==
  pc = "done" => /\ out # <<>>
                 /\ \A i \in 1..Len(out) : out[i].more <=> i < Len(out)

(* sensocol_size_int32_encoded announces, in the Size field of a packet,   *)
(* the number of bytes write_raw_varint32 then writes.                     *)
SizeAgrees == pc = "done" => size = Len(out)

(* An integer of Shift + 1 bits takes the bytes of Shift + 1 bits (5 for   *)
(* 32), negative or not and however wide the word is: the buffers of the   *)
(* callers are counted in them.                                            *)
Compact == pc = "done" /\ InRange(n) => 7 * (Len(out) - 1) <= Shift
==============================================================================
