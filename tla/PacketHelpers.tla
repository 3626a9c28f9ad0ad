--------------------------- MODULE PacketHelpers ---------------------------
(***************************************************************************)
(* helpers.c: the pieces the MQTT packets are made of, over sequences of   *)
(* bytes.  A pointer into a buffer is a position in the sequence, and the  *)
(* end of the buffer is the sequence's length.  The variable length        *)
(* numbers count to Base, which is 128 in the code, with at most MaxLen    *)
(* bytes; a small Base gives short packets long length fields.             *)
(***************************************************************************)
EXTENDS Integers, SequencesExt, FiniteSetsExt

CONSTANTS
  Base,     \* 128: the top bit of a byte of a variable length number
  MaxLen    \* 4: the most bytes it has

ASSUME HelpersAssumption ==
  /\ Base \in 2..128
  /\ MaxLen \in Nat \ {0}

Bytes == 0..255

\* uint16_t
Words == 0..(2^16 - 1)

\* lwmqtt_err_t, as far as packets are concerned
Success == "SUCCESS"
TooShort == "BUFFER_TOO_SHORT"
VarnumOverflow == "VARNUM_OVERFLOW"
LengthOverflow == "REMAINING_LENGTH_OVERFLOW"
LengthMismatch == "REMAINING_LENGTH_MISMATCH"
WrongPacket == "MISSING_OR_WRONG_PACKET"
SubackOverflow == "SUBACK_ARRAY_OVERFLOW"

PacketErrors == {Success, TooShort, VarnumOverflow, LengthOverflow,
                 LengthMismatch, WrongPacket, SubackOverflow}

-----------------------------------------------------------------------------
(* Writing                                                                 *)

\* A value in the bits of a byte from pos on.
WriteBits(value, pos) == value * 2^pos

\* A two byte number.
Num(n) == <<n \div 256, n % 256>>

\* A string: its length, then its data.
Str(s) == <<Num(Len(s)), s>>

\* The powers of Base: the limits of lwmqtt_varnum_length.
Power[k \in 0..MaxLen] == IF k = 0 THEN 1 ELSE Base * Power[k - 1]

\* The number of bytes of a variable length number, 0 if it has too many.
VarnumLength(n) ==
  LET enough == {k \in 1..MaxLen : n < Power[k]} IN
    IF enough = {} THEN 0 ELSE Min(enough)

\* A variable length number: the lowest digit comes first, and each byte says
\* whether there is anything left of the number.
VarnumBytes(n) ==
  LET left[k \in 0..MaxLen] == IF k = 0 THEN n ELSE left[k - 1] \div Base
      last == Min({k \in 1..MaxLen : left[k] = 0})
  IN [k \in 1..last |-> (left[k - 1] % Base) + (IF left[k] > 0 THEN Base ELSE 0)]

\* The fields are written one after the other; if one finds no room, nothing of
\* them counts.
Write(fields, room) ==
  LET bytes == FlattenSeq(fields) IN
    IF Len(bytes) <= room THEN [err |-> Success, bytes |-> bytes]
                          ELSE [err |-> TooShort, bytes |-> <<>>]

-----------------------------------------------------------------------------
(* Reading                                                                 *)

ReadBits(byte, pos, num) == (byte \div 2^pos) % 2^num

\* The bytes of buf from position `at` on.
Left(buf, at) == Len(buf) - at + 1

ReadNum(buf, at) == 256 * buf[at] + buf[at + 1]

\* The digit of a byte of a variable length number, and whether more follow.
Digit(byte) == byte % Base
More(byte) == (byte \div Base) % 2 = 1

\* The number that has these digits, the lowest first.
NumberOf(digits) ==
  LET ofLast[k \in 0..Len(digits)] ==
        IF k = 0 THEN 0 ELSE digits[Len(digits) - k + 1] + Base * ofLast[k - 1]
  IN ofLast[Len(digits)]

\* The variable length number at `at`, and the position behind it.
ReadVarnum(buf, at) ==
  LET last == {k \in 1..Min({MaxLen, Left(buf, at)}) : ~More(buf[at + k - 1])}
      digits(len) == [k \in 1..len |-> Digit(buf[at + k - 1])]
  IN IF last # {}
       THEN [err |-> Success, value |-> NumberOf(digits(Min(last))), next |-> at + Min(last)]
       ELSE [err |-> IF Left(buf, at) <= MaxLen THEN TooShort ELSE VarnumOverflow,
             value |-> 0, next |-> at]

=============================================================================
