------------------------------ MODULE ItiFormat -----------------------------
(***************************************************************************)
(* The bytes of an ITI record (gateware/iti.py): a header with the type,   *)
(* the number of time bytes and the low 4 bits of the time increment, up   *)
(* to 3 bytes with the rest of it, and the payload, which the overflow     *)
(* record has not. The time bytes are as few as the increment allows.      *)
(***************************************************************************)
EXTENDS Integers, Sequences

Byte == 0 .. 255
MaxDiff == 268435455              \* 2^28 - 1, the largest time increment

TypeCode == [NONE |-> 0, EVENT |-> 1, DATA |-> 2, RXCMD |-> 3]

Timed == [type : {"EVENT", "DATA", "RXCMD"}, diff : 0 .. MaxDiff, payload : Byte]
Overflow == [type |-> "NONE", diff |-> MaxDiff, payload |-> 0]
Record == Timed \cup {Overflow}

(* ITITime.len: bytes beyond the header that the increment needs. *)
TimeLenLate(diff) ==                                            \* mutant
  IF diff > 1048576 THEN 3 ELSE IF diff > 4096 THEN 2 ELSE IF diff > 16 THEN 1 ELSE 0
TimeLen(diff) ==
  IF diff > 1048575 THEN 3 ELSE IF diff > 4095 THEN 2 ELSE IF diff > 15 THEN 1 ELSE 0

Header(r) == (r.diff % 16) + 16 * TimeLen(r.diff) + 64 * TypeCode[r.type]

(* Bits 4 to 11, 12 to 19 and 20 to 27 of the increment. *)
TimeByte(diff, k) ==
  CASE k = 1 -> (diff \div 16) % 256
    [] k = 2 -> (diff \div 4096) % 256
    [] k = 3 -> (diff \div 1048576) % 256

RecordLen(r) == TimeLen(r.diff) + IF r.type = "NONE" THEN 1 ELSE 2

Encode(r) ==
  [i \in 1 .. RecordLen(r) |->
     IF i = 1 THEN Header(r)
     ELSE IF i <= 1 + TimeLen(r.diff) THEN TimeByte(r.diff, i - 1)
     ELSE r.payload]

(* ITICore's mark in the stream: ITIPattern(0xe00050, 3, 4). It has the    *)
(* form of an EVENT record with one time byte, of an increment that would  *)
(* need none.                                                              *)
Piece == <<80, 0, 224>>
RepeatOnce == 1                                                 \* mutant
Repeat == 4

-----------------------------------------------------------------------------
(* A reader of the stream: the header tells how many bytes follow.         *)
HeaderLen(h) == ((h \div 16) % 4) + IF h \div 64 = 0 THEN 1 ELSE 2

TypeOf(b) == CHOOSE t \in DOMAIN TypeCode : TypeCode[t] = b[1] \div 64

DiffOf(b) ==
  LET n == (b[1] \div 16) % 4
  IN  (b[1] % 16) + (IF n > 0 THEN 16 * b[2] ELSE 0)
                  + (IF n > 1 THEN 4096 * b[3] ELSE 0)
                  + (IF n > 2 THEN 1048576 * b[4] ELSE 0)

PayloadOf(b) == IF b[1] \div 64 = 0 THEN 0 ELSE b[((b[1] \div 16) % 4) + 2]

Decode(b) == [type |-> TypeOf(b), diff |-> DiffOf(b), payload |-> PayloadOf(b)]

(* What a record loses on its way through the bytes: nothing. *)
Readable(r) == HeaderLen(Encode(r)[1]) = Len(Encode(r)) /\ Decode(Encode(r)) = r
=============================================================================
