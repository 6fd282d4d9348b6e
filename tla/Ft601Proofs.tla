----------------------------- MODULE Ft601Proofs -----------------------------
(***************************************************************************)
(* FT601Sync for every depth of its FIFOs and every length of a burst: its *)
(* types, and that it keeps the words of both directions whatever the chip *)
(* does with txe and rxf, outside the cases TxKept and RxKept except.      *)
(***************************************************************************)
EXTENDS Ft601, SequenceTheorems, TLAPS

(* A burst counts only while the other side waits, from 0.                 *)
Burst ==
  /\ state = "WRITE" => cntWrite <= Timeout + 1
  /\ state = "READ" => cntRead <= Timeout + 1
  /\ state = "WRITE" /\ firstWrite => cntWrite = 0

(* The pads carry the last word taken from write_fifo from the second      *)
(* cycle of a write burst on, and nothing when a read waits; a word to be  *)
(* tried again is never on the pads too.                                   *)
WriteSide ==
  /\ state = "WRITE" /\ tosend => firstWrite
  /\ tosend => ~pads.wr
  /\ pads.wr => \/ state = "WRITE" /\ ~firstWrite /\ pads.data = sendval
                \/ state = "RDWAIT" /\ pads.data = Junk
  /\ state = "WRITE" /\ ~firstWrite => pads.wr

(* In a read burst the chip drives the bus and is asked for words, and     *)
(* none that read_buffer refused waits: a burst begins without one.        *)
ReadSide ==
  /\ state = "READ" => pads.rd /\ pads.oe
  /\ pads.rd => state \in {"READ", "WRITE"}
  /\ state \in {"READ", "RDWAIT"} => ~toread
  /\ state = "WRITE" /\ cntWrite > 0 => ~toread

IInv == TypeOK /\ Burst /\ WriteSide /\ ReadSide

USE TimeoutAssumption, DepthAssumption, TagsAssumption, JunkAssumption

-----------------------------------------------------------------------------
(* A word that joins a queue behind others leaves after them.              *)
LEMMA HeadOfConcat ==
  ASSUME NEW S, NEW s \in Seq(S), NEW t \in Seq(S), s # << >>
  PROVE  /\ s \o t # << >> /\ Head(s \o t) = Head(s)
         /\ Tail(s \o t) = Tail(s) \o t
  <1>1. Len(s) \in Nat /\ Len(s) > 0 /\ Len(t) \in Nat
    BY EmptySeq, LenProperties
  <1>2. s \o t \in Seq(S) /\ Len(s \o t) = Len(s) + Len(t)
        /\ \A i \in 1 .. Len(s) + Len(t) :
             (s \o t)[i] = IF i <= Len(s) THEN s[i] ELSE t[i - Len(s)]
    BY ConcatProperties
  <1>3. s \o t # << >>
    BY <1>1, <1>2, EmptySeq
  <1>4. Head(s \o t) = Head(s)
    BY <1>1, <1>2, <1>3, HeadTailProperties
  <1>5. /\ Tail(s) \in Seq(S) /\ Len(Tail(s)) = Len(s) - 1
        /\ \A i \in 1 .. Len(Tail(s)) : Tail(s)[i] = s[i + 1]
    BY HeadTailProperties
  <1>6. /\ Tail(s \o t) \in Seq(S) /\ Len(Tail(s \o t)) = Len(s) + Len(t) - 1
        /\ \A i \in 1 .. Len(Tail(s \o t)) : Tail(s \o t)[i] = (s \o t)[i + 1]
    BY <1>2, <1>3, HeadTailProperties
  <1>7. /\ Tail(s) \o t \in Seq(S) /\ Len(Tail(s) \o t) = Len(s) - 1 + Len(t)
        /\ \A i \in 1 .. Len(s) - 1 + Len(t) :
             (Tail(s) \o t)[i] = IF i <= Len(s) - 1 THEN Tail(s)[i] ELSE t[i - (Len(s) - 1)]
    BY <1>5, ConcatProperties
  <1>8. \A i \in 1 .. Len(s) + Len(t) - 1 : Tail(s \o t)[i] = (Tail(s) \o t)[i]
    BY <1>1, <1>2, <1>5, <1>6, <1>7
  <1>9. Tail(s \o t) = Tail(s) \o t
    BY <1>1, <1>6, <1>7, <1>8, SeqEqual
  <1> QED
    BY <1>3, <1>4, <1>9

(* After reset nothing is driven and nothing is kept. *)
LEMMA InitIInv == Init => IInv
  <1> SUFFICES ASSUME Init PROVE IInv
    OBVIOUS
  <1>1. pads \in [wr : BOOLEAN, rd : BOOLEAN, oe : BOOLEAN, data : Word \cup {Junk}]
        /\ pads.wr = FALSE /\ pads.rd = FALSE
    BY DEF Init, Quiet, Driven
  <1>2. writeFifo = << >> /\ readBuffer = << >> /\ << >> \in Seq(Word) /\ Len(<< >>) = 0
    BY EmptySeq DEF Init
  <1>3. TypeOK
    <2>1. 0 \in Word /\ Tags - 1 \in Word
      BY DEF Word
    <2>2. 0 \in 0 .. Timeout + 2 /\ 0 <= WriteDepth /\ 0 <= ReadDepth
      OBVIOUS
    <2> QED
      BY <1>1, <1>2, <2>1, <2>2 DEF Init, TypeOK
  <1>4. Burst /\ WriteSide /\ ReadSide
    BY <1>1 DEF Init, Burst, WriteSide, ReadSide
  <1> QED
    BY <1>3, <1>4 DEF IInv

(* The two FIFOs keep to their depths. *)
LEMMA FifoStep ==
  ASSUME IInv, NEW put \in BOOLEAN, NEW drain \in BOOLEAN, Cycle(put, drain)
  PROVE  /\ writeFifo' \in Seq(Word) /\ Len(writeFifo') <= WriteDepth /\ in' \in Word
         /\ readBuffer' \in Seq(Word) /\ Len(readBuffer') <= ReadDepth
         /\ rout' \in Word /\ readval' \in Word
  <1>1. /\ writeFifo \in Seq(Word) /\ Len(writeFifo) <= WriteDepth /\ in \in Word
        /\ readBuffer \in Seq(Word) /\ Len(readBuffer) <= ReadDepth
        /\ rout \in Word /\ readval \in Word /\ rin \in Word
        /\ Len(writeFifo) \in Nat /\ Len(readBuffer) \in Nat
    BY LenProperties DEF IInv, TypeOK
  <1>2. /\ writeFifo' \in Seq(Word) /\ Len(writeFifo') <= WriteDepth /\ in' \in Word
    <2> DEFINE left == IF Pops THEN Tail(writeFifo) ELSE writeFifo
    <2>1. left \in Seq(Word) /\ Len(left) \in Nat /\ Len(left) <= Len(writeFifo)
      BY <1>1, HeadTailProperties DEF Pops
    <2>2. CASE put /\ Len(writeFifo) < WriteDepth
      <3>1. in' = (in + 1) % Tags /\ writeFifo' = Append(left, in')
        BY <2>2 DEF Cycle, WriteFifoSync
      <3>2. in' \in Word
        BY <1>1, <3>1 DEF Word
      <3>3. writeFifo' \in Seq(Word) /\ Len(writeFifo') = Len(left) + 1
        BY <2>1, <3>1, <3>2, AppendProperties
      <3> QED
        BY <1>1, <2>1, <2>2, <3>2, <3>3
    <2>3. CASE ~(put /\ Len(writeFifo) < WriteDepth)
      <3>1. in' = in /\ writeFifo' = left
        BY <2>3 DEF Cycle, WriteFifoSync
      <3> QED
        BY <1>1, <2>1, <3>1
    <2> QED
      BY <2>2, <2>3
  <1>3. Stores => DataR \in Word
    BY <1>1 DEF Stores, DataR, IInv, ReadSide, Word
  <1>4. readval' \in Word
    BY <1>1, <1>3 DEF Cycle, ReadBufferSync
  <1>5. /\ readBuffer' \in Seq(Word) /\ Len(readBuffer') <= ReadDepth /\ rout' \in Word
    <2> DEFINE left == IF drain /\ readBuffer # << >> THEN Tail(readBuffer) ELSE readBuffer
               room == Len(readBuffer) < ReadDepth
    <2>1. left \in Seq(Word) /\ Len(left) \in Nat /\ Len(left) <= Len(readBuffer)
      BY <1>1, HeadTailProperties
    <2>2. rout' \in Word
      BY <1>1, HeadTailProperties DEF Cycle, ReadBufferSync
    <2>3. \/ readBuffer' = left
          \/ room /\ \E w \in Word : readBuffer' = Append(left, w)
      <3>1. /\ Stores /\ room => readBuffer' = Append(left, DataR)
            /\ ~(Stores /\ room) /\ state # "READ" /\ toread /\ room
                 => readBuffer' = Append(left, readval)
            /\ ~(Stores /\ room) /\ ~(state # "READ" /\ toread /\ room)
                 => readBuffer' = left
        <4>1. ReadBufferSync(drain)
          BY DEF Cycle
        <4>2. readBuffer' = CASE Stores /\ room -> Append(left, DataR)
                              [] state # "READ" /\ toread /\ room -> Append(left, readval)
                              [] OTHER -> left
          BY <4>1, Zenon DEF ReadBufferSync
        <4> HIDE DEF left, room
        <4>3. Stores => state = "READ"
          BY DEF Stores
        <4> HIDE DEF Stores
        <4>4. Stores /\ room => readBuffer' = Append(left, DataR)
          BY <4>2, <4>3
        <4>5. ~(Stores /\ room) /\ state # "READ" /\ toread /\ room
                => readBuffer' = Append(left, readval)
          BY <4>2
        <4>6. ~(Stores /\ room) /\ ~(state # "READ" /\ toread /\ room)
                => readBuffer' = left
          BY <4>2
        <4> QED
          BY <4>4, <4>5, <4>6
      <3>2. readval \in Word
        BY <1>1
      <3> HIDE DEF left, room
      <3>3. CASE Stores /\ room
        <4>1. readBuffer' = Append(left, DataR) /\ DataR \in Word
          BY <1>3, <3>1, <3>3, Zenon
        <4> QED
          BY <3>3, <4>1
      <3>4. CASE ~(Stores /\ room) /\ state # "READ" /\ toread /\ room
        BY <3>1, <3>2, <3>4
      <3>5. CASE ~(Stores /\ room) /\ ~(state # "READ" /\ toread /\ room)
        BY <3>1, <3>5
      <3> QED
        BY <3>3, <3>4, <3>5
    <2>4. CASE readBuffer' = left
      BY <1>1, <2>1, <2>2, <2>4
    <2>5. ASSUME NEW w \in Word, room, readBuffer' = Append(left, w)
          PROVE  readBuffer' \in Seq(Word) /\ Len(readBuffer') <= ReadDepth
      BY <1>1, <2>1, <2>5, AppendProperties
    <2> QED
      BY <2>2, <2>3, <2>4, <2>5
  <1> QED
    BY <1>2, <1>4, <1>5

(* What the chip does to its own registers, and what it samples.           *)
LEMMA ChipStep ==
  ASSUME IInv, ChipSync
  PROVE  /\ txe' \in BOOLEAN /\ rxf' \in BOOLEAN /\ out' \in Word /\ rin' \in Word
         /\ out' = IF pads.wr /\ txe /\ ~pads'.oe /\ pads.data # Junk THEN pads.data ELSE out
         /\ Stores => rin' = (rin + 1) % Tags
         /\ ~pads.rd \/ ~rxf => rin' = rin
  <1>1. /\ txe \in BOOLEAN /\ rxf \in BOOLEAN /\ out \in Word /\ rin \in Word
        /\ pads \in [wr : BOOLEAN, rd : BOOLEAN, oe : BOOLEAN, data : Word \cup {Junk}]
    BY DEF IInv, TypeOK
  <1>2. txe' \in BOOLEAN
    BY DEF ChipSync
  <1>3. out' = IF pads.wr /\ txe /\ ~pads'.oe /\ pads.data # Junk THEN pads.data ELSE out
    BY DEF ChipSync, Takes, Sampled
  <1>4. out' \in Word
    BY <1>1, <1>3
  <1>5. PICK gives \in (IF pads.rd /\ rxf THEN (IF pads.oe THEN {TRUE} ELSE BOOLEAN)
                                          ELSE {FALSE}) :
          /\ rin' = IF gives THEN (rin + 1) % Tags ELSE rin
          /\ rxf' \in (IF rxf /\ ~gives THEN {TRUE} ELSE BOOLEAN)
    BY DEF ChipSync
  <1>6. rxf' \in BOOLEAN
    BY <1>5
  <1>7. rin' \in Word
    BY <1>1, <1>5 DEF Word
  <1>8. Stores => rin' = (rin + 1) % Tags
    <2>1. Stores => pads.rd /\ rxf /\ pads.oe
      BY DEF Stores, IInv, ReadSide
    <2> QED
      BY <1>5, <2>1
  <1>9. ~pads.rd \/ ~rxf => rin' = rin
    BY <1>5
  <1> QED
    BY <1>2, <1>3, <1>4, <1>6, <1>7, <1>8, <1>9

Pads == [wr : BOOLEAN, rd : BOOLEAN, oe : BOOLEAN, data : Word \cup {Junk}]

(* What the FSM drives has the type of the pads. *)
LEMMA DrivenType ==
  ASSUME NEW wr \in BOOLEAN, NEW rd \in BOOLEAN, NEW oe \in BOOLEAN,
         NEW data \in Word \cup {Junk}
  PROVE  /\ Driven(wr, rd, oe, data) \in Pads
         /\ Driven(wr, rd, oe, data).wr = wr /\ Driven(wr, rd, oe, data).rd = rd
         /\ Driven(wr, rd, oe, data).oe = oe /\ Driven(wr, rd, oe, data).data = data
  BY DEF Driven, Pads

(* The registers of the FSM, and when a refused word waits.                *)
FsmType == /\ state \in {"IDLE", "WRITE", "RDWAIT", "READ"}
           /\ cntWrite \in 0 .. Timeout + 2 /\ cntRead \in 0 .. Timeout + 2
           /\ firstWrite \in BOOLEAN /\ tosend \in BOOLEAN /\ sendval \in Word
           /\ pads \in Pads

(* A word that read_buffer refuses comes only from a word of the bus.      *)
LEMMA RefusedStep ==
  ASSUME IInv, NEW drain \in BOOLEAN, ReadBufferSync(drain)
  PROVE  /\ toread' \in BOOLEAN
         /\ ~toread /\ ~Stores => ~toread'
         /\ ~toread /\ Stores /\ Len(readBuffer) < ReadDepth => ~toread'
  <1>1. toread' = ((Stores /\ ~(Len(readBuffer) < ReadDepth))
                     \/ (toread /\ ~(state # "READ" /\ Len(readBuffer) < ReadDepth)))
    BY DEF ReadBufferSync
  <1>2. toread' \in BOOLEAN
    BY <1>1
  <1>3. ~toread /\ ~Stores => ~toread'
    BY <1>1, Zenon
  <1>4. ~toread /\ Stores /\ Len(readBuffer) < ReadDepth => ~toread'
    BY <1>1, Zenon
  <1> QED
    BY <1>2, <1>3, <1>4

(* Each state of the FSM keeps the types and the three invariants of the   *)
(* bursts.                                                                 *)
LEMMA FsmStep ==
  ASSUME IInv, NEW put \in BOOLEAN, NEW drain \in BOOLEAN, Cycle(put, drain)
  PROVE  FsmType' /\ Burst' /\ WriteSide' /\ ReadSide'
  <1>1. /\ state \in {"IDLE", "WRITE", "RDWAIT", "READ"}
        /\ cntWrite \in 0 .. Timeout + 2 /\ cntRead \in 0 .. Timeout + 2
        /\ firstWrite \in BOOLEAN /\ tosend \in BOOLEAN /\ sendval \in Word
        /\ toread \in BOOLEAN /\ rxf \in BOOLEAN /\ txe \in BOOLEAN
    BY DEF IInv, TypeOK
  <1>2. Burst /\ WriteSide /\ ReadSide
    BY DEF IInv
  <1>3. /\ ~toread /\ ~Stores => ~toread'
        /\ ~toread /\ Stores /\ Len(readBuffer) < ReadDepth => ~toread'
    BY RefusedStep DEF Cycle
  <1>4. WantsRead \in BOOLEAN
        /\ FALSE \in BOOLEAN /\ TRUE \in BOOLEAN /\ Junk \in Word \cup {Junk}
        /\ sendval \in Word \cup {Junk}
    BY <1>1 DEF WantsRead
  <1>0. 0 \in 0 .. Timeout + 2 /\ 0 <= Timeout + 1 /\ ~(0 > 0)
    OBVIOUS
  <1>5. CASE Idle
    <2>1. cntRead' = cntRead /\ tosend' = tosend /\ sendval' = sendval /\ state = "IDLE"
      BY <1>5 DEF Idle
    <2>2. ~Stores
      BY <2>1 DEF Stores
    <2>3. CASE WantsWrite
      <3>1. /\ state' = "WRITE" /\ cntWrite' = 0 /\ firstWrite' = TRUE
            /\ pads' = Driven(FALSE, FALSE, FALSE, Junk)
        BY <1>5, <2>3 DEF Idle, Quiet
      <3>2. pads' \in Pads /\ ~pads'.wr /\ ~pads'.rd
        BY <1>4, <3>1, DrivenType
      <3>3. FsmType'
        BY <1>1, <1>0, <2>1, <3>1, <3>2 DEF FsmType
      <3> QED
        BY <1>0, <2>1, <3>1, <3>2, <3>3 DEF Burst, WriteSide, ReadSide
    <2>4. CASE ~WantsWrite
      <3>1. /\ state' = IF WantsRead THEN "RDWAIT" ELSE "IDLE"
            /\ pads' = Driven(FALSE, FALSE, WantsRead, Junk)
            /\ cntWrite' = cntWrite /\ firstWrite' = firstWrite
        BY <1>5, <2>4 DEF Idle
      <3>2. pads' \in Pads /\ ~pads'.wr /\ ~pads'.rd
        BY <1>4, <3>1, DrivenType
      <3>3. state' = "RDWAIT" => ~toread'
        BY <1>3, <2>2, <3>1 DEF WantsRead
      <3>4. state' \in {"RDWAIT", "IDLE"}
        BY <3>1
      <3> QED
        BY <1>1, <1>2, <2>1, <3>1, <3>2, <3>3, <3>4
           DEF FsmType, Burst, WriteSide, ReadSide
    <2> QED
      BY <2>3, <2>4
  <1>6. CASE Write
    <2>1. /\ state = "WRITE" /\ ~Stores /\ cntRead' = cntRead /\ firstWrite' = FALSE
          /\ cntWrite' = IF WantsRead THEN cntWrite + 1 ELSE cntWrite
          /\ cntWrite <= Timeout + 1
      BY <1>2, <1>6 DEF Write, Stores, Burst
    <2>2. cntWrite' \in 0 .. Timeout + 2 /\ (cntWrite <= Timeout => cntWrite' <= Timeout + 1)
      BY <1>1, <2>1
    <2>3. cntWrite' > 0 => ~toread'
      <3>1. cntWrite' > 0 => cntWrite > 0 \/ WantsRead
        BY <2>1
      <3> QED
        BY <1>2, <1>3, <2>1, <3>1 DEF ReadSide, WantsRead
    <2>4. CASE Refused
      <3>1. /\ pads' = Driven(FALSE, FALSE, FALSE, Junk)
            /\ state' = "IDLE" /\ sendval' = sendval
        BY <2>4 DEF Refused, Quiet
      <3>2. tosend' \in BOOLEAN
        BY <1>1, <2>4 DEF Refused
      <3>3. pads' \in Pads /\ ~pads'.wr /\ ~pads'.rd
        BY <1>4, <3>1, DrivenType
      <3> QED
        BY <1>1, <2>1, <2>2, <3>1, <3>2, <3>3 DEF FsmType, Burst, WriteSide, ReadSide
    <2>5. CASE Resend
      <3>1. /\ pads' = Driven(TRUE, FALSE, FALSE, sendval)
            /\ tosend' = FALSE /\ state' = state /\ sendval' = sendval /\ tosend
        BY <2>5 DEF Resend
      <3>2. pads' \in Pads /\ pads'.wr /\ ~pads'.rd /\ pads'.data = sendval
        BY <1>4, <3>1, DrivenType
      <3>3. cntWrite' <= Timeout + 1
        BY <1>2, <2>1, <2>2, <3>1 DEF WriteSide, Burst
      <3> QED
        BY <1>1, <2>1, <2>2, <2>3, <3>1, <3>2, <3>3 DEF FsmType, Burst, WriteSide, ReadSide
    <2>6. CASE Yield
      <3>1. /\ pads' = Driven(TRUE, FALSE, TRUE, Junk)
            /\ state' = "RDWAIT" /\ tosend' = tosend /\ sendval' = sendval
            /\ ~tosend /\ cntWrite > Timeout
        BY <2>6 DEF Yield, Yields
      <3>2. pads' \in Pads /\ ~pads'.rd /\ pads'.data = Junk
        BY <1>4, <3>1, DrivenType
      <3>3. ~toread'
        BY <1>1, <1>2, <1>3, <2>1, <3>1 DEF ReadSide
      <3> QED
        BY <1>1, <2>1, <2>2, <3>1, <3>2, <3>3 DEF FsmType, Burst, WriteSide, ReadSide
    <2>7. CASE Send
      <3>1. /\ pads' = Driven(TRUE, FALSE, FALSE, Head(writeFifo))
            /\ sendval' = Head(writeFifo) /\ state' = state /\ tosend' = tosend
            /\ ~tosend /\ cntWrite <= Timeout
        BY <2>7 DEF Send, Pops
      <3>2. Head(writeFifo) \in Word
        BY <2>7, HeadTailProperties DEF Send, Pops, IInv, TypeOK
      <3>3. pads' \in Pads /\ pads'.wr /\ ~pads'.rd /\ pads'.data = sendval'
        BY <1>4, <3>1, <3>2, DrivenType
      <3> QED
        BY <1>1, <2>1, <2>2, <2>3, <3>1, <3>2, <3>3 DEF FsmType, Burst, WriteSide, ReadSide
    <2>8. CASE Stop
      <3>1. /\ pads' = Driven(FALSE, FALSE, FALSE, Junk)
            /\ state' = "IDLE" /\ tosend' = tosend /\ sendval' = sendval
        BY <2>8 DEF Stop, Quiet
      <3>2. pads' \in Pads /\ ~pads'.wr /\ ~pads'.rd
        BY <1>4, <3>1, DrivenType
      <3> QED
        BY <1>1, <2>1, <2>2, <3>1, <3>2 DEF FsmType, Burst, WriteSide, ReadSide
    <2> QED
      BY <1>6, <2>4, <2>5, <2>6, <2>7, <2>8 DEF Write
  <1>7. CASE ReadWait
    <2>1. /\ state = "RDWAIT" /\ ~Stores /\ state' = "READ" /\ cntRead' = 0
          /\ pads' = Driven(FALSE, TRUE, TRUE, Junk)
          /\ cntWrite' = cntWrite /\ firstWrite' = firstWrite
          /\ tosend' = tosend /\ sendval' = sendval
      BY <1>7 DEF ReadWait, Stores
    <2>2. pads' \in Pads /\ ~pads'.wr /\ pads'.rd /\ pads'.oe
      BY <1>4, <2>1, DrivenType
    <2>3. ~toread'
      BY <1>2, <1>3, <2>1 DEF ReadSide
    <2>4. FsmType'
      BY <1>1, <1>0, <2>1, <2>2 DEF FsmType
    <2> QED
      BY <1>2, <1>0, <2>1, <2>2, <2>3, <2>4 DEF Burst, WriteSide, ReadSide
  <1>8. CASE Read
    <2>1. /\ state = "READ" /\ ~toread /\ tosend' = tosend /\ sendval' = sendval
          /\ cntRead' = IF WantsWrite THEN cntRead + 1 ELSE cntRead
          /\ cntRead <= Timeout + 1
      BY <1>2, <1>8 DEF Read, Burst, ReadSide
    <2>2. cntRead' \in 0 .. Timeout + 2 /\ (cntRead <= Timeout => cntRead' <= Timeout + 1)
      BY <1>1, <2>1
    <2>3. CASE ReadDone
      <3>1. /\ state' = "IDLE" /\ pads' = Driven(FALSE, FALSE, TRUE, Junk)
            /\ cntWrite' = cntWrite /\ firstWrite' = firstWrite
        BY <2>3 DEF ReadDone
      <3>2. pads' \in Pads /\ ~pads'.wr /\ ~pads'.rd
        BY <1>4, <3>1, DrivenType
      <3> QED
        BY <1>1, <2>1, <2>2, <3>1, <3>2 DEF FsmType, Burst, WriteSide, ReadSide
    <2>4. CASE ReadYield
      <3>1. /\ state' = "WRITE" /\ cntWrite' = 0 /\ firstWrite' = TRUE
            /\ pads' = Driven(FALSE, TRUE, FALSE, Junk)
        BY <2>4 DEF ReadYield
      <3>2. pads' \in Pads /\ ~pads'.wr
        BY <1>4, <3>1, DrivenType
      <3>3. FsmType'
        BY <1>1, <1>0, <2>1, <2>2, <3>1, <3>2 DEF FsmType
      <3> QED
        BY <1>0, <2>1, <3>1, <3>2, <3>3 DEF Burst, WriteSide, ReadSide
    <2>5. CASE ReadWord
      <3>1. /\ Stores /\ cntRead <= Timeout
            /\ state' = IF Len(readBuffer) < ReadDepth THEN "READ" ELSE "IDLE"
            /\ pads' = Driven(FALSE, Len(readBuffer) < ReadDepth, TRUE, Junk)
            /\ cntWrite' = cntWrite /\ firstWrite' = firstWrite
        BY <2>5 DEF ReadWord, Stores
      <3>2. CASE Len(readBuffer) < ReadDepth
        <4>1. pads' = Driven(FALSE, TRUE, TRUE, Junk) /\ state' = "READ" /\ ~toread'
          BY <1>3, <2>1, <3>1, <3>2
        <4>2. pads' \in Pads /\ ~pads'.wr /\ pads'.rd /\ pads'.oe
          BY <1>4, <4>1, DrivenType
        <4> QED
          BY <1>1, <2>1, <2>2, <3>1, <4>1, <4>2 DEF FsmType, Burst, WriteSide, ReadSide
      <3>3. CASE ~(Len(readBuffer) < ReadDepth)
        <4>1. pads' = Driven(FALSE, FALSE, TRUE, Junk)
          <5>1. (Len(readBuffer) < ReadDepth) = FALSE
            BY <3>3
          <5> QED
            BY <3>1, <5>1
        <4>2. pads' \in Pads /\ ~pads'.wr /\ ~pads'.rd
          BY <1>4, <4>1, DrivenType
        <4>3. state' = "IDLE"
          BY <3>1, <3>3
        <4> QED
          BY <1>1, <2>1, <2>2, <3>1, <4>2, <4>3 DEF FsmType, Burst, WriteSide, ReadSide
      <3> QED
        BY <3>2, <3>3
    <2> QED
      BY <1>8, <2>3, <2>4, <2>5 DEF Read
  <1> QED
    BY <1>5, <1>6, <1>7, <1>8 DEF Cycle

(* Every cycle, and a stutter, keep the invariant. *)
LEMMA NextIInv == IInv /\ [Next]_vars => IInv'
  <1> SUFFICES ASSUME IInv, [Next]_vars PROVE IInv'
    OBVIOUS
  <1>1. ASSUME NEW put \in BOOLEAN, NEW drain \in BOOLEAN, Cycle(put, drain)
        PROVE  IInv'
    <2>1. FsmType' /\ Burst' /\ WriteSide' /\ ReadSide'
      BY <1>1, FsmStep
    <2>2. /\ writeFifo' \in Seq(Word) /\ Len(writeFifo') <= WriteDepth /\ in' \in Word
          /\ readBuffer' \in Seq(Word) /\ Len(readBuffer') <= ReadDepth
          /\ rout' \in Word /\ readval' \in Word
      BY <1>1, FifoStep
    <2>3. txe' \in BOOLEAN /\ rxf' \in BOOLEAN /\ out' \in Word /\ rin' \in Word
      BY <1>1, ChipStep DEF Cycle
    <2>4. toread' \in BOOLEAN
      BY <1>1, RefusedStep DEF Cycle
    <2>5. TypeOK'
      BY <2>1, <2>2, <2>3, <2>4 DEF TypeOK, FsmType, Pads
    <2> QED
      BY <2>1, <2>5 DEF IInv
  <1>2. CASE UNCHANGED vars
    BY <1>2 DEF vars, coreVars, IInv, TypeOK, Burst, WriteSide, ReadSide, Word
  <1> QED
    BY <1>1, <1>2 DEF Next

(* The invariant holds for every timeout and every depth of the FIFOs.     *)
THEOREM Invariance == Spec => []IInv
  <1>1. Init => IInv
    BY InitIInv
  <1> QED
    BY <1>1, NextIInv, PTL DEF Spec

(* ft601.py:95-110: the burst counters keep to their widths, the FIFOs to  *)
(* their depths.                                                           *)
THEOREM TypeCorrect == Spec => []TypeOK
  BY Invariance, PTL DEF IInv

-----------------------------------------------------------------------------
(* A word that joins the second of two queues joins the whole. *)
LEMMA AppendBehind ==
  ASSUME NEW S, NEW s \in Seq(S), NEW t \in Seq(S), NEW w \in S
  PROVE  s \o Append(t, w) = Append(s \o t, w)
  <1>1. Append(t, w) = t \o <<w>> /\ <<w>> \in Seq(S)
    BY AppendIsConcat
  <1>2. s \o (t \o <<w>>) = (s \o t) \o <<w>>
    BY <1>1, ConcatAssociative
  <1>3. s \o t \in Seq(S)
    BY ConcatProperties
  <1>4. Append(s \o t, w) = (s \o t) \o <<w>>
    BY <1>3, AppendIsConcat
  <1> QED
    BY <1>1, <1>2, <1>4

(* The words between the chip and the host that left write_fifo: refused,  *)
(* or on the pads.                                                         *)
Pending == IF tosend THEN <<sendval>>
           ELSE IF pads.wr /\ pads.data # Junk THEN <<pads.data>> ELSE << >>

(* What write_fifo keeps, before a new word comes in. *)
Kept == IF Pops THEN Tail(writeFifo) ELSE writeFifo

(* A cycle of the FSM: either the chip takes the first word that leaves,   *)
(* or all of them stay, wherever they are held (ft601.py:146-185).         *)
LEMMA TxMove ==
  ASSUME IInv, NEW put \in BOOLEAN, NEW drain \in BOOLEAN, Cycle(put, drain),
         ~(state = "WRITE" /\ ~txe /\ writeFifo = << >>), ~Yields
  PROVE  /\ Pending' \in Seq(Word) /\ Kept \in Seq(Word)
         /\ \/ Pending' \o Kept = Leaving /\ out' = out
            \/ /\ Leaving # << >>
               /\ Pending' \o Kept = Tail(Leaving) /\ out' = Head(Leaving)
  <1>1. /\ writeFifo \in Seq(Word) /\ sendval \in Word /\ sendval' \in Word
        /\ pads \in Pads /\ pads' \in Pads
        /\ tosend \in BOOLEAN /\ tosend' \in BOOLEAN
    BY FsmStep DEF IInv, TypeOK, FsmType, Pads
  <1>2. Pending \in Seq(Word) /\ Pending' \in Seq(Word)
    BY <1>1 DEF Pads, Pending
  <1>3. Kept \in Seq(Word)
    BY <1>1, HeadTailProperties DEF Kept, Pops
  <1>4. Leaving = Pending \o writeFifo
    BY DEF Leaving, Pending
  <1>5. out' = IF pads.wr /\ txe /\ ~pads'.oe /\ pads.data # Junk THEN pads.data ELSE out
    BY ChipStep DEF Cycle
  <1>6. /\ tosend => ~pads.wr
        /\ pads.wr => \/ state = "WRITE" /\ ~firstWrite /\ pads.data = sendval
                      \/ state = "RDWAIT" /\ pads.data = Junk
        /\ state = "WRITE" /\ ~firstWrite => pads.wr
    BY DEF IInv, WriteSide
  <1>7. Junk \notin Word
    BY DEF Word
  <1>8. ASSUME Pending' = Pending, ~Pops, out' = out
        PROVE  Pending' \o Kept = Leaving /\ out' = out
    BY <1>4, <1>8 DEF Kept
  <1>9. CASE Idle \/ ReadWait \/ Read
    <2>1. /\ ~Pops /\ tosend' = tosend /\ sendval' = sendval
          /\ state \in {"IDLE", "RDWAIT", "READ"}
      BY <1>9 DEF Idle, ReadWait, Read, Pops
    <2>2. ~pads'.wr
      BY <1>9 DEF Idle, ReadWait, Read, ReadDone, ReadYield, ReadWord, Driven, Quiet
    <2>3. Pending' = Pending
      BY <1>6, <2>1, <2>2 DEF Pending
    <2>4. out' = out
      BY <1>5, <1>6, <2>1
    <2> QED
      BY <1>2, <1>3, <1>8, <2>1, <2>3, <2>4
  <1>10. CASE Write /\ Refused
    <2>1. /\ state = "WRITE" /\ ~txe /\ writeFifo # << >> /\ ~Pops
          /\ pads' = Quiet /\ sendval' = sendval
          /\ tosend' = (tosend \/ (writeFifo # << >> /\ ~firstWrite))
      BY <1>10 DEF Write, Refused, Pops
    <2>2. ~pads'.wr
      BY <2>1 DEF Quiet, Driven
    <2>3. Pending' = Pending
      <3>1. CASE tosend
        BY <2>1, <3>1 DEF Pending
      <3>2. CASE ~tosend /\ firstWrite
        <4>1. ~pads.wr
          BY <1>6, <2>1, <3>2
        <4>2. ~tosend'
          BY <2>1, <3>2
        <4> QED
          BY <2>2, <3>2, <4>1, <4>2 DEF Pending
      <3>3. CASE ~tosend /\ ~firstWrite
        <4>1. pads.wr /\ pads.data = sendval /\ tosend'
          BY <1>6, <2>1, <3>3
        <4> QED
          BY <1>1, <1>7, <2>1, <3>3, <4>1 DEF Pending
      <3> QED
        BY <3>1, <3>2, <3>3
    <2>4. out' = out
      BY <1>5, <2>1
    <2> QED
      BY <1>2, <1>3, <1>8, <2>1, <2>3, <2>4
  <1>11. CASE Write /\ Resend
    <2>1. /\ ~Pops /\ tosend /\ ~tosend' /\ sendval' = sendval
          /\ pads' = Driven(TRUE, FALSE, FALSE, sendval)
      BY <1>11 DEF Write, Resend, Pops
    <2>2. pads'.wr /\ pads'.data = sendval
      BY <2>1 DEF Driven
    <2>3. Pending' = Pending
      BY <1>1, <1>7, <2>1, <2>2 DEF Pending
    <2>4. out' = out
      BY <1>5, <1>6, <2>1
    <2> QED
      BY <1>2, <1>3, <1>8, <2>1, <2>3, <2>4
  <1>12. CASE Write /\ Yield
    BY <1>12 DEF Yield
  <1>13. CASE Write /\ (Send \/ Stop)
    <2>1. state = "WRITE" /\ txe /\ ~tosend /\ ~tosend' /\ ~pads'.oe
      BY <1>13 DEF Write, Send, Stop, Pops, Quiet, Driven
    <2>2. Pending' \o Kept = writeFifo
      <3>1. CASE Send
        <4>1. /\ Pops /\ writeFifo # << >> /\ pads'.wr /\ pads'.data = Head(writeFifo)
          BY <3>1 DEF Send, Pops, Driven
        <4>2. Head(writeFifo) \in Word
          BY <1>1, <4>1, HeadTailProperties
        <4>3. Pending' = <<Head(writeFifo)>>
          BY <1>7, <2>1, <4>1, <4>2 DEF Pending
        <4>4. <<Head(writeFifo)>> \o Tail(writeFifo) = writeFifo
          BY <1>1, <4>1, HeadTailProperties
        <4> QED
          BY <4>1, <4>3, <4>4 DEF Kept
      <3>2. CASE Stop
        <4>1. ~Pops /\ ~pads'.wr
          BY <3>2 DEF Stop, Pops, Quiet, Driven
        <4>2. Pending' = << >>
          BY <2>1, <4>1 DEF Pending
        <4> QED
          BY <1>1, <4>1, <4>2, ConcatEmptySeq DEF Kept
      <3> QED
        BY <1>13, <3>1, <3>2
    <2>3. CASE firstWrite
      <3>1. ~pads.wr
        BY <1>6, <2>1, <2>3
      <3>2. Pending = << >> /\ out' = out
        BY <1>5, <2>1, <3>1 DEF Pending
      <3>3. Leaving = writeFifo
        BY <1>1, <1>4, <3>2, ConcatEmptySeq
      <3> QED
        BY <1>2, <1>3, <2>2, <3>2, <3>3
    <2>4. CASE ~firstWrite
      <3>1. pads.wr /\ pads.data = sendval /\ pads.data # Junk
        BY <1>1, <1>6, <1>7, <2>1, <2>4
      <3>2. Pending = <<sendval>> /\ out' = sendval
        BY <1>5, <2>1, <3>1 DEF Pending
      <3>3. Pending # << >> /\ Head(Pending) = sendval /\ Tail(Pending) = << >>
        BY <3>2
      <3>4. /\ Leaving # << >> /\ Head(Leaving) = sendval
            /\ Tail(Leaving) = << >> \o writeFifo
        <4>1. Pending \in Seq(Word) /\ writeFifo \in Seq(Word)
          BY <1>1, <1>2
        <4>2. /\ Pending \o writeFifo # << >>
              /\ Head(Pending \o writeFifo) = Head(Pending)
              /\ Tail(Pending \o writeFifo) = Tail(Pending) \o writeFifo
          BY <3>3, <4>1, HeadOfConcat
        <4> QED
          BY <1>4, <3>3, <4>2
      <3>5. Tail(Leaving) = writeFifo
        BY <1>1, <3>4, ConcatEmptySeq
      <3> QED
        BY <1>2, <1>3, <2>2, <3>2, <3>4, <3>5
    <2> QED
      BY <2>3, <2>4
  <1> QED
    BY <1>9, <1>10, <1>11, <1>12, <1>13 DEF Cycle, Write

(* ft601.py:146-185: outside the two cases where the code drops a word,    *)
(* every cycle moves the queue of the words to the chip by one, or not.    *)
THEOREM TxOrdered == Spec => TxKept
  <1>1. IInv /\ [Next]_vars =>
          [\/ state = "WRITE" /\ ~txe /\ writeFifo = << >>
           \/ Yields
           \/ Tx!Next \/ UNCHANGED <<in, Leaving, out>>]_vars
    <2> SUFFICES ASSUME IInv, NEW put \in BOOLEAN, NEW drain \in BOOLEAN, Cycle(put, drain),
                        ~(state = "WRITE" /\ ~txe /\ writeFifo = << >>), ~Yields
                 PROVE  Tx!Next \/ UNCHANGED <<in, Leaving, out>>
      BY DEF Next
    <2> DEFINE mid == Pending' \o Kept
    <2>1. /\ Pending' \in Seq(Word) /\ Kept \in Seq(Word)
          /\ \/ mid = Leaving /\ out' = out
             \/ Leaving # << >> /\ mid = Tail(Leaving) /\ out' = Head(Leaving)
      BY TxMove
    <2>2. Leaving' = Pending' \o writeFifo'
      BY DEF Leaving, Pending
    <2>3. CASE put /\ Len(writeFifo) < WriteDepth
      <3>1. in' = (in + 1) % Tags /\ writeFifo' = Append(Kept, in')
        BY <2>3 DEF Cycle, WriteFifoSync, Kept
      <3>2. in' \in Word
        BY FifoStep
      <3>3. Leaving' = Append(mid, in')
        BY <2>1, <2>2, <3>1, <3>2, AppendBehind
      <3> QED
        BY <2>1, <3>1, <3>3 DEF Tx!Next, Tx!Accept, Tx!AcceptDeliver, Tx!Next1
    <2>4. CASE ~(put /\ Len(writeFifo) < WriteDepth)
      <3>1. in' = in /\ writeFifo' = Kept
        BY <2>4 DEF Cycle, WriteFifoSync, Kept
      <3> QED
        BY <2>1, <2>2, <3>1 DEF Tx!Next, Tx!Deliver
    <2> QED
      BY <2>3, <2>4
  <1> QED
    BY <1>1, Invariance, PTL DEF Spec, TxKept

(* ft601.py:187-223: outside the cycles in which a read burst gives way to *)
(* a write, every word the chip gives joins the queue to the host, and     *)
(* none leaves it but at its head.                                         *)
THEOREM RxOrdered == Spec => RxKept
  <1>1. IInv /\ [Next]_vars =>
          [\/ ReadOver
           \/ state = "WRITE" /\ pads.rd
           \/ Rx!Next \/ UNCHANGED <<rin, Coming, rout>>]_vars
    <2> SUFFICES ASSUME IInv, NEW put \in BOOLEAN, NEW drain \in BOOLEAN, Cycle(put, drain),
                        ~ReadOver, ~(state = "WRITE" /\ pads.rd)
                 PROVE  Rx!Next \/ UNCHANGED <<rin, Coming, rout>>
      BY DEF Next
    <2> DEFINE room == Len(readBuffer) < ReadDepth
               takes == drain /\ readBuffer # << >>
               left == IF takes THEN Tail(readBuffer) ELSE readBuffer
               refused == IF toread THEN <<readval>> ELSE << >>
               mid == left \o refused
    <2>1. /\ readBuffer \in Seq(Word) /\ readval \in Word /\ toread \in BOOLEAN
          /\ refused \in Seq(Word) /\ rin' \in Word
      BY ChipStep DEF Cycle, IInv, TypeOK
    <2>2. left \in Seq(Word) /\ mid \in Seq(Word)
      BY <2>1, HeadTailProperties, ConcatProperties
    <2>3. Coming = readBuffer \o refused
      BY DEF Coming
    <2>4. \/ mid = Coming /\ rout' = rout
          \/ Coming # << >> /\ mid = Tail(Coming) /\ rout' = Head(Coming)
      <3>1. rout' = IF takes THEN Head(readBuffer) ELSE rout
        BY DEF Cycle, ReadBufferSync
      <3>2. CASE takes
        BY <2>1, <2>3, <3>1, <3>2, HeadOfConcat
      <3>3. CASE ~takes
        BY <2>3, <3>1, <3>3
      <3> QED
        BY <3>2, <3>3
    <2>5. CASE Stores
      <3>1. rin' = (rin + 1) % Tags /\ DataR = rin' /\ ~toread
        <4>1. pads.oe /\ ~toread
          BY <2>5 DEF Stores, IInv, ReadSide
        <4> QED
          BY <2>5, <4>1, ChipStep DEF Cycle, DataR
      <3>2. mid = left
        BY <2>2, <3>1, ConcatEmptySeq
      <3>3. Coming' = Append(mid, rin')
        <4>1. CASE room
          <5>1. readBuffer' = Append(left, rin') /\ ~toread'
            BY <2>5, <3>1, <4>1, RefusedStep DEF Cycle, ReadBufferSync
          <5>2. Append(left, rin') \in Seq(Word)
            BY <2>1, <2>2, AppendProperties
          <5> QED
            BY <3>2, <5>1, <5>2, ConcatEmptySeq DEF Coming
        <4>2. CASE ~room
          <5>1. readBuffer' = left /\ toread' /\ readval' = rin'
            BY <2>5, <3>1, <4>2 DEF Cycle, ReadBufferSync
          <5>2. Coming' = left \o <<rin'>>
            BY <5>1 DEF Coming
          <5> QED
            BY <2>1, <2>2, <3>2, <5>2, AppendIsConcat
        <4> QED
          BY <4>1, <4>2
      <3> QED
        BY <2>4, <3>1, <3>3 DEF Rx!Next, Rx!Accept, Rx!AcceptDeliver, Rx!Next1
    <2>6. CASE ~Stores
      <3>1. rin' = rin
        <4>1. ~pads.rd \/ ~rxf
          BY <2>6 DEF Stores, ReadOver, IInv, TypeOK, ReadSide
        <4> QED
          BY <4>1, ChipStep DEF Cycle
      <3>2. Coming' = mid
        <4>1. readval' = readval
          BY <2>6 DEF Cycle, ReadBufferSync
        <4>2. CASE state # "READ" /\ toread /\ room
          <5>1. readBuffer' = Append(left, readval) /\ ~toread'
            BY <2>6, <4>2 DEF Cycle, ReadBufferSync
          <5>2. Append(left, readval) = mid
            BY <2>1, <2>2, <4>2, AppendIsConcat
          <5> QED
            BY <2>2, <5>1, <5>2, ConcatEmptySeq DEF Coming
        <4>3. CASE ~(state # "READ" /\ toread /\ room)
          <5>1. readBuffer' = left
            BY <2>6, <4>3 DEF Cycle, ReadBufferSync
          <5>2. toread' <=> toread
            BY <2>6, <4>3 DEF Cycle, ReadBufferSync, IInv, ReadSide
          <5> QED
            BY <4>1, <5>1, <5>2 DEF Coming
        <4> QED
          BY <4>2, <4>3
      <3> QED
        BY <2>4, <3>1, <3>2 DEF Rx!Next, Rx!Deliver
    <2> QED
      BY <2>5, <2>6
  <1> QED
    BY <1>1, Invariance, PTL DEF Spec, RxKept
=============================================================================
