--------------------------- MODULE DramFifoProofs ---------------------------
(***************************************************************************)
(* For every ratio, ring depth and number of tags: the safety invariants   *)
(* of DramFifo. None of them is inductive alone; their conjunction is.     *)
(***************************************************************************)
EXTENDS DramFifo, SequenceTheorems, TLAPS

IInv == /\ TypeOK
        /\ BypassDrained
        /\ GroupWhole
        /\ WriteSlotReady
        /\ ReadInTurn
        /\ PointersAgree

(* After reset the DRAM FIFO is empty and in BYPASS. *)
LEMMA InitIInv == Init => IInv
  <1> SUFFICES ASSUME Init PROVE IInv
    OBVIOUS
  <1> USE RatioAssumption, CtrlDepthAssumption, TagsAssumption, NoneAssumption DEF Init
  <1>1. TypeOK
    <2>1. latch \in Seq(Word) /\ wbuf \in Seq(Word) /\ rfifo \in Seq(Block)
          /\ Len(latch) = 0 /\ Len(wbuf) = 0 /\ Len(rfifo) = 0
      BY EmptySeq
    <2>2. mem \in [Addr -> Block]
      BY DEF Word, Block
    <2>3. counter \in 0 .. Ratio - 1 /\ level \in 0 .. CtrlDepth /\ produce \in Addr
          /\ consume \in Addr /\ mux \in 0 .. Ratio - 1 /\ in \in Word /\ out \in Word
      BY DEF Word, Addr
    <2>4. Len(latch) <= 2 * Ratio /\ Len(wbuf) <= Ratio /\ Len(rfifo) <= 2
      BY <2>1
    <2>5. mode \in {"BYPASS", "DRAM"} /\ opened \in BOOLEAN /\ sendcmdW \in BOOLEAN
          /\ senddata \in BOOLEAN /\ sendcmdR \in BOOLEAN
          /\ wport \in Addr \cup {None} /\ rport \in Addr \cup {None}
      BY Zenon
    <2> QED
      BY <2>1, <2>2, <2>3, <2>4, <2>5, Zenon DEF TypeOK
  <1>2. BypassDrained /\ GroupWhole /\ WriteSlotReady /\ ReadInTurn /\ PointersAgree
    BY DEF BypassDrained, GroupWhole, WriteSlotReady, ReadInTurn, PointersAgree,
           Pending, WriteDataValid, Writable
  <1> QED
    BY <1>1, <1>2 DEF IInv

-----------------------------------------------------------------------------
(* One lemma per register group: what a cycle leaves in it. *)

(* The number of the next word is a number. *)
LEMMA NextTagType == ASSUME NEW w \in Word PROVE (w + 1) % Tags \in Word
  BY TagsAssumption DEF Word

(* The latch's FIFO keeps to its depth and gives at most one word a cycle. *)
LEMMA LatchFifoType ==
  ASSUME IInv, NEW put \in BOOLEAN, NEW get \in BOOLEAN, NEW wd \in BOOLEAN,
         LatchFifoSync(put, get, wd)
  PROVE  /\ latch' \in Seq(Word) /\ Len(latch') <= 2 * Ratio /\ in' \in Word
         /\ LatchPop(get, wd) => Len(latch') >= Len(latch) - 1
         /\ ~LatchPop(get, wd) => Len(latch') >= Len(latch)
         /\ LatchPop(get, wd) => Head(latch) \in Word
  <1> DEFINE left == IF LatchPop(get, wd) THEN Tail(latch) ELSE latch
  <1>1. latch \in Seq(Word) /\ Len(latch) <= 2 * Ratio /\ in \in Word
    BY DEF IInv, TypeOK
  <1>2. LatchPop(get, wd) => latch # << >>
    BY DEF LatchPop, Pack, LatchValid
  <1>3. left \in Seq(Word) /\ Len(left) <= Len(latch)
        /\ (LatchPop(get, wd) => Len(left) = Len(latch) - 1)
    BY <1>1, <1>2
  <1>4. LatchPop(get, wd) => Head(latch) \in Word
    BY <1>1, <1>2
  <1>5. CASE LatchPush(put)
    <2>1. in' \in Word
      BY <1>1, <1>5, NextTagType DEF LatchFifoSync
    <2>2. latch' = Append(left, in')
      BY <1>5 DEF LatchFifoSync
    <2>3. latch' \in Seq(Word) /\ Len(latch') = Len(left) + 1
      BY <1>3, <2>1, <2>2
    <2> QED
      BY <1>1, <1>3, <1>4, <1>5, <2>1, <2>3, RatioAssumption DEF LatchPush
  <1>6. CASE ~LatchPush(put)
    BY <1>1, <1>3, <1>4, <1>6, RatioAssumption DEF LatchFifoSync
  <1> QED
    BY <1>5, <1>6

(* Level and addresses stay in range and keep agreeing. *)
LEMMA CtrlType ==
  ASSUME IInv, NEW get \in BOOLEAN, NEW wd \in BOOLEAN, CtrlSync(get, wd)
  PROVE  /\ level' \in 0 .. CtrlDepth /\ produce' \in Addr /\ consume' \in Addr
         /\ PointersAgree'
         /\ Write(wd) => level < CtrlDepth
         /\ Read(get) => level > 0
         /\ level' = level + (IF Write(wd) THEN 1 ELSE 0) - (IF Read(get) THEN 1 ELSE 0)
  <1>1. level \in 0 .. CtrlDepth /\ produce \in Addr /\ consume \in Addr
    BY DEF IInv, TypeOK
  <1>2. PointersAgree
    BY DEF IInv
  <1>3. Write(wd) => level < CtrlDepth
    BY DEF Write, WriteDataValid, Writable
  <1>4. Read(get) => level > 0
    BY DEF Read, Unpack, IInv, ReadInTurn
  <1>5. level' = level + (IF Write(wd) THEN 1 ELSE 0) - (IF Read(get) THEN 1 ELSE 0)
    BY <1>1 DEF CtrlSync
  <1>6. produce' \in Addr /\ consume' \in Addr
    BY <1>1, CtrlDepthAssumption DEF CtrlSync, Addr, Inc
  <1>7. PointersAgree'
    BY <1>1, <1>2, <1>3, <1>4, <1>5, CtrlDepthAssumption
       DEF CtrlSync, PointersAgree, Addr, Inc
  <1> QED
    BY <1>1, <1>3, <1>4, <1>5, <1>6, <1>7, CtrlDepthAssumption

(* conv_w grows by at most one word and empties when its block leaves. *)
LEMMA ConvWType ==
  ASSUME IInv, NEW wd \in BOOLEAN, ConvWSync(wd), Pack(wd) => Head(latch) \in Word
  PROVE  /\ wbuf' \in Seq(Word)
         /\ Len(wbuf') = (IF Write(wd) THEN 0 ELSE Len(wbuf)) + (IF Pack(wd) THEN 1 ELSE 0)
         /\ Len(wbuf') <= Ratio
         /\ ~Write(wd) /\ ~Pack(wd) => wbuf' = wbuf
  <1> DEFINE left == IF Write(wd) THEN << >> ELSE wbuf
  <1>1. wbuf \in Seq(Word) /\ Len(wbuf) <= Ratio
    BY DEF IInv, TypeOK
  <1>2. left \in Seq(Word) /\ Len(left) = (IF Write(wd) THEN 0 ELSE Len(wbuf))
    BY <1>1
  <1>3. Pack(wd) => Len(left) < Ratio
    BY <1>1, <1>2, RatioAssumption DEF Pack, Pending
  <1>4. CASE Pack(wd)
    <2>1. wbuf' = Append(left, Head(latch))
      BY <1>4 DEF ConvWSync
    <2>2. wbuf' \in Seq(Word) /\ Len(wbuf') = Len(left) + 1
      BY <1>2, <1>4, <2>1
    <2> QED
      BY <1>2, <1>3, <1>4, <2>2, RatioAssumption
  <1>5. CASE ~Pack(wd)
    BY <1>1, <1>2, <1>5, RatioAssumption DEF ConvWSync
  <1> QED
    BY <1>4, <1>5

(* A full conv_w is a block. *)
LEMMA BlockFromConvW ==
  ASSUME wbuf \in Seq(Word), Pending
  PROVE  wbuf \in Block
  BY LenProperties DEF Pending, Block

(* The memory holds blocks, whichever way the ports are strobed. *)
LEMMA WriteType ==
  ASSUME IInv, NEW get \in BOOLEAN, NEW wc \in BOOLEAN, NEW wd \in BOOLEAN,
         NEW rc \in BOOLEAN, NEW rv \in BOOLEAN, PortSync(wc, wd, rc, rv)
  PROVE  /\ mem' \in [Addr -> Block]
         /\ wd <=> Write(wd)
         /\ mem' # mem => Write(wd) /\ mem' = [mem EXCEPT ![produce] = wbuf]
  <1>1. mem \in [Addr -> Block] /\ wbuf \in Seq(Word) /\ produce \in Addr
    BY DEF IInv, TypeOK
  <1>2. ASSUME wd PROVE Write(wd) /\ wport = produce
    BY <1>2 DEF PortSync, IInv, WriteSlotReady, Write
  <1>3. ASSUME Write(wd) PROVE wd
    BY <1>3 DEF Write
  <1>4. Write(wd) => wbuf \in Block
    BY <1>1, BlockFromConvW DEF Write, WriteDataValid
  <1> QED
    BY <1>1, <1>2, <1>3, <1>4 DEF PortSync

(* The gate of the latch lets whole groups of Ratio words out. *)
LEMMA LatchGateStep ==
  ASSUME IInv, NEW put \in BOOLEAN, NEW get \in BOOLEAN, NEW wd \in BOOLEAN,
         LatchFifoSync(put, get, wd), LatchGateSync(get, wd), ConvWSync(wd),
         mode' \in {"BYPASS", "DRAM"},
         mode = "BYPASS" /\ mode' = "DRAM" => Len(latch) = 2 * Ratio,
         mode = "DRAM" /\ mode' = "BYPASS" => Drained
  PROVE  /\ opened' \in BOOLEAN /\ counter' \in 0 .. Ratio - 1
         /\ GroupWhole'
         /\ mode' = "BYPASS" => wbuf' = << >> /\ counter' = 0
  <1>1. /\ mode \in {"BYPASS", "DRAM"} /\ opened \in BOOLEAN /\ counter \in 0 .. Ratio - 1
        /\ Len(latch) \in Nat /\ Len(wbuf) \in 0 .. Ratio
        /\ (latch = << >> <=> Len(latch) = 0) /\ (wbuf = << >> <=> Len(wbuf) = 0)
    BY EmptySeq, LenProperties, RatioAssumption DEF IInv, TypeOK
  <1>2. /\ LatchPop(get, wd) => Len(latch') >= Len(latch) - 1
        /\ ~LatchPop(get, wd) => Len(latch') >= Len(latch)
        /\ LatchPop(get, wd) => Head(latch) \in Word
        /\ Len(latch') \in Nat
    BY LatchFifoType, LenProperties
  <1>3. /\ Len(wbuf') = (IF Write(wd) THEN 0 ELSE Len(wbuf)) + (IF Pack(wd) THEN 1 ELSE 0)
        /\ wbuf' \in Seq(Word)
        /\ ~Write(wd) /\ ~Pack(wd) => wbuf' = wbuf
    BY <1>2, ConvWType DEF LatchPop
  <1>4. GroupWhole /\ BypassDrained
    BY DEF IInv
  <1>5. CASE mode = "BYPASS"
    <2>1. wbuf = << >> /\ Len(wbuf) = 0 /\ counter = 0
      BY <1>1, <1>4, <1>5 DEF BypassDrained
    <2>2. ~Pending /\ ~Write(wd) /\ ~Pack(wd)
      BY <1>5, <2>1, RatioAssumption DEF Pending, Write, WriteDataValid, Pack
    <2>3. wbuf' = << >> /\ Len(wbuf') = 0 /\ counter' = 0
      BY <1>3, <1>5, <2>1, <2>2 DEF LatchGateSync
    <2>5. opened' \in BOOLEAN /\ (Len(latch) >= Ratio => opened')
      BY <1>1, <1>5, Zenon DEF LatchGateSync
    <2>4. mode' = "DRAM" => opened' /\ Len(latch') >= Ratio
      BY <1>1, <1>2, <1>5, <2>3, <2>5, RatioAssumption
    <2> QED
      BY <1>1, <2>3, <2>4, <2>5, RatioAssumption DEF GroupWhole
  <1>6. CASE mode = "DRAM" /\ opened
    <2>1. Len(latch) >= Ratio - counter /\ LatchValid
      BY <1>1, <1>4, <1>6, RatioAssumption DEF GroupWhole, LatchValid
    <2>2. mode' = "DRAM"
      BY <1>6, <2>1 DEF Drained
    <2>3. LatchPop(get, wd) <=> Pack(wd)
      BY <1>6 DEF LatchPop
    <2>4. CASE Pack(wd)
      <3>1. counter' = IF counter < Ratio - 1 THEN counter + 1 ELSE 0
        BY <1>6, <2>3, <2>4 DEF LatchGateSync
      <3>5. /\ opened' \in BOOLEAN
            /\ opened' <=> ~(counter = Ratio - 1 /\ Len(latch) - 1 < Ratio)
        BY <1>6, <2>3, <2>4, Zenon DEF LatchGateSync
      <3>6. Len(wbuf') = (IF Pending THEN 0 ELSE Len(wbuf)) + 1
        BY <1>3, <2>4 DEF Pack, Write, WriteDataValid
      <3>2. Len(wbuf') = counter' \/ (counter' = 0 /\ Len(wbuf') = Ratio)
        BY <1>1, <1>4, <3>1, <3>6, RatioAssumption DEF GroupWhole, Pending
      <3>3. opened' => Len(latch') >= Ratio - counter'
        BY <1>1, <1>2, <2>1, <2>3, <2>4, <3>1, <3>5, RatioAssumption
      <3>4. counter' > 0 => opened'
        BY <1>1, <3>1, <3>5, RatioAssumption
      <3> QED
        BY <1>1, <2>2, <3>1, <3>2, <3>3, <3>4, <3>5, RatioAssumption DEF GroupWhole, Pending
    <2>5. CASE ~Pack(wd)
      <3>1. counter' = counter /\ opened' = opened
        BY <1>6, <2>3, <2>5 DEF LatchGateSync
      <3>2. Len(wbuf') = counter' \/ (counter' = 0 /\ Len(wbuf') = Ratio)
        BY <1>1, <1>3, <1>4, <2>5, <3>1, RatioAssumption
           DEF GroupWhole, Pending, Write, WriteDataValid
      <3>3. opened' \in BOOLEAN /\ opened'
        BY <1>1, <1>6, <3>1, Zenon
      <3>4. counter' = counter /\ Len(latch') >= Ratio - counter'
        BY <1>1, <1>2, <2>1, <2>3, <2>5, <3>1, RatioAssumption
      <3> QED
        BY <1>1, <2>2, <3>2, <3>3, <3>4, RatioAssumption DEF GroupWhole, Pending
    <2> QED
      BY <2>4, <2>5
  <1>7. CASE mode = "DRAM" /\ ~opened
    <2>1. counter = 0 /\ (Len(wbuf) = 0 \/ Pending) /\ ~LatchValid
      BY <1>1, <1>4, <1>7 DEF GroupWhole, LatchValid
    <2>2. ~Pack(wd) /\ ~LatchPop(get, wd)
      BY <1>7, <2>1 DEF Pack, LatchPop
    <2>3. counter' = 0 /\ Len(latch') >= Len(latch)
      BY <1>1, <1>2, <1>7, <2>1, <2>2 DEF LatchGateSync
    <2>6. opened' \in BOOLEAN /\ (opened' => Len(latch) >= Ratio)
      BY <1>7, Zenon DEF LatchGateSync
    <2>4. Len(wbuf') = 0 \/ Len(wbuf') = Ratio
      BY <1>1, <1>3, <2>1, <2>2 DEF Pending
    <2>5. mode' = "BYPASS" => wbuf' = << >>
      <3> SUFFICES ASSUME mode' = "BYPASS" PROVE wbuf' = << >>
        OBVIOUS
      <3>1. Drained
        BY <1>7
      <3> QED
        BY <1>1, <1>3, <2>1, <2>2, <3>1 DEF Drained, Write, WriteDataValid
    <2> QED
      BY <1>1, <1>2, <2>3, <2>4, <2>5, <2>6, RatioAssumption DEF GroupWhole, Pending
  <1> QED
    BY <1>1, <1>5, <1>6, <1>7

(* Command and data of a write alternate, and the block stays put between. *)
LEMMA WriterStep ==
  ASSUME IInv, NEW get \in BOOLEAN, NEW wc \in BOOLEAN, NEW wd \in BOOLEAN,
         NEW rc \in BOOLEAN, NEW rv \in BOOLEAN,
         PortSync(wc, wd, rc, rv), CtrlSync(get, wd), ConvWSync(wd),
         WriterSync(wc, wd), Pack(wd) => Head(latch) \in Word
  PROVE  /\ WriteSlotReady'
         /\ sendcmdW' \in BOOLEAN /\ senddata' \in BOOLEAN
         /\ wport' \in Addr \cup {None}
         /\ ~Pending => wport' = None
  <1>1. /\ sendcmdW \in BOOLEAN /\ senddata \in BOOLEAN /\ produce \in Addr
        /\ wport \in Addr \cup {None} /\ level \in 0 .. CtrlDepth
    BY DEF IInv, TypeOK
  <1>2. WriteSlotReady
    BY DEF IInv
  <1>3. produce # None
    BY <1>1, CtrlDepthAssumption, NoneAssumption DEF Addr
  <1>4. wd <=> Write(wd)
    BY WriteType
  <1>5. level' \in 0 .. CtrlDepth /\ (~Write(wd) => produce' = produce /\ level' <= level)
    BY <1>1, CtrlType DEF CtrlSync
  <1>6. ~Write(wd) /\ Pending => wbuf' = wbuf
    BY ConvWType DEF Pack
  <1>7. CASE WriteCmdValid /\ wc
    <2>1. wport = None /\ ~wd
      BY <1>2, <1>7 DEF WriteSlotReady, WriteCmdValid, PortSync
    <2>2. wport' = produce
      BY <1>7 DEF PortSync
    <2>3. sendcmdW' \in BOOLEAN /\ ~sendcmdW' /\ senddata' \in BOOLEAN /\ senddata'
      BY <1>4, <1>7, <2>1, Zenon DEF WriterSync
    <2>4. produce' = produce /\ level' < CtrlDepth /\ Len(wbuf') = Ratio
      BY <1>1, <1>4, <1>5, <1>6, <1>7, <2>1, CtrlDepthAssumption
         DEF WriteCmdValid, Pending, Writable
    <2> QED
      BY <1>1, <1>3, <1>7, <2>2, <2>3, <2>4
         DEF WriteSlotReady, WriteDataValid, WriteCmdValid, Pending, Writable
  <1>8. CASE ~(WriteCmdValid /\ wc) /\ wd
    <2>1. wport' = None
      BY <1>8 DEF PortSync
    <2>2. sendcmdW' \in BOOLEAN /\ sendcmdW' /\ senddata' \in BOOLEAN /\ ~senddata'
      BY <1>4, <1>8, Zenon DEF WriterSync
    <2> QED
      BY <2>1, <2>2 DEF WriteSlotReady
  <1>9. CASE ~(WriteCmdValid /\ wc) /\ ~wd
    <2>1. wport' = wport
      BY <1>9 DEF PortSync
    <2>2. /\ sendcmdW' \in BOOLEAN /\ (sendcmdW' <=> sendcmdW)
          /\ senddata' \in BOOLEAN /\ (senddata' <=> senddata)
      BY <1>4, <1>9, Zenon DEF WriterSync
    <2>3. wport # None =>
            /\ WriteDataValid /\ wport = produce
            /\ produce' = produce /\ level' < CtrlDepth /\ Len(wbuf') = Ratio
      BY <1>1, <1>2, <1>4, <1>5, <1>6, <1>9, CtrlDepthAssumption
         DEF WriteSlotReady, WriteDataValid, Pending, Writable
    <2>4. (senddata' <=> wport' # None) /\ (sendcmdW' <=> wport' = None)
      BY <1>2, <2>1, <2>2, Zenon DEF WriteSlotReady
    <2>5. wport' # None => WriteDataValid' /\ wport' = produce'
      BY <2>1, <2>3, <2>4 DEF WriteDataValid, Pending, Writable
    <2>6. sendcmdW' \in BOOLEAN /\ senddata' \in BOOLEAN
      BY <1>1, <2>2, Zenon
    <2>7. ~Pending => wport' = None
      BY <2>1, <2>3 DEF WriteDataValid
    <2> QED
      BY <1>1, <2>1, <2>4, <2>5, <2>6, <2>7, Zenon DEF WriteSlotReady
  <1> QED
    BY <1>7, <1>8, <1>9

(* One block is on its way or in the reader, and it is the oldest. *)
LEMMA ReaderStep ==
  ASSUME IInv, NEW get \in BOOLEAN, NEW wc \in BOOLEAN, NEW wd \in BOOLEAN,
         NEW rc \in BOOLEAN, NEW rv \in BOOLEAN,
         PortSync(wc, wd, rc, rv), CtrlSync(get, wd), ReaderSync(rc, rv, get)
  PROVE  /\ ReadInTurn'
         /\ sendcmdR' \in BOOLEAN /\ mux' \in 0 .. Ratio - 1
         /\ rfifo' \in Seq(Block) /\ Len(rfifo') <= 2
         /\ rport' \in Addr \cup {None}
         /\ ~Readable => rport' = None /\ rfifo' = << >> /\ mux' = 0
  <1>1. /\ sendcmdR \in BOOLEAN /\ mux \in 0 .. Ratio - 1 /\ consume \in Addr
        /\ produce \in Addr /\ rport \in Addr \cup {None} /\ level \in 0 .. CtrlDepth
        /\ mem \in [Addr -> Block] /\ rfifo \in Seq(Block)
    BY DEF IInv, TypeOK
  <1>2. ReadInTurn /\ PointersAgree
    BY DEF IInv
  <1>3. consume # None
    BY <1>1, CtrlDepthAssumption, NoneAssumption DEF Addr
  <1>4. level' = level + (IF Write(wd) THEN 1 ELSE 0) - (IF Read(get) THEN 1 ELSE 0)
    BY CtrlType
  <1>5. level > 0 => mem'[consume] = mem[consume]
    <2> SUFFICES ASSUME level > 0, mem' # mem PROVE mem'[consume] = mem[consume]
      OBVIOUS
    <2>1. mem' = [mem EXCEPT ![produce] = wbuf] /\ level < CtrlDepth
      BY WriteType DEF Write, WriteDataValid, Writable
    <2>2. produce # consume
      BY <1>1, <1>2, <2>1, CtrlDepthAssumption DEF PointersAgree, Addr
    <2> QED
      BY <1>1, <2>1, <2>2
  <1>6. ~Read(get) => consume' = consume
    BY DEF CtrlSync
  <1>7. CASE Read(get)
    <2>1. rfifo = <<mem[consume]>> /\ rport = None /\ sendcmdR = FALSE
      BY <1>1, <1>2, <1>7 DEF ReadInTurn, Read, Unpack
    <2>2. ~rv /\ ~ReadCmdValid
      BY <2>1 DEF PortSync, ReadCmdValid
    <2>3. rfifo' = << >> /\ mux' = 0 /\ rport' = None
      BY <1>7, <2>1, <2>2 DEF ReaderSync, PortSync
    <2>4. sendcmdR' = TRUE
      BY <1>7 DEF ReaderSync
    <2> QED
      BY <2>3, <2>4, RatioAssumption, EmptySeq DEF ReadInTurn
  <1>8. CASE ~Read(get) /\ rfifo # << >>
    <2>1. level > 0 /\ rfifo = <<mem[consume]>> /\ rport = None /\ sendcmdR = FALSE
      BY <1>1, <1>2, <1>8 DEF ReadInTurn
    <2>2. ~rv /\ ~ReadCmdValid
      BY <2>1 DEF PortSync, ReadCmdValid
    <2>3. rfifo' = rfifo /\ rport' = None
      BY <1>8, <2>1, <2>2 DEF ReaderSync, PortSync
    <2>4. sendcmdR' \in BOOLEAN /\ ~sendcmdR'
      BY <1>8, <2>1, <2>2, Zenon DEF ReaderSync
    <2>5. level' > 0 /\ rfifo' = <<mem'[consume']>>
      BY <1>1, <1>4, <1>5, <1>6, <1>8, <2>1, <2>3
    <2>6. mux' \in 0 .. Ratio - 1
      BY <1>1, <1>8, RatioAssumption DEF ReaderSync, Read
    <2>7. Len(rfifo') = 1 /\ rfifo' \in Seq(Block) /\ rfifo' # << >>
      BY <1>1, <1>8, <2>1, <2>3
    <2> QED
      BY <2>1, <2>3, <2>4, <2>5, <2>6, <2>7 DEF ReadInTurn, Readable
  <1>9. CASE ~Read(get) /\ rfifo = << >>
    <2>1. mux = 0 /\ ~Unpack(get) /\ Len(rfifo) = 0 /\ (sendcmdR <=> rport = None)
      BY <1>1, <1>2, <1>9 DEF ReadInTurn, Unpack
    <2>2. mux' = 0
      BY <1>9, <2>1 DEF ReaderSync
    <2>3. CASE ReadCmdValid /\ rc
      <3>1. rport = None /\ level > 0 /\ ~rv
        BY <2>1, <2>3 DEF ReadCmdValid, Readable, PortSync
      <3>2. rport' = consume /\ rfifo' = << >>
        BY <1>9, <2>3, <3>1 DEF PortSync, ReaderSync
      <3>3. sendcmdR' \in BOOLEAN /\ ~sendcmdR'
        BY <1>9, <2>3, Zenon DEF ReaderSync
      <3>4. level' > 0 /\ consume' = consume
        BY <1>1, <1>4, <1>6, <1>9, <3>1
      <3> QED
        BY <1>1, <1>3, <2>2, <3>1, <3>2, <3>3, <3>4, RatioAssumption, EmptySeq
           DEF ReadInTurn, Readable
    <2>4. CASE ~(ReadCmdValid /\ rc) /\ rv
      <3>1. rport = consume /\ level > 0 /\ sendcmdR = FALSE
        BY <1>1, <1>2, <2>1, <2>4 DEF ReadInTurn, PortSync
      <3>2. rport' = None /\ rfifo' = <<mem[consume]>>
        BY <1>9, <2>1, <2>4, <3>1 DEF PortSync, ReaderSync
      <3>3. sendcmdR' \in BOOLEAN /\ ~sendcmdR'
        BY <1>9, <3>1, Zenon DEF ReaderSync
      <3>4. level' > 0 /\ consume' = consume /\ mem'[consume] = mem[consume]
        BY <1>1, <1>4, <1>5, <1>6, <1>9, <3>1
      <3>5. rfifo' \in Seq(Block) /\ Len(rfifo') = 1 /\ rfifo' # << >>
        BY <1>1, <3>2
      <3> QED
        BY <2>2, <3>1, <3>2, <3>3, <3>4, <3>5, RatioAssumption DEF ReadInTurn, Readable
    <2>5. CASE ~(ReadCmdValid /\ rc) /\ ~rv
      <3>1. rport' = rport /\ rfifo' = << >>
        BY <1>9, <2>5 DEF PortSync, ReaderSync
      <3>2. (sendcmdR' <=> sendcmdR) /\ sendcmdR' \in BOOLEAN
        BY <1>1, <1>9, <2>5, Zenon DEF ReaderSync
      <3>3. consume' = consume /\ (level > 0 => level' > 0)
        BY <1>1, <1>4, <1>6, <1>9
      <3>4. rport' # None => rport' = consume' /\ level' > 0
        BY <1>2, <3>1, <3>3 DEF ReadInTurn
      <3>5. ~Readable => rport' = None
        BY <1>1, <1>2, <3>1 DEF ReadInTurn, Readable
      <3> QED
        BY <1>1, <2>1, <2>2, <3>1, <3>2, <3>4, <3>5, RatioAssumption, EmptySeq DEF ReadInTurn
    <2> QED
      BY <2>3, <2>4, <2>5
  <1> QED
    BY <1>7, <1>8, <1>9

(* Everything but the router and out, whichever state the router is in. *)
LEMMA SyncStep ==
  ASSUME IInv, NEW put \in BOOLEAN, NEW get \in BOOLEAN, NEW wc \in BOOLEAN,
         NEW wd \in BOOLEAN, NEW rc \in BOOLEAN, NEW rv \in BOOLEAN,
         Sync(put, get, wc, wd, rc, rv),
         mode' \in {"BYPASS", "DRAM"}, out' \in Word,
         mode = "BYPASS" /\ mode' = "DRAM" => Len(latch) = 2 * Ratio,
         mode = "DRAM" /\ mode' = "BYPASS" => Drained
  PROVE  IInv'
  <1> USE DEF Sync
  <1>1. latch' \in Seq(Word) /\ Len(latch') <= 2 * Ratio /\ in' \in Word
        /\ (Pack(wd) => Head(latch) \in Word)
    BY LatchFifoType DEF LatchPop
  <1>2. wbuf' \in Seq(Word) /\ Len(wbuf') <= Ratio
    BY <1>1, ConvWType
  <1>3. /\ level' \in 0 .. CtrlDepth /\ produce' \in Addr /\ consume' \in Addr
        /\ PointersAgree'
        /\ ~Write(wd) /\ level = 0 => level' = 0
    <2>1. level \in 0 .. CtrlDepth
      BY DEF IInv, TypeOK
    <2> QED
      BY <2>1, CtrlType, CtrlDepthAssumption
  <1>4. mem' \in [Addr -> Block]
    BY WriteType
  <1>5. /\ WriteSlotReady' /\ sendcmdW' \in BOOLEAN /\ senddata' \in BOOLEAN
        /\ wport' \in Addr \cup {None}
        /\ ~Pending => wport' = None
    BY <1>1, WriterStep
  <1>6. /\ ReadInTurn'
        /\ sendcmdR' \in BOOLEAN /\ mux' \in 0 .. Ratio - 1
        /\ rfifo' \in Seq(Block) /\ Len(rfifo') <= 2
        /\ rport' \in Addr \cup {None}
        /\ ~Readable => rport' = None /\ rfifo' = << >> /\ mux' = 0
    BY ReaderStep
  <1>7. /\ opened' \in BOOLEAN /\ counter' \in 0 .. Ratio - 1
        /\ GroupWhole'
        /\ mode' = "BYPASS" => wbuf' = << >> /\ counter' = 0
    BY LatchGateStep
  <1>8. TypeOK'
    BY <1>1, <1>2, <1>3, <1>4, <1>5, <1>6, <1>7, Zenon DEF TypeOK
  <1>9. BypassDrained'
    <2> SUFFICES ASSUME mode' = "BYPASS"
                 PROVE  level' = 0 /\ rfifo' = << >> /\ mux' = 0
                        /\ wport' = None /\ rport' = None
      BY <1>7 DEF BypassDrained
    <2>1. ~Pending /\ level = 0
      <3>1. CASE mode = "BYPASS"
        BY <3>1, RatioAssumption DEF IInv, BypassDrained, Pending
      <3>2. CASE mode = "DRAM"
        BY <3>2, CtrlDepthAssumption DEF IInv, TypeOK, Drained, Readable
      <3> QED
        BY <3>1, <3>2 DEF IInv, TypeOK
    <2>2. ~Write(wd) /\ ~Readable
      BY <2>1 DEF Write, WriteDataValid, Readable
    <2> QED
      BY <1>3, <1>5, <1>6, <2>1, <2>2
  <1> QED
    BY <1>3, <1>5, <1>6, <1>7, <1>8, <1>9, Zenon DEF IInv

(* A cycle in either state of the router, and a stutter, keep the invariant. *)
LEMMA NextIInv == IInv /\ [Next]_vars => IInv'
  <1> SUFFICES ASSUME IInv, [Next]_vars PROVE IInv'
    OBVIOUS
  <1>1. ASSUME NEW put \in BOOLEAN, NEW get \in BOOLEAN, NEW wc \in BOOLEAN,
               NEW wd \in BOOLEAN, NEW rc \in BOOLEAN, NEW rv \in BOOLEAN,
               Bypass(put, get, wc, wd, rc, rv)
        PROVE  IInv'
    <2>1. out' \in Word
      <3>1. LatchPop(get, wd) => Head(latch) \in Word
        BY <1>1, LatchFifoType DEF Bypass, Sync
      <3> QED
        BY <1>1, <3>1 DEF Bypass, IInv, TypeOK
    <2>2. mode = "BYPASS" /\ mode' \in {"BYPASS", "DRAM"}
          /\ (mode' = "DRAM" => Len(latch) = 2 * Ratio)
      BY <1>1 DEF Bypass
    <2> QED
      BY <1>1, <2>1, <2>2, SyncStep DEF Bypass
  <1>2. ASSUME NEW put \in BOOLEAN, NEW get \in BOOLEAN, NEW wc \in BOOLEAN,
               NEW wd \in BOOLEAN, NEW rc \in BOOLEAN, NEW rv \in BOOLEAN,
               Dram(put, get, wc, wd, rc, rv)
        PROVE  IInv'
    <2>1. out' \in Word
      <3>1. CASE Unpack(get)
        <4>1. rfifo \in Seq(Block) /\ rfifo # << >> /\ mux \in 0 .. Ratio - 1
          BY <3>1 DEF IInv, TypeOK, Unpack
        <4>2. rfifo[1] \in Block
          BY <4>1, EmptySeq, ElementOfSeq
        <4>3. rfifo[1][mux + 1] \in Word
          BY <4>1, <4>2, RatioAssumption DEF Block
        <4> QED
          BY <1>2, <3>1, <4>3 DEF Dram
      <3>2. CASE ~Unpack(get)
        BY <1>2, <3>2 DEF Dram, IInv, TypeOK
      <3> QED
        BY <3>1, <3>2
    <2>2. mode = "DRAM" /\ mode' \in {"BYPASS", "DRAM"} /\ (mode' = "BYPASS" => Drained)
      BY <1>2 DEF Dram
    <2> QED
      BY <1>2, <2>1, <2>2, SyncStep DEF Dram
  <1>3. CASE UNCHANGED vars
    BY <1>3 DEF vars, latchVars, writerVars, ctrlVars, readerVars, portVars,
       IInv, TypeOK, BypassDrained, GroupWhole, WriteSlotReady, ReadInTurn,
       PointersAgree, Pending, WriteDataValid, Writable
  <1> QED
    BY <1>1, <1>2, <1>3 DEF Next, Cycle

(* The six invariants of the DRAM FIFO together: no cycle breaks them,     *)
(* whatever the producer, the consumer and the memory controller do.       *)
THEOREM Invariance == Spec => []IInv
  BY InitIInv, NextIInv, PTL DEF Spec

-----------------------------------------------------------------------------
(* Every register keeps its type and its width. *)
THEOREM TypeCorrect == Spec => []TypeOK
  BY Invariance, PTL DEF IInv

(* The return to BYPASS (dramfifo.py:165) leaves nothing in the DRAM path. *)
THEOREM NothingLeftBehind == Spec => []BypassDrained
  BY Invariance, PTL DEF IInv

(* The latch releases whole blocks (dramfifo.py:112-122). *)
THEOREM BlocksComplete == Spec => []GroupWhole
  BY Invariance, PTL DEF IInv

(* A whole block is there whenever the controller strobes for the data of  *)
(* a write it has accepted (dramfifo.py:183-209).                          *)
THEOREM DataAtStrobe == Spec => []WriteSlotReady
  BY Invariance, PTL DEF IInv

(* An answer of the controller is the block the reader asked for, and it   *)
(* finds the reader's FIFO empty (dramfifo.py:229-252).                    *)
THEOREM AnswersFindRoom == Spec => []ReadInTurn
  BY Invariance, PTL DEF IInv

(* Level and addresses of the ring agree with each other and with what was *)
(* written and not yet read (dramfifo.py:50-62).                           *)
THEOREM RingAgrees == Spec => []PointersAgree
  BY Invariance, PTL DEF IInv

-----------------------------------------------------------------------------
(* The words of a block are numbered from 0 in a ring of words.            *)
LEMMA DivMod ==
  ASSUME NEW r \in Nat, r >= 1, NEW k \in Nat
  PROVE  /\ k \div r \in Nat /\ k % r \in 0 .. r - 1
         /\ (r + k) \div r = 1 + (k \div r) /\ (r + k) % r = k % r
         /\ \A n \in Nat : k < n * r => k \div r < n
         /\ \A n \in Nat, m \in 0 .. r - 1 :
              (n * r + m) \div r = n /\ (n * r + m) % r = m
  <1>1. k \div r \in Nat /\ k % r \in 0 .. r - 1
    OBVIOUS
  <1>2. (r + k) \div r = 1 + (k \div r)
    OBVIOUS
  <1>3. (r + k) % r = k % r
    <2>1. \A l \in Nat : l = r * (l \div r) + (l % r)
      OBVIOUS
    <2>2. k = r * (k \div r) + (k % r) /\ r + k = r * ((r + k) \div r) + ((r + k) % r)
      BY <2>1
    <2>3. r * ((r + k) \div r) = r + r * (k \div r)
      BY <1>1, <1>2
    <2>4. (r + k) % r \in Int /\ r * (k \div r) \in Int
      BY <1>1
    <2> QED
      BY <1>1, <2>2, <2>3, <2>4
  <1>4. ASSUME NEW n \in Nat, k < n * r PROVE k \div r < n
    BY <1>4
  <1>5. ASSUME NEW n \in Nat, NEW m \in 0 .. r - 1
        PROVE  (n * r + m) \div r = n /\ (n * r + m) % r = m
    OBVIOUS
  <1> QED
    BY <1>1, <1>2, <1>3, <1>4, <1>5

(* The slot of the ring x blocks after address c. *)
Slot(c, x) == (c + x) % CtrlDepth

(* The slots of the ring that are in use are all different, and the next   *)
(* one to be written is none of them.                                      *)
LEMMA SlotProperties ==
  ASSUME IInv, NEW x \in 0 .. CtrlDepth - 1
  PROVE  /\ Slot(consume, x) \in Addr
         /\ Slot(consume, 0) = consume
         /\ x + 1 < CtrlDepth => Slot(Inc(consume), x) = Slot(consume, x + 1)
         /\ level < CtrlDepth => produce = Slot(consume, level)
         /\ x < level /\ level < CtrlDepth => Slot(consume, x) # produce
  <1>1. /\ consume \in 0 .. CtrlDepth - 1 /\ produce \in 0 .. CtrlDepth - 1
        /\ level \in 0 .. CtrlDepth /\ CtrlDepth \in Nat /\ CtrlDepth >= 1
        /\ produce \in {consume + level, consume + level - CtrlDepth}
    BY CtrlDepthAssumption DEF IInv, TypeOK, Addr, PointersAgree
  <1>2. ASSUME NEW c \in 0 .. CtrlDepth - 1, NEW y \in 0 .. CtrlDepth - 1
        PROVE  Slot(c, y) = IF c + y < CtrlDepth THEN c + y ELSE c + y - CtrlDepth
    BY <1>1 DEF Slot
  <1>3. Inc(consume) \in 0 .. CtrlDepth - 1
    BY <1>1 DEF Inc
  <1>4. Slot(consume, x) = IF consume + x < CtrlDepth THEN consume + x
                                                      ELSE consume + x - CtrlDepth
    BY <1>1, <1>2
  <1>5. Slot(consume, 0) = consume
    BY <1>1, <1>2
  <1>6. x + 1 < CtrlDepth => Slot(Inc(consume), x) = Slot(consume, x + 1)
    BY <1>1, <1>2, <1>3 DEF Inc
  <1>7. level < CtrlDepth => produce = Slot(consume, level)
    <2> SUFFICES ASSUME level < CtrlDepth PROVE produce = Slot(consume, level)
      OBVIOUS
    <2>1. Slot(consume, level) = IF consume + level < CtrlDepth THEN consume + level
                                                     ELSE consume + level - CtrlDepth
      BY <1>1, <1>2
    <2> QED
      BY <1>1, <2>1
  <1>8. x < level /\ level < CtrlDepth => Slot(consume, x) # produce
    BY <1>1, <1>4
  <1> QED
    BY <1>1, <1>4, <1>5, <1>6, <1>7, <1>8 DEF Addr

(* Word k of those in the ring, from 0, and the part of them that conv_r   *)
(* has not delivered yet.                                                  *)
Cell(k) == mem[Slot(consume, k \div Ratio)][(k % Ratio) + 1]
DramPart == SubSeq(DramWords, mux + 1, level * Ratio)

DramShape ==
  /\ DramPart \in Seq(Word) /\ Len(DramPart) = level * Ratio - mux
  /\ level * Ratio \in Nat /\ mux \in Nat /\ mux <= level * Ratio
  /\ level > 0 => mux < level * Ratio
  /\ \A j \in 1 .. level * Ratio - mux : DramPart[j] = Cell(mux + j - 1)

(* The words in the ring, one by one. *)
LEMMA DramPartShape == IInv => DramShape
  <1> SUFFICES ASSUME IInv PROVE DramShape
    OBVIOUS
  <1>1. /\ level \in 0 .. CtrlDepth /\ mux \in 0 .. Ratio - 1 /\ CtrlDepth \in Nat
        /\ Ratio \in Nat /\ Ratio >= 2 /\ mem \in [Addr -> Block] /\ level \in Nat
    BY CtrlDepthAssumption, RatioAssumption DEF IInv, TypeOK
  <1>2. level * Ratio \in Nat /\ (level > 0 => level * Ratio >= Ratio)
    BY <1>1
  <1>3. level = 0 => mux = 0
    BY DEF IInv, ReadInTurn, TypeOK
  <1>4. mux <= level * Ratio /\ (level > 0 => mux < level * Ratio)
    BY <1>1, <1>2, <1>3
  <1>5. ASSUME NEW k \in 0 .. level * Ratio - 1 PROVE Cell(k) \in Word
    <2>1. k \div Ratio \in 0 .. CtrlDepth - 1 /\ k % Ratio \in 0 .. Ratio - 1
      <3>1. k \in Nat /\ k < level * Ratio
        BY <1>1, <1>2
      <3>2. k \div Ratio \in Nat /\ k % Ratio \in 0 .. Ratio - 1
        BY <1>1, <3>1
      <3>3. k \div Ratio < level
        BY <1>1, <3>1
      <3> QED
        BY <1>1, <3>2, <3>3
    <2>2. Slot(consume, k \div Ratio) \in Addr
      BY <2>1, SlotProperties
    <2> QED
      BY <1>1, <2>1, <2>2 DEF Cell, Block
  <1>6. \A i \in mux + 1 .. level * Ratio : DramWords[i] = Cell(i - 1)
    BY <1>1, <1>2 DEF DramWords, Cell, Slot
  <1>7. \A i \in mux + 1 .. level * Ratio : DramWords[i] \in Word
    BY <1>1, <1>2, <1>5, <1>6
  <1>8. /\ DramPart \in Seq(Word)
        /\ Len(DramPart) = IF mux + 1 <= level * Ratio THEN level * Ratio - (mux + 1) + 1 ELSE 0
        /\ \A j \in 1 .. level * Ratio - (mux + 1) + 1 :
             DramPart[j] = DramWords[mux + 1 + j - 1]
    BY <1>1, <1>2, <1>7, SubSeqProperties DEF DramPart
  <1>9. ASSUME NEW j \in 1 .. level * Ratio - mux PROVE DramPart[j] = Cell(mux + j - 1)
    <2>1. DramPart[j] = DramWords[mux + j]
      BY <1>1, <1>2, <1>8
    <2> QED
      BY <1>1, <1>2, <1>6, <2>1
  <1>10. Len(DramPart) = level * Ratio - mux
    BY <1>1, <1>2, <1>4, <1>8
  <1>11. mux \in Nat
    BY <1>1
  <1> QED
    BY <1>2, <1>4, <1>8, <1>9, <1>10, <1>11 DEF DramShape

(* A word unpacked leaves the front of the ring, a block written joins its *)
(* end: also when both happen in a cycle, and when a block is used up.     *)
LEMMA DramPartStep ==
  ASSUME IInv, IInv', NEW get \in BOOLEAN, NEW wc \in BOOLEAN, NEW wd \in BOOLEAN,
         NEW rc \in BOOLEAN, NEW rv \in BOOLEAN,
         PortSync(wc, wd, rc, rv), CtrlSync(get, wd), ReaderSync(rc, rv, get)
  PROVE  /\ DramPart \in Seq(Word) /\ DramPart' \in Seq(Word)
         /\ DramPart' = (IF Unpack(get) THEN Tail(DramPart) ELSE DramPart)
                          \o (IF Write(wd) THEN wbuf ELSE << >>)
         /\ Unpack(get) => DramPart # << >> /\ Head(DramPart) = rfifo[1][mux + 1]
  <1> DEFINE u == IF Unpack(get) THEN 1 ELSE 0
             old == IF Read(get) THEN Ratio ELSE 0
             keep == IF Unpack(get) THEN Tail(DramPart) ELSE DramPart
             new == IF Write(wd) THEN wbuf ELSE << >>
             Mem(k) == mem'[Slot(consume, k \div Ratio)][(k % Ratio) + 1]
             NewCell(k) == mem'[Slot(consume', k \div Ratio)][(k % Ratio) + 1]
  <1>1. /\ level \in 0 .. CtrlDepth /\ mux \in 0 .. Ratio - 1 /\ CtrlDepth \in Nat
        /\ Ratio \in Nat /\ Ratio >= 2 /\ mem \in [Addr -> Block] /\ level \in Nat
        /\ produce \in Addr /\ wbuf \in Seq(Word) /\ CtrlDepth >= 1
    BY CtrlDepthAssumption, RatioAssumption DEF IInv, TypeOK
  <1>2. DramShape
    BY DramPartShape
  <1>3. /\ DramPart' \in Seq(Word) /\ Len(DramPart') = level' * Ratio - mux'
        /\ level' * Ratio \in Nat /\ mux' \in Nat
        /\ \A j \in 1 .. level' * Ratio - mux' : DramPart'[j] = NewCell(mux' + j - 1)
    <2>1. DramShape'
      BY DramPartShape, PTL
    <2> QED
      BY <2>1 DEF DramShape, Cell, Slot, Word
  <1>4. Unpack(get) => /\ level > 0 /\ rfifo = <<mem[consume]>> /\ mux < level * Ratio
                       /\ DramPart # << >>
    BY <1>2, EmptySeq DEF Unpack, IInv, ReadInTurn, DramShape
  <1>5. Read(get) => Unpack(get) /\ mux = Ratio - 1
    BY DEF Read
  <1>6. /\ level' = level + (IF Write(wd) THEN 1 ELSE 0) - (IF Read(get) THEN 1 ELSE 0)
        /\ Write(wd) => level < CtrlDepth
        /\ level' \in Nat
    BY <1>1, CtrlType
  <1>7. mux' + old = mux + u
    BY <1>1, <1>5 DEF ReaderSync
  <1>8. level' * Ratio + old = level * Ratio + (IF Write(wd) THEN Ratio ELSE 0)
    <2>1. (level + 1) * Ratio = level * Ratio + Ratio
      BY <1>1
    <2>2. Read(get) => (level - 1) * Ratio = level * Ratio - Ratio
      BY <1>1
    <2> QED
      BY <1>1, <1>6, <2>1, <2>2
  <1>9. Len(new) = (IF Write(wd) THEN Ratio ELSE 0) /\ new \in Seq(Word)
    BY <1>1 DEF Write, WriteDataValid, Pending
  <1>10. /\ keep \in Seq(Word) /\ Len(keep) = level * Ratio - mux - u
         /\ \A j \in 1 .. Len(keep) : keep[j] = Cell(mux + u + j - 1)
    <2>1. CASE Unpack(get)
      <3>1. /\ keep \in Seq(Word) /\ Len(keep) = Len(DramPart) - 1
            /\ \A j \in 1 .. Len(keep) : keep[j] = DramPart[j + 1]
        BY <1>2, <1>4, <2>1, HeadTailProperties DEF DramShape
      <3>2. ASSUME NEW j \in 1 .. Len(keep) PROVE keep[j] = Cell(mux + u + j - 1)
        <4>1. j + 1 \in 1 .. level * Ratio - mux /\ mux + (j + 1) - 1 = mux + u + j - 1
          BY <1>1, <1>2, <2>1, <3>1 DEF DramShape
        <4> QED
          BY <1>2, <3>1, <4>1 DEF DramShape
      <3> QED
        BY <1>1, <1>2, <2>1, <3>1, <3>2 DEF DramShape
    <2>2. CASE ~Unpack(get)
      BY <1>1, <1>2, <2>2 DEF DramShape
    <2> QED
      BY <2>1, <2>2
  <1>11. ASSUME NEW k \in 0 .. level * Ratio - 1 PROVE Mem(k) = Cell(k)
    <2>1. k \in Nat /\ k < level * Ratio
      BY <1>1, <1>2 DEF DramShape
    <2>2. k \div Ratio \in Nat /\ k \div Ratio < level
      BY <1>1, <2>1
    <2>3. k \div Ratio \in 0 .. CtrlDepth - 1
      BY <1>1, <2>2
    <2>4. Slot(consume, k \div Ratio) \in Addr
      BY <2>3, SlotProperties
    <2>5. CASE mem' = mem
      BY <2>5 DEF Cell
    <2>6. CASE mem' # mem
      <3>1. Write(wd) /\ mem' = [mem EXCEPT ![produce] = wbuf]
        BY <2>6, WriteType
      <3>2. Slot(consume, k \div Ratio) # produce
        BY <1>6, <2>2, <2>3, <3>1, SlotProperties
      <3>3. mem'[Slot(consume, k \div Ratio)] = mem[Slot(consume, k \div Ratio)]
        BY <1>1, <2>4, <3>1, <3>2
      <3> QED
        BY <3>3 DEF Cell
    <2> QED
      BY <2>5, <2>6
  <1>12. ASSUME Write(wd), NEW m \in 0 .. Ratio - 1 PROVE Mem(level * Ratio + m) = wbuf[m + 1]
    <2>2. (level * Ratio + m) \div Ratio = level /\ (level * Ratio + m) % Ratio = m
      BY <1>1
    <2>3. Slot(consume, level) = produce
      <3>1. 0 \in 0 .. CtrlDepth - 1
        BY <1>1
      <3> QED
        BY <1>6, <1>12, <3>1, SlotProperties
    <2>4. mem'[produce] = wbuf
      BY <1>1, <1>12, WriteType DEF PortSync, IInv, WriteSlotReady, Write
    <2> QED
      BY <2>2, <2>3, <2>4
  <1>13. ASSUME NEW k \in 0 .. level' * Ratio - 1 PROVE NewCell(k) = Mem(k + old)
    <2>1. k \in Nat /\ k < level' * Ratio
      BY <1>1, <1>3
    <2>2. k \div Ratio \in Nat /\ k \div Ratio < level'
      BY <1>1, <1>6, <2>1
    <2>3. CASE Read(get)
      <3>1. (k + Ratio) \div Ratio = (k \div Ratio) + 1 /\ (k + Ratio) % Ratio = k % Ratio
        <4>1. k + Ratio = Ratio + k
          BY <1>1, <2>1
        <4>2. (Ratio + k) \div Ratio = 1 + (k \div Ratio) /\ (Ratio + k) % Ratio = k % Ratio
          BY <1>1, <2>1, DivMod
        <4> QED
          BY <2>2, <4>1, <4>2
      <3>2. consume' = Inc(consume)
        BY <2>3 DEF CtrlSync
      <3>3. k \div Ratio \in 0 .. CtrlDepth - 1 /\ (k \div Ratio) + 1 < CtrlDepth
        BY <1>1, <1>6, <2>2, <2>3
      <3>4. Slot(Inc(consume), k \div Ratio) = Slot(consume, (k \div Ratio) + 1)
        BY <3>3, SlotProperties
      <3> QED
        BY <2>3, <3>1, <3>2, <3>4
    <2>4. CASE ~Read(get)
      <3>1. consume' = consume /\ k + old = k
        BY <2>1, <2>4 DEF CtrlSync
      <3> QED
        BY <3>1
    <2> QED
      BY <2>3, <2>4
  <1> DEFINE full == level * Ratio
             full2 == level' * Ratio
             mux2 == mux'
             w == IF Write(wd) THEN Ratio ELSE 0
  <1>sizes. /\ u \in Nat /\ old \in Nat /\ w \in Nat /\ mux \in Nat /\ mux2 \in Nat
        /\ full \in Nat /\ full2 \in Nat /\ mux <= full
        /\ mux2 + old = mux + u /\ full2 + old = full + w
        /\ Len(keep) = full - mux - u /\ Len(new) = w /\ Len(DramPart') = full2 - mux2
        /\ Len(keep) \in Nat
    BY <1>1, <1>2, <1>3, <1>7, <1>8, <1>9, <1>10, LenProperties DEF DramShape
  <1>shown. \A j \in 1 .. full2 - mux2 : DramPart'[j] = NewCell(mux2 + j - 1)
    BY <1>3
  <1>moved. \A k \in 0 .. full2 - 1 : NewCell(k) = Mem(k + old)
    BY <1>13
  <1>kept. \A k \in 0 .. full - 1 : Mem(k) = Cell(k)
    BY <1>11
  <1>written. ASSUME Write(wd), NEW m \in 0 .. Ratio - 1 PROVE Mem(full + m) = wbuf[m + 1]
    BY <1>12, <1>written
  <1> HIDE DEF u, old, keep, new, Mem, NewCell, full, full2, mux2, w
  <1>14. Len(DramPart') = Len(keep) + Len(new)
    BY <1>sizes
  <1>15. ASSUME NEW j \in 1 .. Len(DramPart') PROVE DramPart'[j] = (keep \o new)[j]
    <2>1. DramPart'[j] = Mem(mux + u + j - 1)
      <3>1. /\ j \in 1 .. full2 - mux2 /\ mux2 + j - 1 \in 0 .. full2 - 1
            /\ (mux2 + j - 1) + old = mux + u + j - 1
        BY <1>sizes, <1>15
      <3> QED
        BY <1>shown, <1>moved, <3>1
    <2>2. (keep \o new)[j] = IF j <= Len(keep) THEN keep[j] ELSE new[j - Len(keep)]
      BY <1>9, <1>10, <1>14, <1>15, ConcatProperties
    <2>3. CASE j <= Len(keep)
      <3>1. j \in 1 .. Len(keep) /\ mux + u + j - 1 \in 0 .. full - 1
        BY <1>sizes, <1>15, <2>3
      <3> QED
        BY <1>kept, <1>10, <2>1, <2>2, <2>3, <3>1
    <2>4. CASE ~(j <= Len(keep))
      <3>1. j - Len(keep) - 1 \in 0 .. w - 1
        BY <1>sizes, <1>14, <1>15, <2>4
      <3>2. Write(wd) /\ j - Len(keep) - 1 \in 0 .. Ratio - 1 /\ new = wbuf
        BY <1>1, <3>1 DEF w, new
      <3>3. mux + u + j - 1 = full + (j - Len(keep) - 1)
            /\ (j - Len(keep) - 1) + 1 = j - Len(keep)
        BY <1>sizes, <1>15
      <3>4. Mem(full + (j - Len(keep) - 1)) = wbuf[(j - Len(keep) - 1) + 1]
        BY <1>written, <3>2
      <3> QED
        BY <2>1, <2>2, <2>4, <3>2, <3>3, <3>4
    <2> QED
      BY <2>3, <2>4
  <1>16. DramPart' = keep \o new
    <2>1. keep \o new \in Seq(Word) /\ Len(keep \o new) = Len(keep) + Len(new)
      BY <1>9, <1>10, ConcatProperties
    <2> QED
      BY <1>3, <1>14, <1>15, <2>1, SeqEqual
  <1>17. Unpack(get) => Head(DramPart) = rfifo[1][mux + 1]
    <2> SUFFICES ASSUME Unpack(get) PROVE Head(DramPart) = rfifo[1][mux + 1]
      OBVIOUS
    <2>1. Head(DramPart) = Cell(mux)
      <3>1. 1 \in 1 .. level * Ratio - mux /\ mux + 1 - 1 = mux
        BY <1>1, <1>2, <1>4 DEF DramShape
      <3> QED
        BY <1>2, <1>4, <3>1 DEF DramShape
    <2>2. mux \div Ratio = 0 /\ mux % Ratio = mux
      BY <1>1
    <2>3. Slot(consume, 0) = consume
      <3>1. 0 \in 0 .. CtrlDepth - 1
        BY <1>1
      <3> QED
        BY <3>1, SlotProperties
    <2> QED
      BY <1>4, <2>1, <2>2, <2>3 DEF Cell
  <1> QED
    BY <1>2, <1>3, <1>4, <1>16, <1>17 DEF DramShape, keep, new

-----------------------------------------------------------------------------
(* The front of a queue made of two, and a word that joins it, or crosses  *)
(* from the second to the first.                                           *)
LEMMA TwoQueues ==
  ASSUME NEW S, NEW s \in Seq(S), NEW t \in Seq(S)
  PROVE  /\ s \o t \in Seq(S)
         /\ s # << >> => /\ s \o t # << >> /\ Head(s \o t) = Head(s)
                         /\ Tail(s \o t) = Tail(s) \o t
         /\ \A w \in S : s \o Append(t, w) = Append(s \o t, w)
         /\ t # << >> => Append(s, Head(t)) \o Tail(t) = s \o t
  <1>1. s \o t \in Seq(S) /\ Len(s \o t) = Len(s) + Len(t)
        /\ \A i \in 1 .. Len(s) + Len(t) :
             (s \o t)[i] = IF i <= Len(s) THEN s[i] ELSE t[i - Len(s)]
    BY ConcatProperties
  <1>2. ASSUME NEW w \in S PROVE s \o Append(t, w) = Append(s \o t, w)
    <2>1. Append(t, w) = t \o <<w>> /\ <<w>> \in Seq(S)
      BY AppendIsConcat
    <2>2. s \o (t \o <<w>>) = (s \o t) \o <<w>>
      BY <2>1, ConcatAssociative
    <2>3. Append(s \o t, w) = (s \o t) \o <<w>>
      BY <1>1, AppendIsConcat
    <2> QED
      BY <2>1, <2>2, <2>3
  <1>3. ASSUME t # << >> PROVE Append(s, Head(t)) \o Tail(t) = s \o t
    <2>1. Head(t) \in S /\ Tail(t) \in Seq(S) /\ <<Head(t)>> \in Seq(S)
      BY <1>3, HeadTailProperties
    <2>2. Append(s, Head(t)) = s \o <<Head(t)>>
      BY <2>1, AppendIsConcat
    <2>3. (s \o <<Head(t)>>) \o Tail(t) = s \o (<<Head(t)>> \o Tail(t))
      BY <2>1, ConcatAssociative
    <2>4. <<Head(t)>> \o Tail(t) = t
      BY <1>3, HeadTailProperties
    <2> QED
      BY <2>2, <2>3, <2>4
  <1>4. ASSUME s # << >>
        PROVE  /\ s \o t # << >> /\ Head(s \o t) = Head(s)
               /\ Tail(s \o t) = Tail(s) \o t
    <2>1. Len(s) \in Nat /\ Len(s) > 0 /\ Len(t) \in Nat
      BY <1>4, EmptySeq, LenProperties
    <2>2. s \o t # << >>
      BY <1>1, <2>1, EmptySeq
    <2>3. Head(s \o t) = Head(s)
      BY <1>1, <1>4, <2>1, <2>2, HeadTailProperties
    <2>4. /\ Tail(s) \in Seq(S) /\ Len(Tail(s)) = Len(s) - 1
          /\ \A i \in 1 .. Len(Tail(s)) : Tail(s)[i] = s[i + 1]
      BY <1>4, HeadTailProperties
    <2>5. /\ Tail(s \o t) \in Seq(S) /\ Len(Tail(s \o t)) = Len(s) + Len(t) - 1
          /\ \A i \in 1 .. Len(Tail(s \o t)) : Tail(s \o t)[i] = (s \o t)[i + 1]
      BY <1>1, <2>2, HeadTailProperties
    <2>6. /\ Tail(s) \o t \in Seq(S) /\ Len(Tail(s) \o t) = Len(s) - 1 + Len(t)
          /\ \A i \in 1 .. Len(s) - 1 + Len(t) :
               (Tail(s) \o t)[i] = IF i <= Len(s) - 1 THEN Tail(s)[i] ELSE t[i - (Len(s) - 1)]
      BY <2>4, ConcatProperties
    <2>7. \A i \in 1 .. Len(s) + Len(t) - 1 : Tail(s \o t)[i] = (Tail(s) \o t)[i]
      BY <1>1, <2>1, <2>4, <2>5, <2>6
    <2>8. Tail(s \o t) = Tail(s) \o t
      BY <2>1, <2>5, <2>6, <2>7, SeqEqual
    <2> QED
      BY <2>2, <2>3, <2>8
  <1> QED
    BY <1>1, <1>2, <1>3, <1>4

(* The word that leaves in a cycle, by either route. *)
Leaves(get, wd) == Unpack(get) \/ (mode = "BYPASS" /\ LatchPop(get, wd))

(* A word that enters the latch waits behind all the others. *)
LatchLeft(get, wd) == IF LatchPop(get, wd) THEN Tail(latch) ELSE latch

(* What a cycle does to the queue before a new word joins it. *)
OneLeaves(get, wd) ==
  /\ Leaves(get, wd) => Contents # << >>
  /\ out' = IF Leaves(get, wd) THEN Head(Contents) ELSE out
  /\ DramPart' \o wbuf' \o LatchLeft(get, wd)
       = IF Leaves(get, wd) THEN Tail(Contents) ELSE Contents

(* In BYPASS the latch is the whole queue. *)
LEMMA BypassQueue ==
  ASSUME IInv, IInv', NEW put \in BOOLEAN, NEW get \in BOOLEAN, NEW wc \in BOOLEAN,
         NEW wd \in BOOLEAN, NEW rc \in BOOLEAN, NEW rv \in BOOLEAN,
         Bypass(put, get, wc, wd, rc, rv)
  PROVE  OneLeaves(get, wd)
  <1> USE DEF Bypass, Sync
  <1>1. latch \in Seq(Word) /\ wbuf = << >> /\ level = 0 /\ mux = 0 /\ rfifo = << >>
    BY DEF IInv, TypeOK, BypassDrained
  <1>2. ~Pending /\ ~Write(wd) /\ ~Pack(wd) /\ ~Unpack(get)
    BY <1>1, RatioAssumption DEF Pending, Write, WriteDataValid, Pack, Unpack
  <1>3. /\ DramPart \in Seq(Word)
        /\ DramPart' = DramPart \o << >>
    BY <1>2, DramPartStep
  <1>4. DramPart = << >>
    <2>1. Len(DramPart) = 0
      BY <1>1, DramPartShape, RatioAssumption DEF DramShape
    <2> QED
      BY <1>3, <2>1, EmptySeq
  <1>5. DramPart' = << >> /\ wbuf' = << >>
    BY <1>1, <1>2, <1>3, <1>4, ConcatEmptySeq DEF ConvWSync
  <1>6. << >> \o << >> = << >> /\ << >> \o latch = latch
        /\ (latch # << >> => << >> \o Tail(latch) = Tail(latch))
    BY <1>1, EmptySeq, ConcatEmptySeq, HeadTailProperties
  <1>7. Contents = latch
    BY <1>1, <1>4, <1>6 DEF Contents, DramPart
  <1>8. LatchPop(get, wd) => latch # << >>
    BY DEF LatchPop, Pack, LatchValid
  <1>9. Leaves(get, wd) <=> LatchPop(get, wd)
    BY <1>2 DEF Leaves
  <1> QED
    BY <1>5, <1>6, <1>7, <1>8, <1>9 DEF LatchLeft, OneLeaves

(* In DRAM mode the words go from the latch through conv_w to the ring and *)
(* out of it, and keep their order.                                        *)
LEMMA DramQueue ==
  ASSUME IInv, IInv', NEW put \in BOOLEAN, NEW get \in BOOLEAN, NEW wc \in BOOLEAN,
         NEW wd \in BOOLEAN, NEW rc \in BOOLEAN, NEW rv \in BOOLEAN,
         Dram(put, get, wc, wd, rc, rv)
  PROVE  OneLeaves(get, wd)
  <1> USE DEF Dram, Sync
  <1> DEFINE keep == IF Unpack(get) THEN Tail(DramPart) ELSE DramPart
             new == IF Write(wd) THEN wbuf ELSE << >>
             left == IF Write(wd) THEN << >> ELSE wbuf
  <1>1. latch \in Seq(Word) /\ wbuf \in Seq(Word) /\ << >> \in Seq(Word)
    BY EmptySeq DEF IInv, TypeOK
  <1>2. /\ DramPart \in Seq(Word) /\ DramPart' \in Seq(Word)
        /\ DramPart' = keep \o new
        /\ Unpack(get) => DramPart # << >> /\ Head(DramPart) = rfifo[1][mux + 1]
    BY DramPartStep
  <1>3. keep \in Seq(Word) /\ left \in Seq(Word)
    BY <1>1, <1>2, HeadTailProperties
  <1>4. (Leaves(get, wd) <=> Unpack(get)) /\ (LatchPop(get, wd) <=> Pack(wd))
    BY DEF Leaves, LatchPop
  <1>5. DramPart' \o left = keep \o wbuf
    <2>1. CASE Write(wd)
      BY <1>2, <2>1, ConcatEmptySeq
    <2>2. CASE ~Write(wd)
      BY <1>2, <1>3, <2>2, ConcatEmptySeq
    <2> QED
      BY <2>1, <2>2
  <1>6. DramPart' \o wbuf' \o LatchLeft(get, wd) = (keep \o wbuf) \o latch
    <2>1. CASE Pack(wd)
      <3>1. latch # << >> /\ Head(latch) \in Word
        BY <1>1, <2>1, HeadTailProperties DEF Pack, LatchValid
      <3>2. wbuf' = Append(left, Head(latch)) /\ LatchLeft(get, wd) = Tail(latch)
        BY <1>4, <2>1 DEF ConvWSync, LatchLeft
      <3> HIDE DEF keep, left, new
      <3>3. DramPart' \o Append(left, Head(latch)) = Append(DramPart' \o left, Head(latch))
        BY <1>2, <1>3, <3>1, TwoQueues
      <3>4. keep \o wbuf \in Seq(Word)
        BY <1>1, <1>3, TwoQueues
      <3>5. ASSUME NEW q \in Seq(Word)
            PROVE  Append(q, Head(latch)) \o Tail(latch) = q \o latch
        <4>1. latch \in Seq(Word) /\ latch # << >>
          BY <1>1, <3>1
        <4> QED
          BY <4>1, TwoQueues
      <3>6. Append(keep \o wbuf, Head(latch)) \o Tail(latch) = (keep \o wbuf) \o latch
        BY <3>4, <3>5
      <3> QED
        BY <1>5, <3>2, <3>3, <3>6
    <2>2. CASE ~Pack(wd)
      <3>1. wbuf' = left /\ LatchLeft(get, wd) = latch
        BY <1>4, <2>2 DEF ConvWSync, LatchLeft
      <3> QED
        BY <1>5, <3>1
    <2> QED
      BY <2>1, <2>2
  <1>7. Contents = (DramPart \o wbuf) \o latch
    BY DEF Contents, DramPart
  <1>8. CASE Unpack(get)
    <2>1. /\ DramPart \o wbuf \in Seq(Word) /\ DramPart \o wbuf # << >>
          /\ Head(DramPart \o wbuf) = Head(DramPart)
          /\ Tail(DramPart \o wbuf) = Tail(DramPart) \o wbuf
      BY <1>1, <1>2, <1>8, TwoQueues
    <2>2. /\ Contents # << >> /\ Head(Contents) = Head(DramPart)
          /\ Tail(Contents) = (Tail(DramPart) \o wbuf) \o latch
      BY <1>1, <1>7, <2>1, TwoQueues
    <2>3. out' = Head(DramPart)
      BY <1>2, <1>8
    <2> QED
      BY <1>4, <1>6, <1>8, <2>2, <2>3 DEF OneLeaves
  <1>9. CASE ~Unpack(get)
    BY <1>4, <1>6, <1>7, <1>9 DEF OneLeaves
  <1> QED
    BY <1>8, <1>9

(* A cycle is a step of the queue, or leaves it alone. *)
LEMMA QueueStep == IInv /\ IInv' /\ [Next]_vars => [Queue!Next]_<<in, Contents, out>>
  <1> SUFFICES ASSUME IInv, IInv', [Next]_vars PROVE [Queue!Next]_<<in, Contents, out>>
    OBVIOUS
  <1>1. ASSUME NEW put \in BOOLEAN, NEW get \in BOOLEAN, NEW wc \in BOOLEAN,
               NEW wd \in BOOLEAN, NEW rc \in BOOLEAN, NEW rv \in BOOLEAN,
               Cycle(put, get, wc, wd, rc, rv)
        PROVE  [Queue!Next]_<<in, Contents, out>>
    <2> DEFINE left == LatchLeft(get, wd)
               mid == DramPart' \o wbuf' \o left
    <2>1. /\ Leaves(get, wd) => Contents # << >>
          /\ out' = IF Leaves(get, wd) THEN Head(Contents) ELSE out
          /\ mid = IF Leaves(get, wd) THEN Tail(Contents) ELSE Contents
      <3>1. OneLeaves(get, wd)
        <4>1. CASE Bypass(put, get, wc, wd, rc, rv)
          BY <4>1, BypassQueue, SMTT(30)
        <4>2. CASE Dram(put, get, wc, wd, rc, rv)
          BY <4>2, DramQueue, ZenonT(60)
        <4> QED
          BY <1>1, <4>1, <4>2 DEF Cycle
      <3> QED
        BY <3>1 DEF OneLeaves
    <2>2. LatchFifoSync(put, get, wd)
      BY <1>1 DEF Cycle, Bypass, Dram, Sync
    <2>3. Contents' = (DramPart' \o wbuf') \o latch'
      BY DEF Contents, DramPart
    <2>4. CASE LatchPush(put)
      <3>1. in' = (in + 1) % Tags /\ latch' = Append(left, in')
        BY <2>2, <2>4 DEF LatchFifoSync, LatchLeft
      <3>2. /\ in' \in Word /\ DramPart' \in Seq(Word) /\ wbuf' \in Seq(Word)
            /\ left \in Seq(Word)
        <4>1. DramShape'
          BY DramPartShape, PTL
        <4>2. left \in Seq(Word)
          BY HeadTailProperties DEF IInv, TypeOK, LatchLeft, LatchPop, Pack, LatchValid
        <4> QED
          BY <4>1, <4>2 DEF DramShape, IInv, TypeOK, Word
      <3>3. DramPart' \o wbuf' \in Seq(Word)
        BY <3>2, ConcatProperties
      <3>4. (DramPart' \o wbuf') \o Append(left, in') = Append(mid, in')
        BY <3>2, <3>3, TwoQueues
      <3>5. Contents' = Append(mid, in')
        BY <2>3, <3>1, <3>4
      <3>6. CASE Leaves(get, wd)
        BY <2>1, <3>1, <3>5, <3>6 DEF Queue!Next, Queue!AcceptDeliver, Queue!Next1
      <3>7. CASE ~Leaves(get, wd)
        BY <2>1, <3>1, <3>5, <3>7 DEF Queue!Next, Queue!Accept, Queue!Next1
      <3> QED
        BY <3>6, <3>7
    <2>5. CASE ~LatchPush(put)
      <3>1. in' = in /\ latch' = left
        BY <2>2, <2>5 DEF LatchFifoSync, LatchLeft
      <3>2. Contents' = mid
        BY <2>3, <3>1
      <3>3. CASE Leaves(get, wd)
        BY <2>1, <3>1, <3>2, <3>3 DEF Queue!Next, Queue!Deliver
      <3>4. CASE ~Leaves(get, wd)
        BY <2>1, <3>1, <3>2, <3>4
      <3> QED
        BY <3>3, <3>4
    <2> QED
      BY <2>4, <2>5
  <1>2. CASE UNCHANGED vars
    BY <1>2 DEF vars, latchVars, writerVars, ctrlVars, readerVars, portVars,
       Contents, DramWords
  <1> QED
    BY <1>1, <1>2 DEF Next

(* dramfifo.py:129-170: whatever the ratio and the depth of the ring, the  *)
(* FIFO is a queue: through both routes and every change of route the      *)
(* words come out once each, in the order they went in.                    *)
THEOREM InOrder == Spec => FifoOrder
  <1>1. Init => Queue!Init
    <2> SUFFICES ASSUME Init PROVE Queue!Init
      OBVIOUS
    <2>1. IInv
      BY InitIInv
    <2>2. DramPart \in Seq(Word) /\ Len(DramPart) = 0
      BY <2>1, DramPartShape, RatioAssumption DEF DramShape, Init
    <2>3. DramPart = << >> /\ << >> \o << >> = << >>
      BY <2>2, EmptySeq, ConcatEmptySeq
    <2>4. Contents = << >>
      BY <2>3 DEF Contents, DramPart, Init
    <2> QED
      BY <2>4 DEF Init, Queue!Init
  <1> QED
    BY <1>1, Invariance, QueueStep, PTL DEF Spec, FifoOrder, Queue!Spec
=============================================================================
