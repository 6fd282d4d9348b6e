------------------------------ MODULE DramFifo ------------------------------
(***************************************************************************)
(* LiteDRAMFIFO (gateware/dramfifo.py): the 128 MB capture FIFO.  A router  *)
(* lets the words through a small latch while the consumer keeps up        *)
(* (BYPASS); once the latch is full they are packed Ratio by Ratio into    *)
(* blocks of the native width, written to a ring of CtrlDepth blocks in    *)
(* the DRAM, read back and unpacked (DRAM), until all of it is drained.    *)
(*                                                                         *)
(* One step is one clock cycle: the operators before the "Sync" ones are   *)
(* the combinational signals, the "Sync" ones are the clocked assignments, *)
(* and the arguments of a cycle are the handshake inputs sampled in it.    *)
(* preserve_first_last is FALSE and the thresholds are the defaults, as in *)
(* usbsniffer.py.                                                          *)
(***************************************************************************)
EXTENDS Integers, Sequences

CONSTANTS Ratio,       \* words in a block of the native width (ctrl_ratio)
          CtrlDepth,   \* blocks in the DRAM ring (ctrl_depth)
          Tags,        \* words are numbered modulo Tags
          None         \* no access outstanding on a port

ASSUME RatioAssumption == Ratio \in Nat /\ Ratio >= 2
ASSUME CtrlDepthAssumption == CtrlDepth \in Nat /\ CtrlDepth >= 1
ASSUME TagsAssumption == Tags \in Nat /\ Tags >= 2
ASSUME NoneAssumption == None \notin Nat

VARIABLES
  mode,        \* state of the router's FSM, "BYPASS" or "DRAM"
  latch,       \* words in the latch's SyncFIFO
  opened,      \* latch: the current group of Ratio words may leave
  counter,     \* latch: words of the current group that have left
  wbuf,        \* words gathered by conv_w; strobe_all when it is full
  sendcmdW,    \* writer: the next access is a command
  senddata,    \* writer: the next access is the data of the command
  level,       \* ctrl: blocks written and not yet consumed
  produce,     \* ctrl.write_address
  consume,     \* ctrl.read_address
  sendcmdR,    \* reader: no block is being read
  rfifo,       \* reader: blocks returned by the DRAM
  mux,         \* conv_r: words of the head block already delivered
  mem,         \* the DRAM
  wport,       \* address of the write command whose data is due
  rport,       \* address of the read command not yet answered
  in, out      \* last word accepted from sink, last word given to source

latchVars == <<latch, opened, counter>>
writerVars == <<wbuf, sendcmdW, senddata>>
ctrlVars == <<level, produce, consume>>
readerVars == <<sendcmdR, rfifo, mux>>
portVars == <<mem, wport, rport>>
vars == <<mode, latchVars, writerVars, ctrlVars, readerVars, portVars, in, out>>

Word == 0 .. Tags - 1
Addr == 0 .. CtrlDepth - 1
Block == [1 .. Ratio -> Word]

(* The instant after the module's reset; what the DRAM holds is arbitrary, *)
(* here word 0 everywhere.                                                 *)
Init ==
  /\ mode = "BYPASS"
  /\ latch = << >> /\ opened = FALSE /\ counter = 0
  /\ wbuf = << >> /\ sendcmdW = TRUE /\ senddata = FALSE
  /\ level = 0 /\ produce = 0 /\ consume = 0
  /\ sendcmdR = TRUE /\ rfifo = << >> /\ mux = 0
  /\ mem = [a \in Addr |-> [i \in 1 .. Ratio |-> 0]]
  /\ wport = None /\ rport = None
  /\ in = Tags - 1 /\ out = Tags - 1

-----------------------------------------------------------------------------
(* Combinational signals. put: sink.valid; get: source.ready; wc, rc: the  *)
(* ports accept a command; wd, rv: the data strobes of the two ports.      *)

Pending == Len(wbuf) = Ratio            \* writer.sink.valid, ctrl.pending
Writable == level < CtrlDepth
Readable == level > 0

WriteCmdValidEarly == Writable /\ sendcmdW          \* mutant
WriteCmdValid == Pending /\ Writable /\ sendcmdW
WriteDataValid == Pending /\ Writable /\ senddata
ReadCmdValidAgain == Readable                      \* mutant
ReadCmdValid == Readable /\ sendcmdR

Write(wd) == WriteDataValid /\ wd                  \* ctrl.write

LatchValid == latch # << >> /\ (mode = "BYPASS" \/ opened)
LatchPushAlways(put) == put                        \* mutant
LatchPush(put) == put /\ Len(latch) < 2 * Ratio
Pack(wd) == mode = "DRAM" /\ LatchValid /\ (~Pending \/ Write(wd))
LatchPop(get, wd) == (mode = "BYPASS" /\ LatchValid /\ get) \/ Pack(wd)

Unpack(get) == mode = "DRAM" /\ rfifo # << >> /\ get
Read(get) == Unpack(get) /\ mux = Ratio - 1        \* ctrl.read

-----------------------------------------------------------------------------
(* Clocked assignments. *)

Inc(a) == IF a = CtrlDepth - 1 THEN 0 ELSE a + 1

CtrlSyncWriteFirst(get, wd) ==                     \* mutant
  /\ produce' = IF Write(wd) THEN Inc(produce) ELSE produce
  /\ consume' = IF Read(get) THEN Inc(consume) ELSE consume
  /\ level' = CASE Write(wd) -> level + 1
                [] Read(get) /\ ~Write(wd) -> level - 1
                [] OTHER -> level

CtrlSync(get, wd) ==
  /\ produce' = IF Write(wd) THEN Inc(produce) ELSE produce
  /\ consume' = IF Read(get) THEN Inc(consume) ELSE consume
  /\ level' = CASE Write(wd) /\ ~Read(get) -> level + 1
                [] Read(get) /\ ~Write(wd) -> level - 1
                [] OTHER -> level

(* The latch's FIFO: the words are numbered as they enter. *)
LatchFifoSync(put, get, wd) ==
  LET left == IF LatchPop(get, wd) THEN Tail(latch) ELSE latch
  IN  IF LatchPush(put)
        THEN in' = (in + 1) % Tags /\ latch' = Append(left, in')
        ELSE UNCHANGED in /\ latch' = left

LatchGateSyncOffByOne(get, wd) ==                  \* mutant
  IF mode = "DRAM" /\ opened
    THEN IF LatchPop(get, wd)
           THEN /\ counter' = IF counter < Ratio - 1 THEN counter + 1 ELSE 0
                /\ opened' = ~(counter = Ratio - 1 /\ Len(latch) < Ratio)
           ELSE UNCHANGED <<counter, opened>>
    ELSE opened' = (opened \/ Len(latch) >= Ratio) /\ UNCHANGED counter

(* In DRAM mode (en) an open latch closes after a whole group, unless the  *)
(* next group is already there; in BYPASS mode nothing closes it.          *)
LatchGateSync(get, wd) ==
  IF mode = "DRAM" /\ opened
    THEN IF LatchPop(get, wd)
           THEN /\ counter' = IF counter < Ratio - 1 THEN counter + 1 ELSE 0
                /\ opened' = ~(counter = Ratio - 1 /\ Len(latch) - 1 < Ratio)
           ELSE UNCHANGED <<counter, opened>>
    ELSE opened' = (opened \/ Len(latch) >= Ratio) /\ UNCHANGED counter

(* conv_w: the block leaves when its data is strobed, and a first word of  *)
(* the next one may take its place in the same cycle.                      *)
ConvWSync(wd) ==
  LET left == IF Write(wd) THEN << >> ELSE wbuf
  IN  wbuf' = IF Pack(wd) THEN Append(left, Head(latch)) ELSE left

WriterSync(wc, wd) ==
  /\ sendcmdW' = (Write(wd) \/ (sendcmdW /\ ~(WriteCmdValid /\ wc)))
  /\ senddata' = (~Write(wd) /\ (senddata \/ (WriteCmdValid /\ wc)))

(* A returned block is lost if the reader's FIFO has no room for it. *)
ReaderSync(rc, rv, get) ==
  /\ sendcmdR' = (Read(get) \/ (sendcmdR /\ ~(ReadCmdValid /\ rc)))
  /\ LET left == IF Read(get) THEN Tail(rfifo) ELSE rfifo
     IN  rfifo' = IF rv /\ Len(rfifo) < 2 THEN Append(left, mem[rport]) ELSE left
  /\ mux' = CASE Read(get) -> 0
              [] Unpack(get) /\ ~Read(get) -> mux + 1
              [] OTHER -> mux

(* The native ports of LiteDRAM. The write data is taken at the strobe,    *)
(* valid or not: what conv_w holds then is what the DRAM gets.             *)
PortSync(wc, wd, rc, rv) ==
  /\ wd => wport # None
  /\ rv => rport # None
  /\ wport' = CASE WriteCmdValid /\ wc -> produce
                [] ~(WriteCmdValid /\ wc) /\ wd -> None
                [] OTHER -> wport
  /\ rport' = CASE ReadCmdValid /\ rc -> consume
                [] ~(ReadCmdValid /\ rc) /\ rv -> None
                [] OTHER -> rport
  /\ mem' = IF wd THEN [mem EXCEPT ![wport] = wbuf] ELSE mem

Sync(put, get, wc, wd, rc, rv) ==
  /\ PortSync(wc, wd, rc, rv)
  /\ CtrlSync(get, wd)
  /\ LatchFifoSync(put, get, wd)
  /\ LatchGateSync(get, wd)
  /\ ConvWSync(wd)
  /\ WriterSync(wc, wd)
  /\ ReaderSync(rc, rv, get)

-----------------------------------------------------------------------------
(* The router's FSM. *)

DrainedUnread == ~LatchValid /\ ~Pending                       \* mutants
DrainedUnwritten == ~LatchValid /\ ~Readable
DrainedEmptyLatch == latch = << >> /\ ~Pending /\ ~Readable
Drained == ~LatchValid /\ ~Pending /\ ~Readable

Bypass(put, get, wc, wd, rc, rv) ==
  /\ mode = "BYPASS"
  /\ mode' = IF Len(latch) = 2 * Ratio THEN "DRAM" ELSE "BYPASS"
  /\ out' = IF LatchPop(get, wd) THEN Head(latch) ELSE out
  /\ Sync(put, get, wc, wd, rc, rv)

Dram(put, get, wc, wd, rc, rv) ==
  /\ mode = "DRAM"
  /\ mode' = IF Drained THEN "BYPASS" ELSE "DRAM"
  /\ out' = IF Unpack(get) THEN rfifo[1][mux + 1] ELSE out
  /\ Sync(put, get, wc, wd, rc, rv)

Cycle(put, get, wc, wd, rc, rv) ==
  Bypass(put, get, wc, wd, rc, rv) \/ Dram(put, get, wc, wd, rc, rv)

Next == \E put, get, wc, wd, rc, rv \in BOOLEAN : Cycle(put, get, wc, wd, rc, rv)

Spec == Init /\ [][Next]_vars

(* The clock runs, which must not mean that words arrive: the fairness is  *)
(* on the registers a cycle can change without one. The consumer takes a   *)
(* word it is offered for ever, and the memory controller serves the       *)
(* commands it is given.                                                   *)
clockVars == <<mode, opened, counter, writerVars, ctrlVars, readerVars, portVars, out>>
Deliver == \E put, wc, wd, rc, rv \in BOOLEAN :
             (LatchPop(TRUE, wd) \/ Unpack(TRUE)) /\ Cycle(put, TRUE, wc, wd, rc, rv)
ServeWriteCmd == \E put, get, wd, rc, rv \in BOOLEAN :
                   WriteCmdValid /\ Cycle(put, get, TRUE, wd, rc, rv)
ServeWriteData == \E put, get, wc, rc, rv \in BOOLEAN :
                    Cycle(put, get, wc, TRUE, rc, rv)
ServeReadCmd == \E put, get, wc, wd, rv \in BOOLEAN :
                  ReadCmdValid /\ Cycle(put, get, wc, wd, TRUE, rv)
ServeReadData == \E put, get, wc, wd, rc \in BOOLEAN :
                   Cycle(put, get, wc, wd, rc, TRUE)

Fairness == /\ WF_clockVars(Next) /\ WF_vars(Deliver)
            /\ WF_vars(ServeWriteCmd) /\ WF_vars(ServeWriteData)
            /\ WF_vars(ServeReadCmd) /\ WF_vars(ServeReadData)

FairSpec == Spec /\ Fairness

-----------------------------------------------------------------------------
(* Type of every register, and the sizes the hardware gives it. *)
TypeOK ==
  /\ mode \in {"BYPASS", "DRAM"}
  /\ latch \in Seq(Word) /\ Len(latch) <= 2 * Ratio
  /\ opened \in BOOLEAN /\ counter \in 0 .. Ratio - 1
  /\ wbuf \in Seq(Word) /\ Len(wbuf) <= Ratio
  /\ sendcmdW \in BOOLEAN /\ senddata \in BOOLEAN
  /\ level \in 0 .. CtrlDepth /\ produce \in Addr /\ consume \in Addr
  /\ sendcmdR \in BOOLEAN /\ rfifo \in Seq(Block) /\ Len(rfifo) <= 2
  /\ mux \in 0 .. Ratio - 1
  /\ mem \in [Addr -> Block]
  /\ wport \in Addr \cup {None} /\ rport \in Addr \cup {None}
  /\ in \in Word /\ out \in Word

(* dramfifo.py:165: the router goes back to BYPASS on three signals, none  *)
(* of which looks at a half-filled conv_w, a block in conv_r or an access  *)
(* in flight. Nothing may be left behind there while words overtake it.    *)
BypassDrained ==
  mode = "BYPASS" => /\ wbuf = << >> /\ level = 0 /\ counter = 0
                     /\ rfifo = << >> /\ mux = 0
                     /\ wport = None /\ rport = None

(* dramfifo.py:72,117-119: the latch lets whole groups of Ratio words out, *)
(* so that a block begun in conv_w can always be completed from the latch, *)
(* without waiting for the bus under analysis to produce another word.     *)
GroupWhole ==
  /\ mode = "DRAM" /\ counter > 0 => opened
  /\ mode = "DRAM" /\ opened => Len(latch) >= Ratio - counter
  /\ Len(wbuf) = counter \/ (counter = 0 /\ Pending)

(* dramfifo.py:202: LiteDRAM takes the data at the strobe whatever         *)
(* wdata.valid says, and the writer counts a block only when it was valid: *)
(* when data is due the block must be there, and at the ring's next slot,  *)
(* where the ring has room.                                                *)
WriteSlotReady ==
  /\ wport # None => WriteDataValid /\ wport = produce
  /\ senddata <=> wport # None
  /\ sendcmdW <=> wport = None

(* dramfifo.py:229-251: one block at a time is read; the answer always     *)
(* finds room, and it comes from the oldest block of the ring.             *)
ReadInTurn ==
  /\ rport # None => rfifo = << >> /\ rport = consume /\ level > 0
  /\ rfifo # << >> => level > 0 /\ rfifo = <<mem[consume]>>
  /\ sendcmdR <=> rport = None /\ rfifo = << >>
  /\ mux > 0 => rfifo # << >>

(* dramfifo.py:50-62: the level and the two addresses tell the same story, *)
(* also when a block is written and another read in the same cycle.        *)
PointersAgree == produce \in {consume + level, consume + level - CtrlDepth}

-----------------------------------------------------------------------------
(* The words inside the FIFO, oldest first, wherever they are. *)
DramWords ==
  [i \in 1 .. level * Ratio |->
     mem[(consume + (i - 1) \div Ratio) % CtrlDepth][((i - 1) % Ratio) + 1]]

Contents == SubSeq(DramWords, mux + 1, level * Ratio) \o wbuf \o latch

Queue == INSTANCE Fifo WITH q <- Contents

(* Through both routes, and over every change of route, the words come out *)
(* once each, in the order they went in.                                   *)
FifoOrder == Queue!Spec

(* No word stays inside for ever: while the FIFO holds words, the next one *)
(* comes out. In particular a group too small to open the latch is let out *)
(* by the return to BYPASS. Word 0 stands for every word: Tags and Ratio   *)
(* have no common factor, so it comes by in every place of a group.        *)
Delivered == (out = 0 /\ Contents # << >>) ~> (out # 0)
=============================================================================
