-------------------------------- MODULE Ulpi --------------------------------
(***************************************************************************)
(* Register accesses over the bus that is being captured: ULPIPHY and      *)
(* ULPICore (gateware/ulpi.py) between the transceiver and the program     *)
(* that polls the core (software/common/ulpi.c).  What the bus says and    *)
(* the answer to a register read come through the same FIFOs.              *)
(*                                                                         *)
(* Two clocks: a SysCycle is a cycle of the core, a UlpiCycle one of the   *)
(* transceiver's clock; they come in any order.  A word written into a     *)
(* clock crossing may be seen by the other side later (seen).              *)
(***************************************************************************)
EXTENDS Integers, Sequences

CONSTANTS Adr, Val,        \* registers of the transceiver and their values
          RxDepth,         \* of rx_fifo; as many cycles does the flush take
          TxDepth,         \* of tx_fifo
          CrossDepth,      \* of fifo_sink and fifo_source, the clock crossings
          Junk,            \* a byte of the bus that is not an answer
          None

ASSUME DepthAssumption == {RxDepth, TxDepth, CrossDepth} \subseteq Nat \ {0}
ASSUME ValueAssumption == Junk \notin Val /\ None \notin Val \union Adr \union {Junk}

VARIABLES
  state, flushcnt,         \* of the core's FSM
  adr, datW, datR,         \* reg_adr, reg_dat_w, reg_dat_r
  fifoSink, txFifo,        \* commands on their way to the transceiver
  rxFifo, fifoSource,      \* bytes on their way from it
  odir,                    \* dir in the last cycle: the transceiver has the bus
  sample,                  \* the byte that was on the bus in it, or None
  regs,                    \* the transceiver's registers
  target,                  \* register a write was begun for, or None
  owe,                     \* answer the transceiver still has to give, or None
  pc,                      \* where the program is
  want,                    \* what the program wrote last, per register
  noise                    \* not only the answer can be on its way

coreVars == <<state, flushcnt, datR>>
csrVars == <<adr, datW>>
hostVars == <<pc, want>>
chipVars == <<regs, target, owe>>
rxVars == <<rxFifo, odir, sample>>
vars == <<coreVars, csrVars, hostVars, chipVars, rxVars, fifoSink, txFifo, fifoSource, noise>>

Init == /\ state = "IDLE" /\ flushcnt = 0
        /\ adr \in Adr /\ datW \in Val /\ datR \in Val
        /\ fifoSink = << >> /\ txFifo = << >> /\ rxFifo = << >> /\ fifoSource = << >>
        /\ odir = FALSE /\ sample = None
        /\ regs \in [Adr -> Val] /\ target = None /\ owe = None
        /\ pc = "written" /\ want = regs
        /\ noise = FALSE

ReadCmd(a) == [kind |-> "read", of |-> a]
WriteCmd(a) == [kind |-> "write", of |-> a]
Data(v) == [kind |-> "data", of |-> v]
Commands == txFifo \o fifoSink

-----------------------------------------------------------------------------
(* The program: the address, the value, the strobe, then reg_done until    *)
(* it is 1.                                                                *)

Returned == pc \in {"written", "got"}

AskWrite(a, v) == /\ Returned
                  /\ adr' = a /\ datW' = v
                  /\ pc' = "write" /\ want' = [want EXCEPT ![a] = v]
                  /\ noise' = FALSE

AskRead(a) == /\ Returned
              /\ adr' = a /\ pc' = "read"
              /\ noise' = FALSE
              /\ UNCHANGED <<datW, want>>

Poll == /\ pc \in {"writing", "reading"}
        /\ state = "IDLE"
        /\ pc' = IF pc = "writing" THEN "written" ELSE "got"
        /\ UNCHANGED <<csrVars, want, noise>>

Host == /\ (\E a \in Adr : AskRead(a) \/ \E v \in Val : AskWrite(a, v)) \/ Poll
        /\ UNCHANGED <<coreVars, chipVars, rxVars, fifoSink, txFifo, fifoSource>>

-----------------------------------------------------------------------------
(* The core. ready: in IDLE the capture takes a byte, or it is dropped.    *)

Offered(seen) == seen /\ fifoSource # << >>
SinkReady == Len(fifoSink) < CrossDepth

(* IDLE: the strobe of the CSR, or the capture goes on.                    *)
Strobe == /\ state = "IDLE"
          /\ \/ pc = "write" /\ pc' = "writing" /\ state' = "WRITE_REG_ADR"
                /\ UNCHANGED noise
             \/ /\ pc = "read" /\ pc' = "reading" /\ state' = "READ_FLUSH"
                /\ noise' = (\/ rxFifo # << >> \/ fifoSource # << >>
                             \/ sample # None \/ owe # None
                             \/ \E i \in DOMAIN Commands : Commands[i].kind = "read")
          /\ flushcnt' = 0
          /\ UNCHANGED <<datR, fifoSink, fifoSource>>

Capture(seen, ready) ==
  /\ state = "IDLE" /\ pc \notin {"write", "read"}
  /\ fifoSource' = IF Offered(seen) /\ ready THEN Tail(fifoSource) ELSE fifoSource
  /\ flushcnt' = 0
  /\ UNCHANGED <<state, datR, fifoSink, pc, noise>>

(* A byte of a command is handed to the clock crossing.                    *)
Hand(from, byte, to) ==
  /\ state = from
  /\ IF SinkReady THEN state' = to /\ fifoSink' = Append(fifoSink, byte)
                  ELSE UNCHANGED <<state, fifoSink>>
  /\ UNCHANGED <<flushcnt, datR, fifoSource, pc, noise>>
WriteRegAdrEager ==                                             \* mutant
  /\ state = "WRITE_REG_ADR" /\ state' = "WRITE_REG_DAT"
  /\ fifoSink' = IF SinkReady THEN Append(fifoSink, WriteCmd(adr)) ELSE fifoSink
  /\ UNCHANGED <<flushcnt, datR, fifoSource, pc, noise>>
WriteRegAdr == Hand("WRITE_REG_ADR", WriteCmd(adr), "WRITE_REG_DAT")
WriteRegDat == Hand("WRITE_REG_DAT", Data(datW), "IDLE")
ReadRegAdrToIdle == Hand("READ_REG_ADR", ReadCmd(adr), "IDLE")  \* mutant
ReadRegAdr == Hand("READ_REG_ADR", ReadCmd(adr), "READ_REG_DAT")

ReadFlushWraps(seen) ==                                         \* mutant
  /\ state = "READ_FLUSH"
  /\ fifoSource' = IF Offered(seen) THEN Tail(fifoSource) ELSE fifoSource
  /\ IF flushcnt = RxDepth
       THEN state' = "READ_REG_ADR" /\ UNCHANGED flushcnt
       ELSE flushcnt' = (flushcnt + 1) % RxDepth /\ UNCHANGED state
  /\ UNCHANGED <<datR, fifoSink, pc, noise>>
ReadFlush(seen) ==
  /\ state = "READ_FLUSH"
  /\ fifoSource' = IF Offered(seen) THEN Tail(fifoSource) ELSE fifoSource
  /\ IF flushcnt = RxDepth - 1
       THEN state' = "READ_REG_ADR" /\ UNCHANGED flushcnt
       ELSE flushcnt' = flushcnt + 1 /\ UNCHANGED state
  /\ UNCHANGED <<datR, fifoSink, pc, noise>>

ReadRegDat(seen) ==
  /\ state = "READ_REG_DAT"
  /\ IF Offered(seen)
       THEN /\ datR' = Head(fifoSource)
            /\ fifoSource' = Tail(fifoSource)
            /\ state' = "IDLE"
       ELSE UNCHANGED <<datR, fifoSource, state>>
  /\ UNCHANGED <<flushcnt, fifoSink, pc, noise>>

SysCycle(seen, ready) ==
  /\ \/ Strobe \/ Capture(seen, ready)
     \/ WriteRegAdr \/ WriteRegDat
     \/ ReadFlush(seen) \/ ReadRegAdr \/ ReadRegDat(seen)
  /\ UNCHANGED <<csrVars, want, chipVars, rxVars, txFifo>>

-----------------------------------------------------------------------------
(* The transceiver takes the bus (dir) or leaves it; when it has left it,  *)
(* it accepts a byte of a command or lets it wait (nxt), but not in the    *)
(* first cycle, when the core does not drive the bus yet. It answers a     *)
(* read at once: it takes the bus, and gives the value a cycle later.      *)

Accept(byte) ==
  /\ target' = IF byte.kind = "write" THEN byte.of ELSE None
  /\ owe' = IF byte.kind = "read" THEN regs[byte.of] ELSE None
  /\ regs' = IF byte.kind = "data" /\ target # None
               THEN [regs EXCEPT ![target] = byte.of] ELSE regs

(* tx_fifo: tx_fifo.source.ready is ~dir & nxt. *)
TxSync(seen, nxt) ==
  LET left == IF nxt THEN Tail(txFifo) ELSE txFifo
  IN  IF seen /\ fifoSink # << >> /\ Len(txFifo) < TxDepth
        THEN txFifo' = Append(left, Head(fifoSink)) /\ fifoSink' = Tail(fifoSink)
        ELSE txFifo' = left /\ UNCHANGED fifoSink

(* rx_fifo: the byte of the last cycle goes in, and is lost when the FIFO  *)
(* is full.                                                                *)
RxSyncUnchecked ==                                              \* mutant
  LET moves == rxFifo # << >> /\ Len(fifoSource) < CrossDepth
      left == IF moves THEN Tail(rxFifo) ELSE rxFifo
  IN  /\ fifoSource' = IF moves THEN Append(fifoSource, Head(rxFifo)) ELSE fifoSource
      /\ rxFifo' = IF sample # None THEN Append(left, sample) ELSE left
RxSync ==
  LET moves == rxFifo # << >> /\ Len(fifoSource) < CrossDepth
      left == IF moves THEN Tail(rxFifo) ELSE rxFifo
  IN  /\ fifoSource' = IF moves THEN Append(fifoSource, Head(rxFifo)) ELSE fifoSource
      /\ rxFifo' = IF sample # None /\ Len(rxFifo) < RxDepth
                      THEN Append(left, sample) ELSE left

(* The registers in front of it: odir, rx_fifo.sink.valid and the IDDR.    *)
BusSync(dir) ==
  /\ odir' = dir
  /\ sample' = CASE ~(odir /\ dir) -> None
                 [] odir /\ dir /\ owe # None -> owe
                 [] OTHER -> Junk

UlpiCycle(dir, nxt, seen) ==
  /\ owe # None => dir
  /\ nxt => ~dir /\ ~odir /\ txFifo # << >>
  /\ TxSync(seen, nxt) /\ RxSync /\ BusSync(dir)
  /\ IF nxt THEN Accept(Head(txFifo))
            ELSE /\ owe' = IF odir THEN None ELSE owe
                 /\ UNCHANGED <<regs, target>>
  /\ noise' = (noise \/ (pc = "reading" /\ sample' = Junk))
  /\ UNCHANGED <<coreVars, csrVars, hostVars>>

Sys == \E seen, ready \in BOOLEAN : SysCycle(seen, ready)
UlpiClock == \E dir, nxt, seen \in BOOLEAN : UlpiCycle(dir, nxt, seen)

Next == Host \/ Sys \/ UlpiClock

Spec == Init /\ [][Next]_vars

(* Both clocks run, a clock crossing shows a word in the end, the program  *)
(* goes on polling, and the transceiver leaves the bus and accepts a byte  *)
(* that waits. Nothing obliges the bus to speak or the capture to take.    *)
Fairness ==
  /\ WF_vars(Poll /\ Host)
  /\ WF_<<state, flushcnt, datR>>(\E ready \in BOOLEAN : SysCycle(TRUE, ready))
  /\ SF_vars(\E seen \in BOOLEAN : UlpiCycle(FALSE, TRUE, seen))
  /\ WF_fifoSink(\E dir, nxt \in BOOLEAN : UlpiCycle(dir, nxt, TRUE))
  /\ WF_fifoSource(UlpiClock)
  /\ WF_vars(UlpiClock /\ owe # None)
  /\ WF_vars(odir /\ \E seen \in BOOLEAN : UlpiCycle(FALSE, FALSE, seen))

FairSpec == Spec /\ Fairness

-----------------------------------------------------------------------------
(* The values of the variables.                                            *)
Bytes(n) == UNION {[1 .. k -> Val \union {Junk}] : k \in 0 .. n}
Cmds(n) == UNION {[1 .. k -> [kind : {"read", "write"}, of : Adr]
                     \union [kind : {"data"}, of : Val]] : k \in 0 .. n}
TypeOK ==
  /\ state \in {"IDLE", "WRITE_REG_ADR", "WRITE_REG_DAT",
                "READ_FLUSH", "READ_REG_ADR", "READ_REG_DAT"}
  /\ flushcnt \in 0 .. RxDepth - 1
  /\ adr \in Adr /\ datW \in Val /\ datR \in Val \union {Junk}
  /\ fifoSink \in Cmds(CrossDepth) /\ txFifo \in Cmds(TxDepth)
  /\ rxFifo \in Bytes(RxDepth) /\ fifoSource \in Bytes(CrossDepth)
  /\ odir \in BOOLEAN /\ sample \in Val \union {Junk, None}
  /\ regs \in [Adr -> Val] /\ target \in Adr \union {None}
  /\ owe \in Val \union {None}
  /\ pc \in {"write", "writing", "written", "read", "reading", "got"}
  /\ want \in [Adr -> Val]
  /\ noise \in BOOLEAN

(* Once the core has said done and the commands have left the clock        *)
(* crossing and tx_fifo, every register holds what the program wrote last: *)
(* no byte of a two-byte command is lost, repeated or overtaken on the way *)
(* through the two FIFOs, whatever the bus does meanwhile (ULPICore:       *)
(* WRITE_REG_ADR, WRITE_REG_DAT).                                          *)
WritesLand == (Returned /\ Commands = << >>) => regs = want

(* On a bus that is silent from the strobe on, with nothing left over, a   *)
(* read returns what was written last, through the writes that may still   *)
(* be on their way (ULPICore: READ_FLUSH to READ_REG_DAT).                 *)
QuietRead == (pc = "got" /\ ~noise) => datR = want[adr]

(* Every access of the program comes to an end: a read finds a byte, even  *)
(* when rx_fifo was full and bytes were lost (ULPICore: READ_REG_DAT has   *)
(* no timeout, and neither has the loop in ulpi.c).                        *)
Returns == ~Returned ~> Returned

(* testsuite.c, check_ulpi_scratch: the value read is the value written.   *)
ReadMatches == pc = "got" => datR = want[adr]
=============================================================================
