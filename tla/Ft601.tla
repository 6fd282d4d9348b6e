-------------------------------- MODULE Ft601 --------------------------------
(***************************************************************************)
(* FT601Sync (gateware/ft601.py): the USB side of the design, between two  *)
(* clock-crossing FIFOs and the FT601 chip.  The chip has one data bus for *)
(* both directions; txe says that it has room, rxf that it has a word.     *)
(*                                                                         *)
(* One step is one cycle of the chip's clock.  The control pads and the    *)
(* data go through ODDR registers: the chip samples at the end of a cycle  *)
(* what the core drove in the cycle before, while the direction of the     *)
(* bus (data_oe) follows the core at once.  The core sees txe and rxf      *)
(* directly.                                                               *)
(***************************************************************************)
EXTENDS Integers, Sequences

CONSTANTS Timeout,     \* timeout: cycles a burst goes on while the other waits
          WriteDepth,  \* of write_fifo
          ReadDepth,   \* of read_buffer
          Tags,        \* words are numbered modulo Tags
          Junk         \* what the chip samples when nothing drives the bus

ASSUME TimeoutAssumption == Timeout \in Nat
ASSUME DepthAssumption == WriteDepth \in Nat \ {0} /\ ReadDepth \in Nat \ {0}
ASSUME TagsAssumption == Tags \in Nat /\ Tags >= 2
ASSUME JunkAssumption == Junk \notin 0 .. Tags - 1

VARIABLES
  state,               \* of the FSM
  cntWrite, cntRead,   \* cycles of the burst in which the other side waited
  firstWrite,          \* WRITE: nothing was driven in this burst yet
  tosend, sendval,     \* temptosend, tempsendval: a refused word
  toread, readval,     \* temptoread, tempreadval: a word read_buffer refused
  pads,                \* what the core drove in the last cycle
  writeFifo,           \* words of write_fifo the USB side can see
  readBuffer,          \* words of read_buffer
  txe, rxf,            \* the chip has room; the chip has a word
  in, out,             \* to the host: last word in, last word the chip took
  rin, rout            \* from the host: last word the chip gave, last one out

coreVars == <<state, cntWrite, cntRead, firstWrite, tosend, sendval, toread, readval, pads>>
vars == <<coreVars, writeFifo, readBuffer, txe, rxf, in, out, rin, rout>>

Word == 0 .. Tags - 1

(* The three control pads, active or not, and the data. *)
Driven(wr, rd, oe, data) == [wr |-> wr, rd |-> rd, oe |-> oe, data |-> data]
Quiet == Driven(FALSE, FALSE, FALSE, Junk)

Init == /\ state = "IDLE" /\ cntWrite = 0 /\ cntRead = 0 /\ firstWrite = FALSE
        /\ tosend = FALSE /\ sendval = 0 /\ toread = FALSE /\ readval = 0
        /\ pads = Quiet
        /\ writeFifo = << >> /\ readBuffer = << >>
        /\ txe \in BOOLEAN /\ rxf \in BOOLEAN
        /\ in = Tags - 1 /\ out = Tags - 1 /\ rin = Tags - 1 /\ rout = Tags - 1

WantsRead == ~toread /\ rxf
WantsWrite == (tosend \/ writeFifo # << >>) /\ txe

-----------------------------------------------------------------------------
(* The FSM: what it drives, where it goes and what it keeps.               *)

Idle ==
  /\ state = "IDLE"
  /\ \/ /\ WantsWrite
        /\ state' = "WRITE" /\ cntWrite' = 0 /\ firstWrite' = TRUE
        /\ pads' = Quiet
     \/ /\ ~WantsWrite
        /\ state' = IF WantsRead THEN "RDWAIT" ELSE "IDLE"
        /\ pads' = Driven(FALSE, FALSE, WantsRead, Junk)
        /\ UNCHANGED <<cntWrite, firstWrite>>
  /\ UNCHANGED <<cntRead, tosend, sendval>>

(* The chip is full: the word driven in the last cycle was refused. It is  *)
(* kept for another try if the FIFO has a next one.                        *)
RefusedDropped == /\ ~txe                                       \* mutant
                  /\ pads' = Quiet
                  /\ state' = "IDLE" /\ UNCHANGED <<tosend, sendval>>
Refused == /\ ~txe
           /\ pads' = Quiet
           /\ tosend' = (tosend \/ (writeFifo # << >> /\ ~firstWrite))
           /\ state' = "IDLE" /\ UNCHANGED sendval

Resend == /\ txe /\ tosend
          /\ pads' = Driven(TRUE, FALSE, FALSE, sendval)
          /\ tosend' = FALSE
          /\ UNCHANGED <<state, sendval>>

(* A read has waited long enough. wr_n is not assigned here: it is 0.      *)
Yields == state = "WRITE" /\ txe /\ ~tosend /\ cntWrite > Timeout
Yield == /\ Yields
         /\ pads' = Driven(TRUE, FALSE, TRUE, Junk)
         /\ state' = "RDWAIT" /\ UNCHANGED <<tosend, sendval>>

Pops == state = "WRITE" /\ txe /\ ~tosend /\ cntWrite <= Timeout /\ writeFifo # << >>
Send == /\ Pops
        /\ pads' = Driven(TRUE, FALSE, FALSE, Head(writeFifo))
        /\ sendval' = Head(writeFifo)
        /\ UNCHANGED <<state, tosend>>

Stop == /\ txe /\ ~tosend /\ cntWrite <= Timeout /\ writeFifo = << >>
        /\ pads' = Quiet
        /\ state' = "IDLE" /\ UNCHANGED <<tosend, sendval>>

WriteUncounted ==                                               \* mutant
  /\ state = "WRITE"
  /\ Refused \/ Resend \/ Yield \/ Send \/ Stop
  /\ firstWrite' = FALSE
  /\ UNCHANGED <<cntWrite, cntRead>>
Write ==
  /\ state = "WRITE"
  /\ Refused \/ Resend \/ Yield \/ Send \/ Stop
  /\ cntWrite' = IF WantsRead THEN cntWrite + 1 ELSE cntWrite
  /\ firstWrite' = FALSE
  /\ UNCHANGED cntRead

ReadWaitStale ==                                                \* mutant
  /\ state = "RDWAIT"
  /\ state' = "READ"
  /\ pads' = Driven(FALSE, TRUE, TRUE, Junk)
  /\ UNCHANGED <<cntWrite, cntRead, firstWrite, tosend, sendval>>
ReadWait ==
  /\ state = "RDWAIT"
  /\ state' = "READ" /\ cntRead' = 0
  /\ pads' = Driven(FALSE, TRUE, TRUE, Junk)
  /\ UNCHANGED <<cntWrite, firstWrite, tosend, sendval>>

(* The chip has no more words. *)
ReadDone == /\ ~rxf
            /\ state' = "IDLE" /\ pads' = Driven(FALSE, FALSE, TRUE, Junk)
            /\ UNCHANGED <<cntWrite, firstWrite>>

(* A write has waited long enough. rd_n is not assigned here: it is 0.     *)
ReadOver == state = "READ" /\ rxf /\ cntRead > Timeout
ReadYield == /\ ReadOver
             /\ state' = "WRITE" /\ cntWrite' = 0 /\ firstWrite' = TRUE
             /\ pads' = Driven(FALSE, TRUE, FALSE, Junk)

(* The word on the bus is stored; after one that read_buffer refuses the   *)
(* burst ends, in time for the chip not to give another.                   *)
Stores == state = "READ" /\ rxf /\ cntRead <= Timeout
ReadWord == /\ Stores
            /\ state' = IF Len(readBuffer) < ReadDepth THEN "READ" ELSE "IDLE"
            /\ pads' = Driven(FALSE, Len(readBuffer) < ReadDepth, TRUE, Junk)
            /\ UNCHANGED <<cntWrite, firstWrite>>

ReadUncounted ==                                                \* mutant
  /\ state = "READ"
  /\ ReadDone \/ ReadYield \/ ReadWord
  /\ UNCHANGED <<cntRead, tosend, sendval>>
Read ==
  /\ state = "READ"
  /\ ReadDone \/ ReadYield \/ ReadWord
  /\ cntRead' = IF WantsWrite THEN cntRead + 1 ELSE cntRead
  /\ UNCHANGED <<tosend, sendval>>

-----------------------------------------------------------------------------
(* The two FIFOs. put: a word comes out of the clock crossing; drain: the  *)
(* clock crossing takes one.                                               *)

WriteFifoSync(put) ==
  LET left == IF Pops THEN Tail(writeFifo) ELSE writeFifo
  IN  IF put /\ Len(writeFifo) < WriteDepth
        THEN in' = (in + 1) % Tags /\ writeFifo' = Append(left, in')
        ELSE UNCHANGED in /\ writeFifo' = left

(* The word on the bus, if the chip drives it. *)
DataR == IF pads.oe THEN (rin + 1) % Tags ELSE Junk

(* What goes into read_buffer: in READ the word on the bus, else the word  *)
(* it refused before.                                                      *)
ReadBufferSyncForgetful(drain) ==                               \* mutant
  LET room == Len(readBuffer) < ReadDepth
      left == IF drain /\ readBuffer # << >> THEN Tail(readBuffer) ELSE readBuffer
  IN  /\ rout' = IF drain /\ readBuffer # << >> THEN Head(readBuffer) ELSE rout
      /\ readBuffer' = IF Stores /\ room THEN Append(left, DataR) ELSE left
      /\ toread' = (Stores /\ ~room)
      /\ readval' = IF Stores THEN DataR ELSE readval
ReadBufferSync(drain) ==
  LET room == Len(readBuffer) < ReadDepth
      left == IF drain /\ readBuffer # << >> THEN Tail(readBuffer) ELSE readBuffer
  IN  /\ rout' = IF drain /\ readBuffer # << >> THEN Head(readBuffer) ELSE rout
      /\ readBuffer' = CASE Stores /\ room -> Append(left, DataR)
                         [] state # "READ" /\ toread /\ room -> Append(left, readval)
                         [] OTHER -> left
      /\ toread' = ((Stores /\ ~room) \/ (toread /\ ~(state # "READ" /\ room)))
      /\ readval' = IF Stores THEN DataR ELSE readval

-----------------------------------------------------------------------------
(* The chip. It takes a word at the end of a cycle in which it has room    *)
(* and wr was active, and only then it may become full; it moves on to its *)
(* next word when rd was active, and only then it may run out. Whether it  *)
(* does with its outputs off is not specified.                             *)

Takes == pads.wr /\ txe
Sampled == IF pads'.oe THEN Junk ELSE pads.data    \* data_oe is not delayed

ChipSync ==
  /\ out' = IF Takes /\ Sampled # Junk THEN Sampled ELSE out
  /\ txe' \in (IF txe /\ ~Takes THEN {TRUE} ELSE BOOLEAN)
  /\ \E gives \in (IF pads.rd /\ rxf THEN (IF pads.oe THEN {TRUE} ELSE BOOLEAN) ELSE {FALSE}) :
        /\ rin' = IF gives THEN (rin + 1) % Tags ELSE rin
        /\ rxf' \in (IF rxf /\ ~gives THEN {TRUE} ELSE BOOLEAN)

Cycle(put, drain) ==
  /\ Idle \/ Write \/ ReadWait \/ Read
  /\ WriteFifoSync(put)
  /\ ReadBufferSync(drain)
  /\ ChipSync

Next == \E put, drain \in BOOLEAN : Cycle(put, drain)

Spec == Init /\ [][Next]_vars

(* The clock runs; the clock crossing and the host make room again; and a  *)
(* burst to the host that has ended is not always followed by the next at  *)
(* once: the chip stays full, or the FIFO empty, for a cycle.              *)
FairSpec == /\ Spec
            /\ WF_<<coreVars, rin>>(Next)
            /\ WF_vars(\E put \in BOOLEAN : readBuffer # << >> /\ Cycle(put, TRUE))
            /\ WF_vars(~txe /\ Next /\ txe')
            /\ SF_vars(state = "WRITE" /\ Next /\ state' = "IDLE" /\ ~WantsWrite')

-----------------------------------------------------------------------------
(* Types, depths, and the widths of the two burst counters.                *)
TypeOK ==
  /\ state \in {"IDLE", "WRITE", "RDWAIT", "READ"}
  /\ cntWrite \in 0 .. Timeout + 2 /\ cntRead \in 0 .. Timeout + 2
  /\ firstWrite \in BOOLEAN
  /\ tosend \in BOOLEAN /\ sendval \in Word
  /\ toread \in BOOLEAN /\ readval \in Word
  /\ pads \in [wr : BOOLEAN, rd : BOOLEAN, oe : BOOLEAN, data : Word \cup {Junk}]
  /\ writeFifo \in Seq(Word) /\ Len(writeFifo) <= WriteDepth
  /\ readBuffer \in Seq(Word) /\ Len(readBuffer) <= ReadDepth
  /\ txe \in BOOLEAN /\ rxf \in BOOLEAN
  /\ in \in Word /\ out \in Word /\ rin \in Word /\ rout \in Word

(* Words on their way to the host: refused, or driven and not yet sampled, *)
(* and behind them those of the FIFO.                                      *)
Leaving == (IF tosend THEN <<sendval>>
            ELSE IF pads.wr /\ pads.data # Junk THEN <<pads.data>> ELSE << >>) \o writeFifo
Tx == INSTANCE Fifo WITH q <- Leaving

(* ft601.py:156-178: whenever the chip refuses a word it is tried again,   *)
(* before the next and once, so the words reach the chip in order and none *)
(* twice; except that a word refused while the FIFO is empty is not, and   *)
(* neither is the last one before a write burst gives way to a read.       *)
TxKept == [][\/ state = "WRITE" /\ ~txe /\ writeFifo = << >>
             \/ Yields
             \/ Tx!Next \/ UNCHANGED <<in, Leaving, out>>]_vars

(* Words on their way from the host. *)
Coming == readBuffer \o (IF toread THEN <<readval>> ELSE << >>)
Rx == INSTANCE Fifo WITH in <- rin, q <- Coming, out <- rout

(* ft601.py:187-223: every word the chip gives is stored, also the one     *)
(* already on the bus when read_buffer is full, in order and once; except  *)
(* what it gives as a read burst gives way to a write.                     *)
RxKept == [][\/ ReadOver
             \/ state = "WRITE" /\ pads.rd
             \/ Rx!Next \/ UNCHANGED <<rin, Coming, rout>>]_vars

(* ft601.py:205: the host's words do not keep the capture from leaving.    *)
TxServed == Leaving # << >> ~> Takes \/ Leaving = << >>

(* ft601.py:169: nor does the capture keep the host's words from entering. *)
RxServed == rxf ~> (pads.rd /\ pads.oe) \/ ~rxf
=============================================================================
