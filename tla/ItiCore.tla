------------------------------ MODULE ItiCore -------------------------------
(***************************************************************************)
(* ITICore (gateware/iti.py): the RXCMD and data bytes of the ULPI bus and *)
(* the START and STOP events of the software become time-stamped records;  *)
(* a pattern generator takes the output over when the software asks for a  *)
(* mark in the stream.  A record is its type, the ticks of the 60 MHz      *)
(* clock since the record before, and a payload.                           *)
(*                                                                         *)
(* One step is one cycle of the 100 MHz clock; the inputs of a cycle are   *)
(* item (what sink offers, None for nothing), ready (source.ready) and     *)
(* write (the CSR the software writes in it, None for none).               *)
(***************************************************************************)
EXTENDS Integers

CONSTANTS MaxDiff,     \* 2^28 - 1: the largest time increment
          Repeat,      \* 4: records in a pattern
          MaxWrites,   \* bound: the CSR writes of the software
          None

ASSUME MaxDiffAssumption == MaxDiff \in Nat \ {0}
ASSUME RepeatAssumption == Repeat \in Nat \ {0}

VARIABLES enable,      \* ITITime: CSR
          diff,        \* ITITime: ticks since the last record
          overflow,    \* ITITime: diff has come to MaxDiff
          acc, en,     \* TuneClocker: phase in fifths, a tick in this cycle
          event,       \* ITIEvent: the event that waits (data if new)
          count,       \* ITIPattern: records of the pattern still to send
          rec,         \* the last record taken from source
          run,         \* records of the current pattern already taken
          asked,       \* last event written, until a record shows it
          due,         \* 1: diff came to MaxDiff and no record said so yet,
                       \* -1: a record said so again
          writes       \* CSR writes so far

timeVars == <<enable, diff, overflow, acc, en>>
ghosts == <<rec, run, asked, due, writes>>
vars == <<timeVars, event, count, ghosts>>

Item == {"DATA", "RXCMD"}
Event == {"START", "STOP"}

ASSUME NoneAssumption == None \notin Event \cup Item \cup {"EVENT", "NONE", "PATTERN"}

Init == /\ enable = FALSE /\ diff = 0 /\ overflow = FALSE
        /\ acc = 0 /\ en = FALSE
        /\ event = None /\ count = 0
        /\ rec = [type |-> None, payload |-> None, diff |-> 0]
        /\ run = 0 /\ asked = None /\ due = 0 /\ writes = 0

-----------------------------------------------------------------------------
(* What source offers: the pattern comes before the packer, and in the     *)
(* packer the overflow before the event before the bus.                    *)

Offer(item) ==
  CASE count > 0 ->
         [type |-> "PATTERN", payload |-> None, diff |-> 0]
    [] count = 0 /\ overflow ->
         [type |-> "NONE", payload |-> None, diff |-> MaxDiff]
    [] count = 0 /\ ~overflow /\ event # None ->
         [type |-> "EVENT", payload |-> event, diff |-> diff]
    [] count = 0 /\ ~overflow /\ event = None ->
         [type |-> item, payload |-> None, diff |-> diff]

Takes(type, item, ready) == ready /\ Offer(item).type = type

(* time.next and time.clear *)
Restart(item, ready) == \E type \in Item \cup {"EVENT"} : Takes(type, item, ready)
Clear(item, ready) == Takes("NONE", item, ready)

-----------------------------------------------------------------------------
(* Clocked assignments. *)

(* clocker.py: the carry of a phase accumulator, 60 ticks in 100 cycles.   *)
TuneSync == /\ acc' = (acc + 3) % 5
            /\ en' = (acc + 3 >= 5)

TimeSyncUnwrapped(item, ready) ==                               \* mutant
  IF ~enable \/ Restart(item, ready)
    THEN diff' = 0 /\ overflow' = FALSE
    ELSE /\ diff' = IF en THEN diff + 1 ELSE diff
         /\ overflow' = (diff = MaxDiff \/ (overflow /\ ~Clear(item, ready)))
TimeSync(item, ready) ==
  IF ~enable \/ Restart(item, ready)
    THEN diff' = 0 /\ overflow' = FALSE
    ELSE /\ diff' = IF en THEN (diff + 1) % (MaxDiff + 1) ELSE diff
         /\ overflow' = (diff = MaxDiff \/ (overflow /\ ~Clear(item, ready)))

(* An event written in the cycle the last one leaves is kept. *)
EventSyncAckFirst(write, item, ready) ==                        \* mutant
  event' = IF Takes("EVENT", item, ready) THEN None
           ELSE IF write \in Event THEN write ELSE event
EventSyncUnacked(write, item, ready) ==                         \* mutant
  event' = IF write \in Event THEN write ELSE event
EventSync(write, item, ready) ==
  event' = IF write \in Event THEN write
           ELSE IF Takes("EVENT", item, ready) THEN None ELSE event

(* A start during a pattern is not seen. *)
PatternSyncRestart(write, item, ready) ==                       \* mutant
  count' = IF write = "start_pattern" THEN Repeat
           ELSE IF count > 0 /\ ready THEN count - 1 ELSE count
PatternSyncEndless(write, item, ready) ==                       \* mutant
  count' = IF count = 0
             THEN IF write = "start_pattern" THEN Repeat ELSE 0
             ELSE IF ready THEN (IF count = 1 THEN Repeat ELSE count - 1) ELSE count
PatternSync(write, item, ready) ==
  count' = IF count = 0
             THEN IF write = "start_pattern" THEN Repeat ELSE 0
             ELSE IF ready THEN count - 1 ELSE count

(* The software writes the CSRs, MaxWrites times. *)
CsrSync(write) ==
  /\ writes' = IF write = None THEN writes ELSE writes + 1
  /\ writes' <= MaxWrites
  /\ enable' = IF write = "enable" THEN ~enable ELSE enable

(* What an observer of source and of the CSR bus remembers. *)
Observe(write, item, ready) ==
  /\ rec' = IF ready /\ Offer(item).type # None THEN Offer(item) ELSE rec
  /\ run' = IF Takes("PATTERN", item, ready) THEN (run + 1) % Repeat ELSE run
  /\ asked' = IF write \in Event THEN write
              ELSE IF Takes("EVENT", item, ready) THEN None ELSE asked
  /\ due' = CASE ~enable \/ Restart(item, ready) -> 0
              [] enable /\ ~Restart(item, ready) /\ diff' = MaxDiff /\ diff # MaxDiff -> 1
              [] OTHER -> IF Clear(item, ready) THEN due - 1 ELSE due

Cycle(write, item, ready) ==
  /\ CsrSync(write)
  /\ TuneSync
  /\ TimeSync(item, ready)
  /\ EventSync(write, item, ready)
  /\ PatternSync(write, item, ready)
  /\ Observe(write, item, ready)

Next == \E write \in Event \cup {"enable", "start_pattern", None},
           item \in Item \cup {None}, ready \in BOOLEAN :
          Cycle(write, item, ready)

Spec == Init /\ [][Next]_vars

(* The clock runs.  The FIFO behind the core has room again and again, and *)
(* it is never full for anything like the 2^28 ticks (4.5 s) between two   *)
(* overflows: an overflow is taken in the first half of the next interval, *)
(* an event not only in the cycles in which diff is at its maximum.        *)
Taken(type, low) ==
  \E write \in Event \cup {"enable", "start_pattern", None}, item \in Item \cup {None} :
     Offer(item).type = type /\ low /\ Cycle(write, item, TRUE)

FairSpec == /\ Spec
            /\ WF_vars(Next)
            /\ SF_vars(Taken("PATTERN", TRUE))
            /\ SF_vars(Taken("NONE", 2 * diff < MaxDiff))
            /\ SF_vars(Taken("EVENT", diff # MaxDiff))

-----------------------------------------------------------------------------
(* Types and widths of the registers. *)
TypeOK ==
  /\ enable \in BOOLEAN /\ diff \in 0 .. MaxDiff /\ overflow \in BOOLEAN
  /\ acc \in 0 .. 4 /\ en \in BOOLEAN
  /\ event \in Event \cup {None} /\ count \in 0 .. Repeat

(* iti.py:267-277: a pattern goes out in one piece, whatever the packer    *)
(* has to say meanwhile and however often the software starts it again:    *)
(* the software looks for Repeat records in a row to realign.              *)
PatternWhole == [][rec' # rec /\ rec'.type # "PATTERN" => run = 0]_vars

(* iti.py:89-96: the last event the software wrote waits until a record    *)
(* shows it, also when it is written in the very cycle in which the one    *)
(* before leaves or while an overflow or a pattern holds the output.       *)
EventKept == asked # None => event = asked

(* iti.py:129-146: and it is shown once: no event record without a write.  *)
EventOnce == [][rec'.type = "EVENT" /\ rec' # rec => asked = rec'.payload]_vars

(* iti.py:114-146: neither overflows nor patterns nor the traffic of the   *)
(* bus keep an event from being recorded.                                  *)
EventReported == asked # None ~> asked = None

(* iti.py:36 and 58: taking the overflow record acknowledges the overflow: *)
(* one record for each time the counter came to its maximum.               *)
OverflowOnce == due >= 0
=============================================================================
