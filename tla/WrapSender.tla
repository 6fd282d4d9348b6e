----------------------------- MODULE WrapSender -----------------------------
(***************************************************************************)
(* WrapSender (gateware/wrapper.py): the captured words are gathered in a  *)
(* FIFO of Depth + 1 words and handed to the USB core in packets, when     *)
(* Depth of them are there or when Timeout cycles have passed since the    *)
(* first one came.  A packet, once begun, must not run dry: the arbiter of *)
(* the USB core gives the bus to a packet until its last word.             *)
(*                                                                         *)
(* One step is one clock cycle; put is sink.valid, ready is source.ready.  *)
(***************************************************************************)
EXTENDS Integers, Sequences

CONSTANTS Depth,      \* words that make a packet worth sending
          Timeout,    \* reload value of the WaitTimer
          Tags        \* words are numbered modulo Tags

ASSUME DepthAssumption == Depth \in Nat /\ Depth >= 1
ASSUME TimeoutAssumption == Timeout \in Nat /\ Timeout >= 1
ASSUME TagsAssumption == Tags \in Nat /\ Tags >= 2

VARIABLES buf,        \* the words in the FIFO
          state,      \* of the FSM
          count,      \* words left in the packet, in TRANSFER
          timer,      \* cycles left before the WaitTimer is done
          in          \* the last word accepted from sink

wrapVars == <<buf, state, count, timer, in>>

Word == 0 .. Tags - 1

Init == /\ buf = << >> /\ state = "BUFFER" /\ count = 0 /\ timer = Timeout
        /\ in = Tags - 1

SourceValid == state = "TRANSFER" /\ buf # << >>
SourceLast == state = "TRANSFER" /\ count = 1
SourceLengthLevel == 4 * Len(buf)                               \* mutant
SourceLength == IF state = "TRANSFER" THEN 4 * count ELSE 0
Sent(ready) == SourceValid /\ ready

BufSync(put, ready) ==
  LET left == IF Sent(ready) THEN Tail(buf) ELSE buf
  IN  IF put /\ Len(buf) < Depth + 1
        THEN in' = (in + 1) % Tags /\ buf' = Append(left, in')
        ELSE UNCHANGED in /\ buf' = left

(* timer.wait holds in BUFFER while a word is there; else it reloads. *)
TimerSyncHeld ==                                                \* mutant
  timer' = IF state = "BUFFER" /\ Len(buf) > 1
             THEN IF timer > 0 THEN timer - 1 ELSE timer
             ELSE Timeout
TimerSync ==
  timer' = IF state = "BUFFER" /\ buf # << >>
             THEN IF timer > 0 THEN timer - 1 ELSE timer
             ELSE Timeout

Buffer(put, ready) ==
  /\ state = "BUFFER"
  /\ IF Len(buf) >= Depth \/ timer = 0
       THEN count' = Len(buf) /\ state' = "TRANSFER"
       ELSE UNCHANGED <<count, state>>
  /\ BufSync(put, ready)
  /\ TimerSync

(* After the last word of a packet the next one follows at once if Depth   *)
(* words remain.                                                           *)
AfterLastStale ==                                               \* mutant
  IF Len(buf) >= Depth
    THEN count' = Len(buf) /\ state' = "TRANSFER"
    ELSE UNCHANGED count /\ state' = "BUFFER"
AfterLast ==
  IF Len(buf) - 1 >= Depth
    THEN count' = Len(buf) - 1 /\ state' = "TRANSFER"
    ELSE UNCHANGED count /\ state' = "BUFFER"

Transfer(put, ready) ==
  /\ state = "TRANSFER"
  /\ CASE Sent(ready) /\ SourceLast -> AfterLast
       [] Sent(ready) /\ ~SourceLast -> count' = count - 1 /\ UNCHANGED state
       [] ~Sent(ready) -> UNCHANGED <<count, state>>
  /\ BufSync(put, ready)
  /\ TimerSync

Cycle(put, ready) == Buffer(put, ready) \/ Transfer(put, ready)

Next == \E put, ready \in BOOLEAN : Cycle(put, ready)

Spec == Init /\ [][Next]_wrapVars

-----------------------------------------------------------------------------
(* Types, the capacity of the FIFO and the range of the two counters.      *)
TypeOK == /\ buf \in Seq(Word) /\ Len(buf) <= Depth + 1
          /\ state \in {"BUFFER", "TRANSFER"}
          /\ count \in 0 .. Depth + 1
          /\ timer \in 0 .. Timeout
          /\ in \in Word

(* wrapper.py:56-82: the words a packet announces are all in the FIFO from *)
(* its first to its last word, and it announces at least one: count is     *)
(* compared with 1, so a packet of 0 words would last 2^32.                *)
PacketBacked == state = "TRANSFER" => count \in 1 .. Len(buf)

(* wrapper.py:52-57: a word that waits in the buffer is sent, be it alone: *)
(* the timer is the only way out for the last words of a capture.          *)
Flushed == buf # << >> ~> SourceValid
=============================================================================
