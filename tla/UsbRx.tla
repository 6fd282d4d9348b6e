------------------------------- MODULE UsbRx --------------------------------
(***************************************************************************)
(* The road from the host (gateware/usb.py): USBDepacketizer looks for the *)
(* magic word, takes the destination and the length that follow and hands  *)
(* that many words to the crossbar, whose dispatcher gives them to a port. *)
(* A timer of 10 s brings it back when a packet does not end.              *)
(*                                                                         *)
(* The host sends packet after packet. A word may be lost on the way       *)
(* (FT601Sync drops one when a read burst times out), and the words or the *)
(* port's ready may come so late that the timer ends a packet; once the    *)
(* link is calm neither happens any more.                                  *)
(*                                                                         *)
(* One step is one clock cycle: valid is sink.valid, ready that of the     *)
(* wishbone port.                                                          *)
(***************************************************************************)
EXTENDS Integers, Sequences

CONSTANTS Lengths,      \* lengths of the packets, in words
          Timeout,      \* reload value of the WaitTimer
          MaxLost       \* words the link loses before it is calm

ASSUME LengthsAssumption == Lengths \subseteq Nat \ {0}
ASSUME TimeoutAssumption == Timeout \in Nat /\ Timeout >= 1
ASSUME LostAssumption == MaxLost \in Nat

VARIABLES host,     \* the packet being sent; pos: its words sent so far
          calm,     \* the link works as it should from now on
          lost,     \* words lost so far
          state,    \* of the FSM
          header,   \* header_pack: destination and length in words, as far as read
          timer,    \* cycles left before the WaitTimer is done
          cnt,      \* words of the payload handed over
          first,    \* Status.first of the dispatcher
          sel,      \* sel_ongoing of the dispatcher
          track     \* how the receiver follows the host, see Track

linkVars == <<host, calm, lost>>
rxVars == <<state, header, timer, cnt, first, sel>>
vars == <<linkVars, rxVars, track>>

Port == {"wishbone", "ulpi0"}   \* the ports that exist, usbsniffer.py:362-385
Nobody == "nobody"
Dst == Port \cup {Nobody}

(* A length of 0 words: last compares cnt with 2^32 - 1, which no packet   *)
(* reaches in 10 s. Lengths that large are the same to the receiver.       *)
Endless == 0
Length == Lengths \cup {Endless}

(* lure: the payload holds words equal to the magic word. *)
Packet == [dst : Port, words : Lengths, lure : BOOLEAN, pos : {0}]

Init == /\ host \in Packet /\ calm = FALSE /\ lost = 0
        /\ state = "IDLE" /\ header = << >> /\ timer = Timeout /\ cnt = 0
        /\ first = TRUE /\ sel = Nobody /\ track = "lost"

-----------------------------------------------------------------------------
(* What the receiver reads in the word the host is sending, wherever it    *)
(* stands: as the magic word, as a destination, as a length.               *)

IsMagic == host.pos = 0 \/ (host.pos > 2 /\ host.lure)

AnyWord == host.pos > 2 /\ ~host.lure

AsDst == {d \in Dst : IF host.pos = 1 THEN d = host.dst ELSE AnyWord \/ d = Nobody}

AsLength == {n \in Length : IF host.pos = 2 THEN n = host.words ELSE AnyWord \/ n = Endless}

(* Send the next word, or begin another packet. *)
SendWord == IF host.pos < host.words + 2
              THEN host' = [host EXCEPT !.pos = @ + 1]
              ELSE host' \in {p \in Packet : calm => ~p.lure}

-----------------------------------------------------------------------------
(* Combinational signals. *)

Done == timer = 0
Complete == Len(header) = 2                 \* header_pack.source.valid
Last == cnt = header[2] - 1

(* Dispatcher: the port of a packet is chosen with its first word. Words   *)
(* for nobody are dropped; the port of ulpi0 has no reader.                *)
Target == IF first THEN header[1] ELSE sel
SourceReady(ready) == Target = Nobody \/ (Target = "wishbone" /\ ready)

SinkReady(ready) ==
  \/ state = "IDLE"
  \/ state = "RECEIVE_HEADER" /\ ~Done /\ ~Complete
  \/ state = "COPY" /\ SourceReady(ready)

Taken(valid, ready) == valid /\ SinkReady(ready)

-----------------------------------------------------------------------------
(* Clocked assignments. *)

TimerSyncHeader == timer' = IF state # "RECEIVE_HEADER" THEN Timeout   \* mutant
                            ELSE IF timer > 0 THEN timer - 1 ELSE 0
TimerSync == timer' = IF state = "IDLE" THEN Timeout
                      ELSE IF timer > 0 THEN timer - 1 ELSE 0

(* header_pack: emptied in IDLE and by the timer. *)
PackSyncKept(valid, ready) ==                                   \* mutant
  IF Done THEN header' = << >>
  ELSE IF state = "RECEIVE_HEADER" /\ Taken(valid, ready)
    THEN \E w \in (IF header = << >> THEN AsDst ELSE AsLength) : header' = Append(header, w)
    ELSE UNCHANGED header
PackSync(valid, ready) ==
  IF state = "IDLE" \/ Done THEN header' = << >>
  ELSE IF state = "RECEIVE_HEADER" /\ Taken(valid, ready)
    THEN \E w \in (IF header = << >> THEN AsDst ELSE AsLength) : header' = Append(header, w)
    ELSE UNCHANGED header

CntSyncNoReset(valid, ready) ==                                 \* mutant
  cnt' = IF state = "COPY" /\ Taken(valid, ready)
           THEN IF Last THEN 1 ELSE cnt + 1 ELSE cnt
CntSync(valid, ready) ==
  cnt' = IF state = "IDLE" THEN 0
         ELSE IF state = "COPY" /\ Taken(valid, ready) THEN cnt + 1 ELSE cnt

(* Status.first and sel_ongoing, which only matter from the first word of  *)
(* a packet on.                                                            *)
DispatchSync(valid, ready) ==
  IF state = "COPY" /\ Taken(valid, ready)
    THEN first' = Last /\ sel' = Target
    ELSE UNCHANGED <<first, sel>>

Idle(valid) ==
  /\ state = "IDLE"
  /\ state' = IF valid /\ IsMagic THEN "RECEIVE_HEADER" ELSE "IDLE"

ReceiveHeader ==
  /\ state = "RECEIVE_HEADER"
  /\ state' = IF Done THEN "IDLE" ELSE IF Complete THEN "COPY" ELSE "RECEIVE_HEADER"

Copy(valid, ready) ==
  /\ state = "COPY"
  /\ state' = IF Done \/ (Taken(valid, ready) /\ Last) THEN "IDLE" ELSE "COPY"

-----------------------------------------------------------------------------
(* track is "instep" from a magic word found while the dispatcher is free, *)
(* and "merged" from one found while it still waits for the end of a       *)
(* packet the timer has cut; the one behind a merged packet is in step.    *)
(* A cut ends both, but not when the last word leaves in that very cycle.  *)
Over(valid, ready) == state = "COPY" /\ Taken(valid, ready) /\ Last
Cut(valid, ready) == state # "IDLE" /\ Done /\ ~Over(valid, ready)

Track(valid, ready) ==
  track' = IF state = "IDLE" /\ valid /\ host.pos = 0
             THEN IF first THEN "instep" ELSE "merged"
           ELSE IF Cut(valid, ready) THEN "lost"
           ELSE IF Over(valid, ready) /\ track = "merged" THEN "instep"
           ELSE track

Cycle(valid, ready) ==
  /\ calm => valid /\ ready
  /\ Idle(valid) \/ ReceiveHeader \/ Copy(valid, ready)
  /\ PackSync(valid, ready)
  /\ CntSync(valid, ready)
  /\ DispatchSync(valid, ready)
  /\ TimerSync
  /\ IF Taken(valid, ready) THEN SendWord ELSE UNCHANGED host
  /\ Track(valid, ready)
  /\ UNCHANGED <<calm, lost>>

Clock == \E valid, ready \in BOOLEAN : Cycle(valid, ready)

(* A word is lost before it reaches the receiver. *)
Lose == /\ ~calm /\ lost < MaxLost
        /\ lost' = lost + 1
        /\ SendWord
        /\ track' = "lost"
        /\ UNCHANGED <<calm, rxVars>>

(* From the next packet on the payload holds no magic word either.         *)
CalmDown == /\ ~calm /\ calm' = TRUE
            /\ UNCHANGED <<host, lost, rxVars, track>>

Next == Clock \/ Lose \/ CalmDown

Spec == Init /\ [][Next]_vars

(* The clock runs. *)
FairSpec == Spec /\ WF_vars(Clock)

-----------------------------------------------------------------------------
(* Types; the timer bounds the words handed over.                          *)
TypeOK ==
  /\ host.dst \in Port /\ host.words \in Lengths /\ host.pos \in 0 .. host.words + 2
  /\ calm \in BOOLEAN /\ lost \in 0 .. MaxLost
  /\ track \in {"lost", "merged", "instep"}
  /\ state \in {"IDLE", "RECEIVE_HEADER", "COPY"}
  /\ timer \in 0 .. Timeout /\ cnt \in 0 .. Timeout
  /\ first \in BOOLEAN /\ sel \in Dst
  /\ Len(header) <= 2 /\ (state = "COPY" => Complete)

(* usb.py:148-202: a packet that meets no mishap is handed over whole, to  *)
(* its own port, with last on its last word, and the next one is found     *)
(* right behind it, whatever its payload looks like: receiver and host     *)
(* agree on every position in it. The timer ends a packet without a last   *)
(* word, so one packet more goes wherever the broken one went (it is       *)
(* merged with it), but only one: with its last word they are in step.     *)
InStep ==
  track # "lost" =>
    /\ state = "IDLE" => host.pos = 0 /\ track = "instep" /\ first
    /\ state = "RECEIVE_HEADER" =>
         /\ host.pos = 1 + Len(header)
         /\ header # << >> => header[1] = host.dst
         /\ Complete => header[2] = host.words
    /\ state = "COPY" =>
         /\ header = <<host.dst, host.words>>
         /\ track = "instep" => Target = host.dst
         /\ host.pos = 3 + cnt /\ cnt < host.words

(* usb.py:172-191: after any losses and pauses, be it in the middle of a   *)
(* header or in a packet that seems endless, a packet is received in step  *)
(* again. Only the timer brings the receiver back from a length of 0.      *)
Recovers == calm ~> track = "instep"
=============================================================================
