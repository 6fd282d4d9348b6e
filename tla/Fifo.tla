-------------------------------- MODULE Fifo --------------------------------
(***************************************************************************)
(* What every stage of the capture path promises to its two neighbours: a  *)
(* first-in first-out queue.  The words of the stream are numbered modulo  *)
(* Tags in the order the producer writes them; the queue hands them over   *)
(* in that order, none lost, repeated or invented.                         *)
(***************************************************************************)
EXTENDS Integers, Sequences

CONSTANT Tags       \* words are told apart by their number modulo Tags

VARIABLES in,       \* the last word accepted from the producer
          q,        \* the words accepted and not yet delivered
          out       \* the last word delivered to the consumer

Word == 0 .. Tags - 1

Next1(w) == (w + 1) % Tags

Init == in = Tags - 1 /\ out = Tags - 1 /\ q = << >>

Accept == /\ in' = Next1(in)
          /\ q' = Append(q, in')
          /\ UNCHANGED out

Deliver == /\ q # << >>
           /\ out' = Head(q)
           /\ q' = Tail(q)
           /\ UNCHANGED in

(* A word enters and another one leaves in the same clock cycle. *)
AcceptDeliver == /\ q # << >>
                 /\ in' = Next1(in)
                 /\ out' = Head(q)
                 /\ q' = Append(Tail(q), in')

Next == Accept \/ Deliver \/ AcceptDeliver

Spec == Init /\ [][Next]_<<in, q, out>>
=============================================================================
