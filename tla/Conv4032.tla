------------------------------ MODULE Conv4032 ------------------------------
(***************************************************************************)
(* Conv4032 (gateware/iti.py:280-358): the ITI records, 2 to 5 bytes each, *)
(* are laid end to end and cut into words of 4 bytes.  Up to 3 bytes wait  *)
(* in tmp for the next record; one record in sixteen, 5 bytes upon 3, ends *)
(* two words at once and needs the state SEND_EXTRA.                       *)
(*                                                                         *)
(* The bytes of the records are numbered in the order they are accepted,   *)
(* so that a byte lost, repeated or displaced shows in the words.          *)
(***************************************************************************)
EXTENDS Integers

CONSTANT MaxBytes     \* bound: the producer stops after this many bytes

ASSUME MaxBytesAssumption == MaxBytes \in Nat

VARIABLES state,      \* of the FSM
          tmp,        \* the bytes kept for the next word
          remain,     \* how many of them count
          accepted,   \* bytes accepted from sink: the number of the next one
          sent,       \* words taken from source
          word        \* the last of them

vars == <<state, tmp, remain, accepted, sent, word>>

Lane == 0 .. 3

Init == /\ state = "NORMAL" /\ remain = 0
        /\ tmp = [k \in Lane |-> 0]
        /\ accepted = 0 /\ sent = 0
        /\ word = [k \in Lane |-> 0]

(* A record of n bytes is on sink. *)
Offered(n) == /\ state = "NORMAL"
              /\ n \in 2 .. 5
              /\ accepted + n <= MaxBytes

(* What a record leaves in tmp: after a word is made, its tail moves to    *)
(* the front; else it is put behind what was there.                        *)
TailKept(n) ==
  [k \in Lane |->
     IF remain + n < 4
       THEN IF remain <= k /\ k < remain + n THEN accepted + k - remain ELSE tmp[k]
       ELSE IF k < remain + n - 4 THEN accepted + 4 - remain + k ELSE tmp[k]]

Keep(n) == /\ tmp' = TailKept(n)
           /\ remain' = (remain + n) % 4
           /\ accepted' = accepted + n

(* Too few bytes for a word: the record is accepted whatever source.ready. *)
Gather(n) == /\ Offered(n)
             /\ remain + n < 4
             /\ Keep(n)
             /\ UNCHANGED <<state, sent, word>>

EmitNoExtra(n) ==                                               \* mutant
  /\ Offered(n)
  /\ remain + n >= 4
  /\ word' = [k \in Lane |-> IF k < remain THEN tmp[k] ELSE accepted + k - remain]
  /\ sent' = sent + 1
  /\ Keep(n)
  /\ state' = "NORMAL"

(* The record completes a word, which leaves in the same cycle. *)
Emit(n) == /\ Offered(n)
           /\ remain + n >= 4
           /\ word' = [k \in Lane |-> IF k < remain THEN tmp[k] ELSE accepted + k - remain]
           /\ sent' = sent + 1
           /\ Keep(n)
           /\ state' = IF remain = 3 /\ n = 5 THEN "SEND_EXTRA" ELSE "NORMAL"

(* The second word of such a record leaves; sink waits. *)
EmitExtra == /\ state = "SEND_EXTRA"
             /\ word' = tmp
             /\ sent' = sent + 1
             /\ state' = "NORMAL"
             /\ UNCHANGED <<tmp, remain, accepted>>

Next == (\E n \in 2 .. 5 : Gather(n) \/ Emit(n)) \/ EmitExtra

Spec == Init /\ [][Next]_vars

-----------------------------------------------------------------------------
(* Types and widths: remain has 2 bits and never stands for 4 bytes.       *)
TypeOK == /\ state \in {"NORMAL", "SEND_EXTRA"}
          /\ tmp \in [Lane -> Nat] /\ word \in [Lane -> Nat]
          /\ remain \in Lane
          /\ accepted \in 0 .. MaxBytes /\ sent \in Nat

(* Every byte accepted is in a word already sent or waits in tmp, at its   *)
(* place: between two words no byte is dropped or kept twice.              *)
NothingLost ==
  LET held == IF state = "SEND_EXTRA" THEN 4 ELSE remain
  IN  /\ accepted = 4 * sent + held
      /\ \A k \in Lane : k < held => tmp[k] = 4 * sent + k

(* iti.py:304,336: the words carry the bytes of the records in order, four *)
(* by four, across every alignment and across SEND_EXTRA.                  *)
WordsInOrder == sent > 0 => \A k \in Lane : word[k] = 4 * (sent - 1) + k
=============================================================================
