------------------------------- MODULE UsbTx --------------------------------
(***************************************************************************)
(* The road to the host (gateware/usb.py, wrapper.py, etherbone.py): two   *)
(* producers, the capture stream (WrapSender) and the replies to register  *)
(* accesses (EtherbonePacketTX), share one 32-bit channel.  The crossbar's *)
(* arbiter lends it packet by packet, USBPacketizer puts a header of three *)
(* words before each, and the host finds the packets back from the length  *)
(* in the header alone.                                                    *)
(*                                                                         *)
(* One step is one clock cycle: put is the capture's sink.valid, reply the *)
(* length of an answer that becomes ready (0: none), bubble a cycle in     *)
(* which the next word of the answer is not there yet, phy the PHY's ready.*)
(***************************************************************************)
EXTENDS WrapSender

CONSTANTS ReplyLengths,    \* lengths of the answers, in words
          None             \* no word was emitted

ASSUME ReplyAssumption == ReplyLengths \subseteq Nat \ {0}

VARIABLES left,       \* words left in the answer being sent, 0 between answers
          begun,      \* one of them was sent
          grant,      \* RoundRobin: the port that has the bus
          ongoing,    \* Status: port -> a packet of it is under way
          pack,       \* state of the USBPacketizer
          mux,        \* words of the header already sent
          host,       \* what the host is waiting for, and of which packet
          out         \* last word of the capture the host has filed

busVars == <<left, begun, grant, ongoing, pack, mux>>
hostVars == <<host, out>>
vars == <<wrapVars, busVars, hostVars>>

Port == {"wishbone", "ulpi0"}     \* usb_map, usbsniffer.py:306-310

ASSUME NoneAssumption ==
  None \notin [kind : {"magic", "dst", "length", "payload"},
              value : Nat \cup Port \cup {None, "reply"}]

UsbInit == /\ Init
           /\ left = 0 /\ begun = FALSE
           /\ grant = "wishbone" /\ ongoing = [p \in Port |-> FALSE]
           /\ pack = "IDLE" /\ mux = 0
           /\ host = [wants |-> "magic", dst |-> None, left |-> 0]
           /\ out = Tags - 1

-----------------------------------------------------------------------------
(* The two ports of the crossbar, and the one it lends the bus to. *)

Valid(p, bubble) ==
  IF p = "ulpi0" THEN SourceValid ELSE left > 0 /\ ~(begun /\ bubble)
Last(p) == IF p = "ulpi0" THEN SourceLast ELSE left = 1
Length(p) == IF p = "ulpi0" THEN SourceLength ELSE 4 * left
Payload(p) == IF p = "ulpi0" THEN Head(buf) ELSE "reply"

Offer(bubble) == Valid(grant, bubble)

(* USBPacketizer: only in COPY are the words of the port taken. *)
Taken(bubble, phy) == pack = "COPY" /\ Offer(bubble) /\ phy
ReadyUngranted(p, phy) == pack = "COPY" /\ phy                  \* mutant
Ready(p, phy) == p = grant /\ pack = "COPY" /\ phy
Done(p, bubble, phy) == Valid(p, bubble) /\ Last(p) /\ Ready(p, phy)

(* The word that goes to the PHY in this cycle. *)
Emitted(bubble, phy) ==
  CASE pack = "HEADER" /\ phy ->
         << [kind |-> "magic", value |-> None],
            [kind |-> "dst", value |-> grant],
            [kind |-> "length", value |-> Length(grant)] >>[mux + 1]
    [] Taken(bubble, phy) -> [kind |-> "payload", value |-> Payload(grant)]
    [] OTHER -> None

-----------------------------------------------------------------------------
(* Clocked assignments. *)

(* EtherbonePacketTX: an answer of n words begins, or goes on. *)
ReplySync(n, bubble, phy) ==
  LET sent == Ready("wishbone", phy) /\ Valid("wishbone", bubble)
  IN  /\ n # 0 => left = 0
      /\ left' = CASE n # 0 -> n
                   [] n = 0 /\ sent -> left - 1
                   [] OTHER -> left
      /\ begun' = (left' > 0 /\ (begun \/ sent))

(* Status: a packet is under way from its first valid to its last word. *)
OngoingNow(p, bubble, phy) == Valid(p, bubble)                  \* mutants
OngoingForever(p, bubble, phy) == Valid(p, bubble) \/ ongoing[p]
Ongoing(p, bubble, phy) ==
  (Valid(p, bubble) \/ ongoing[p]) /\ ~Done(p, bubble, phy)

(* RoundRobin (SP_WITHDRAW): the bus goes to another port that has a       *)
(* packet once the one that holds it has none.                             *)
GrantSync(bubble, phy) ==
  /\ ongoing' = [p \in Port |-> Ongoing(p, bubble, phy)]
  /\ IF Ongoing(grant, bubble, phy)
       THEN UNCHANGED grant
       ELSE \/ grant' \in {p \in Port \ {grant} : Ongoing(p, bubble, phy)}
            \/ (\A p \in Port : ~Ongoing(p, bubble, phy)) /\ UNCHANGED grant

PackIdle(bubble, phy) ==
  /\ pack = "IDLE"
  /\ pack' = IF Offer(bubble) THEN "HEADER" ELSE "IDLE"
  /\ UNCHANGED mux

PackHeaderUnbounded(bubble, phy) ==                             \* mutant
  /\ pack = "HEADER"
  /\ mux' = IF phy THEN mux + 1 ELSE mux
  /\ pack' = IF phy /\ mux = 2 THEN "COPY" ELSE "HEADER"
PackHeader(bubble, phy) ==
  /\ pack = "HEADER"
  /\ mux' = IF phy THEN (mux + 1) % 3 ELSE mux
  /\ pack' = IF phy /\ mux = 2 THEN "COPY" ELSE "HEADER"

PackCopy(bubble, phy) ==
  /\ pack = "COPY"
  /\ pack' = IF Taken(bubble, phy) /\ Last(grant) THEN "IDLE" ELSE "COPY"
  /\ UNCHANGED mux

-----------------------------------------------------------------------------
(* The host (software/etherbone.py:18-41): magic, destination, length, and *)
(* that many bytes. It gives up (assert) on a wrong magic.                 *)

Header(word, kind, next) == IF word.kind = kind THEN next ELSE [host EXCEPT !.wants = "lost"]

Receive(word) ==
  /\ host' =
       CASE host.wants = "magic" ->
              Header(word, "magic", [host EXCEPT !.wants = "dst"])
         [] host.wants = "dst" ->
              Header(word, "dst", [host EXCEPT !.wants = "length", !.dst = word.value])
         [] host.wants = "length" ->
              Header(word, "length", [host EXCEPT !.wants = "payload",
                                                  !.left = word.value \div 4])
         [] host.wants = "payload" /\ host.left > 1 ->
              [host EXCEPT !.left = host.left - 1]
         [] host.wants = "payload" /\ host.left <= 1 ->
              [wants |-> "magic", dst |-> None, left |-> 0]
         [] host.wants = "lost" -> host
  /\ out' = IF host.wants = "payload" /\ host.dst = "ulpi0" THEN word.value ELSE out

HostSync(bubble, phy) ==
  IF Emitted(bubble, phy) = None THEN UNCHANGED hostVars
  ELSE Receive(Emitted(bubble, phy))

-----------------------------------------------------------------------------
Tick(put, n, bubble, phy) ==
  /\ Cycle(put, Ready("ulpi0", phy))
  /\ ReplySync(n, bubble, phy)
  /\ GrantSync(bubble, phy)
  /\ PackIdle(bubble, phy) \/ PackHeader(bubble, phy) \/ PackCopy(bubble, phy)
  /\ HostSync(bubble, phy)

UsbNext == \E put, bubble, phy \in BOOLEAN, n \in ReplyLengths \cup {0} :
             Tick(put, n, bubble, phy)

UsbSpec == UsbInit /\ [][UsbNext]_vars

(* The clock runs, the words of an answer come, and the PHY is ready again *)
(* and again. How many words of the capture come, and when, is left open:  *)
(* the fairness is on the registers a cycle changes without one.           *)
UsbFairSpec ==
  /\ UsbSpec
  /\ WF_<<state, count, timer, grant, ongoing, pack, mux>>(UsbNext)
  /\ SF_vars(\E put \in BOOLEAN, n \in ReplyLengths \cup {0} :
               Emitted(FALSE, TRUE) # None /\ Tick(put, n, FALSE, TRUE))

-----------------------------------------------------------------------------
(* Types of the registers of the bus, and of what the host remembers.      *)
UsbTypeOK ==
  /\ TypeOK
  /\ left \in Nat /\ (left = 0 \/ \E n \in ReplyLengths : left <= n) /\ begun \in BOOLEAN
  /\ grant \in Port /\ ongoing \in [Port -> BOOLEAN]
  /\ pack \in {"IDLE", "HEADER", "COPY"} /\ mux \in 0 .. 2
  /\ host.wants \in {"magic", "dst", "length", "payload", "lost"}
  /\ host.dst \in Port \cup {None}

(* software/etherbone.py:25, assert(magic == self.magic): the host never   *)
(* loses the packet boundaries, whichever producer interrupts the other.   *)
HostInSync == host.wants # "lost"

(* wrapper.py:64: the length the capture announces shrinks with every word *)
(* sent, and the header takes the one of the cycle in which its third word *)
(* leaves (usb.py:80-87). From then on the host and the producer agree on  *)
(* how many words are left, and the bus is still with that producer.       *)
LengthAgrees ==
  host.wants = "payload" =>
    /\ pack = "COPY" /\ host.dst = grant
    /\ host.left = IF grant = "ulpi0" THEN count ELSE left

(* The capture arrives at the host whole and in order, whatever replies    *)
(* come between its packets.                                               *)
Capture == INSTANCE Fifo WITH q <- buf
CaptureInOrder == Capture!Spec

(* usb.py:220: an answer is sent in the end, even when the capture never   *)
(* leaves its TRANSFER state (wrapper.py:75).                              *)
Answered == left > 0 ~> left = 0
=============================================================================
