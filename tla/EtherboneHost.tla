---------------------------- MODULE EtherboneHost ---------------------------
(***************************************************************************)
(* Programs that access registers over Etherbone: sniff.py with the Python *)
(* client (software/etherbone.py), which in the end only listens to the    *)
(* capture, and the tests in C with theirs (software/linux/compat.c). A    *)
(* write is sent and forgotten; a read waits for its reply, on a channel   *)
(* that carries the packets of the capture too.                            *)
(***************************************************************************)
EXTENDS Etherbone

CONSTANTS Counts,       \* accesses in a record
          MaxDown,      \* words the road from the host holds
          MaxUp         \* packets the road to the host holds

ASSUME CountsAssumption == Counts \subseteq Nat \ {0}
ASSUME RoadAssumption == MaxDown \in Nat /\ MaxUp \in Nat

VARIABLES lang,     \* which of the two programs runs
          doing,    \* what it does: idle, read, listen to the capture, or over
          asked,    \* address and count of its last read
          got,      \* the words it was given for it, until its next access
          regs      \* what it last wrote to each register

hostVars == <<lang, doing, asked, got, regs>>
vars == <<ebVars, hostVars>>

HostInit == /\ Init
            /\ lang \in {"python", "c"} /\ doing = "idle"
            /\ asked = [addr |-> 0, count |-> 0] /\ got = << >>
            /\ regs = [a \in Addr |-> 0]

Span(a, n) == a .. a + n - 1

(* eb_make_write_pkt, eb_make_read_pkt: a record with n words behind the   *)
(* base address, the last one marked by the depacketizer of the USB core.  *)
Request(a, w, r, words) ==
  << [wcount |-> w, rcount |-> r], [data |-> a, last |-> FALSE] >>
  \o [i \in 1 .. Len(words) |-> [data |-> words[i], last |-> i = Len(words)]]

Send(packet) == /\ Len(down) + Len(packet) <= MaxDown
                /\ down' = down \o packet
                /\ UNCHANGED <<inVars, accessVars, outVars, up>>

EbWrite(a, n) ==
  /\ doing = "idle" /\ Span(a, n) \subseteq Addr
  /\ \E values \in [1 .. n -> Value] :
       /\ Send(Request(a, n, 0, values))
       /\ regs' = [b \in Addr |-> IF b \in Span(a, n) THEN values[b - a + 1] ELSE regs[b]]
  /\ got' = << >>
  /\ UNCHANGED <<lang, doing, asked>>

EbRead(a, n) ==
  /\ doing = "idle" /\ Span(a, n) \subseteq Addr
  /\ Send(Request(0, 0, n, [i \in 1 .. n |-> a + i - 1]))
  /\ doing' = "read" /\ asked' = [addr |-> a, count |-> n] /\ got' = << >>
  /\ UNCHANGED <<lang, regs>>

-----------------------------------------------------------------------------
(* The next packet is taken from the channel.                              *)
Recv == up # << >> /\ up' = Tail(up) /\ UNCHANGED <<down, inVars, accessVars, outVars>>

(* Python: packets of other streams are dropped until the reply comes.     *)
RecvPythonAny ==                                                \* mutant
  /\ lang = "python" /\ doing = "read" /\ Recv
  /\ doing' = "idle" /\ got' = Head(up).words
  /\ UNCHANGED <<lang, asked, regs>>
RecvPython ==
  /\ lang = "python" /\ doing = "read" /\ Recv
  /\ IF Head(up).stream = "wishbone"
       THEN doing' = "idle" /\ got' = Head(up).words
       ELSE UNCHANGED <<doing, got>>
  /\ UNCHANGED <<lang, asked, regs>>

(* C: the next packet is the reply, whatever its stream. Bound: a program  *)
(* that took a packet of the capture for a reply is followed no further.   *)
RecvC ==
  /\ lang = "c" /\ doing = "read" /\ Recv
  /\ doing' = IF Head(up).stream = "wishbone" THEN "idle" ELSE "over"
  /\ got' = Head(up).words
  /\ UNCHANGED <<lang, asked, regs>>

Over == doing = "over" /\ UNCHANGED vars

(* sniff.py, after its last access: every packet is of the capture.        *)
Listen == /\ lang = "python" /\ doing = "idle" /\ doing' = "listen"
          /\ UNCHANGED <<ebVars, lang, asked, got, regs>>
RecvCapture == doing = "listen" /\ Recv /\ UNCHANGED hostVars

-----------------------------------------------------------------------------
(* The arbiter sends the packets of the capture between the replies.       *)
Room == Len(up) < MaxUp
Capture == /\ tx.state = "IDLE" /\ Room
           /\ up' = Append(up, [stream |-> "ulpi0", length |-> 0, words |-> << >>])
           /\ UNCHANGED <<down, inVars, accessVars, outVars, hostVars>>

Client == \/ \E a \in Addr, n \in Counts : EbWrite(a, n) \/ EbRead(a, n)
          \/ RecvPython \/ RecvC \/ Over \/ Listen \/ RecvCapture

Step(A) == A /\ UNCHANGED hostVars

Next == \/ Step(In) \/ Step(Access) \/ Step(Out) \/ Step(Room /\ TxIdle)
        \/ Client \/ Capture

Spec == HostInit /\ [][Next]_vars

(* Every stage goes on while it can; a reply gets the channel in the end   *)
(* (UsbTx, Answered); a program that waits for a packet takes it.          *)
FairSpec == /\ Spec
            /\ WF_vars(Step(In)) /\ WF_vars(Step(Access)) /\ WF_vars(Step(Out))
            /\ SF_vars(Step(Room /\ TxIdle))
            /\ WF_vars(RecvPython \/ RecvC \/ RecvCapture)

-----------------------------------------------------------------------------
(* The stages and their FIFOs.                                             *)
TypeOK ==
  /\ Len(down) <= MaxDown /\ Len(up) <= MaxUp
  /\ Len(fifo) <= Depth /\ Len(pbuffer) <= Depth
  /\ rx.state \in {"IDLE", "PRESENT"}
  /\ rcv.state \in {"IDLE", "RECEIVE_WRITES", "RECEIVE_READS"}
  /\ rcv.base + rcv.counter \in Nat
  /\ master.state \in {"IDLE", "WRITE_DATA", "READ_DATA", "SEND_DATA"}
  /\ snd \in {"IDLE", "SEND_BASE_ADDRESS", "SEND_DATA"}
  /\ mem \in [Addr -> Value]

(* testsuite.c:45, "read our written value, must match": a read returns,   *)
(* one by one, the values last written to its addresses, though the writes *)
(* before it were never acknowledged; with the C client as long as no      *)
(* packet of the capture came in the place of a reply.                     *)
ReadMatches ==
  doing # "over" /\ got # << >> =>
    got = [i \in 1 .. asked.count |-> regs[asked.addr + i - 1]]

(* sniff.py:153-155: once a program does not wait for a reply there is     *)
(* none on its way, so that listening to the capture never meets one (recv *)
(* would return None), and the next read never takes an old one.           *)
NoReplyLeft ==
  doing \in {"idle", "listen"} =>
    /\ pbuffer = << >> /\ snd = "IDLE" /\ tx.state = "IDLE"
    /\ \A i \in 1 .. Len(up) : up[i].stream # "wishbone"

(* etherbone.py:147, 396-398: the announced length, taken before the words *)
(* of the record have all been read from the bus, is the packet's length.  *)
LengthAgrees ==
  \A i \in 1 .. Len(up) :
    up[i].stream = "wishbone" => up[i].length = 16 + 4 * Len(up[i].words)

(* A read ends, however busy the capture keeps the channel.                *)
ReadEnds == doing = "read" ~> doing # "read"
=============================================================================
