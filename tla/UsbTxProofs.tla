---------------------------- MODULE UsbTxProofs -----------------------------
(***************************************************************************)
(* The road to the host for every depth, timeout and length of the         *)
(* answers: a packet of the capture never runs dry or announces 0 words    *)
(* (WrapSender, first alone), the host finds every packet boundary         *)
(* (software/etherbone.py), the lengths agree, and the capture arrives     *)
(* whole and in order.                                                     *)
(***************************************************************************)
EXTENDS UsbTx, SequenceTheorems, TLAPS

(* The timer is only done while a word waits. *)
TimerBacked == state = "BUFFER" /\ timer = 0 => Len(buf) > 0

IInv == TypeOK /\ PacketBacked /\ TimerBacked

(* The FIFO keeps to its capacity and loses only the word that is sent. *)
LEMMA BufStep ==
  ASSUME TypeOK, NEW put \in BOOLEAN, NEW ready \in BOOLEAN, BufSync(put, ready)
  PROVE  /\ buf' \in Seq(Word) /\ Len(buf') <= Depth + 1 /\ in' \in Word
         /\ Len(buf) \in Nat /\ Len(buf') \in Nat
         /\ Sent(ready) => Len(buf) > 0
         /\ Len(buf') >= Len(buf) - (IF Sent(ready) THEN 1 ELSE 0)
         /\ buf # << >> <=> Len(buf) > 0
  <1> DEFINE kept == IF Sent(ready) THEN Tail(buf) ELSE buf
  <1>1. buf \in Seq(Word) /\ Len(buf) \in Nat /\ in \in Word
        /\ (buf # << >> <=> Len(buf) > 0)
    BY EmptySeq, LenProperties DEF TypeOK
  <1>2. Sent(ready) => Len(buf) > 0
    BY <1>1 DEF Sent, SourceValid
  <1>3. kept \in Seq(Word) /\ Len(kept) = Len(buf) - (IF Sent(ready) THEN 1 ELSE 0)
    BY <1>1, <1>2
  <1>4. CASE put /\ Len(buf) < Depth + 1
    <2>1. in' \in Word
      BY <1>1, <1>4, TagsAssumption DEF BufSync, Word
    <2>2. buf' = Append(kept, in')
      BY <1>4 DEF BufSync
    <2>3. buf' \in Seq(Word) /\ Len(buf') = Len(kept) + 1
      BY <1>3, <2>1, <2>2
    <2> QED
      BY <1>1, <1>2, <1>3, <1>4, <2>1, <2>3, DepthAssumption
  <1>5. CASE ~(put /\ Len(buf) < Depth + 1)
    BY <1>1, <1>2, <1>3, <1>5, DepthAssumption DEF BufSync, TypeOK
  <1> QED
    BY <1>4, <1>5

(* After reset the buffer is empty and the timer is loaded. *)
LEMMA InitIInv == Init => IInv
  BY EmptySeq, DepthAssumption, TimeoutAssumption, TagsAssumption
     DEF Init, IInv, TypeOK, PacketBacked, TimerBacked, Word

(* A cycle in either state of the FSM, and a stutter, keep the invariant. *)
LEMMA NextIInv == IInv /\ [Next]_wrapVars => IInv'
  <1> SUFFICES ASSUME IInv, [Next]_wrapVars PROVE IInv'
    OBVIOUS
  <1> USE DepthAssumption, TimeoutAssumption
  <1>1. ASSUME NEW put \in BOOLEAN, NEW ready \in BOOLEAN, Buffer(put, ready)
        PROVE  IInv'
    <2>1. /\ buf' \in Seq(Word) /\ Len(buf') <= Depth + 1 /\ in' \in Word
          /\ Len(buf) \in Nat /\ Len(buf') \in Nat
          /\ Len(buf') >= Len(buf)
          /\ buf # << >> <=> Len(buf) > 0
      BY <1>1, BufStep DEF IInv, Buffer, Sent, SourceValid
    <2>2. TypeOK'
      BY <1>1, <2>1 DEF IInv, TypeOK, Buffer, TimerSync
    <2>3. PacketBacked'
      BY <1>1, <2>1 DEF IInv, TypeOK, TimerBacked, PacketBacked, Buffer
    <2>4. TimerBacked'
      BY <1>1, <2>1 DEF IInv, TypeOK, TimerBacked, Buffer, TimerSync
    <2> QED
      BY <2>2, <2>3, <2>4 DEF IInv
  <1>2. ASSUME NEW put \in BOOLEAN, NEW ready \in BOOLEAN, Transfer(put, ready)
        PROVE  IInv'
    <2>1. /\ buf' \in Seq(Word) /\ Len(buf') <= Depth + 1 /\ in' \in Word
          /\ Len(buf) \in Nat /\ Len(buf') \in Nat
          /\ Len(buf') >= Len(buf) - (IF Sent(ready) THEN 1 ELSE 0)
      BY <1>2, BufStep DEF IInv, Transfer
    <2>2. timer' = Timeout /\ count \in 1 .. Len(buf) /\ count \in 0 .. Depth + 1
          /\ Len(buf) <= Depth + 1 /\ timer \in 0 .. Timeout
      BY <1>2 DEF IInv, TypeOK, PacketBacked, Transfer, TimerSync
    <2>3. CASE Sent(ready) /\ SourceLast
      BY <1>2, <2>1, <2>2, <2>3
         DEF IInv, TypeOK, PacketBacked, TimerBacked, Transfer, AfterLast
    <2>4. CASE Sent(ready) /\ ~SourceLast
      BY <1>2, <2>1, <2>2, <2>4
         DEF IInv, TypeOK, PacketBacked, TimerBacked, Transfer, SourceLast
    <2>5. CASE ~Sent(ready)
      BY <1>2, <2>1, <2>2, <2>5 DEF IInv, TypeOK, PacketBacked, TimerBacked, Transfer
    <2> QED
      BY <2>3, <2>4, <2>5
  <1>3. CASE UNCHANGED wrapVars
    BY <1>3 DEF wrapVars, IInv, TypeOK, PacketBacked, TimerBacked
  <1> QED
    BY <1>1, <1>2, <1>3 DEF Next, Cycle

(* The invariant of the sender (wrapper.py:50-84) holds for every depth,   *)
(* every timeout and every timing of its two neighbours.                   *)
THEOREM Invariance == Spec => []IInv
  BY InitIInv, NextIInv, PTL DEF Spec

(* wrapper.py:56-82: a packet begun can always be completed. *)
THEOREM NeverDry == Spec => []PacketBacked
  BY Invariance, PTL DEF IInv
-----------------------------------------------------------------------------
(* What the host remembers. *)
HostType == host \in [wants : {"magic", "dst", "length", "payload", "lost"},
                      dst : Port \cup {None}, left : Nat]

(* The words left of the packet of the port that has the bus.              *)
WordsLeft == IF grant = "ulpi0" THEN count ELSE left

(* From its header on, a packet is under way at the port that has the bus. *)
Held == pack # "IDLE" =>
          /\ ongoing[grant]
          /\ IF grant = "ulpi0" THEN state = "TRANSFER" ELSE left > 0

(* A packet is under way, or one begins in this cycle.                     *)
Under(bubble) == pack # "IDLE" \/ Offer(bubble)

(* The host waits for the very word that the packetizer sends next.        *)
Follows ==
  /\ pack = "IDLE" => host.wants = "magic" /\ mux = 0
  /\ pack = "HEADER" =>
       /\ mux = 0 => host.wants = "magic"
       /\ mux = 1 => host.wants = "dst"
       /\ mux = 2 => host.wants = "length" /\ host.dst = grant
  /\ pack = "COPY" =>
       /\ host.wants = "payload" /\ host.dst = grant /\ mux = 0
       /\ host.left = WordsLeft

UsbIInv == IInv /\ UsbTypeOK /\ HostType /\ Held /\ Follows

USE DepthAssumption, TimeoutAssumption, ReplyAssumption

-----------------------------------------------------------------------------
(* After reset the channel is idle and the host waits for a packet. *)
LEMMA UsbInitIInv == UsbInit => UsbIInv
  <1> SUFFICES ASSUME UsbInit PROVE UsbIInv
    OBVIOUS
  <1>1. IInv
    BY InitIInv DEF UsbInit
  <1>2. HostType
    BY DEF UsbInit, HostType
  <1>3. Held /\ Follows
    BY DEF UsbInit, Held, Follows
  <1>4. left \in Nat /\ left = 0 /\ mux \in 0 .. 2
    BY DEF UsbInit
  <1>5. begun \in BOOLEAN /\ ongoing \in [Port -> BOOLEAN]
    BY DEF UsbInit
  <1>6. /\ grant \in Port /\ pack \in {"IDLE", "HEADER", "COPY"}
        /\ host.wants \in {"magic", "dst", "length", "payload", "lost"}
        /\ host.dst \in Port \cup {None}
    BY DEF UsbInit, Port
  <1> QED
    BY <1>1, <1>2, <1>3, <1>4, <1>5, <1>6 DEF UsbIInv, UsbTypeOK, IInv

(* The bus is held by a packet from its first valid to its last word: no   *)
(* other port gets it in between.                                          *)
LEMMA GrantStep ==
  ASSUME UsbIInv, NEW bubble \in BOOLEAN, NEW phy \in BOOLEAN, GrantSync(bubble, phy)
  PROVE  /\ grant' \in Port /\ ongoing' \in [Port -> BOOLEAN]
         /\ Under(bubble) /\ ~Done(grant, bubble, phy)
              => grant' = grant /\ ongoing'[grant']
  <1>1. grant \in Port
    BY DEF UsbIInv, UsbTypeOK
  <1>2. \A p \in Port : Ongoing(p, bubble, phy) \in BOOLEAN
    BY DEF Ongoing
  <1>3. ongoing' = [p \in Port |-> Ongoing(p, bubble, phy)]
    BY DEF GrantSync
  <1>4. grant' \in Port
    BY <1>1 DEF GrantSync
  <1>5. ASSUME Under(bubble), ~Done(grant, bubble, phy)
        PROVE  grant' = grant /\ ongoing'[grant']
    <2>1. Ongoing(grant, bubble, phy)
      BY <1>5 DEF Under, Ongoing, Offer, UsbIInv, Held
    <2>2. grant' = grant
      BY <2>1 DEF GrantSync
    <2> QED
      BY <1>1, <1>3, <2>1, <2>2
  <1> QED
    BY <1>2, <1>3, <1>4, <1>5

(* The word that leaves in a cycle (usb.py:80-118). *)
LEMMA EmittedWord ==
  ASSUME UsbIInv, NEW bubble \in BOOLEAN, NEW phy \in BOOLEAN
  PROVE  /\ ~phy \/ pack = "IDLE" \/ (pack = "COPY" /\ ~Offer(bubble))
              => Emitted(bubble, phy) = None
         /\ pack = "HEADER" /\ phy /\ mux = 0
              => Emitted(bubble, phy) = [kind |-> "magic", value |-> None]
         /\ pack = "HEADER" /\ phy /\ mux = 1
              => Emitted(bubble, phy) = [kind |-> "dst", value |-> grant]
         /\ pack = "HEADER" /\ phy /\ mux = 2
              => Emitted(bubble, phy) = [kind |-> "length", value |-> 4 * WordsLeft]
         /\ pack = "COPY" /\ phy /\ Offer(bubble)
              => Emitted(bubble, phy) = [kind |-> "payload", value |-> Payload(grant)]
  <1>1. pack = "HEADER" => Length(grant) = 4 * WordsLeft
    BY DEF UsbIInv, Held, Length, SourceLength, WordsLeft
  <1>2. pack # "HEADER" \/ ~phy =>
          Emitted(bubble, phy) = IF Taken(bubble, phy)
                                   THEN [kind |-> "payload", value |-> Payload(grant)]
                                   ELSE None
    BY DEF Emitted
  <1>3. pack = "HEADER" /\ phy =>
          Emitted(bubble, phy) = << [kind |-> "magic", value |-> None],
                                    [kind |-> "dst", value |-> grant],
                                    [kind |-> "length", value |-> Length(grant)] >>[mux + 1]
    BY DEF Emitted, Taken
  <1> QED
    BY <1>1, <1>2, <1>3 DEF Taken

(* The two ports: who has no packet under way gets no ready, so the other  *)
(* one's words stay. Of the packet that has the bus a word leaves only in  *)
(* COPY, and the port goes on until its last.                              *)
LEMMA PortStep ==
  ASSUME UsbIInv, NEW put \in BOOLEAN, NEW n \in ReplyLengths \cup {0},
         NEW bubble \in BOOLEAN, NEW phy \in BOOLEAN, Tick(put, n, bubble, phy)
  PROVE  /\ left' \in Nat /\ (left' = 0 \/ \E m \in ReplyLengths : left' <= m)
         /\ begun' \in BOOLEAN
         /\ Taken(bubble, phy) /\ Last(grant) <=> Done(grant, bubble, phy)
         /\ Under(bubble) => WordsLeft > 0
         /\ Under(bubble) /\ ~Taken(bubble, phy) =>
              IF grant = "ulpi0" THEN state' = "TRANSFER" /\ count' = count
                                 ELSE left' = left
         /\ Taken(bubble, phy) /\ ~Last(grant) =>
              IF grant = "ulpi0" THEN state' = "TRANSFER" /\ count' = count - 1
                                 ELSE left' = left - 1
         /\ Taken(bubble, phy) => (Last(grant) <=> WordsLeft = 1)
  <1> USE DEF UsbIInv, IInv, UsbTypeOK, TypeOK, PacketBacked, Held
  <1>1. left \in Nat /\ count \in Nat /\ ReplyLengths \subseteq Nat \ {0} /\ grant \in Port
    OBVIOUS
  <1>2. ReplySync(n, bubble, phy) /\ Cycle(put, Ready("ulpi0", phy))
    BY DEF Tick
  <1>3. left' \in Nat /\ (left' = 0 \/ \E m \in ReplyLengths : left' <= m)
    <2>1. CASE n # 0
      BY <1>1, <1>2, <2>1 DEF ReplySync
    <2>2. CASE n = 0
      <3>1. left' = left \/ (left' = left - 1 /\ left > 0)
        BY <1>2, <2>2 DEF ReplySync, Valid
      <3> QED
        BY <1>1, <3>1
    <2> QED
      BY <2>1, <2>2
  <1>4. begun' \in BOOLEAN
    BY <1>2, Zenon DEF ReplySync
  <1>5. Taken(bubble, phy) /\ Last(grant) <=> Done(grant, bubble, phy)
    BY DEF Taken, Done, Offer, Ready
  <1>6. Under(bubble) => WordsLeft > 0
    BY <1>1 DEF WordsLeft, Under, Offer, Valid, SourceValid
  <1>7. Taken(bubble, phy) => (Last(grant) <=> WordsLeft = 1)
    BY <1>1 DEF Taken, Last, SourceLast, WordsLeft
  <1>8. CASE grant = "ulpi0" /\ Under(bubble)
    <2>1. state = "TRANSFER" /\ Transfer(put, Ready("ulpi0", phy))
      BY <1>2, <1>8 DEF Cycle, Buffer, Under, Offer, Valid, SourceValid
    <2>2. Sent(Ready("ulpi0", phy)) <=> Taken(bubble, phy)
      BY <1>8 DEF Sent, Ready, Taken, Offer, Valid
    <2>3. Last(grant) <=> SourceLast
      BY <1>8 DEF Last
    <2>4. ~Taken(bubble, phy) => state' = "TRANSFER" /\ count' = count
      BY <2>1, <2>2 DEF Transfer
    <2>5. Taken(bubble, phy) /\ ~Last(grant) => state' = "TRANSFER" /\ count' = count - 1
      BY <2>1, <2>2, <2>3 DEF Transfer
    <2> QED
      BY <1>3, <1>4, <1>5, <1>6, <1>7, <1>8, <2>4, <2>5
  <1>9. CASE grant # "ulpi0" /\ Under(bubble)
    <2>1. grant = "wishbone" /\ left > 0 /\ n = 0
      BY <1>1, <1>2, <1>9 DEF Port, ReplySync, Under, Offer, Valid
    <2>2. left' = IF Taken(bubble, phy) THEN left - 1 ELSE left
      BY <1>2, <2>1 DEF ReplySync, Ready, Taken, Offer
    <2> QED
      BY <1>3, <1>4, <1>5, <1>6, <1>7, <1>9, <2>2
  <1>10. CASE ~Under(bubble)
    BY <1>3, <1>4, <1>5, <1>6, <1>7, <1>10 DEF Taken, Under
  <1> QED
    BY <1>8, <1>9, <1>10

(* What the host makes of the word that leaves, or of none.                *)
LEMMA HostStep ==
  ASSUME UsbIInv, NEW bubble \in BOOLEAN, NEW phy \in BOOLEAN, HostSync(bubble, phy)
  PROVE  /\ HostType'
         /\ ~phy \/ pack = "IDLE" \/ (pack = "COPY" /\ ~Offer(bubble)) => UNCHANGED hostVars
         /\ pack = "HEADER" /\ phy => out' = out
         /\ pack = "HEADER" /\ phy /\ mux = 0 => host'.wants = "dst"
         /\ pack = "HEADER" /\ phy /\ mux = 1 => host'.wants = "length" /\ host'.dst = grant
         /\ pack = "HEADER" /\ phy /\ mux = 2 =>
              host'.wants = "payload" /\ host'.dst = grant /\ host'.left = WordsLeft
         /\ Taken(bubble, phy) =>
              /\ out' = IF grant = "ulpi0" THEN Payload(grant) ELSE out
              /\ IF WordsLeft = 1 THEN host'.wants = "magic"
                                  ELSE /\ host'.wants = "payload" /\ host'.dst = grant
                                       /\ host'.left = WordsLeft - 1
  <1> USE DEF UsbIInv, Follows
  <1>1. /\ host = [wants |-> host.wants, dst |-> host.dst, left |-> host.left]
        /\ host.left \in Nat /\ host.dst \in Port \cup {None}
        /\ grant \in Port /\ mux \in 0 .. 2 /\ pack \in {"IDLE", "HEADER", "COPY"}
        /\ WordsLeft \in Nat
    BY DEF HostType, UsbTypeOK, IInv, TypeOK, WordsLeft
  <1>2. CASE ~phy \/ pack = "IDLE" \/ (pack = "COPY" /\ ~Offer(bubble))
    <2>1. UNCHANGED hostVars
      BY <1>2, EmittedWord DEF HostSync
    <2> QED
      BY <1>2, <2>1 DEF hostVars, HostType, Taken
  <1>3. CASE pack = "HEADER" /\ phy /\ mux = 0
    <2>1. Emitted(bubble, phy) = [kind |-> "magic", value |-> None]
      BY <1>3, EmittedWord
    <2>2. Emitted(bubble, phy) # None
      BY <2>1, NoneAssumption
    <2>3. Receive([kind |-> "magic", value |-> None])
      BY <2>1, <2>2 DEF HostSync
    <2>4. host' = [host EXCEPT !.wants = "dst"] /\ out' = out
      BY <1>3, <2>3 DEF Receive, Header
    <2> QED
      BY <1>1, <1>3, <2>4 DEF HostType, Taken
  <1>4. CASE pack = "HEADER" /\ phy /\ mux = 1
    <2>1. Emitted(bubble, phy) = [kind |-> "dst", value |-> grant]
      BY <1>4, EmittedWord
    <2>2. Emitted(bubble, phy) # None
      BY <1>1, <2>1, NoneAssumption
    <2>3. Receive([kind |-> "dst", value |-> grant])
      BY <2>1, <2>2 DEF HostSync
    <2>4. host' = [host EXCEPT !.wants = "length", !.dst = grant] /\ out' = out
      BY <1>4, <2>3 DEF Receive, Header
    <2> QED
      BY <1>1, <1>4, <2>4 DEF HostType, Taken
  <1>5. CASE pack = "HEADER" /\ phy /\ mux = 2
    <2>1. Emitted(bubble, phy) = [kind |-> "length", value |-> 4 * WordsLeft]
      BY <1>5, EmittedWord
    <2>2. Emitted(bubble, phy) # None
      BY <1>1, <2>1, NoneAssumption
    <2>3. Receive([kind |-> "length", value |-> 4 * WordsLeft])
      BY <2>1, <2>2 DEF HostSync
    <2>4. host' = [host EXCEPT !.wants = "payload", !.left = (4 * WordsLeft) \div 4]
          /\ out' = out
      BY <1>5, <2>3 DEF Receive, Header
    <2>5. (4 * WordsLeft) \div 4 = WordsLeft
      BY <1>1
    <2> QED
      BY <1>1, <1>5, <2>4, <2>5 DEF HostType, Taken
  <1>6. CASE pack = "COPY" /\ phy /\ Offer(bubble)
    <2>1. Emitted(bubble, phy) = [kind |-> "payload", value |-> Payload(grant)]
      BY <1>6, EmittedWord
    <2>2. Emitted(bubble, phy) # None
      <3>1. Payload(grant) \in Nat \cup Port \cup {None, "reply"}
        <4>1. CASE grant = "ulpi0"
          <5>1. buf \in Seq(Word) /\ buf # << >>
            BY <1>6, <4>1 DEF Offer, Valid, SourceValid, IInv, TypeOK
          <5>2. Head(buf) \in Word
            BY <5>1, HeadTailProperties
          <5>3. Word \subseteq Nat
            BY TagsAssumption DEF Word
          <5> QED
            BY <4>1, <5>2, <5>3 DEF Payload
        <4>2. CASE grant # "ulpi0"
          BY <4>2 DEF Payload
        <4> QED
          BY <4>1, <4>2
      <3> QED
        BY <2>1, <3>1, NoneAssumption
    <2>3. Receive([kind |-> "payload", value |-> Payload(grant)])
      BY <2>1, <2>2 DEF HostSync
    <2>4. host.wants = "payload" /\ host.dst = grant /\ host.left = WordsLeft
      BY <1>6
    <2>5. WordsLeft > 0
      BY <1>6, <1>1 DEF Held, WordsLeft, IInv, PacketBacked
    <2>6. out' = IF grant = "ulpi0" THEN Payload(grant) ELSE out
      BY <2>3, <2>4 DEF Receive
    <2>7. host' = IF host.left > 1 THEN [host EXCEPT !.left = host.left - 1]
                                   ELSE [wants |-> "magic", dst |-> None, left |-> 0]
      BY <2>3, <2>4, <1>1 DEF Receive
    <2>8. CASE WordsLeft = 1
      <3>1. host' = [wants |-> "magic", dst |-> None, left |-> 0]
        BY <2>4, <2>7, <2>8
      <3>2. HostType' /\ host'.wants = "magic"
        BY <3>1 DEF HostType
      <3> QED
        BY <1>6, <2>6, <2>8, <3>2
    <2>9. CASE WordsLeft # 1
      <3>1. host' = [host EXCEPT !.left = host.left - 1] /\ host.left > 1
        BY <1>1, <2>4, <2>5, <2>7, <2>9
      <3>2. /\ HostType' /\ host'.wants = "payload" /\ host'.dst = grant
            /\ host'.left = WordsLeft - 1
        BY <1>1, <2>4, <3>1 DEF HostType
      <3> QED
        BY <1>6, <2>6, <2>9, <3>2
    <2> QED
      BY <2>8, <2>9
  <1> QED
    BY <1>1, <1>2, <1>3, <1>4, <1>5, <1>6

(* While a packet is under way and its last word does not leave, the bus   *)
(* stays with its port, and the port goes on.                              *)
LEMMA HeldStep ==
  ASSUME UsbIInv, NEW put \in BOOLEAN, NEW n \in ReplyLengths \cup {0},
         NEW bubble \in BOOLEAN, NEW phy \in BOOLEAN, Tick(put, n, bubble, phy),
         Under(bubble), ~(Taken(bubble, phy) /\ Last(grant))
  PROVE  /\ Held' /\ grant' = grant
         /\ WordsLeft' = IF Taken(bubble, phy) THEN WordsLeft - 1 ELSE WordsLeft
  <1>1. ~Done(grant, bubble, phy)
    BY DEF Done, Ready, Taken, Offer
  <1>2. grant' = grant /\ ongoing'[grant']
    BY <1>1, GrantStep DEF Tick
  <1>3. left \in Nat /\ count \in Nat /\ WordsLeft > 0
    BY PortStep DEF UsbIInv, UsbTypeOK, TypeOK
  <1>4. CASE Taken(bubble, phy)
    <2>1. ~Last(grant) /\ WordsLeft # 1
      BY <1>4, PortStep
    <2>2. IF grant = "ulpi0" THEN state' = "TRANSFER" /\ count' = count - 1
                             ELSE left' = left - 1
      BY <1>4, <2>1, PortStep
    <2> QED
      BY <1>2, <1>3, <1>4, <2>1, <2>2 DEF Held, WordsLeft
  <1>5. CASE ~Taken(bubble, phy)
    <2>1. IF grant = "ulpi0" THEN state' = "TRANSFER" /\ count' = count
                             ELSE left' = left
      BY <1>5, PortStep
    <2> QED
      BY <1>2, <1>3, <1>5, <2>1 DEF Held, WordsLeft
  <1> QED
    BY <1>4, <1>5

(* A cycle in each state of the packetizer, and a stutter, keep the        *)
(* invariant.                                                              *)
LEMMA NextUsbIInv == UsbIInv /\ [UsbNext]_vars => UsbIInv'
  <1> SUFFICES ASSUME UsbIInv, [UsbNext]_vars PROVE UsbIInv'
    OBVIOUS
  <1>1. ASSUME NEW put \in BOOLEAN, NEW n \in ReplyLengths \cup {0},
               NEW bubble \in BOOLEAN, NEW phy \in BOOLEAN, Tick(put, n, bubble, phy)
        PROVE  UsbIInv'
    <2>1. IInv'
      <3>1. Ready("ulpi0", phy) \in BOOLEAN
        BY DEF Ready
      <3>2. [Next]_wrapVars
        BY <1>1, <3>1 DEF Tick, Next
      <3> QED
        BY <3>2, NextIInv DEF UsbIInv
    <2>2. HostType'
      BY <1>1, HostStep DEF Tick
    <2>3. grant' \in Port /\ ongoing' \in [Port -> BOOLEAN]
      BY <1>1, GrantStep DEF Tick
    <2>4. left' \in Nat /\ (left' = 0 \/ \E m \in ReplyLengths : left' <= m) /\ begun' \in BOOLEAN
      BY <1>1, PortStep
    <2>5. pack' \in {"IDLE", "HEADER", "COPY"} /\ mux' \in 0 .. 2 /\ Held' /\ Follows'
      <3>0. pack \in {"IDLE", "HEADER", "COPY"} /\ mux \in 0 .. 2
        BY DEF UsbIInv, UsbTypeOK
      <3>1. CASE pack = "IDLE"
        <4>1. pack' = (IF Offer(bubble) THEN "HEADER" ELSE "IDLE") /\ mux' = mux /\ mux = 0
          BY <1>1, <3>1 DEF Tick, PackIdle, PackHeader, PackCopy, UsbIInv, Follows
        <4>2. host' = host /\ host.wants = "magic"
          BY <1>1, <3>1, HostStep DEF Tick, hostVars, UsbIInv, Follows
        <4>3. CASE Offer(bubble)
          <5>1. Held'
            BY <1>1, <3>1, <4>3, HeldStep DEF Under, Taken
          <5> QED
            BY <4>1, <4>2, <4>3, <5>1 DEF Follows
        <4>4. CASE ~Offer(bubble)
          BY <4>1, <4>2, <4>4 DEF Follows, Held
        <4> QED
          BY <4>3, <4>4
      <3>2. CASE pack = "HEADER"
        <4>1. /\ pack' = IF phy /\ mux = 2 THEN "COPY" ELSE "HEADER"
              /\ mux' = IF phy THEN (mux + 1) % 3 ELSE mux
          BY <1>1, <3>2 DEF Tick, PackIdle, PackHeader, PackCopy
        <4>2. Held' /\ grant' = grant /\ WordsLeft' = WordsLeft
          BY <1>1, <3>2, HeldStep DEF Under, Taken
        <4>3. CASE ~phy
          <5>1. host' = host /\ pack' = "HEADER" /\ mux' = mux
            BY <1>1, <3>2, <4>1, <4>3, HostStep DEF Tick, hostVars
          <5> QED
            BY <3>0, <3>2, <4>2, <5>1 DEF Follows, UsbIInv
        <4>4. CASE phy /\ mux = 0
          <5>1. host'.wants = "dst"
            BY <1>1, <3>2, <4>4, HostStep DEF Tick
          <5>2. mux' = 1 /\ pack' = "HEADER"
            BY <4>1, <4>4
          <5> QED
            BY <4>2, <5>1, <5>2 DEF Follows
        <4>5. CASE phy /\ mux = 1
          <5>1. host'.wants = "length" /\ host'.dst = grant
            BY <1>1, <3>2, <4>5, HostStep DEF Tick
          <5>2. mux' = 2 /\ pack' = "HEADER"
            BY <4>1, <4>5
          <5> QED
            BY <4>2, <5>1, <5>2 DEF Follows
        <4>6. CASE phy /\ mux = 2
          <5>1. host'.wants = "payload" /\ host'.dst = grant /\ host'.left = WordsLeft
            BY <1>1, <3>2, <4>6, HostStep DEF Tick
          <5>2. mux' = 0 /\ pack' = "COPY"
            BY <4>1, <4>6
          <5> QED
            BY <4>2, <5>1, <5>2 DEF Follows
        <4> QED
          BY <3>0, <4>3, <4>4, <4>5, <4>6
      <3>3. CASE pack = "COPY"
        <4>1. /\ pack' = IF Taken(bubble, phy) /\ Last(grant) THEN "IDLE" ELSE "COPY"
              /\ mux' = mux /\ mux = 0
          BY <1>1, <3>3 DEF Tick, PackIdle, PackHeader, PackCopy, UsbIInv, Follows
        <4>2. CASE Taken(bubble, phy) /\ Last(grant)
          <5>1. WordsLeft = 1
            BY <1>1, <4>2, PortStep
          <5>2. host'.wants = "magic"
            BY <1>1, <4>2, <5>1, HostStep DEF Tick
          <5> QED
            BY <4>1, <4>2, <5>2 DEF Held, Follows
        <4>3. CASE ~(Taken(bubble, phy) /\ Last(grant))
          <5>1. /\ Held' /\ grant' = grant
                /\ WordsLeft' = IF Taken(bubble, phy) THEN WordsLeft - 1 ELSE WordsLeft
            BY <1>1, <3>3, <4>3, HeldStep DEF Under
          <5>2. /\ host'.wants = "payload" /\ host'.dst = grant
                /\ host'.left = IF Taken(bubble, phy) THEN WordsLeft - 1 ELSE WordsLeft
            <6>1. CASE Taken(bubble, phy)
              <7>1. WordsLeft # 1
                BY <1>1, <4>3, <6>1, PortStep
              <7> QED
                BY <1>1, <6>1, <7>1, HostStep DEF Tick
            <6>2. CASE ~Taken(bubble, phy)
              <7>1. host' = host
                BY <1>1, <3>3, <6>2, HostStep DEF Tick, hostVars, Taken
              <7> QED
                BY <3>3, <6>2, <7>1 DEF UsbIInv, Follows
            <6> QED
              BY <6>1, <6>2
          <5> QED
            BY <4>1, <4>3, <5>1, <5>2 DEF Follows
        <4> QED
          BY <4>2, <4>3
      <3> QED
        BY <3>0, <3>1, <3>2, <3>3
    <2>6. UsbTypeOK'
      BY <2>1, <2>2, <2>3, <2>4, <2>5 DEF UsbTypeOK, IInv, HostType
    <2> QED
      BY <2>1, <2>2, <2>5, <2>6 DEF UsbIInv
  <1>2. CASE UNCHANGED vars
    <2>1. UNCHANGED wrapVars /\ UNCHANGED busVars /\ UNCHANGED hostVars
      BY <1>2 DEF vars
    <2>2. IInv'
      BY <2>1, NextIInv DEF UsbIInv
    <2> QED
      BY <2>1, <2>2 DEF UsbIInv, UsbTypeOK, IInv, HostType, Held, Follows, WordsLeft,
                        wrapVars, busVars, hostVars
  <1> QED
    BY <1>1, <1>2 DEF UsbNext

(* The invariant of the channel holds for every depth, timeout and set of  *)
(* lengths of the answers.                                                 *)
THEOREM UsbInvariance == UsbSpec => []UsbIInv
  <1>1. UsbInit => UsbIInv
    BY UsbInitIInv
  <1> QED
    BY <1>1, NextUsbIInv, PTL DEF UsbSpec

(* The registers of usb.py and what the host remembers keep their types.   *)
THEOREM UsbTypeCorrect == UsbSpec => []UsbTypeOK
  BY UsbInvariance, PTL DEF UsbIInv

(* wrapper.py:56-82, in the company of the arbiter and the packetizer: a   *)
(* packet begun can always be completed.                                   *)
THEOREM PacketNeverDry == UsbSpec => []PacketBacked
  BY UsbInvariance, PTL DEF UsbIInv, IInv

(* software/etherbone.py:25: the assertion on the magic never fails.       *)
THEOREM InSync == UsbSpec => []HostInSync
  <1>1. UsbIInv => HostInSync
    <2> SUFFICES ASSUME UsbIInv PROVE HostInSync
      OBVIOUS
    <2>1. pack \in {"IDLE", "HEADER", "COPY"} /\ (mux = 0 \/ mux = 1 \/ mux = 2)
      BY DEF UsbIInv, UsbTypeOK
    <2> QED
      BY <2>1 DEF UsbIInv, Follows, HostInSync
  <1> QED
    BY <1>1, UsbInvariance, PTL

(* usb.py:80-118: the host and the producer of the packet agree on the     *)
(* words left of it, and the bus is still with that producer.              *)
THEOREM LengthsAgree == UsbSpec => []LengthAgrees
  <1>1. UsbIInv => LengthAgrees
    <2> SUFFICES ASSUME UsbIInv, host.wants = "payload" PROVE LengthAgrees
      BY DEF LengthAgrees
    <2>1. pack \in {"IDLE", "HEADER", "COPY"} /\ (mux = 0 \/ mux = 1 \/ mux = 2)
      BY DEF UsbIInv, UsbTypeOK
    <2> QED
      BY <2>1 DEF UsbIInv, Follows, LengthAgrees, WordsLeft
  <1> QED
    BY <1>1, UsbInvariance, PTL

(* A cycle of the channel is a step of the queue, or leaves it alone: the  *)
(* word that the FIFO loses is the one the host files.                     *)
LEMMA CaptureStep == UsbIInv /\ [UsbNext]_vars => [Capture!Next]_<<in, buf, out>>
  <1> SUFFICES ASSUME UsbIInv, [UsbNext]_vars PROVE [Capture!Next]_<<in, buf, out>>
    OBVIOUS
  <1>1. ASSUME NEW put \in BOOLEAN, NEW n \in ReplyLengths \cup {0},
               NEW bubble \in BOOLEAN, NEW phy \in BOOLEAN, Tick(put, n, bubble, phy)
        PROVE  [Capture!Next]_<<in, buf, out>>
    <2> DEFINE sent == Sent(Ready("ulpi0", phy))
    <2>1. sent <=> Taken(bubble, phy) /\ grant = "ulpi0"
      BY DEF Sent, Ready, Taken, Offer, Valid
    <2>2. out' = IF sent THEN Head(buf) ELSE out
      <3>0. pack \in {"IDLE", "HEADER", "COPY"}
        BY DEF UsbIInv, UsbTypeOK
      <3>1. CASE Taken(bubble, phy)
        BY <1>1, <2>1, <3>1, HostStep DEF Tick, Payload
      <3>2. CASE ~Taken(bubble, phy)
        <4>1. out' = out
          BY <1>1, <3>0, <3>2, HostStep DEF Tick, hostVars, Taken
        <4> QED
          BY <2>1, <3>2, <4>1
      <3> QED
        BY <3>1, <3>2
    <2>3. BufSync(put, Ready("ulpi0", phy))
      BY <1>1 DEF Tick, Cycle, Buffer, Transfer
    <2>4. sent => buf # << >>
      BY DEF Sent, SourceValid
    <2>5. CASE put /\ Len(buf) < Depth + 1
      <3>1. in' = (in + 1) % Tags /\ buf' = Append(IF sent THEN Tail(buf) ELSE buf, in')
        BY <2>3, <2>5 DEF BufSync
      <3>2. CASE sent
        BY <2>2, <2>4, <3>1, <3>2 DEF Capture!Next, Capture!AcceptDeliver, Capture!Next1
      <3>3. CASE ~sent
        BY <2>2, <3>1, <3>3 DEF Capture!Next, Capture!Accept, Capture!Next1
      <3> QED
        BY <3>2, <3>3
    <2>6. CASE ~(put /\ Len(buf) < Depth + 1)
      <3>1. in' = in /\ buf' = IF sent THEN Tail(buf) ELSE buf
        BY <2>3, <2>6 DEF BufSync
      <3>2. CASE sent
        BY <2>2, <2>4, <3>1, <3>2 DEF Capture!Next, Capture!Deliver
      <3>3. CASE ~sent
        BY <2>2, <3>1, <3>3
      <3> QED
        BY <3>2, <3>3
    <2> QED
      BY <2>5, <2>6
  <1>2. CASE UNCHANGED vars
    BY <1>2 DEF vars, wrapVars, hostVars
  <1> QED
    BY <1>1, <1>2 DEF UsbNext

(* The channel implements a queue: the capture arrives at the host whole   *)
(* and in order, whatever answers come between its packets.                *)
THEOREM CaptureOrdered == UsbSpec => CaptureInOrder
  <1>1. UsbInit => Capture!Init
    BY DEF UsbInit, Init, Capture!Init
  <1> QED
    BY <1>1, UsbInvariance, CaptureStep, PTL DEF UsbSpec, CaptureInOrder, Capture!Spec
=============================================================================
