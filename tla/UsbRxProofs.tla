---------------------------- MODULE UsbRxProofs -----------------------------
(***************************************************************************)
(* The receiver keeps step with the host, for packets of every length, any *)
(* timeout and any losses.                                                 *)
(***************************************************************************)
EXTENDS UsbRx, SequenceTheorems, TLAPS

(* header holds what has been read of a destination and a length.          *)
HeaderForm(h) == \/ h = << >>
                 \/ \E d \in Dst : h = <<d>>
                 \/ \E d \in Dst, n \in Length : h = <<d, n>>

HeaderType == HeaderForm(header)

(* host is a packet of which pos words have been sent.                     *)
Sending(p) == /\ p = [dst |-> p.dst, words |-> p.words, lure |-> p.lure, pos |-> p.pos]
              /\ p.dst \in Port /\ p.words \in Lengths
              /\ p.pos \in Nat /\ p.pos <= p.words + 2

HostType == Sending(host)

(* The words of a packet, its header's included, come one a cycle at most. *)
Clocked == /\ state = "RECEIVE_HEADER" => cnt = 0
           /\ state = "COPY" => cnt + timer < Timeout

(* A packet that is received in step began with a free dispatcher.         *)
Started == state = "RECEIVE_HEADER" /\ track = "instep" => first

IInv == TypeOK /\ HeaderType /\ HostType /\ Clocked /\ Started /\ InStep

USE LengthsAssumption, TimeoutAssumption, LostAssumption

(* A packet about to be sent is one the host may be sending.               *)
LEMMA PacketSending ==
  ASSUME NEW p \in Packet PROVE Sending(p) /\ p.pos = 0
  <1>1. /\ p = [dst |-> p.dst, words |-> p.words, lure |-> p.lure, pos |-> p.pos]
        /\ p.dst \in Port /\ p.words \in Lengths /\ p.pos = 0
    BY DEF Packet
  <1>2. p.words \in Nat
    BY <1>1
  <1> QED
    BY <1>1, <1>2 DEF Sending

(* After reset the invariant holds: nothing is received, nothing in step.  *)
LEMMA Initial == Init => IInv
  <1> SUFFICES ASSUME Init PROVE IInv
    OBVIOUS
  <1>1. HostType
    BY PacketSending DEF Init, HostType
  <1>2. host.dst \in Port /\ host.words \in Lengths /\ host.pos \in 0 .. host.words + 2
    BY <1>1 DEF HostType, Sending
  <1>3. TypeOK
    <2>1. /\ state = "IDLE" /\ Len(header) = 0 /\ calm = FALSE /\ first = TRUE
          /\ lost = 0 /\ timer = Timeout /\ cnt = 0 /\ track = "lost" /\ sel \in Dst
      BY DEF Init, Dst
    <2>2. lost \in 0 .. MaxLost /\ timer \in 0 .. Timeout /\ cnt \in 0 .. Timeout
      BY <2>1
    <2>3. calm \in BOOLEAN /\ first \in BOOLEAN
      BY <2>1
    <2>4. /\ state \in {"IDLE", "RECEIVE_HEADER", "COPY"} /\ state # "COPY"
          /\ track \in {"lost", "merged", "instep"} /\ Len(header) <= 2
      BY <2>1
    <2> QED
      BY <1>2, <2>1, <2>2, <2>3, <2>4 DEF TypeOK
  <1>4. HeaderType
    BY DEF Init, HeaderType, HeaderForm
  <1>5. Clocked /\ Started /\ InStep
    BY DEF Init, Clocked, Started, InStep
  <1> QED
    BY <1>1, <1>3, <1>4, <1>5 DEF IInv

(* The host's next word, or its next packet.                               *)
LEMMA HostSends ==
  ASSUME HostType, SendWord
  PROVE  /\ HostType'
         /\ host.pos < host.words + 2 =>
              /\ host'.dst = host.dst /\ host'.words = host.words
              /\ host'.pos = host.pos + 1
         /\ host.pos = host.words + 2 => host'.pos = 0
  <1> USE DEF HostType
  <1>0. host.words \in Nat /\ host.pos \in Nat
    BY DEF Sending
  <1>1. CASE host.pos < host.words + 2
    <2>1. host' = [host EXCEPT !.pos = host.pos + 1]
      BY <1>1 DEF SendWord
    <2>2. host' = [dst |-> host.dst, words |-> host.words, lure |-> host.lure,
                   pos |-> host.pos + 1]
      BY <2>1 DEF Sending
    <2>3. host'.pos <= host'.words + 2
      BY <1>0, <1>1, <2>2
    <2>4. Sending(host')
      BY <1>0, <2>2, <2>3 DEF Sending
    <2> QED
      BY <1>0, <1>1, <2>2, <2>4
  <1>2. CASE ~(host.pos < host.words + 2)
    <2>1. host' \in Packet
      BY <1>2 DEF SendWord
    <2> QED
      BY <1>0, <1>2, <2>1, PacketSending
  <1> QED
    BY <1>1, <1>2

(* What header_pack holds after its second word.                           *)
LEMMA Appended == ASSUME NEW d, NEW w PROVE Append(<<d>>, w) = <<d, w>>
  <1> DEFINE s == Append(<<d>>, w)
             t == <<d, w>>
  <1>0. <<d>> \in Seq({d, w}) /\ t \in Seq({d, w})
    OBVIOUS
  <1>1. s \in Seq({d, w}) /\ Len(s) = 2 /\ s[1] = d /\ s[2] = w
    BY <1>0
  <1>2. Len(t) = 2 /\ t[1] = d /\ t[2] = w
    OBVIOUS
  <1>3. ASSUME NEW i \in 1 .. Len(s) PROVE s[i] = t[i]
    <2>1. i = 1 \/ i = 2
      BY <1>1
    <2> QED
      BY <1>1, <1>2, <2>1
  <1> QED
    BY <1>0, <1>1, <1>2, <1>3, SeqEqual

(* The header is emptied, stays as it is, or grows by what the receiver    *)
(* makes of the host's word.                                               *)
LEMMA HeaderGrows ==
  ASSUME HeaderType, NEW valid \in BOOLEAN, NEW ready \in BOOLEAN,
         PackSync(valid, ready)
  PROVE  \/ (state = "IDLE" \/ Done) /\ header' = << >>
         \/ ~(state = "RECEIVE_HEADER" /\ Taken(valid, ready)) /\ header' = header
         \/ /\ state = "RECEIVE_HEADER" /\ Taken(valid, ready) /\ ~Done
            /\ \/ header = << >> /\ \E d \in AsDst : header' = <<d>>
               \/ \E d \in Dst, n \in AsLength : header = <<d>> /\ header' = <<d, n>>
  <1>1. CASE state = "IDLE" \/ Done
    BY <1>1 DEF PackSync
  <1>2. CASE ~(state = "IDLE" \/ Done) /\ ~(state = "RECEIVE_HEADER" /\ Taken(valid, ready))
    BY <1>2 DEF PackSync
  <1>3. CASE ~Done /\ state = "RECEIVE_HEADER" /\ Taken(valid, ready)
    <2>1. ~Complete
      BY <1>3 DEF Taken, SinkReady
    <2>2. PICK w \in (IF header = << >> THEN AsDst ELSE AsLength) : header' = Append(header, w)
      BY <1>3 DEF PackSync
    <2>3. CASE header = << >>
      BY <1>3, <2>2, <2>3
    <2>4. ASSUME NEW d \in Dst, header = <<d>>
          PROVE  w \in AsLength /\ header' = <<d, w>>
      <3>1. header # << >>
        BY <2>4
      <3>2. w \in AsLength /\ header' = Append(<<d>>, w)
        BY <2>2, <2>4, <3>1
      <3> QED
        BY <3>2, Appended
    <2>5. CASE \E d \in Dst : header = <<d>>
      BY <1>3, <2>4, <2>5
    <2>6. ASSUME NEW d \in Dst, NEW n \in Length, header = <<d, n>> PROVE FALSE
      BY <2>1, <2>6 DEF Complete
    <2> QED
      BY <2>3, <2>5, <2>6 DEF HeaderType, HeaderForm
  <1> QED
    BY <1>1, <1>2, <1>3

(* What a cycle does in each state of the FSM.                             *)
LEMMA InIdle ==
  ASSUME NEW valid \in BOOLEAN, NEW ready \in BOOLEAN, Cycle(valid, ready), state = "IDLE"
  PROVE  /\ state' = IF valid /\ IsMagic THEN "RECEIVE_HEADER" ELSE "IDLE"
         /\ header' = << >> /\ cnt' = 0 /\ timer' = Timeout
         /\ UNCHANGED <<first, sel, calm, lost>>
         /\ IF valid THEN SendWord ELSE UNCHANGED host
         /\ track' = IF valid /\ host.pos = 0 THEN IF first THEN "instep" ELSE "merged"
                     ELSE track
  BY DEF Cycle, Idle, ReceiveHeader, Copy, PackSync, CntSync, TimerSync, DispatchSync,
         Track, Taken, SinkReady, Cut, Over

(* What a cycle in RECEIVE_HEADER does (usb.py:169-181).                   *)
LEMMA InHeader ==
  ASSUME NEW valid \in BOOLEAN, NEW ready \in BOOLEAN, Cycle(valid, ready),
         state = "RECEIVE_HEADER"
  PROVE  /\ state' = IF Done THEN "IDLE" ELSE IF Complete THEN "COPY" ELSE "RECEIVE_HEADER"
         /\ cnt' = cnt /\ UNCHANGED <<first, sel, calm, lost>>
         /\ timer' = IF timer > 0 THEN timer - 1 ELSE 0
         /\ Taken(valid, ready) <=> valid /\ ~Done /\ ~Complete
         /\ IF Taken(valid, ready) THEN SendWord ELSE UNCHANGED host
         /\ track' = IF Done THEN "lost" ELSE track
         /\ PackSync(valid, ready)
  BY DEF Cycle, Idle, ReceiveHeader, Copy, CntSync, TimerSync, DispatchSync,
         Track, Taken, SinkReady, Cut, Over

(* What a cycle in COPY does (usb.py:186-202).                             *)
LEMMA InCopy ==
  ASSUME NEW valid \in BOOLEAN, NEW ready \in BOOLEAN, Cycle(valid, ready), state = "COPY"
  PROVE  /\ state' = IF Done \/ Over(valid, ready) THEN "IDLE" ELSE "COPY"
         /\ cnt' = IF Taken(valid, ready) THEN cnt + 1 ELSE cnt
         /\ timer' = IF timer > 0 THEN timer - 1 ELSE 0
         /\ UNCHANGED <<calm, lost>>
         /\ IF Taken(valid, ready) THEN first' = Last /\ sel' = Target
                                   ELSE UNCHANGED <<first, sel>>
         /\ IF Taken(valid, ready) THEN SendWord ELSE UNCHANGED host
         /\ track' = IF Done /\ ~Over(valid, ready) THEN "lost"
                     ELSE IF Over(valid, ready) /\ track = "merged" THEN "instep" ELSE track
         /\ header' = IF Done THEN << >> ELSE header
  BY DEF Cycle, Idle, ReceiveHeader, Copy, CntSync, TimerSync, DispatchSync,
         Track, Cut, Over, PackSync

(* The length of a header tells its form.                                  *)
LEMMA Whole ==
  ASSUME NEW h, HeaderForm(h)
  PROVE  /\ Len(h) = 0 \/ Len(h) = 1 \/ Len(h) = 2
         /\ Len(h) <= 2
         /\ Len(h) = 0 <=> h = << >>
         /\ Len(h) = 2 => h[1] \in Dst /\ h[2] \in Length /\ h = <<h[1], h[2]>>
  <1>1. CASE h = << >>
    BY <1>1
  <1>2. ASSUME NEW d \in Dst, h = <<d>>
        PROVE  Len(h) = 1 /\ h # << >>
    BY <1>2
  <1>3. ASSUME NEW d \in Dst, NEW n \in Length, h = <<d, n>>
        PROVE  /\ Len(h) = 2 /\ h # << >>
               /\ h[1] \in Dst /\ h[2] \in Length /\ h = <<h[1], h[2]>>
    BY <1>3
  <1>4. Len(h) = 0 \/ Len(h) = 1 \/ Len(h) = 2
    BY <1>1, <1>2, <1>3 DEF HeaderForm
  <1>5. Len(h) <= 2
    <2>1. 0 <= 2 /\ 1 <= 2 /\ 2 <= 2
      OBVIOUS
    <2> QED
      BY <1>4, <2>1, Zenon
  <1> QED
    BY <1>1, <1>2, <1>3, <1>4, <1>5 DEF HeaderForm

(* A cycle keeps the types, and the timer keeps ahead of the counter.      *)
LEMMA TypeStep ==
  ASSUME IInv, NEW valid \in BOOLEAN, NEW ready \in BOOLEAN, Cycle(valid, ready)
  PROVE  HeaderType' /\ HostType' /\ TypeOK' /\ Clocked'
  <1> USE DEF IInv
  <1>1. HostType'
    BY HostSends DEF Cycle, HostType
  <1>2. HeaderType'
    <2>1. AsDst \subseteq Dst /\ AsLength \subseteq Length
      BY DEF AsDst, AsLength
    <2>2. PackSync(valid, ready)
      BY DEF Cycle
    <2> QED
      BY <2>1, <2>2, HeaderGrows DEF HeaderType, HeaderForm
  <1>3. state' \in {"IDLE", "RECEIVE_HEADER", "COPY"} /\ (state' = "COPY" => Complete')
    <2>1. CASE state = "IDLE"
      BY <2>1, InIdle
    <2>2. CASE state = "RECEIVE_HEADER"
      <3>1. state' = "COPY" => Complete /\ ~Done /\ ~Taken(valid, ready)
        BY <2>2, InHeader
      <3>2. state' = "COPY" => header' = header
        BY <2>2, <3>1, InHeader, HeaderGrows
      <3> QED
        BY <2>2, <3>1, <3>2, InHeader DEF Complete
    <2>3. CASE state = "COPY"
      BY <2>3, InCopy DEF TypeOK, Complete
    <2> QED
      BY <2>1, <2>2, <2>3 DEF TypeOK
  <1>4. timer' \in 0 .. Timeout /\ cnt' \in 0 .. Timeout /\ Clocked'
    <2>0. timer \in 0 .. Timeout /\ cnt \in 0 .. Timeout
      BY DEF TypeOK
    <2>1. CASE state = "IDLE"
      BY <2>0, <2>1, InIdle DEF Clocked
    <2>2. CASE state = "RECEIVE_HEADER"
      BY <2>0, <2>2, InHeader DEF Clocked, Done
    <2>3. CASE state = "COPY"
      BY <2>0, <2>3, InCopy DEF Clocked, Done
    <2> QED
      BY <2>1, <2>2, <2>3 DEF TypeOK
  <1>5. first' \in BOOLEAN /\ sel' \in Dst
    <2>1. CASE state # "COPY"
      BY <2>1, InIdle, InHeader DEF TypeOK
    <2>2. CASE state = "COPY"
      <3>1. Target \in Dst
        BY <2>2, Whole DEF TypeOK, Target, HeaderType, Complete
      <3> QED
        BY <2>2, <3>1, InCopy DEF TypeOK, Last
    <2> QED
      BY <2>1, <2>2
  <1>6. calm' = calm /\ lost' = lost
    BY DEF Cycle
  <1>7. track' \in {"lost", "merged", "instep"}
    BY DEF Cycle, Track, TypeOK
  <1>8. host'.dst \in Port /\ host'.words \in Lengths /\ host'.pos \in 0 .. host'.words + 2
    BY <1>1 DEF HostType, Sending
  <1>9. Len(header') <= 2
    <2>1. HeaderForm(header')
      BY <1>2 DEF HeaderType
    <2> QED
      BY <2>1, Whole
  <1>10. TypeOK'
    BY <1>3, <1>4, <1>5, <1>6, <1>7, <1>8, <1>9 DEF TypeOK
  <1> QED
    BY <1>1, <1>2, <1>4, <1>10

(* In IDLE the magic word puts the receiver in step, unless a cut packet   *)
(* left the dispatcher waiting.                                            *)
LEMMA FollowsFromIdle ==
  ASSUME IInv, NEW valid \in BOOLEAN, NEW ready \in BOOLEAN, Cycle(valid, ready),
         state = "IDLE", track' # "lost"
  PROVE  InStep' /\ Started'
  <1> USE DEF IInv
  <1>0. host.words \in Nat /\ host.pos \in Nat
    BY DEF HostType, Sending
  <1>1. CASE valid /\ host.pos = 0
    <2>1. /\ state' = "RECEIVE_HEADER" /\ header' = << >> /\ SendWord
          /\ first' = first /\ track' = IF first THEN "instep" ELSE "merged"
      BY <1>1, InIdle DEF IsMagic
    <2>2. host'.pos = 1
      BY <1>0, <1>1, <2>1, HostSends
    <2> QED
      BY <2>1, <2>2 DEF InStep, Started, Complete
  <1>2. CASE ~(valid /\ host.pos = 0)
    <2>1. track' = track /\ track # "lost"
      BY <1>2, InIdle
    <2>2. host.pos = 0 /\ track = "instep" /\ first /\ ~valid
      BY <1>2, <2>1 DEF InStep
    <2>3. state' = "IDLE" /\ host' = host /\ first' = first
      BY <2>2, InIdle
    <2> QED
      BY <2>1, <2>2, <2>3 DEF InStep, Started
  <1> QED
    BY <1>1, <1>2

(* In RECEIVE_HEADER the two words are taken for what the host sent them   *)
(* as, or the timer ends the packet.                                       *)
LEMMA FollowsFromHeader ==
  ASSUME IInv, NEW valid \in BOOLEAN, NEW ready \in BOOLEAN, Cycle(valid, ready),
         state = "RECEIVE_HEADER", track' # "lost"
  PROVE  InStep' /\ Started'
  <1> USE DEF IInv
  <1>0. host.words \in Nat \ {0} /\ host.pos \in Nat
    BY DEF HostType, Sending
  <1>1. ~Done /\ track' = track /\ track # "lost" /\ first' = first /\ sel' = sel /\ cnt' = 0
    BY InHeader DEF Clocked
  <1>2. /\ host.pos = 1 + Len(header)
        /\ header # << >> => header[1] = host.dst
        /\ Complete => header[2] = host.words
    BY <1>1 DEF InStep
  <1>3. CASE Complete
    <2>1. state' = "COPY" /\ ~Taken(valid, ready) /\ host' = host
      BY <1>1, <1>3, InHeader
    <2>2. header' = header
      BY <1>1, <2>1, InHeader, HeaderGrows
    <2>3. header = <<host.dst, host.words>> /\ header # << >>
      BY <1>2, <1>3, Whole DEF Complete, HeaderType
    <2>4. host.pos = 3 /\ 0 < host.words
      BY <1>0, <1>2, <1>3 DEF Complete
    <2>5. track = "instep" => first /\ Target' = host.dst
      BY <1>1, <1>2, <2>2, <2>3 DEF Started, Target
    <2> QED
      BY <1>1, <2>1, <2>2, <2>3, <2>4, <2>5 DEF InStep, Started
  <1>4. CASE ~Complete /\ ~valid
    <2>1. state' = "RECEIVE_HEADER" /\ ~Taken(valid, ready) /\ host' = host
      BY <1>1, <1>4, InHeader
    <2>2. header' = header
      BY <1>1, <2>1, InHeader, HeaderGrows
    <2> QED
      BY <1>1, <1>2, <2>1, <2>2 DEF InStep, Started, Complete
  <1>5. CASE ~Complete /\ valid
    <2>1. state' = "RECEIVE_HEADER" /\ Taken(valid, ready) /\ SendWord
      BY <1>1, <1>5, InHeader
    <2>2. (Len(header) = 0 \/ Len(header) = 1) /\ host.pos < host.words + 2
      <3>1. Len(header) = 0 \/ Len(header) = 1
        BY <1>5, Whole DEF Complete, HeaderType
      <3>2. host.pos = 1 \/ host.pos = 2
        <4>1. CASE Len(header) = 0
          BY <1>2, <4>1
        <4>2. CASE Len(header) = 1
          BY <1>2, <4>2
        <4> QED
          BY <3>1, <4>1, <4>2
      <3>3. host.pos < host.words + 2
        <4>1. ASSUME NEW w \in Nat \ {0} PROVE 1 < w + 2 /\ 2 < w + 2
          OBVIOUS
        <4> QED
          BY <1>0, <3>2, <4>1, Zenon
      <3> QED
        BY <3>1, <3>3
    <2>3. host'.dst = host.dst /\ host'.words = host.words /\ host'.pos = host.pos + 1
      BY <2>1, <2>2, HostSends
    <2>4. \/ header = << >> /\ \E d \in AsDst : header' = <<d>>
          \/ \E d \in Dst, n \in AsLength : header = <<d>> /\ header' = <<d, n>>
      BY <1>1, <2>1, InHeader, HeaderGrows
    <2>5. ASSUME header = << >>, NEW d \in AsDst, header' = <<d>> PROVE InStep'
      <3>1. host.pos = 1 /\ d = host.dst
        BY <1>2, <2>5 DEF AsDst
      <3>2. Len(header') = 1 /\ header'[1] = host.dst
        BY <2>5, <3>1
      <3> QED
        BY <2>1, <2>3, <3>1, <3>2 DEF InStep, Complete
    <2>6. ASSUME NEW d \in Dst, NEW n \in AsLength, header = <<d>>, header' = <<d, n>>
          PROVE  InStep'
      <3>1. host.pos = 2 /\ d = host.dst
        BY <1>2, <2>6
      <3>2. n = host.words
        BY <3>1 DEF AsLength
      <3>3. Len(header') = 2 /\ header'[1] = host.dst /\ header'[2] = host.words
        BY <2>6, <3>1, <3>2
      <3> QED
        BY <2>1, <2>3, <3>1, <3>3 DEF InStep, Complete
    <2> QED
      BY <1>1, <2>4, <2>5, <2>6 DEF Started
  <1> QED
    BY <1>3, <1>4, <1>5

(* In COPY every word of the payload is counted, and the last one ends the *)
(* packet for depacketizer and dispatcher at once.                         *)
LEMMA FollowsFromCopy ==
  ASSUME IInv, NEW valid \in BOOLEAN, NEW ready \in BOOLEAN, Cycle(valid, ready),
         state = "COPY", track' # "lost"
  PROVE  InStep' /\ Started'
  <1> USE DEF IInv
  <1>0. host.words \in Nat \ {0} /\ host.pos \in Nat /\ cnt \in Nat
    BY DEF HostType, Sending, TypeOK
  <1>1. track # "lost" /\ (Done => Over(valid, ready))
    BY InCopy
  <1>2. /\ header = <<host.dst, host.words>> /\ header[2] = host.words
        /\ track = "instep" => Target = host.dst
        /\ host.pos = 3 + cnt /\ cnt < host.words
    BY <1>1 DEF InStep
  <1>3. CASE Over(valid, ready)
    <2>1. Taken(valid, ready) /\ Last /\ host.pos = host.words + 2
      BY <1>0, <1>2, <1>3 DEF Over, Last
    <2>2. state' = "IDLE" /\ SendWord /\ first' = TRUE
      BY <1>3, <2>1, InCopy
    <2>3. track' = "instep"
      BY <1>1, <1>3, InCopy DEF TypeOK
    <2>4. host'.pos = 0
      BY <2>1, <2>2, HostSends
    <2> QED
      BY <2>2, <2>3, <2>4 DEF InStep, Started
  <1>4. CASE ~Over(valid, ready) /\ Taken(valid, ready)
    <2>1. cnt + 1 < host.words /\ host.pos < host.words + 2 /\ ~Last
      BY <1>0, <1>2, <1>4 DEF Over, Last
    <2>2. /\ state' = "COPY" /\ SendWord /\ first' = FALSE /\ sel' = Target
          /\ track' = track /\ header' = header /\ cnt' = cnt + 1
      BY <1>1, <1>4, <2>1, InCopy
    <2>3. host'.dst = host.dst /\ host'.words = host.words /\ host'.pos = host.pos + 1
      BY <2>1, <2>2, HostSends
    <2>4. Target' = Target
      BY <2>2 DEF Target
    <2>5. host'.pos = 3 + cnt' /\ cnt' < host'.words /\ header' = <<host'.dst, host'.words>>
      BY <1>0, <1>2, <2>1, <2>2, <2>3
    <2> QED
      BY <1>2, <2>2, <2>3, <2>4, <2>5 DEF InStep, Started
  <1>5. CASE ~Taken(valid, ready)
    <2>1. /\ state' = "COPY" /\ host' = host /\ first' = first /\ sel' = sel
          /\ track' = track /\ header' = header /\ cnt' = cnt
      BY <1>1, <1>5, InCopy DEF Over
    <2> QED
      BY <1>1, <1>2, <2>1 DEF InStep, Started, Target
  <1> QED
    BY <1>3, <1>4, <1>5

(* Every cycle, every word lost and the calming of the link keep the       *)
(* invariant.                                                              *)
LEMMA Preserved == IInv /\ [Next]_vars => IInv'
  <1> SUFFICES ASSUME IInv, [Next]_vars PROVE IInv'
    OBVIOUS
  <1>1. ASSUME NEW valid \in BOOLEAN, NEW ready \in BOOLEAN, Cycle(valid, ready)
        PROVE  IInv'
    <2>1. HeaderType' /\ HostType' /\ TypeOK' /\ Clocked'
      BY <1>1, TypeStep
    <2>2. CASE track' = "lost"
      BY <2>1, <2>2 DEF IInv, InStep, Started
    <2>3. CASE track' # "lost"
      <3>1. state \in {"IDLE", "RECEIVE_HEADER", "COPY"}
        BY DEF IInv, TypeOK
      <3> QED
        BY <1>1, <2>1, <2>3, <3>1, FollowsFromIdle, FollowsFromHeader, FollowsFromCopy
        DEF IInv
    <2> QED
      BY <2>2, <2>3
  <1>2. ASSUME Lose PROVE IInv'
    <2>1. /\ SendWord /\ track' = "lost" /\ calm' = calm /\ lost' \in 0 .. MaxLost
          /\ UNCHANGED rxVars
      BY <1>2 DEF Lose, IInv, TypeOK
    <2>2. HostType'
      BY <2>1, HostSends DEF IInv
    <2>3. /\ host'.dst \in Port /\ host'.words \in Lengths
          /\ host'.pos \in 0 .. host'.words + 2
      BY <2>2 DEF HostType, Sending
    <2>4. TypeOK'
      BY <2>1, <2>3 DEF IInv, TypeOK, rxVars, Complete
    <2> QED
      BY <2>1, <2>2, <2>4 DEF IInv, HeaderType, Clocked, Started, InStep, rxVars
  <1>3. ASSUME CalmDown PROVE IInv'
    BY <1>3 DEF CalmDown, IInv, TypeOK, HeaderType, HostType, Clocked, Started, InStep,
                rxVars, Complete, Target
  <1>4. ASSUME UNCHANGED vars PROVE IInv'
    BY <1>4 DEF vars, linkVars, IInv, TypeOK, HeaderType, HostType, Clocked, Started, InStep,
                rxVars, Complete, Target
  <1> QED
    BY <1>1, <1>2, <1>3, <1>4 DEF Next, Clock

(* The receiver follows the host (usb.py:125-233) whatever the lengths, the *)
(* payloads, the words lost and the pauses.                                *)
THEOREM Invariance == Spec => []IInv
  BY Initial, Preserved, PTL DEF Spec

(* The registers of the receiver keep to their ranges; a packet hands over *)
(* fewer words than its timer lets pass, whatever length it announces.     *)
THEOREM TypeCorrect == Spec => []TypeOK
  <1>1. IInv => TypeOK
    BY DEF IInv
  <1> QED
    BY <1>1, Invariance, PTL

(* usb.py:148-202: once a magic word is found in its place, host and       *)
(* receiver agree on every position of every packet, until a word is lost  *)
(* or the timer ends a packet.                                             *)
THEOREM KeepsStep == Spec => []InStep
  <1>1. IInv => InStep
    BY DEF IInv
  <1> QED
    BY <1>1, Invariance, PTL

=============================================================================
