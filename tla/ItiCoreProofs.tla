--------------------------- MODULE ItiCoreProofs ----------------------------
(***************************************************************************)
(* ITICore (gateware/iti.py) for every largest increment, every length of  *)
(* the pattern and every timing of the bus, of the software and of the     *)
(* FIFO behind it: patterns go out whole, and an event that the software   *)
(* writes waits until a record shows it, which happens once.               *)
(***************************************************************************)
EXTENDS ItiCore, TLAPS

(* The event register holds exactly what is still to be shown.             *)
EventPending == event = asked

(* The pattern counter and the records already taken make up a pattern.    *)
PatternCount == run = IF count = 0 THEN 0 ELSE Repeat - count

IInv == TypeOK /\ EventPending /\ PatternCount

USE MaxDiffAssumption, RepeatAssumption

-----------------------------------------------------------------------------
(* Counting past the last record of a pattern begins again at 0. *)
LEMMA Wraps ==
  ASSUME NEW k \in 0 .. Repeat - 1
  PROVE  (k + 1) % Repeat = IF k = Repeat - 1 THEN 0 ELSE k + 1
  OBVIOUS

(* After reset nothing waits and no pattern is under way. *)
LEMMA InitIInv == Init => IInv
  <1> SUFFICES ASSUME Init PROVE IInv
    OBVIOUS
  <1>1. enable \in BOOLEAN /\ overflow \in BOOLEAN /\ en \in BOOLEAN
    BY DEF Init
  <1>2. diff \in 0 .. MaxDiff /\ acc \in 0 .. 4 /\ count \in 0 .. Repeat
    BY DEF Init
  <1>3. event \in Event \cup {None} /\ EventPending /\ PatternCount
    BY DEF Init, EventPending, PatternCount
  <1> QED
    BY <1>1, <1>2, <1>3 DEF IInv, TypeOK

(* A record of the pattern is taken whenever one is offered and there is   *)
(* room behind: the multiplexer (iti.py:267-277) lets nothing else through.*)
LEMMA PatternFirst ==
  ASSUME NEW item, NEW ready \in BOOLEAN
  PROVE  /\ count > 0 => (Takes("PATTERN", item, ready) <=> ready)
         /\ count = 0 /\ item # "PATTERN" => ~Takes("PATTERN", item, ready)
  BY DEF Takes, Offer

(* A cycle keeps every register in its range. *)
LEMMA TypeStep ==
  ASSUME IInv, NEW write, NEW item, NEW ready \in BOOLEAN, Cycle(write, item, ready)
  PROVE  TypeOK'
  <1>1. enable' \in BOOLEAN
    BY DEF Cycle, CsrSync, IInv, TypeOK
  <1>2. acc' \in 0 .. 4 /\ en' \in BOOLEAN
    BY DEF Cycle, TuneSync, IInv, TypeOK
  <1>3. diff' \in 0 .. MaxDiff
    BY DEF Cycle, TimeSync, IInv, TypeOK
  <1>4. overflow' \in BOOLEAN
    BY ZenonT(20) DEF Cycle, TimeSync
  <1>5. event' \in Event \cup {None}
    BY DEF Cycle, EventSync, IInv, TypeOK
  <1>6. count' \in 0 .. Repeat
    BY DEF Cycle, PatternSync, IInv, TypeOK
  <1> QED
    BY <1>1, <1>2, <1>3, <1>4, <1>5, <1>6 DEF TypeOK

(* A cycle takes a record from the pattern counter exactly when it counts  *)
(* one as taken.                                                           *)
LEMMA PatternStep ==
  ASSUME IInv, NEW write, NEW item \in Item \cup {None}, NEW ready \in BOOLEAN,
         Cycle(write, item, ready)
  PROVE  PatternCount'
  <1>1. count \in 0 .. Repeat /\ run = IF count = 0 THEN 0 ELSE Repeat - count
    BY DEF IInv, TypeOK, PatternCount
  <1>2. run' = IF Takes("PATTERN", item, ready) THEN (run + 1) % Repeat ELSE run
    BY DEF Cycle, Observe
  <1>3. CASE count = 0
    <2>1. run' = run /\ run = 0
      BY <1>1, <1>2, <1>3, PatternFirst, NoneAssumption DEF Item
    <2> QED
      BY <1>3, <2>1 DEF Cycle, PatternSync, PatternCount
  <1>4. CASE count > 0 /\ ready
    <2>1. run' = (run + 1) % Repeat /\ count' = count - 1
      BY <1>2, <1>4, PatternFirst DEF Cycle, PatternSync
    <2>2. run' = IF count = 1 THEN 0 ELSE run + 1
      BY <1>1, <1>4, <2>1, Wraps
    <2> QED
      BY <1>1, <1>4, <2>1, <2>2 DEF PatternCount
  <1>5. CASE count > 0 /\ ~ready
    BY <1>1, <1>2, <1>5, PatternFirst DEF Cycle, PatternSync, PatternCount
  <1> QED
    BY <1>1, <1>3, <1>4, <1>5

(* Every cycle, whatever its inputs, keeps the invariant. *)
LEMMA NextIInv == IInv /\ [Next]_vars => IInv'
  <1> SUFFICES ASSUME IInv, [Next]_vars PROVE IInv'
    OBVIOUS
  <1>1. ASSUME NEW write, NEW item \in Item \cup {None}, NEW ready \in BOOLEAN,
               Cycle(write, item, ready)
        PROVE  IInv'
    <2>1. EventPending'
      BY <1>1 DEF Cycle, EventSync, Observe, IInv, EventPending
    <2> QED
      BY <1>1, <2>1, TypeStep, PatternStep DEF IInv
  <1>2. CASE UNCHANGED vars
    BY <1>2 DEF vars, timeVars, ghosts, IInv, TypeOK, EventPending, PatternCount
  <1> QED
    BY <1>1, <1>2 DEF Next

(* The invariant of ITICore holds in every behaviour. *)
THEOREM Invariance == Spec => []IInv
  BY InitIInv, NextIInv, PTL DEF Spec

-----------------------------------------------------------------------------
(* The registers keep to their widths (iti.py:27-76, clocker.py:13-17). *)
THEOREM TypeCorrect == Spec => []TypeOK
  BY Invariance, PTL DEF IInv

(* iti.py:89-96: no event is lost before a record shows it. *)
THEOREM EventWaits == Spec => []EventKept
  <1>1. IInv => EventKept
    BY DEF IInv, EventPending, EventKept
  <1> QED
    BY <1>1, Invariance, PTL

(* iti.py:129-146: no event record without a write of the software, and    *)
(* none twice for the same write.                                          *)
THEOREM EventShownOnce == Spec => EventOnce
  <1>1. IInv /\ [Next]_vars => [rec'.type = "EVENT" /\ rec' # rec => asked = rec'.payload]_vars
    <2> SUFFICES ASSUME IInv, NEW write, NEW item \in Item \cup {None}, NEW ready \in BOOLEAN,
                        Cycle(write, item, ready), rec'.type = "EVENT", rec' # rec
                 PROVE  asked = rec'.payload
      BY DEF Next
    <2>1. rec' = Offer(item)
      BY DEF Cycle, Observe
    <2>2. Offer(item).type = "EVENT"
      BY <2>1
    <2>3. item # "EVENT"
      BY NoneAssumption DEF Item
    <2>4. Offer(item).payload = event
      BY <2>2, <2>3 DEF Offer, IInv, TypeOK
    <2> QED
      BY <2>1, <2>4 DEF IInv, EventPending
  <1> QED
    BY <1>1, Invariance, PTL DEF Spec, EventOnce

(* iti.py:267-277: no record comes between the first and the last of a     *)
(* pattern.                                                                *)
THEOREM PatternUncut == Spec => PatternWhole
  <1>1. IInv /\ [Next]_vars => [rec' # rec /\ rec'.type # "PATTERN" => run = 0]_vars
    <2> SUFFICES ASSUME IInv, NEW write, NEW item \in Item \cup {None}, NEW ready \in BOOLEAN,
                        Cycle(write, item, ready), rec' # rec, rec'.type # "PATTERN"
                 PROVE  run = 0
      BY DEF Next
    <2>1. rec' = Offer(item)
      BY DEF Cycle, Observe
    <2>2. ~(count > 0)
      BY <2>1 DEF Offer
    <2> QED
      BY <2>2 DEF IInv, TypeOK, PatternCount
  <1> QED
    BY <1>1, Invariance, PTL DEF Spec, PatternWhole
=============================================================================
