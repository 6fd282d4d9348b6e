------------------------------ MODULE UlpiProofs -----------------------------
(***************************************************************************)
(* Register accesses over ULPI, for every number of registers and values,  *)
(* every depth of the FIFOs and the clock crossings, and every order of    *)
(* the cycles of the two clocks: writes reach the register they were meant *)
(* for, and on a silent bus a read returns what was written last.          *)
(***************************************************************************)
EXTENDS Ulpi, SequenceTheorems, TLAPS

Cmd == [kind : {"read", "write"}, of : Adr] \union [kind : {"data"}, of : Val]
Byte == Val \union {Junk}

(* While the core is in an access the program waits for its end.           *)
Control ==
  /\ state \in {"WRITE_REG_ADR", "WRITE_REG_DAT"} => pc = "writing"
  /\ state \in {"READ_FLUSH", "READ_REG_ADR", "READ_REG_DAT"} => pc = "reading"

(* The register a command opens for the data behind it. *)
Opens(x) == IF x.kind = "write" THEN x.of ELSE None

(* The register that is open before the i-th command of c, when t is open  *)
(* before the first.                                                       *)
Opened(c, t, i) == IF i = 1 THEN t ELSE Opens(c[i - 1])

(* Data comes exactly where a register is open; after c it is e.           *)
Pairs(c, t, e) ==
  /\ \A i \in 1 .. Len(c) : c[i].kind = "data" <=> Opened(c, t, i) # None
  /\ Opened(c, t, Len(c) + 1) = e

(* One is open at the end exactly when the core has still to send the data. *)
Paired == Pairs(Commands, target, IF state = "WRITE_REG_DAT" THEN adr ELSE None)

(* The places in c of data for register a.                                 *)
Writes(c, t, a) == {i \in 1 .. Len(c) : c[i].kind = "data" /\ Opened(c, t, i) = a}

(* A register that holds r will hold w when the commands are carried out.  *)
Arrives(c, t, a, r, w) ==
  /\ Writes(c, t, a) = {} => r = w
  /\ \A i \in Writes(c, t, a) : (\A j \in Writes(c, t, a) : j <= i) => c[i].of = w

(* The data of a write to a is not among the commands yet. *)
Unsent(a) == adr = a /\ (pc = "write" \/ state \in {"WRITE_REG_ADR", "WRITE_REG_DAT"})

(* What the program wrote last arrives in the end, at each register.       *)
Landing == \A a \in Adr : IF Unsent(a) THEN want[a] = datW
                          ELSE Arrives(Commands, target, a, regs[a], want[a])

(* The places in c of reads. *)
Asks(c) == {i \in 1 .. Len(c) : c[i].kind = "read"}
Empty == rxFifo = << >> /\ fifoSource = << >>
Silent == Empty /\ sample = None /\ owe = None

(* The question is on its way, the last of the commands, behind the writes. *)
Asked == /\ Asks(Commands) = {Len(Commands)} /\ Commands[Len(Commands)].of = adr
         /\ Silent

(* The answer v is on its way, in one place, and nothing else is.           *)
Answered(v) ==
  /\ Asks(Commands) = {}
  /\ \/ Empty /\ owe = v /\ sample = None
     \/ Empty /\ owe = None /\ sample = v
     \/ owe = None /\ sample = None /\ rxFifo = <<v>> /\ fifoSource = << >>
     \/ owe = None /\ sample = None /\ rxFifo = << >> /\ fifoSource = <<v>>

(* A read on a silent bus, through the states of the core and behind it.   *)
Quiet == ~noise =>
  /\ state \in {"READ_FLUSH", "READ_REG_ADR"} => Asks(Commands) = {} /\ Silent
  /\ state = "READ_REG_DAT" => Asked \/ Answered(want[adr])
  /\ state = "IDLE" /\ pc \in {"reading", "got"} => datR = want[adr]

IInv == TypeOK /\ Control /\ Paired /\ Landing /\ Quiet

-----------------------------------------------------------------------------
(* Commands, and sequences of them. *)
LEMMA CmdFields ==
  ASSUME NEW x \in Cmd
  PROVE  /\ x.kind \in {"read", "write", "data"}
         /\ x.kind = "data" => x.of \in Val
         /\ x.kind # "data" => x.of \in Adr
         /\ x.kind = "write" <=> Opens(x) # None
         /\ Opens(x) \in Adr \union {None}
  BY ValueAssumption DEF Cmd, Opens

(* The commands the core sends. *)
LEMMA CmdMade ==
  /\ \A a \in Adr : /\ ReadCmd(a) \in Cmd /\ ReadCmd(a).kind = "read" /\ ReadCmd(a).of = a
                    /\ WriteCmd(a) \in Cmd /\ WriteCmd(a).kind = "write" /\ WriteCmd(a).of = a
  /\ \A v \in Val : Data(v) \in Cmd /\ Data(v).kind = "data" /\ Data(v).of = v
  BY DEF Cmd, ReadCmd, WriteCmd, Data

(* The values of the FIFOs are the sequences up to their depths. *)
LEMMA Bounded ==
  ASSUME NEW n \in Nat, NEW s
  PROVE  /\ s \in Cmds(n) <=> s \in Seq(Cmd) /\ Len(s) <= n
         /\ s \in Bytes(n) <=> s \in Seq(Byte) /\ Len(s) <= n
  <1>1. ASSUME NEW S PROVE s \in UNION {[1 .. k -> S] : k \in 0 .. n} <=> s \in Seq(S) /\ Len(s) <= n
    <2>1. ASSUME s \in UNION {[1 .. k -> S] : k \in 0 .. n} PROVE s \in Seq(S) /\ Len(s) <= n
      <3>1. PICK k \in 0 .. n : s \in [1 .. k -> S]
        BY <2>1
      <3> QED
        BY <3>1
    <2>2. ASSUME s \in Seq(S), Len(s) <= n PROVE s \in UNION {[1 .. k -> S] : k \in 0 .. n}
      <3>1. Len(s) \in 0 .. n /\ s \in [1 .. Len(s) -> S]
        BY <2>2, LenProperties
      <3> QED
        BY <3>1
    <2> QED
      BY <2>1, <2>2
  <1> QED
    BY <1>1 DEF Cmds, Bytes, Cmd, Byte

(* The first command is carried out. *)
LEMMA FirstDone ==
  ASSUME NEW c \in Seq(Cmd), c # << >>, NEW t
  PROVE  /\ \A e : Pairs(c, t, e) => Pairs(Tail(c), Opens(Head(c)), e)
         /\ \A a, r, w : Arrives(c, t, a, r, w) =>
              Arrives(Tail(c), Opens(Head(c)), a,
                      IF Head(c).kind = "data" /\ t = a THEN Head(c).of ELSE r, w)
  <1> DEFINE d == Tail(c)
             u == Opens(Head(c))
             n == Len(c)
  <1>1. /\ n \in Nat \ {0} /\ Len(d) = n - 1 /\ Head(c) = c[1]
        /\ \A i \in 1 .. n - 1 : d[i] = c[i + 1]
    BY HeadTailProperties, LenProperties, EmptySeq
  <1>2. ASSUME NEW i \in 1 .. n PROVE Opened(d, u, i) = Opened(c, t, i + 1)
    <2>1. CASE i = 1
      BY <1>1, <2>1 DEF Opened
    <2>2. CASE i # 1
      <3>1. i - 1 \in 1 .. n - 1 /\ (i - 1) + 1 = (i + 1) - 1 /\ i + 1 # 1
        BY <1>1, <2>2
      <3> QED
        BY <1>1, <2>2, <3>1 DEF Opened
    <2> QED
      BY <2>1, <2>2
  <1> HIDE DEF d, u, n
  <1>3. ASSUME NEW e, Pairs(c, t, e) PROVE Pairs(d, u, e)
    <2>1. ASSUME NEW i \in 1 .. n - 1 PROVE d[i].kind = "data" <=> Opened(d, u, i) # None
      <3>1. i \in 1 .. n /\ i + 1 \in 1 .. n
        BY <1>1
      <3>2. c[i + 1].kind = "data" <=> Opened(c, t, i + 1) # None
        BY <1>3, <3>1 DEF Pairs, n
      <3> QED
        BY <1>1, <1>2, <3>1, <3>2
    <2>2. Opened(d, u, Len(d) + 1) = e
      <3>1. Len(d) + 1 = n /\ n \in 1 .. n
        BY <1>1
      <3> QED
        BY <1>2, <1>3, <3>1 DEF Pairs, n
    <2> QED
      BY <1>1, <2>1, <2>2 DEF Pairs
  <1>4. ASSUME NEW a, NEW r, NEW w, Arrives(c, t, a, r, w)
        PROVE  Arrives(d, u, a, IF Head(c).kind = "data" /\ t = a THEN Head(c).of ELSE r, w)
    <2> DEFINE W == Writes(c, t, a)
               V == Writes(d, u, a)
    <2>1. /\ \A i \in V : i \in 1 .. n - 1 /\ i + 1 \in W /\ d[i] = c[i + 1]
          /\ \A j \in W : j \in 1 .. n /\ (j # 1 => j - 1 \in V)
      <3>1. ASSUME NEW i \in V PROVE i \in 1 .. n - 1 /\ i + 1 \in W /\ d[i] = c[i + 1]
        <4>1. i \in 1 .. n - 1 /\ i \in 1 .. n /\ i + 1 \in 1 .. n
          BY <1>1 DEF Writes
        <4> QED
          BY <1>1, <1>2, <4>1 DEF Writes, n
      <3>2. ASSUME NEW j \in W, j # 1 PROVE j - 1 \in V
        <4>1. /\ j - 1 \in 1 .. n - 1 /\ j - 1 \in 1 .. n /\ (j - 1) + 1 = j
              /\ j - 1 \in 1 .. Len(d)
          BY <1>1, <3>2 DEF Writes, n
        <4>2. d[j - 1] = c[j] /\ Opened(d, u, j - 1) = Opened(c, t, j)
          BY <1>1, <1>2, <4>1
        <4> QED
          BY <4>1, <4>2 DEF Writes
      <3> QED
        BY <3>1, <3>2 DEF Writes, n
    <2>2. 1 \in W <=> Head(c).kind = "data" /\ t = a
      BY <1>1 DEF Writes, Opened, n
    <2>3. /\ W = {} => r = w
          /\ \A i \in W : (\A j \in W : j <= i) => c[i].of = w
      BY <1>4 DEF Arrives
    <2> HIDE DEF W, V
    <2>4. ASSUME V = {}
          PROVE (IF Head(c).kind = "data" /\ t = a THEN Head(c).of ELSE r) = w
      <3>1. \A j \in W : j = 1
        BY <2>1, <2>4
      <3>2. CASE 1 \in W
        <4>1. \A j \in W : j <= 1
          BY <3>1
        <4> QED
          BY <1>1, <2>2, <2>3, <3>2, <4>1
      <3>3. CASE 1 \notin W
        BY <2>2, <2>3, <3>1, <3>3
      <3> QED
        BY <3>2, <3>3
    <2>5. ASSUME NEW i \in V, \A j \in V : j <= i PROVE d[i].of = w
      <3>1. i \in 1 .. n - 1 /\ i + 1 \in W /\ d[i] = c[i + 1]
        BY <2>1
      <3>2. ASSUME NEW j \in W PROVE j <= i + 1
        <4>1. j \in 1 .. n
          BY <2>1
        <4>2. CASE j = 1
          BY <1>1, <3>1, <4>2
        <4>3. CASE j # 1
          <5>1. j - 1 <= i
            BY <2>1, <2>5, <4>3
          <5> QED
            BY <1>1, <3>1, <4>1, <5>1
        <4> QED
          BY <4>2, <4>3
      <3> QED
        BY <2>3, <3>1, <3>2
    <2> QED
      BY <2>4, <2>5 DEF Arrives, V
  <1> QED
    BY <1>3, <1>4 DEF d, u

(* A command is added at the end. *)
LEMMA OneAdded ==
  ASSUME NEW c \in Seq(Cmd), NEW x \in Cmd, NEW t, NEW e, Pairs(c, t, e),
         x.kind = "data" <=> e # None
  PROVE  /\ Pairs(Append(c, x), t, Opens(x))
         /\ \A a, r, w : Arrives(c, t, a, r, w) /\ ~(x.kind = "data" /\ e = a)
                           => Arrives(Append(c, x), t, a, r, w)
         /\ \A r : x.kind = "data" => Arrives(Append(c, x), t, e, r, x.of)
  <1> DEFINE d == Append(c, x)
             n == Len(c)
  <1>1. /\ n \in Nat /\ Len(d) = n + 1 /\ d[n + 1] = x
        /\ \A i \in 1 .. n : d[i] = c[i]
    BY AppendProperties, LenProperties
  <1>2. ASSUME NEW i \in 1 .. n + 1 PROVE Opened(d, t, i) = Opened(c, t, i)
    <2>1. CASE i = 1
      BY <2>1 DEF Opened
    <2>2. CASE i # 1
      <3>1. i - 1 \in 1 .. n
        BY <1>1, <2>2
      <3> QED
        BY <1>1, <2>2, <3>1 DEF Opened
    <2> QED
      BY <2>1, <2>2
  <1>3. Opened(d, t, n + 2) = Opens(x)
    <2>1. n + 2 # 1 /\ (n + 2) - 1 = n + 1
      BY <1>1
    <2> QED
      BY <1>1, <2>1 DEF Opened
  <1>4. /\ \A i \in 1 .. n : c[i].kind = "data" <=> Opened(c, t, i) # None
        /\ Opened(c, t, n + 1) = e
    BY DEF Pairs
  <1> HIDE DEF d, n
  <1>5. Pairs(d, t, Opens(x))
    <2>1. ASSUME NEW i \in 1 .. n + 1 PROVE d[i].kind = "data" <=> Opened(d, t, i) # None
      <3>1. CASE i \in 1 .. n
        BY <1>1, <1>2, <1>4, <3>1
      <3>2. CASE i = n + 1
        BY <1>1, <1>2, <1>4, <3>2
      <3> QED
        BY <1>1, <3>1, <3>2
    <2>2. Len(d) = n + 1 /\ (n + 1) + 1 = n + 2
      BY <1>1
    <2> QED
      BY <1>3, <2>1, <2>2 DEF Pairs
  <1>6. ASSUME NEW a
        PROVE  Writes(d, t, a) = Writes(c, t, a) \union
                                 {i \in {n + 1} : x.kind = "data" /\ e = a}
    <2>1. ASSUME NEW i \in 1 .. n PROVE i \in Writes(d, t, a) <=> i \in Writes(c, t, a)
      <3>1. i \in 1 .. n + 1 /\ i \in 1 .. Len(d) /\ i \in 1 .. Len(c)
        BY <1>1 DEF n
      <3> QED
        BY <1>1, <1>2, <3>1 DEF Writes
    <2>2. n + 1 \in Writes(d, t, a) <=> x.kind = "data" /\ e = a
      <3>1. n + 1 \in 1 .. Len(d) /\ n + 1 \in 1 .. n + 1
        BY <1>1
      <3> QED
        BY <1>1, <1>2, <1>4, <3>1 DEF Writes
    <2>3. /\ Writes(d, t, a) \subseteq 1 .. n + 1 /\ Writes(c, t, a) \subseteq 1 .. n
          /\ n + 1 \notin 1 .. n /\ \A i \in 1 .. n + 1 : i \in 1 .. n \/ i = n + 1
      BY <1>1 DEF Writes, n
    <2> QED
      BY <2>1, <2>2, <2>3
  <1>7. \A a : \A i \in Writes(c, t, a) : i \in 1 .. n /\ d[i] = c[i]
    BY <1>1 DEF Writes, n
  <1>8. ASSUME NEW a, NEW r, NEW w, Arrives(c, t, a, r, w), ~(x.kind = "data" /\ e = a)
        PROVE  Arrives(d, t, a, r, w)
    <2>1. Writes(d, t, a) = Writes(c, t, a)
      BY <1>6, <1>8
    <2> QED
      BY <1>7, <1>8, <2>1 DEF Arrives
  <1>9. ASSUME NEW r, x.kind = "data" PROVE Arrives(d, t, e, r, x.of)
    <2>1. n + 1 \in Writes(d, t, e) /\ \A i \in Writes(d, t, e) : i = n + 1 \/ i \in 1 .. n
      BY <1>6, <1>7, <1>9
    <2>2. ASSUME NEW i \in Writes(d, t, e), \A j \in Writes(d, t, e) : j <= i
          PROVE  i = n + 1
      BY <1>1, <2>1, <2>2
    <2> QED
      BY <1>1, <2>1, <2>2 DEF Arrives
  <1> QED
    BY <1>5, <1>8, <1>9 DEF d

(* The reads among the commands, when one is carried out or added.          *)
LEMMA AsksMove ==
  ASSUME NEW c \in Seq(Cmd)
  PROVE  /\ c # << >> /\ Asks(c) = {} => Head(c).kind # "read" /\ Asks(Tail(c)) = {}
         /\ c # << >> /\ Asks(c) = {Len(c)} =>
              \/ Head(c).kind = "read" /\ Head(c) = c[Len(c)] /\ Len(c) = 1
              \/ /\ Head(c).kind # "read"
                 /\ Asks(Tail(c)) = {Len(Tail(c))} /\ Tail(c)[Len(Tail(c))] = c[Len(c)]
         /\ \A x \in Cmd : Asks(c) = {} =>
              Asks(Append(c, x)) = IF x.kind = "read" THEN {Len(c) + 1} ELSE {}
  <1> DEFINE n == Len(c)
  <1>1. n \in Nat
    BY LenProperties
  <1>2. ASSUME c # << >>
        PROVE  /\ n \in Nat \ {0} /\ Len(Tail(c)) = n - 1 /\ Head(c) = c[1]
               /\ 1 \in Asks(c) <=> Head(c).kind = "read"
               /\ Asks(Tail(c)) \subseteq 1 .. n - 1
               /\ \A i \in 1 .. n - 1 : Tail(c)[i] = c[i + 1]
                                        /\ (i \in Asks(Tail(c)) <=> i + 1 \in Asks(c))
    <2>1. /\ n \in Nat \ {0} /\ Len(Tail(c)) = n - 1 /\ Head(c) = c[1]
          /\ \A i \in 1 .. n - 1 : Tail(c)[i] = c[i + 1]
      BY <1>2, HeadTailProperties, EmptySeq
    <2>2. \A i \in 1 .. n - 1 : i + 1 \in 1 .. n
      BY <2>1
    <2> QED
      BY <2>1, <2>2 DEF Asks
  <1>3. ASSUME c # << >>, Asks(c) = {}
        PROVE  Head(c).kind # "read" /\ Asks(Tail(c)) = {}
    BY <1>2, <1>3
  <1>4. ASSUME c # << >>, Asks(c) = {n}, Head(c).kind = "read"
        PROVE  Head(c) = c[n] /\ n = 1
    BY <1>2, <1>4
  <1>5. ASSUME c # << >>, Asks(c) = {n}, Head(c).kind # "read"
        PROVE  Asks(Tail(c)) = {Len(Tail(c))} /\ Tail(c)[Len(Tail(c))] = c[n]
    <2>1. n # 1
      BY <1>2, <1>5
    <2>2. n - 1 \in 1 .. n - 1 /\ (n - 1) + 1 = n
      <3>1. n \in Nat \ {0}
        BY <1>2, <1>5
      <3> HIDE DEF n
      <3> QED
        BY <2>1, <3>1
    <2>3. \A i \in 1 .. n - 1 : i + 1 = n => i = n - 1
      BY <1>1
    <2> QED
      BY <1>2, <1>5, <2>2, <2>3
  <1>6. ASSUME NEW x \in Cmd, Asks(c) = {}
        PROVE  Asks(Append(c, x)) = IF x.kind = "read" THEN {n + 1} ELSE {}
    <2>1. /\ Len(Append(c, x)) = n + 1 /\ Append(c, x)[n + 1] = x
          /\ \A i \in 1 .. n : Append(c, x)[i] = c[i]
      BY AppendProperties
    <2>2. \A i \in 1 .. n : Append(c, x)[i].kind # "read"
      BY <1>6, <2>1 DEF Asks
    <2>3. n + 1 \in 1 .. n + 1 /\ \A i \in 1 .. n + 1 : i \in 1 .. n \/ i = n + 1
      BY <1>1
    <2> HIDE DEF n
    <2> QED
      BY <2>1, <2>2, <2>3 DEF Asks
  <1> QED
    BY <1>3, <1>4, <1>5, <1>6

-----------------------------------------------------------------------------
(* The FIFOs hold commands and bytes. *)
LEMMA Types ==
  ASSUME TypeOK
  PROVE  /\ RxDepth \in Nat \ {0} /\ TxDepth \in Nat \ {0} /\ CrossDepth \in Nat \ {0}
         /\ fifoSink \in Seq(Cmd) /\ Len(fifoSink) \in Nat /\ Len(fifoSink) <= CrossDepth
         /\ txFifo \in Seq(Cmd) /\ Len(txFifo) \in Nat /\ Len(txFifo) <= TxDepth
         /\ rxFifo \in Seq(Byte) /\ Len(rxFifo) \in Nat /\ Len(rxFifo) <= RxDepth
         /\ fifoSource \in Seq(Byte) /\ Len(fifoSource) \in Nat /\ Len(fifoSource) <= CrossDepth
         /\ Commands \in Seq(Cmd) /\ Len(Commands) \in Nat
  <1>1. RxDepth \in Nat \ {0} /\ TxDepth \in Nat \ {0} /\ CrossDepth \in Nat \ {0}
    BY DepthAssumption
  <1>2. /\ fifoSink \in Seq(Cmd) /\ Len(fifoSink) <= CrossDepth
        /\ txFifo \in Seq(Cmd) /\ Len(txFifo) <= TxDepth
        /\ rxFifo \in Seq(Byte) /\ Len(rxFifo) <= RxDepth
        /\ fifoSource \in Seq(Byte) /\ Len(fifoSource) <= CrossDepth
    BY <1>1, Bounded DEF TypeOK
  <1>3. /\ Len(fifoSink) \in Nat /\ Len(txFifo) \in Nat
        /\ Len(rxFifo) \in Nat /\ Len(fifoSource) \in Nat
    BY <1>2, LenProperties
  <1>4. Commands \in Seq(Cmd) /\ Len(Commands) \in Nat
    BY <1>2, ConcatProperties, LenProperties DEF Commands
  <1> QED
    BY <1>1, <1>2, <1>3, <1>4

(* A command written into the clock crossing is the last of all. *)
LEMMA Handed ==
  ASSUME TypeOK, NEW x \in Cmd, fifoSink' = Append(fifoSink, x), txFifo' = txFifo
  PROVE  Commands' = Append(Commands, x)
  <1>1. fifoSink \in Seq(Cmd) /\ txFifo \in Seq(Cmd) /\ <<x>> \in Seq(Cmd)
    BY Types
  <1>2. txFifo \o (fifoSink \o <<x>>) = (txFifo \o fifoSink) \o <<x>>
    BY <1>1, ConcatAssociative
  <1>3. /\ Append(fifoSink, x) = fifoSink \o <<x>>
        /\ Append(txFifo \o fifoSink, x) = (txFifo \o fifoSink) \o <<x>>
    BY <1>1, AppendIsConcat, ConcatProperties
  <1> QED
    BY <1>2, <1>3 DEF Commands

(* The first command of a FIFO is the first of all. *)
LEMMA TailFirst ==
  ASSUME NEW s \in Seq(Cmd), s # << >>, NEW z \in Seq(Cmd)
  PROVE  s \o z # << >> /\ Head(s \o z) = Head(s) /\ Tail(s) \o z = Tail(s \o z)
  <1>1. /\ Len(s) \in Nat \ {0} /\ Len(z) \in Nat
        /\ Len(Tail(s)) = Len(s) - 1 /\ Tail(s) \in Seq(Cmd)
        /\ \A i \in 1 .. Len(s) - 1 : Tail(s)[i] = s[i + 1]
    BY HeadTailProperties, EmptySeq, LenProperties
  <1>2. /\ s \o z \in Seq(Cmd) /\ Len(s \o z) = Len(s) + Len(z)
        /\ \A i \in 1 .. Len(s) + Len(z) :
             (s \o z)[i] = IF i <= Len(s) THEN s[i] ELSE z[i - Len(s)]
    BY ConcatProperties
  <1>3. s \o z # << >>
    BY <1>1, <1>2
  <1>4. Head(s \o z) = Head(s)
    BY <1>1, <1>2, <1>3
  <1> DEFINE l == Tail(s) \o z
             r == Tail(s \o z)
  <1>5. /\ l \in Seq(Cmd) /\ Len(l) = Len(s) - 1 + Len(z)
        /\ \A i \in 1 .. Len(s) - 1 + Len(z) :
             l[i] = IF i <= Len(s) - 1 THEN Tail(s)[i] ELSE z[i - (Len(s) - 1)]
    BY <1>1, ConcatProperties
  <1>6. /\ r \in Seq(Cmd) /\ Len(r) = Len(s) + Len(z) - 1
        /\ \A i \in 1 .. Len(s) + Len(z) - 1 : r[i] = (s \o z)[i + 1]
    BY <1>2, <1>3, HeadTailProperties
  <1> HIDE DEF l, r
  <1>7. Len(l) = Len(r)
    BY <1>1, <1>5, <1>6
  <1>8. ASSUME NEW i \in 1 .. Len(l) PROVE l[i] = r[i]
    <2>1. /\ i \in 1 .. Len(s) - 1 + Len(z) /\ i \in 1 .. Len(s) + Len(z) - 1
          /\ i + 1 \in 1 .. Len(s) + Len(z)
      BY <1>1, <1>5
    <2>2. r[i] = IF i + 1 <= Len(s) THEN s[i + 1] ELSE z[(i + 1) - Len(s)]
      BY <1>2, <1>6, <2>1
    <2>3. CASE i + 1 <= Len(s)
      <3>1. i <= Len(s) - 1 /\ i \in 1 .. Len(s) - 1
        BY <1>1, <2>1, <2>3
      <3> QED
        BY <1>1, <1>5, <2>1, <2>2, <2>3, <3>1
    <2>4. CASE ~(i + 1 <= Len(s))
      <3>1. ~(i <= Len(s) - 1) /\ (i + 1) - Len(s) = i - (Len(s) - 1)
        BY <1>1, <2>1, <2>4
      <3> QED
        BY <1>5, <2>1, <2>2, <2>4, <3>1
    <2> QED
      BY <2>3, <2>4
  <1>9. l = r
    BY <1>5, <1>6, <1>7, <1>8
  <1> QED
    BY <1>3, <1>4, <1>9 DEF l, r

(* In a cycle of the transceiver the first command goes or none does; the  *)
(* step from the clock crossing to tx_fifo changes no order.               *)
LEMMA TxMove ==
  ASSUME TypeOK, NEW seen \in BOOLEAN, NEW nxt \in BOOLEAN,
         nxt => txFifo # << >>, TxSync(seen, nxt)
  PROVE  /\ fifoSink' \in Seq(Cmd) /\ Len(fifoSink') <= CrossDepth
         /\ txFifo' \in Seq(Cmd) /\ Len(txFifo') <= TxDepth
         /\ ~nxt => Commands' = Commands
         /\ nxt => /\ Commands # << >> /\ Head(Commands) = Head(txFifo)
                   /\ Commands' = Tail(Commands)
  <1> DEFINE rest == IF nxt THEN Tail(txFifo) ELSE txFifo
             moves == seen /\ fifoSink # << >> /\ Len(txFifo) < TxDepth
  <1>1. /\ fifoSink \in Seq(Cmd) /\ Len(fifoSink) \in Nat /\ Len(fifoSink) <= CrossDepth
        /\ txFifo \in Seq(Cmd) /\ Len(txFifo) \in Nat /\ Len(txFifo) <= TxDepth
        /\ TxDepth \in Nat /\ CrossDepth \in Nat
    BY Types
  <1>2. rest \in Seq(Cmd) /\ Len(rest) \in Nat /\ Len(rest) <= Len(txFifo)
    BY <1>1, HeadTailProperties
  <1>3. /\ ~nxt => rest \o fifoSink = Commands
        /\ nxt => /\ Commands # << >> /\ Head(Commands) = Head(txFifo)
                  /\ rest \o fifoSink = Tail(Commands)
    BY <1>1, TailFirst DEF Commands
  <1>4. /\ moves => txFifo' = Append(rest, Head(fifoSink)) /\ fifoSink' = Tail(fifoSink)
        /\ ~moves => txFifo' = rest /\ fifoSink' = fifoSink
    BY DEF TxSync
  <1> HIDE DEF rest
  <1>5. CASE moves
    <2>1. /\ Head(fifoSink) \in Cmd /\ Tail(fifoSink) \in Seq(Cmd)
          /\ Len(Tail(fifoSink)) = Len(fifoSink) - 1
      BY <1>1, <1>5, HeadTailProperties
    <2>2. /\ Append(rest, Head(fifoSink)) \in Seq(Cmd)
          /\ Len(Append(rest, Head(fifoSink))) = Len(rest) + 1
      BY <1>2, <2>1, AppendProperties
    <2>3. Append(rest, Head(fifoSink)) \o Tail(fifoSink) = rest \o fifoSink
      <3> DEFINE h == Head(fifoSink)
                 z == Tail(fifoSink)
      <3>1. h \in Cmd /\ z \in Seq(Cmd) /\ <<h>> \in Seq(Cmd) /\ fifoSink = <<h>> \o z
        BY <1>1, <1>5, <2>1
      <3> HIDE DEF h, z
      <3>2. Append(rest, h) = rest \o <<h>>
        BY <1>2, <3>1, AppendIsConcat
      <3>3. (rest \o <<h>>) \o z = rest \o (<<h>> \o z)
        BY <1>2, <3>1, ConcatAssociative
      <3> QED
        BY <3>1, <3>2, <3>3 DEF h, z
    <2>4. Commands' = rest \o fifoSink
      BY <1>4, <1>5, <2>3 DEF Commands
    <2>5. txFifo' \in Seq(Cmd) /\ Len(txFifo') = Len(rest) + 1
      BY <1>4, <1>5, <2>2
    <2>6. fifoSink' \in Seq(Cmd) /\ Len(fifoSink') = Len(fifoSink) - 1
      BY <1>4, <1>5, <2>1
    <2>7. Len(fifoSink') <= CrossDepth /\ Len(txFifo') <= TxDepth
      BY <1>1, <1>2, <1>5, <2>5, <2>6
    <2> HIDE DEF moves
    <2> QED
      BY <1>3, <2>4, <2>5, <2>6, <2>7
  <1>6. CASE ~moves
    <2>1. Commands' = rest \o fifoSink
      BY <1>4, <1>6 DEF Commands
    <2>2. txFifo' = rest /\ fifoSink' = fifoSink
      BY <1>4, <1>6
    <2>3. Len(txFifo') <= TxDepth
      BY <1>1, <1>2, <2>2
    <2> HIDE DEF moves
    <2> QED
      BY <1>1, <1>2, <1>3, <2>1, <2>2, <2>3, Zenon
  <1> QED
    BY <1>5, <1>6

(* Bytes from the transceiver enter rx_fifo when there is room, and leave   *)
(* it for the clock crossing in order.                                     *)
LEMMA RxMove ==
  ASSUME TypeOK, RxSync
  PROVE  /\ rxFifo' \in Seq(Byte) /\ Len(rxFifo') <= RxDepth
         /\ fifoSource' \in Seq(Byte) /\ Len(fifoSource') <= CrossDepth
         /\ Empty /\ sample = None => Empty'
         /\ Empty /\ sample # None => rxFifo' = <<sample>> /\ fifoSource' = << >>
         /\ \A v : rxFifo = <<v>> /\ fifoSource = << >> /\ sample = None =>
                     rxFifo' = << >> /\ fifoSource' = <<v>>
         /\ rxFifo = << >> /\ sample = None =>
              rxFifo' = << >> /\ fifoSource' = fifoSource
  <1> DEFINE moves == rxFifo # << >> /\ Len(fifoSource) < CrossDepth
             rest == IF moves THEN Tail(rxFifo) ELSE rxFifo
             enters == sample # None /\ Len(rxFifo) < RxDepth
  <1>1. /\ fifoSource' = IF moves THEN Append(fifoSource, Head(rxFifo)) ELSE fifoSource
        /\ rxFifo' = IF enters THEN Append(rest, sample) ELSE rest
    BY DEF RxSync
  <1>2. /\ rxFifo \in Seq(Byte) /\ Len(rxFifo) \in Nat /\ Len(rxFifo) <= RxDepth
        /\ fifoSource \in Seq(Byte) /\ Len(fifoSource) \in Nat /\ Len(fifoSource) <= CrossDepth
        /\ RxDepth \in Nat \ {0} /\ CrossDepth \in Nat \ {0}
    BY Types
  <1>3. sample # None => sample \in Byte
    BY DEF TypeOK, Byte
  <1>4. /\ rest \in Seq(Byte) /\ Len(rest) \in Nat /\ Len(rest) <= Len(rxFifo)
        /\ moves => Head(rxFifo) \in Byte
    BY <1>2, HeadTailProperties
  <1>5. rxFifo' \in Seq(Byte) /\ Len(rxFifo') <= RxDepth
    <2> HIDE DEF rest, moves
    <2>1. CASE enters
      <3>1. Append(rest, sample) \in Seq(Byte) /\ Len(Append(rest, sample)) = Len(rest) + 1
        BY <1>3, <1>4, <2>1, AppendProperties
      <3> QED
        BY <1>1, <1>2, <1>4, <2>1, <3>1
    <2>2. CASE ~enters
      BY <1>1, <1>2, <1>4, <2>2
    <2> QED
      BY <2>1, <2>2
  <1>6. fifoSource' \in Seq(Byte) /\ Len(fifoSource') <= CrossDepth
    <2>1. CASE moves
      <3>1. /\ Append(fifoSource, Head(rxFifo)) \in Seq(Byte)
            /\ Len(Append(fifoSource, Head(rxFifo))) = Len(fifoSource) + 1
        BY <1>2, <1>4, <2>1, AppendProperties
      <3> QED
        BY <1>1, <1>2, <2>1, <3>1
    <2>2. CASE ~moves
      BY <1>1, <1>2, <2>2
    <2> QED
      BY <2>1, <2>2
  <1>7. ASSUME rxFifo = << >>
        PROVE  /\ fifoSource' = fifoSource
               /\ sample = None => rxFifo' = << >>
               /\ sample # None => rxFifo' = <<sample>>
    <2>1. ~moves /\ rest = << >> /\ Len(rxFifo) < RxDepth
      BY <1>2, <1>7
    <2> HIDE DEF rest, moves
    <2> QED
      BY <1>1, <2>1
  <1>8. ASSUME NEW v, rxFifo = <<v>>, fifoSource = << >>, sample = None
        PROVE  rxFifo' = << >> /\ fifoSource' = <<v>>
    <2>1. moves /\ ~enters /\ Head(rxFifo) = v /\ Tail(rxFifo) = << >>
      BY <1>2, <1>8
    <2>2. Append(fifoSource, Head(rxFifo)) = <<v>>
      BY <1>8, <2>1
    <2> QED
      BY <1>1, <2>1, <2>2
  <1> QED
    BY <1>5, <1>6, <1>7, <1>8 DEF Empty

-----------------------------------------------------------------------------
(* Nothing is on its way at first. *)
LEMMA InitIInv == Init => IInv
  <1> SUFFICES ASSUME Init PROVE IInv
    OBVIOUS
  <1>1. Commands = << >> /\ Len(Commands) = 0
    BY DEF Init, Commands
  <1>2. TypeOK
    <2>1. RxDepth \in Nat \ {0} /\ TxDepth \in Nat \ {0} /\ CrossDepth \in Nat \ {0}
      BY DepthAssumption
    <2>2. ASSUME NEW n \in Nat PROVE << >> \in Cmds(n) /\ << >> \in Bytes(n)
      <3> DEFINE s == << >>
      <3>1. s \in Seq(Cmd) /\ s \in Seq(Byte) /\ Len(s) = 0
        BY EmptySeq
      <3> HIDE DEF s
      <3>2. Len(s) <= n
        BY <3>1
      <3>3. s \in Cmds(n) /\ s \in Bytes(n)
        BY <3>1, <3>2, Bounded
      <3> QED
        BY <3>3 DEF s
    <2>3. 0 \in 0 .. RxDepth - 1
      BY <2>1
    <2> QED
      BY <2>1, <2>2, <2>3 DEF Init, TypeOK
  <1>3. Control
    BY DEF Init, Control
  <1>4. Paired
    BY <1>1 DEF Init, Paired, Pairs, Opened
  <1>5. Landing
    BY <1>1 DEF Init, Landing, Unsent, Arrives, Writes
  <1>6. Quiet
    BY DEF Init, Quiet
  <1> QED
    BY <1>2, <1>3, <1>4, <1>5, <1>6 DEF IInv

(* Every step keeps the types. *)
LEMMA TypeNext ==
  ASSUME TypeOK, Next
  PROVE  TypeOK'
  <1> USE DEF csrVars, coreVars, hostVars, chipVars, rxVars
  <1>0. /\ RxDepth \in Nat \ {0} /\ TxDepth \in Nat \ {0} /\ CrossDepth \in Nat \ {0}
    BY Types
  <1>1. CASE Host
    <2>1. ASSUME NEW a \in Adr, AskRead(a) PROVE TypeOK'
      BY <1>1, <2>1 DEF Host, AskRead, TypeOK
    <2>2. ASSUME NEW a \in Adr, NEW v \in Val, AskWrite(a, v) PROVE TypeOK'
      BY <1>1, <2>2 DEF Host, AskWrite, TypeOK
    <2>3. CASE Poll
      BY <1>1, <2>3 DEF Host, Poll, TypeOK
    <2> QED
      BY <1>1, <2>1, <2>2, <2>3 DEF Host
  <1>2. ASSUME NEW seen \in BOOLEAN, NEW ready \in BOOLEAN, SysCycle(seen, ready)
        PROVE  TypeOK'
    <2>1. UNCHANGED <<adr, datW, want, regs, target, owe, rxFifo, odir, sample, txFifo>>
      BY <1>2 DEF SysCycle
    <2>2. /\ state' \in {"IDLE", "WRITE_REG_ADR", "WRITE_REG_DAT",
                         "READ_FLUSH", "READ_REG_ADR", "READ_REG_DAT"}
          /\ flushcnt' \in 0 .. RxDepth - 1 /\ datR' \in Val \union {Junk}
          /\ fifoSink' \in Cmds(CrossDepth) /\ fifoSource' \in Bytes(CrossDepth)
          /\ pc' \in {"write", "writing", "written", "read", "reading", "got"}
          /\ noise' \in BOOLEAN
      <3>1. /\ fifoSource \in Seq(Byte) /\ Len(fifoSource) \in Nat
            /\ Len(fifoSource) <= CrossDepth
            /\ fifoSink \in Seq(Cmd) /\ Len(fifoSink) \in Nat
        BY Types
      <3>2. fifoSource # << >> =>
              Head(fifoSource) \in Val \union {Junk} /\ Tail(fifoSource) \in Bytes(CrossDepth)
        <4> SUFFICES ASSUME fifoSource # << >>
                     PROVE  Head(fifoSource) \in Byte /\ Tail(fifoSource) \in Bytes(CrossDepth)
          BY DEF Byte
        <4>1. /\ Head(fifoSource) \in Byte /\ Tail(fifoSource) \in Seq(Byte)
              /\ Len(Tail(fifoSource)) = Len(fifoSource) - 1
          BY <3>1, HeadTailProperties
        <4>2. Len(Tail(fifoSource)) <= CrossDepth
          BY <1>0, <3>1, <4>1
        <4> QED
          BY <1>0, <4>1, <4>2, Bounded
      <3>3. ASSUME NEW x \in Cmd, SinkReady PROVE Append(fifoSink, x) \in Cmds(CrossDepth)
        <4>1. /\ Append(fifoSink, x) \in Seq(Cmd)
              /\ Len(Append(fifoSink, x)) = Len(fifoSink) + 1
          BY <3>1, AppendProperties
        <4>2. Len(Append(fifoSink, x)) <= CrossDepth
          BY <1>0, <3>1, <3>3, <4>1 DEF SinkReady
        <4> QED
          BY <1>0, <4>1, <4>2, Bounded
      <3>4. 0 \in 0 .. RxDepth - 1
        BY <1>0
      <3>5. CASE Strobe
        BY <3>4, <3>5 DEF Strobe, TypeOK
      <3>6. CASE Capture(seen, ready)
        BY <3>2, <3>4, <3>6 DEF Capture, Offered, TypeOK
      <3>7. WriteCmd(adr) \in Cmd /\ ReadCmd(adr) \in Cmd /\ Data(datW) \in Cmd
        BY CmdMade DEF TypeOK
      <3>8. CASE WriteRegAdr
        BY <3>3, <3>7, <3>8 DEF WriteRegAdr, Hand, TypeOK
      <3>9. CASE WriteRegDat
        BY <3>3, <3>7, <3>9 DEF WriteRegDat, Hand, TypeOK
      <3>10. CASE ReadRegAdr
        BY <3>3, <3>7, <3>10 DEF ReadRegAdr, Hand, TypeOK
      <3>11. CASE ReadFlush(seen)
        <4>1. flushcnt' \in 0 .. RxDepth - 1
          BY <1>0, <3>11 DEF ReadFlush, TypeOK
        <4> QED
          BY <3>2, <3>11, <4>1 DEF ReadFlush, Offered, TypeOK
      <3>12. CASE ReadRegDat(seen)
        BY <3>2, <3>12 DEF ReadRegDat, Offered, TypeOK
      <3> QED
        BY <1>2, <3>5, <3>6, <3>8, <3>9, <3>10, <3>11, <3>12 DEF SysCycle
    <2> QED
      BY <2>1, <2>2 DEF TypeOK
  <1>3. ASSUME NEW dir \in BOOLEAN, NEW nxt \in BOOLEAN, NEW seen \in BOOLEAN,
               UlpiCycle(dir, nxt, seen)
        PROVE  TypeOK'
    <2>1. /\ UNCHANGED <<state, flushcnt, datR, adr, datW, pc, want>>
          /\ TxSync(seen, nxt) /\ RxSync /\ BusSync(dir) /\ (nxt => txFifo # << >>)
      BY <1>3 DEF UlpiCycle
    <2>2. fifoSink' \in Cmds(CrossDepth) /\ txFifo' \in Cmds(TxDepth)
      BY <1>0, <2>1, TxMove, Bounded
    <2>3. rxFifo' \in Bytes(RxDepth) /\ fifoSource' \in Bytes(CrossDepth)
      BY <1>0, <2>1, RxMove, Bounded
    <2>4. odir' \in BOOLEAN /\ sample' \in Val \union {Junk, None}
      BY <2>1 DEF BusSync, TypeOK
    <2>5. noise' \in BOOLEAN
      BY <1>3 DEF UlpiCycle, TypeOK
    <2>6. /\ regs' \in [Adr -> Val] /\ target' \in Adr \union {None}
          /\ owe' \in Val \union {None}
      <3>1. CASE nxt
        <4> DEFINE x == Head(txFifo)
        <4>1. x \in Cmd
          BY <2>1, <3>1, Types, HeadTailProperties
        <4>2. Accept(x)
          BY <1>3, <3>1 DEF UlpiCycle
        <4> HIDE DEF x
        <4>3. /\ x.kind = "data" => x.of \in Val
              /\ x.kind = "read" => x.of \in Adr
              /\ x.kind = "write" => x.of \in Adr
          BY <4>1, CmdFields
        <4> QED
          BY <4>2, <4>3 DEF Accept, TypeOK
      <3>2. CASE ~nxt
        BY <1>3, <3>2 DEF UlpiCycle, TypeOK
      <3> QED
        BY <3>1, <3>2
    <2> QED
      BY <2>1, <2>2, <2>3, <2>4, <2>5, <2>6 DEF TypeOK
  <1> QED
    BY <1>1, <1>2, <1>3 DEF Next, Sys, UlpiClock

(* The core leaves IDLE for an access of the program only, and the program  *)
(* goes on only when it is back.                                           *)
LEMMA ControlNext ==
  ASSUME TypeOK, Control, Next
  PROVE  Control'
  <1>1. CASE Host
    BY <1>1 DEF Host, AskRead, AskWrite, Returned, Poll, Control, coreVars
  <1>2. ASSUME NEW seen \in BOOLEAN, NEW ready \in BOOLEAN, SysCycle(seen, ready)
        PROVE  Control'
    <2>1. CASE Strobe
      BY <2>1 DEF Strobe, Control
    <2>2. CASE Capture(seen, ready)
      BY <2>2 DEF Capture, Control
    <2>3. CASE WriteRegAdr \/ WriteRegDat \/ ReadRegAdr
      BY <2>3 DEF WriteRegAdr, WriteRegDat, ReadRegAdr, Hand, Control
    <2>4. CASE ReadFlush(seen)
      BY <2>4 DEF ReadFlush, Control
    <2>5. CASE ReadRegDat(seen)
      BY <2>5 DEF ReadRegDat, Control
    <2> QED
      BY <1>2, <2>1, <2>2, <2>3, <2>4, <2>5 DEF SysCycle
  <1>3. ASSUME NEW dir \in BOOLEAN, NEW nxt \in BOOLEAN, NEW seen \in BOOLEAN,
               UlpiCycle(dir, nxt, seen)
        PROVE  Control'
    BY <1>3 DEF UlpiCycle, coreVars, hostVars, Control
  <1> QED
    BY <1>1, <1>2, <1>3 DEF Next, Sys, UlpiClock

(* No command, and nothing about the registers, changes.                    *)
LEMMA SameWrites ==
  ASSUME TypeOK, Paired, Landing, UNCHANGED <<fifoSink, txFifo, regs, target, adr, datW, want>>,
         (state' = "WRITE_REG_DAT") <=> (state = "WRITE_REG_DAT"),
         \A a \in Adr : Unsent(a)' <=> Unsent(a)
  PROVE  Paired' /\ Landing'
  <1>1. Commands' = Commands
    BY DEF Commands
  <1>2. Paired'
    BY <1>1, Zenon DEF Paired
  <1>3. Landing'
    BY <1>1, Zenon DEF Landing
  <1> QED
    BY <1>2, <1>3

(* Whatever a cycle of the core and a step of the program do, the writes    *)
(* stay what they are meant to be.                                         *)
LEMMA WritesSys ==
  ASSUME TypeOK, Control, Paired, Landing, Host \/ Sys
  PROVE  Paired' /\ Landing'
  <1>1. Commands \in Seq(Cmd) /\ adr \in Adr /\ datW \in Val /\ None \notin Adr
    BY Types, ValueAssumption DEF TypeOK
  <1>2. ASSUME NEW a \in Adr, AskRead(a), Host PROVE Paired' /\ Landing'
    <2>1. UNCHANGED <<state, fifoSink, txFifo, regs, target, datW, want>>
      BY <1>2 DEF AskRead, Host, coreVars, chipVars
    <2>2. state = "IDLE" /\ pc # "write" /\ pc' = "read"
      BY <1>2 DEF AskRead, Returned, Control, TypeOK
    <2>3. \A b \in Adr : ~Unsent(b) /\ ~Unsent(b)'
      BY <2>1, <2>2 DEF Unsent
    <2>4. Commands' = Commands
      BY <2>1 DEF Commands
    <2>5. Paired'
      BY <2>1, <2>2, <2>4 DEF Paired
    <2>6. Landing'
      BY <2>1, <2>3, <2>4 DEF Landing
    <2> QED
      BY <2>5, <2>6
  <1>3. ASSUME NEW a \in Adr, NEW v \in Val, AskWrite(a, v), Host PROVE Paired' /\ Landing'
    <2>1. /\ UNCHANGED <<state, fifoSink, txFifo, regs, target>>
          /\ adr' = a /\ datW' = v /\ want' = [want EXCEPT ![a] = v]
      BY <1>3 DEF AskWrite, Host, coreVars, chipVars
    <2>2. state = "IDLE" /\ pc # "write" /\ pc' = "write" /\ want \in [Adr -> Val]
      BY <1>3 DEF AskWrite, Returned, Control, TypeOK
    <2>3. \A b \in Adr : ~Unsent(b) /\ (Unsent(b)' <=> b = a)
      BY <2>1, <2>2 DEF Unsent
    <2>4. Commands' = Commands
      BY <2>1 DEF Commands
    <2>5. Paired'
      BY <2>1, <2>2, <2>4 DEF Paired
    <2>6. want'[a] = datW' /\ \A b \in Adr : b # a => want'[b] = want[b]
      BY <2>1, <2>2
    <2>7. Landing'
      BY <2>1, <2>3, <2>4, <2>6 DEF Landing
    <2> QED
      BY <2>5, <2>7
  <1>4. CASE Poll /\ Host
    <2>1. /\ UNCHANGED <<state, fifoSink, txFifo, regs, target, adr, datW, want>>
          /\ state = "IDLE" /\ pc # "write" /\ pc' # "write"
      BY <1>4 DEF Poll, Host, coreVars, chipVars, csrVars
    <2> QED
      BY <2>1, SameWrites DEF Unsent
  <1>5. ASSUME NEW seen \in BOOLEAN, NEW ready \in BOOLEAN, SysCycle(seen, ready)
        PROVE  Paired' /\ Landing'
    <2>1. UNCHANGED <<txFifo, regs, target, adr, datW, want>>
      BY <1>5 DEF SysCycle, csrVars, chipVars
    <2>2. CASE Strobe
      BY <2>1, <2>2, SameWrites DEF Strobe, Unsent
    <2>3. CASE Capture(seen, ready)
      BY <2>1, <2>3, SameWrites DEF Capture, Unsent
    <2>4. CASE ReadFlush(seen)
      BY <2>1, <2>4, SameWrites DEF ReadFlush, Unsent
    <2>5. CASE ReadRegDat(seen)
      BY <2>1, <2>5, SameWrites DEF ReadRegDat, Unsent
    <2>6. CASE (WriteRegAdr \/ WriteRegDat \/ ReadRegAdr) /\ ~SinkReady
      BY <2>1, <2>6, SameWrites DEF WriteRegAdr, WriteRegDat, ReadRegAdr, Hand, Unsent
    <2>7. CASE WriteRegAdr /\ SinkReady
      <3>1. /\ state = "WRITE_REG_ADR" /\ state' = "WRITE_REG_DAT" /\ pc' = pc
            /\ fifoSink' = Append(fifoSink, WriteCmd(adr))
        BY <2>7 DEF WriteRegAdr, Hand
      <3>2. /\ WriteCmd(adr) \in Cmd /\ WriteCmd(adr).kind # "data"
            /\ Opens(WriteCmd(adr)) = adr
        BY <1>1, CmdMade DEF Opens
      <3>3. Commands' = Append(Commands, WriteCmd(adr))
        BY <2>1, <3>1, <3>2, Handed
      <3>4. Pairs(Commands, target, None)
        BY <3>1 DEF Paired
      <3>5. /\ Pairs(Commands', target, adr)
            /\ \A a, r, w : Arrives(Commands, target, a, r, w)
                              => Arrives(Commands', target, a, r, w)
        BY <1>1, <3>2, <3>3, <3>4, OneAdded
      <3>6. Paired'
        BY <2>1, <3>1, <3>5 DEF Paired
      <3>7. \A a \in Adr : Unsent(a)' <=> Unsent(a)
        BY <2>1, <3>1 DEF Unsent
      <3>8. Landing'
        BY <2>1, <3>5, <3>7 DEF Landing
      <3> QED
        BY <3>6, <3>8
    <2>8. CASE WriteRegDat /\ SinkReady
      <3>1. /\ state = "WRITE_REG_DAT" /\ state' = "IDLE" /\ pc' = pc
            /\ fifoSink' = Append(fifoSink, Data(datW)) /\ pc = "writing"
        BY <2>8 DEF WriteRegDat, Hand, Control
      <3>2. /\ Data(datW) \in Cmd /\ Data(datW).kind = "data" /\ Data(datW).of = datW
            /\ Opens(Data(datW)) = None
        BY <1>1, CmdMade DEF Opens
      <3>3. Commands' = Append(Commands, Data(datW))
        BY <2>1, <3>1, <3>2, Handed
      <3>4. Pairs(Commands, target, adr) /\ adr # None
        BY <1>1, <3>1 DEF Paired
      <3>5. /\ Pairs(Commands', target, None)
            /\ \A a, r, w : Arrives(Commands, target, a, r, w) /\ adr # a
                              => Arrives(Commands', target, a, r, w)
            /\ \A r : Arrives(Commands', target, adr, r, datW)
        BY <1>1, <3>2, <3>3, <3>4, OneAdded
      <3>6. Paired'
        BY <2>1, <3>1, <3>5 DEF Paired
      <3>7. \A a \in Adr : ~Unsent(a)' /\ (Unsent(a) <=> a = adr)
        BY <2>1, <3>1 DEF Unsent
      <3>8. Landing'
        BY <2>1, <3>5, <3>7 DEF Landing
      <3> QED
        BY <3>6, <3>8
    <2>9. CASE ReadRegAdr /\ SinkReady
      <3>1. /\ state = "READ_REG_ADR" /\ state' = "READ_REG_DAT" /\ pc' = pc
            /\ fifoSink' = Append(fifoSink, ReadCmd(adr))
        BY <2>9 DEF ReadRegAdr, Hand
      <3>2. /\ ReadCmd(adr) \in Cmd /\ ReadCmd(adr).kind # "data"
            /\ Opens(ReadCmd(adr)) = None
        BY <1>1, CmdMade DEF Opens
      <3>3. Commands' = Append(Commands, ReadCmd(adr))
        BY <2>1, <3>1, <3>2, Handed
      <3>4. Pairs(Commands, target, None)
        BY <3>1 DEF Paired
      <3>5. /\ Pairs(Commands', target, None)
            /\ \A a, r, w : Arrives(Commands, target, a, r, w)
                              => Arrives(Commands', target, a, r, w)
        BY <1>1, <3>2, <3>3, <3>4, OneAdded
      <3>6. Paired'
        BY <2>1, <3>1, <3>5 DEF Paired
      <3>7. \A a \in Adr : Unsent(a)' <=> Unsent(a)
        BY <2>1, <3>1 DEF Unsent
      <3>8. Landing'
        BY <2>1, <3>5, <3>7 DEF Landing
      <3> QED
        BY <3>6, <3>8
    <2> QED
      BY <1>5, <2>2, <2>3, <2>4, <2>5, <2>6, <2>7, <2>8, <2>9 DEF SysCycle
  <1> QED
    BY <1>2, <1>3, <1>4, <1>5 DEF Host, Sys

(* The transceiver carries out the first command: its register takes the    *)
(* data that was to reach it.                                              *)
LEMMA WritesUlpi ==
  ASSUME TypeOK, Paired, Landing, NEW dir \in BOOLEAN, NEW nxt \in BOOLEAN,
         NEW seen \in BOOLEAN, UlpiCycle(dir, nxt, seen)
  PROVE  Paired' /\ Landing'
  <1>1. /\ UNCHANGED <<state, adr, datW, pc, want>>
        /\ TxSync(seen, nxt) /\ (nxt => txFifo # << >>)
    BY DEF UlpiCycle, coreVars, csrVars, hostVars
  <1>2. Commands \in Seq(Cmd)
    BY Types
  <1>3. \A a \in Adr : Unsent(a)' <=> Unsent(a)
    BY <1>1 DEF Unsent
  <1>4. CASE ~nxt
    <2>1. Commands' = Commands /\ regs' = regs /\ target' = target
      BY <1>1, <1>4, TxMove DEF UlpiCycle
    <2> QED
      BY <1>1, <1>3, <2>1 DEF Paired, Landing
  <1>5. CASE nxt
    <2> DEFINE x == Head(Commands)
               e == IF state = "WRITE_REG_DAT" THEN adr ELSE None
    <2>1. /\ Commands # << >> /\ Commands' = Tail(Commands) /\ Accept(x)
      BY <1>1, <1>5, TxMove DEF UlpiCycle
    <2>2. x \in Cmd
      BY <1>2, <2>1, HeadTailProperties
    <2>3. Pairs(Commands, target, e)
      BY DEF Paired
    <2>4. /\ Pairs(Commands', Opens(x), e)
          /\ \A a, r, w : Arrives(Commands, target, a, r, w) =>
               Arrives(Commands', Opens(x), a,
                       IF x.kind = "data" /\ target = a THEN x.of ELSE r, w)
      BY <1>2, <2>1, <2>3, FirstDone
    <2> HIDE DEF x, e
    <2>5. target' = Opens(x)
      BY <2>1 DEF Accept, Opens
    <2>6. \A a \in Adr : regs'[a] = IF x.kind = "data" /\ target = a THEN x.of ELSE regs[a]
      BY <2>1, ValueAssumption DEF Accept, TypeOK
    <2>7. Paired'
      BY <1>1, <2>4, <2>5 DEF Paired, e
    <2>8. Landing'
      BY <1>1, <1>3, <2>4, <2>5, <2>6 DEF Landing
    <2> QED
      BY <2>7, <2>8
  <1> QED
    BY <1>4, <1>5

(* On a silent bus nothing stands between a read and its answer, whatever   *)
(* the program and the core do.                                            *)
LEMMA QuietSys ==
  ASSUME TypeOK, Control, Quiet, Host \/ Sys
  PROVE  Quiet'
  <1>1. Commands \in Seq(Cmd) /\ Len(Commands) \in Nat /\ adr \in Adr
    BY Types DEF TypeOK
  <1>2. CASE Host
    <2>1. UNCHANGED <<state, datR, owe, rxFifo, sample, fifoSink, txFifo, fifoSource>>
      BY <1>2 DEF Host, coreVars, chipVars, rxVars
    <2>2. Commands' = Commands
      BY <2>1 DEF Commands
    <2>3. ASSUME NEW a \in Adr, AskRead(a) \/ \E v \in Val : AskWrite(a, v) PROVE Quiet'
      <3>1. state = "IDLE" /\ pc' \in {"read", "write"}
        BY <2>3 DEF AskRead, AskWrite, Returned, Control, TypeOK
      <3> QED
        BY <2>1, <3>1 DEF Quiet
    <2>4. CASE Poll
      <3>1. /\ state = "IDLE" /\ adr' = adr /\ want' = want /\ noise' = noise
            /\ pc' \in {"reading", "got"} => pc = "reading"
        BY <2>4 DEF Poll, csrVars
      <3> QED
        BY <2>1, <3>1 DEF Quiet
    <2> QED
      BY <1>2, <2>3, <2>4 DEF Host
  <1>3. ASSUME NEW seen \in BOOLEAN, NEW ready \in BOOLEAN, SysCycle(seen, ready)
        PROVE  Quiet'
    <2>1. UNCHANGED <<txFifo, adr, want, owe, rxFifo, sample>>
      BY <1>3 DEF SysCycle, csrVars, chipVars, rxVars
    <2>2. CASE Strobe
      <3>1. UNCHANGED <<fifoSink, fifoSource>> /\ Commands' = Commands
        BY <2>1, <2>2 DEF Strobe, Commands
      <3>2. CASE state' = "WRITE_REG_ADR"
        BY <3>2 DEF Quiet
      <3>3. CASE state' = "READ_FLUSH"
        <4>1. noise' = (\/ rxFifo # << >> \/ fifoSource # << >>
                        \/ sample # None \/ owe # None
                        \/ \E i \in DOMAIN Commands : Commands[i].kind = "read")
          BY <2>2, <3>3 DEF Strobe
        <4>2. ASSUME ~noise' PROVE Asks(Commands) = {} /\ Silent
          <5>1. DOMAIN Commands = 1 .. Len(Commands)
            BY <1>1, LenProperties
          <5>2. Silent
            BY <4>1, <4>2, Zenon DEF Silent, Empty
          <5>3. ~\E i \in DOMAIN Commands : Commands[i].kind = "read"
            BY <4>1, <4>2, Zenon
          <5> QED
            BY <5>1, <5>2, <5>3 DEF Asks
        <4>3. ~noise' => Asks(Commands)' = {} /\ Silent'
          BY <2>1, <3>1, <4>2 DEF Silent, Empty
        <4> QED
          BY <3>3, <4>3 DEF Quiet
      <3> QED
        BY <2>2, <3>2, <3>3 DEF Strobe
    <2>3. CASE Capture(seen, ready)
      BY <2>1, <2>3 DEF Capture, Quiet
    <2>4. CASE WriteRegAdr \/ WriteRegDat
      <3>1. pc' = "writing" /\ state' \in {"IDLE", "WRITE_REG_ADR", "WRITE_REG_DAT"}
        BY <2>4 DEF WriteRegAdr, WriteRegDat, Hand, Control
      <3> QED
        BY <3>1 DEF Quiet
    <2>5. CASE ReadFlush(seen)
      <3>1. /\ state = "READ_FLUSH" /\ noise' = noise /\ Commands' = Commands
            /\ state' \in {"READ_FLUSH", "READ_REG_ADR"}
            /\ fifoSource' = IF Offered(seen) THEN Tail(fifoSource) ELSE fifoSource
        BY <2>1, <2>5 DEF ReadFlush, Commands
      <3>2. ASSUME ~noise PROVE Asks(Commands)' = {} /\ Silent'
        <4>1. Asks(Commands) = {} /\ Silent
          BY <3>1, <3>2 DEF Quiet
        <4>2. fifoSource' = fifoSource
          BY <3>1, <4>1 DEF Silent, Empty, Offered
        <4> QED
          BY <2>1, <3>1, <4>1, <4>2 DEF Silent, Empty
      <3> QED
        BY <3>1, <3>2 DEF Quiet
    <2>6. CASE ReadRegAdr
      <3>1. state = "READ_REG_ADR" /\ noise' = noise /\ fifoSource' = fifoSource
        BY <2>6 DEF ReadRegAdr, Hand
      <3>2. ASSUME ~noise PROVE Asks(Commands) = {} /\ Silent'
        <4>1. Asks(Commands) = {} /\ Silent
          BY <3>1, <3>2 DEF Quiet
        <4> QED
          BY <2>1, <3>1, <4>1 DEF Silent, Empty
      <3>3. CASE SinkReady
        <4>1. state' = "READ_REG_DAT" /\ fifoSink' = Append(fifoSink, ReadCmd(adr))
          BY <2>6, <3>3 DEF ReadRegAdr, Hand
        <4>2. /\ ReadCmd(adr) \in Cmd /\ ReadCmd(adr).kind = "read"
              /\ ReadCmd(adr).of = adr
          BY <1>1, CmdMade
        <4>3. Commands' = Append(Commands, ReadCmd(adr))
          BY <2>1, <4>1, <4>2, Handed
        <4>4. Len(Commands') = Len(Commands) + 1 /\ Commands'[Len(Commands')] = ReadCmd(adr)
          BY <1>1, <4>2, <4>3, AppendProperties
        <4>5. ASSUME ~noise PROVE Asked'
          <5>1. Asks(Commands') = {Len(Commands')}
            BY <1>1, <3>2, <4>2, <4>3, <4>4, <4>5, AsksMove
          <5> QED
            BY <2>1, <3>2, <4>2, <4>4, <4>5, <5>1 DEF Asked
        <4> QED
          BY <3>1, <4>1, <4>5 DEF Quiet
      <3>4. CASE ~SinkReady
        <4>1. state' = state /\ Commands' = Commands
          BY <2>1, <2>6, <3>4 DEF ReadRegAdr, Hand, Commands
        <4> QED
          BY <3>1, <3>2, <4>1 DEF Quiet
      <3> QED
        BY <3>3, <3>4
    <2>7. CASE ReadRegDat(seen)
      <3>1. state = "READ_REG_DAT" /\ noise' = noise /\ Commands' = Commands
        BY <2>1, <2>7 DEF ReadRegDat, Commands
      <3>2. CASE Offered(seen)
        <4>1. state' = "IDLE" /\ datR' = Head(fifoSource) /\ fifoSource # << >>
          BY <2>7, <3>2 DEF ReadRegDat, Offered
        <4>2. ASSUME ~noise PROVE datR' = want[adr]
          <5>1. Asked \/ Answered(want[adr])
            BY <3>1, <4>2 DEF Quiet
          <5>2. fifoSource = <<want[adr]>>
            BY <4>1, <5>1 DEF Asked, Answered, Silent, Empty
          <5> QED
            BY <4>1, <5>2
        <4> QED
          BY <2>1, <3>1, <4>1, <4>2 DEF Quiet
      <3>3. CASE ~Offered(seen)
        <4>1. state' = state /\ datR' = datR /\ fifoSource' = fifoSource
          BY <2>7, <3>3 DEF ReadRegDat
        <4>2. /\ Asked => Asked'
              /\ Answered(want[adr]) => Answered(want[adr])'
          BY <2>1, <3>1, <4>1 DEF Asked, Answered, Silent, Empty
        <4> QED
          BY <2>1, <3>1, <4>1, <4>2 DEF Quiet
      <3> QED
        BY <3>2, <3>3
    <2> QED
      BY <1>3, <2>2, <2>3, <2>4, <2>5, <2>6, <2>7 DEF SysCycle
  <1> QED
    BY <1>2, <1>3 DEF Sys

(* The transceiver answers with the value of the register when the read is  *)
(* carried out, and by then every write before it is; the answer goes from  *)
(* place to place as long as the bus is silent.                            *)
LEMMA QuietUlpi ==
  ASSUME TypeOK, Control, Landing, Quiet, NEW dir \in BOOLEAN, NEW nxt \in BOOLEAN,
         NEW seen \in BOOLEAN, UlpiCycle(dir, nxt, seen)
  PROVE  Quiet'
  <1>1. /\ UNCHANGED <<state, datR, adr, pc, want>>
        /\ TxSync(seen, nxt) /\ RxSync /\ BusSync(dir) /\ (nxt => txFifo # << >>)
        /\ owe # None => dir /\ ~nxt
        /\ ~nxt => regs' = regs /\ owe' = IF odir THEN None ELSE owe
    BY DEF UlpiCycle, coreVars, csrVars, hostVars
  <1>2. Commands \in Seq(Cmd) /\ Len(Commands) \in Nat
    BY Types
  <1>3. /\ ~nxt => Commands' = Commands
        /\ nxt => /\ Commands # << >> /\ Commands' = Tail(Commands)
                  /\ Accept(Head(Commands))
    BY <1>1, TxMove DEF UlpiCycle
  <1>4. noise' = (noise \/ (pc = "reading" /\ sample' = Junk))
    BY DEF UlpiCycle
  <1>5. /\ owe = None => sample' \in {None, Junk}
        /\ owe # None => sample' = IF odir THEN owe ELSE None
    BY <1>1 DEF BusSync
  <1>6. CASE state \notin {"READ_FLUSH", "READ_REG_ADR", "READ_REG_DAT"}
    BY <1>1, <1>4, <1>6 DEF Quiet
  <1>7. CASE state \in {"READ_FLUSH", "READ_REG_ADR", "READ_REG_DAT"} /\ noise'
    BY <1>7 DEF Quiet
  <1>8. ASSUME state \in {"READ_FLUSH", "READ_REG_ADR", "READ_REG_DAT"}, ~noise'
        PROVE  Quiet'
    <2>1. ~noise /\ sample' # Junk
      BY <1>4, <1>8 DEF Control
    <2>2. ASSUME Asks(Commands) = {}
          PROVE  Asks(Commands') = {} /\ (owe = None => owe' = None)
      <3>1. nxt => Head(Commands).kind # "read" /\ Asks(Tail(Commands)) = {}
        BY <1>2, <1>3, <2>2, AsksMove
      <3> QED
        BY <1>1, <1>3, <2>2, <3>1 DEF Accept
    <2>3. ASSUME Silent PROVE Empty' /\ sample' = None
      <3>1. owe = None /\ Empty /\ sample = None
        BY <2>3 DEF Silent
      <3> QED
        BY <1>1, <1>5, <2>1, <3>1, RxMove
    <2>4. CASE state \in {"READ_FLUSH", "READ_REG_ADR"}
      <3>1. Asks(Commands) = {} /\ Silent
        BY <2>1, <2>4 DEF Quiet
      <3>2. Asks(Commands') = {} /\ Silent'
        BY <2>2, <2>3, <3>1 DEF Silent
      <3> QED
        BY <1>1, <2>4, <3>2 DEF Quiet
    <2>5. CASE state = "READ_REG_DAT"
      <3> DEFINE v == want[adr]
      <3>1. Asked \/ Answered(v)
        BY <2>1, <2>5 DEF Quiet
      <3>2. v \in Val /\ v # None
        BY ValueAssumption DEF TypeOK
      <3>3. ASSUME Asked PROVE Asked' \/ Answered(v)'
        <4>1. /\ Asks(Commands) = {Len(Commands)} /\ Commands[Len(Commands)].of = adr
              /\ Silent /\ owe = None
          BY <3>3 DEF Asked, Silent
        <4>2. CASE ~nxt
          <5>1. Commands' = Commands /\ owe' = None
            BY <1>1, <1>3, <4>1, <4>2
          <5> QED
            BY <1>1, <2>3, <4>1, <5>1 DEF Asked, Silent
        <4>3. CASE nxt /\ Head(Commands).kind # "read"
          <5>1. /\ Asks(Commands') = {Len(Commands')}
                /\ Commands'[Len(Commands')] = Commands[Len(Commands)]
            BY <1>2, <1>3, <4>1, <4>3, AsksMove
          <5>2. owe' = None
            BY <1>3, <4>3 DEF Accept
          <5> QED
            BY <1>1, <2>3, <4>1, <5>1, <5>2 DEF Asked, Silent
        <4>4. CASE nxt /\ Head(Commands).kind = "read"
          <5>1. Head(Commands) = Commands[Len(Commands)] /\ Len(Commands) = 1
            BY <1>2, <1>3, <4>1, <4>4, AsksMove
          <5>2. owe' = regs[adr]
            BY <1>3, <4>1, <4>4, <5>1 DEF Accept
          <5>3. Asks(Commands') = {}
            <6>1. Len(Commands') = 0
              BY <1>2, <1>3, <4>4, <5>1, HeadTailProperties
            <6> QED
              BY <6>1 DEF Asks
          <5>4. regs[adr] = v
            <6>1. adr \in Adr /\ ~Unsent(adr)
              BY <2>5 DEF Unsent, Control, TypeOK
            <6>2. Arrives(Commands, target, adr, regs[adr], v)
              BY <6>1 DEF Landing
            <6>3. Head(Commands) = Commands[1]
              BY <5>1
            <6>4. Writes(Commands, target, adr) = {}
              BY <4>4, <5>1, <6>3 DEF Writes
            <6> QED
              BY <6>2, <6>4 DEF Arrives
          <5> QED
            BY <1>1, <2>3, <4>1, <5>2, <5>3, <5>4 DEF Answered
        <4> QED
          BY <4>2, <4>3, <4>4
      <3>4. ASSUME Answered(v) PROVE Answered(v)'
        <4>1. Asks(Commands') = {} /\ (owe = None => owe' = None)
          BY <2>2, <3>4 DEF Answered
        <4>2. CASE Empty /\ owe = v /\ sample = None
          <5>1. Empty' /\ ~nxt
            BY <1>1, <3>2, <4>2, RxMove
          <5>2. \/ owe' = v /\ sample' = None
                \/ owe' = None /\ sample' = v
            BY <1>1, <1>5, <3>2, <4>2, <5>1
          <5> QED
            BY <1>1, <4>1, <5>1, <5>2 DEF Answered
        <4>3. CASE Empty /\ owe = None /\ sample = v
          <5>1. rxFifo' = <<v>> /\ fifoSource' = << >>
            BY <1>1, <3>2, <4>3, RxMove
          <5>2. sample' = None /\ owe' = None
            BY <1>5, <2>1, <4>1, <4>3
          <5> QED
            BY <1>1, <4>1, <5>1, <5>2 DEF Answered
        <4>4. CASE owe = None /\ sample = None /\ rxFifo = <<v>> /\ fifoSource = << >>
          <5>1. rxFifo' = << >> /\ fifoSource' = <<v>>
            BY <1>1, <4>4, RxMove
          <5>2. sample' = None /\ owe' = None
            BY <1>5, <2>1, <4>1, <4>4
          <5> QED
            BY <1>1, <4>1, <5>1, <5>2 DEF Answered
        <4>5. CASE owe = None /\ sample = None /\ rxFifo = << >> /\ fifoSource = <<v>>
          <5>1. rxFifo' = << >> /\ fifoSource' = <<v>>
            BY <1>1, <4>5, RxMove
          <5>2. sample' = None /\ owe' = None
            BY <1>5, <2>1, <4>1, <4>5
          <5> QED
            BY <1>1, <4>1, <5>1, <5>2 DEF Answered
        <4> QED
          BY <3>4, <4>2, <4>3, <4>4, <4>5 DEF Answered
      <3> QED
        BY <1>1, <2>5, <3>1, <3>3, <3>4 DEF Quiet
    <2> QED
      BY <1>8, <2>4, <2>5
  <1> QED
    BY <1>6, <1>7, <1>8

(* Every step keeps the invariant. *)
LEMMA NextIInv == IInv /\ [Next]_vars => IInv'
  <1> SUFFICES ASSUME IInv, [Next]_vars PROVE IInv'
    OBVIOUS
  <1>1. TypeOK /\ Control /\ Paired /\ Landing /\ Quiet
    BY DEF IInv
  <1>2. CASE Next
    <2>1. TypeOK' /\ Control'
      BY <1>1, <1>2, TypeNext, ControlNext
    <2>2. CASE Host \/ Sys
      BY <1>1, <2>1, <2>2, WritesSys, QuietSys DEF IInv
    <2>3. CASE UlpiClock
      <3>1. PICK dir, nxt, seen \in BOOLEAN : UlpiCycle(dir, nxt, seen)
        BY <2>3 DEF UlpiClock
      <3>2. Paired' /\ Landing'
        BY <1>1, <3>1, WritesUlpi
      <3>3. Quiet'
        BY <1>1, <3>1, QuietUlpi
      <3> QED
        BY <2>1, <3>2, <3>3 DEF IInv
    <2> QED
      BY <1>2, <2>2, <2>3 DEF Next
  <1>3. CASE UNCHANGED vars
    <2>1. UNCHANGED <<state, flushcnt, datR, adr, datW, pc, want, regs, target, owe,
                      rxFifo, odir, sample, fifoSink, txFifo, fifoSource, noise>>
      BY <1>3 DEF vars, coreVars, csrVars, hostVars, chipVars, rxVars
    <2>2. Commands' = Commands
      BY <2>1 DEF Commands
    <2>3. TypeOK'
      BY <1>1, <2>1, SMT DEF TypeOK
    <2>4. Control'
      BY <1>1, <2>1, Zenon DEF Control
    <2>5. Paired'
      BY <1>1, <2>1, <2>2, Zenon DEF Paired
    <2>6. Landing'
      BY <1>1, <2>1, <2>2, Zenon DEF Landing, Unsent
    <2>7. Quiet'
      <3>1. (Asked' <=> Asked) /\ (Silent' <=> Silent)
            /\ \A v : Answered(v)' <=> Answered(v)
        BY <2>1, <2>2, Zenon DEF Asked, Silent, Answered, Empty
      <3> QED
        BY <1>1, <2>1, <2>2, <3>1 DEF Quiet
    <2> QED
      BY <2>3, <2>4, <2>5, <2>6, <2>7 DEF IInv
  <1> QED
    BY <1>2, <1>3

(* The invariant the theorems below rest on. *)
THEOREM Invariance == Spec => []IInv
  BY InitIInv, NextIInv, PTL DEF Spec

(* ulpi.py, ULPIPHY and ULPICore: the FIFOs never hold more than fits.      *)
THEOREM TypeCorrect == Spec => []TypeOK
  <1>1. IInv => TypeOK
    BY DEF IInv
  <1> QED
    BY <1>1, Invariance, PTL

(* ulpi.py, WRITE_REG_ADR and WRITE_REG_DAT: for every sequence of accesses *)
(* and every traffic of the bus, a register holds what was written last     *)
(* once the commands are carried out.                                      *)
THEOREM WritesArrive == Spec => []WritesLand
  <1>1. IInv => WritesLand
    <2> SUFFICES ASSUME IInv, Returned, Commands = << >> PROVE regs = want
      BY DEF WritesLand
    <2>1. TypeOK /\ Control /\ Landing
      BY DEF IInv
    <2>2. state = "IDLE" /\ pc # "write"
      BY <2>1 DEF Returned, Control, TypeOK
    <2>3. ASSUME NEW a \in Adr PROVE regs[a] = want[a]
      <3>1. Arrives(Commands, target, a, regs[a], want[a])
        BY <2>1, <2>2 DEF Landing, Unsent
      <3>2. Writes(Commands, target, a) = {}
        BY DEF Writes
      <3> QED
        BY <3>1, <3>2 DEF Arrives
    <2>4. regs \in [Adr -> Val] /\ want \in [Adr -> Val]
      BY <2>1 DEF TypeOK
    <2> QED
      BY <2>3, <2>4
  <1> QED
    BY <1>1, Invariance, PTL

(* ulpi.py, READ_FLUSH to READ_REG_DAT: on a silent bus a read returns what *)
(* was written last, also through writes that are still on their way.      *)
THEOREM ReadsAnswer == Spec => []QuietRead
  <1>1. IInv => QuietRead
    <2> SUFFICES ASSUME IInv, pc = "got", ~noise PROVE datR = want[adr]
      BY DEF QuietRead
    <2>1. state = "IDLE"
      BY DEF IInv, Control, TypeOK
    <2> QED
      BY <2>1 DEF IInv, Quiet
  <1> QED
    BY <1>1, Invariance, PTL

=============================================================================
