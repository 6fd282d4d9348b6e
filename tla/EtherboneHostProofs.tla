-------------------------- MODULE EtherboneHostProofs -------------------------
(***************************************************************************)
(* Register accesses over Etherbone, for every set of registers and        *)
(* values, records of every length, and every depth of the FIFOs and of    *)
(* the roads: the answer of a read is what was last written, it has the    *)
(* length that was announced, and none is left when the program goes on.   *)
(***************************************************************************)
EXTENDS EtherboneHost, SequenceTheorems, TLAPS

(* A word on its way through the stages: the k-th of a record of w writes   *)
(* from base on or of r reads, its header for k = -1, its base address for  *)
(* k = 0, or the data of its k-th access.                                  *)
Size(u) == u.w + u.r
Place(u) == u.base + u.k - 1
Unit ==
  {u \in [w : Nat, r : Nat, base : Nat, k : Int, data : Nat \union Value] :
     /\ u.k \in -1 .. Size(u)
     /\ ((u.w = 0 /\ u.r > 0) \/ (u.w > 0 /\ u.r = 0))
     /\ u.k = 0 => u.data = u.base
     /\ u.w > 0 /\ u.k > 0 => Place(u) \in Addr /\ u.data \in Value
     /\ u.r > 0 /\ u.k > 0 => u.data \in Addr}

(* v comes behind u: the next word of its record, or the first of another,  *)
(* whose header may have been taken off.                                   *)
Follows(u, v) ==
  IF u.k < Size(u) THEN v.w = u.w /\ v.r = u.r /\ v.base = u.base /\ v.k = u.k + 1
                   ELSE v.k \in {-1, 0}

(* How a word looks in the receiver's FIFO and on the road from the host.   *)
InFifo(u) == [data |-> u.data, wcount |-> u.w, rcount |-> u.r]
InDown(u) == IF u.k = -1 THEN [wcount |-> u.w, rcount |-> u.r]
             ELSE [data |-> u.data, last |-> u.k = Size(u)]
Queued == {InFifo(u) : u \in Unit}
OnRoad == {InDown(u) : u \in Unit}

(* The types of the variables, more closely than TypeOK has them.           *)
Packet == [stream : {"wishbone", "ulpi0"}, length : Nat, words : Seq(Value)]
Types ==
  /\ fifo \in Seq(Queued) /\ Len(fifo) <= Depth
  /\ down \in Seq(OnRoad) /\ Len(down) <= MaxDown
  /\ rx \in [state : {"IDLE", "PRESENT"}, wcount : Nat, rcount : Nat]
  /\ rcv \in [state : {"IDLE", "RECEIVE_WRITES", "RECEIVE_READS"}, base : Nat, counter : Nat]
  /\ master \in [state : {"IDLE", "WRITE_DATA", "READ_DATA", "SEND_DATA"}, data : Value]
  /\ pbuffer \in Seq([data : Value, count : Nat, last : BOOLEAN]) /\ Len(pbuffer) <= Depth
  /\ snd \in {"IDLE", "SEND_BASE_ADDRESS", "SEND_DATA"}
  /\ tx \in [state : {"IDLE", "SEND"}, length : Nat, words : Seq(Value)]
  /\ up \in Seq(Packet) /\ Len(up) <= MaxUp
  /\ mem \in [Addr -> Value] /\ regs \in [Addr -> Value]
  /\ doing \in {"idle", "read", "listen", "over"}
  /\ asked \in [addr : Nat, count : Nat] /\ Span(asked.addr, asked.count) \subseteq Addr
  /\ got \in Seq(Value)

(* q is what the words in the FIFO and on the road are.                     *)
Holds(q) ==
  /\ q \in Seq(Unit) /\ Len(q) = Len(fifo) + Len(down)
  /\ \A i \in 1 .. Len(fifo) : q[i].k >= 0 /\ fifo[i] = InFifo(q[i])
  /\ \A i \in 1 .. Len(down) : down[i] = InDown(q[Len(fifo) + i])

(* Its records are whole, but for what was taken from the first.            *)
Chain(q) ==
  /\ \A i \in 1 .. Len(q) - 1 : Follows(q[i], q[i + 1])
  /\ q # << >> => q[Len(q)].k = Size(q[Len(q)])

(* A record on the road still has its header.                               *)
Headed(q) == \A i \in Len(fifo) + 1 .. Len(q) - 1 : q[i].k = Size(q[i]) => q[i + 1].k = -1

(* The packet receiver is where the first word on the road says it is.      *)
Enters(q) ==
  LET u == q[Len(fifo) + 1]
  IN  IF rx.state = "IDLE" THEN down # << >> => u.k = -1
      ELSE down # << >> /\ u.k >= 0 /\ rx.wcount = u.w /\ rx.rcount = u.r

(* So are the record receiver and the master, with the first word of all.   *)
Serves(q) ==
  /\ rcv.state = "IDLE" => (q # << >> => q[1].k \in {-1, 0}) /\ master.state = "IDLE"
  /\ rcv.state # "IDLE" => q # << >> /\ q[1].k = rcv.counter + 1
  /\ rcv.state = "RECEIVE_WRITES" =>
       q[1].w > 0 /\ q[1].base = rcv.base /\ master.state \in {"IDLE", "WRITE_DATA"}
  /\ rcv.state = "RECEIVE_READS" =>
       q[1].r > 0 /\ master.state \in {"IDLE", "READ_DATA", "SEND_DATA"}

(* The places in q of data for register a. *)
Writes(q, a) == {i \in 1 .. Len(q) : q[i].w > 0 /\ q[i].k > 0 /\ Place(q[i]) = a}

(* A register that holds r will hold v when the words are carried out.      *)
Arrives(q, a, r, v) ==
  /\ Writes(q, a) = {} => r = v
  /\ \A i \in Writes(q, a) : (\A j \in Writes(q, a) : j <= i) => q[i].data = v
Landing(q) == \A a \in Addr : Arrives(q, a, mem[a], regs[a])

(* The read the program waits for is the last of the records.               *)
Waits == doing \in {"read", "over"}
Unread(q) == q # << >> /\ q[Len(q)].r > 0
Asks(q) ==
  /\ Unread(q) => Waits
  /\ \A i, j \in 1 .. Len(q) : i <= j /\ q[i].r > 0 => q[j].r > 0
  /\ \A i \in 1 .. Len(q) : q[i].r > 0 =>
       /\ q[i].r = asked.count
       /\ q[i].k > 0 => q[i].data = asked.addr + q[i].k - 1
       /\ q[i].k = Size(q[i]) => i = Len(q)

(* The i-th word of its answer.                                            *)
Reg(i) == regs[asked.addr + i - 1]

(* The answer has been sent: it is one packet on its way to the program.    *)
Answers(p) == /\ p.length = 16 + 4 * asked.count /\ Len(p.words) = asked.count
              /\ \A i \in 1 .. asked.count : p.words[i] = Reg(i)
Delivered == \E i \in 1 .. Len(up) : up[i].stream = "wishbone"
Delivery == \A i \in 1 .. Len(up) : up[i].stream = "wishbone" =>
              /\ Answers(up[i])
              /\ \A j \in 1 .. Len(up) : up[j].stream = "wishbone" => j = i

(* The sender has nothing, or it has the words that were read so far.       *)
Resting == pbuffer = << >> /\ snd = "IDLE" /\ tx.state = "IDLE" /\ tx.words = << >>
Gathered ==
  /\ \A i \in 1 .. Len(tx.words) : tx.words[i] = Reg(i)
  /\ \A i \in 1 .. Len(pbuffer) :
       pbuffer[i] = [data |-> Reg(Len(tx.words) + i), count |-> asked.count,
                     last |-> Len(tx.words) + i = asked.count]
Sends ==
  /\ snd = "IDLE" => tx.state = "IDLE" /\ tx.words = << >>
  /\ snd = "SEND_BASE_ADDRESS" => pbuffer # << >> /\ tx.words = << >>
  /\ snd = "SEND_DATA" => tx.state = "SEND" /\ Len(tx.words) < asked.count
  /\ tx.state = "SEND" => tx.length = 16 + 4 * asked.count /\ Len(up) < MaxUp

(* How many words have been read. *)
Done(q) == IF ~Unread(q) THEN asked.count
           ELSE IF rcv.state = "RECEIVE_READS" THEN rcv.counter ELSE 0
Reply(q) ==
  /\ ~Waits \/ Delivered => Resting /\ ~Unread(q)
  /\ ~Waits => ~Delivered
  /\ Delivery
  /\ Waits /\ ~Delivered =>
       Gathered /\ Sends /\ Len(tx.words) + Len(pbuffer) = Done(q)
  /\ master.state = "SEND_DATA" => master.data = Reg(rcv.counter + 1)

Flow(q) == /\ Holds(q) /\ Chain(q) /\ Enters(q) /\ Headed(q)
           /\ Serves(q) /\ Landing(q) /\ Asks(q) /\ Reply(q)

IInv == Types /\ ReadMatches /\ \E q \in Seq(Unit) : Flow(q)

-----------------------------------------------------------------------------
(* The fields of a word on its way. *)
LEMMA UnitFields ==
  ASSUME NEW u \in Unit
  PROVE  /\ u.w \in Nat /\ u.r \in Nat /\ u.base \in Nat /\ u.k \in Int
         /\ u.k \in -1 .. Size(u) /\ Size(u) \in Nat \ {0} /\ Size(u) = u.w + u.r
         /\ u.w > 0 => u.r = 0 /\ Size(u) = u.w
         /\ u.r > 0 => u.w = 0 /\ Size(u) = u.r
         /\ u.w > 0 \/ u.r > 0
         /\ u.k = 0 => u.data = u.base
         /\ u.w > 0 /\ u.k > 0 => Place(u) \in Addr /\ u.data \in Value
         /\ u.r > 0 /\ u.k > 0 => u.data \in Addr
  BY DEF Unit, Size

(* q without its j-th word. *)
Drop(q, j) == [i \in 1 .. Len(q) - 1 |-> q[IF i < j THEN i ELSE i + 1]]

(* The words in front of it stay where they are, the others move up. *)
LEMMA DropShape ==
  ASSUME NEW q \in Seq(Unit), NEW j \in 1 .. Len(q)
  PROVE  /\ Drop(q, j) \in Seq(Unit) /\ Len(q) \in Nat /\ Len(Drop(q, j)) = Len(q) - 1
         /\ \A i \in 1 .. Len(q) - 1 :
              /\ i < j => Drop(q, j)[i] = q[i]
              /\ ~(i < j) => Drop(q, j)[i] = q[i + 1]
  <1> DEFINE n == Len(q)
  <1>1. n \in Nat /\ n - 1 \in Nat
    <2>1. n \in Nat /\ j \in 1 .. n
      BY LenProperties
    <2> HIDE DEF n
    <2> QED
      BY <2>1
  <1>2. \A i \in 1 .. n : q[i] \in Unit
    BY ElementOfSeq
  <1>3. Drop(q, j) = [i \in 1 .. n - 1 |-> q[IF i < j THEN i ELSE i + 1]]
    BY DEF Drop
  <1> HIDE DEF n
  <1>4. \A i \in 1 .. n - 1 : (IF i < j THEN i ELSE i + 1) \in 1 .. n
    BY <1>1
  <1>5. Drop(q, j) \in [1 .. n - 1 -> Unit]
    BY <1>2, <1>3, <1>4
  <1>6. Drop(q, j) \in Seq(Unit) /\ Len(Drop(q, j)) = n - 1
    BY <1>1, <1>5
  <1> QED
    BY <1>1, <1>3, <1>6 DEF n

(* The first word, or a header, can be dropped: the records stay whole.     *)
LEMMA DropChain ==
  ASSUME NEW q \in Seq(Unit), NEW j \in 1 .. Len(q), Chain(q), j = 1 \/ q[j].k = -1
  PROVE  Chain(Drop(q, j))
  <1> DEFINE p == Drop(q, j)
             n == Len(q)
  <1>1. /\ n \in Nat /\ Len(p) = n - 1 /\ j \in 1 .. n
        /\ \A i \in 1 .. n - 1 : (i < j => p[i] = q[i]) /\ (~(i < j) => p[i] = q[i + 1])
    BY DropShape
  <1>2. /\ \A i \in 1 .. n - 1 : Follows(q[i], q[i + 1])
        /\ n > 0 => q[n].k = Size(q[n])
    <2>1. n > 0 => q # << >>
      BY EmptySeq
    <2> QED
      BY <2>1 DEF Chain
  <1>3. \A i \in 1 .. n : q[i] \in Unit
    BY ElementOfSeq
  <1> HIDE DEF p, n
  <1>4. ASSUME NEW i \in 1 .. (n - 1) - 1 PROVE Follows(p[i], p[i + 1])
    <2>0. i \in 1 .. n - 1 /\ i + 1 \in 1 .. n - 1 /\ (i + 1) + 1 = i + 2 /\ i + 2 \in 1 .. n
      BY <1>1
    <2>1. CASE i + 1 < j
      <3>1. p[i] = q[i] /\ p[i + 1] = q[i + 1]
        BY <1>1, <2>0, <2>1
      <3> QED
        BY <1>2, <2>0, <3>1
    <2>2. CASE ~(i < j)
      <3>1. p[i] = q[i + 1] /\ p[i + 1] = q[i + 2]
        BY <1>1, <2>0, <2>2
      <3> QED
        BY <1>2, <2>0, <3>1
    <2>3. CASE i + 1 = j
      <3>1. p[i] = q[i] /\ p[i + 1] = q[i + 2]
        BY <1>1, <2>0, <2>3
      <3>2. q[i + 1].k = -1
        BY <2>0, <2>3
      <3>3. Follows(q[i], q[i + 1]) /\ Follows(q[i + 1], q[i + 2])
        BY <1>2, <2>0
      <3>4. i \in 1 .. n /\ i + 1 \in 1 .. n
        BY <1>1, <2>0
      <3>5. q[i] \in Unit /\ q[i + 1] \in Unit /\ q[i + 2] \in Unit
        BY <1>3, <2>0, <3>4
      <3>6. q[i].k = Size(q[i])
        <4>1. q[i].k < Size(q[i]) => q[i + 1].k = q[i].k + 1
          BY <3>3 DEF Follows
        <4>2. q[i].k \in -1 .. Size(q[i]) /\ Size(q[i]) \in Nat
          BY <3>5, UnitFields
        <4> QED
          BY <3>2, <4>1, <4>2
      <3>7. q[i + 2].k = 0
        BY <3>2, <3>3, <3>5, UnitFields DEF Follows
      <3> QED
        BY <3>1, <3>5, <3>6, <3>7, UnitFields DEF Follows
    <2> QED
      BY <1>1, <2>0, <2>1, <2>2, <2>3
  <1>5. ASSUME p # << >> PROVE p[Len(p)].k = Size(p[Len(p)])
    <2>1. Len(p) \in Nat \ {0}
      BY <1>5, DropShape, EmptySeq DEF p
    <2>2. n > 1 /\ n - 1 \in 1 .. n - 1 /\ (n - 1) + 1 = n /\ n \in 1 .. n
      BY <1>1, <2>1
    <2>3. j < n
      <3> SUFFICES ASSUME j = n PROVE FALSE
        BY <1>1
      <3>1. q[n].k = -1 /\ q[n] \in Unit /\ q[n].k = Size(q[n])
        BY <1>2, <1>3, <2>2
      <3> QED
        BY <3>1, UnitFields
    <2>4. p[n - 1] = q[n]
      BY <1>1, <2>2, <2>3
    <2> QED
      BY <1>1, <1>2, <2>2, <2>4
  <1> QED
    BY <1>1, <1>4, <1>5 DEF Chain, p

(* The registers get what they were to get, when a word that writes none of *)
(* them is dropped, or the first, which has been carried out.              *)
LEMMA DropArrives ==
  ASSUME NEW q \in Seq(Unit), NEW j \in 1 .. Len(q), NEW a, NEW r, NEW v,
         Arrives(q, a, r, v)
  PROVE  /\ j \notin Writes(q, a) => Arrives(Drop(q, j), a, r, v)
         /\ j = 1 /\ 1 \in Writes(q, a) => Arrives(Drop(q, j), a, q[1].data, v)
  <1> DEFINE p == Drop(q, j)
             n == Len(q)
             W == Writes(q, a)
             V == Writes(p, a)
             At(i) == IF i < j THEN i ELSE i + 1
  <1>1. /\ n \in Nat /\ Len(p) = n - 1 /\ j \in 1 .. n
        /\ \A i \in 1 .. n - 1 : (i < j => p[i] = q[i]) /\ (~(i < j) => p[i] = q[i + 1])
    BY DropShape
  <1>2. \A i \in W : i \in 1 .. n
    BY DEF Writes
  <1> HIDE DEF p, n
  <1>3. \A i \in V : i \in 1 .. n - 1 /\ At(i) \in W /\ p[i] = q[At(i)]
    <2> SUFFICES ASSUME NEW i \in V
                 PROVE  i \in 1 .. n - 1 /\ At(i) \in W /\ p[i] = q[At(i)]
      OBVIOUS
    <2>1. i \in 1 .. n - 1 /\ p[i].w > 0 /\ p[i].k > 0 /\ Place(p[i]) = a
      BY <1>1 DEF Writes
    <2>2. p[i] = q[At(i)] /\ At(i) \in 1 .. n
      BY <1>1, <2>1
    <2> QED
      BY <2>1, <2>2 DEF Writes, n
  <1>4. ASSUME NEW i \in W, i # j
        PROVE  \E x \in V : At(x) = i
    <2>1. i \in 1 .. n /\ q[i].w > 0 /\ q[i].k > 0 /\ Place(q[i]) = a
      BY <1>2 DEF Writes
    <2>2. PICK x \in 1 .. n - 1 : At(x) = i
      <3>1. CASE i < j
        <4>1. i \in 1 .. n - 1 /\ At(i) = i
          BY <1>1, <2>1, <3>1
        <4> QED
          BY <4>1
      <3>2. CASE i > j
        <4>1. i - 1 \in 1 .. n - 1 /\ ~(i - 1 < j) /\ (i - 1) + 1 = i
          BY <1>1, <2>1, <3>2
        <4> QED
          BY <4>1
      <3> QED
        BY <1>1, <1>4, <2>1, <3>1, <3>2
    <2>3. p[x] = q[i]
      BY <1>1, <2>2
    <2> QED
      BY <1>1, <2>1, <2>2, <2>3 DEF Writes
  <1>5. /\ W = {} => r = v
        /\ \A i \in W : (\A x \in W : x <= i) => q[i].data = v
    BY DEF Arrives
  <1>6. \A x, y \in 1 .. n - 1 : x <= y <=> At(x) <= At(y)
    BY <1>1
  <1>7. ASSUME NEW i \in V, \A x \in V : x <= i, j \notin W \/ j = 1
        PROVE  p[i].data = v
    <2>1. i \in 1 .. n - 1 /\ At(i) \in W /\ p[i] = q[At(i)]
      BY <1>3
    <2>2. ASSUME NEW x \in W PROVE x <= At(i)
      <3>1. CASE x # j
        <4>1. PICK y \in V : At(y) = x
          BY <1>4, <3>1
        <4>2. y <= i /\ y \in 1 .. n - 1
          BY <1>3, <1>7, <4>1
        <4> QED
          BY <1>6, <2>1, <4>1, <4>2
      <3>2. CASE x = j
        <4>1. x = 1 /\ At(i) \in Nat /\ At(i) >= 1
          BY <1>7, <2>1, <3>2
        <4> QED
          BY <4>1
      <3> QED
        BY <3>1, <3>2
    <2> HIDE DEF W, V, At
    <2> QED
      BY <1>5, <2>1, <2>2
  <1>8. ASSUME j \notin W PROVE Arrives(p, a, r, v)
    <2>1. V = {} => r = v
      <3> SUFFICES ASSUME V = {} PROVE W = {}
        BY <1>5
      <3>1. \A i \in W : i # j
        BY <1>8
      <3> HIDE DEF W, V
      <3> QED
        BY <1>4, <3>1
    <2> QED
      BY <1>7, <1>8, <2>1 DEF Arrives
  <1>9. ASSUME j = 1, 1 \in W PROVE Arrives(p, a, q[1].data, v)
    <2>1. ASSUME V = {} PROVE q[1].data = v
      <3>1. \A i \in W : i = 1
        BY <1>4, <1>9, <2>1
      <3> QED
        BY <1>5, <1>9, <3>1
    <2> QED
      BY <1>7, <1>9, <2>1 DEF Arrives
  <1> QED
    BY <1>8, <1>9 DEF p

(* Whether a read is among the words, and which, when one is dropped.       *)
LEMMA DropAsks ==
  ASSUME NEW q \in Seq(Unit), NEW j \in 1 .. Len(q), Chain(q), j = 1 \/ q[j].k = -1,
         Asks(q), UNCHANGED <<doing, asked>>
  PROVE  /\ Asks(Drop(q, j))'
         /\ Unread(Drop(q, j)) => Unread(q)
         /\ Len(q) > 1 => (Unread(Drop(q, j)) <=> Unread(q))
         /\ Len(q) = 1 => Drop(q, j) = << >>
  <1> DEFINE p == Drop(q, j)
             n == Len(q)
             At(i) == IF i < j THEN i ELSE i + 1
  <1>1. /\ n \in Nat /\ Len(p) = n - 1 /\ j \in 1 .. n /\ p \in Seq(Unit)
        /\ \A i \in 1 .. n - 1 : (i < j => p[i] = q[i]) /\ (~(i < j) => p[i] = q[i + 1])
    BY DropShape
  <1>2. /\ n > 0 => q # << >> /\ q[n].k = Size(q[n]) /\ q[n] \in Unit
        /\ p # << >> <=> Len(p) > 0
    <2>1. n > 0 => q # << >>
      BY EmptySeq
    <2>2. n > 0 => q[n] \in Unit
      BY <1>1, ElementOfSeq
    <2>3. p # << >> <=> Len(p) > 0
      BY <1>1, EmptySeq
    <2> QED
      BY <2>1, <2>2, <2>3 DEF Chain
  <1>3. /\ Unread(q) => Waits
        /\ \A i, x \in 1 .. n : i <= x /\ q[i].r > 0 => q[x].r > 0
        /\ \A i \in 1 .. n : q[i].r > 0 =>
             /\ q[i].r = asked.count
             /\ q[i].k > 0 => q[i].data = asked.addr + q[i].k - 1
             /\ q[i].k = Size(q[i]) => i = n
    BY DEF Asks
  <1>4. Unread(q) <=> n > 0 /\ q[n].r > 0
    BY <1>2, EmptySeq DEF Unread
  <1>5. Unread(p) <=> n - 1 > 0 /\ p[n - 1].r > 0
    BY <1>1, <1>2 DEF Unread
  <1> HIDE DEF p, n
  <1>6. n > 1 => j < n /\ p[n - 1] = q[n]
    <2>0. SUFFICES ASSUME n > 1 PROVE j < n /\ p[n - 1] = q[n]
      OBVIOUS
    <2>1. j # n
      <3> SUFFICES ASSUME j = n PROVE FALSE
        OBVIOUS
      <3>1. q[n].k = -1 /\ q[n] \in Unit /\ q[n].k = Size(q[n])
        BY <1>1, <1>2, <2>0
      <3> QED
        BY <3>1, UnitFields
    <2>2. n - 1 \in 1 .. n - 1 /\ ~(n - 1 < j) /\ (n - 1) + 1 = n /\ j < n
      <3>1. n \in Nat /\ n > 1 /\ j \in Nat /\ j <= n /\ j # n
        BY <1>1, <2>0, <2>1
      <3>2. j < n /\ ~(n - 1 < j) /\ (n - 1) + 1 = n
        BY <3>1
      <3>3. n - 1 \in 1 .. n - 1
        BY <3>1
      <3> QED
        BY <3>2, <3>3
    <2> QED
      BY <1>1, <2>1, <2>2
  <1>7. n > 1 => (Unread(p) <=> Unread(q))
    BY <1>1, <1>4, <1>5, <1>6
  <1>8. Unread(p) => Unread(q)
    BY <1>1, <1>5, <1>7
  <1>9. \A i \in 1 .. n - 1 : p[i] = q[At(i)] /\ At(i) \in 1 .. n /\ (At(i) = n => i = n - 1)
    <2> SUFFICES ASSUME NEW i \in 1 .. n - 1
                 PROVE  p[i] = q[At(i)] /\ At(i) \in 1 .. n /\ (At(i) = n => i = n - 1)
      OBVIOUS
    <2>1. CASE i < j
      <3>1. j < n
        BY <1>1, <1>6
      <3> QED
        BY <1>1, <2>1, <3>1
    <2>2. CASE ~(i < j)
      BY <1>1, <2>2
    <2> QED
      BY <2>1, <2>2
  <1>10. \A i, x \in 1 .. n - 1 : i <= x => At(i) <= At(x)
    BY <1>1
  <1> HIDE DEF At
  <1>11. \A i, x \in 1 .. n - 1 : i <= x /\ p[i].r > 0 => p[x].r > 0
    BY <1>3, <1>9, <1>10
  <1>12. \A i \in 1 .. n - 1 : p[i].r > 0 =>
             /\ p[i].r = asked.count
             /\ p[i].k > 0 => p[i].data = asked.addr + p[i].k - 1
             /\ p[i].k = Size(p[i]) => i = n - 1
    BY <1>3, <1>9
  <1>13. Asks(p)'
    <2>1. Waits' = Waits /\ asked' = asked
      BY DEF Waits
    <2> QED
      BY <1>1, <1>3, <1>8, <1>11, <1>12, <2>1 DEF Asks, Unread
  <1>14. n = 1 => p = << >>
    BY <1>1, <1>2
  <1> QED
    BY <1>7, <1>8, <1>13, <1>14 DEF p, n

(* The first word has been taken out of the receiver's FIFO. *)
LEMMA Consumed ==
  ASSUME Types, NEW q \in Seq(Unit), Holds(q), Chain(q), Enters(q), Headed(q),
         fifo # << >>,
         fifo' = Tail(fifo), UNCHANGED <<down, rx>>
  PROVE  /\ Len(q) \in Nat \ {0} /\ 1 \in 1 .. Len(q) /\ q[1] \in Unit /\ q[1].k >= 0
         /\ Head(fifo) = InFifo(q[1])
         /\ Len(Drop(q, 1)) = Len(q) - 1 /\ Drop(q, 1) \in Seq(Unit)
         /\ \A i \in 1 .. Len(q) - 1 : Drop(q, 1)[i] = q[i + 1]
         /\ Holds(Drop(q, 1))' /\ Chain(Drop(q, 1)) /\ Enters(Drop(q, 1))'
         /\ Headed(Drop(q, 1))'
  <1> DEFINE p == Drop(q, 1)
             n == Len(q)
             f == Len(fifo)
             d == Len(down)
  <1>1. /\ f \in Nat \ {0} /\ d \in Nat /\ Len(fifo') = f - 1
        /\ Head(fifo) = fifo[1] /\ \A i \in 1 .. f - 1 : fifo'[i] = fifo[i + 1]
    BY HeadTailProperties, LenProperties, EmptySeq DEF Types
  <1>2. /\ n = f + d /\ \A i \in 1 .. f : q[i].k >= 0 /\ fifo[i] = InFifo(q[i])
        /\ \A i \in 1 .. d : down[i] = InDown(q[f + i])
    BY DEF Holds
  <1>3. n \in Nat \ {0} /\ 1 \in 1 .. n /\ 1 \in 1 .. f
    <2> HIDE DEF n, f, d
    <2> QED
      BY <1>1, <1>2
  <1>4. /\ p \in Seq(Unit) /\ Len(p) = n - 1 /\ \A i \in 1 .. n - 1 : p[i] = q[i + 1]
    <2>1. /\ p \in Seq(Unit) /\ Len(p) = n - 1
          /\ \A i \in 1 .. n - 1 : ~(i < 1) => p[i] = q[i + 1]
      BY <1>3, DropShape
    <2>2. \A i \in 1 .. n - 1 : ~(i < 1)
      OBVIOUS
    <2> HIDE DEF p, n
    <2> QED
      BY <2>1, <2>2
  <1>5. Chain(p) /\ q[1] \in Unit
    BY <1>3, DropChain, ElementOfSeq
  <1> HIDE DEF p, n, f, d
  <1>6. ASSUME NEW i \in 1 .. f - 1 PROVE p[i].k >= 0 /\ fifo'[i] = InFifo(p[i])
    <2>1. i \in 1 .. n - 1 /\ i + 1 \in 1 .. f
      BY <1>1, <1>2
    <2> QED
      BY <1>1, <1>2, <1>4, <2>1
  <1>7. ASSUME NEW i \in 1 .. d PROVE p[(f - 1) + i] = q[f + i]
    <2>1. (f - 1) + i \in 1 .. n - 1 /\ ((f - 1) + i) + 1 = f + i
      BY <1>1, <1>2
    <2> QED
      BY <1>4, <2>1
  <1>8. Holds(p)'
    <2>1. Len(p) = (f - 1) + d
      BY <1>1, <1>2, <1>4
    <2>2. Len(fifo') = f - 1 /\ down' = down /\ Len(down') = d
      BY <1>1 DEF d
    <2>3. ASSUME NEW i \in 1 .. d PROVE down[i] = InDown(p[(f - 1) + i])
      BY <1>2, <1>7
    <2> QED
      BY <1>4, <1>6, <2>1, <2>2, <2>3 DEF Holds
  <1>9. Enters(p)'
    <2>1. down # << >> => p[(f - 1) + 1] = q[f + 1]
      <3>1. down # << >> => 1 \in 1 .. d
        <4>1. down # << >> => d \in Nat \ {0}
          BY EmptySeq DEF Types, d
        <4> QED
          BY <4>1
      <3> QED
        BY <1>7, <3>1
    <2> QED
      BY <1>1, <2>1 DEF Enters, f
  <1>10. q[1].k >= 0 /\ Head(fifo) = InFifo(q[1])
    BY <1>1, <1>2, <1>3
  <1>11. Headed(p)'
    <2> SUFFICES ASSUME NEW i \in (f - 1) + 1 .. (n - 1) - 1, p[i].k = Size(p[i])
                 PROVE  p[i + 1].k = -1
      BY <1>1, <1>4 DEF Headed
    <2>1. /\ i \in 1 .. n - 1 /\ i + 1 \in 1 .. n - 1
          /\ i + 1 \in f + 1 .. n - 1
      BY <1>1, <1>2
    <2>2. p[i] = q[i + 1] /\ p[i + 1] = q[(i + 1) + 1]
      BY <1>4, <2>1
    <2> QED
      BY <2>1, <2>2 DEF Headed, f, n
  <1> QED
    BY <1>3, <1>4, <1>5, <1>8, <1>9, <1>10, <1>11 DEF p, n


(* What comes behind the first word of all. *)
LEMMA Exposed ==
  ASSUME NEW q \in Seq(Unit), Chain(q), 1 \in 1 .. Len(q), Len(q) \in Nat
  PROVE  /\ q[1].k = Size(q[1]) => (Drop(q, 1) # << >> => Drop(q, 1)[1].k \in {-1, 0})
         /\ q[1].k < Size(q[1]) =>
              /\ Len(q) > 1 /\ Drop(q, 1) # << >> /\ Drop(q, 1)[1] = q[2]
              /\ q[2].w = q[1].w /\ q[2].r = q[1].r /\ q[2].base = q[1].base
              /\ q[2].k = q[1].k + 1
  <1> DEFINE p == Drop(q, 1)
             n == Len(q)
  <1>1. /\ p \in Seq(Unit) /\ Len(p) = n - 1
        /\ \A i \in 1 .. n - 1 : ~(i < 1) => p[i] = q[i + 1]
    BY DropShape
  <1>2. /\ \A i \in 1 .. n - 1 : Follows(q[i], q[i + 1])
        /\ q[n].k = Size(q[n]) /\ n \in Nat /\ n >= 1
    BY EmptySeq DEF Chain
  <1>3. p # << >> <=> Len(p) > 0
    BY <1>1, EmptySeq
  <1> HIDE DEF p, n
  <1>4. p # << >> <=> n > 1
    BY <1>1, <1>2, <1>3
  <1>5. n > 1 => p[1] = q[2] /\ Follows(q[1], q[2])
    BY <1>1, <1>2
  <1>6. n = 1 => q[1].k = Size(q[1])
    BY <1>2
  <1>7. q[1] \in Unit
    BY ElementOfSeq
  <1>8. q[1].k < Size(q[1]) => n > 1
    <2>1. q[1].k \in Int /\ Size(q[1]) \in Int
      BY <1>7, UnitFields
    <2> QED
      BY <1>2, <1>6, <2>1
  <1>9. q[1].k = Size(q[1]) => ~(q[1].k < Size(q[1]))
    BY <1>7, UnitFields
  <1> QED
    BY <1>4, <1>5, <1>8, <1>9 DEF Follows, p, n

(* What the receiver offers to the master is the first word of all.         *)
LEMMA Served ==
  ASSUME Types, NEW q \in Seq(Unit), Flow(q), Offered
  PROVE  /\ q[1] \in Unit /\ 1 \in 1 .. Len(q) /\ Len(q) \in Nat \ {0}
         /\ Head(fifo) = InFifo(q[1]) /\ q[1].k = rcv.counter + 1
         /\ Count = Size(q[1]) /\ (Last <=> q[1].k = Size(q[1]))
         /\ We <=> q[1].w > 0
         /\ We => rcv.base = q[1].base
         /\ ~We => rcv.state = "RECEIVE_READS" /\ q[1].r > 0
  <1>1. /\ q # << >> /\ q[1].k = rcv.counter + 1 /\ fifo # << >>
        /\ rcv.state \in {"RECEIVE_WRITES", "RECEIVE_READS"}
    BY DEF Types, Flow, Serves, Offered
  <1>2. /\ Len(q) \in Nat \ {0} /\ 1 \in 1 .. Len(q) /\ q[1] \in Unit
    <2>1. Len(q) \in Nat \ {0}
      BY <1>1, EmptySeq
    <2> QED
      BY <2>1, ElementOfSeq
  <1>3. Head(fifo) = InFifo(q[1])
    <2>1. Len(fifo) \in Nat \ {0} /\ Head(fifo) = fifo[1]
      BY <1>1, EmptySeq, HeadTailProperties DEF Types
    <2>2. 1 \in 1 .. Len(fifo)
      BY <2>1
    <2> QED
      BY <2>1, <2>2 DEF Flow, Holds
  <1>4. /\ We => q[1].w > 0 /\ rcv.base = q[1].base
        /\ ~We => rcv.state = "RECEIVE_READS" /\ q[1].r > 0
    BY <1>1 DEF We, Flow, Serves
  <1>5. Count = Size(q[1])
    BY <1>2, <1>3, <1>4, UnitFields DEF Count, InFifo
  <1>6. Last <=> q[1].k = Size(q[1])
    <2>1. rcv.counter \in Nat /\ Size(q[1]) \in Nat
      BY <1>2, UnitFields DEF Types
    <2> QED
      BY <1>1, <1>5, <2>1 DEF Last
  <1> QED
    BY <1>1, <1>2, <1>3, <1>4, <1>5, <1>6, UnitFields

(* The word that was offered has been taken: the receiver is ready for the  *)
(* word behind it.                                                         *)
LEMMA Took ==
  ASSUME Types, NEW q \in Seq(Unit), Flow(q), Offered, Taken, UNCHANGED <<down, rx>>
  PROVE  /\ Drop(q, 1) \in Seq(Unit)
         /\ Holds(Drop(q, 1))' /\ Chain(Drop(q, 1)) /\ Enters(Drop(q, 1))'
         /\ Headed(Drop(q, 1))'
         /\ Last => /\ rcv' = [state |-> "IDLE", base |-> 0, counter |-> 0]
                    /\ Drop(q, 1) # << >> => Drop(q, 1)[1].k \in {-1, 0}
         /\ ~Last => /\ rcv' = [rcv EXCEPT !.counter = rcv.counter + 1]
                     /\ Len(q) > 1 /\ Drop(q, 1) # << >>
                     /\ Drop(q, 1)[1].k = rcv'.counter + 1
                     /\ Drop(q, 1)[1].w = q[1].w /\ Drop(q, 1)[1].r = q[1].r
                     /\ Drop(q, 1)[1].base = q[1].base
         /\ fifo' \in Seq(Queued) /\ Len(fifo') <= Depth
         /\ rcv' \in [state : {"IDLE", "RECEIVE_WRITES", "RECEIVE_READS"},
                      base : Nat, counter : Nat]
  <1> DEFINE p == Drop(q, 1)
  <1>1. /\ fifo' = Tail(fifo) /\ fifo # << >>
        /\ Last => rcv' = [state |-> "IDLE", base |-> 0, counter |-> 0]
        /\ ~Last => rcv' = [rcv EXCEPT !.counter = rcv.counter + 1]
    BY DEF Taken, Offered
  <1>2. Holds(q) /\ Chain(q) /\ Enters(q) /\ Headed(q)
    BY DEF Flow
  <1>3. p \in Seq(Unit) /\ Holds(p)' /\ Chain(p) /\ Enters(p)' /\ Headed(p)'
    BY <1>1, <1>2, Consumed
  <1>4. rcv \in [state : {"IDLE", "RECEIVE_WRITES", "RECEIVE_READS"}, base : Nat, counter : Nat]
    BY DEF Types
  <1>5. ~Last => q[1].k < Size(q[1])
    BY Served, UnitFields
  <1>6. ~Last => rcv'.counter + 1 = q[1].k + 1
    BY <1>1, <1>4, Served
  <1>7. fifo' \in Seq(Queued) /\ Len(fifo') <= Depth
    <2>1. /\ fifo \in Seq(Queued) /\ Len(fifo) <= Depth
          /\ Len(fifo) \in Nat \ {0}
      BY <1>1, EmptySeq DEF Types
    <2>2. fifo' \in Seq(Queued) /\ Len(fifo') = Len(fifo) - 1
      BY <1>1, <2>1, HeadTailProperties
    <2> QED
      BY <2>1, <2>2, DepthAssumption
  <1>8. rcv' \in [state : {"IDLE", "RECEIVE_WRITES", "RECEIVE_READS"}, base : Nat, counter : Nat]
    BY <1>1, <1>4
  <1> HIDE DEF p
  <1> QED
    BY <1>1, <1>2, <1>3, <1>5, <1>6, <1>7, <1>8, Exposed, Served DEF p

(* The reply does not depend on the words on their way, but for how many of *)
(* them have been read.                                                    *)
LEMMA ReplyKept ==
  ASSUME NEW q, NEW p, Reply(q), UNCHANGED <<doing, asked, regs, up, pbuffer, snd, tx>>,
         Unread(p) <=> Unread(q), Done(p)' = Done(q),
         (master.state = "SEND_DATA" => master.data = Reg(rcv.counter + 1))'
  PROVE  Reply(p)'
  <1>1. /\ Waits' = Waits /\ Delivered' = Delivered /\ Delivery' = Delivery
        /\ Resting' = Resting /\ Gathered' = Gathered /\ Sends' = Sends
    BY DEF Waits, Delivered, Delivery, Resting, Gathered, Sends, Answers, Reg
  <1>2. Unread(p)' = Unread(p)
    BY DEF Unread
  <1> QED
    BY <1>1, <1>2 DEF Reply

-----------------------------------------------------------------------------
(* The receivers. *)

(* The header of a record is taken off the road. *)
LEMMA HeaderStep ==
  ASSUME Types, ReadMatches, NEW q \in Seq(Unit), Flow(q), RxHeader, UNCHANGED hostVars
  PROVE  IInv'
  <1>0. PICK f, d : f = Len(fifo) /\ d = Len(down)
    OBVIOUS
  <1> DEFINE n == Len(q)
             j == f + 1
             p == Drop(q, j)
  <1>1. /\ rx.state = "IDLE" /\ down # << >> /\ down' = Tail(down)
        /\ rx' = [state |-> "PRESENT", wcount |-> Head(down).wcount,
                                       rcount |-> Head(down).rcount]
        /\ UNCHANGED <<fifo, rcv, master, mem, pbuffer, snd, tx, up>>
        /\ UNCHANGED <<lang, doing, asked, got, regs>>
    BY DEF RxHeader, accessVars, outVars, hostVars
  <1>2. /\ f \in Nat /\ d \in Nat \ {0} /\ Len(down') = d - 1 /\ Head(down) = down[1]
        /\ \A i \in 1 .. d - 1 : down'[i] = down[i + 1]
        /\ down' \in Seq(OnRoad)
    BY <1>0, <1>1, HeadTailProperties, EmptySeq, LenProperties DEF Types
  <1>3. /\ n = f + d /\ \A i \in 1 .. f : q[i].k >= 0 /\ fifo[i] = InFifo(q[i])
        /\ \A i \in 1 .. d : down[i] = InDown(q[f + i])
        /\ q[j].k = -1
    BY <1>0, <1>1 DEF Flow, Holds, Enters
  <1>4. Chain(q) /\ Headed(q) /\ Serves(q) /\ Landing(q) /\ Asks(q) /\ Reply(q)
    BY DEF Flow
  <1>5. \A i \in 1 .. n : q[i] \in Unit
    BY ElementOfSeq
  <1>6. j \in 1 .. n /\ n \in Nat \ {0} /\ 1 \in 1 .. d
    <2> HIDE DEF n
    <2> QED
      BY <1>2, <1>3
  <1>7. /\ p \in Seq(Unit) /\ Len(p) = n - 1
        /\ \A i \in 1 .. n - 1 : (i < j => p[i] = q[i]) /\ (~(i < j) => p[i] = q[i + 1])
    BY <1>6, DropShape
  <1>8. Chain(p)
    BY <1>3, <1>4, <1>6, DropChain
  <1>9. /\ j < n /\ q[j + 1].w = q[j].w /\ q[j + 1].r = q[j].r /\ q[j + 1].k = 0
        /\ p[j] = q[j + 1]
    <2>1. q[j].k < Size(q[j])
      BY <1>3, <1>5, <1>6, UnitFields
    <2>2. q[n].k = Size(q[n]) /\ \A i \in 1 .. n - 1 : Follows(q[i], q[i + 1])
      BY <1>4, <1>6, EmptySeq DEF Chain
    <2>3. j # n
      BY <1>5, <1>6, <2>1, <2>2, UnitFields
    <2> HIDE DEF j, n, p
    <2>4. j < n /\ j \in 1 .. n - 1 /\ ~(j < j)
      BY <1>6, <2>3
    <2>5. Follows(q[j], q[j + 1]) /\ p[j] = q[j + 1]
      BY <1>7, <2>2, <2>4
    <2> QED
      BY <1>3, <2>1, <2>4, <2>5 DEF Follows
  <1> HIDE DEF n, p
  <1>10. Holds(p)'
    <2>1. Len(p) = f + (d - 1)
      BY <1>2, <1>3, <1>7
    <2>2. \A i \in 1 .. f : p[i] = q[i]
      BY <1>2, <1>3, <1>6, <1>7
    <2>3. \A i \in 1 .. d - 1 : p[f + i] = q[f + (i + 1)]
      <3> SUFFICES ASSUME NEW i \in 1 .. d - 1 PROVE p[f + i] = q[f + (i + 1)]
        OBVIOUS
      <3>0. n = f + d /\ f \in Nat /\ d \in Nat /\ i \in Nat /\ i >= 1 /\ i <= d - 1
        BY <1>2, <1>3
      <3>1. f + i \in 1 .. n - 1
        BY <3>0
      <3>2. ~(f + i < j) /\ (f + i) + 1 = f + (i + 1)
        BY <3>0
      <3> QED
        BY <1>7, <3>1, <3>2
    <2>4. \A i \in 1 .. d - 1 : down'[i] = InDown(p[f + i])
      <3> SUFFICES ASSUME NEW i \in 1 .. d - 1 PROVE down'[i] = InDown(p[f + i])
        OBVIOUS
      <3>1. i + 1 \in 1 .. d
        BY <1>2
      <3>2. down'[i] = down[i + 1] /\ down[i + 1] = InDown(q[f + (i + 1)])
        BY <1>2, <1>3, <3>1
      <3> QED
        BY <2>3, <3>2
    <2> QED
      BY <1>0, <1>1, <1>2, <1>3, <1>7, <2>1, <2>2, <2>4 DEF Holds
  <1>11. Enters(p)'
    <2>1. down' # << >>
      <3>1. Len(down') \in Nat \ {0}
        BY <1>2, <1>3, <1>6, <1>9
      <3> QED
        BY <1>2, <3>1, EmptySeq
    <2>2. Head(down) = [wcount |-> q[j].w, rcount |-> q[j].r]
      BY <1>2, <1>3, <1>6 DEF InDown
    <2> QED
      BY <1>0, <1>1, <1>9, <2>1, <2>2 DEF Enters
  <1>12. Headed(p)'
    <2> SUFFICES ASSUME NEW i \in f + 1 .. (n - 1) - 1, p[i].k = Size(p[i])
                 PROVE  p[i + 1].k = -1
      BY <1>0, <1>1, <1>7 DEF Headed
    <2>1. /\ i \in 1 .. n - 1 /\ i + 1 \in 1 .. n - 1 /\ ~(i < j) /\ ~(i + 1 < j)
          /\ i + 1 \in f + 1 .. n - 1
      BY <1>2, <1>6
    <2>2. p[i] = q[i + 1] /\ p[i + 1] = q[(i + 1) + 1]
      BY <1>7, <2>1
    <2> QED
      BY <1>0, <1>4, <2>1, <2>2 DEF Headed, n
  <1>13. p # << >> /\ q # << >> /\ (f = 0 => p[1] = q[2] /\ q[1].k = -1 /\ q[2].k = 0)
         /\ (f > 0 => p[1] = q[1])
    <2>1. Len(p) \in Nat \ {0}
      BY <1>6, <1>7, <1>9
    <2>2. p # << >> /\ q # << >>
      BY <1>6, <2>1, EmptySeq DEF n
    <2>3. 1 \in 1 .. n - 1
      BY <1>6, <1>9
    <2>4. f = 0 => p[1] = q[2] /\ q[1].k = -1 /\ q[2].k = 0
      BY <1>3, <1>9
    <2>5. f > 0 => 1 < j
      BY <1>2
    <2> QED
      BY <1>7, <2>2, <2>3, <2>4, <2>5
  <1>14. Serves(p)'
    <2>1. Serves(q)
      BY <1>4
    <2>2. CASE f > 0
      BY <1>1, <1>13, <2>1, <2>2 DEF Serves
    <2>3. CASE f = 0
      <3>1. rcv.state = "IDLE"
        <4> SUFFICES ASSUME rcv.state # "IDLE" PROVE FALSE
          OBVIOUS
        <4>1. -1 = rcv.counter + 1 /\ rcv.counter \in Nat
          BY <1>13, <2>1, <2>3 DEF Serves, Types
        <4> QED
          BY <4>1
      <3> QED
        BY <1>1, <1>13, <2>1, <2>3, <3>1 DEF Serves
    <2> QED
      BY <1>2, <2>2, <2>3
  <1>15. Landing(p)'
    <2> SUFFICES ASSUME NEW a \in Addr PROVE Arrives(p, a, mem[a], regs[a])
      BY <1>1 DEF Landing
    <2>1. Arrives(q, a, mem[a], regs[a])
      BY <1>4 DEF Landing
    <2>2. j \notin Writes(q, a)
      BY <1>3 DEF Writes
    <2> QED
      BY <1>6, <2>1, <2>2, DropArrives DEF p, n
  <1>16. Asks(p)' /\ (Unread(p) <=> Unread(q))
    <2>1. UNCHANGED <<doing, asked>> /\ Len(q) > 1
      BY <1>1, <1>2, <1>6, <1>9 DEF n
    <2> QED
      BY <1>3, <1>4, <1>6, <2>1, DropAsks DEF p, n
  <1>17. Reply(p)'
    <2>1. Done(p)' = Done(q)
      BY <1>1, <1>16 DEF Done, Unread
    <2>2. (master.state = "SEND_DATA" => master.data = Reg(rcv.counter + 1))'
      BY <1>1, <1>4 DEF Reply, Reg
    <2> QED
      BY <1>1, <1>4, <1>16, <2>1, <2>2, ReplyKept
  <1>18. Types'
    <2>1. rx' \in [state : {"IDLE", "PRESENT"}, wcount : Nat, rcount : Nat]
      <3>1. Head(down) = [wcount |-> q[j].w, rcount |-> q[j].r] /\ q[j] \in Unit
        BY <1>2, <1>3, <1>5, <1>6 DEF InDown
      <3> QED
        BY <1>1, <3>1, UnitFields
    <2>2. Len(down') <= MaxDown
      BY <1>0, <1>2, RoadAssumption DEF Types
    <2> QED
      BY <1>1, <1>2, <2>1, <2>2 DEF Types
  <1>19. ReadMatches'
    BY <1>1 DEF ReadMatches
  <1> QED
    BY <1>7, <1>8, <1>10, <1>11, <1>12, <1>14, <1>15, <1>16, <1>17, <1>18, <1>19 DEF IInv, Flow

(* A word of a record is taken off the road, into the FIFO. *)
LEMMA PresentStep ==
  ASSUME Types, ReadMatches, NEW q \in Seq(Unit), Flow(q), RxPresent, UNCHANGED hostVars
  PROVE  IInv'
  <1>0. PICK f, d : f = Len(fifo) /\ d = Len(down)
    OBVIOUS
  <1> DEFINE n == Len(q)
             j == f + 1
             e == [data |-> Head(down).data, wcount |-> rx.wcount, rcount |-> rx.rcount]
  <1>1. /\ rx.state = "PRESENT" /\ down # << >> /\ down' = Tail(down) /\ f < Depth
        /\ fifo' = Append(fifo, e)
        /\ rx' = IF Head(down).last THEN [state |-> "IDLE", wcount |-> 0, rcount |-> 0] ELSE rx
        /\ UNCHANGED <<rcv, master, mem, pbuffer, snd, tx, up>>
        /\ UNCHANGED <<lang, doing, asked, got, regs>>
    BY <1>0 DEF RxPresent, accessVars, outVars, hostVars
  <1>2. /\ f \in Nat /\ d \in Nat \ {0} /\ Len(down') = d - 1 /\ Head(down) = down[1]
        /\ \A i \in 1 .. d - 1 : down'[i] = down[i + 1]
        /\ down' \in Seq(OnRoad)
    BY <1>0, <1>1, HeadTailProperties, EmptySeq, LenProperties DEF Types
  <1>3. /\ n = f + d /\ \A i \in 1 .. f : q[i].k >= 0 /\ fifo[i] = InFifo(q[i])
        /\ \A i \in 1 .. d : down[i] = InDown(q[f + i])
        /\ q[j].k >= 0 /\ rx.wcount = q[j].w /\ rx.rcount = q[j].r
    BY <1>0, <1>1 DEF Flow, Holds, Enters
  <1>4. Chain(q) /\ Headed(q) /\ Serves(q) /\ Landing(q) /\ Asks(q) /\ Reply(q)
    BY DEF Flow
  <1>5. j \in 1 .. n /\ n \in Nat \ {0} /\ 1 \in 1 .. d
    <2> HIDE DEF n
    <2> QED
      BY <1>2, <1>3
  <1>6. q[j] \in Unit /\ q[j].k # -1
    <2>1. q[j] \in Unit
      BY <1>5, ElementOfSeq
    <2> QED
      BY <1>3, <2>1, UnitFields
  <1>7. Head(down) = [data |-> q[j].data, last |-> q[j].k = Size(q[j])]
    BY <1>2, <1>3, <1>5, <1>6 DEF InDown
  <1>8. e = InFifo(q[j])
    BY <1>3, <1>7 DEF InFifo
  <1>19. rx' = IF q[j].k = Size(q[j]) THEN [state |-> "IDLE", wcount |-> 0, rcount |-> 0] ELSE rx
    <2>1. Head(down).last = (q[j].k = Size(q[j]))
      BY <1>7
    <2> QED
      BY <1>1, <2>1, Zenon
  <1> HIDE DEF n, e
  <1>9. /\ fifo' \in Seq(Queued) /\ Len(fifo') = f + 1 /\ fifo'[j] = InFifo(q[j])
        /\ \A i \in 1 .. f : fifo'[i] = fifo[i]
    <2>1. e \in Queued /\ fifo \in Seq(Queued)
      BY <1>6, <1>8 DEF Types, Queued
    <2> QED
      BY <1>0, <1>1, <1>8, <2>1, AppendProperties
  <1>10. Holds(q)'
    <2>1. n = (f + 1) + (d - 1)
      BY <1>2, <1>3
    <2>2. ASSUME NEW i \in 1 .. f + 1 PROVE q[i].k >= 0 /\ fifo'[i] = InFifo(q[i])
      <3>1. i \in 1 .. f \/ i = j
        BY <1>2
      <3> QED
        BY <1>3, <1>9, <3>1
    <2>3. ASSUME NEW i \in 1 .. d - 1 PROVE down'[i] = InDown(q[(f + 1) + i])
      <3>0. f \in Nat /\ d \in Nat /\ i \in Nat /\ i >= 1 /\ i <= d - 1
        BY <1>2
      <3>1. i + 1 \in 1 .. d /\ (f + 1) + i = f + (i + 1)
        BY <3>0
      <3>2. down'[i] = down[i + 1] /\ down[i + 1] = InDown(q[f + (i + 1)])
        BY <1>2, <1>3, <3>1
      <3> QED
        BY <3>1, <3>2
    <2> QED
      BY <1>2, <1>9, <2>1, <2>2, <2>3 DEF Holds, n
  <1>11. ASSUME q[j].k = Size(q[j]) PROVE Enters(q)'
    <2>1. rx'.state = "IDLE"
      BY <1>11, <1>19
    <2>2. ASSUME down' # << >> PROVE q[(f + 1) + 1].k = -1
      <3>1. d - 1 \in Nat \ {0}
        BY <1>2, <2>2, EmptySeq
      <3>2. j \in f + 1 .. n - 1
        BY <1>2, <1>3, <3>1
      <3> QED
        BY <1>0, <1>4, <1>11, <3>2 DEF Headed, n
    <2> QED
      BY <1>9, <2>1, <2>2 DEF Enters
  <1>12. ASSUME q[j].k # Size(q[j]) PROVE Enters(q)'
    <2>1. rx' = rx
      BY <1>12, <1>19
    <2>2. q[j].k < Size(q[j]) /\ j # n
      <3>1. q[n].k = Size(q[n])
        BY <1>4, <1>5, EmptySeq DEF Chain, n
      <3> QED
        BY <1>6, <1>12, <3>1, UnitFields
    <2>3. j \in 1 .. n - 1 /\ d - 1 \in Nat \ {0}
      BY <1>2, <1>3, <1>5, <2>2
    <2>4. q[j + 1].w = q[j].w /\ q[j + 1].r = q[j].r /\ q[j + 1].k = q[j].k + 1
      BY <1>4, <2>2, <2>3 DEF Chain, Follows, n
    <2>5. down' # << >>
      BY <1>2, <2>3, EmptySeq
    <2>6. q[j + 1].k >= 0
      BY <1>3, <1>6, <2>4, UnitFields
    <2> QED
      BY <1>1, <1>3, <1>9, <2>1, <2>4, <2>5, <2>6 DEF Enters
  <1>13. Headed(q)'
    <2> SUFFICES ASSUME NEW i \in (f + 1) + 1 .. n - 1, q[i].k = Size(q[i])
                 PROVE  q[i + 1].k = -1
      BY <1>9 DEF Headed, n
    <2>1. i \in f + 1 .. n - 1
      BY <1>2, <1>5
    <2> QED
      BY <1>0, <1>4, <2>1 DEF Headed, n
  <1>14. Serves(q)' /\ Landing(q)' /\ Asks(q)'
    BY <1>1, <1>4 DEF Serves, Landing, Asks, Waits, Unread
  <1>15. Reply(q)'
    <2>1. Done(q)' = Done(q)
      BY <1>1 DEF Done, Unread
    <2>2. (master.state = "SEND_DATA" => master.data = Reg(rcv.counter + 1))'
      BY <1>1, <1>4 DEF Reply, Reg
    <2> QED
      BY <1>1, <1>4, <2>1, <2>2, ReplyKept
  <1>16. Types'
    <2>1. rx' \in [state : {"IDLE", "PRESENT"}, wcount : Nat, rcount : Nat]
      BY <1>1 DEF Types
    <2>2. Len(down') <= MaxDown
      BY <1>0, <1>2, RoadAssumption DEF Types
    <2>3. Len(fifo') <= Depth
      BY <1>1, <1>2, <1>9, DepthAssumption
    <2> QED
      BY <1>1, <1>2, <1>9, <2>1, <2>2, <2>3 DEF Types
  <1>17. ReadMatches'
    BY <1>1 DEF ReadMatches
  <1>18. Enters(q)'
    BY <1>11, <1>12
  <1> QED
    BY <1>4, <1>10, <1>13, <1>14, <1>15, <1>16, <1>17, <1>18 DEF IInv, Flow

(* A record begins, with its base address. *)
LEMMA ReceiverStep ==
  ASSUME Types, ReadMatches, NEW q \in Seq(Unit), Flow(q), ReceiverIdle, UNCHANGED hostVars
  PROVE  IInv'
  <1> DEFINE p == Drop(q, 1)
             u == q[1]
  <1>1. /\ rcv.state = "IDLE" /\ fifo # << >> /\ fifo' = Tail(fifo)
        /\ UNCHANGED <<down, rx, master, mem, pbuffer, snd, tx, up>>
        /\ UNCHANGED <<lang, doing, asked, got, regs>>
    BY DEF ReceiverIdle, outVars, hostVars
  <1>2. /\ Holds(q) /\ Chain(q) /\ Enters(q) /\ Headed(q)
        /\ Serves(q) /\ Landing(q) /\ Asks(q) /\ Reply(q)
    BY DEF Flow
  <1>3. /\ Len(q) \in Nat \ {0} /\ 1 \in 1 .. Len(q) /\ u \in Unit /\ u.k >= 0
        /\ Head(fifo) = InFifo(u)
        /\ p \in Seq(Unit) /\ Holds(p)' /\ Chain(p) /\ Enters(p)' /\ Headed(p)'
    BY <1>1, <1>2, Consumed
  <1>4. u.k = 0 /\ u.k < Size(u)
    <2>1. u.k \in {-1, 0}
      BY <1>1, <1>2, <1>3, EmptySeq DEF Serves
    <2> QED
      BY <1>3, <2>1, UnitFields
  <1>5. /\ Len(q) > 1 /\ p # << >> /\ p[1] = q[2]
        /\ q[2].w = u.w /\ q[2].r = u.r /\ q[2].base = u.base /\ q[2].k = 1
    BY <1>2, <1>3, <1>4, Exposed
  <1>6. \/ u.w > 0 /\ rcv' = [state |-> "RECEIVE_WRITES", base |-> u.base, counter |-> 0]
        \/ u.r > 0 /\ rcv' = [state |-> "RECEIVE_READS", base |-> 0, counter |-> 0]
    <2>1. Head(fifo).wcount = u.w /\ Head(fifo).rcount = u.r /\ Head(fifo).data = u.base
      BY <1>3, <1>4, UnitFields DEF InFifo
    <2>2. u.w > 0 \/ (u.w = 0 /\ u.r > 0)
      BY <1>3, UnitFields
    <2> HIDE DEF u
    <2> QED
      BY <2>1, <2>2 DEF ReceiverIdle
  <1>7. Serves(p)'
    <2>1. p[1].k = 0 + 1 /\ p[1].w = u.w /\ p[1].r = u.r /\ p[1].base = u.base /\ p # << >>
      BY <1>5
    <2>2. master.state = "IDLE" /\ master' = master
      BY <1>1, <1>2 DEF Serves
    <2> HIDE DEF p, u
    <2> QED
      BY <1>6, <2>1, <2>2 DEF Serves
  <1>8. Landing(p)'
    <2> SUFFICES ASSUME NEW a \in Addr PROVE Arrives(p, a, mem[a], regs[a])
      BY <1>1 DEF Landing
    <2>1. Arrives(q, a, mem[a], regs[a])
      BY <1>2 DEF Landing
    <2>2. 1 \notin Writes(q, a)
      BY <1>4 DEF Writes
    <2> QED
      BY <1>3, <2>1, <2>2, DropArrives
  <1>9. Asks(p)' /\ (Unread(p) <=> Unread(q))
    BY <1>1, <1>2, <1>3, <1>5, DropAsks
  <1> HIDE DEF p, u
  <1>10. Reply(p)'
    <2>1. Done(p)' = Done(q)
      <3>1. Done(q) = IF ~Unread(q) THEN asked.count ELSE 0
        BY <1>1 DEF Done
      <3>2. Done(p)' = IF ~Unread(p) THEN asked.count ELSE 0
        BY <1>1, <1>6 DEF Done, Unread
      <3> QED
        BY <1>9, <3>1, <3>2
    <2>2. (master.state = "SEND_DATA" => master.data = Reg(rcv.counter + 1))'
      BY <1>1, <1>2 DEF Serves
    <2> QED
      BY <1>1, <1>2, <1>9, <2>1, <2>2, ReplyKept
  <1>11. Types'
    <2>1. rcv' \in [state : {"IDLE", "RECEIVE_WRITES", "RECEIVE_READS"}, base : Nat, counter : Nat]
      BY <1>3, <1>6, UnitFields
    <2>2. fifo' \in Seq(Queued) /\ Len(fifo') <= Depth
      <3>1. /\ fifo \in Seq(Queued) /\ Len(fifo) <= Depth
            /\ Len(fifo) \in Nat \ {0}
        BY <1>1, EmptySeq DEF Types
      <3>2. fifo' \in Seq(Queued) /\ Len(fifo') = Len(fifo) - 1
        BY <1>1, <3>1, HeadTailProperties
      <3> QED
        BY <3>1, <3>2, DepthAssumption
    <2> QED
      BY <1>1, <2>1, <2>2 DEF Types
  <1>12. ReadMatches'
    BY <1>1 DEF ReadMatches
  <1> QED
    BY <1>3, <1>7, <1>8, <1>9, <1>10, <1>11, <1>12 DEF IInv, Flow

-----------------------------------------------------------------------------
(* The master. *)

(* When a read comes first, nothing but the words of this read is on its way. *)
LEMMA ReadOnly ==
  ASSUME NEW q \in Seq(Unit), Asks(q), 1 \in 1 .. Len(q), Len(q) \in Nat, q[1].r > 0
  PROVE  /\ Unread(q) /\ Waits /\ q[1].r = asked.count /\ Size(q[1]) = asked.count
         /\ q[1].k > 0 => q[1].data = asked.addr + q[1].k - 1
         /\ q[1].k = Size(q[1]) => Len(q) = 1
         /\ \A a : Writes(q, a) = {}
  <1> DEFINE n == Len(q)
  <1>1. n \in 1 .. n /\ 1 <= n /\ q # << >> /\ \A i \in 1 .. n : 1 <= i
    BY EmptySeq
  <1>2. \A i \in 1 .. n : q[i].r > 0
    BY <1>1 DEF Asks
  <1>3. \A i \in 1 .. n : q[i] \in Unit
    BY ElementOfSeq
  <1>4. \A a : Writes(q, a) = {}
    <2>1. \A i \in 1 .. n : ~(q[i].w > 0)
      BY <1>2, <1>3, UnitFields
    <2> QED
      BY <2>1 DEF Writes
  <1>5. Unread(q) /\ Waits
    BY <1>1, <1>2 DEF Unread, Asks
  <1>6. Size(q[1]) = q[1].r
    BY <1>2, <1>3, UnitFields
  <1> QED
    BY <1>4, <1>5, <1>6 DEF Asks

(* The master begins with the first access of a record. *)
LEMMA MasterStep ==
  ASSUME Types, ReadMatches, NEW q \in Seq(Unit), Flow(q), MasterIdle, UNCHANGED hostVars
  PROVE  IInv'
  <1>1. /\ Offered
        /\ master' = [master EXCEPT !.state = IF We THEN "WRITE_DATA" ELSE "READ_DATA"]
        /\ UNCHANGED <<down, rx, fifo, rcv, mem, pbuffer, snd, tx, up>>
        /\ UNCHANGED <<lang, doing, asked, got, regs>>
    BY DEF MasterIdle, inVars, outVars, hostVars
  <1>2. /\ Holds(q) /\ Chain(q) /\ Enters(q) /\ Headed(q)
        /\ Serves(q) /\ Landing(q) /\ Asks(q) /\ Reply(q)
    BY DEF Flow
  <1>3. /\ master'.state = IF We THEN "WRITE_DATA" ELSE "READ_DATA"
        /\ master' \in [state : {"IDLE", "WRITE_DATA", "READ_DATA", "SEND_DATA"}, data : Value]
    BY <1>1 DEF Types
  <1>4. Serves(q)'
    BY <1>1, <1>2, <1>3 DEF Serves, We, Offered
  <1>5. Holds(q)' /\ Enters(q)' /\ Headed(q)' /\ Landing(q)' /\ Asks(q)'
    BY <1>1, <1>2 DEF Holds, Enters, Headed, Landing, Asks, Waits, Unread
  <1>6. Reply(q)'
    <2>1. Done(q)' = Done(q)
      BY <1>1 DEF Done, Unread
    <2>2. (master.state = "SEND_DATA" => master.data = Reg(rcv.counter + 1))'
      BY <1>3
    <2> QED
      BY <1>1, <1>2, <2>1, <2>2, ReplyKept
  <1>7. Types' /\ ReadMatches'
    BY <1>1, <1>3 DEF Types, ReadMatches
  <1> QED
    BY <1>2, <1>4, <1>5, <1>6, <1>7 DEF IInv, Flow

(* A value is written to its register. *)
LEMMA WriteStep ==
  ASSUME Types, ReadMatches, NEW q \in Seq(Unit), Flow(q), WriteData, UNCHANGED hostVars
  PROVE  IInv'
  <1> DEFINE p == Drop(q, 1)
             u == q[1]
  <1>1. /\ Offered /\ Taken /\ master.state = "WRITE_DATA"
        /\ mem' = [mem EXCEPT ![rcv.base + rcv.counter] = Head(fifo).data]
        /\ master' = [master EXCEPT !.state = IF Last THEN "IDLE" ELSE "WRITE_DATA"]
        /\ UNCHANGED <<down, rx, pbuffer, snd, tx, up>>
        /\ UNCHANGED <<lang, doing, asked, got, regs>>
    BY DEF WriteData, outVars, hostVars
  <1>2. /\ Holds(q) /\ Chain(q) /\ Enters(q) /\ Headed(q)
        /\ Serves(q) /\ Landing(q) /\ Asks(q) /\ Reply(q)
    BY DEF Flow
  <1>3. rcv.state = "RECEIVE_WRITES" /\ We
    BY <1>1, <1>2 DEF Serves, Types, We
  <1>4. /\ u \in Unit /\ 1 \in 1 .. Len(q) /\ Len(q) \in Nat \ {0}
        /\ Head(fifo) = InFifo(u) /\ u.k = rcv.counter + 1
        /\ (Last <=> u.k = Size(u)) /\ u.w > 0 /\ u.base = rcv.base
    BY <1>1, <1>3, Served
  <1>5. /\ p \in Seq(Unit) /\ Holds(p)' /\ Chain(p) /\ Enters(p)' /\ Headed(p)'
        /\ Last => rcv' = [state |-> "IDLE", base |-> 0, counter |-> 0]
        /\ Last => (p # << >> => p[1].k \in {-1, 0})
        /\ ~Last => rcv' = [rcv EXCEPT !.counter = rcv.counter + 1]
        /\ ~Last => Len(q) > 1
        /\ ~Last => p # << >> /\ p[1].k = rcv'.counter + 1 /\ p[1].w = u.w /\ p[1].base = u.base
        /\ fifo' \in Seq(Queued) /\ Len(fifo') <= Depth
        /\ rcv' \in [state : {"IDLE", "RECEIVE_WRITES", "RECEIVE_READS"},
                     base : Nat, counter : Nat]
    BY <1>1, Took
  <1>6. u.k > 0 /\ Place(u) = rcv.base + rcv.counter /\ Place(u) \in Addr /\ u.data \in Value
    <2>1. rcv.base \in Nat /\ rcv.counter \in Nat
      BY DEF Types
    <2>2. u.k > 0 /\ Place(u) = rcv.base + rcv.counter
      BY <1>4, <2>1 DEF Place
    <2> QED
      BY <1>4, <2>2, UnitFields
  <1>7. mem' = [mem EXCEPT ![Place(u)] = u.data] /\ mem \in [Addr -> Value]
    <2>1. Head(fifo).data = u.data
      BY <1>4 DEF InFifo
    <2> HIDE DEF u
    <2> QED
      BY <1>1, <1>6, <2>1 DEF Types
  <1>8. /\ master'.state = IF Last THEN "IDLE" ELSE "WRITE_DATA"
        /\ master' \in [state : {"IDLE", "WRITE_DATA", "READ_DATA", "SEND_DATA"}, data : Value]
    BY <1>1 DEF Types
  <1>9. Landing(p)'
    <2> SUFFICES ASSUME NEW a \in Addr PROVE Arrives(p, a, mem'[a], regs[a])
      BY <1>1 DEF Landing
    <2>1. Arrives(q, a, mem[a], regs[a])
      BY <1>2 DEF Landing
    <2>2. CASE a = Place(u)
      <3>1. 1 \in Writes(q, a)
        BY <1>4, <1>6, <2>2 DEF Writes
      <3>2. mem'[a] = u.data
        BY <1>7, <2>2
      <3> QED
        BY <1>4, <2>1, <3>1, <3>2, DropArrives
    <2>3. CASE a # Place(u)
      <3>1. 1 \notin Writes(q, a)
        BY <2>3 DEF Writes
      <3>2. mem'[a] = mem[a]
        BY <1>7, <2>3
      <3> QED
        BY <1>4, <2>1, <3>1, <3>2, DropArrives
    <2> QED
      BY <2>2, <2>3
  <1>10. Asks(p)' /\ (Unread(p) <=> Unread(q))
    <2>1. /\ Asks(p)' /\ (Unread(p) => Unread(q))
          /\ (Len(q) > 1 => (Unread(p) <=> Unread(q)))
      BY <1>1, <1>2, <1>4, DropAsks
    <2>2. Len(q) = 1 => ~Unread(q)
      <3>1. u.r = 0
        BY <1>4, UnitFields
      <3>2. Unread(q) => q[Len(q)].r > 0
        BY DEF Unread
      <3> QED
        BY <3>1, <3>2
    <2>3. Len(q) = 1 \/ Len(q) > 1
      <3> DEFINE n == Len(q)
      <3>1. n \in Nat \ {0}
        BY <1>4
      <3> HIDE DEF n
      <3>2. n = 1 \/ n > 1
        BY <3>1
      <3> QED
        BY <3>2 DEF n
    <2> QED
      BY <2>1, <2>2, <2>3
  <1> HIDE DEF p, u
  <1>11. Serves(p)'
    <2>1. CASE Last
      BY <1>5, <1>8, <2>1 DEF Serves
    <2>2. CASE ~Last
      <3>1. rcv'.state = "RECEIVE_WRITES" /\ rcv'.base = rcv.base
        BY <1>3, <1>5, <2>2 DEF Types
      <3>2. p # << >> /\ p[1].k = rcv'.counter + 1 /\ p[1].w > 0 /\ p[1].base = rcv'.base
        BY <1>4, <1>5, <2>2, <3>1
      <3> QED
        BY <1>8, <2>2, <3>1, <3>2 DEF Serves
    <2> QED
      BY <2>1, <2>2
  <1>12. Reply(p)'
    <2>1. rcv'.state # "RECEIVE_READS"
      <3>1. Last => rcv'.state = "IDLE"
        BY <1>5
      <3>2. ~Last => rcv'.state = rcv.state
        BY <1>5 DEF Types
      <3> QED
        BY <1>3, <3>1, <3>2
    <2>2. Done(p)' = Done(q)
      <3>1. Done(q) = IF ~Unread(q) THEN asked.count ELSE 0
        BY <1>3 DEF Done
      <3>2. Done(p)' = IF ~Unread(p) THEN asked.count ELSE 0
        BY <1>1, <2>1 DEF Done, Unread
      <3> QED
        BY <1>10, <3>1, <3>2
    <2>3. (master.state = "SEND_DATA" => master.data = Reg(rcv.counter + 1))'
      BY <1>8
    <2> QED
      BY <1>1, <1>2, <1>10, <2>2, <2>3, ReplyKept
  <1>13. mem' \in [Addr -> Value]
    BY <1>6, <1>7
  <1>14. Types' /\ ReadMatches'
    <2>1. Types'
      BY <1>1, <1>5, <1>8, <1>13 DEF Types, Span
    <2>2. ReadMatches'
      BY <1>1 DEF ReadMatches
    <2> QED
      BY <2>1, <2>2
  <1> QED
    BY <1>5, <1>9, <1>10, <1>11, <1>12, <1>14 DEF IInv, Flow

(* A register is read: it holds what was last written to it. *)
LEMMA ReadStep ==
  ASSUME Types, ReadMatches, NEW q \in Seq(Unit), Flow(q), ReadData, UNCHANGED hostVars
  PROVE  IInv'
  <1> DEFINE u == q[1]
  <1>1. /\ Offered /\ master.state = "READ_DATA"
        /\ master' = [state |-> "SEND_DATA", data |-> mem[Head(fifo).data]]
        /\ UNCHANGED <<down, rx, fifo, rcv, mem, pbuffer, snd, tx, up>>
        /\ UNCHANGED <<lang, doing, asked, got, regs>>
    BY DEF ReadData, inVars, outVars, hostVars
  <1>2. /\ Holds(q) /\ Chain(q) /\ Enters(q) /\ Headed(q)
        /\ Serves(q) /\ Landing(q) /\ Asks(q) /\ Reply(q)
    BY DEF Flow
  <1>3. rcv.state = "RECEIVE_READS" /\ ~We
    BY <1>1, <1>2 DEF Serves, Types, We
  <1>4. /\ u \in Unit /\ 1 \in 1 .. Len(q) /\ Len(q) \in Nat \ {0}
        /\ Head(fifo) = InFifo(u) /\ u.k = rcv.counter + 1 /\ u.r > 0
    BY <1>1, <1>3, Served
  <1>5. u.data = asked.addr + rcv.counter /\ u.data \in Addr
    <2>1. rcv.counter \in Nat /\ asked.addr \in Nat
      BY DEF Types
    <2>2. u.k > 0
      BY <1>4, <2>1
    <2>3. u.data = asked.addr + u.k - 1
      BY <1>2, <1>4, <2>2, ReadOnly
    <2>4. u.data \in Addr
      BY <1>4, <2>2, UnitFields
    <2> HIDE DEF u
    <2> QED
      BY <1>4, <2>1, <2>3, <2>4
  <1>6. mem[u.data] = regs[u.data]
    <2>1. Writes(q, u.data) = {}
      BY <1>2, <1>4, ReadOnly
    <2> QED
      BY <1>2, <1>5, <2>1 DEF Landing, Arrives
  <1> HIDE DEF u
  <1>7. master' = [state |-> "SEND_DATA", data |-> regs[asked.addr + rcv.counter]]
    BY <1>1, <1>4, <1>5, <1>6 DEF InFifo
  <1>8. master' \in [state : {"IDLE", "WRITE_DATA", "READ_DATA", "SEND_DATA"}, data : Value]
    <2>1. regs[asked.addr + rcv.counter] \in Value
      BY <1>5 DEF Types
    <2> QED
      BY <1>7, <2>1
  <1>9. Serves(q)'
    BY <1>1, <1>2, <1>3, <1>7 DEF Serves
  <1>10. Holds(q)' /\ Enters(q)' /\ Headed(q)' /\ Landing(q)' /\ Asks(q)'
    BY <1>1, <1>2 DEF Holds, Enters, Headed, Landing, Asks, Waits, Unread
  <1>11. Reply(q)'
    <2>1. Done(q)' = Done(q)
      BY <1>1 DEF Done, Unread
    <2>2. (master.state = "SEND_DATA" => master.data = Reg(rcv.counter + 1))'
      <3>1. asked.addr + (rcv.counter + 1) - 1 = asked.addr + rcv.counter
        BY DEF Types
      <3> QED
        BY <1>1, <1>7, <3>1 DEF Reg
    <2> QED
      BY <1>1, <1>2, <2>1, <2>2, ReplyKept
  <1>12. Types' /\ ReadMatches'
    BY <1>1, <1>8 DEF Types, ReadMatches
  <1> QED
    BY <1>2, <1>9, <1>10, <1>11, <1>12 DEF IInv, Flow

(* A word of the answer is handed to the sender. *)
LEMMA HandStep ==
  ASSUME Types, ReadMatches, NEW q \in Seq(Unit), Flow(q), SendData, UNCHANGED hostVars
  PROVE  IInv'
  <1> DEFINE p == Drop(q, 1)
             u == q[1]
             c == rcv.counter
             w == [data |-> master.data, count |-> Count, last |-> Last]
  <1>1. /\ Offered /\ Taken /\ master.state = "SEND_DATA" /\ Len(pbuffer) < Depth
        /\ pbuffer' = Append(pbuffer, w)
        /\ master' = [state |-> IF Last THEN "IDLE" ELSE "READ_DATA", data |-> 0]
        /\ UNCHANGED <<down, rx, mem, snd, tx, up>>
        /\ UNCHANGED <<lang, doing, asked, got, regs>>
    BY DEF SendData, hostVars
  <1>2. /\ Holds(q) /\ Chain(q) /\ Enters(q) /\ Headed(q)
        /\ Serves(q) /\ Landing(q) /\ Asks(q) /\ Reply(q)
    BY DEF Flow
  <1>3. rcv.state = "RECEIVE_READS" /\ ~We
    BY <1>1, <1>2 DEF Serves, Types, We
  <1>4. /\ u \in Unit /\ 1 \in 1 .. Len(q) /\ Len(q) \in Nat \ {0}
        /\ u.k = c + 1 /\ u.r > 0 /\ Count = Size(u) /\ (Last <=> u.k = Size(u))
    BY <1>1, <1>3, Served
  <1>5. /\ Unread(q) /\ Waits /\ Size(u) = asked.count
        /\ u.k = Size(u) => Len(q) = 1
        /\ \A a : Writes(q, a) = {}
    BY <1>2, <1>4, ReadOnly
  <1>6. /\ p \in Seq(Unit) /\ Holds(p)' /\ Chain(p) /\ Enters(p)' /\ Headed(p)'
        /\ Last => rcv' = [state |-> "IDLE", base |-> 0, counter |-> 0]
        /\ Last => (p # << >> => p[1].k \in {-1, 0})
        /\ ~Last => rcv' = [rcv EXCEPT !.counter = rcv.counter + 1]
        /\ ~Last => Len(q) > 1
        /\ ~Last => p # << >> /\ p[1].k = rcv'.counter + 1 /\ p[1].r = u.r
        /\ fifo' \in Seq(Queued) /\ Len(fifo') <= Depth
        /\ rcv' \in [state : {"IDLE", "RECEIVE_WRITES", "RECEIVE_READS"},
                     base : Nat, counter : Nat]
    BY <1>1, Took
  <1>7. /\ ~Delivered /\ Gathered /\ Sends /\ Len(tx.words) + Len(pbuffer) = c
        /\ master.data = Reg(c + 1)
    BY <1>1, <1>2, <1>3, <1>5 DEF Reply, Done
  <1>8. Landing(p)'
    <2> SUFFICES ASSUME NEW a \in Addr PROVE Arrives(p, a, mem[a], regs[a])
      BY <1>1 DEF Landing
    <2>1. Arrives(q, a, mem[a], regs[a]) /\ 1 \notin Writes(q, a)
      BY <1>2, <1>5 DEF Landing
    <2> QED
      BY <1>4, <2>1, DropArrives
  <1>9. /\ Asks(p)' /\ (Len(q) > 1 => Unread(p)) /\ (Len(q) = 1 => p = << >>)
    BY <1>1, <1>2, <1>4, <1>5, DropAsks
  <1>10. /\ Last => ~Unread(p) /\ c + 1 = asked.count
         /\ ~Last => Unread(p) /\ c + 1 # asked.count
    <2>1. Last => p = << >>
      BY <1>4, <1>5, <1>9
    <2> QED
      BY <1>4, <1>5, <1>6, <1>9, <2>1 DEF Unread
  <1>11. w \in [data : Value, count : Nat, last : BOOLEAN]
    <2>1. Last \in BOOLEAN
      BY DEF Last
    <2>2. Count \in Nat /\ master.data \in Value
      BY <1>4, UnitFields DEF Types
    <2> QED
      BY <2>1, <2>2
  <1>12. w = [data |-> Reg(c + 1), count |-> asked.count, last |-> c + 1 = asked.count]
    <2>1. Last = (c + 1 = asked.count)
      BY <1>4, <1>5 DEF Last
    <2> QED
      BY <1>4, <1>5, <1>7, <2>1
  <1> HIDE DEF p, u, w
  <1>13. /\ pbuffer' \in Seq([data : Value, count : Nat, last : BOOLEAN])
         /\ Len(pbuffer') = Len(pbuffer) + 1 /\ pbuffer'[Len(pbuffer) + 1] = w
         /\ \A i \in 1 .. Len(pbuffer) : pbuffer'[i] = pbuffer[i]
         /\ Len(pbuffer) \in Nat /\ Len(tx.words) \in Nat
    BY <1>1, <1>11, AppendProperties, LenProperties DEF Types
  <1>14. Serves(p)'
    <2>1. CASE Last
      BY <1>1, <1>6, <2>1 DEF Serves
    <2>2. CASE ~Last
      <3>1. rcv'.state = "RECEIVE_READS"
        BY <1>3, <1>6, <2>2 DEF Types
      <3>2. p # << >> /\ p[1].k = rcv'.counter + 1 /\ p[1].r > 0
        BY <1>4, <1>6, <2>2
      <3> QED
        BY <1>1, <2>2, <3>1, <3>2 DEF Serves
    <2> QED
      BY <2>1, <2>2
  <1>15. Gathered'
    <2> DEFINE b == Len(pbuffer)
               t == Len(tx.words)
    <2>0. b \in Nat /\ t \in Nat /\ t + b = c /\ Len(pbuffer') = b + 1
      BY <1>7, <1>13
    <2>1. ASSUME NEW i \in 1 .. b + 1
          PROVE  pbuffer'[i] = [data |-> Reg(t + i), count |-> asked.count,
                                last |-> t + i = asked.count]
      <3>1. CASE i \in 1 .. b
        BY <1>7, <1>13, <3>1 DEF Gathered
      <3>2. CASE i = b + 1
        <4> HIDE DEF b, t, c
        <4>1. t + i = c + 1
          BY <2>0, <3>2
        <4>2. pbuffer'[i] = w
          BY <1>13, <3>2 DEF b
        <4> QED
          BY <1>12, <4>1, <4>2
      <3> HIDE DEF b, t
      <3>3. i \in 1 .. b \/ i = b + 1
        BY <2>0
      <3> QED
        BY <3>1, <3>2, <3>3
    <2>2. tx' = tx /\ asked' = asked /\ \A i : Reg(i)' = Reg(i)
      BY <1>1 DEF Reg
    <2> QED
      BY <1>7, <2>0, <2>1, <2>2 DEF Gathered
  <1>16. Sends'
    <2>1. pbuffer' # << >>
      BY <1>13, EmptySeq
    <2> QED
      BY <1>1, <1>7, <2>1 DEF Sends
  <1>17. Len(tx'.words) + Len(pbuffer') = Done(p)'
    <2>1. Done(p)' = c + 1
      <3>1. CASE Last
        BY <1>1, <1>10, <3>1 DEF Done, Unread
      <3>2. CASE ~Last
        <4>1. rcv'.state = "RECEIVE_READS" /\ rcv'.counter = c + 1
          BY <1>3, <1>6, <3>2 DEF Types
        <4> QED
          BY <1>10, <3>2, <4>1 DEF Done, Unread
      <3> QED
        BY <3>1, <3>2
    <2>2. Len(tx.words) + (Len(pbuffer) + 1) = c + 1
      <3> DEFINE t == Len(tx.words)
                 b == Len(pbuffer)
      <3>1. t \in Nat /\ b \in Nat /\ t + b = c
        BY <1>7, <1>13
      <3> HIDE DEF t, b, c
      <3>2. t + (b + 1) = c + 1
        BY <3>1
      <3> QED
        BY <3>2 DEF t, b
    <2> QED
      BY <1>1, <1>13, <2>1, <2>2
  <1>18. Reply(p)'
    <2>1. Waits' /\ ~Delivered' /\ master'.state # "SEND_DATA"
      BY <1>1, <1>5, <1>7 DEF Waits, Delivered
    <2>2. Delivery'
      BY <2>1 DEF Delivery, Delivered
    <2> QED
      BY <1>15, <1>16, <1>17, <2>1, <2>2 DEF Reply
  <1>19. Types' /\ ReadMatches'
    <2>1. Len(pbuffer') <= Depth
      BY <1>1, <1>13, DepthAssumption
    <2>2. master' \in [state : {"IDLE", "WRITE_DATA", "READ_DATA", "SEND_DATA"}, data : Value]
      BY <1>1, ValueAssumption
    <2>3. Types'
      BY <1>1, <1>6, <1>13, <2>1, <2>2 DEF Types, Span
    <2>4. ReadMatches'
      BY <1>1 DEF ReadMatches
    <2> QED
      BY <2>3, <2>4
  <1> QED
    BY <1>6, <1>8, <1>9, <1>14, <1>18, <1>19 DEF IInv, Flow

-----------------------------------------------------------------------------
(* The sender and the way out. *)

(* No more is read than was asked for, and all of it with the last word.    *)
LEMMA Bounded ==
  ASSUME Types, NEW q \in Seq(Unit), Flow(q)
  PROVE  /\ Done(q) \in Nat /\ Done(q) <= asked.count
         /\ Done(q) = asked.count => ~Unread(q)
  <1>0. asked.count \in Nat /\ rcv.counter \in Nat
    BY DEF Types
  <1>1. Serves(q) /\ Asks(q)
    BY DEF Flow
  <1>2. CASE ~Unread(q)
    BY <1>0, <1>2 DEF Done
  <1>3. CASE Unread(q) /\ rcv.state = "RECEIVE_READS"
    <2>1. Done(q) = rcv.counter
      BY <1>3 DEF Done
    <2>2. q # << >> /\ q[1].k = rcv.counter + 1 /\ q[1].r > 0
      BY <1>1, <1>3 DEF Serves
    <2>3. Len(q) \in Nat /\ 1 \in 1 .. Len(q)
      <3>1. Len(q) \in Nat \ {0}
        BY <2>2, EmptySeq
      <3> QED
        BY <3>1
    <2>4. Size(q[1]) = asked.count /\ q[1] \in Unit
      BY <1>1, <2>2, <2>3, ReadOnly, ElementOfSeq
    <2>5. rcv.counter + 1 <= asked.count
      <3>1. q[1].k \in -1 .. Size(q[1])
        BY <2>4, UnitFields
      <3> QED
        BY <1>0, <2>2, <2>4, <3>1
    <2> QED
      BY <1>0, <2>1, <2>5
  <1>4. CASE Unread(q) /\ rcv.state # "RECEIVE_READS"
    <2>1. Done(q) = 0
      BY <1>4 DEF Done
    <2>2. Len(q) \in 1 .. Len(q) /\ q[Len(q)].r > 0
      <3>1. Len(q) \in Nat \ {0} /\ q[Len(q)].r > 0
        BY <1>4, EmptySeq DEF Unread
      <3> QED
        BY <3>1
    <2>3. q[Len(q)].r = asked.count
      BY <1>1, <2>2 DEF Asks
    <2> QED
      BY <1>0, <2>1, <2>2, <2>3
  <1> QED
    BY <1>2, <1>3, <1>4

(* What the way out does is nothing to the words on their way in. *)
LEMMA InwardKept ==
  ASSUME NEW q, Flow(q),
         UNCHANGED <<down, rx, fifo, rcv, master, mem, doing, asked, regs>>
  PROVE  /\ Holds(q)' /\ Chain(q) /\ Enters(q)' /\ Headed(q)'
         /\ Serves(q)' /\ Landing(q)' /\ Asks(q)'
         /\ Unread(q)' = Unread(q) /\ Done(q)' = Done(q) /\ Waits' = Waits
         /\ \A i : Reg(i)' = Reg(i)
         /\ (master.state = "SEND_DATA" => master.data = Reg(rcv.counter + 1))'
  <1>1. Flow(q)
    OBVIOUS
  <1>2. Holds(q)' /\ Enters(q)' /\ Headed(q)' /\ Serves(q)'
    BY DEF Flow, Holds, Enters, Headed, Serves
  <1>3. Landing(q)' /\ Asks(q)' /\ Waits' = Waits /\ Unread(q)' = Unread(q)
    BY DEF Flow, Landing, Asks, Waits, Unread
  <1>4. Done(q)' = Done(q) /\ \A i : Reg(i)' = Reg(i)
    BY DEF Done, Unread, Reg
  <1>5. (master.state = "SEND_DATA" => master.data = Reg(rcv.counter + 1))'
    BY <1>4 DEF Flow, Reply
  <1> QED
    BY <1>2, <1>3, <1>4, <1>5 DEF Flow

(* There is something to send only while a read waits for its answer. *)
LEMMA Sending ==
  ASSUME NEW q, Reply(q), snd # "IDLE" \/ pbuffer # << >> \/ tx.state # "IDLE"
  PROVE  Waits /\ ~Delivered /\ Gathered /\ Sends /\ Len(tx.words) + Len(pbuffer) = Done(q)
  BY DEF Reply, Resting

(* The sender begins when there is a word. *)
LEMMA SenderStep ==
  ASSUME Types, ReadMatches, NEW q \in Seq(Unit), Flow(q), SenderIdle, UNCHANGED hostVars
  PROVE  IInv'
  <1>1. /\ snd = "IDLE" /\ pbuffer # << >> /\ snd' = "SEND_BASE_ADDRESS"
        /\ UNCHANGED <<down, rx, fifo, rcv, master, mem, pbuffer, tx, up>>
        /\ UNCHANGED <<lang, doing, asked, got, regs>>
    BY DEF SenderIdle, inVars, accessVars, hostVars
  <1>2. /\ Holds(q)' /\ Chain(q) /\ Enters(q)' /\ Headed(q)' /\ Serves(q)'
        /\ Landing(q)' /\ Asks(q)' /\ Done(q)' = Done(q) /\ Waits' = Waits
        /\ (master.state = "SEND_DATA" => master.data = Reg(rcv.counter + 1))'
    BY <1>1, InwardKept
  <1>3. /\ Waits /\ ~Delivered /\ Gathered /\ Sends
        /\ Len(tx.words) + Len(pbuffer) = Done(q)
    BY <1>1, Sending DEF Flow
  <1>4. Waits' /\ ~Delivered' /\ Gathered' /\ Sends'
    BY <1>1, <1>2, <1>3 DEF Delivered, Gathered, Sends, Reg
  <1>5. Reply(q)'
    BY <1>1, <1>2, <1>3, <1>4 DEF Reply, Delivery, Delivered
  <1>6. Types' /\ ReadMatches'
    BY <1>1 DEF Types, ReadMatches
  <1> QED
    BY <1>2, <1>5, <1>6 DEF IInv, Flow

(* The packet of the answer begins, with the length of the whole answer. *)
LEMMA PacketStep ==
  ASSUME Types, ReadMatches, NEW q \in Seq(Unit), Flow(q), Room, TxIdle, UNCHANGED hostVars
  PROVE  IInv'
  <1>1. /\ tx.state = "IDLE" /\ snd = "SEND_BASE_ADDRESS" /\ Len(up) < MaxUp
        /\ tx' = [state |-> "SEND", length |-> Length, words |-> << >>]
        /\ UNCHANGED <<down, rx, fifo, rcv, master, mem, pbuffer, snd, up>>
        /\ UNCHANGED <<lang, doing, asked, got, regs>>
    BY DEF TxIdle, Room, inVars, accessVars, hostVars
  <1>2. /\ Holds(q)' /\ Chain(q) /\ Enters(q)' /\ Headed(q)' /\ Serves(q)'
        /\ Landing(q)' /\ Asks(q)' /\ Done(q)' = Done(q) /\ Waits' = Waits
        /\ (master.state = "SEND_DATA" => master.data = Reg(rcv.counter + 1))'
    BY <1>1, InwardKept
  <1>3. /\ Waits /\ ~Delivered /\ Gathered /\ Sends
        /\ Len(tx.words) + Len(pbuffer) = Done(q)
    BY <1>1, Sending DEF Flow
  <1>4. pbuffer # << >> /\ tx.words = << >> /\ tx'.words = << >>
    BY <1>1, <1>3 DEF Sends
  <1>5. Length = 16 + 4 * asked.count
    <2>1. Len(pbuffer) \in Nat \ {0} /\ Head(pbuffer) = pbuffer[1]
      BY <1>4, EmptySeq, HeadTailProperties DEF Types
    <2>2. 1 \in 1 .. Len(pbuffer)
      BY <2>1
    <2>3. Head(pbuffer).count = asked.count /\ asked.count \in Nat
      <3>1. pbuffer[1] = [data |-> Reg(Len(tx.words) + 1), count |-> asked.count,
                          last |-> Len(tx.words) + 1 = asked.count]
        BY <1>3, <2>2 DEF Gathered
      <3>2. pbuffer[1].count = asked.count
        <4> DEFINE h == pbuffer[1]
                   x == Reg(Len(tx.words) + 1)
                   y == Len(tx.words) + 1 = asked.count
        <4>1. h = [data |-> x, count |-> asked.count, last |-> y]
          BY <3>1
        <4> HIDE DEF h, x, y
        <4>2. h.count = asked.count
          BY <4>1, Zenon
        <4> QED
          BY <4>2 DEF h
      <3> QED
        BY <2>1, <3>2 DEF Types
    <2> QED
      BY <2>3 DEF Length
  <1>6. tx' = [state |-> "SEND", length |-> 16 + 4 * asked.count, words |-> << >>]
    BY <1>1, <1>5
  <1>7. Waits' /\ ~Delivered' /\ Gathered' /\ Sends'
    <2>1. Waits' /\ ~Delivered'
      BY <1>1, <1>2, <1>3 DEF Delivered
    <2>2. Gathered'
      BY <1>1, <1>3, <1>4 DEF Gathered, Reg
    <2>3. Sends'
      BY <1>1, <1>3, <1>4, <1>6 DEF Sends
    <2> QED
      BY <2>1, <2>2, <2>3
  <1>8. Reply(q)'
    <2>1. Len(tx'.words) + Len(pbuffer') = Done(q)'
      BY <1>1, <1>2, <1>3, <1>4
    <2> QED
      BY <1>2, <1>7, <2>1 DEF Reply, Delivery, Delivered
  <1>9. Types' /\ ReadMatches'
    <2>1. tx' \in [state : {"IDLE", "SEND"}, length : Nat, words : Seq(Value)]
      <3>1. 16 + 4 * asked.count \in Nat
        <4>1. asked.count \in Nat
          BY DEF Types
        <4> QED
          BY <4>1
      <3> QED
        BY <1>6, <3>1, EmptySeq
    <2> QED
      BY <1>1, <2>1 DEF Types, ReadMatches
  <1> QED
    BY <1>2, <1>8, <1>9 DEF IInv, Flow

(* The base address goes out. *)
LEMMA BaseStep ==
  ASSUME Types, ReadMatches, NEW q \in Seq(Unit), Flow(q), SendBaseAddress, UNCHANGED hostVars
  PROVE  IInv'
  <1>1. /\ tx.state = "SEND" /\ snd = "SEND_BASE_ADDRESS" /\ snd' = "SEND_DATA"
        /\ UNCHANGED <<down, rx, fifo, rcv, master, mem, pbuffer, tx, up>>
        /\ UNCHANGED <<lang, doing, asked, got, regs>>
    BY DEF SendBaseAddress, inVars, accessVars, hostVars
  <1>2. /\ Holds(q)' /\ Chain(q) /\ Enters(q)' /\ Headed(q)' /\ Serves(q)'
        /\ Landing(q)' /\ Asks(q)' /\ Done(q)' = Done(q) /\ Waits' = Waits
        /\ (master.state = "SEND_DATA" => master.data = Reg(rcv.counter + 1))'
    BY <1>1, InwardKept
  <1>3. /\ Waits /\ ~Delivered /\ Gathered /\ Sends
        /\ Len(tx.words) + Len(pbuffer) = Done(q)
    BY <1>1, Sending DEF Flow
  <1>4. Len(tx.words) < asked.count
    <2>1. Len(tx.words) = 0 /\ Len(pbuffer) \in Nat \ {0}
      BY <1>1, <1>3, EmptySeq DEF Sends, Types
    <2>2. Done(q) \in Nat /\ Done(q) <= asked.count
      BY Bounded
    <2>3. asked.count \in Nat
      BY DEF Types
    <2> QED
      BY <1>3, <2>1, <2>2, <2>3
  <1>5. Waits' /\ ~Delivered' /\ Gathered' /\ Sends'
    BY <1>1, <1>2, <1>3, <1>4 DEF Delivered, Gathered, Sends, Reg
  <1>6. Reply(q)'
    BY <1>1, <1>2, <1>3, <1>5 DEF Reply, Delivery, Delivered
  <1>7. Types' /\ ReadMatches'
    BY <1>1 DEF Types, ReadMatches
  <1> QED
    BY <1>2, <1>6, <1>7 DEF IInv, Flow

(* A word of the answer goes out; the last one ends the packet. *)
LEMMA WordStep ==
  ASSUME Types, ReadMatches, NEW q \in Seq(Unit), Flow(q), SendWord, UNCHANGED hostVars
  PROVE  IInv'
  <1>0. PICK t, b, ws, packet :
          /\ t = Len(tx.words) /\ b = Len(pbuffer)
          /\ ws = Append(tx.words, Head(pbuffer).data)
          /\ packet = [stream |-> "wishbone", length |-> tx.length, words |-> ws]
    OBVIOUS
  <1> DEFINE h == Head(pbuffer)
             n == asked.count
  <1>1. /\ snd = "SEND_DATA" /\ pbuffer # << >> /\ pbuffer' = Tail(pbuffer)
        /\ IF h.last
             THEN /\ up' = Append(up, packet) /\ snd' = "IDLE"
                  /\ tx' = [state |-> "IDLE", length |-> 0, words |-> << >>]
             ELSE tx' = [tx EXCEPT !.words = ws] /\ snd' = snd /\ up' = up
        /\ UNCHANGED <<down, rx, fifo, rcv, master, mem>>
        /\ UNCHANGED <<lang, doing, asked, got, regs>>
    BY <1>0 DEF SendWord, inVars, accessVars, hostVars
  <1>2. /\ Holds(q)' /\ Chain(q) /\ Enters(q)' /\ Headed(q)' /\ Serves(q)'
        /\ Landing(q)' /\ Asks(q)' /\ Done(q)' = Done(q) /\ Waits' = Waits
        /\ Unread(q)' = Unread(q)
        /\ (master.state = "SEND_DATA" => master.data = Reg(rcv.counter + 1))'
    BY <1>1, InwardKept
  <1>3. /\ Waits /\ ~Delivered /\ Gathered /\ Sends /\ t + b = Done(q)
    BY <1>0, <1>1, Sending DEF Flow
  <1>4. tx.state = "SEND" /\ t < n /\ tx.length = 16 + 4 * n /\ Len(up) < MaxUp
    BY <1>0, <1>1, <1>3 DEF Sends
  <1>5. /\ t \in Nat /\ b \in Nat \ {0} /\ n \in Nat /\ h = pbuffer[1]
        /\ Len(pbuffer') = b - 1 /\ \A i \in 1 .. b - 1 : pbuffer'[i] = pbuffer[i + 1]
        /\ pbuffer' \in Seq([data : Value, count : Nat, last : BOOLEAN])
        /\ h \in [data : Value, count : Nat, last : BOOLEAN]
    <2>1. /\ pbuffer \in Seq([data : Value, count : Nat, last : BOOLEAN])
          /\ tx.words \in Seq(Value) /\ n \in Nat
      BY DEF Types
    <2>2. b \in Nat \ {0} /\ t \in Nat
      BY <1>0, <1>1, <2>1, EmptySeq, LenProperties
    <2>3. /\ Len(pbuffer') = b - 1 /\ \A i \in 1 .. b - 1 : pbuffer'[i] = pbuffer[i + 1]
          /\ pbuffer' \in Seq([data : Value, count : Nat, last : BOOLEAN])
          /\ h = pbuffer[1]
      BY <1>0, <1>1, <2>1, HeadTailProperties
    <2>4. pbuffer[1] \in [data : Value, count : Nat, last : BOOLEAN]
      <3>1. 1 \in 1 .. b
        BY <2>2
      <3> QED
        BY <1>0, <2>1, <3>1, ElementOfSeq
    <2> QED
      BY <2>1, <2>2, <2>3, <2>4
  <1>6. h.data = Reg(t + 1) /\ h.last = (t + 1 = n)
    <2>1. 1 \in 1 .. b
      BY <1>5
    <2>2. h = [data |-> Reg(t + 1), count |-> n, last |-> t + 1 = n]
      BY <1>0, <1>3, <1>5, <2>1 DEF Gathered
    <2> HIDE DEF h
    <2> QED
      BY <2>2, Zenon
  <1>7. /\ ws \in Seq(Value) /\ Len(ws) = t + 1 /\ ws[t + 1] = Reg(t + 1)
        /\ \A i \in 1 .. t : ws[i] = Reg(i)
    <2>1. tx.words \in Seq(Value) /\ h.data \in Value
      BY <1>5 DEF Types
    <2>2. \A i \in 1 .. t : tx.words[i] = Reg(i)
      BY <1>0, <1>3 DEF Gathered
    <2>3. ws = Append(tx.words, h.data)
      BY <1>0
    <2> HIDE DEF h
    <2> QED
      BY <1>0, <1>6, <2>1, <2>2, <2>3, AppendProperties
  <1>8. \A i \in 1 .. t + 1 : ws[i] = Reg(i)
    <2> HIDE DEF h
    <2>1. \A i \in 1 .. t + 1 : i \in 1 .. t \/ i = t + 1
      BY <1>5
    <2> QED
      BY <1>7, <2>1
  <1>9. b <= n - t /\ Done(q) \in Nat /\ Done(q) <= n
    <2> HIDE DEF n
    <2>1. Done(q) \in Nat /\ Done(q) <= n
      BY Bounded DEF n
    <2> QED
      BY <1>3, <1>5, <2>1
  <1>10. \A i : Reg(i)' = Reg(i)
    BY <1>1 DEF Reg
  <1>11. Len(pbuffer') <= Depth
    BY <1>0, <1>5, DepthAssumption DEF Types
  <1> HIDE DEF h, n
  <1>12. ASSUME t + 1 = n PROVE Reply(q)' /\ Types'
    <2>1. /\ up' = Append(up, packet) /\ snd' = "IDLE"
          /\ tx' = [state |-> "IDLE", length |-> 0, words |-> << >>]
      <3>1. h.last
        BY <1>6, <1>12
      <3> QED
        BY <1>1, <3>1
    <2>2. b = 1 /\ pbuffer' = << >> /\ Done(q) = n
      <3>1. b = 1 /\ Done(q) = n
        BY <1>3, <1>5, <1>9, <1>12
      <3> QED
        BY <1>5, <3>1, EmptySeq
    <2>3. ~Unread(q)
      BY <2>2, Bounded DEF n
    <2>4. packet \in Packet
      <3>1. 16 + 4 * n \in Nat
        BY <1>5
      <3> QED
        BY <1>0, <1>4, <1>7, <3>1 DEF Packet
    <2>5. /\ up' \in Seq(Packet) /\ Len(up') = Len(up) + 1 /\ up'[Len(up) + 1] = packet
          /\ \A i \in 1 .. Len(up) : up'[i] = up[i]
          /\ Len(up) \in Nat
      BY <2>1, <2>4, AppendProperties, LenProperties DEF Types
    <2>6. Resting'
      BY <2>1, <2>2 DEF Resting
    <2>7. Answers(packet)'
      <3>1. Len(packet.words) = n /\ packet.length = 16 + 4 * n
        BY <1>0, <1>4, <1>7, <1>12
      <3>2. \A i \in 1 .. n : packet.words[i] = Reg(i)
        BY <1>0, <1>8, <1>12
      <3>3. n' = n
        BY <1>1 DEF n
      <3> QED
        BY <1>10, <3>1, <3>2, <3>3 DEF Answers, n
    <2>8. \A i \in 1 .. Len(up) : up'[i].stream # "wishbone"
      BY <1>3, <2>5 DEF Delivered
    <2>9. Delivery'
      <3> SUFFICES ASSUME NEW i \in 1 .. Len(up) + 1, up'[i].stream = "wishbone"
                   PROVE  Answers(up[i])' /\ \A x \in 1 .. Len(up) + 1 :
                            up'[x].stream = "wishbone" => x = i
        BY <2>5 DEF Delivery
      <3>1. \A x \in 1 .. Len(up) + 1 : up'[x].stream = "wishbone" => x = Len(up) + 1
        <4> SUFFICES ASSUME NEW x \in 1 .. Len(up) + 1, x # Len(up) + 1
                     PROVE  x \in 1 .. Len(up)
          BY <2>8
        <4> QED
          BY <2>5
      <3>2. i = Len(up) + 1
        BY <3>1
      <3> QED
        BY <2>5, <2>7, <3>1, <3>2 DEF Answers
    <2>10. Waits'
      BY <1>2, <1>3
    <2>11. Delivered'
      <3>1. up'[Len(up) + 1].stream = "wishbone" /\ Len(up) + 1 \in 1 .. Len(up')
        BY <1>0, <2>5
      <3> QED
        BY <3>1 DEF Delivered
    <2>12. Reply(q)'
      BY <1>2, <2>3, <2>6, <2>9, <2>10, <2>11 DEF Reply
    <2>13. Types'
      <3>1. tx' \in [state : {"IDLE", "SEND"}, length : Nat, words : Seq(Value)]
        BY <2>1, EmptySeq
      <3>2. Len(up') <= MaxUp
        BY <1>4, <2>5, RoadAssumption
      <3> QED
        BY <1>1, <1>5, <1>11, <2>1, <2>5, <3>1, <3>2 DEF Types
    <2> QED
      BY <2>12, <2>13
  <1>13. ASSUME t + 1 # n PROVE Reply(q)' /\ Types'
    <2>1. tx' = [tx EXCEPT !.words = ws] /\ snd' = snd /\ up' = up
      <3>1. ~h.last
        BY <1>6, <1>13
      <3> QED
        BY <1>1, <3>1
    <2>2. /\ tx' \in [state : {"IDLE", "SEND"}, length : Nat, words : Seq(Value)]
          /\ tx'.words = ws /\ tx'.state = tx.state /\ tx'.length = tx.length
      BY <1>7, <2>1 DEF Types
    <2>3. Gathered'
      <3>1. ASSUME NEW i \in 1 .. b - 1
            PROVE  pbuffer'[i] = [data |-> Reg((t + 1) + i), count |-> n,
                                  last |-> (t + 1) + i = n]
        <4>1. i + 1 \in 1 .. b /\ t + (i + 1) = (t + 1) + i
          BY <1>5
        <4>2. pbuffer[i + 1] = [data |-> Reg(t + (i + 1)), count |-> n,
                                last |-> t + (i + 1) = n]
          BY <1>0, <1>3, <4>1 DEF Gathered, n
        <4> QED
          BY <1>5, <4>1, <4>2
      <3>2. n' = n
        BY <1>1 DEF n
      <3> QED
        BY <1>5, <1>7, <1>8, <1>10, <2>2, <3>1, <3>2 DEF Gathered, n
    <2>4. Sends'
      <3>1. t + 1 < n
        BY <1>4, <1>5, <1>13
      <3>2. n' = n
        BY <1>1 DEF n
      <3> QED
        BY <1>1, <1>4, <1>7, <2>1, <2>2, <3>1, <3>2 DEF Sends, n
    <2>5. Len(tx'.words) + Len(pbuffer') = Done(q)'
      <3>1. (t + 1) + (b - 1) = t + b
        BY <1>5
      <3> QED
        BY <1>2, <1>3, <1>5, <1>7, <2>2, <3>1
    <2>6. Waits' /\ ~Delivered' /\ Delivery'
      BY <1>2, <1>3, <2>1 DEF Delivery, Delivered
    <2>7. Reply(q)'
      BY <1>2, <2>3, <2>4, <2>5, <2>6 DEF Reply
    <2>8. Types'
      BY <1>1, <1>5, <1>11, <2>1, <2>2 DEF Types
    <2> QED
      BY <2>7, <2>8
  <1>14. ReadMatches'
    BY <1>1 DEF ReadMatches
  <1> QED
    BY <1>2, <1>12, <1>13, <1>14 DEF IInv, Flow

-----------------------------------------------------------------------------
(* The requests. *)

(* The words of a record of w writes or r reads. *)
Record(base, w, r, words) ==
  [i \in 1 .. w + r + 2 |->
     [w |-> w, r |-> r, base |-> base, k |-> i - 2,
      data |-> IF i <= 2 THEN base ELSE words[i - 2]]]
Proper(base, w, r, words) ==
  /\ base \in Nat /\ w \in Nat /\ r \in Nat /\ ((w = 0 /\ r > 0) \/ (w > 0 /\ r = 0))
  /\ words \in Seq(Nat \union Value) /\ Len(words) = w + r
  /\ \A i \in 1 .. w : base + i - 1 \in Addr /\ words[i] \in Value
  /\ \A i \in 1 .. r : words[i] \in Addr

Words(R, base, w, r, words) ==
  /\ R \in Seq(Unit) /\ Len(R) = w + r + 2
  /\ \A i \in 1 .. w + r + 2 :
       /\ R[i] \in Unit /\ R[i].w = w /\ R[i].r = r /\ R[i].base = base /\ R[i].k = i - 2
       /\ Size(R[i]) = w + r
       /\ i > 2 => R[i].data = words[i - 2]

(* They are words as they may be on their way. *)
LEMMA RecordUnits ==
  ASSUME NEW base, NEW w, NEW r, NEW words, Proper(base, w, r, words)
  PROVE  Words(Record(base, w, r, words), base, w, r, words)
  <1> DEFINE m == w + r + 2
             R == Record(base, w, r, words)
             e(i) == [w |-> w, r |-> r, base |-> base, k |-> i - 2,
                      data |-> IF i <= 2 THEN base ELSE words[i - 2]]
  <1>1. /\ base \in Nat /\ w \in Nat /\ r \in Nat /\ ((w = 0 /\ r > 0) \/ (w > 0 /\ r = 0))
        /\ words \in Seq(Nat \union Value) /\ Len(words) = w + r
        /\ \A i \in 1 .. w : base + i - 1 \in Addr /\ words[i] \in Value
        /\ \A i \in 1 .. r : words[i] \in Addr
    BY DEF Proper
  <1>2. m \in Nat
    BY <1>1
  <1>3. R = [i \in 1 .. m |-> e(i)]
    BY DEF Record
  <1>4. ASSUME NEW i \in 1 .. m
        PROVE  /\ e(i) \in Unit /\ e(i).w = w /\ e(i).r = r /\ e(i).base = base /\ e(i).k = i - 2
               /\ Size(e(i)) = w + r
               /\ i > 2 => e(i).data = words[i - 2]
    <2> DEFINE x == IF i <= 2 THEN base ELSE words[i - 2]
               u == [w |-> w, r |-> r, base |-> base, k |-> i - 2, data |-> x]
    <2>1. i - 2 \in Int /\ i - 2 \in -1 .. w + r /\ (i > 2 => i - 2 \in 1 .. w + r)
      BY <1>1
    <2>2. i > 2 => words[i - 2] \in Nat \union Value /\ x = words[i - 2]
      BY <1>1, <2>1, ElementOfSeq
    <2>3. x \in Nat \union Value
      BY <1>1, <2>1, <2>2
    <2>4. i = 2 => x = base
      OBVIOUS
    <2>5. w > 0 /\ i - 2 > 0 => base + (i - 2) - 1 \in Addr /\ x \in Value
      <3> SUFFICES ASSUME w > 0, i - 2 > 0 PROVE base + (i - 2) - 1 \in Addr /\ x \in Value
        OBVIOUS
      <3>1. i - 2 \in 1 .. w /\ i > 2
        BY <1>1
      <3> HIDE DEF x
      <3> QED
        BY <1>1, <2>2, <3>1
    <2>6. r > 0 /\ i - 2 > 0 => x \in Addr
      <3> SUFFICES ASSUME r > 0, i - 2 > 0 PROVE x \in Addr
        OBVIOUS
      <3>1. i - 2 \in 1 .. r /\ i > 2
        BY <1>1
      <3> HIDE DEF x
      <3> QED
        BY <1>1, <2>2, <3>1
    <2> HIDE DEF x
    <2>7. /\ u \in [w : Nat, r : Nat, base : Nat, k : Int, data : Nat \union Value]
          /\ u.w = w /\ u.r = r /\ u.base = base /\ u.k = i - 2 /\ u.data = x
          /\ Size(u) = w + r /\ Place(u) = base + (i - 2) - 1
      BY <1>1, <2>1, <2>3 DEF Size, Place
    <2>8. i - 2 = 0 => x = base
      <3>1. i - 2 = 0 => i = 2
        OBVIOUS
      <3> QED
        BY <2>4, <3>1
    <2> HIDE DEF u
    <2>9. u \in Unit
      BY <1>1, <2>1, <2>5, <2>6, <2>7, <2>8 DEF Unit
    <2>10. e(i) = u
      BY DEF u, x
    <2> HIDE DEF e
    <2> QED
      BY <2>2, <2>7, <2>9, <2>10
  <1> HIDE DEF e, m
  <1>5. R \in [1 .. m -> Unit] /\ \A i \in 1 .. m : R[i] = e(i)
    BY <1>3, <1>4
  <1> HIDE DEF R
  <1>6. R \in Seq(Unit) /\ Len(R) = m
    BY <1>2, <1>5
  <1>7. \A i \in 1 .. m :
          /\ R[i] \in Unit /\ R[i].w = w /\ R[i].r = r /\ R[i].base = base /\ R[i].k = i - 2
          /\ Size(R[i]) = w + r
          /\ i > 2 => R[i].data = words[i - 2]
    BY <1>4, <1>5
  <1>8. Words(R, base, w, r, words)
    BY <1>6, <1>7 DEF Words, m
  <1> QED
    BY <1>8 DEF R

(* The packet of a request is made of them. *)
LEMMA RecordSent ==
  ASSUME NEW base, NEW w, NEW r, NEW words, Proper(base, w, r, words)
  PROVE  /\ Request(base, w, r, words) \in Seq(OnRoad)
         /\ Len(Request(base, w, r, words)) = w + r + 2
         /\ \A i \in 1 .. w + r + 2 :
              Request(base, w, r, words)[i] = InDown(Record(base, w, r, words)[i])
  <1> DEFINE n == w + r
             R == Record(base, w, r, words)
             Q == Request(base, w, r, words)
             A == << [wcount |-> w, rcount |-> r], [data |-> base, last |-> FALSE] >>
             d(i) == [data |-> words[i], last |-> i = n]
             B == [i \in 1 .. n |-> d(i)]
  <1>1. n \in Nat \ {0} /\ Len(words) = n /\ base \in Nat
    BY DEF Proper
  <1>2. /\ R \in Seq(Unit) /\ Len(R) = n + 2
        /\ \A i \in 1 .. n + 2 :
             /\ R[i] \in Unit /\ R[i].w = w /\ R[i].r = r /\ R[i].base = base /\ R[i].k = i - 2
             /\ Size(R[i]) = n
             /\ i > 2 => R[i].data = words[i - 2]
    <2>1. Words(R, base, w, r, words)
      BY RecordUnits
    <2> HIDE DEF R
    <2> QED
      BY <2>1 DEF Words
  <1>3. Q = A \o B
    BY <1>1 DEF Request
  <1> HIDE DEF R, n
  <1>4. 1 \in 1 .. n + 2 /\ 2 \in 1 .. n + 2 /\ (\A i \in 1 .. n : i + 2 \in 1 .. n + 2)
    BY <1>1
  <1>5. A[1] = InDown(R[1]) /\ A[2] = InDown(R[2])
    <2>1. R[1].k = -1 /\ R[1].w = w /\ R[1].r = r
      BY <1>2, <1>4
    <2>2. R[2].k = 0 /\ R[2].data = base /\ Size(R[2]) = n
      BY <1>2, <1>4, UnitFields
    <2>3. (R[2].k = Size(R[2])) = FALSE
      BY <1>1, <2>2
    <2>4. InDown(R[1]) = [wcount |-> w, rcount |-> r]
      BY <2>1 DEF InDown
    <2>5. InDown(R[2]) = [data |-> base, last |-> FALSE]
      <3>1. R[2].k # -1
        BY <2>2
      <3>2. InDown(R[2]) = [data |-> R[2].data, last |-> R[2].k = Size(R[2])]
        BY <3>1 DEF InDown
      <3> QED
        BY <2>2, <2>3, <3>2, Zenon
    <2> QED
      BY <2>4, <2>5
  <1>6. ASSUME NEW i \in 1 .. n PROVE d(i) = InDown(R[i + 2])
    <2>1. R[i + 2].k = i /\ R[i + 2].data = words[i] /\ Size(R[i + 2]) = n /\ R[i + 2].k # -1
      BY <1>1, <1>2, <1>4
    <2>2. InDown(R[i + 2]) = [data |-> R[i + 2].data, last |-> R[i + 2].k = Size(R[i + 2])]
      BY <2>1 DEF InDown
    <2> QED
      BY <2>1, <2>2
  <1>7. A \in Seq(OnRoad) /\ Len(A) = 2
    <2>1. A[1] \in OnRoad /\ A[2] \in OnRoad
      BY <1>2, <1>4, <1>5 DEF OnRoad
    <2> QED
      BY <2>1
  <1> HIDE DEF d, A
  <1>8. B \in Seq(OnRoad) /\ Len(B) = n /\ \A i \in 1 .. n : B[i] = d(i)
    <2>1. \A i \in 1 .. n : d(i) \in OnRoad
      BY <1>2, <1>4, <1>6 DEF OnRoad
    <2>2. B \in [1 .. n -> OnRoad] /\ \A i \in 1 .. n : B[i] = d(i)
      BY <2>1
    <2> HIDE DEF B
    <2> QED
      BY <1>1, <2>2
  <1> HIDE DEF B
  <1>9. /\ Q \in Seq(OnRoad) /\ Len(Q) = 2 + n
        /\ \A i \in 1 .. 2 + n : Q[i] = IF i <= 2 THEN A[i] ELSE B[i - 2]
    <2> HIDE DEF Q
    <2>1. /\ A \o B \in Seq(OnRoad) /\ Len(A \o B) = Len(A) + Len(B)
          /\ \A i \in 1 .. Len(A) + Len(B) :
               (A \o B)[i] = IF i <= Len(A) THEN A[i] ELSE B[i - Len(A)]
      BY <1>7, <1>8, ConcatProperties
    <2> QED
      BY <1>3, <1>7, <1>8, <2>1
  <1> HIDE DEF Q
  <1>10. ASSUME NEW i \in 1 .. n + 2 PROVE Q[i] = InDown(R[i])
    <2>1. i \in 1 .. 2 + n
      BY <1>1
    <2>2. CASE i <= 2
      <3>1. i = 1 \/ i = 2
        BY <1>1, <2>2
      <3> QED
        BY <1>5, <1>9, <2>1, <2>2, <3>1
    <2>3. CASE i > 2
      <3>1. i - 2 \in 1 .. n /\ (i - 2) + 2 = i /\ ~(i <= 2)
        BY <1>1, <2>3
      <3> QED
        BY <1>6, <1>8, <1>9, <2>1, <3>1
    <2> QED
      BY <1>1, <2>2, <2>3
  <1>11. Q \in Seq(OnRoad) /\ Len(Q) = n + 2
    BY <1>1, <1>9
  <1> QED
    BY <1>10, <1>11 DEF Q, R, n

(* A request joins the road behind what is on its way already. *)
LEMMA Joined ==
  ASSUME Types, NEW q \in Seq(Unit), Flow(q),
         NEW base, NEW w, NEW r, NEW words, Proper(base, w, r, words),
         down' = down \o Request(base, w, r, words), UNCHANGED <<fifo, rx, rcv, master>>
  PROVE  LET p == q \o Record(base, w, r, words)
         IN  /\ p \in Seq(Unit) /\ Len(p) = Len(q) + (w + r + 2) /\ p # << >>
             /\ \A i \in 1 .. Len(q) : p[i] = q[i]
             /\ \A i \in 1 .. w + r + 2 : p[Len(q) + i] = Record(base, w, r, words)[i]
             /\ Holds(p)' /\ Chain(p) /\ Enters(p)' /\ Headed(p)' /\ Serves(p)'
             /\ down' \in Seq(OnRoad)
  <1>0. PICK f, d : f = Len(fifo) /\ d = Len(down)
    OBVIOUS
  <1> DEFINE n == Len(q)
             m == w + r + 2
             R == Record(base, w, r, words)
             Q == Request(base, w, r, words)
             p == q \o R
  <1>1. m \in Nat /\ m > 2 /\ w + r = m - 2
    BY DEF Proper
  <1>2. /\ R \in Seq(Unit) /\ Len(R) = m
        /\ \A i \in 1 .. m :
             /\ R[i].w = w /\ R[i].r = r /\ R[i].base = base /\ R[i].k = i - 2
             /\ Size(R[i]) = m - 2
    <2>1. Words(R, base, w, r, words)
      BY RecordUnits
    <2> HIDE DEF R
    <2> QED
      BY <1>1, <2>1 DEF Words
  <1>3. /\ Q \in Seq(OnRoad) /\ Len(Q) = m /\ \A i \in 1 .. m : Q[i] = InDown(R[i])
    BY RecordSent
  <1>4. /\ n \in Nat /\ f \in Nat /\ d \in Nat /\ n = f + d /\ down \in Seq(OnRoad)
        /\ \A i \in 1 .. f : q[i].k >= 0 /\ fifo[i] = InFifo(q[i])
        /\ \A i \in 1 .. d : down[i] = InDown(q[f + i])
    BY <1>0, LenProperties DEF Types, Flow, Holds
  <1>5. Chain(q) /\ Enters(q) /\ Headed(q) /\ Serves(q)
    BY DEF Flow
  <1> HIDE DEF m, n, R, Q
  <1>6. /\ p \in Seq(Unit) /\ Len(p) = n + m
        /\ \A i \in 1 .. n + m : p[i] = IF i <= n THEN q[i] ELSE R[i - n]
    BY <1>2, ConcatProperties DEF n
  <1>7. /\ down' \in Seq(OnRoad) /\ Len(down') = d + m
        /\ \A i \in 1 .. d + m : down'[i] = IF i <= d THEN down[i] ELSE Q[i - d]
    <2>1. down' = down \o Q
      BY DEF Q
    <2> QED
      BY <1>0, <1>3, <1>4, <2>1, ConcatProperties
  <1> HIDE DEF p
  <1>8. (\A i \in 1 .. n : p[i] = q[i]) /\ (\A i \in 1 .. m : p[n + i] = R[i])
    <2>1. \A i \in 1 .. n : i \in 1 .. n + m /\ i <= n
      BY <1>1, <1>4
    <2>2. \A i \in 1 .. m : n + i \in 1 .. n + m /\ ~(n + i <= n) /\ (n + i) - n = i
      BY <1>1, <1>4
    <2> QED
      BY <1>6, <2>1, <2>2
  <1>9. p # << >>
    <2>1. Len(p) # 0
      BY <1>1, <1>4, <1>6
    <2> QED
      BY <2>1, EmptySeq
  <1>10. Holds(p)'
    <2>1. n + m = f + (d + m)
      BY <1>1, <1>4
    <2>2. \A i \in 1 .. f : p[i] = q[i]
      BY <1>4, <1>8
    <2>3. ASSUME NEW i \in 1 .. d + m PROVE down'[i] = InDown(p[f + i])
      <3>1. CASE i <= d
        <4>1. i \in 1 .. d /\ f + i \in 1 .. n
          BY <1>1, <1>4, <3>1
        <4> QED
          BY <1>4, <1>7, <1>8, <3>1, <4>1
      <3>2. CASE ~(i <= d)
        <4>1. i - d \in 1 .. m /\ n + (i - d) = f + i
          BY <1>1, <1>4, <3>2
        <4>2. p[f + i] = R[i - d]
          BY <1>8, <4>1
        <4> QED
          BY <1>3, <1>7, <3>2, <4>1, <4>2
      <3> QED
        BY <3>1, <3>2
    <2>4. \A i \in 1 .. f : p[i].k >= 0 /\ fifo[i] = InFifo(p[i])
      BY <1>4, <2>2
    <2> QED
      BY <1>0, <1>6, <1>7, <2>1, <2>3, <2>4 DEF Holds
  <1>11. n > 0 => q # << >> /\ q[n].k = Size(q[n])
    <2>1. n > 0 => q # << >>
      BY EmptySeq DEF n
    <2> QED
      BY <1>5, <2>1 DEF Chain, n
  <1>12. R[1].k = -1 /\ p[n + 1].k = -1
    <2>1. 1 \in 1 .. m
      BY <1>1
    <2> QED
      BY <1>2, <1>8, <2>1
  <1>13. Chain(p)
    <2>1. ASSUME NEW i \in 1 .. (n + m) - 1 PROVE Follows(p[i], p[i + 1])
      <3>1. CASE i < n
        <4>1. i \in 1 .. n - 1 /\ i \in 1 .. n /\ i + 1 \in 1 .. n
          BY <1>1, <1>4, <3>1
        <4> QED
          BY <1>5, <1>8, <4>1 DEF Chain, n
      <3>2. CASE i = n
        <4>1. n > 0 /\ n \in 1 .. n
          BY <1>1, <1>4, <3>2
        <4>2. p[i].k = Size(p[i]) /\ p[i] \in Unit
          <5>1. q[n] \in Unit
            BY <4>1, ElementOfSeq DEF n
          <5> QED
            BY <1>8, <1>11, <3>2, <4>1, <5>1
        <4>3. ~(p[i].k < Size(p[i]))
          BY <4>2, UnitFields
        <4> QED
          BY <1>12, <3>2, <4>3 DEF Follows
      <3>3. CASE i > n
        <4>0. i \in Nat /\ i > n /\ i < n + m /\ n \in Nat /\ m \in Nat
          BY <1>1, <1>4, <3>3
        <4>1. i - n \in 1 .. m /\ (i - n) + 1 \in 1 .. m /\ n + (i - n) = i
              /\ n + ((i - n) + 1) = i + 1 /\ (i - n) - 2 < m - 2
              /\ ((i - n) + 1) - 2 = ((i - n) - 2) + 1
          BY ONLY <4>0
        <4>2. p[i] = R[i - n] /\ p[i + 1] = R[(i - n) + 1]
          BY <1>8, <4>1
        <4> QED
          BY <1>2, <4>1, <4>2 DEF Follows
      <3> QED
        BY <1>1, <1>4, <3>1, <3>2, <3>3
    <2>2. p[n + m].k = Size(p[n + m])
      <3>1. m \in 1 .. m
        BY <1>1
      <3> QED
        BY <1>2, <1>8, <3>1
    <2> QED
      BY <1>6, <2>1, <2>2 DEF Chain
  <1>14. Headed(p)'
    <2> SUFFICES ASSUME NEW i \in f + 1 .. (n + m) - 1, p[i].k = Size(p[i])
                 PROVE  p[i + 1].k = -1
      BY <1>0, <1>6 DEF Headed
    <2>1. CASE i < n
      <3>1. i \in f + 1 .. n - 1 /\ i \in 1 .. n /\ i + 1 \in 1 .. n
        BY <1>1, <1>4, <2>1
      <3> QED
        BY <1>0, <1>5, <1>8, <3>1 DEF Headed, n
    <2>2. CASE i = n
      BY <1>12, <2>2
    <2>3. CASE i > n
      <3>1. i - n \in 1 .. m /\ n + (i - n) = i /\ (i - n) - 2 # m - 2
        BY <1>1, <1>4, <2>3
      <3>2. p[i] = R[i - n]
        BY <1>8, <3>1
      <3> QED
        BY <1>2, <3>1, <3>2
    <2> QED
      BY <1>1, <1>4, <2>1, <2>2, <2>3
  <1>15. Enters(p)'
    <2>1. CASE d = 0
      <3>1. down = << >> /\ f = n
        <4>1. down # << >> => d \in Nat \ {0}
          BY <1>0, <1>4, EmptySeq
        <4> QED
          BY <1>4, <2>1, <4>1
      <3>2. rx.state = "IDLE"
        BY <1>5, <3>1 DEF Enters
      <3> QED
        BY <1>0, <1>12, <3>1, <3>2 DEF Enters
    <2>2. CASE d # 0
      <3>1. f + 1 \in 1 .. n /\ d \in Nat \ {0}
        BY <1>4, <2>2
      <3>2. p[f + 1] = q[f + 1]
        BY <1>8, <3>1
      <3>3. down # << >> /\ down' # << >>
        <4>1. Len(down') # 0
          BY <1>1, <1>4, <1>7
        <4>2. down # << >>
          BY <1>0, <2>2, EmptySeq
        <4> QED
          BY <1>7, <4>1, <4>2, EmptySeq
      <3> QED
        BY <1>0, <1>5, <3>2, <3>3 DEF Enters
    <2> QED
      BY <2>1, <2>2
  <1>16. Serves(p)'
    <2>1. CASE n = 0
      <3>1. q = << >>
        BY <1>4, <2>1, EmptySeq DEF n
      <3>2. p[1].k = -1
        BY <1>12, <2>1
      <3> QED
        BY <1>5, <1>9, <3>1, <3>2 DEF Serves
    <2>2. CASE n # 0
      <3>1. q # << >> /\ p[1] = q[1]
        <4>1. 1 \in 1 .. n /\ n > 0
          BY <1>4, <2>2
        <4> QED
          BY <1>8, <1>11, <4>1
      <3> QED
        BY <1>5, <1>9, <3>1 DEF Serves
    <2> QED
      BY <2>1, <2>2
  <1> QED
    BY <1>6, <1>7, <1>8, <1>9, <1>10, <1>13, <1>14, <1>15, <1>16 DEF p, n, m, R

(* A register gets what it was to get when more words come behind that do   *)
(* not write it, or else what the one that does has.                       *)
LEMMA JoinArrives ==
  ASSUME NEW q \in Seq(Unit), NEW p \in Seq(Unit), Len(q) \in Nat, Len(p) \in Nat,
         Len(q) <= Len(p), \A i \in 1 .. Len(q) : p[i] = q[i],
         NEW a, NEW r, NEW v
  PROVE  /\ Arrives(q, a, r, v) /\ (\A i \in Writes(p, a) : i <= Len(q)) =>
              Arrives(p, a, r, v)
         /\ \A x \in Writes(p, a) :
              /\ x > Len(q) /\ p[x].data = v
              /\ \A i \in Writes(p, a) : i <= Len(q) \/ i = x
              => Arrives(p, a, r, v)
  <1> DEFINE n == Len(q)
             V == Writes(p, a)
             W == Writes(q, a)
  <1>1. \A i \in V : i \in 1 .. Len(p)
    BY DEF Writes
  <1>2. ASSUME Arrives(q, a, r, v), \A i \in V : i <= n PROVE Arrives(p, a, r, v)
    <2>1. \A i \in 1 .. n : i \in 1 .. Len(p)
      OBVIOUS
    <2>2. \A i \in V : i \in 1 .. n
      BY <1>1, <1>2
    <2>3. V = W
      BY <2>1, <2>2 DEF Writes
    <2>4. \A i \in W : p[i] = q[i]
      BY DEF Writes
    <2> HIDE DEF V, W
    <2>5. /\ W = {} => r = v
          /\ \A i \in W : (\A j \in W : j <= i) => q[i].data = v
      BY <1>2 DEF Arrives, W
    <2> QED
      BY <2>3, <2>4, <2>5 DEF Arrives, V
  <1>3. ASSUME NEW x \in V, x > n, p[x].data = v, \A i \in V : i <= n \/ i = x
        PROVE  Arrives(p, a, r, v)
    <2>1. ASSUME NEW i \in V, \A j \in V : j <= i PROVE i = x
      <3>1. x <= i
        BY <2>1
      <3>2. i \in Nat /\ x \in Nat /\ n \in Nat
        BY <1>1
      <3> HIDE DEF n
      <3>3. ~(i <= n)
        BY <1>3, <3>1, <3>2
      <3> QED
        BY <1>3, <3>3
    <2>2. V # {}
      OBVIOUS
    <2> QED
      BY <1>3, <2>1, <2>2 DEF Arrives
  <1> QED
    BY <1>2, <1>3

(* When none is asked for there is no read on its way, nor in hand. *)
LEMMA NoReads ==
  ASSUME Types, NEW q \in Seq(Unit), Flow(q), ~Waits
  PROVE  /\ Len(q) \in Nat /\ ~Unread(q) /\ \A i \in 1 .. Len(q) : ~(q[i].r > 0)
         /\ rcv.state # "RECEIVE_READS" /\ master.state # "SEND_DATA"
         /\ Resting /\ ~Delivered
  <1>1. Asks(q) /\ Serves(q) /\ Reply(q)
    BY DEF Flow
  <1>2. Len(q) \in Nat /\ ~Unread(q) /\ Resting /\ ~Delivered
    BY <1>1, LenProperties DEF Asks, Reply
  <1>3. ASSUME NEW i \in 1 .. Len(q) PROVE ~(q[i].r > 0)
    <2>1. Len(q) \in 1 .. Len(q) /\ i <= Len(q) /\ q # << >>
      BY <1>2, EmptySeq
    <2>2. q[i].r > 0 => q[Len(q)].r > 0
      BY <1>1, <2>1 DEF Asks
    <2> QED
      BY <1>2, <2>1, <2>2 DEF Unread
  <1>4. rcv.state # "RECEIVE_READS"
    <2> SUFFICES ASSUME rcv.state = "RECEIVE_READS" PROVE FALSE
      OBVIOUS
    <2>1. q # << >> /\ q[1].r > 0
      BY <1>1 DEF Serves
    <2>2. 1 \in 1 .. Len(q)
      <3>1. Len(q) \in Nat \ {0}
        BY <2>1, EmptySeq
      <3> QED
        BY <3>1
    <2> QED
      BY <1>3, <2>1, <2>2
  <1>5. master.state # "SEND_DATA"
    BY <1>1, <1>4 DEF Serves, Types
  <1> QED
    BY <1>2, <1>3, <1>4, <1>5

(* A write is sent. *)
LEMMA AskWrite ==
  ASSUME Types, ReadMatches, NEW q \in Seq(Unit), Flow(q),
         NEW a \in Addr, NEW n \in Counts, EbWrite(a, n)
  PROVE  IInv'
  <1>1. PICK values \in [1 .. n -> Value] :
          /\ Send(Request(a, n, 0, values))
          /\ regs' = [b \in Addr |-> IF b \in Span(a, n) THEN values[b - a + 1] ELSE regs[b]]
    BY DEF EbWrite
  <1>0. PICK z \in Nat : z = 0
    OBVIOUS
  <1> DEFINE R == Record(a, n, z, values)
             p == q \o R
             m == Len(q)
  <1>2. /\ doing = "idle" /\ Span(a, n) \subseteq Addr /\ got' = << >>
        /\ UNCHANGED <<lang, doing, asked>>
        /\ UNCHANGED <<rx, fifo, rcv, master, mem, pbuffer, snd, tx, up>>
        /\ Len(down) + Len(Request(a, n, z, values)) <= MaxDown
        /\ down' = down \o Request(a, n, z, values)
    BY <1>0, <1>1 DEF EbWrite, Send, inVars, accessVars, outVars
  <1>3. a \in Nat /\ n \in Nat \ {0}
    BY AddrAssumption, CountsAssumption
  <1>4. Proper(a, n, z, values)
    <2>1. values \in Seq(Nat \union Value) /\ Len(values) = n
      <3>1. values \in Seq(Value) /\ Len(values) = n
        BY <1>3
      <3> QED
        BY <3>1, SeqMonotonic
    <2>2. ASSUME NEW i \in 1 .. n PROVE a + i - 1 \in Addr /\ values[i] \in Value
      <3>1. a + i - 1 \in Span(a, n)
        BY <1>3 DEF Span
      <3> QED
        BY <1>2, <3>1
    <2>3. ((n = 0 /\ z > 0) \/ (n > 0 /\ z = 0)) /\ n = n + z /\ \A i \in 1 .. z : values[i] \in Addr
      BY <1>0, <1>3
    <2> HIDE DEF R, p, m
    <2> QED
      BY <1>3, <2>1, <2>2, <2>3 DEF Proper
  <1>5. /\ p \in Seq(Unit) /\ Len(p) = m + (n + z + 2) /\ p # << >>
        /\ \A i \in 1 .. m : p[i] = q[i]
        /\ \A i \in 1 .. n + z + 2 : p[m + i] = R[i]
        /\ Holds(p)' /\ Chain(p) /\ Enters(p)' /\ Headed(p)' /\ Serves(p)'
        /\ down' \in Seq(OnRoad)
    BY <1>2, <1>4, Joined
  <1>6. \A i \in 1 .. n + z + 2 :
          /\ R[i].w = n /\ R[i].r = z /\ R[i].base = a /\ R[i].k = i - 2
          /\ i > 2 => R[i].data = values[i - 2]
    <2>1. Words(R, a, n, z, values)
      BY <1>4, RecordUnits
    <2> HIDE DEF R
    <2> QED
      BY <2>1 DEF Words
  <1>7. Waits' = Waits /\ ~Waits
    BY <1>2 DEF Waits
  <1>8. /\ m \in Nat /\ ~Unread(q) /\ \A i \in 1 .. m : ~(q[i].r > 0)
        /\ rcv.state # "RECEIVE_READS" /\ master.state # "SEND_DATA"
        /\ Resting /\ ~Delivered
    BY <1>7, NoReads
  <1> HIDE DEF p, R, m
  <1>9. /\ Len(p) = m + (n + 2)
        /\ \A i \in 1 .. n + 2 :
             /\ p[m + i].w = n /\ p[m + i].r = 0 /\ p[m + i].base = a /\ p[m + i].k = i - 2
             /\ i > 2 => p[m + i].data = values[i - 2]
    <2>1. n + z + 2 = n + 2
      BY <1>0, <1>3
    <2> QED
      BY <1>0, <1>5, <1>6, <2>1
  <1>10. \A i \in m + 1 .. m + (n + 2) :
           /\ i - m \in 1 .. n + 2
           /\ p[i].w = n /\ p[i].r = 0 /\ p[i].base = a /\ p[i].k = (i - m) - 2
           /\ i - m > 2 => p[i].data = values[(i - m) - 2]
    <2> SUFFICES ASSUME NEW i \in m + 1 .. m + (n + 2)
                 PROVE  /\ i - m \in 1 .. n + 2
                        /\ p[i].w = n /\ p[i].r = 0 /\ p[i].base = a /\ p[i].k = (i - m) - 2
                        /\ i - m > 2 => p[i].data = values[(i - m) - 2]
      OBVIOUS
    <2>1. i - m \in 1 .. n + 2 /\ m + (i - m) = i
      BY <1>3, <1>8
    <2> QED
      BY <1>9, <2>1
  <1>11. \A i \in 1 .. Len(p) : ~(p[i].r > 0)
    <2>1. \A i \in 1 .. Len(p) : i \in 1 .. m \/ i \in m + 1 .. m + (n + 2)
      BY <1>3, <1>8, <1>9
    <2> QED
      BY <1>5, <1>8, <1>10, <2>1
  <1>12. Asks(p)' /\ ~Unread(p)
    <2>1. Len(p) \in 1 .. Len(p)
      BY <1>3, <1>8, <1>9
    <2>2. ~Unread(p)
      BY <1>11, <2>1 DEF Unread
    <2> QED
      BY <1>11, <2>2 DEF Asks, Unread
  <1>13. Reply(p)'
    <2>1. Resting' /\ ~Delivered' /\ ~Waits' /\ ~Unread(p)'
      BY <1>2, <1>7, <1>8, <1>12 DEF Resting, Delivered, Unread
    <2>2. Delivery' /\ master'.state # "SEND_DATA"
      BY <1>2, <1>8, <2>1 DEF Delivery, Delivered
    <2> QED
      BY <2>1, <2>2 DEF Reply
  <1>14. Landing(p)'
    <2> SUFFICES ASSUME NEW b \in Addr PROVE Arrives(p, b, mem[b], regs'[b])
      BY <1>2 DEF Landing
    <2>0. b \in Nat
      BY AddrAssumption
    <2>1. Arrives(q, b, mem[b], regs[b])
      BY DEF Flow, Landing
    <2>2. /\ m \in Nat /\ Len(p) \in Nat /\ m <= Len(p)
          /\ m = Len(q)
      BY <1>3, <1>8, <1>9 DEF m
    <2>3. \A i \in Writes(p, b) : i <= m \/ i = m + (b - a) + 3
      <3> SUFFICES ASSUME NEW i \in Writes(p, b), ~(i <= m)
                   PROVE  i = m + (b - a) + 3
        OBVIOUS
      <3>1. i \in 1 .. Len(p) /\ p[i].k > 0 /\ Place(p[i]) = b
        BY DEF Writes
      <3>2. i \in m + 1 .. m + (n + 2)
        BY <1>3, <1>8, <1>9, <3>1
      <3>3. p[i].base = a /\ p[i].k = (i - m) - 2
        BY <1>10, <3>2
      <3>4. a + ((i - m) - 2) - 1 = b
        BY <3>1, <3>3 DEF Place
      <3> QED
        BY <1>3, <1>8, <2>0, <3>2, <3>4
    <2>4. CASE b \in Span(a, n)
      <3> DEFINE x == m + (b - a) + 3
      <3>1. /\ x \in m + 1 .. m + (n + 2) /\ x - m > 2 /\ (x - m) - 2 = b - a + 1
            /\ x > m /\ x \in 1 .. m + (n + 2)
        BY <1>3, <1>8, <2>0, <2>4 DEF Span
      <3> HIDE DEF x
      <3>2. /\ p[x].w = n /\ p[x].base = a /\ p[x].k = b - a + 1
            /\ p[x].data = values[b - a + 1]
        BY <1>10, <3>1
      <3>3. b - a + 1 > 0 /\ a + (b - a + 1) - 1 = b
        BY <1>3, <2>0, <2>4 DEF Span
      <3>4. x \in Writes(p, b)
        BY <1>3, <1>9, <3>1, <3>2, <3>3 DEF Writes, Place
      <3>5. regs'[b] = values[b - a + 1]
        BY <1>1, <2>4
      <3>6. \A i \in Writes(p, b) : i <= Len(q) \/ i = x
        BY <2>2, <2>3 DEF x
      <3>7. x > Len(q) /\ p[x].data = regs'[b]
        BY <2>2, <3>1, <3>2, <3>5
      <3> QED
        BY <1>5, <2>2, <3>4, <3>6, <3>7, JoinArrives
    <2>5. CASE b \notin Span(a, n)
      <3>1. regs'[b] = regs[b]
        BY <1>1, <2>5
      <3>2. ASSUME NEW i \in Writes(p, b) PROVE i <= m
        <4> SUFFICES ASSUME ~(i <= m) PROVE FALSE
          OBVIOUS
        <4>1. i = m + (b - a) + 3 /\ i \in 1 .. Len(p) /\ p[i].k > 0
          BY <2>3 DEF Writes
        <4>2. i \in m + 1 .. m + (n + 2)
          BY <1>3, <1>8, <1>9, <4>1
        <4>3. (i - m) - 2 > 0
          BY <1>10, <4>1, <4>2
        <4>4. b \in a .. a + n - 1
          BY <1>3, <1>8, <2>0, <4>1, <4>2, <4>3
        <4> QED
          BY <2>5, <4>4 DEF Span
      <3> QED
        BY <1>5, <2>1, <2>2, <3>1, <3>2, JoinArrives
    <2> QED
      BY <2>4, <2>5
  <1>15. Types'
    <2>1. Len(down') <= MaxDown
      <3>1. Len(down') = Len(down) + Len(Request(a, n, z, values))
        BY <1>2, <1>4, RecordSent, ConcatProperties DEF Types
      <3> QED
        BY <1>2, <3>1
    <2>2. regs' \in [Addr -> Value]
      <3>1. \A b \in Span(a, n) : values[b - a + 1] \in Value
        <4> SUFFICES ASSUME NEW b \in Span(a, n) PROVE b - a + 1 \in 1 .. n
          OBVIOUS
        <4> QED
          BY <1>3 DEF Span
      <3> QED
        BY <1>1, <3>1 DEF Types
    <2> QED
      BY <1>2, <1>5, <2>1, <2>2, EmptySeq DEF Types
  <1>16. ReadMatches'
    BY <1>2 DEF ReadMatches
  <1> QED
    BY <1>5, <1>12, <1>13, <1>14, <1>15, <1>16 DEF IInv, Flow

(* A read is sent, and the program begins to wait for its answer. *)
LEMMA AskRead ==
  ASSUME Types, ReadMatches, NEW q \in Seq(Unit), Flow(q),
         NEW a \in Addr, NEW n \in Counts, EbRead(a, n)
  PROVE  IInv'
  <1>0. PICK z, words : z \in Nat /\ z = 0 /\ words = [i \in 1 .. n |-> a + i - 1]
    OBVIOUS
  <1> DEFINE R == Record(z, z, n, words)
             p == q \o R
             m == Len(q)
  <1>1. /\ doing = "idle" /\ doing' = "read" /\ Span(a, n) \subseteq Addr /\ got' = << >>
        /\ asked' = [addr |-> a, count |-> n]
        /\ UNCHANGED <<lang, regs>>
        /\ UNCHANGED <<rx, fifo, rcv, master, mem, pbuffer, snd, tx, up>>
        /\ Len(down) + Len(Request(z, z, n, words)) <= MaxDown
        /\ down' = down \o Request(z, z, n, words)
    BY <1>0 DEF EbRead, Send, inVars, accessVars, outVars
  <1>2. a \in Nat /\ n \in Nat \ {0}
    BY AddrAssumption, CountsAssumption
  <1>3. \A i \in 1 .. n : words[i] = a + i - 1 /\ words[i] \in Addr
    <2> SUFFICES ASSUME NEW i \in 1 .. n PROVE words[i] = a + i - 1 /\ words[i] \in Addr
      OBVIOUS
    <2>1. a + i - 1 \in Span(a, n)
      BY <1>2 DEF Span
    <2> QED
      BY <1>0, <1>1, <2>1
  <1>4. Proper(z, z, n, words)
    <2>1. words \in Seq(Nat \union Value) /\ Len(words) = n
      <3>1. words \in [1 .. n -> Addr]
        BY <1>0, <1>3
      <3>2. words \in Seq(Addr) /\ Len(words) = n
        BY <1>2, <3>1
      <3>3. Addr \subseteq Nat \union Value
        BY AddrAssumption
      <3> QED
        BY <3>2, <3>3, SeqMonotonic
    <2>2. /\ ((z = 0 /\ n > 0) \/ (z > 0 /\ n = 0)) /\ n = z + n
          /\ \A i \in 1 .. z : z + i - 1 \in Addr /\ words[i] \in Value
      BY <1>0, <1>2
    <2> HIDE DEF R, p, m
    <2> QED
      BY <1>0, <1>2, <1>3, <2>1, <2>2 DEF Proper
  <1>5. /\ p \in Seq(Unit) /\ Len(p) = m + (z + n + 2) /\ p # << >>
        /\ \A i \in 1 .. m : p[i] = q[i]
        /\ \A i \in 1 .. z + n + 2 : p[m + i] = R[i]
        /\ Holds(p)' /\ Chain(p) /\ Enters(p)' /\ Headed(p)' /\ Serves(p)'
        /\ down' \in Seq(OnRoad)
    BY <1>1, <1>4, Joined
  <1>6. Words(R, z, z, n, words)
    BY <1>4, RecordUnits
  <1>7. Waits' /\ ~Waits
    BY <1>1 DEF Waits
  <1>8. /\ m \in Nat /\ ~Unread(q) /\ \A i \in 1 .. m : ~(q[i].r > 0)
        /\ rcv.state # "RECEIVE_READS" /\ master.state # "SEND_DATA"
        /\ Resting /\ ~Delivered
    BY <1>7, NoReads
  <1> HIDE DEF p, R, m
  <1>9. /\ Len(p) = m + (n + 2)
        /\ \A i \in 1 .. n + 2 :
             /\ p[m + i].w = 0 /\ p[m + i].r = n /\ p[m + i].k = i - 2
             /\ Size(p[m + i]) = n
             /\ i > 2 => p[m + i].data = words[i - 2]
    <2>1. z + n + 2 = n + 2 /\ z + n = n
      BY <1>0, <1>2
    <2> QED
      BY <1>0, <1>5, <1>6, <2>1 DEF Words
  <1>10. \A i \in m + 1 .. m + (n + 2) :
           /\ p[i].w = 0 /\ p[i].r = n /\ p[i].k = (i - m) - 2 /\ Size(p[i]) = n
           /\ p[i].k > 0 => p[i].data = a + p[i].k - 1
    <2> SUFFICES ASSUME NEW i \in m + 1 .. m + (n + 2)
                 PROVE  /\ p[i].w = 0 /\ p[i].r = n /\ p[i].k = (i - m) - 2 /\ Size(p[i]) = n
                        /\ p[i].k > 0 => p[i].data = a + p[i].k - 1
      OBVIOUS
    <2>1. i - m \in 1 .. n + 2 /\ m + (i - m) = i
      BY <1>2, <1>8
    <2>2. /\ p[i].w = 0 /\ p[i].r = n /\ p[i].k = (i - m) - 2 /\ Size(p[i]) = n
          /\ i - m > 2 => p[i].data = words[(i - m) - 2]
      BY <1>9, <2>1
    <2>3. (i - m) - 2 > 0 => (i - m) - 2 \in 1 .. n /\ i - m > 2
      BY <1>2, <2>1
    <2> QED
      BY <1>3, <2>2, <2>3
  <1>11. \A i \in 1 .. Len(p) : i \in 1 .. m \/ i \in m + 1 .. m + (n + 2)
    BY <1>2, <1>8, <1>9
  <1>12. \A i \in 1 .. Len(p) : p[i].r > 0 => i \in m + 1 .. m + (n + 2)
    BY <1>5, <1>8, <1>11
  <1>13. Unread(p)
    <2>1. Len(p) \in m + 1 .. m + (n + 2)
      BY <1>2, <1>8, <1>9
    <2>2. p[Len(p)].r > 0
      BY <1>2, <1>10, <2>1
    <2> QED
      BY <1>5, <2>2 DEF Unread
  <1>14. Asks(p)'
    <2>1. ASSUME NEW i \in 1 .. Len(p), NEW j \in 1 .. Len(p), i <= j, p[i].r > 0
          PROVE  p[j].r > 0
      <3>1. i \in m + 1 .. m + (n + 2)
        BY <1>12, <2>1
      <3>2. j \in m + 1 .. m + (n + 2)
        BY <1>2, <1>8, <1>9, <2>1, <3>1
      <3> QED
        BY <1>2, <1>10, <3>2
    <2>2. ASSUME NEW i \in 1 .. Len(p), p[i].r > 0
          PROVE  /\ p[i].r = n
                 /\ p[i].k > 0 => p[i].data = a + p[i].k - 1
                 /\ p[i].k = Size(p[i]) => i = Len(p)
      <3>1. i \in m + 1 .. m + (n + 2)
        BY <1>12, <2>2
      <3>2. (i - m) - 2 = n => i = m + (n + 2)
        BY <1>2, <1>8, <3>1
      <3> QED
        BY <1>9, <1>10, <3>1, <3>2
    <2> QED
      BY <1>1, <1>7, <2>1, <2>2 DEF Asks
  <1>15. Reply(p)'
    <2>1. ~Delivered' /\ Delivery' /\ master'.state # "SEND_DATA"
      BY <1>1, <1>8 DEF Delivery, Delivered
    <2>2. pbuffer' = << >> /\ snd' = "IDLE" /\ tx'.state = "IDLE" /\ tx'.words = << >>
      BY <1>1, <1>8 DEF Resting
    <2>3. Len(tx'.words) = 0 /\ Len(pbuffer') = 0
      BY <2>2, EmptySeq
    <2>4. Gathered'
      BY <2>3 DEF Gathered
    <2>5. Sends'
      BY <2>2 DEF Sends
    <2>6. Done(p)' = 0
      BY <1>1, <1>8, <1>13 DEF Done, Unread
    <2> QED
      BY <1>7, <2>1, <2>3, <2>4, <2>5, <2>6 DEF Reply
  <1>16. Landing(p)'
    <2> SUFFICES ASSUME NEW b \in Addr PROVE Arrives(p, b, mem[b], regs[b])
      BY <1>1 DEF Landing
    <2>1. Arrives(q, b, mem[b], regs[b])
      BY DEF Flow, Landing
    <2>2. Len(p) \in Nat /\ m <= Len(p) /\ m = Len(q)
      BY <1>2, <1>8, <1>9 DEF m
    <2>3. ASSUME NEW i \in Writes(p, b) PROVE i <= m
      <3>1. i \in 1 .. Len(p) /\ p[i].w > 0
        BY DEF Writes
      <3>2. i \in 1 .. m
        BY <1>10, <1>11, <3>1
      <3> QED
        BY <3>2
    <2> QED
      BY <1>5, <1>8, <2>1, <2>2, <2>3, JoinArrives
  <1>17. Types'
    <2>1. Len(down') <= MaxDown
      <3>1. Len(down') = Len(down) + Len(Request(z, z, n, words))
        BY <1>1, <1>4, RecordSent, ConcatProperties DEF Types
      <3> QED
        BY <1>1, <3>1
    <2>2. asked' \in [addr : Nat, count : Nat] /\ Span(asked'.addr, asked'.count) \subseteq Addr
      BY <1>1, <1>2
    <2>3. Span(asked.addr, asked.count)' = Span(asked'.addr, asked'.count)
      BY DEF Span
    <2> QED
      BY <1>1, <1>5, <2>1, <2>2, <2>3, EmptySeq DEF Types
  <1>18. ReadMatches'
    BY <1>1 DEF ReadMatches
  <1> QED
    BY <1>5, <1>14, <1>15, <1>16, <1>17, <1>18 DEF IInv, Flow

-----------------------------------------------------------------------------
(* The channel to the program. *)

(* A packet has been taken from it: the answer, if it was one, is gone.     *)
LEMMA Received ==
  ASSUME Types, Delivery, up # << >>, up' = Tail(up), UNCHANGED <<asked, regs>>
  PROVE  /\ up' \in Seq(Packet) /\ Len(up') <= MaxUp /\ Head(up) \in Packet
         /\ Delivery'
         /\ Head(up).stream = "wishbone" => Delivered /\ ~Delivered' /\ Answers(Head(up))
         /\ Head(up).stream # "wishbone" => Delivered' = Delivered
  <1> DEFINE n == Len(up)
  <1>1. /\ up \in Seq(Packet) /\ n \in Nat \ {0} /\ n <= MaxUp
        /\ up' \in Seq(Packet) /\ Len(up') = n - 1 /\ Head(up) = up[1] /\ Head(up) \in Packet
        /\ \A i \in 1 .. n - 1 : up'[i] = up[i + 1]
    BY EmptySeq, HeadTailProperties DEF Types
  <1>2. 1 \in 1 .. n
    BY <1>1
  <1>3. \A i \in 1 .. n - 1 : i + 1 \in 1 .. n /\ i + 1 # 1
    BY <1>1
  <1>4. \A i \in 2 .. n : i - 1 \in 1 .. n - 1 /\ (i - 1) + 1 = i
    BY <1>1
  <1>5. \A i \in 1 .. n : up[i].stream = "wishbone" =>
          /\ Answers(up[i])
          /\ \A j \in 1 .. n : up[j].stream = "wishbone" => j = i
    BY DEF Delivery
  <1>6. Delivery'
    <2> SUFFICES ASSUME NEW i \in 1 .. n - 1, up'[i].stream = "wishbone"
                 PROVE  /\ Answers(up[i])'
                        /\ \A j \in 1 .. n - 1 : up'[j].stream = "wishbone" => j = i
      BY <1>1 DEF Delivery
    <2>1. up'[i] = up[i + 1] /\ i + 1 \in 1 .. n
      BY <1>1, <1>3
    <2>2. Answers(up[i + 1]) /\ \A j \in 1 .. n : up[j].stream = "wishbone" => j = i + 1
      BY <1>5, <2>1
    <2>3. Answers(up[i])'
      BY <2>1, <2>2 DEF Answers, Reg
    <2>4. ASSUME NEW j \in 1 .. n - 1, up'[j].stream = "wishbone" PROVE j = i
      <3>1. j + 1 = i + 1
        BY <1>1, <1>3, <2>2, <2>4
      <3> QED
        BY <3>1
    <2> QED
      BY <2>3, <2>4
  <1>7. ASSUME Head(up).stream = "wishbone"
        PROVE  Delivered /\ ~Delivered' /\ Answers(Head(up))
    <2>1. Delivered /\ Answers(Head(up)) /\ \A j \in 1 .. n : up[j].stream = "wishbone" => j = 1
      BY <1>1, <1>2, <1>5, <1>7 DEF Delivered
    <2>2. \A i \in 1 .. n - 1 : up'[i].stream # "wishbone"
      BY <1>1, <1>3, <2>1
    <2> QED
      BY <1>1, <2>1, <2>2 DEF Delivered
  <1>8. ASSUME Head(up).stream # "wishbone" PROVE Delivered' = Delivered
    <2>1. Delivered' => Delivered
      BY <1>1, <1>3 DEF Delivered
    <2>2. ASSUME NEW i \in 1 .. n, up[i].stream = "wishbone" PROVE Delivered'
      <3>1. i \in 2 .. n
        BY <1>1, <1>8, <2>2
      <3>2. up'[i - 1].stream = "wishbone" /\ i - 1 \in 1 .. n - 1
        BY <1>1, <1>4, <2>2, <3>1
      <3> QED
        BY <1>1, <3>2 DEF Delivered
    <2> QED
      BY <2>1, <2>2 DEF Delivered
  <1>9. Len(up') <= MaxUp
    <2> HIDE DEF n
    <2> QED
      BY <1>1, RoadAssumption
  <1> QED
    BY <1>1, <1>6, <1>7, <1>8, <1>9

(* Nothing that a program does with the channel changes the words on their  *)
(* way in.                                                                 *)
LEMMA WordsKept ==
  ASSUME NEW q, Flow(q), UNCHANGED <<down, rx, fifo, rcv, master, mem, asked, regs>>,
         Unread(q) => Waits'
  PROVE  /\ Holds(q)' /\ Chain(q) /\ Enters(q)' /\ Headed(q)'
         /\ Serves(q)' /\ Landing(q)' /\ Asks(q)'
         /\ Unread(q)' = Unread(q) /\ Done(q)' = Done(q)
         /\ (master.state = "SEND_DATA" => master.data = Reg(rcv.counter + 1))'
  <1>1. Flow(q)
    OBVIOUS
  <1>2. Holds(q)' /\ Enters(q)' /\ Headed(q)' /\ Serves(q)' /\ Landing(q)'
    BY DEF Flow, Holds, Enters, Headed, Serves, Landing
  <1>3. Unread(q)' = Unread(q)
    BY DEF Unread
  <1>4. Asks(q)'
    BY <1>3 DEF Flow, Asks
  <1>5. Done(q)' = Done(q)
    BY DEF Done, Unread
  <1>6. (master.state = "SEND_DATA" => master.data = Reg(rcv.counter + 1))'
    BY DEF Flow, Reply, Reg
  <1> QED
    BY <1>2, <1>3, <1>4, <1>5, <1>6 DEF Flow

(* The program takes its answer: it is what was last written.              *)
LEMMA TakeAnswer ==
  ASSUME Types, NEW q \in Seq(Unit), Flow(q), doing = "read", Recv,
         Head(up).stream = "wishbone", doing' = "idle", got' = Head(up).words,
         UNCHANGED <<lang, asked, regs>>
  PROVE  IInv'
  <1>1. /\ up # << >> /\ up' = Tail(up)
        /\ UNCHANGED <<down, rx, fifo, rcv, master, mem, pbuffer, snd, tx>>
    BY DEF Recv, inVars, accessVars, outVars
  <1>2. Reply(q) /\ Delivery
    BY DEF Flow, Reply
  <1>3. /\ up' \in Seq(Packet) /\ Len(up') <= MaxUp /\ Head(up) \in Packet
        /\ Delivery' /\ Delivered /\ ~Delivered' /\ Answers(Head(up))
    BY <1>1, <1>2, Received
  <1>4. Resting /\ ~Unread(q)
    BY <1>2, <1>3 DEF Reply
  <1>5. /\ Holds(q)' /\ Chain(q) /\ Enters(q)' /\ Headed(q)'
        /\ Serves(q)' /\ Landing(q)' /\ Asks(q)'
        /\ Unread(q)' = Unread(q)
        /\ (master.state = "SEND_DATA" => master.data = Reg(rcv.counter + 1))'
    BY <1>1, <1>4, WordsKept
  <1>6. ~Waits' /\ Resting'
    BY <1>1, <1>4 DEF Waits, Resting
  <1>7. Reply(q)'
    BY <1>3, <1>4, <1>5, <1>6 DEF Reply
  <1>8. Types'
    <2>1. got' \in Seq(Value)
      BY <1>3 DEF Packet
    <2> QED
      BY <1>1, <1>3, <2>1 DEF Types, Span
  <1>9. ReadMatches'
    <2> DEFINE ws == Head(up).words
    <2>1. ws \in Seq(Value) /\ Len(ws) = asked.count /\ \A i \in 1 .. asked.count : ws[i] = Reg(i)
      BY <1>3 DEF Packet, Answers
    <2> HIDE DEF ws
    <2>2. ws = [i \in 1 .. Len(ws) |-> ws[i]]
      BY <2>1, LenProperties
    <2>3. ws = [i \in 1 .. asked.count |-> regs[asked.addr + i - 1]]
      BY <2>1, <2>2 DEF Reg
    <2> QED
      BY <2>3 DEF ReadMatches, ws
  <1> QED
    BY <1>5, <1>7, <1>8, <1>9 DEF IInv, Flow

(* The program takes a packet of the capture. *)
LEMMA TakeOther ==
  ASSUME Types, NEW q \in Seq(Unit), Flow(q), Recv, Head(up).stream # "wishbone",
         doing' \in {"idle", "read", "listen", "over"}, Waits' = Waits,
         got' \in Seq(Value), UNCHANGED <<asked, regs>>, ReadMatches'
  PROVE  IInv'
  <1>1. /\ up # << >> /\ up' = Tail(up)
        /\ UNCHANGED <<down, rx, fifo, rcv, master, mem, pbuffer, snd, tx>>
    BY DEF Recv, inVars, accessVars, outVars
  <1>2. Reply(q) /\ Delivery /\ Asks(q)
    BY DEF Flow, Reply
  <1>3. /\ up' \in Seq(Packet) /\ Len(up') <= MaxUp
        /\ Delivery' /\ Delivered' = Delivered
    BY <1>1, <1>2, Received
  <1>4. /\ Holds(q)' /\ Chain(q) /\ Enters(q)' /\ Headed(q)'
        /\ Serves(q)' /\ Landing(q)' /\ Asks(q)'
        /\ Unread(q)' = Unread(q) /\ Done(q)' = Done(q)
        /\ (master.state = "SEND_DATA" => master.data = Reg(rcv.counter + 1))'
    <2>1. Unread(q) => Waits'
      BY <1>2 DEF Asks
    <2> QED
      BY <1>1, <2>1, WordsKept
  <1>5. Resting' = Resting /\ Gathered' = Gathered
    BY <1>1 DEF Resting, Gathered, Reg
  <1>6. Sends => Sends'
    <2>1. Len(up') <= Len(up)
      <3>1. Len(up') = Len(up) - 1 /\ Len(up) \in Nat
        BY <1>1, HeadTailProperties, LenProperties DEF Types
      <3> QED
        BY <3>1
    <2>2. Len(up) \in Nat /\ Len(up') \in Nat /\ MaxUp \in Nat
      BY <1>3, LenProperties, RoadAssumption DEF Types
    <2>3. Len(up) < MaxUp => Len(up') < MaxUp
      BY <2>1, <2>2
    <2> QED
      BY <1>1, <2>3 DEF Sends
  <1>7. Reply(q)'
    BY <1>1, <1>2, <1>3, <1>4, <1>5, <1>6 DEF Reply
  <1>8. Types'
    BY <1>1, <1>3 DEF Types, Span
  <1> QED
    BY <1>4, <1>7, <1>8 DEF IInv, Flow

(* The clients. *)
LEMMA TakePython ==
  ASSUME Types, ReadMatches, NEW q \in Seq(Unit), Flow(q), RecvPython
  PROVE  IInv'
  <1>1. CASE Head(up).stream = "wishbone"
    BY <1>1, TakeAnswer DEF RecvPython
  <1>2. CASE Head(up).stream # "wishbone"
    <2>1. Recv /\ UNCHANGED <<doing, got, asked, regs>>
      BY <1>2 DEF RecvPython
    <2>2. ReadMatches' /\ Waits' = Waits /\ got' \in Seq(Value)
          /\ doing' \in {"idle", "read", "listen", "over"}
      BY <2>1 DEF ReadMatches, Waits, Types
    <2> QED
      BY <1>2, <2>1, <2>2, TakeOther
  <1> QED
    BY <1>1, <1>2

(* In C a packet of the capture is the end. *)
LEMMA TakeC ==
  ASSUME Types, ReadMatches, NEW q \in Seq(Unit), Flow(q), RecvC
  PROVE  IInv'
  <1>1. CASE Head(up).stream = "wishbone"
    BY <1>1, TakeAnswer DEF RecvC
  <1>2. CASE Head(up).stream # "wishbone"
    <2>1. /\ Recv /\ UNCHANGED <<asked, regs>> /\ doing = "read" /\ doing' = "over"
          /\ got' = Head(up).words
      BY <1>2 DEF RecvC
    <2>2. Head(up) \in Packet
      BY <2>1, HeadTailProperties DEF Types, Recv
    <2>3. ReadMatches' /\ Waits' = Waits /\ got' \in Seq(Value)
      BY <2>1, <2>2 DEF ReadMatches, Waits, Packet
    <2> QED
      BY <1>2, <2>1, <2>3, TakeOther
  <1> QED
    BY <1>1, <1>2

(* A program that listens gets packets of the capture only. *)
LEMMA TakeCapture ==
  ASSUME Types, ReadMatches, NEW q \in Seq(Unit), Flow(q), RecvCapture
  PROVE  IInv'
  <1>1. Recv /\ UNCHANGED hostVars /\ doing = "listen" /\ UNCHANGED <<doing, got, asked, regs>>
    BY DEF RecvCapture, hostVars
  <1>2. ~Delivered
    BY <1>1, NoReads DEF Waits
  <1>3. Head(up).stream # "wishbone"
    <2>1. up # << >> /\ Head(up) = up[1] /\ Len(up) \in Nat \ {0}
      BY <1>1, EmptySeq, HeadTailProperties DEF Types, Recv
    <2>2. 1 \in 1 .. Len(up)
      BY <2>1
    <2> QED
      BY <1>2, <2>1, <2>2 DEF Delivered
  <1>4. ReadMatches' /\ Waits' = Waits /\ got' \in Seq(Value)
        /\ doing' \in {"idle", "read", "listen", "over"}
    BY <1>1 DEF ReadMatches, Waits, Types
  <1> QED
    BY <1>1, <1>3, <1>4, TakeOther

(* The program begins to listen. *)
LEMMA ListenStep ==
  ASSUME Types, ReadMatches, NEW q \in Seq(Unit), Flow(q), Listen
  PROVE  IInv'
  <1>1. /\ doing = "idle" /\ doing' = "listen" /\ UNCHANGED <<asked, got, regs>>
        /\ UNCHANGED <<down, rx, fifo, rcv, master, mem, pbuffer, snd, tx, up>>
    BY DEF Listen, ebVars, inVars, accessVars, outVars
  <1>2. ~Waits /\ ~Waits'
    BY <1>1 DEF Waits
  <1>3. Resting /\ ~Unread(q) /\ ~Delivered /\ master.state # "SEND_DATA"
    BY <1>2, NoReads
  <1>4. /\ Holds(q)' /\ Chain(q) /\ Enters(q)' /\ Headed(q)'
        /\ Serves(q)' /\ Landing(q)' /\ Asks(q)' /\ Unread(q)' = Unread(q)
    BY <1>1, <1>3, WordsKept
  <1>5. Resting' /\ ~Delivered'
    BY <1>1, <1>3 DEF Resting, Delivered
  <1>6. Delivery'
    BY <1>5 DEF Delivery, Delivered
  <1>7. Reply(q)'
    BY <1>1, <1>2, <1>3, <1>4, <1>5, <1>6 DEF Reply
  <1>8. Types' /\ ReadMatches'
    BY <1>1 DEF Types, ReadMatches, Span
  <1> QED
    BY <1>4, <1>7, <1>8 DEF IInv, Flow

(* The capture sends a packet of its own. *)
LEMMA CaptureStep ==
  ASSUME Types, ReadMatches, NEW q \in Seq(Unit), Flow(q), Capture
  PROVE  IInv'
  <1> DEFINE e == [stream |-> "ulpi0", length |-> 0, words |-> << >>]
             n == Len(up)
  <1>1. /\ tx.state = "IDLE" /\ n < MaxUp /\ up' = Append(up, e)
        /\ UNCHANGED <<down, rx, fifo, rcv, master, mem, pbuffer, snd, tx>>
        /\ UNCHANGED <<doing, asked, got, regs>>
    BY DEF Capture, Room, inVars, accessVars, outVars, hostVars
  <1>2. e \in Packet /\ e.stream # "wishbone"
    BY EmptySeq DEF Packet
  <1> HIDE DEF e
  <1>3. /\ up' \in Seq(Packet) /\ Len(up') = n + 1 /\ up'[n + 1] = e /\ n \in Nat
        /\ \A i \in 1 .. n : up'[i] = up[i]
    BY <1>1, <1>2, AppendProperties, LenProperties DEF Types
  <1> HIDE DEF n
  <1>4. \A i \in 1 .. n + 1 : up'[i].stream = "wishbone" => i \in 1 .. n
    <2> SUFFICES ASSUME NEW i \in 1 .. n + 1, up'[i].stream = "wishbone" PROVE i \in 1 .. n
      OBVIOUS
    <2>1. i # n + 1
      BY <1>2, <1>3
    <2> QED
      BY <1>3, <2>1
  <1>5. \A i \in 1 .. n : i \in 1 .. n + 1
    BY <1>3
  <1>6. Delivered' = Delivered
    BY <1>3, <1>4, <1>5 DEF Delivered, n
  <1>7. Reply(q)
    BY DEF Flow
  <1>8. Delivery'
    <2> SUFFICES ASSUME NEW i \in 1 .. n + 1, up'[i].stream = "wishbone"
                 PROVE  /\ Answers(up[i])'
                        /\ \A j \in 1 .. n + 1 : up'[j].stream = "wishbone" => j = i
      BY <1>3 DEF Delivery
    <2>1. i \in 1 .. n /\ up'[i] = up[i]
      BY <1>3, <1>4
    <2>2. Answers(up[i]) /\ \A j \in 1 .. n : up[j].stream = "wishbone" => j = i
      BY <1>7, <2>1 DEF Reply, Delivery, n
    <2>3. Answers(up[i])'
      BY <1>1, <2>1, <2>2 DEF Answers, Reg
    <2>4. ASSUME NEW j \in 1 .. n + 1, up'[j].stream = "wishbone" PROVE j = i
      <3>1. j \in 1 .. n /\ up'[j] = up[j]
        BY <1>3, <1>4, <2>4
      <3> QED
        BY <2>2, <2>4, <3>1
    <2> QED
      BY <2>3, <2>4
  <1>9. /\ Holds(q)' /\ Chain(q) /\ Enters(q)' /\ Headed(q)' /\ Serves(q)'
        /\ Landing(q)' /\ Asks(q)' /\ Done(q)' = Done(q) /\ Waits' = Waits
        /\ Unread(q)' = Unread(q)
        /\ (master.state = "SEND_DATA" => master.data = Reg(rcv.counter + 1))'
    BY <1>1, InwardKept
  <1>10. Resting' = Resting /\ Gathered' = Gathered /\ (Sends => Sends')
    BY <1>1 DEF Resting, Gathered, Sends, Reg
  <1>11. Reply(q)'
    BY <1>1, <1>6, <1>7, <1>8, <1>9, <1>10 DEF Reply
  <1>12. Types' /\ ReadMatches'
    <2>1. Len(up') <= MaxUp
      BY <1>1, <1>3, RoadAssumption
    <2> QED
      BY <1>1, <1>3, <2>1 DEF Types, ReadMatches, Span
  <1> QED
    BY <1>9, <1>11, <1>12 DEF IInv, Flow

-----------------------------------------------------------------------------
(* Nothing is on its way at first. *)
LEMMA Begins == HostInit => IInv
  <1> SUFFICES ASSUME HostInit PROVE IInv
    OBVIOUS
  <1> DEFINE q == << >>
  <1>1. /\ down = << >> /\ up = << >> /\ fifo = << >> /\ pbuffer = << >>
        /\ rx = [state |-> "IDLE", wcount |-> 0, rcount |-> 0]
        /\ rcv = [state |-> "IDLE", base |-> 0, counter |-> 0]
        /\ master = [state |-> "IDLE", data |-> 0] /\ snd = "IDLE"
        /\ tx = [state |-> "IDLE", length |-> 0, words |-> << >>]
        /\ mem = [a \in Addr |-> 0] /\ regs = [a \in Addr |-> 0]
        /\ doing = "idle" /\ asked = [addr |-> 0, count |-> 0] /\ got = << >>
    BY DEF HostInit, Init
  <1>2. q \in Seq(Unit) /\ Len(q) = 0 /\ ~Unread(q) /\ (\A a : Writes(q, a) = {})
    BY EmptySeq DEF Unread, Writes
  <1>3. Types
    <2>1. Span(asked.addr, asked.count) \subseteq Addr
      BY <1>1 DEF Span
    <2>2. Depth \in Nat /\ MaxDown \in Nat /\ MaxUp \in Nat /\ 0 \in Value
      BY DepthAssumption, RoadAssumption, ValueAssumption
    <2> QED
      BY <1>1, <2>1, <2>2, EmptySeq DEF Types
  <1>4. ReadMatches
    BY <1>1 DEF ReadMatches
  <1>5. Len(fifo) = 0 /\ Len(down) = 0 /\ Len(up) = 0
    BY <1>1, EmptySeq
  <1>6. Holds(q) /\ Chain(q) /\ Headed(q)
    BY <1>2, <1>5 DEF Holds, Chain, Headed
  <1>7. Enters(q) /\ Serves(q)
    BY <1>1 DEF Enters, Serves
  <1>8. Landing(q)
    BY <1>1, <1>2 DEF Landing, Arrives
  <1>9. Asks(q)
    BY <1>2 DEF Asks
  <1>10. Reply(q)
    <2>1. ~Waits /\ ~Delivered /\ Delivery /\ Resting
      BY <1>1, <1>5 DEF Waits, Delivered, Delivery, Resting
    <2> QED
      BY <1>1, <1>2, <2>1 DEF Reply
  <1> QED
    BY <1>2, <1>3, <1>4, <1>6, <1>7, <1>8, <1>9, <1>10 DEF IInv, Flow

(* A step that changes nothing. *)
LEMMA Rests == IInv /\ UNCHANGED vars => IInv'
  <1> SUFFICES ASSUME IInv, UNCHANGED vars PROVE IInv'
    OBVIOUS
  <1>1. PICK q \in Seq(Unit) : Flow(q)
    BY DEF IInv
  <1>2. /\ UNCHANGED <<down, rx, fifo, rcv, master, mem, pbuffer, snd, tx, up>>
        /\ UNCHANGED <<doing, asked, got, regs>>
    BY DEF vars, ebVars, inVars, accessVars, outVars, hostVars
  <1>3. /\ Holds(q)' /\ Chain(q) /\ Enters(q)' /\ Headed(q)' /\ Serves(q)'
        /\ Landing(q)' /\ Asks(q)' /\ Done(q)' = Done(q)
        /\ (master.state = "SEND_DATA" => master.data = Reg(rcv.counter + 1))'
    BY <1>1, <1>2, InwardKept
  <1>4. Reply(q)'
    BY <1>1, <1>2, <1>3, ReplyKept DEF Flow
  <1>5. Types' /\ ReadMatches'
    BY <1>2 DEF IInv, Types, ReadMatches, Span
  <1> QED
    BY <1>3, <1>4, <1>5 DEF IInv, Flow

(* Every step of the stages and of the program keeps the flow of the words. *)
LEMMA Goes == IInv /\ [Next]_vars => IInv'
  <1> SUFFICES ASSUME IInv, [Next]_vars PROVE IInv'
    OBVIOUS
  <1>1. Types /\ ReadMatches
    BY DEF IInv
  <1>2. PICK q \in Seq(Unit) : Flow(q)
    BY DEF IInv
  <1>3. CASE Step(In)
    BY <1>1, <1>2, <1>3, HeaderStep, PresentStep DEF Step, In
  <1>4. CASE Step(Access)
    BY <1>1, <1>2, <1>4, ReceiverStep, MasterStep, WriteStep, ReadStep, HandStep DEF Step, Access
  <1>5. CASE Step(Out)
    BY <1>1, <1>2, <1>5, SenderStep, BaseStep, WordStep DEF Step, Out
  <1>6. CASE Step(Room /\ TxIdle)
    BY <1>1, <1>2, <1>6, PacketStep DEF Step
  <1>7. CASE Client
    <2>1. ASSUME NEW a \in Addr, NEW n \in Counts, EbWrite(a, n) PROVE IInv'
      BY <1>1, <1>2, <2>1, AskWrite
    <2>2. ASSUME NEW a \in Addr, NEW n \in Counts, EbRead(a, n) PROVE IInv'
      BY <1>1, <1>2, <2>2, AskRead
    <2>3. CASE RecvPython
      BY <1>1, <1>2, <2>3, TakePython
    <2>4. CASE RecvC
      BY <1>1, <1>2, <2>4, TakeC
    <2>5. CASE Over
      BY <2>5, Rests DEF Over
    <2>6. CASE Listen
      BY <1>1, <1>2, <2>6, ListenStep
    <2>7. CASE RecvCapture
      BY <1>1, <1>2, <2>7, TakeCapture
    <2> QED
      BY <1>7, <2>1, <2>2, <2>3, <2>4, <2>5, <2>6, <2>7 DEF Client
  <1>8. CASE Capture
    BY <1>1, <1>2, <1>8, CaptureStep
  <1>9. CASE UNCHANGED vars
    BY <1>9, Rests
  <1> QED
    BY <1>3, <1>4, <1>5, <1>6, <1>7, <1>8, <1>9 DEF Next

(* What is on its way, in the stages and at the program fits together.      *)
THEOREM Invariance == Spec => []IInv
  BY Begins, Goes, PTL DEF Spec

(* The roads and the FIFOs stay within their bounds, and every FSM in its   *)
(* states.                                                                 *)
THEOREM TypeCorrect == Spec => []TypeOK
  <1>1. IInv => TypeOK
    <2> SUFFICES ASSUME Types PROVE TypeOK
      BY DEF IInv
    <2>1. rcv.base + rcv.counter \in Nat
      BY DEF Types
    <2> QED
      BY <2>1 DEF Types, TypeOK
  <1> QED
    BY <1>1, Invariance, PTL

(* testsuite.c:45: a read returns the values that were last written.        *)
THEOREM ReadsMatch == Spec => []ReadMatches
  <1>1. IInv => ReadMatches
    BY DEF IInv
  <1> QED
    BY <1>1, Invariance, PTL

(* sniff.py:153-155: no reply is on its way unless a read waits for it.     *)
THEOREM NoneLeft == Spec => []NoReplyLeft
  <1>1. IInv => NoReplyLeft
    <2> SUFFICES ASSUME IInv, doing \in {"idle", "listen"}
                 PROVE  Resting /\ ~Delivered
      BY DEF NoReplyLeft, Resting, Delivered
    <2> QED
      BY NoReads DEF IInv, Waits
  <1> QED
    BY <1>1, Invariance, PTL

(* etherbone.py:147, 396-398: a reply has the length it announces.          *)
THEOREM LengthsAgree == Spec => []LengthAgrees
  <1>1. IInv => LengthAgrees
    <2> SUFFICES ASSUME Delivery, NEW i \in 1 .. Len(up), up[i].stream = "wishbone"
                 PROVE  up[i].length = 16 + 4 * Len(up[i].words)
      BY DEF IInv, Flow, Reply, LengthAgrees
    <2>1. Answers(up[i])
      BY DEF Delivery
    <2> QED
      BY <2>1 DEF Answers
  <1> QED
    BY <1>1, Invariance, PTL
=============================================================================
