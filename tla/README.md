# A verification model of usbsniffer

usbsniffer is a USB 2.0 analyzer: an FPGA design in Migen/LiteX (`gateware/`,
`usbsniffer.py`) that listens to a ULPI PHY, stamps and packs what it hears,
buffers it in DRAM and sends it over an FT601 (USB 3.0 FIFO) to host programs
(`software/`). This directory holds TLA+ models of its parts, the TLC
configurations that check them, and TLAPS proofs.

In the gateware everything happens in clock cycles, so **one step of a model is
one clock cycle** (of one clock domain). The operators of a module are the
combinational signals of the code, the ones named `...Sync` its clocked
assignments (`self.sync`, `NextValue`), and the arguments of the cycle are the
inputs sampled in it, chosen freely: every timing of every neighbour is covered.
Words and bytes are numbers in the order of their arrival, so that one lost,
repeated or displaced shows.

## 1. Inventory

The capture path (usbsniffer.py:384-394):

    ULPIPHY -> ULPICore -> OverflowMeter -> ITICore -> fifo0 (16 records)
      -> Conv4032 -> hugefifo (512 words) -> LiteDRAMFIFO (32 M words)
      -> WrapCore/WrapSender -> USBCrossbar arbiter -> USBPacketizer
      -> FT601Sync -> host

and the control path, host -> FT601Sync -> USBDepacketizer -> Dispatcher ->
Etherbone -> Wishbone bus, with its replies entering the arbiter. All handshakes
are valid/ready pairs of LiteX streams; ulpi and usb run on clocks of their own
behind clock-crossing FIFOs.

| part | state | operations | what is hard | correct when | model |
|---|---|---|---|---|---|
| LiteDRAMFIFO (dramfifo.py) | router FSM, latch FIFO and gate, two converters, level and addresses, port flags, DRAM | a word in, a word out, block write, block read, change of route | two routes for one stream; write command and data apart; groups of words; the way back to BYPASS | it is a FIFO; nothing is left behind, nothing waits for ever | `DramFifo` |
| Conv4032 (iti.py:280) | tmp, remain, FSM | a record of 2-5 bytes in, a word out | 16 alignments, two words at once | bytes in order, none lost | `Conv4032`, `ItiStream` |
| WrapSender (wrapper.py) | buffer, count, timer, FSM | a word in, a packet out | count against level; flush timer; length that shrinks | a packet is never cut short; the last words leave | `WrapSender` |
| arbiter, packetizer (usb.py) | grant, FSM, header position | packet of either producer | interleaving of producers | the host keeps its framing; nobody starves | `UsbTx` |
| host framing (software/etherbone.py) | position in a packet | recv | no resynchronisation | magic where expected | `UsbTx`, `Ft601Host` |
| ITICore (iti.py) | diff, overflow, tick phase, pending event, pattern count | record a byte, an event, an overflow, a pattern; CSR writes | four sources for one output; two clocks' rates; set against clear | patterns whole; events shown once; one record per overflow; records can be read back, the pattern is found where it is and nowhere else | `ItiCore`, `ItiFormat`, `ItiStream` |
| FT601Sync (ft601.py) | FSM, retry and skid registers, burst counters, pads | write burst, read burst, retry, timeouts | one bus for two directions; the chip answers a cycle late | no word lost, doubled or displaced; both directions served | `Ft601` |
| USBDepacketizer, dispatcher (usb.py) | FSM, header, counter, 10 s timer; the dispatcher's port | packet in | length 0, words lost, timeout in a packet, payload like a header | packets go whole to their port; a damaged one harms one more at most; it recovers | `UsbRx` |
| Etherbone (etherbone.py) | packet and record receiver, master, sender FSMs, two FIFOs | write, read, probe | stages that run at once, length announced early | a read returns what was last written; one reply per read | `Etherbone` |
| ULPICore, ULPIPHY (ulpi.py) | FSMs, rx FIFO, bus turnaround | register read/write, capture | RXCMDs race the register's answer | a read returns the register; every access ends | `Ulpi` |
| host clients (software/) | what was asked | register read/write, capture loop | replies and capture share one pipe; writes are not acknowledged | a reply is matched with its request; none is left for the listener | `EtherboneHost` |
| OverflowMeter, blinkers, SPI flash, ResetManager, SDRAM init, analyzer | counters, shift registers | - | little | - | not modelled |

`ResetManager` is assigned at usbsniffer.py:397 without `self.submodules`, so its
assignments are not part of the design and the `reset` inputs of the capture path
stay 0. The modules are therefore modelled without reset. If it is ever connected,
resetting LiteDRAMFIFO while a read of the DRAM is in flight becomes a hazard:
the reader would take the late answer for a block of the new stream.

`PROJECT.json` lists the hazards, each at its line, with the properties that
would catch it.

## 2. The modules

`Fifo` is the abstract specification: a queue that accepts and delivers words, in
order, possibly both in one step. The capture path is a chain of such queues;
`DramFifo`, `UsbTx` and `Ft601` are compared with it by `INSTANCE Fifo WITH ...`.

* **DramFifo**: `Bypass` and `Dram` are the router's two states; each takes the
  whole cycle (`Sync`): `LatchFifoSync`, `LatchGateSync` (the latch), `ConvWSync`
  (up-converter), `WriterSync`, `ReaderSync` (with the down-converter's `mux`),
  `CtrlSync` and `PortSync`, the native port of LiteDRAM. There a write command
  and its data are accepted at different times, and the data is taken at its
  strobe **whether or not** `wdata.valid` says so; that is why `WriteSlotReady`
  is worth stating. `Contents` is the refinement mapping: the unread part of the
  ring, then `conv_w`, then the latch.
* **Conv4032**: `Gather`, `Emit`, `EmitExtra`, the three things a cycle can do.
* **WrapSender**: `Buffer`, `Transfer`; `AfterLast` decides at the last word of a
  packet whether the next one follows at once.
* **UsbTx** extends `WrapSender` with the reply producer, `Status`/`Arbiter`/
  `RoundRobin` (LiteX and Migen, modelled from their use), `USBPacketizer` and
  `USBMux.recv`. Of the three ports of `usb_map` the third, ulpi1, has no producer.
* **ItiCore**: one action `Cycle`; `Offer` is the priority of pattern, overflow,
  event and bus. `TuneSync` is the 60-in-100 phase accumulator; its 32-bit phase
  is taken in fifths (0.6 * 2^32 is rounded down by less than one part in 2^31).
  Payloads and byte layout are not in it. A clock of 60 ticks in 100 cycles is why
  `diff` stays at its maximum for one cycle or for two.
* **Ft601**: `Idle`, `Write` (`Refused`, `Resend`, `Yield`, `Send`, `Stop`),
  `ReadWait`, `Read` (`ReadDone`, `ReadYield`, `ReadWord`) are the branches of the
  FSM. `pads` is what the core drove in the cycle before: the ODDR registers make
  the chip see it a cycle late, while `data_oe` is not delayed. The chip
  (`ChipSync`, external) may turn full only upon taking a word and run out only
  upon giving one. `Ft601Host` adds the host's count of words.
* **UsbRx**: the receiver's `Idle`, `ReceiveHeader` and `Copy`, its registers
  (`PackSync`, `CntSync`, `TimerSync`) and the dispatcher (`DispatchSync`, from LiteX).
  The host sends packet after packet; what a word means to the receiver depends on
  where the host stands (`IsMagic`, `AsDst`, `AsLength`): a word of the payload may be
  taken for anything when it is met in the wrong place, and `lure` marks payloads that
  hold the magic word. `Lose` is a word that never arrives; a cycle without `valid` or
  `ready` is a pause. `calm` says that neither comes any more. `track` is history: it
  follows which packet the receiver is in and never guards a step.
* **Etherbone** has one action for each word that crosses a boundary and each turn of
  an FSM that crosses none: `RxHeader`, `RxPresent` (packet receiver), `ReceiverIdle`,
  `Taken` (record receiver), `MasterIdle`, `WriteData`, `ReadData`, `SendData` (bus
  master), `SenderIdle`, `SendBaseAddress`, `SendWord` (record sender), `TxIdle` (packet
  sender). The stages are tied by handshakes only, so cycles add no behaviour.
  **EtherboneHost** adds the program: `EbWrite`, `EbRead` and the two readers,
  `RecvPython`, which drops packets of the capture while it waits, and `RecvC`, which
  takes the next packet whatever it is; `Listen` is the end of sniff.py, where the
  capture is all that is read.
* **ItiFormat**: the bytes of a record (`Encode`) and a reader (`Decode`); the
  repository holds none, so it is the one that iti.py:14-15 describes. **ItiStream**
  joins the records, the pattern and `Conv4032`. It keeps of the bytes sent only how
  much of the pattern they end with (`match`).
* **Ulpi** has two clocks: `SysCycle` is a cycle of the core's FSM, `UlpiCycle` one of
  the transceiver's clock, in any order, and `seen` says whether a word that was
  written into a clock crossing is visible on the other side yet. `Host` is the polling
  of ulpi.c. Bytes of the bus that are not an answer are all one value, `Junk`. The
  transceiver (`Accept`, external) answers a read at once, and is not assumed to abort
  a command when it takes the bus in the middle of one. `stp`, the flags of captured
  bytes and the counters are left out. `SysCycle`'s argument `ready` stands for both
  values of `enable_source`: dropping is a capture that always takes.

Definitions marked `\* mutant` are faulty variants of the definition that follows
them. They are not part of a specification: they show that a property can fail.

## 3. What TLC checks

| run | instance | states | shows |
|---|---|---|---|
| dram_fifo | Ratio 3, ring of 2 blocks, words mod 8 | 55 312 | `BypassDrained`, `GroupWhole`, `WriteSlotReady`, `ReadInTurn`, `PointersAgree`; refines `Fifo`; `Delivered`: every word comes out |
| iti_stream | 60 bytes; 34 increments, 4 payload bytes | 51 630 | `WordsInOrder`, `PatternUnique`, `Decodable` |
| usb_tx | depth 4, timeout 5, replies of 1 and 3 words | 8 847 | `HostInSync`, `LengthAgrees`, `PacketBacked`, `CaptureInOrder`, `Answered`, `Flushed` |
| usb_rx | packets of 1 and 3 words, timeout 8, 2 words lost | 88 676 | `InStep`, `Recovers` |
| etherbone | 2 registers of 1 bit, records of 1 and 2 accesses, FIFOs of 2 | 524 340 | `ReadMatches`, `NoReplyLeft`, `LengthAgrees`, `ReadEnds` |
| iti_core | maximum 4, pattern of 3, 4 CSR writes | 28 432 | `PatternWhole`, `EventKept`, `EventOnce`, `EventReported` |
| ft601 | timeout 1, FIFOs of 2 | 44 194 | `TxKept`, `RxKept`, `TxServed`, `RxServed` |
| ulpi | one register, rx_fifo and tx_fifo of 2, crossings of 1 | 454 876 | `WritesLand`, `QuietRead`, `Returns` |
| iti_overflow | as iti_core | - | violated: an overflow reported twice |
| ft601_lost | timeout 30 | - | violated: the last word of a burst is lost |
| ft601_yield | timeout 1 | - | violated: a word corrupted and one added |
| ulpi_read | FIFOs and crossings of 4, as in the design | - | violated: a byte of the bus is returned for the register |

**Bounds.** The constants of the code appear as parameters: Ratio (4 in the
design), CtrlDepth (8 M), Depth (128), Timeout (10^6, 1024, 10^9), MaxDiff of ItiCore
(2^28-1), Repeat of ItiCore (4). What they do is compare, wrap and count, so instances
just large enough for every comparison to go both ways show every branch.

* `dram_fifo`: 3 words to a block make a first, a middle and a last word of a group,
  and 2 blocks let the ring be empty, partly full and full, and wrap. Words are numbered
  modulo `Tags` = 8, which has no divisor in common with the 3 words of a block, so that a
  word that takes the place of another of its group or of the group before shows.
* `usb_tx`: `Tags` = 8 exceeds the 5 words the sender can hold. In `ft601` the words in
  flight are compared one by one with `Fifo`'s queue and two tags are enough.
* `iti_stream`: `MaxBytes` stops the producer (hence `CHECK_DEADLOCK FALSE` there); 60
  bytes are 15 words and five runs of the pattern, and every pair of alignment and length
  occurs several times. The increments lie on both sides of each step of the number of
  time bytes, and all combinations of the pattern's own bytes stand in the time and in the
  payload, as only these can look like the pattern.
* `usb_rx`: packets of 1 word (the first is the last) and of 3; the timer (8 cycles) is
  longer than a whole packet and shorter than two, so it may fire at every position of a
  packet but never in a link that flows. `Endless` is a length of 0: the receiver counts to 2^32,
  far beyond the timer. `MaxLost` = 2 losses can put the receiver off and, while it is off,
  off again.
* `etherbone`: a record of 2 accesses fills a FIFO of 2, so every stage waits for the
  next one. `MaxDown` = 7 words hold one request and the greater part of the next, so
  that a read follows unfinished writes; `MaxUp` = 1 packet makes reply and capture fight for
  the channel. Both clients put one access in a record,
  but etherbone.c makes records of any number, and `Counts` has 1 and 2. `Over`: a C program that took a packet of the capture
  for its reply is followed no further.
* `ulpi`: every FIFO is seen empty, partly full and full, and rx_fifo overflows; one register
  is enough for the order of writes and reads, as `adr` does not change during an access.
* `iti_core`: `MaxWrites` bounds the CSR writes of the software.

The proofs below have no such bounds.

**Fairness.** A clock runs, but that must not make words arrive: "the clock runs"
is weak fairness on the registers that a cycle changes without an input
(`clockVars`, `<<state, count, timer>>`, `coreVars`). With fairness on all
variables instead, a stuck design is rescued by the next word from the bus, and
`Delivered` and `Flushed` would hold of designs that never let the last words go.
Beyond the clock: the consumer takes a word offered for ever; the memory
controller answers its commands; the PHY's ready comes again and again; in
`ItiCore` the FIFO behind has room well before the next overflow (2^27 ticks are
2.2 s); in `Ft601` the chip makes room again, and not every write burst is followed
by the next without one idle cycle between (the sender leaves gaps between packets,
and a full chip stays full for longer than a cycle); in `Ulpi` the transceiver leaves the
bus again and accepts a byte that waits, and the program goes on polling. In `UsbRx` only
the clock is fair; that packets flow without a pause from some time on is the premise
`calm` of `Recovers`, which the program may delay for ever. In `EtherboneHost` every stage
goes on while it can, a reply that waits gets the channel although packets of the capture
come between (strong fairness of `TxIdle`, which `Answered` of `usb_tx` justifies), and a
program that waits for a packet takes it.

**Disagreements found.**
1. *Overflow reported twice* (iti.py:54-60). `overflow` is set again, rather than
   cleared, when the record is taken in a second cycle of `diff` at its maximum. The
   time of the capture jumps 4.5 s ahead.
2. *Last word lost* (ft601.py:160). A refused word is retried only if another one
   waits behind it. `TxKept` shows that this and 3 are the only ways to lose a word.
3. *Write timeout* (ft601.py:169-171). `wr_n` is left at 0 and the bus is released
   a cycle early: one word is corrupted and one is added.
4. *A register read returns a byte of the bus* (ulpi.py:224). The flush discards what
   came before the command; what the transceiver sends of its own accord while the
   command waits for the bus comes before the answer and is taken for it, and the answer
   is captured. `QuietRead` shows that on a silent bus the value is right.

Two more need no run. sniff.py's `lt_unpack` (software/sniff.py:111-116) reads packets as a
length, a time of 64 bits and a payload, a layout that no module of this gateware makes: the
stream is one of ITI records (`ItiFormat`). And the Linux client (software/linux/compat.c:111)
takes a packet of the capture for a register's value; `ReadMatches` excepts what follows.

Both 2 and 3 shift the packets of the host, which has no way to find the next one;
`assert(magic == self.magic)` (software/etherbone.py:25) fails. The read timeout
(ft601.py:205-209) likewise drops a word on the bus: it is the case `RxKept`
excepts.

## 4. What TLAPS proves

For all values of the constants that meet the named assumptions (Ratio at least 2,
a ring of at least 1 block, depth and timeout at least 1, ...):

* **DramFifoProofs**: `Spec => []IInv`, where IInv is the conjunction of the type
  invariant and the five safety invariants of the run. None is inductive alone. That
  the ring, the reader and conv_w are empty in BYPASS needs the gate: the return asks
  only for `~LatchValid`, `~Pending` and `~Readable`, and a half-filled conv_w is
  excluded because `GroupWhole` says the rest of its group is in an open latch, which
  would be valid. That the data strobe meets a full block needs `senddata <=> wport
  # None` and that conv_w takes no word while full. That an answer finds room needs
  the single outstanding read, `sendcmdR <=> rport = None /\ rfifo = << >>`. The
  proof has one lemma per group of registers (latch, gate, control, converter, writer,
  reader), then one step per router state. Corollaries: `TypeCorrect`,
  `NothingLeftBehind`, `BlocksComplete`, `DataAtStrobe`, `AnswersFindRoom`, `RingAgrees`.
  `InOrder` adds that each cycle is a step of `Fifo` or none, on either route and while it
  changes. Its argument is that a slot of the ring is read before it is written again
  (`SlotProperties`, from `PointersAgree`), and that a cycle at most takes the head of
  `Contents` and puts one word behind the rest, wherever the words lie between.
* **ItiStreamProofs**, about `Conv4032`, `ItiFormat` and `ItiStream`. `Repacked`: the bytes
  leave in order and none is lost, after records of any lengths; the strengthening
  `ExtraAligned` says that nothing is kept behind the second word of a record. `RoundTrip`:
  each of the 2^28 increments with each type and payload is read back as it was sent.
  `PatternApart`: no record looks like a run of the pattern nor ends with a piece of it, as
  a piece begins with the header of a time of one byte whose value would need none.
  `Realigns`, `ReadBack` and `StreamInOrder` say it of the stream: after any records and
  pieces it ends with 0, 1, 2 or 4 bytes of the pattern or with whole pieces (`Reachable`), so
  that four pieces are only where they were sent.
* **UsbTxProofs**. Of `WrapSender` alone `NeverDry`, a packet has all the words it
  announces and at least one; the strengthening `TimerBacked` says that the timer is done
  only while a word waits: without it a packet of 0 words could start. Of the channel
  `InSync`, `LengthsAgree` and `CaptureOrdered` (a refinement of `Fifo`): `Held` says that
  from its header on a packet with words left is under way at the port that was granted,
  `Follows` that the host waits for the very word the packetizer sends next.
  `Held` keeps the arbiter from changing ports under the packetizer; with it the port's
  `last`, at which the packetizer stops, comes with the word at which the host's count, taken
  from the header, ends.
* **UsbRxProofs**: `TypeCorrect` and `KeepsStep`, for all lengths, timeouts and losses. The
  strengthening: `HeaderType`, what header_pack holds is a destination and a length;
  `Clocked`, nothing is counted before COPY and there `cnt + timer < Timeout`, which is why the
  timer bounds the words of a packet of any length; `Started`, a packet in step began with a
  free dispatcher, without which it could go to the port of a packet cut before. One lemma for
  each state says what its cycle does, and one that `InStep` follows.
* **ItiCoreProofs**: `PatternUncut`, `EventShownOnce`, `EventWaits`. `EventPending`: the
  register holds exactly what the software asked for and no record has shown yet.
  `PatternCount`: the pieces already out and those counted make up a pattern.
* **Ft601Proofs**: `TxOrdered` and `RxOrdered`, for every depth and timeout and whatever the
  chip does with txe and rxf. `WriteSide` says that the pads, which the chip sees a cycle
  late, carry the last word taken from write_fifo from the second cycle of a burst on, and
  never while that word also waits to be tried again, so it is in flight once;
  `ReadSide` that no burst begins while a word read_buffer refused still waits, so that
  the one register for it is enough; `Burst`, which cycles the timeouts count.
* **UlpiProofs**: `WritesArrive` and `ReadsAnswer`, for all registers, values, depths and every
  order of the two clocks' cycles. `Commands` is what is on its way to the transceiver.
  `Paired`: data comes there exactly behind a write. `Landing`: the last data for a
  register is what the program wants there, and a register for which none is under way holds
  it. `Quiet`: on a silent bus a read's question or its answer is in exactly one place, the
  question behind all writes.
* **EtherboneHostProofs**: `ReadsMatch`, `NoneLeft` and `LengthsAgree`, for all registers, values,
  records of any number of accesses and roads of any length, for both clients. The words in
  the FIFO and on the road do not say which record they belong to; the invariant says that
  there is a sequence `q` of words of whole records behind them (`Holds`, `Chain`) with
  which the receivers, the master (`Enters`, `Serves`) and the registers (`Landing`: the last
  write on its way is what the program last wrote) agree. The read that the program waits
  for is the last of the records (`Asks`), so that all writes are done before it; its words
  are in the sender, in order, or in one packet on the way (`Reply`).

With these every invariant and every action property or refinement that a passing run
checks is also proved.

**Assumptions.** All are on constants, stand in the modules that declare them and are
evaluated by TLC in the runs: numbers are numbers (`RoadAssumption`, `LostAssumption`,
`MaxBytesAssumption`), depths and lengths are not 0 (`DepthAssumption`, `ReplyAssumption`,
`CountsAssumption`), `None` and `Junk` are no values (`NoneAssumption`, `ValueAssumption` of
`Ulpi`, `JunkAssumption`), and memory starts as 0, so that 0 is a value (`ValueAssumption` of
`Etherbone`). None bounds a FIFO or a timer from above.

**Model-checked only.** The liveness properties: `Delivered`, `Answered`, `Flushed`, `Recovers`,
`ReadEnds`, `EventReported`, `TxServed`, `RxServed` and `Returns`. They rest on fairness and
ENABLED, which the prover does not handle. The four runs that expect a violation are
counterexamples and have nothing to prove.

## 5. Not modelled, and the plan

The status of every part is in `PROJECT.json`.

Of modelled parts these are left out:

* Etherbone: the probe (EtherboneProbe) and the DROP of packets with another magic, as no client
  sends either; records with both writes and reads (RECEIVE_BASE_RET_ADDR, etherbone.py:336-342),
  as no client makes one. The code takes the base of such reads from a word it does not
  consume, so that it would be taken for the first address to read.
* Etherbone behind a broken packet: `UsbRx` shows when packets arrive whole, `Etherbone`
  assumes it. A packet cut short leaves the record receiver, which counts words and does not
  look at `last`, a word off.
* ULPI: `stp`, what the transceiver does with it is not in the repository; the flags and
  counters of the captured bytes.
* The Windows client, which talks to a vendored driver.

What is left to do, in order:

1. Proofs: an abstract register file (a write takes effect, a read answers, one at a
   time) that `EtherboneHost` and `Ulpi` both implement, with `q` and `Commands` as what is
   still to take effect; the theorems of what 2 to 4 add.
2. The receive path of `ULPIPHYS7`: that `last` marks the end of a burst, and which bytes
   may be lost.
3. The chain: ITICore, fifo0, Conv4032 and hugefifo with the OverflowMeter, as one
   refinement of a lossy queue.
4. `SPIMaster`, which no other part depends on.

LED blinkers, the logic analyzer, clocks and pads, the vendored driver library and the
OpenOCD images are outside: they hold no state the rest depends on.
