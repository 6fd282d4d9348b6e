------------------------------ MODULE Etherbone -----------------------------
(***************************************************************************)
(* Register accesses over the stream (gateware/etherbone.py). A request is *)
(* a packet with one record, of writes or of reads; its words queue up in  *)
(* the record receiver, the Wishbone master carries them out one by one,   *)
(* the record sender gathers what was read, and the reply goes out as a    *)
(* packet of its own, whose length is announced before its words.          *)
(*                                                                         *)
(* The stages are joined by valid/ready handshakes with no timing of their *)
(* own: one step is one word that crosses a boundary, or one turn of an    *)
(* FSM that crosses none. A request in down is a header, the base address, *)
(* and a word for every access: a value to write or an address to read.    *)
(* Registers of the FSMs that are not read again before they are next      *)
(* written are set to 0, so that they tell no states apart.                *)
(***************************************************************************)
EXTENDS Integers, Sequences

CONSTANTS Addr,         \* addresses of the bus
          Value,        \* what its registers hold
          Depth         \* buffer_depth of receiver and sender

ASSUME AddrAssumption == Addr \subseteq Nat
ASSUME ValueAssumption == 0 \in Value
ASSUME DepthAssumption == Depth \in Nat \ {0}

VARIABLES down,     \* words on their way from the host
          rx,       \* EtherbonePacketRX and the record depacketizer
          fifo,     \* EtherboneRecordReceiver: words with their record's counts
          rcv,      \* its FSM, base address and counter
          master,   \* EtherboneWishboneMaster: FSM and data read
          pbuffer,  \* EtherboneRecordSender: data read, with count and last
          snd,      \* its FSM
          tx,       \* EtherbonePacketTX: the reply under way, its length and words
          up,       \* packets on their way to the host
          mem       \* the registers behind the bus

inVars == <<rx, fifo>>
accessVars == <<rcv, master, mem>>
outVars == <<pbuffer, snd, tx>>
ebVars == <<down, inVars, accessVars, outVars, up>>

Init == /\ down = << >> /\ up = << >>
        /\ rx = [state |-> "IDLE", wcount |-> 0, rcount |-> 0]
        /\ fifo = << >>
        /\ rcv = [state |-> "IDLE", base |-> 0, counter |-> 0]
        /\ master = [state |-> "IDLE", data |-> 0]
        /\ pbuffer = << >> /\ snd = "IDLE"
        /\ tx = [state |-> "IDLE", length |-> 0, words |-> << >>]
        /\ mem = [a \in Addr |-> 0]

-----------------------------------------------------------------------------
(* From the port to the receiver's FIFO.                                   *)

(* IDLE and CHECK: the header is taken off; the counts go with every word. *)
RxHeader == /\ rx.state = "IDLE" /\ down # << >>
            /\ rx' = [state |-> "PRESENT", wcount |-> Head(down).wcount,
                                           rcount |-> Head(down).rcount]
            /\ down' = Tail(down)
            /\ UNCHANGED <<fifo, accessVars, outVars, up>>

RxPresentUnchecked ==                                           \* mutant
  /\ rx.state = "PRESENT" /\ down # << >>
  /\ fifo' = Append(fifo, [data |-> Head(down).data,
                           wcount |-> rx.wcount, rcount |-> rx.rcount])
  /\ rx' = IF Head(down).last
             THEN [state |-> "IDLE", wcount |-> 0, rcount |-> 0] ELSE rx
  /\ down' = Tail(down)
  /\ UNCHANGED <<accessVars, outVars, up>>
RxPresent == /\ rx.state = "PRESENT" /\ down # << >> /\ Len(fifo) < Depth
             /\ fifo' = Append(fifo, [data |-> Head(down).data,
                                      wcount |-> rx.wcount, rcount |-> rx.rcount])
             /\ rx' = IF Head(down).last
                        THEN [state |-> "IDLE", wcount |-> 0, rcount |-> 0] ELSE rx
             /\ down' = Tail(down)
             /\ UNCHANGED <<accessVars, outVars, up>>

-----------------------------------------------------------------------------
(* EtherboneRecordReceiver, whose source is the sink of the master.        *)

ReceiverIdle ==
  /\ rcv.state = "IDLE" /\ fifo # << >>
  /\ rcv' = [state |-> CASE Head(fifo).wcount > 0 -> "RECEIVE_WRITES"
                         [] Head(fifo).wcount = 0 /\ Head(fifo).rcount > 0 -> "RECEIVE_READS"
                         [] OTHER -> "IDLE",
             base |-> IF Head(fifo).wcount > 0 THEN Head(fifo).data ELSE 0, counter |-> 0]
  /\ fifo' = Tail(fifo)
  /\ UNCHANGED <<down, rx, master, mem, outVars, up>>

Offered == rcv.state # "IDLE" /\ fifo # << >>
We == rcv.state = "RECEIVE_WRITES"
Count == IF We THEN Head(fifo).wcount ELSE Head(fifo).rcount
LastLate == rcv.counter = Count                                 \* mutant
Last == rcv.counter = Count - 1

(* The word is taken. A record has writes or reads, never both, so the end *)
(* of the writes is the end of the record.                                 *)
Taken == /\ fifo' = Tail(fifo)
         /\ rcv' = IF Last THEN [state |-> "IDLE", base |-> 0, counter |-> 0]
                   ELSE [rcv EXCEPT !.counter = @ + 1]

-----------------------------------------------------------------------------
(* EtherboneWishboneMaster; the bus acknowledges at some time.             *)

MasterIdle == /\ master.state = "IDLE" /\ Offered
              /\ master' = [master EXCEPT !.state = IF We THEN "WRITE_DATA" ELSE "READ_DATA"]
              /\ UNCHANGED <<down, inVars, rcv, mem, outVars, up>>

WriteData == /\ master.state = "WRITE_DATA" /\ Offered
             /\ mem' = [mem EXCEPT ![rcv.base + rcv.counter] = Head(fifo).data]
             /\ master' = [master EXCEPT !.state = IF Last THEN "IDLE" ELSE "WRITE_DATA"]
             /\ Taken
             /\ UNCHANGED <<down, rx, outVars, up>>

ReadData == /\ master.state = "READ_DATA" /\ Offered
            /\ master' = [state |-> "SEND_DATA", data |-> mem[Head(fifo).data]]
            /\ UNCHANGED <<down, inVars, rcv, mem, outVars, up>>

SendDataKept ==                                                 \* mutant
  /\ master.state = "SEND_DATA" /\ Offered /\ Len(pbuffer) < Depth
  /\ pbuffer' = Append(pbuffer, [data |-> master.data, count |-> Count, last |-> Last])
  /\ master' = IF Last THEN [state |-> "IDLE", data |-> 0] ELSE master
  /\ Taken
  /\ UNCHANGED <<down, rx, mem, snd, tx, up>>
SendData == /\ master.state = "SEND_DATA" /\ Offered /\ Len(pbuffer) < Depth
            /\ pbuffer' = Append(pbuffer, [data |-> master.data, count |-> Count, last |-> Last])
            /\ master' = [state |-> IF Last THEN "IDLE" ELSE "READ_DATA", data |-> 0]
            /\ Taken
            /\ UNCHANGED <<down, rx, mem, snd, tx, up>>

-----------------------------------------------------------------------------
(* EtherboneRecordSender and EtherbonePacketTX. The packetizers put the    *)
(* headers before the first word, the base address, is taken; the length   *)
(* comes from the count of the word that pbuffer shows at that time.       *)

SenderIdle == /\ snd = "IDLE" /\ pbuffer # << >>
              /\ snd' = "SEND_BASE_ADDRESS"
              /\ UNCHANGED <<down, inVars, accessVars, pbuffer, tx, up>>

(* Bytes: packet header, record header, base address and data. *)
LengthRead == 8 + 4 + 4 + 4 * Len(pbuffer)                      \* mutant
Length == 8 + 4 + 4 + 4 * Head(pbuffer).count

TxIdle == /\ tx.state = "IDLE" /\ snd = "SEND_BASE_ADDRESS"
          /\ tx' = [state |-> "SEND", length |-> Length, words |-> << >>]
          /\ UNCHANGED <<down, inVars, accessVars, pbuffer, snd, up>>

SendBaseAddress == /\ tx.state = "SEND" /\ snd = "SEND_BASE_ADDRESS"
                   /\ snd' = "SEND_DATA"
                   /\ UNCHANGED <<down, inVars, accessVars, pbuffer, tx, up>>

(* The last word of the reply ends the packet, which is then with the host. *)
SendWord ==
  /\ snd = "SEND_DATA" /\ pbuffer # << >>
  /\ LET words == Append(tx.words, Head(pbuffer).data)
     IN IF Head(pbuffer).last
          THEN /\ up' = Append(up, [stream |-> "wishbone", length |-> tx.length,
                                                           words |-> words])
               /\ tx' = [state |-> "IDLE", length |-> 0, words |-> << >>]
               /\ snd' = "IDLE"
          ELSE /\ tx' = [tx EXCEPT !.words = words]
               /\ UNCHANGED <<snd, up>>
  /\ pbuffer' = Tail(pbuffer)
  /\ UNCHANGED <<down, inVars, accessVars>>

-----------------------------------------------------------------------------
In == RxHeader \/ RxPresent
Access == ReceiverIdle \/ MasterIdle \/ WriteData \/ ReadData \/ SendData
Out == SenderIdle \/ SendBaseAddress \/ SendWord

(* TxIdle is apart: it waits for the channel to the host. *)
EbNext == In \/ Access \/ Out \/ TxIdle
=============================================================================
