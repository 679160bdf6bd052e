------------------------------ MODULE SpiLink ------------------------------
(***************************************************************************)
(* The slot protocol of the C-SPI link (nrc-hif-cspi.c).  The target puts  *)
(* a packet into slots of a queue and counts them in a register; the host  *)
(* counts the slots it has read, and the difference, modulo the width of   *)
(* the counters, is what it may still read.  The same pair of counters     *)
(* runs in the other direction.  Three threads copy the registers into     *)
(* the counters: the irq thread, the RX thread and the worker that         *)
(* transmits.  They share one buffer for the registers and take no lock    *)
(* round the counters.                                                     *)
(***************************************************************************)
EXTENDS Integers, Sequences, SequencesExt

CONSTANTS
    Mod,        \* head and tail are u16: 2^16 in the code
    Depth,      \* slots of the queue the host reads: 32 in the code
    TxDepth,    \* slots of the queue the host writes: 32 in the code
    MaxSlot,    \* max_slot_num: the slots of the largest usual packet
    Starts,     \* where the target's counters stand when the link starts
    Sizes,      \* how many slots the packets of the target take
    Packets,    \* bound: packets the target sends
    Frames,     \* frames the host has to send when the link starts
    Resets,     \* bound: resets of the link
    Faults      \* bound: failed transfers, garbled registers and time-outs

ASSUME LinkAssumption ==
    /\ Depth \in Nat \ {0} /\ TxDepth \in Nat \ {0} /\ MaxSlot \in 1..Depth
    /\ Mod \in Nat /\ Mod > 2 * (Depth + TxDepth)
    /\ Starts \subseteq 0..(Mod - 1)
    /\ Sizes \subseteq 1..Depth /\ Packets \in Nat /\ Frames \in Nat /\ Faults \in Nat
    /\ Resets \in Nat

Threads == {"irq", "rx", "worker"}

VARIABLES
    rxHead, rxTail,   \* priv->slot[RX_SLOT]
    txHead, txTail,   \* priv->slot[TX_SLOT]
    status,           \* priv->hw.status, the buffer the threads share
    upd,              \* where each thread is in spi_update_status
    rx,               \* the RX thread: [pc, pkt, need]
    wrk,              \* where the worker is in spi_wait_for_xmit
    txq,              \* what nrc_hif_work has still to send
    eirq,             \* CSPI_EIRQ_S_ENABLE in the target's enable register
    fetched,          \* the packets spi_rx_skb returned
    tgt,              \* the target: its queues and the registers it shows
    budget            \* bounds: what is left of each bound

host == <<rxHead, rxTail, txHead, txTail>>
linkVars == <<host, status, upd, rx, wrk, txq, eirq, fetched, tgt, budget>>

Wim == {"reset_hif_tx", "reset_hif_rx"}

NumSlots(head, tail) == (head - tail) % Mod
RxSlots == NumSlots(rxHead, rxTail)
TxSlots == NumSlots(txHead, txTail)

\* spi_start: the counters go on where the target's registers are.
LinkInit ==
    \E h \in Starts :
        /\ rxHead = h /\ rxTail = h
        /\ txHead = (h + TxDepth) % Mod /\ txTail = h
        /\ status = [rx |-> h, tx |-> (h + TxDepth) % Mod]
        /\ upd = [t \in Threads |-> "none"]
        /\ rx = [pc |-> "top", pkt |-> 0, need |-> 0]
        /\ wrk = "idle" /\ txq = [i \in 1..Frames |-> "frame"]
        /\ eirq = TRUE
        /\ fetched = <<>>
        /\ tgt = [fifo |-> <<>>, size |-> 0, more |-> 0, head |-> h, in |-> <<>>,
                  free |-> (h + TxDepth) % Mod, news |-> FALSE]
        /\ budget = [packets |-> Packets, faults |-> Faults, intact |-> TRUE,
                   resets |-> Resets]

-----------------------------------------------------------------------------
\* The WIM by which a reset of the link is made known to the target.
Reset(wim) == /\ budget.resets > 0
              /\ budget' = [budget EXCEPT !.resets = @ - 1]
              /\ txq' = Append(txq, wim)

\* A fault is a failed transfer, a garbled register or a wait that times out.
\* One that loses a packet or garbles the registers leaves the link not intact.
Fault(harmless) ==
    /\ budget.faults > 0
    /\ budget' = [budget EXCEPT !.faults = @ - 1, !.intact = @ /\ harmless]

(* spi_update_status, in the steps another thread can come between.        *)

\* Mutant: the two halves of msg[0] are taken for each other.

\* The registers are read under the bus lock into the shared buffer.
StatusRead(t) ==
    /\ upd[t] = "read"
    /\ status' = [rx |-> tgt.head, tx |-> tgt.free]
    /\ tgt' = [tgt EXCEPT !.news = FALSE]
    /\ upd' = [upd EXCEPT ![t] = "use"]
    /\ UNCHANGED <<host, rx, wrk, txq, eirq, fetched, budget>>

\* The transfer garbles the registers: a head no queue can have.
StatusGarbled(t) ==
    /\ upd[t] = "read"
    /\ Fault(FALSE)
    /\ status' = [rx |-> tgt.head, tx |-> (tgt.free + TxDepth + 1) % Mod]
    /\ upd' = [upd EXCEPT ![t] = "use"]
    /\ UNCHANGED <<host, rx, wrk, txq, eirq, fetched, tgt>>

\* The heads are taken from the buffer, whoever filled it last.  A gap no
\* queue can have makes spi_reset_tx queue its WIM.
StatusUse(t) ==
    /\ upd[t] = "use"
    /\ rxHead' = status.rx /\ txHead' = status.tx
    /\ IF NumSlots(status.tx, txTail) > TxDepth
         THEN /\ Reset("reset_hif_rx")
              /\ upd' = [upd EXCEPT ![t] = "tail"]
         ELSE UNCHANGED <<txq, budget>> /\ upd' = [upd EXCEPT ![t] = "check"]
    /\ UNCHANGED <<rxTail, txTail, status, rx, wrk, eirq, fetched, tgt>>

\* Mutant: tail is an int, -1 stays -1.

\* ... and set the counters as if the worker had not sent it yet.
ResetTxTail(t) ==
    /\ upd[t] = "tail"
    /\ txTail' = Mod - 1 /\ txHead' = TxDepth
    /\ eirq' = TRUE
    /\ upd' = [upd EXCEPT ![t] = "check"]
    /\ UNCHANGED <<rxHead, rxTail, status, rx, wrk, txq, fetched, tgt, budget>>

\* What spi_reset_rx does: both counters to zero and a WIM that asks the
\* target to do the same.
ResetRx ==
    /\ rxHead' = 0 /\ rxTail' = 0
    /\ Reset("reset_hif_tx")
    /\ eirq' = TRUE

\* The RX gap, then the decision to mask the slot interrupt.
StatusCheck(t) ==
    /\ upd[t] = "check"
    /\ IF RxSlots > Depth + 1
         THEN ResetRx /\ upd' = [upd EXCEPT ![t] = "none"]
         ELSE /\ upd' = [upd EXCEPT ![t] =
                    IF RxSlots >= MaxSlot + 1 /\ TxSlots >= MaxSlot THEN "mask" ELSE "none"]
              /\ UNCHANGED <<rxHead, rxTail, txq, eirq, budget>>
    /\ UNCHANGED <<txHead, txTail, status, rx, wrk, fetched, tgt>>

\* c_spi_enable_irq(false): it takes irq_mutex, so the others may be before it.
StatusMask(t) ==
    /\ upd[t] = "mask"
    /\ eirq' = FALSE
    /\ upd' = [upd EXCEPT ![t] = "none"]
    /\ UNCHANGED <<host, status, rx, wrk, txq, fetched, tgt, budget>>

\* spi_irq: the interrupt fires on news while it is enabled.
Irq ==
    /\ tgt.news /\ eirq /\ upd["irq"] = "none"
    /\ upd' = [upd EXCEPT !["irq"] = "read"]
    /\ UNCHANGED <<host, status, rx, wrk, txq, eirq, fetched, tgt, budget>>

-----------------------------------------------------------------------------
(* spi_rx_thread and spi_rx_skb.                                           *)

RxAt(pc) == rx.pc = pc /\ upd["rx"] = "none"
Top == [pc |-> "top", pkt |-> 0, need |-> 0]
Receive(p) == fetched' = Append(fetched, p)

RxTop ==
    /\ RxAt("top") /\ RxSlots = 0
    /\ rx' = [rx EXCEPT !.pc = "arm"]
    /\ upd' = [upd EXCEPT !["rx"] = "read"]
    /\ UNCHANGED <<host, status, wrk, txq, eirq, fetched, tgt, budget>>

RxArm ==
    /\ \/ RxAt("arm")
       \/ RxAt("top") /\ RxSlots > 0
    /\ eirq' = (eirq \/ RxSlots < MaxSlot)
    /\ rx' = [rx EXCEPT !.pc = "wait"]
    /\ UNCHANGED <<host, status, upd, wrk, txq, fetched, tgt, budget>>

RxWait ==
    /\ RxAt("wait") /\ RxSlots > 0
    /\ rx' = [rx EXCEPT !.pc = "first"]
    /\ UNCHANGED <<host, status, upd, wrk, txq, eirq, fetched, tgt, budget>>

\* The first slot: a gap that is too large, or a slot that does not start a
\* packet, resets the link; the header says how many slots are still to come.
RxGarbage ==
    /\ RxAt("first") /\ RxSlots > Depth
    /\ ResetRx
    /\ rx' = Top
    /\ UNCHANGED <<txHead, txTail, status, upd, wrk, fetched, tgt>>

RxFirst ==
    /\ RxAt("first") /\ RxSlots <= Depth
    /\ tgt' = [tgt EXCEPT !.fifo = IF @ = <<>> THEN @ ELSE Tail(@)]
    /\ LET starts == tgt.fifo # <<>> /\ tgt.fifo[1].k = 1
           more == tgt.fifo[1].n - 1
       IN  IF ~starts
             THEN ResetRx /\ rx' = Top /\ UNCHANGED <<upd, fetched>>
             ELSE /\ rxTail' = (rxTail + 1) % Mod
                  /\ IF more = 0
                       THEN rx' = Top /\ Receive(tgt.fifo[1].p) /\ UNCHANGED upd
                       ELSE /\ rx' = [pc |-> "rest", pkt |-> tgt.fifo[1].p, need |-> more]
                            /\ upd' = [upd EXCEPT !["rx"] =
                                 IF NumSlots(rxHead, rxTail + 1) < more THEN "read" ELSE "none"]
                            /\ UNCHANGED fetched
                  /\ UNCHANGED <<rxHead, txq, eirq, budget>>
    /\ UNCHANGED <<txHead, txTail, status, wrk>>

\* Mutant: tail is not moved back when the read fails.
RxFirstFailsKept ==
    /\ RxAt("first") /\ RxSlots <= Depth
    /\ Fault(TRUE)
    /\ rxTail' = (rxTail + 1) % Mod
    /\ rx' = Top
    /\ UNCHANGED <<rxHead, txHead, txTail, status, upd, wrk, txq, eirq, fetched, tgt>>

\* c_spi_read failed: the slot is given back, it was not taken off the queue.
RxFirstFails ==
    /\ RxAt("first") /\ RxSlots <= Depth
    /\ Fault(TRUE)
    /\ rx' = Top
    /\ UNCHANGED <<host, status, upd, wrk, txq, eirq, fetched, tgt>>

\* Mutant: the rest is read without waiting for all of it.
RxRestEarly ==
    /\ RxAt("rest")
    /\ rxTail' = (rxTail + rx.need) % Mod
    /\ rx' = [rx EXCEPT !.pc = "body"]
    /\ UNCHANGED <<rxHead, txHead, txTail, status, upd, wrk, txq, eirq,
                   fetched, tgt, budget>>

RxRest ==
    /\ RxAt("rest") /\ RxSlots >= rx.need
    /\ rxTail' = (rxTail + rx.need) % Mod
    /\ rx' = [rx EXCEPT !.pc = "body"]
    /\ UNCHANGED <<rxHead, txHead, txTail, status, upd, wrk, txq, eirq,
                   fetched, tgt, budget>>

\* 100 ms are over: the first slot of the packet stays read.
RxRestTimeout ==
    /\ RxAt("rest") /\ RxSlots < rx.need
    /\ Fault(FALSE)
    /\ rx' = Top
    /\ UNCHANGED <<host, status, upd, wrk, txq, eirq, fetched, tgt>>

\* The remaining slots in one transfer.  They belong to the packet or not:
\* nothing in them is checked (0 stands for a packet of mixed content).
AllOfIt == /\ Len(tgt.fifo) >= rx.need
           /\ \A i \in 1..rx.need : tgt.fifo[i].p = rx.pkt
RxBody ==
    /\ RxAt("body")
    /\ rx' = Top
    /\ IF RxSlots > Depth
         THEN ResetRx /\ UNCHANGED <<fetched, tgt>>
         ELSE /\ Receive(IF AllOfIt THEN rx.pkt ELSE 0)
              /\ tgt' = [tgt EXCEPT !.fifo = SubSeq(@, rx.need + 1, Len(@))]
              /\ UNCHANGED <<rxHead, rxTail, txq, eirq, budget>>
    /\ UNCHANGED <<txHead, txTail, status, upd, wrk>>

RxBodyFails ==
    /\ RxAt("body") /\ RxSlots <= Depth
    /\ Fault(FALSE)
    /\ rx' = Top
    /\ UNCHANGED <<host, status, upd, wrk, txq, eirq, fetched, tgt>>

-----------------------------------------------------------------------------
(* The worker: spi_wait_for_xmit and spi_xmit for items of one slot.       *)

WorkerAt(pc) == wrk = pc /\ upd["worker"] = "none" /\ txq # <<>>

Xmit ==
    /\ WorkerAt("idle") \/ WorkerAt("wait")
    /\ TxSlots >= 1
    /\ txTail' = (txTail + 1) % Mod
    /\ tgt' = [tgt EXCEPT !.in = Append(@, Head(txq))]
    /\ txq' = Tail(txq)
    /\ wrk' = "idle"
    /\ UNCHANGED <<rxHead, rxTail, txHead, status, upd, rx, eirq, fetched, budget>>

XmitRefresh ==
    /\ WorkerAt("idle") /\ TxSlots = 0
    /\ upd' = [upd EXCEPT !["worker"] = "read"]
    /\ wrk' = "again"
    /\ UNCHANGED <<host, status, rx, txq, eirq, fetched, tgt, budget>>

XmitArm ==
    /\ WorkerAt("again")
    /\ eirq' = (eirq \/ TxSlots < MaxSlot)
    /\ wrk' = "wait"
    /\ UNCHANGED <<host, status, upd, rx, txq, fetched, tgt, budget>>

XmitTimeout ==
    /\ WorkerAt("wait") /\ TxSlots = 0
    /\ txq' = Tail(txq) /\ wrk' = "idle"
    /\ UNCHANGED <<host, status, upd, rx, eirq, fetched, tgt, budget>>

-----------------------------------------------------------------------------
(* The target.                                                             *)

\* A packet becomes visible one slot at a time.
Put(p, k, n) ==
    tgt' = [tgt EXCEPT !.fifo = Append(@, [p |-> p, k |-> k, n |-> n]),
                       !.head = (@ + 1) % Mod, !.news = TRUE,
                       !.size = n, !.more = n - k]

TgtFirst ==
    /\ tgt.more = 0 /\ Len(tgt.fifo) < Depth /\ budget.packets > 0
    /\ \E n \in Sizes : Put(Packets - budget.packets + 1, 1, n)
    /\ budget' = [budget EXCEPT !.packets = @ - 1]
    /\ UNCHANGED <<host, status, upd, rx, wrk, txq, eirq, fetched>>

TgtNext ==
    /\ tgt.more > 0 /\ Len(tgt.fifo) < Depth
    /\ Put(Packets - budget.packets, tgt.size - tgt.more + 1, tgt.size)
    /\ UNCHANGED <<host, status, upd, rx, wrk, txq, eirq, fetched, budget>>

\* The target takes an item and frees its slot; a WIM resets its queue.
TgtTake ==
    /\ tgt.in # <<>>
    /\ LET freed == [tgt EXCEPT !.in = Tail(@), !.free = (@ + 1) % Mod, !.news = TRUE]
       IN  tgt' = CASE Head(tgt.in) = "frame" -> freed
                    [] Head(tgt.in) = "reset_hif_tx" ->
                         [freed EXCEPT !.fifo = <<>>, !.head = 0, !.more = 0]
                    [] OTHER -> [freed EXCEPT !.free = TxDepth]
    /\ UNCHANGED <<host, status, upd, rx, wrk, txq, eirq, fetched, budget>>

Target == TgtFirst \/ TgtNext \/ TgtTake

RxThread == \/ RxTop \/ RxArm \/ RxWait \/ RxGarbage \/ RxFirst \/ RxFirstFails
            \/ RxRest \/ RxRestTimeout \/ RxBody \/ RxBodyFails
Worker == Xmit \/ XmitRefresh \/ XmitArm \/ XmitTimeout
Update(t) == StatusRead(t) \/ StatusGarbled(t) \/ StatusUse(t) \/ ResetTxTail(t) \/ StatusCheck(t) \/ StatusMask(t)

LinkNext == \/ \E t \in Threads : Update(t)
            \/ Irq \/ RxThread \/ Worker \/ Target

LinkSpec == LinkInit /\ [][LinkNext]_linkVars
-----------------------------------------------------------------------------
(* Properties.                                                             *)

Intact == budget.intact

\* Neither side ever miscounts: the slots in the target's queue are those it
\* has counted and the host has not, and the free slots of the other queue are
\* the ones the host believes in plus what is on its way.  A failed read of a
\* first slot must not upset it (tail++ ... tail-- in spi_rx_skb), nor the
\* wrap-around of the u16 counters, nor a status read between two others.
Counted ==
    Intact => /\ NumSlots(tgt.head, rxTail)
                    = Len(tgt.fifo) - (IF rx.pc = "body" THEN rx.need ELSE 0)
              /\ NumSlots(tgt.free, txTail) = TxDepth - Len(tgt.in)

\* Every packet is fetched once, whole and in order.
Whole == Intact => \A i \in DOMAIN fetched : fetched[i] = i

=============================================================================
