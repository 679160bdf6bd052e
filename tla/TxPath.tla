------------------------------- MODULE TxPath -------------------------------
(***************************************************************************)
(* The transmit path of the nrc driver, from the per-AC software queues of *)
(* mac80211 to the slots of the SPI target:                                *)
(*                                                                         *)
(*   mac80211 txq --tasklet--> hif frame queue --nrc_hif_work--> SPI slots *)
(*                             hif WIM queue   --nrc_hif_work--> SPI slots *)
(*                                                                         *)
(* Two flow controls overlap.  TX slots (head - tail) say how much the     *)
(* target's input ring takes.  Credits say how much of an AC's buffer is   *)
(* free on the target: front counts what the host sent, rear what the      *)
(* target released, both in a byte, and each status read turns them into   *)
(* tx_credit.  tx_pend counts what sits in the hif queues.                 *)
(*                                                                         *)
(* Contexts: mac80211 callers, the tasklet, the single-threaded work item, *)
(* the threaded irq handler and the target run interleaved.                *)
(***************************************************************************)
EXTENDS Integers, Sequences, FiniteSets

CONSTANTS
  AC,         \* hardware queues in use
  MgmtAC,     \* the queue management and control frames are charged to
  CreditMax,  \* credit_max[ac]: buffers the target has for an AC
  MaxUnits,   \* most slots (= credits) one skb takes
  SlotCap,    \* slots of the target's input ring
  CtrMod,     \* values of the byte counters front and rear (256)
  CtrStart,   \* where front and rear stand when the behaviour begins
  SlotMod,    \* values of the slot counters head and tail (65536)
  Kinds,      \* kinds of skb the environment creates
  MaxSkb,     \* bound on the skbs created
  MaxFault,   \* bound on timeouts, bus errors, resets and notifications
  NoSkb       \* the NULL skb

AllKinds == {"data", "mgmt", "deauth", "ctl", "wim"}

ASSUME TxPathAssumption ==
  /\ MgmtAC \in AC
  /\ CtrMod \in Nat \ {0} /\ CtrStart \in 0 .. (CtrMod - 1)
  /\ CreditMax \in [AC -> 1 .. (CtrMod - 1)]
  /\ MaxUnits \in Nat \ {0}
  /\ SlotCap \in Nat /\ SlotMod \in Nat
  /\ MaxUnits <= SlotCap /\ SlotCap + MaxUnits < SlotMod
  /\ Kinds \subseteq AllKinds
  /\ MaxSkb \in Nat /\ MaxFault \in Nat

Skb == [id : 1 .. MaxSkb, kind : AllKinds, ac : AC, n : 1 .. MaxUnits]
ASSUME NoSkbAssumption == NoSkb \notin Skb

VARIABLES
  drv,        \* nw->drv_state: "RUNNING" or "REBOOT"
  fwActive,   \* nw->fw_state = NRC_FW_ACTIVE
  txq,        \* the mac80211 queue of each AC
  woken,      \* ACs whose wake_tx_queue call has not run yet
  txqList,    \* nw->txq, the list of queues to serve
  taskSched,  \* tx_tasklet is scheduled
  taskRun,    \* tx_tasklet is running, under txq_lock
  quota,      \* credit snapshot of the queue being pushed, 0 between queues
  txCredit,   \* nw->tx_credit
  txPend,     \* nw->tx_pend
  frameQ,     \* hdev->queue[0]
  wimQ,       \* hdev->queue[1]
  queued,     \* hdev->work is pending on the workqueue
  pc,         \* where nrc_hif_work is
  inWim,      \* nrc_hif_work is in the loop over the WIM queue (i = 1)
  cur,        \* skb being transmitted
  held,       \* skb_frame: the frame dequeued in the WIM loop
  gap,        \* TX slots the host knows of: slot[TX_SLOT].head - tail (u16)
  front,      \* per AC, slots written by the host (u8)
  rear,       \* per AC, slots released, as last read (u8)
  armed,      \* target: slots made ready since the last status read
  busy,       \* target: slots written and not taken out of the ring
  inTarget,   \* target: buffers each AC occupies
  tgtRear,    \* target: released count of each AC (u8)
  irq,        \* target: status interrupt asserted
  noti,       \* what the irq thread has left to do of a notification
  made,       \* skbs created so far
  faults,     \* faults injected so far
  sent,       \* history: skbs the target received, in order
  leaked,     \* history: frames freed without being taken off tx_pend
  caught,     \* history: the last reset met a worker with slots it had found
  early,      \* history: such a worker has taken tail past head
  astray,     \* history: slots of the write under way at the last reset
  resynced    \* history: spi_reset_tx was called

macVars  == <<txq, woken>>
taskVars == <<txqList, taskSched, taskRun, quota>>
hifVars  == <<txPend, frameQ, wimQ, queued>>
workVars == <<pc, inWim, cur, held>>
spiVars  == <<gap, early, resynced, front, rear, txCredit>>
tgtVars  == <<armed, busy, inTarget, tgtRear, irq>>
notiVars == <<noti, caught, astray>>
ghosts   == <<made, faults, sent, leaked>>
vars == <<drv, fwActive, macVars, taskVars, hifVars, workVars, spiVars,
          tgtVars, notiVars, ghosts>>

Elems(s) == {s[i] : i \in DOMAIN s}
IsFrame(s) == s.kind # "wim"
Frames(S) == {s \in S : s # NoSkb /\ IsFrame(s)}

\* After nrc_fw_start: the status reads of the start have swallowed the first
\* credit report (spi_credit_skb) and delivered a full one; or any moment after
\* that at which all that was sent has been released, with front at CtrStart.
Init ==
  /\ drv = "RUNNING" /\ fwActive = TRUE
  /\ txq = [a \in AC |-> <<>>] /\ woken = {}
  /\ txqList = <<>> /\ taskSched = FALSE /\ taskRun = FALSE /\ quota = 0
  /\ txCredit = CreditMax /\ txPend = [a \in AC |-> 0]
  /\ frameQ = <<>> /\ wimQ = <<>> /\ queued = FALSE
  /\ pc = "idle" /\ inWim = FALSE /\ cur = NoSkb /\ held = NoSkb
  /\ gap = SlotCap
  /\ front = [a \in AC |-> CtrStart] /\ rear = [a \in AC |-> CtrStart]
  /\ armed = 0 /\ busy = 0 /\ irq = FALSE
  /\ inTarget = [a \in AC |-> 0] /\ tgtRear = [a \in AC |-> CtrStart]
  /\ noti = "none" /\ caught = FALSE /\ astray = 0
  /\ early = FALSE /\ resynced = FALSE
  /\ made = 0 /\ faults = 0 /\ sent = <<>> /\ leaked = {}

Fault == faults < MaxFault /\ faults' = faults + 1

-----------------------------------------------------------------------------
(* Entering the hif queues.                                                *)

Urgent(s) == s.kind \in {"mgmt", "deauth"}

\* nrc_xmit_frame: charge tx_pend, enqueue, give the charge back if refused.
XmitFrame(s) ==
  IF fwActive
  THEN /\ txPend' = [txPend EXCEPT ![s.ac] = @ + s.n]
       /\ frameQ' = IF drv = "RUNNING" /\ Urgent(s)
                    THEN <<s>> \o frameQ ELSE Append(frameQ, s)
       /\ queued' = TRUE
       /\ UNCHANGED wimQ
  ELSE UNCHANGED hifVars

NewSkb(k, a, n) == [id |-> made + 1, kind |-> k, ac |-> a, n |-> n]

\* mac80211 hands a frame that has no txq straight to nrc_mac_tx.
TxDirect ==
  /\ made < MaxSkb
  /\ \E k \in Kinds \cap {"mgmt", "deauth", "ctl"}, n \in 1 .. MaxUnits :
       XmitFrame(NewSkb(k, MgmtAC, n))
  /\ made' = made + 1
  /\ UNCHANGED <<drv, fwActive, macVars, taskVars, workVars, spiVars, tgtVars,
                 notiVars, faults, sent, leaked>>

\* nrc_xmit_wim: refused while rebooting or when the firmware is not active.
XmitWim ==
  /\ made < MaxSkb
  /\ "wim" \in Kinds
  /\ IF drv = "RUNNING" /\ fwActive
     THEN /\ wimQ' = Append(wimQ, NewSkb("wim", MgmtAC, 1))
          /\ queued' = TRUE
     ELSE UNCHANGED <<wimQ, queued>>
  /\ made' = made + 1
  /\ UNCHANGED <<drv, fwActive, macVars, taskVars, txPend, frameQ, workVars,
                 spiVars, tgtVars, notiVars, faults, sent, leaked>>

-----------------------------------------------------------------------------
(* The txq list and its tasklet.                                           *)

Mac80211Enqueue ==
  /\ made < MaxSkb
  /\ "data" \in Kinds
  /\ \E a \in AC, n \in 1 .. MaxUnits :
       /\ txq' = [txq EXCEPT ![a] = Append(@, NewSkb("data", a, n))]
       /\ woken' = woken \cup {a}
  /\ made' = made + 1
  /\ UNCHANGED <<drv, fwActive, taskVars, hifVars, workVars, spiVars, tgtVars,
                 notiVars, faults, sent, leaked>>

\* nrc_kick_txq
Kick == taskSched' = (taskSched \/ drv = "RUNNING")

WakeTxQueue(a) ==
  /\ a \in woken
  /\ ~taskRun
  /\ woken' = woken \ {a}
  /\ txqList' = IF a \in Elems(txqList) THEN txqList ELSE Append(txqList, a)
  /\ Kick
  /\ UNCHANGED <<drv, fwActive, txq, taskRun, quota, hifVars, workVars,
                 spiVars, tgtVars, notiVars, ghosts>>

\* nrc_ac_credit
AcCredit(a) == IF txCredit[a] >= txPend[a] THEN txCredit[a] - txPend[a] ELSE 0

TaskletStart ==
  /\ taskSched /\ ~taskRun
  /\ taskSched' = FALSE /\ taskRun' = TRUE
  /\ UNCHANGED <<drv, fwActive, macVars, txqList, quota, hifVars, workVars,
                 spiVars, tgtVars, notiVars, ghosts>>

\* Credit ran out: the queue moves to the tail and the tasklet stops.
GiveWayUnlisted ==
  /\ txqList' = Tail(txqList)
  /\ taskRun' = FALSE
  /\ quota' = 0
GiveWay ==
  /\ txqList' = Append(Tail(txqList), Head(txqList))
  /\ taskRun' = FALSE
  /\ quota' = 0

\* nrc_push_txq up to its loop, for the first queue of the list.
TaskletPick ==
  /\ taskRun /\ quota = 0
  /\ IF txqList = <<>>
     THEN taskRun' = FALSE /\ UNCHANGED <<txqList, quota>>
     ELSE IF AcCredit(Head(txqList)) = 0
          THEN GiveWay
          ELSE /\ quota' = AcCredit(Head(txqList))
               /\ UNCHANGED <<txqList, taskRun>>
  /\ UNCHANGED <<drv, fwActive, macVars, taskSched, hifVars, workVars, spiVars,
                 tgtVars, notiVars, ghosts>>

\* One iteration of the loop of nrc_push_txq; the quota counts skbs.
TaskletPush ==
  LET a == Head(txqList) IN
  /\ taskRun /\ quota > 0
  /\ IF txq[a] = <<>>
     THEN /\ txqList' = Tail(txqList)
          /\ quota' = 0
          /\ UNCHANGED <<txq, taskRun, hifVars>>
     ELSE /\ XmitFrame(Head(txq[a]))
          /\ txq' = [txq EXCEPT ![a] = Tail(@)]
          /\ IF quota = 1
             THEN GiveWay
             ELSE quota' = quota - 1 /\ UNCHANGED <<txqList, taskRun>>
  /\ UNCHANGED <<drv, fwActive, woken, taskSched, workVars, spiVars, tgtVars,
                 notiVars, ghosts>>

-----------------------------------------------------------------------------
(* Reading the status registers: slots, counters, credit report.           *)

\* spi_credit_skb: what the host believes the AC occupies on the target.
Room(f, r) == IF f >= r THEN f - r ELSE (CtrMod - 1 - r) + f

Lesser(m, n) == IF m <= n THEN m ELSE n

\* More free slots than the ring has: spi_reset_tx sets tail to -1 and asks the
\* target for a new start.  What follows that is in SpiLink.
Overrun == (gap + armed) % SlotMod > SlotCap

\* The "update" part of spi_update_status and the credit report event, which
\* hif_receive_skb drops unless the driver runs.
UpdateStatus ==
  /\ gap' = (IF Overrun THEN SlotCap + 1 ELSE gap + armed) % SlotMod
  /\ early' = (early /\ gap + armed < SlotMod)
  /\ resynced' = (resynced \/ Overrun)
  /\ armed' = 0
  /\ rear' = tgtRear
  /\ IF drv = "RUNNING"
     THEN /\ txCredit' = [a \in AC |-> CreditMax[a] -
                            Lesser(CreditMax[a], Room(front[a], tgtRear[a]))]
          /\ taskSched' = TRUE
     ELSE UNCHANGED <<txCredit, taskSched>>

\* spi_irq
IrqUpdate ==
  /\ irq /\ noti = "none"
  /\ irq' = FALSE
  /\ UpdateStatus
  /\ UNCHANGED <<drv, fwActive, macVars, txqList, taskRun, quota, hifVars,
                 workVars, front, busy, inTarget, tgtRear, notiVars, ghosts>>

-----------------------------------------------------------------------------
(* nrc_hif_work                                                            *)

WorkStart ==
  /\ pc = "idle" /\ queued
  /\ queued' = FALSE
  /\ pc' = "pick" /\ inWim' = TRUE
  /\ UNCHANGED <<drv, fwActive, macVars, taskVars, txPend, frameQ, wimQ, cur,
                 held, spiVars, tgtVars, notiVars, ghosts>>

\* skb_queue_head of the WIM taken off for nothing.
PutBackLast(w, q) == Append(q, w)
PutBack(w, q) == <<w>> \o q

\* WIM loop: one WIM, or the deauth frame at the head of the frame queue.
WorkWim ==
  /\ pc = "pick" /\ inWim
  /\ IF wimQ = <<>>
     THEN inWim' = FALSE /\ UNCHANGED <<pc, cur, held, wimQ, frameQ>>
     ELSE /\ pc' = "wait" /\ UNCHANGED inWim
          /\ IF held = NoSkb /\ frameQ # <<>>
             THEN /\ frameQ' = Tail(frameQ)
                  /\ IF Head(frameQ).kind = "deauth"
                     THEN /\ cur' = Head(frameQ)
                          /\ wimQ' = PutBack(Head(wimQ), Tail(wimQ))
                          /\ UNCHANGED held
                     ELSE /\ cur' = Head(wimQ)
                          /\ wimQ' = Tail(wimQ)
                          /\ held' = Head(frameQ)
             ELSE /\ cur' = Head(wimQ)
                  /\ wimQ' = Tail(wimQ)
                  /\ UNCHANGED <<frameQ, held>>
  /\ UNCHANGED <<drv, fwActive, macVars, taskVars, txPend, queued, spiVars,
                 tgtVars, notiVars, ghosts>>

\* The work function returns: skb_frame goes out of scope.
Return ==
  /\ pc' = "idle"
  /\ held' = NoSkb
  /\ leaked' = leaked \cup Frames({held})

\* Frame loop: yields to a WIM that came in, else held frame, else the queue.
WorkFrame ==
  /\ pc = "pick" /\ ~inWim
  /\ IF wimQ # <<>>
     THEN queued' = TRUE /\ Return /\ UNCHANGED <<cur, frameQ>>
     ELSE IF held # NoSkb
     THEN /\ cur' = held /\ held' = NoSkb /\ pc' = "wait"
          /\ UNCHANGED <<queued, frameQ, leaked>>
     ELSE IF frameQ # <<>>
     THEN /\ cur' = Head(frameQ) /\ frameQ' = Tail(frameQ) /\ pc' = "wait"
          /\ UNCHANGED <<queued, held, leaked>>
     ELSE Return /\ UNCHANGED <<queued, cur, frameQ>>
  /\ UNCHANGED <<drv, fwActive, macVars, taskVars, txPend, wimQ, inWim,
                 spiVars, tgtVars, notiVars, made, faults, sent>>

EnoughSlotsAny == gap > 0
EnoughSlots == gap >= cur.n

\* spi_wait_for_xmit: enough slots, or read the status and then sleep.
WaitForXmit ==
  /\ pc = "wait"
  /\ IF EnoughSlots
     THEN pc' = "xmit" /\ UNCHANGED <<spiVars, armed, taskSched>>
     ELSE UpdateStatus /\ pc' = "sleep" /\ UNCHANGED front
  /\ UNCHANGED <<drv, fwActive, macVars, txqList, taskRun, quota, hifVars,
                 inWim, cur, held, busy, inTarget, tgtRear, irq, notiVars,
                 ghosts>>

WaitWake ==
  /\ pc = "sleep" /\ EnoughSlots
  /\ pc' = "xmit"
  /\ UNCHANGED <<drv, fwActive, macVars, taskVars, hifVars, inWim, cur, held,
                 spiVars, tgtVars, notiVars, ghosts>>

\* nrc_hif_free_skb: a frame is taken off tx_pend.
UnchargeOne(s) ==
  IF IsFrame(s) THEN [txPend EXCEPT ![s.ac] = @ - 1] ELSE txPend
Uncharge(s) ==
  IF IsFrame(s) THEN [txPend EXCEPT ![s.ac] = @ - s.n] ELSE txPend

\* Five seconds without slots: the skb is freed and the work returns.
WaitTimeout ==
  /\ pc = "sleep" /\ ~EnoughSlots
  /\ Fault
  /\ txPend' = Uncharge(cur)
  /\ cur' = NoSkb
  /\ Return
  /\ UNCHANGED <<drv, fwActive, macVars, taskVars, frameQ, wimQ, queued, inWim,
                 spiVars, tgtVars, notiVars, made, sent>>

\* Counted against the AC's credit: data and management, not control, not WIM.
Credited(s) == s.kind \in {"data", "mgmt", "deauth"}

Charge(f) == IF Credited(cur)
             THEN [f EXCEPT ![cur.ac] = (@ + cur.n) % CtrMod] ELSE f

\* spi_xmit takes no lock: the irq thread gets in between the test of drv_state,
\* the counting and the write.  While rebooting nothing is counted or written,
\* and the caller goes on as if it had been.
XmitTest ==
  /\ pc = "xmit"
  /\ pc' = IF drv = "RUNNING" THEN "count" ELSE "free"
  /\ UNCHANGED <<drv, fwActive, macVars, taskVars, hifVars, inWim, cur, held,
                 spiVars, tgtVars, notiVars, ghosts>>

XmitCount ==
  /\ pc = "count"
  /\ pc' = "write"
  /\ gap' = (gap - cur.n) % SlotMod
  /\ early' = (early \/ (caught /\ gap < cur.n))
  /\ front' = Charge(front)
  /\ UNCHANGED <<drv, fwActive, macVars, taskVars, hifVars, inWim, cur, held,
                 resynced, rear, txCredit, tgtVars, notiVars, ghosts>>

Landed ==
  /\ busy' = busy + cur.n
  /\ inTarget' = IF Credited(cur)
                 THEN [inTarget EXCEPT ![cur.ac] = @ + cur.n] ELSE inTarget
  /\ sent' = Append(sent, cur)

\* c_spi_write.  A boot loader takes no frame, and a target that restarts may
\* or may not.
XmitWrite ==
  /\ pc = "write"
  /\ pc' = "free"
  /\ \/ fwActive /\ Landed
     \/ ~(fwActive /\ drv = "RUNNING") /\ UNCHANGED <<busy, inTarget, sent>>
  /\ UNCHANGED <<drv, fwActive, macVars, taskVars, hifVars, inWim, cur, held,
                 spiVars, armed, tgtRear, irq, notiVars, made, faults, leaked>>

\* The write fails after tail and front have been advanced.
XmitError ==
  /\ pc = "write"
  /\ Fault
  /\ pc' = "free"
  /\ UNCHANGED <<drv, fwActive, macVars, taskVars, hifVars, inWim, cur, held,
                 spiVars, tgtVars, notiVars, made, sent, leaked>>

FreeSkb ==
  /\ pc = "free"
  /\ txPend' = Uncharge(cur)
  /\ cur' = NoSkb
  /\ pc' = "pick"
  /\ UNCHANGED <<drv, fwActive, macVars, taskVars, frameQ, wimQ, queued, inWim,
                 held, spiVars, tgtVars, notiVars, ghosts>>

-----------------------------------------------------------------------------
(* Resets.                                                                 *)

\* nrc_hif_cleanup: both queues are freed, tx_pend is left alone.
HifCleanup ==
  /\ frameQ' = <<>> /\ wimQ' = <<>>
  /\ leaked' = leaked \cup Elems(frameQ)

\* nrc_cleanup_txq_all: the listed queues are emptied and unlisted.
CleanTxq ==
  /\ ~taskRun
  /\ txq' = [a \in AC |-> IF a \in Elems(txqList) THEN <<>> ELSE txq[a]]
  /\ txqList' = <<>>

\* TARGET_NOTI_W_DISABLE_ASSERTED
WDisable ==
  /\ drv = "RUNNING" /\ fwActive /\ noti = "none"
  /\ Fault
  /\ HifCleanup
  /\ CleanTxq
  /\ UNCHANGED <<drv, fwActive, woken, taskSched, taskRun, quota, txPend,
                 queued, workVars, spiVars, tgtVars, notiVars, made, sent>>

\* spi_config_fw, against a target that has lost its state and has made
\* `ready' slots ready.  The worker may be in the middle of spi_xmit.
ConfigFw(ready) ==
  /\ gap' = 0 /\ early' = FALSE
  /\ front' = [a \in AC |-> 0] /\ rear' = [a \in AC |-> 0]
  /\ armed' = ready /\ busy' = 0 /\ irq' = (ready > 0)
  /\ inTarget' = [a \in AC |-> 0] /\ tgtRear' = [a \in AC |-> 0]
  /\ caught' = (pc \in {"xmit", "count"})
  /\ astray' = IF pc = "write" THEN cur.n ELSE 0

\* TARGET_NOTI_WDT_EXPIRED: the counters, then the queues.
WdtExpired ==
  /\ noti = "none" /\ fwActive
  /\ Fault
  /\ drv' = "REBOOT"
  /\ noti' = "clean"
  /\ ConfigFw(SlotCap)
  /\ UNCHANGED <<fwActive, macVars, taskVars, hifVars, workVars, resynced,
                 txCredit, made, sent, leaked>>

WdtClean ==
  /\ noti = "clean"
  /\ noti' = "none"
  /\ HifCleanup
  /\ CleanTxq
  /\ UNCHANGED <<drv, fwActive, woken, taskSched, taskRun, quota, txPend,
                 queued, workVars, spiVars, tgtVars, caught, astray, made,
                 faults, sent>>

\* TARGET_NOTI_FW_READY_FROM_WDT: the driver runs before the slots are read.
WdtReady ==
  /\ drv = "REBOOT" /\ noti = "none"
  /\ drv' = "RUNNING"
  /\ noti' = "update"
  /\ UNCHANGED <<fwActive, macVars, taskVars, hifVars, workVars, spiVars,
                 tgtVars, caught, astray, ghosts>>

WdtUpdate ==
  /\ noti = "update"
  /\ noti' = "none"
  /\ UpdateStatus
  /\ UNCHANGED <<drv, fwActive, macVars, txqList, taskRun, quota, hifVars,
                 workVars, front, busy, inTarget, tgtRear, irq, caught, astray,
                 ghosts>>

\* WIM event FW_RELOAD: the target waits for a firmware image and answers
\* nothing else.  What follows the download is not part of this module.
FwReload ==
  /\ fwActive /\ drv = "RUNNING"
  /\ Fault
  /\ fwActive' = FALSE
  /\ HifCleanup
  /\ ConfigFw(0)
  /\ UNCHANGED <<drv, macVars, taskVars, txPend, queued, workVars, resynced,
                 txCredit, noti, made, sent>>

-----------------------------------------------------------------------------
(* The target.                                                             *)

TgtArm ==
  /\ busy > 0
  /\ busy' = busy - 1 /\ armed' = armed + 1 /\ irq' = TRUE
  /\ UNCHANGED <<drv, fwActive, macVars, taskVars, hifVars, workVars, spiVars,
                 inTarget, tgtRear, notiVars, ghosts>>

TgtFree(a) ==
  /\ inTarget[a] > 0
  /\ inTarget' = [inTarget EXCEPT ![a] = @ - 1]
  /\ tgtRear' = [tgtRear EXCEPT ![a] = (@ + 1) % CtrMod]
  /\ irq' = TRUE
  /\ UNCHANGED <<drv, fwActive, macVars, taskVars, hifVars, workVars, spiVars,
                 armed, busy, notiVars, ghosts>>

-----------------------------------------------------------------------------
Submit   == TxDirect \/ XmitWim \/ Mac80211Enqueue
Tasklet  == TaskletStart \/ TaskletPick \/ TaskletPush
Work     == WorkStart \/ WorkWim \/ WorkFrame \/ WaitForXmit \/ WaitWake
              \/ XmitTest \/ XmitCount \/ XmitWrite \/ FreeSkb
Broken   == WaitTimeout \/ XmitError \/ WDisable \/ WdtExpired \/ FwReload
Recover  == WdtClean \/ WdtReady \/ WdtUpdate
Target   == TgtArm \/ \E a \in AC : TgtFree(a)
Wake     == \E a \in AC : WakeTxQueue(a)

Next == Submit \/ Wake \/ Tasklet \/ Work \/ IrqUpdate \/ Broken \/ Recover
          \/ Target

Spec == Init /\ [][Next]_vars

\* The kernel runs a scheduled tasklet, a pending work item and an asserted
\* interrupt; a woken caller gets the lock; a healthy target makes progress.
Fairness ==
  /\ WF_vars(Tasklet) /\ WF_vars(Work) /\ WF_vars(IrqUpdate)
  /\ WF_vars(Recover) /\ WF_vars(TgtArm)
  /\ \A a \in AC : WF_vars(WakeTxQueue(a)) /\ WF_vars(TgtFree(a))

FairSpec == Spec /\ Fairness

-----------------------------------------------------------------------------
(* Properties.                                                             *)

TypeOK ==
  /\ drv \in {"RUNNING", "REBOOT"} /\ fwActive \in BOOLEAN
  /\ txq \in [AC -> Seq(Skb)] /\ woken \subseteq AC
  /\ txqList \in Seq(AC) /\ taskSched \in BOOLEAN /\ taskRun \in BOOLEAN
  /\ quota \in Nat
  /\ txCredit \in [AC -> Nat] /\ txPend \in [AC -> Nat]
  /\ frameQ \in Seq(Skb) /\ wimQ \in Seq(Skb) /\ queued \in BOOLEAN
  /\ pc \in {"idle", "pick", "wait", "sleep", "xmit", "count", "write", "free"}
  /\ inWim \in BOOLEAN
  /\ cur \in Skb \cup {NoSkb} /\ held \in Skb \cup {NoSkb}
  /\ (pc \in {"idle", "pick"}) <=> (cur = NoSkb)
  /\ gap \in 0 .. (SlotMod - 1)
  /\ front \in [AC -> 0 .. (CtrMod - 1)] /\ rear \in [AC -> 0 .. (CtrMod - 1)]
  /\ armed \in Nat /\ busy \in Nat /\ irq \in BOOLEAN
  /\ inTarget \in [AC -> Nat] /\ tgtRear \in [AC -> 0 .. (CtrMod - 1)]
  /\ noti \in {"none", "clean", "update"} /\ astray \in Nat
  /\ caught \in BOOLEAN /\ early \in BOOLEAN /\ resynced \in BOOLEAN
  /\ made \in 0 .. MaxSkb /\ faults \in 0 .. MaxFault
  /\ sent \in Seq(Skb) /\ leaked \subseteq Skb

\* The frames tx_pend should be counting, and the slots they take.
InHif == Elems(frameQ) \cup Frames({cur, held})
Units(S) == UNION {{s} \X (1 .. s.n) : s \in S}

(* tx_pend[ac] is the number of slots of the frames of that AC that sit in  *)
(* the frame queue or in the worker's hands, plus those of the frames freed *)
(* behind its back (nrc_hif_cleanup, the frame held when the work returns). *)
PendAccounted ==
  \A a \in AC :
    txPend[a] = Cardinality(Units({s \in InHif \cup leaked : s.ac = a}))

(* The books of the ring balance: what the host may still write, what the   *)
(* target has made ready and what is written fit its ring, although a       *)
(* watchdog reset of the counters may come between the wait, the counting   *)
(* and the write of spi_xmit.  A worker that such a reset has caught with   *)
(* slots it had found counts ahead of what it knows (early) until a status  *)
(* read catches up; a frame counted before the reset and written after it   *)
(* is the only one in the ring that nobody has counted (astray).  No claim  *)
(* is made of a driver that has called spi_reset_tx to start afresh.        *)
Known == IF early THEN gap - SlotMod ELSE gap
SlotsConserved ==
  fwActive /\ ~resynced => Known + armed + busy <= SlotCap + astray

OnItsWay == {"wait", "sleep", "xmit", "count", "write"}
Untransmitted == IF pc \in OnItsWay THEN <<cur>> ELSE <<>>
InTransit ==
  (UNION {Elems(txq[a]) : a \in AC}) \cup Elems(frameQ) \cup Elems(wimQ)
    \cup ({held} \ {NoSkb}) \cup Elems(Untransmitted)
SameLane(s, t) ==
  s.kind = t.kind /\ (s.kind = "wim" \/ (s.kind = "data" /\ s.ac = t.ac))

(* Although frames are held back, put back, overtaken by WIMs and mgmt      *)
(* frames and lost, the driver is a channel that delivers an skb at most    *)
(* once, data of an AC in the order mac80211 queued it and commands in the  *)
(* order they were issued (nrc_hif_work, nrc_hif_enqueue_skb, nrc_push_txq).*)
Channel == INSTANCE TxChannel WITH Msg <- Skb, Ordered <- SameLane,
             count <- made, waiting <- InTransit, delivered <- sent
ImplementsChannel == Channel!Spec

(* With a healthy target, and an AC whose credit exceeds the largest frame, *)
(* everything handed to the driver leaves it: no kick of the tasklet or the *)
(* work item is lost for good.                                              *)
Drained ==
  /\ \A a \in AC : txq[a] = <<>>
  /\ frameQ = <<>> /\ wimQ = <<>> /\ pc = "idle"
Drains == <>[]Drained

=============================================================================
