-------------------------------- MODULE Scan --------------------------------
(***************************************************************************)
(* Hardware scan and beacon monitor of a station (nrc-mac80211.c, wim.c,   *)
(* nrc-trx.c).  mac80211 asks for scans and cancels them, the RX thread    *)
(* handles SCAN_COMPLETED and the beacons, the irq thread restarts the     *)
(* station after a watchdog reset and obeys W_DISABLE: all of them cancel  *)
(* a scan by testing scan_mode, stopping the target and completing the     *)
(* scan, in steps that interleave without a lock.  The beacon monitor puts *)
(* a loss off while a scan is on.                                          *)
(***************************************************************************)
EXTENDS Integers, Sequences

CONSTANTS
    CqmOff,     \* disable_cqm_on_scan
    Scans,      \* bound: scans mac80211 asks for
    Joins,      \* bound: associations
    Faults      \* bound: watchdog resets and W_DISABLE notifications

ASSUME ScanAssumption == CqmOff \in BOOLEAN /\ {Scans, Joins, Faults} \subseteq Nat

VARIABLES
    scan_mode,          \* nw->scan_mode: IDLE or SCANNING (active or passive)
    drv,                \* nw->drv_state
    associated,         \* nw->associated_vif
    is_bcn_timeout,     \* a beacon loss was put off
    bcn,                \* bcn_mon_timer is pending
    pc, then,           \* of each thread: what it does, and after a cancellation
    asked,              \* mac80211 has a scan under way
    over,               \* mac80211 was told that a scan is completed (SCAN_COMPLETED)
    poll,               \* mac80211 polls the AP after a beacon loss
    wims, events,       \* WIMs to the target, events from it
    tgt,                \* the target: idle, scanning, crashed, up again
    ap,                 \* the AP is there
    set,                \* history: the present scan has set scan_mode
    own,                \* history: the scan a thread cancels is the present one
    cut,                \* history: the present scan was completed in place of another
    missed,             \* history: its start was overtaken by what should end it
    left                \* bounds: what is left of each

vars == <<scan_mode, drv, associated, is_bcn_timeout, bcn, pc, then, asked, over,
          poll, wims, events, tgt, ap, set, own, cut, missed, left>>
cqm == <<associated, is_bcn_timeout, bcn, poll>>
target == <<events, tgt, ap>>
scan == <<asked, over>>
history == <<set, own, cut, missed>>

Threads == {"mac", "rx", "irq"}

Init ==
    /\ scan_mode = "IDLE" /\ drv = "RUNNING"
    /\ associated = FALSE /\ is_bcn_timeout = FALSE /\ bcn = FALSE
    /\ pc = [t \in Threads |-> "idle"]
    /\ then = [t \in Threads |-> "idle"]
    /\ asked = FALSE /\ over = FALSE /\ poll = FALSE
    /\ wims = <<>> /\ events = <<>> /\ tgt = "idle" /\ ap = FALSE
    /\ set = FALSE /\ own = [t \in Threads |-> FALSE] /\ cut = FALSE /\ missed = FALSE
    /\ left = [scans |-> Scans, joins |-> Joins, faults |-> Faults]

At(t, p) == pc[t] = p
Goto(t, p) == pc' = [pc EXCEPT ![t] = p]
Spend(b) == left[b] > 0 /\ left' = [left EXCEPT ![b] = @ - 1]
Wim(w) == wims' = IF drv = "REBOOT" THEN wims ELSE Append(wims, w)


\* mac80211's call that starts a scan has not set scan_mode yet
Starting == pc["mac"] \in {"again", "mode"}

-----------------------------------------------------------------------------
(* nrc_mac_cancel_hw_scan, by any of the three threads.                    *)

\* A thread wants a scan cancelled, if there is one, and then does next.
Cancel(t, next) ==
    \/ scan_mode = "IDLE" /\ Goto(t, next) /\ UNCHANGED then
    \/ scan_mode # "IDLE" /\ Goto(t, "stop") /\ then' = [then EXCEPT ![t] = next]

\* What ends a scan wants it cancelled.
Ended(t, next) == /\ Cancel(t, next)
                  /\ own' = [own EXCEPT ![t] = set /\ scan_mode # "IDLE"]
                  /\ missed' = (missed \/ Starting)
                  /\ UNCHANGED <<set, cut>>

\* Mutant: scan_mode is left to SCAN_COMPLETED.
StopOnly(t) ==
    /\ At(t, "stop")
    /\ Wim("stop")
    /\ Goto(t, "complete")
    /\ UNCHANGED <<then, scan_mode, drv, cqm, scan, target, history, left>>

Stop(t) ==
    /\ At(t, "stop")
    /\ Wim("stop") /\ scan_mode' = "IDLE"
    /\ Goto(t, "complete")
    /\ UNCHANGED <<then, drv, cqm, scan, target, history, left>>

\* ieee80211_scan_completed sets a flag; mac80211 ends the scan in a work.
Complete(t) ==
    /\ At(t, "complete")
    /\ over' = TRUE
    /\ cut' = (cut \/ (asked /\ ~over /\ ~own[t]))
    /\ own' = [own EXCEPT ![t] = FALSE]
    /\ Goto(t, then[t]) /\ then' = [then EXCEPT ![t] = "idle"]
    /\ UNCHANGED <<scan_mode, drv, cqm, asked, wims, target, set, missed, left>>
-----------------------------------------------------------------------------
(* mac80211, one call at a time.                                           *)

\* nrc_mac_hw_scan.  mac80211 does not scan while it polls the AP; a flag that
\* was set without a scan is taken for the end of this one.
HwScan ==
    /\ At("mac", "idle") /\ ~asked /\ ~poll
    /\ Spend("scans")
    /\ IF drv = "RUNNING"
         THEN /\ asked' = TRUE /\ Cancel("mac", "again")
              /\ set' = FALSE /\ own' = [t \in Threads |-> FALSE]
              /\ cut' = over /\ missed' = FALSE
         ELSE UNCHANGED <<asked, pc, then, history>>
    /\ UNCHANGED <<over, scan_mode, drv, cqm, wims, target>>

Request ==
    /\ At("mac", "again")
    /\ bcn' = (bcn /\ ~(associated /\ CqmOff))
    /\ Wim("scan") /\ Goto("mac", "mode")
    /\ UNCHANGED <<then, scan_mode, drv, associated, is_bcn_timeout, poll, scan, target,
                   history, left>>

SetMode ==
    /\ At("mac", "mode") /\ scan_mode' = "SCANNING" /\ Goto("mac", "idle")
    /\ set' = TRUE
    /\ UNCHANGED <<then, drv, cqm, scan, wims, target, own, cut, missed, left>>

\* mac80211 gives up a scan.
CancelHwScan ==
    /\ At("mac", "idle") /\ asked /\ ~over /\ scan_mode # "IDLE"
    /\ Ended("mac", "idle")
    /\ UNCHANGED <<scan_mode, drv, cqm, scan, wims, target, left>>

ScanWork ==
    /\ At("mac", "idle") /\ over /\ over' = FALSE /\ asked' = FALSE
    /\ UNCHANGED <<scan_mode, drv, cqm, pc, then, wims, target, history, left>>

\* nrc_mac_bss_info_changed, BSS_CHANGED_ASSOC.
Associate ==
    /\ At("mac", "idle") /\ ~asked /\ ~associated /\ Spend("joins")
    /\ drv = "RUNNING" /\ tgt = "idle"
    /\ associated' = TRUE /\ bcn' = TRUE /\ ap' = TRUE
    /\ UNCHANGED <<scan_mode, drv, is_bcn_timeout, poll, pc, then, scan, wims, events, tgt, history>>

Leaves == associated' = FALSE /\ bcn' = FALSE /\ is_bcn_timeout' = FALSE /\ poll' = FALSE

Disassociate ==
    /\ At("mac", "idle") /\ associated /\ Leaves
    /\ UNCHANGED <<scan_mode, drv, pc, then, scan, wims, target, history, left>>

\* mac80211 polls the AP: its answer, a probe response, arms the timer again.
Polled ==
    /\ poll
    /\ IF ap THEN poll' = FALSE /\ bcn' = (bcn \/ scan_mode = "IDLE")
                  /\ UNCHANGED <<associated, is_bcn_timeout>>
             ELSE Leaves
    /\ UNCHANGED <<scan_mode, drv, pc, then, scan, wims, target, history, left>>
-----------------------------------------------------------------------------
(* The beacon monitor.                                                     *)

\* Mutant: a loss that is put off is left to SCAN_COMPLETED.
BcnMonTimerOnce ==
    /\ bcn /\ (~ap \/ (asked /\ ~Starting))
    /\ bcn' = FALSE
    /\ IF CqmOff \/ scan_mode = "IDLE"
         THEN poll' = associated /\ UNCHANGED is_bcn_timeout
         ELSE is_bcn_timeout' = TRUE /\ UNCHANGED poll
    /\ UNCHANGED <<scan_mode, drv, associated, pc, then, scan, wims, target, history, left>>

\* The timeout spans several beacons: it passes when there is no AP, or when the
\* target has been off its channel for a while.
BcnMonTimer ==
    /\ bcn /\ (~ap \/ (asked /\ ~Starting))
    /\ IF CqmOff \/ scan_mode = "IDLE"
         THEN poll' = associated /\ bcn' = FALSE /\ UNCHANGED is_bcn_timeout
         ELSE is_bcn_timeout' = TRUE /\ UNCHANGED <<poll, bcn>>
    /\ UNCHANGED <<scan_mode, drv, associated, pc, then, scan, wims, target, history, left>>

\* A beacon: of the AP, or during a scan of any other.
Beacon ==
    /\ At("rx", "idle") /\ associated /\ (ap \/ tgt = "scanning")
    /\ is_bcn_timeout' = FALSE /\ bcn' = TRUE
    /\ UNCHANGED <<scan_mode, drv, associated, poll, pc, then, scan, wims, target, history, left>>
-----------------------------------------------------------------------------
(* SCAN_COMPLETED (nrc_wim_handle_fw_event, on the RX thread).             *)

ScanCompleted ==
    /\ At("rx", "idle") /\ events # <<>>
    /\ events' = Tail(events)
    /\ Ended("rx", "after")
    /\ UNCHANGED <<scan_mode, drv, cqm, scan, wims, tgt, ap, left>>

DelayedLoss ==
    /\ At("rx", "after") /\ Goto("rx", "idle")
    /\ bcn' = (bcn \/ (associated /\ CqmOff))
    /\ poll' = (poll \/ (associated /\ ~CqmOff /\ is_bcn_timeout))
    /\ is_bcn_timeout' = (is_bcn_timeout /\ (CqmOff \/ ~associated))
    /\ UNCHANGED <<then, scan_mode, drv, associated, scan, wims, target, history, left>>
-----------------------------------------------------------------------------
(* Notifications of the target (spi_update_status and nrc_mac_restart, on  *)
(* the irq thread): a watchdog reset, and the switch that disables it.     *)

WdtExpired ==
    /\ tgt = "crashed" /\ drv = "RUNNING" /\ At("irq", "idle")
    /\ drv' = "REBOOT" /\ wims' = <<>>
    /\ UNCHANGED <<scan_mode, cqm, pc, then, scan, target, history, left>>

\* Mutant: a restart leaves the scan alone.
RestartOnly ==
    /\ tgt = "up" /\ drv = "REBOOT" /\ At("irq", "idle")
    /\ Goto("irq", "again") /\ missed' = (missed \/ Starting)
    /\ UNCHANGED <<then, scan_mode, drv, cqm, scan, wims, target, set, own, cut, left>>

Restart ==
    /\ tgt = "up" /\ drv = "REBOOT" /\ At("irq", "idle")
    /\ Ended("irq", "again")
    /\ UNCHANGED <<scan_mode, drv, cqm, scan, wims, target, left>>

\* ieee80211_connection_loss, and the driver runs again.
Restarted ==
    /\ At("irq", "again") /\ Goto("irq", "idle")
    /\ Leaves /\ drv' = "RUNNING" /\ tgt' = "idle"
    /\ UNCHANGED <<then, scan_mode, scan, wims, events, ap, history, left>>

\* ieee80211_connection_loss, and 300 ms later the queues are emptied and the
\* scan is cancelled.
WDisable ==
    /\ tgt \in {"idle", "scanning"} /\ drv = "RUNNING" /\ At("irq", "idle")
    /\ Spend("faults")
    /\ Leaves /\ Goto("irq", "off")
    /\ UNCHANGED <<then, scan_mode, drv, scan, wims, target, history>>

Disabled ==
    /\ At("irq", "off")
    /\ wims' = <<>> /\ Ended("irq", "idle")
    /\ UNCHANGED <<scan_mode, drv, cqm, scan, target, left>>
-----------------------------------------------------------------------------
(* The target and the AP.                                                  *)

\* It may or may not report a scan that it is told to stop.
TgtTakes ==
    /\ wims # <<>> /\ tgt \in {"idle", "scanning"} /\ wims' = Tail(wims)
    /\ tgt' = IF Head(wims) = "scan" THEN "scanning" ELSE "idle"
    /\ events' \in {events} \cup
                   (IF Head(wims) = "stop" /\ tgt = "scanning"
                      THEN {Append(events, "completed")} ELSE {})
    /\ UNCHANGED <<scan_mode, drv, cqm, pc, then, scan, ap, history, left>>

TgtScanned ==
    /\ tgt = "scanning" /\ tgt' = "idle"
    /\ events' = Append(events, "completed")
    /\ UNCHANGED <<scan_mode, drv, cqm, pc, then, scan, wims, ap, history, left>>

TgtCrashes ==
    /\ tgt \in {"idle", "scanning"} /\ drv = "RUNNING" /\ Spend("faults") /\ tgt' = "crashed"
    /\ UNCHANGED <<scan_mode, drv, cqm, pc, then, scan, wims, events, ap, history>>

TgtBoots ==
    /\ tgt = "crashed" /\ drv = "REBOOT" /\ tgt' = "up"
    /\ UNCHANGED <<scan_mode, drv, cqm, pc, then, scan, wims, events, ap, history, left>>

ApGone ==
    /\ ap /\ ap' = FALSE
    /\ UNCHANGED <<scan_mode, drv, cqm, pc, then, scan, wims, events, tgt, history, left>>

Mac == HwScan \/ Request \/ SetMode \/ CancelHwScan \/ ScanWork \/ Associate
       \/ Disassociate \/ Polled
Rx == Beacon \/ ScanCompleted \/ DelayedLoss
Irq == WdtExpired \/ Restart \/ Restarted \/ WDisable \/ Disabled
Tgt == TgtTakes \/ TgtScanned \/ TgtCrashes \/ TgtBoots \/ ApGone

Next == Mac \/ Rx \/ Irq \/ Tgt \/ BcnMonTimer \/ \E t \in Threads : Stop(t) \/ Complete(t)

Spec == Init /\ [][Next]_vars

\* Threads, works and timers run, and the target works; calls of mac80211,
\* beacons, crashes and the end of the AP need not come.
Fairness ==
    /\ \A t \in Threads : WF_vars(Stop(t) \/ Complete(t))
    /\ WF_vars(Request \/ SetMode) /\ WF_vars(ScanWork) /\ WF_vars(Polled)
    /\ WF_vars(ScanCompleted \/ DelayedLoss) /\ WF_vars(WdtExpired \/ Restart \/ Restarted \/ Disabled)
    /\ WF_vars(BcnMonTimer)
    /\ WF_vars(TgtTakes) /\ WF_vars(TgtScanned) /\ WF_vars(TgtBoots)

FairSpec == Spec /\ Fairness
-----------------------------------------------------------------------------
(* Properties.                                                             *)

Waiting == asked /\ ~over
Rest == \A t \in Threads : At(t, "idle")

\* When no thread is at work on a scan, mac80211 waits for one only if the driver
\* takes it to be on, and the driver takes one to be on only if mac80211 waits for
\* it: a mode that stays set puts beacon losses off for ever, and a scan that the
\* driver knows nothing of is never completed.  The exception: a thread that had
\* tested scan_mode for an earlier scan has completed this one (the test of
\* nrc-mac80211.c:2907 and the completion share no lock).
ModeAgrees == Rest => /\ Waiting => scan_mode = "SCANNING"
                      /\ scan_mode = "SCANNING" => Waiting \/ cut

\* Every scan that mac80211 asks for ends, whoever cancels it, how often it is
\* completed and whatever becomes of the target, unless what should end it came
\* between the request and the change of scan_mode (nrc-mac80211.c:2987).
ScanEnds == Waiting ~> ~Waiting \/ missed

\* The loss of the AP is found, even when it falls into a scan, as long as the
\* scan is not one of those two.
LossFound == (associated /\ ~ap) ~> (~associated \/ ap \/ cut \/ missed)
=============================================================================
