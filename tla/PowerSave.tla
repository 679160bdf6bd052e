----------------------------- MODULE PowerSave -----------------------------
(***************************************************************************)
(* Power save of a station (nrc-ps.c, hif.c, nrc-hif-cspi.c and the        *)
(* callbacks of nrc-mac80211.c).  Two threads of the host put the target   *)
(* to sleep: the ps work, which the dynamic ps timer queues, and mac80211  *)
(* (configuration, host suspend, the end of a command in idle mode).  The  *)
(* target wakes at a GPIO or for a TIM, asks for its firmware and reports  *)
(* itself ready; the irq thread brings the host back.                      *)
(***************************************************************************)
EXTENDS Integers, Sequences

CONSTANTS
    Confs,      \* how the module is loaded and how often the host is suspended
    Wakers,     \* what ends the sleep of the host: "target", "other"
    Ops,        \* bound: operations mac80211 calls
    Frames,     \* bound: frames mac80211 has to send
    Tims,       \* bound: times the target wakes by itself
    Refusals,   \* bound: times the target fails to fall asleep
    Missing,    \* bound: times the firmware file cannot be read
    Crashes     \* bound: watchdog resets of the target

ASSUME PowerSaveAssumption ==
    /\ Confs \subseteq [mode : {"none", "modem", "deep"}, dyn : BOOLEAN, idle : BOOLEAN, sleeps : Nat]
    /\ Wakers \subseteq {"target", "other"}
    /\ {Ops, Frames, Tims, Refusals, Missing, Crashes} \subseteq Nat

VARIABLES
    conf,       \* power_save, SUPPORTS_DYNAMIC_PS, idle_mode; sleeps > 0: wowlan_enabled
    drv,        \* nw->drv_state
    fw,         \* nw->fw_state
    susp,       \* hif->suspended
    parked,     \* the RX thread is parked
    deaf,       \* cspi_suspend and the interrupt disabled (irq_enabled = 0)
    hostOff,    \* the interrupt is disabled for the sleep of the host
    high,       \* the wake-up GPIO
    done,       \* the completion wake_done
    stopped,    \* ieee80211_stop_queues
    ps,         \* [on, modem]: ps_enabled, ps_modem_enabled
    idling,     \* IEEE80211_CONF_IDLE
    timer,      \* dynamic_ps_timer is pending
    queued,     \* ps_work is queued
    pc, op,     \* of each thread: where it is, and in what operation
    irq,        \* what the irq thread is doing
    hifq,       \* WIMs about power save in the hif queue
    want,       \* a frame is waiting for the target to wake
    tgt, ev,    \* the target, and the event it shows in msg[3]
    left        \* bounds: what is left of each

flags == <<drv, fw, susp, parked, deaf, hostOff, high, done, stopped>>
mac == <<conf, ps, idling, timer, queued, want>>
thr == <<pc, op>>
psVars == <<conf, drv, fw, susp, parked, deaf, hostOff, high, done, stopped, ps, idling,
            timer, queued, pc, op, irq, hifq, want, tgt, ev, left>>

Threads == {"work", "mac"}
Deep == conf.mode = "deep"

PsInit ==
    /\ conf \in Confs
    /\ drv = "RUNNING" /\ fw = "ACTIVE"
    /\ susp = FALSE /\ parked = FALSE /\ deaf = FALSE /\ hostOff = FALSE
    /\ high = FALSE /\ done = 0 /\ stopped = FALSE
    /\ ps = [on |-> FALSE, modem |-> FALSE]
    /\ idling = FALSE /\ timer = FALSE /\ queued = FALSE
    /\ pc = [t \in Threads |-> "idle"] /\ op = [t \in Threads |-> "none"]
    /\ irq = "idle" /\ hifq = <<>> /\ want = FALSE
    /\ tgt = "awake" /\ ev = "none"
    /\ left = [sleeps |-> conf.sleeps, ops |-> Ops, frames |-> Frames, tims |-> Tims,
               refusals |-> Refusals, missing |-> Missing, crashes |-> Crashes]

Spend(b) == left[b] > 0 /\ left' = [left EXCEPT ![b] = @ - 1]
IsAt(t, p) == pc[t] = p
Goto(t, p) == pc' = [pc EXCEPT ![t] = p]
Enter(t, o, p) == /\ op' = [op EXCEPT ![t] = o]
                  /\ Goto(t, p)

\* nrc_xmit_wim: a WIM is dropped while the hif is suspended or the target reboots.
Wim(w) == hifq' = IF susp \/ drv = "REBOOT" THEN hifq ELSE Append(hifq, w)

\* nrc_hif_wake_target: nothing while the firmware is loaded.
WakeUp == high' = (high \/ fw # "LOADING")
-----------------------------------------------------------------------------
(* Falling asleep, in the steps of whoever does it.                        *)

\* The queues are stopped and emptied (nrc_cleanup_txq_all), and
\* nrc_hif_sleep_target_start arms the GPIO and the completion and makes the
\* host deaf.
Begin(t) ==
    /\ IsAt(t, "begin")
    /\ LET deep == Deep \/ op[t] \notin {"ps_work", "config"}
       IN  /\ stopped' = (stopped \/ deep)
           /\ high' = (high /\ ~deep)
           /\ done' = IF deep THEN 0 ELSE done
           /\ want' = (want /\ ~deep)
    /\ deaf' = TRUE
    /\ Goto(t, "wim")
    /\ UNCHANGED <<conf, ps, idling, timer, queued, op, drv, fw, susp, parked, hostOff, irq, hifq, tgt, ev, left>>

\* The WIM.  Host suspend leaves the hif alone when mac80211 may sleep by itself.
SendPs(t) ==
    /\ IsAt(t, "wim")
    /\ LET modem == ~Deep /\ op[t] \in {"ps_work", "config"}
       IN  /\ Wim(IF modem THEN "modem" ELSE "deep")
           /\ ps' = [ps EXCEPT !.modem = @ \/ modem]
           /\ Goto(t, IF modem \/ (op[t] = "suspend" /\ conf.dyn) THEN "end" ELSE "suspend")
    /\ UNCHANGED <<flags, conf, idling, timer, queued, want, op, irq, tgt, ev, left>>

\* nrc_hif_suspend and spi_suspend: only a running driver goes to sleep.
Suspend(t) ==
    /\ IsAt(t, "suspend")
    /\ susp' = TRUE
    /\ IF susp
         THEN Goto(t, "end") /\ UNCHANGED <<drv, parked>>
         ELSE /\ parked' = TRUE
              /\ IF drv = "RUNNING" /\ (Deep \/ conf.idle \/ conf.sleeps > 0)
                   THEN drv' = "PS" /\ Goto(t, "flush")
                   ELSE UNCHANGED drv /\ Goto(t, "end")
    /\ UNCHANGED <<mac, op, fw, deaf, hostOff, high, done, stopped, irq, hifq, tgt, ev, left>>

\* 20 to 30 ms later, time enough for a target that is awake to take the WIM,
\* nrc_hif_flush_wq frees what has not been sent.
Flush(t) ==
    /\ IsAt(t, "flush") /\ (hifq = <<>> \/ tgt # "awake")
    /\ hifq' = <<>>
    /\ Goto(t, "end")
    /\ UNCHANGED <<flags, mac, op, irq, tgt, ev, left>>

\* The queues are opened and nrc_hif_sleep_target_end lets the host hear again.
End(t) ==
    /\ IsAt(t, "end")
    /\ stopped' = (stopped /\ op[t] = "suspend")
    /\ deaf' = FALSE
    /\ hostOff' = (hostOff \/ op[t] = "suspend")
    /\ Enter(t, "none", "idle")
    /\ UNCHANGED <<mac, drv, fw, susp, parked, high, done, irq, hifq, tgt, ev, left>>

Fall(t) == Begin(t) \/ SendPs(t) \/ Suspend(t) \/ Flush(t) \/ End(t)
-----------------------------------------------------------------------------
(* The timer and the ps work.                                              *)

\* The timeout, 100 ms or more, outlasts the host's return from a refusal.
TimerFires ==
    /\ timer /\ timer' = FALSE
    /\ irq # "failed_ps"
    /\ queued' = (queued \/ (fw = "ACTIVE" /\ ps.on /\ drv # "PS"))
    /\ UNCHANGED <<flags, conf, ps, idling, want, thr, irq, hifq, tgt, ev, left>>

PsWork ==
    /\ queued /\ IsAt("work", "idle")
    /\ queued' = FALSE
    /\ IF ps.on /\ drv # "PS" /\ ~ps.modem
         THEN Enter("work", "ps_work", "begin")
         ELSE UNCHANGED thr
    /\ UNCHANGED <<flags, conf, ps, idling, timer, want, irq, hifq, tgt, ev, left>>
-----------------------------------------------------------------------------
(* mac80211.                                                               *)

Called(b) == IsAt("mac", "idle") /\ ~hostOff /\ Spend(b)
Call == Called("ops")

\* What follows when the target has been woken, or not.
Then(o) == CASE o = "suspend" -> "begin"
              [] o = "command" /\ conf.idle /\ idling -> "begin"
              [] OTHER -> "idle"

\* nrc_hif_wake_target with a timeout: it does not wait while the firmware is
\* loaded.
WakeFor(o) == WakeUp /\ Enter("mac", o, IF fw = "LOADING" THEN Then(o) ELSE "wait")

\* nrc_mac_config, IEEE80211_CONF_CHANGE_PS; only an interface that is not idle
\* has power save.
ConfigPs(on) ==
    /\ Call /\ conf.mode # "none" /\ ~(on /\ idling)
    /\ ps' = [ps EXCEPT !.on = on]
    /\ IF drv = "PS" \/ ps.modem
         THEN IF on THEN UNCHANGED <<high, timer, thr>>
                    ELSE WakeFor("config") /\ UNCHANGED timer
         ELSE /\ timer' = (timer \/ (conf.dyn /\ on))
              /\ IF on /\ ~conf.dyn THEN Enter("mac", "config", "begin") ELSE UNCHANGED thr
              /\ UNCHANGED high
    /\ UNCHANGED <<conf, drv, fw, susp, parked, deaf, hostOff, done, stopped, idling, queued,
                   want, irq, hifq, tgt, ev>>

\* IEEE80211_CONF_CHANGE_IDLE in idle mode.
ConfigIdle(on) ==
    /\ Call /\ idling # on /\ ~ps.on /\ idling' = on
    /\ IF ~conf.idle THEN UNCHANGED <<high, thr>>
       ELSE IF on THEN Enter("mac", "idle", "begin") /\ UNCHANGED high
                  ELSE WakeFor("idle")
    /\ UNCHANGED <<conf, drv, fw, susp, parked, deaf, hostOff, done, stopped, ps, timer, queued,
                   want, irq, hifq, tgt, ev>>

\* nrc_mac_suspend: a target that sleeps is woken first.
HostSuspend ==
    /\ Called("sleeps")
    /\ IF drv = "PS" THEN WakeFor("suspend")
                     ELSE UNCHANGED high /\ Enter("mac", "suspend", "begin")
    /\ UNCHANGED <<mac, drv, fw, susp, parked, deaf, hostOff, done, stopped, irq, hifq, tgt, ev>>

\* A scan or a netlink command: a target that sleeps is woken first, and sent
\* back to sleep afterwards when mac80211 is idle.
Command ==
    /\ Call
    /\ IF drv = "PS" THEN WakeFor("command")
       ELSE /\ IF conf.idle /\ idling THEN Enter("mac", "command", "begin") ELSE UNCHANGED thr
            /\ UNCHANGED high
    /\ UNCHANGED <<mac, drv, fw, susp, parked, deaf, hostOff, done, stopped, irq, hifq, tgt, ev>>

Woken ==
    /\ IsAt("mac", "wait") /\ done > 0 /\ done' = done - 1
    /\ Goto("mac", Then(op["mac"]))
    /\ UNCHANGED <<mac, op, drv, fw, susp, parked, deaf, hostOff, high, stopped, irq, hifq,
                   tgt, ev, left>>

\* Mutant: there is no timeout.
WakeTimeoutNever == IsAt("mac", "wait") /\ done < 0 /\ UNCHANGED psVars

\* 2000 ms are over, more than a target needs that is waking.  Only who asked
\* for the command is told.
WakeTimeout ==
    /\ IsAt("mac", "wait") /\ done = 0
    /\ irq = "idle" /\ ev = "none" /\ tgt # "loading" /\ ~(tgt = "asleep" /\ high)
    /\ Goto("mac", Then(op["mac"]))
    /\ UNCHANGED <<flags, mac, op, irq, hifq, tgt, ev, left>>

\* nrc_hif_resume and spi_resume.
Resume ==
    /\ susp' = FALSE /\ parked' = FALSE
    /\ drv' = IF drv = "PS" /\ (Deep \/ conf.idle \/ conf.sleeps > 0) THEN "RUNNING" ELSE drv
    /\ LET opens == drv = "PS" /\ (Deep \/ conf.idle)
       IN  stopped' = (stopped /\ ~opens) /\ high' = (high /\ ~opens)

\* nrc_mac_resume: the target has something to say, or somebody else wakes the host.
HostResume ==
    /\ hostOff /\ IsAt("mac", "idle")
    /\ "other" \in Wakers \/ ev # "none"
    /\ hostOff' = FALSE
    /\ susp' = FALSE /\ parked' = FALSE /\ deaf' = FALSE /\ stopped' = FALSE
    /\ drv' = IF drv = "PS" THEN "RUNNING" ELSE drv
    /\ high' = (high /\ ~(drv = "PS" /\ (Deep \/ conf.idle)))
    /\ UNCHANGED <<mac, thr, fw, done, irq, hifq, tgt, ev, left>>

\* An idle interface sends nothing, and stopped queues hold every frame back.
MaySend == ~idling /\ ~stopped /\ ~hostOff /\ Spend("frames")

\* The power save part of nrc_mac_tx, for a driver that runs.
MacTx ==
    /\ IF ps.modem /\ ~Deep THEN Wim("off") ELSE UNCHANGED hifq
    /\ ps' = [ps EXCEPT !.modem = @ /\ Deep]
    /\ timer' = (timer \/ conf.dyn)

\* Mutant: only nrc_mac_tx wakes the target, for which there are no queued frames.
TransmitAsleep ==
    /\ MaySend /\ ~want
    /\ want' = (drv # "RUNNING")
    /\ IF drv = "RUNNING" THEN MacTx ELSE UNCHANGED <<hifq, ps, timer>>
    /\ UNCHANGED <<flags, conf, idling, queued, thr, irq, tgt, ev>>

\* nrc_wake_tx_queue: it wakes the target, and frames leave once the driver runs.
Transmit ==
    /\ MaySend /\ ~want
    /\ want' = (drv # "RUNNING")
    /\ IF drv = "PS" THEN WakeUp ELSE UNCHANGED high
    /\ IF drv = "RUNNING" THEN MacTx ELSE UNCHANGED <<hifq, ps, timer>>
    /\ UNCHANGED <<conf, drv, fw, susp, parked, deaf, hostOff, done, stopped, idling, queued,
                   thr, irq, tgt, ev>>

\* nrc_mac_tx of a frame no txq holds back, for a target in deep sleep: a
\* deauthentication or a keep-alive raises the GPIO and is freed, the first with
\* all that the hif queues hold (its copy is never sent).
TransmitNow(deauth) ==
    /\ MaySend /\ Deep /\ drv = "PS"
    /\ WakeUp
    /\ hifq' = IF deauth THEN <<>> ELSE hifq
    /\ UNCHANGED <<conf, drv, fw, susp, parked, deaf, hostOff, done, stopped, ps, idling, timer,
                   queued, want, thr, irq, tgt, ev>>

Sent ==
    /\ want /\ drv = "RUNNING" /\ want' = FALSE
    /\ MacTx
    /\ UNCHANGED <<flags, conf, idling, queued, thr, irq, tgt, ev, left>>
-----------------------------------------------------------------------------
(* The irq thread: spi_update_status.                                      *)

IrqCheck ==
    /\ irq = "idle" /\ ~deaf /\ ~hostOff /\ ev # "none"
    /\ irq' = "checked"
    /\ UNCHANGED <<flags, mac, thr, hifq, tgt, ev, left>>

\* Mutant: only the return from power save arms the timer.
ArmNever == timer' = timer

\* Any event of a target that is ready arms the dynamic ps timer.
Arm == timer' = (timer \/ (conf.dyn /\ ev # "none" /\ drv # "REBOOT"))

IrqRead ==
    /\ irq = "checked"
    /\ irq' = IF ev = "none" THEN "idle" ELSE ev
    /\ Arm
    /\ ev' = "none"
    /\ UNCHANGED <<flags, conf, ps, idling, queued, want, thr, hifq, tgt, left>>

\* The firmware is downloaded and the target boots it, or its file cannot be
\* read, and fw_state stays as it is.
FwDownload ==
    /\ irq = "fw_download" /\ irq' = "idle"
    /\ fw' = "LOADING"
    /\ \/ tgt' = "awake" /\ ev' = "ready_ps" /\ UNCHANGED left
       \/ tgt' = "stuck" /\ Spend("missing") /\ UNCHANGED ev
    /\ UNCHANGED <<mac, thr, drv, susp, parked, deaf, hostOff, high, done, stopped, hifq>>

ReadyFromPs ==
    /\ irq = "ready_ps" /\ irq' = "woken"
    /\ fw' = "ACTIVE"
    /\ Resume /\ timer' = (timer \/ conf.dyn)
    /\ UNCHANGED <<conf, ps, idling, queued, want, thr, deaf, hostOff, done, hifq, tgt, ev, left>>

WakeDone ==
    /\ irq = "woken" /\ irq' = "idle"
    /\ done' = done + 1
    /\ UNCHANGED <<mac, thr, drv, fw, susp, parked, deaf, hostOff, high, stopped, hifq,
                   tgt, ev, left>>

\* Mutant: the firmware is taken for active, the hif is not resumed.
FailedToEnterPsDozing ==
    /\ irq = "failed_ps" /\ irq' = "idle"
    /\ fw' = "ACTIVE"
    /\ UNCHANGED <<mac, thr, drv, susp, parked, deaf, hostOff, high, done, stopped, hifq,
                   tgt, ev, left>>

FailedToEnterPs ==
    /\ irq = "failed_ps" /\ irq' = "idle"
    /\ fw' = "ACTIVE"
    /\ Resume
    /\ UNCHANGED <<mac, thr, deaf, hostOff, done, hifq, tgt, ev, left>>

WdtExpired ==
    /\ irq = "wdt" /\ irq' = "idle"
    /\ IF drv = "PS"
         THEN /\ fw' = "ACTIVE" /\ susp' = FALSE /\ parked' = FALSE
              /\ stopped' = FALSE /\ high' = FALSE
         ELSE UNCHANGED <<fw, susp, parked, stopped, high>>
    /\ drv' = "REBOOT"
    /\ hifq' = <<>>
    /\ UNCHANGED <<mac, thr, deaf, hostOff, done, tgt, ev, left>>

\* nrc_mac_restart resumes the hif when the firmware was being loaded.
ReadyFromWdt ==
    /\ irq = "ready_wdt" /\ irq' = "idle"
    /\ fw' = "ACTIVE"
    /\ IF fw # "ACTIVE" THEN susp' = FALSE /\ parked' = FALSE ELSE UNCHANGED <<susp, parked>>
    /\ drv' = "RUNNING"
    /\ UNCHANGED <<mac, thr, deaf, hostOff, high, done, stopped, hifq, tgt, ev, left>>

Irq == \/ IrqCheck \/ IrqRead \/ FwDownload \/ ReadyFromPs \/ WakeDone
       \/ FailedToEnterPs \/ WdtExpired \/ ReadyFromWdt
-----------------------------------------------------------------------------
(* The worker and the target.                                              *)

\* nrc_hif_work sends a WIM; a target that has had the order to sleep sleeps.
Deliver ==
    /\ hifq # <<>> /\ tgt = "awake"
    /\ hifq' = Tail(hifq)
    /\ tgt' = IF Head(hifq) = "deep" THEN "asleep" ELSE tgt
    /\ UNCHANGED <<flags, mac, thr, irq, ev, left>>

Refuse ==
    /\ hifq # <<>> /\ tgt = "awake" /\ Head(hifq) = "deep" /\ ev = "none"
    /\ Spend("refusals")
    /\ hifq' = Tail(hifq) /\ ev' = "failed_ps"
    /\ UNCHANGED <<flags, mac, thr, irq, tgt>>

\* The target wakes at the level of the GPIO, or for a TIM (in idle mode it
\* sleeps as NRC_PS_DEEPSLEEP_NONTIM).
TgtWakes ==
    /\ tgt = "asleep" /\ ev = "none"
    /\ \/ high /\ UNCHANGED left
       \/ ~high /\ ~(conf.idle /\ idling) /\ Spend("tims")
    /\ tgt' = "loading" /\ ev' = "fw_download"
    /\ UNCHANGED <<flags, mac, thr, irq, hifq>>

TgtCrashes ==
    /\ tgt = "awake" /\ ev = "none" /\ Spend("crashes")
    /\ tgt' = "crashed" /\ ev' = "wdt"
    /\ UNCHANGED <<flags, mac, thr, irq, hifq>>

TgtReboots ==
    /\ tgt = "crashed" /\ ev = "none" /\ drv = "REBOOT"
    /\ tgt' = "awake" /\ ev' = "ready_wdt"
    /\ UNCHANGED <<flags, mac, thr, irq, hifq, left>>

Target == Deliver \/ Refuse \/ TgtWakes \/ TgtCrashes \/ TgtReboots

Mac == \/ \E on \in BOOLEAN : ConfigPs(on) \/ ConfigIdle(on)
       \/ HostSuspend \/ Command \/ Woken \/ WakeTimeout \/ HostResume \/ Transmit \/ Sent
       \/ \E deauth \in BOOLEAN : TransmitNow(deauth)

PsNext == \/ \E t \in Threads : Fall(t)
          \/ TimerFires \/ PsWork \/ Mac \/ Irq \/ Target

PsSpec == PsInit /\ [][PsNext]_psVars

\* The steps of the threads, the worker and the target are never put off for
\* ever; calls of mac80211, TIMs, refusals and crashes need not come.
Fairness ==
    /\ \A t \in Threads : WF_psVars(Fall(t))
    /\ WF_psVars(TimerFires) /\ WF_psVars(PsWork) /\ WF_psVars(Irq)
    /\ WF_psVars(Woken) /\ WF_psVars(WakeTimeout) /\ WF_psVars(HostResume) /\ WF_psVars(Sent)
    /\ WF_psVars(Deliver) /\ WF_psVars(TgtWakes) /\ WF_psVars(TgtReboots)

FairSpec == PsSpec /\ Fairness
-----------------------------------------------------------------------------
(* Properties.                                                             *)

AtRest == /\ \A t \in Threads : IsAt(t, "idle")
          /\ irq = "idle" /\ ev = "none" /\ hifq = <<>> /\ ~hostOff

\* What the code takes for granted: the host itself has not slept (its resume
\* takes the target for awake), the watchdog has not reset the target (a ps work
\* in between leaves the hif suspended) and the firmware file has been there.
Unharmed == left.sleeps = conf.sleeps /\ left.crashes = Crashes /\ left.missing = Missing

\* When nothing is under way the driver believes the target asleep exactly
\* when it is, whoever woke it and whether or not it fell asleep.
Agree == AtRest /\ Unharmed => (drv = "PS" <=> tgt = "asleep")

\* A frame that finds the target asleep wakes it: "the actual action to wake up
\* for target will be done by nrc_wake_tx_queue() with changing gpio signal".
FrameWakes == (want /\ Unharmed) ~> (~want \/ ~Unharmed)

\* Every operation of mac80211 comes back.
Returns == ~IsAt("mac", "idle") ~> IsAt("mac", "idle")

\* A station with dynamic power save falls asleep when nothing happens.
Dozes == (conf.dyn /\ ps.on /\ Deep /\ Unharmed) ~> (drv = "PS" \/ ~ps.on \/ ~Unharmed)

=============================================================================
