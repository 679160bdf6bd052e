------------------------------ MODULE BlockAck ------------------------------
(* Transmit aggregation towards the stations: the work that asks mac80211   *)
(* for a session (nrc_tx_ba_session_work), mac80211's calls of              *)
(* nrc_mac_ampdu_action, and the two flags of struct nrc they share.  The   *)
(* work and mac80211's own aggregation work run on one ordered workqueue;   *)
(* the life of a station is another thread.  mac80211 and the target are    *)
(* external: mac80211 gives a session up when its peer declines, is asked   *)
(* again at most MaxTries times in a row, and calls the driver in between.  *)
EXTENDS Integers

CONSTANTS Stas,       \* peer stations, one TID each
          Zero,       \* those whose TID is 0
          MaxTries,   \* refusals in a row after which mac80211 answers -EBUSY
          MaxFault    \* sessions ended by the peer, refused WIMs, changed settings

ASSUME MaxTriesAssumption == MaxTries \in Nat \ {0} /\ Zero \subseteq Stas

VARIABLES ampdu_mode,  \* module parameter: "disable" | "manual" | "auto"
          flags,       \* nrc: ampdu_supported, ampdu_started, ampdu_reject
          ba,          \* tx_ba_session[].state
          old,         \* more than 5 s since ba_req_last_jiffies
          work,        \* ba_session_work: "none" (no function) | "idle" | "queued" | "busy" | "eagain"
          macBa,       \* mac80211's session
          tries,       \* mac80211's addba_req_num
          tgtBa,       \* the target's session
          faults
baVars == <<ampdu_mode, flags, ba, old, work, macBa, tries, tgtBa, faults>>

\* memset of the station's record and nrc_mac_trx's defaults
BaInit(modes) ==
    /\ ampdu_mode \in modes
    /\ flags = [supported |-> FALSE, started |-> FALSE, reject |-> FALSE]
    /\ ba = [s \in Stas |-> "NONE"] /\ old = [s \in Stas |-> TRUE]
    /\ work = [s \in Stas |-> "none"]
    /\ macBa = [s \in Stas |-> "idle"] /\ tries = [s \in Stas |-> 0]
    /\ tgtBa = [s \in Stas |-> "off"]
    /\ faults = 0

Fault == faults < MaxFault /\ faults' = faults + 1

\* nrc_wim_ampdu_action: the target learns of the call, or the WIM is refused.
Told(s, call) == tgtBa' = [tgtBa EXCEPT ![s] = CASE call = "TX_START" -> "start"
                                             [] call = "TX_OPERATIONAL" -> "oper"
                                             [] call = "TX_STOP" -> "off"]
NotTold == Fault /\ UNCHANGED tgtBa

-----------------------------------------------------------------------------
(* What every call of nrc_mac_ampdu_action does first.  Aggregation is        *)
(* supported but was never started: it asks for a session on TID 0.  mac80211 *)
(* refuses if that TID is the one at hand (-EAGAIN), and may refuse else.     *)

Denied == flags.supported /\ ~flags.started
Refused == Denied /\ UNCHANGED flags
Passes(s) == \/ ~Denied /\ UNCHANGED flags
             \/ Denied /\ s \notin Zero /\ flags' = [flags EXCEPT !.started = TRUE]

-----------------------------------------------------------------------------
(* Station states *)

\* ASSOC -> AUTHORIZED: aggregation is refused or every session starts anew.
\* INIT_WORK of a work that is queued may leave it queued or lose it.
Inited(w) == CASE w = "none" -> {"idle"} [] w = "queued" -> {"queued", "idle"} [] OTHER -> {w}
BaAuthorize(s) ==
    /\ IF ampdu_mode = "disable"
       THEN /\ flags' = [supported |-> FALSE, started |-> FALSE, reject |-> TRUE]
            /\ UNCHANGED <<ba, old, work>>
       ELSE /\ flags' = [supported |-> TRUE, started |-> TRUE, reject |-> FALSE]
            /\ ba' = [ba EXCEPT ![s] = "NONE"] /\ old' = [old EXCEPT ![s] = TRUE]
            /\ \E w \in Inited(work[s]) : work' = [work EXCEPT ![s] = w]
    /\ UNCHANGED <<ampdu_mode, macBa, tries, tgtBa, faults>>

\* mac80211 tears the sessions down first, when it starts no new ones;
\* TX_STOP_FLUSH tells the target nothing, the removal of the station
\* (WIM_STA_CMD_REMOVE) does.
BaTearDown(s) ==
    /\ ba' = [ba EXCEPT ![s] = IF macBa[s] \in {"idle", "want"} \/ Denied THEN @ ELSE "CLOSE"]
    /\ macBa' = [macBa EXCEPT ![s] = "idle"]
    /\ UNCHANGED <<ampdu_mode, flags, old, work, tries, tgtBa, faults>>
BaRemoved(s) == /\ tgtBa' = [tgtBa EXCEPT ![s] = "off"]
                /\ UNCHANGED <<ampdu_mode, flags, ba, old, work, macBa, tries, faults>>

\* NONE -> NOTEXIST: cancel_work_sync waits for a running work, with the
\* spin lock of the list held; the record is gone.
BaGone(s) == /\ work[s] \notin {"busy", "eagain"}
             /\ work' = [work EXCEPT ![s] = "none"]
             /\ ba' = [ba EXCEPT ![s] = "NONE"] /\ old' = [old EXCEPT ![s] = TRUE]
             /\ tries' = [tries EXCEPT ![s] = 0]
             /\ UNCHANGED <<ampdu_mode, flags, macBa, tgtBa, faults>>

-----------------------------------------------------------------------------
(* The driver's work *)

\* nrc_mac_tx: a QoS data frame to the station, not EAPOL, queues the work.
SetupBaSession(s) ==
    /\ ampdu_mode = "auto" /\ work[s] = "idle"
    /\ work' = [work EXCEPT ![s] = "queued"]
    /\ UNCHANGED <<ampdu_mode, flags, ba, old, macBa, tries, tgtBa, faults>>

OnWorkqueue == \E s \in Stas : work[s] \in {"busy", "eagain"}

\* mac80211 takes the request, or says it has a session (-EAGAIN) or that the
\* peer keeps refusing (-EBUSY).
WorkStart(s) ==
    /\ work[s] = "queued" /\ ~OnWorkqueue /\ ba[s] \in {"NONE", "CLOSE"}
    /\ flags' = [flags EXCEPT !.supported = TRUE, !.reject = FALSE]
    /\ IF macBa[s] # "idle"
       THEN work' = [work EXCEPT ![s] = "eagain"] /\ UNCHANGED macBa
       ELSE IF tries[s] = MaxTries
            THEN work' = [work EXCEPT ![s] = "busy"] /\ UNCHANGED macBa
            ELSE /\ macBa' = [macBa EXCEPT ![s] = "want"]
                 /\ work' = [work EXCEPT ![s] = "idle"]
    /\ UNCHANGED <<ampdu_mode, ba, old, tries, tgtBa, faults>>

\* The answer is stored after mac80211's call has returned.
WorkBusy(s) ==
    /\ work[s] = "busy" /\ work' = [work EXCEPT ![s] = "idle"]
    /\ ba' = [ba EXCEPT ![s] = "DISABLE"]
    /\ UNCHANGED <<ampdu_mode, flags, old, macBa, tries, tgtBa, faults>>
WorkAgain(s) ==
    /\ work[s] = "eagain" /\ work' = [work EXCEPT ![s] = "idle"]
    /\ macBa' = [macBa EXCEPT ![s] = IF @ \in {"starting", "operational"} THEN "wantstop" ELSE @]
    /\ ba' = [ba EXCEPT ![s] = "NONE"] /\ old' = [old EXCEPT ![s] = TRUE]
    /\ UNCHANGED <<ampdu_mode, flags, tries, tgtBa, faults>>

\* A rejection older than 5 s is forgotten; in other states nothing is done.
WorkNoneKept(s) ==
    /\ work[s] = "queued" /\ ~OnWorkqueue /\ ba[s] \notin {"NONE", "CLOSE"}
    /\ work' = [work EXCEPT ![s] = "idle"]
    /\ UNCHANGED ba
    /\ UNCHANGED <<ampdu_mode, flags, old, macBa, tries, tgtBa, faults>>
WorkNone(s) ==
    /\ work[s] = "queued" /\ ~OnWorkqueue /\ ba[s] \notin {"NONE", "CLOSE"}
    /\ work' = [work EXCEPT ![s] = "idle"]
    /\ ba' = [ba EXCEPT ![s] = IF @ = "REJECT" /\ old[s] THEN "NONE" ELSE @]
    /\ UNCHANGED <<ampdu_mode, flags, old, macBa, tries, tgtBa, faults>>

FiveSeconds(s) == /\ ba[s] = "REJECT" /\ ~old[s] /\ old' = [old EXCEPT ![s] = TRUE]
                  /\ UNCHANGED <<ampdu_mode, flags, ba, work, macBa, tries, tgtBa, faults>>

-----------------------------------------------------------------------------
(* nrc_mac_ampdu_action, called by mac80211 *)

TxStart(s) ==
    /\ macBa[s] = "want" /\ ~OnWorkqueue
    /\ \/ /\ flags.supported /\ Passes(s) /\ Told(s, "TX_START") /\ UNCHANGED faults
          /\ ba' = [ba EXCEPT ![s] = "REQUEST"]
          /\ macBa' = [macBa EXCEPT ![s] = "starting"]
          /\ tries' = [tries EXCEPT ![s] = @ + 1]
       \/ /\ \/ Refused /\ UNCHANGED <<tgtBa, faults>>
             \/ ~flags.supported /\ UNCHANGED <<flags, tgtBa, faults>>
             \/ flags.supported /\ Passes(s) /\ NotTold
          /\ macBa' = [macBa EXCEPT ![s] = "idle"] /\ UNCHANGED <<ba, tries>>
    /\ UNCHANGED <<ampdu_mode, old, work>>

\* The state is ACCEPT before the target is told, and stays so.
TxOperational(s) ==
    /\ macBa[s] = "starting" /\ ~OnWorkqueue
    /\ macBa' = [macBa EXCEPT ![s] = "operational"] /\ tries' = [tries EXCEPT ![s] = 0]
    /\ \/ Refused /\ UNCHANGED <<ba, tgtBa, faults>>
       \/ /\ Passes(s) /\ ba' = [ba EXCEPT ![s] = "ACCEPT"]
          /\ NotTold \/ (Told(s, "TX_OPERATIONAL") /\ UNCHANGED faults)
    /\ UNCHANGED <<ampdu_mode, old, work>>

\* Refused, the session is never taken down: mac80211 has no other way.
TxStopContKept(s) ==
    /\ \/ /\ Passes(s) /\ Told(s, "TX_STOP") /\ UNCHANGED faults
          /\ UNCHANGED ba /\ old' = [old EXCEPT ![s] = FALSE]
          /\ macBa' = [macBa EXCEPT ![s] = "stopping"]
       \/ /\ \/ Refused /\ UNCHANGED <<tgtBa, faults>>
             \/ Passes(s) /\ NotTold
          /\ macBa' = [macBa EXCEPT ![s] = "stuck"] /\ UNCHANGED <<ba, old>>
    /\ UNCHANGED <<ampdu_mode, work, tries>>
TxStopCont(s) ==
    /\ \/ /\ Passes(s) /\ Told(s, "TX_STOP") /\ UNCHANGED faults
          /\ ba' = [ba EXCEPT ![s] = "REJECT"] /\ old' = [old EXCEPT ![s] = FALSE]
          /\ macBa' = [macBa EXCEPT ![s] = "stopping"]
       \/ /\ \/ Refused /\ UNCHANGED <<tgtBa, faults>>
             \/ Passes(s) /\ NotTold
          /\ macBa' = [macBa EXCEPT ![s] = "stuck"] /\ UNCHANGED <<ba, old>>
    /\ UNCHANGED <<ampdu_mode, work, tries>>

\* The driver asked for the end, or the peer declined, did not answer or sent
\* a DELBA.
TxStop(s) == macBa[s] = "wantstop" /\ ~OnWorkqueue /\ TxStopCont(s)
PeerEnds(s) == /\ macBa[s] \in {"starting", "operational"} /\ ~OnWorkqueue
               /\ faults < MaxFault
               /\ macBa' = [macBa EXCEPT ![s] = "wantstop"] /\ faults' = faults + 1
               /\ UNCHANGED <<ampdu_mode, flags, ba, old, work, tries, tgtBa>>

TxStopped(s) == /\ macBa[s] = "stopping" /\ ~OnWorkqueue /\ macBa' = [macBa EXCEPT ![s] = "idle"]
                /\ UNCHANGED <<ampdu_mode, flags, ba, old, work, tries, tgtBa, faults>>

\* "set ampdu_mode" and capi "ampdu" of the control socket
SetMode(mode) == /\ Fault /\ ampdu_mode' = mode
                 /\ UNCHANGED <<flags, ba, old, work, macBa, tries, tgtBa>>
SetSupported(on) == /\ Fault /\ flags' = [flags EXCEPT !.supported = on, !.reject = ~on]
                    /\ UNCHANGED <<ampdu_mode, ba, old, work, macBa, tries, tgtBa>>

Work(s) == WorkStart(s) \/ WorkBusy(s) \/ WorkAgain(s) \/ WorkNone(s)
Ampdu(s) == TxStart(s) \/ TxOperational(s) \/ TxStop(s) \/ TxStopped(s)
BaStep(s) == Work(s) \/ Ampdu(s) \/ FiveSeconds(s)
=============================================================================
