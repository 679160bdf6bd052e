------------------------------- MODULE Peers --------------------------------
(* The stations of an access point from authentication to removal           *)
(* (nrc_mac_sta_state): block acknowledgement sessions (BlockAck) and the   *)
(* idle timers (MaxIdle) live in the station's record and follow its state. *)
EXTENDS BlockAck, MaxIdle

CONSTANTS Settings,   \* ampdu_mode and bss max idle period: the pairs to look at
          MaxSet      \* changes of the period while the access point runs

ASSUME ClientsAssumption == Clients = Stas
ASSUME SettingsAssumption == Settings \subseteq {"disable", "manual", "auto"} \X Nat

VARIABLES state,      \* i_sta->state; "leaving" and "removed" are mac80211's steps down
          kick,       \* ieee80211_disconnect_sta: the pretended deauthentication is queued
          missed,     \* history: there was no memory for it
          sets
peersVars == <<baVars, idleVars, state, kick, missed, sets>>

PeersInit ==
    /\ \E c \in Settings : BaInit({c[1]}) /\ IdleInit({c[2]})
    /\ state = [s \in Stas |-> "notexist"]
    /\ kick = [s \in Stas |-> FALSE] /\ missed = [s \in Stas |-> FALSE]
    /\ sets = 0

-----------------------------------------------------------------------------
(* nrc_mac_sta_state *)

Goes(s, from, to) == state[s] \in from /\ state' = [state EXCEPT ![s] = to]

Auth(s) == /\ Goes(s, {"notexist"}, "none") /\ ~silent[s]
           /\ IdleNew(s) /\ UNCHANGED <<baVars, kick, missed, sets>>
\* The association is answered before the record's last warning: else a station
\* that hostapd watches is disconnected by what is left of the driver's count.
Prompt(s) == idle[s].cnt < Limit - 1
Assoc(s) == /\ Goes(s, {"none"}, "assoc") /\ ~silent[s] /\ Prompt(s)
            /\ \E hapd, noroom \in BOOLEAN : IdleAssoc(s, hapd, noroom)
            /\ UNCHANGED <<baVars, kick, missed, sets>>
Authorize(s) == /\ Goes(s, {"assoc"}, "authorized") /\ ~silent[s] /\ sweep \in Phases
                /\ BaAuthorize(s) /\ IdleAuthorize(s) /\ UNCHANGED <<kick, missed, sets>>

\* hostapd closes the port of a station and opens it again; its sessions stay.
Unauthorize(s) == /\ Goes(s, {"authorized"}, "reauth")
                  /\ UNCHANGED <<baVars, idleVars, kick, missed, sets>>
Reauthorize(s) == /\ Goes(s, {"reauth"}, "authorized")
                  /\ BaAuthorize(s) /\ UNCHANGED <<idleVars, kick, missed, sets>>

\* A deauthentication, received or pretended: mac80211 hides the station and
\* tears its sessions down, then takes it through the states to NOTEXIST.
Leave(s) == /\ Goes(s, {"none", "assoc", "authorized", "reauth"}, "leaving")
            /\ BaTearDown(s) /\ UNCHANGED <<idleVars, kick, missed, sets>>
StaRemove(s) == /\ Goes(s, {"leaving"}, "removed")
                /\ BaRemoved(s) /\ UNCHANGED <<idleVars, kick, missed, sets>>
Gone(s) == /\ Goes(s, {"removed"}, "notexist")
           /\ BaGone(s) /\ IdleGone(s)
           /\ kick' = [kick EXCEPT ![s] = FALSE] /\ missed' = [missed EXCEPT ![s] = FALSE]
           /\ UNCHANGED sets

-----------------------------------------------------------------------------
(* What goes on meanwhile *)

\* Data to a station whose port is open.
TxData(s) == /\ state[s] = "authorized" /\ SetupBaSession(s)
             /\ UNCHANGED <<idleVars, state, kick, missed, sets>>
Elsewhere == UNCHANGED <<idleVars, state, kick, missed, sets>>
Session(s) == (BaStep(s) \/ PeerEnds(s)) /\ Elsewhere
SetAmpdu == Elsewhere /\ \/ \E c \in Settings : c[2] = vif_period /\ c[1] # ampdu_mode /\ SetMode(c[1])
                         \/ /\ \E c \in Settings : c[2] = vif_period /\ c[1] # "disable"
                            /\ SetSupported(~flags.supported)

Beat(s) == (Expire(s) \/ Drop(s)) /\ UNCHANGED <<baVars, state, kick, missed, sets>>
\* The frame that disconnects a station may find no memory (nomem).
Sweeps == /\ ApSweep
          /\ \E nomem \in SUBSET {s \in Stas : Expired(s)} :
                /\ kick' = [s \in Stas |-> kick[s] \/ (Expired(s) /\ s \notin nomem)]
                /\ missed' = [s \in Stas |-> missed[s] \/ s \in nomem]
          /\ UNCHANGED <<baVars, state, sets>>
PowerLoss(s) == /\ state[s] = "authorized" /\ Vanish(s)
                /\ UNCHANGED <<baVars, state, kick, missed, sets>>
Tick == Advance /\ UNCHANGED <<baVars, state, kick, missed, sets>>
Joining == \E s \in Stas : state[s] = "none"
Capi == /\ sets < MaxSet /\ sets' = sets + 1 /\ ~Joining /\ vif_period > 0
        /\ \E c \in Settings : c[1] = ampdu_mode /\ c[2] > 0 /\ SetPeriod(c[2])
        /\ UNCHANGED <<baVars, state, kick, missed>>

PeersNext ==
  \/ \E s \in Stas : \/ Auth(s) \/ Assoc(s) \/ Authorize(s) \/ Unauthorize(s)
                     \/ Reauthorize(s) \/ Leave(s) \/ StaRemove(s) \/ Gone(s)
                     \/ TxData(s) \/ Session(s) \/ Beat(s) \/ PowerLoss(s)
  \/ SetAmpdu \/ Sweeps \/ Tick \/ Capi

PeersSpec == PeersInit /\ [][PeersNext]_peersVars

\* Timers run, a station whose session is awaited gets data, mac80211 finishes a
\* removal and serves a deauthentication, and the ordered workqueue, which runs
\* the driver's work and mac80211's in turn, starves neither.
Fairness ==
    /\ WF_peersVars(Sweeps) /\ WF_peersVars(Tick)
    /\ \A s \in Stas :
        /\ WF_peersVars(TxData(s)) /\ WF_peersVars(Beat(s))
        /\ WF_peersVars(Work(s) /\ Elsewhere) /\ SF_peersVars(Ampdu(s) /\ Elsewhere)
        /\ WF_peersVars(FiveSeconds(s) /\ Elsewhere)
        /\ WF_peersVars(kick[s] /\ Leave(s)) /\ WF_peersVars(StaRemove(s)) /\ WF_peersVars(Gone(s))
FairSpec == PeersSpec /\ Fairness

-----------------------------------------------------------------------------
(* Properties *)

\* The target aggregates only within a session of mac80211, and the driver
\* takes a session for accepted only then, whatever calls, refusals, work and
\* re-authorisations come in between.
InStep == \A s \in Stas : state[s] \in {"authorized", "reauth"} =>
    /\ tgtBa[s] = "oper" => macBa[s] \in {"operational", "wantstop", "stuck"}
    /\ ba[s] = "ACCEPT" => macBa[s] \in {"operational", "wantstop", "stuck"}

\* A session that was declined, ended by the peer, refused by the target or
\* started anew behind mac80211's back comes to stand again as long as there is
\* data, unless the peer keeps refusing or the target refused to end it.
Recovers == \A s \in Stas :
    <>[](/\ state[s] = "authorized" /\ ampdu_mode = "auto"
         /\ flags.started /\ macBa[s] # "stuck")
    => <>[](ba[s] = "DISABLE" \/ (ba[s] = "ACCEPT" /\ macBa[s] = "operational"))

\* The access point never disconnects a station whose keep-alive timer runs,
\* although the two clocks run in different units and keep-alives get lost: two in
\* a row with a period of at most 31 units, one with any other.
KeptAlive == [][\A s \in Stas :
    /\ state[s] = "authorized" /\ period[s] > 0 /\ timer[s] # Off /\ ~Twt /\ ~silent[s]
    => kick'[s] = kick[s]]_peersVars

\* A station that is gone without a word does not stay in the list, unless there is
\* no memory for the frame that disconnects it: its count has then ended.
GoneInTheEnd == \A s \in Stas :
    (silent[s] /\ idle[s].idle_period > 0) ~> (state[s] = "notexist" \/ missed[s])
=============================================================================
