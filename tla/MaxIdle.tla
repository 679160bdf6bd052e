------------------------------ MODULE MaxIdle -------------------------------
(* BSS max idle: the access point's sweep of its stations' idle timers and  *)
(* the keep-alive timer of a station, the same driver at the other end of   *)
(* the link (nrc-pm.c).  Time is counted in milliseconds and advances to    *)
(* the next timer; a period is in units of 1024 ms for the station and of a *)
(* sweep for the access point.  The air is external: it loses at most       *)
(* MaxLost keep-alives in a row.                                            *)
EXTENDS Integers

CONSTANTS Clients,     \* stations of the access point
          Phases,      \* distances of the next sweep at which a station may be authorised
          MaxLost,     \* keep-alives lost in a row
          Offset,      \* module parameter bss_max_idle_offset
          Twt          \* the station's TWT takes the keep-alive over

Sweep == 1000          \* BSS_MAX_IDLE_TIMER_PERIOD_MS
Unit == 1024           \* a period of 1000 TU
Limit == 3             \* BSS_MAX_ILDE_DEAUTH_LIMIT_COUNT
Extra == 1             \* EXTRA_TIMEOUT
Off == -1              \* a timer that is not armed

ASSUME MaxIdleAssumption == /\ Phases \subseteq 0..Sweep /\ MaxLost \in Nat
                            /\ Offset \in Int /\ Twt \in BOOLEAN

VARIABLES vif_period,  \* AP: i_vif->max_idle_period
          idle,        \* AP: the stations' max_idle records
          sweep,       \* AP: time to the next sweep
          period,      \* station: max_idle.period
          timer,       \* station: time to the keep-alive
          lost,        \* keep-alives lost in a row while the timer runs
          silent       \* the station has gone without a word
idleVars == <<vif_period, idle, sweep, period, timer, lost, silent>>

NoIdle == [period |-> 0, idle_period |-> 0, left |-> 0, cnt |-> 0]

IdleInit(periods) ==
    /\ vif_period \in periods /\ sweep \in Phases
    /\ idle = [c \in Clients |-> NoIdle]
    /\ period = [c \in Clients |-> 0] /\ timer = [c \in Clients |-> Off]
    /\ lost = [c \in Clients |-> 0] /\ silent = [c \in Clients |-> FALSE]

-----------------------------------------------------------------------------
(* Station states *)

\* AP, NOTEXIST -> NONE.  Periods as small as these are their own USF code.
IdleNew(c) ==
    /\ idle' = [idle EXCEPT ![c] = [period |-> vif_period, idle_period |-> vif_period,
                                    left |-> vif_period, cnt |-> 0]]
    /\ UNCHANGED <<vif_period, sweep, period, timer, lost, silent>>

\* The association response: the driver adds its element, unless hostapd has
\* (hapd), which then does all of the monitoring: the station's keep-alives are
\* then for hostapd and not followed here.  Adding the element may fail.
Learnt(c, hapd, noroom) == IF hapd \/ noroom \/ vif_period = 0 THEN 0 ELSE idle[c].period
IdleAssoc(c, hapd, noroom) ==
    /\ vif_period' = IF hapd THEN 0 ELSE vif_period
    /\ idle' = [idle EXCEPT ![c].period = IF hapd \/ (noroom /\ vif_period > 0) THEN 0 ELSE @,
                            ![c].idle_period = IF hapd THEN 0 ELSE @]
    /\ period' = [period EXCEPT ![c] = Learnt(c, hapd, noroom)]
    /\ UNCHANGED <<sweep, timer, lost, silent>>

\* The offset defaults to what keeps the keep-alive ahead of the AP's timer.
IdleOffset(p) == CASE Offset # 0 /\ (Offset > 0 \/ p * Unit > -Offset) -> Offset
                   [] OTHER -> IF p > 2 THEN -768 ELSE -100
KeepAlive(p) == LET ms == p * Unit + IdleOffset(p) IN IF ms < 924 THEN 924 ELSE ms

\* Station, ASSOC -> AUTHORIZED; the last frame of the handshake reaches the AP.
HeardBare(c) == IF idle[c].period > 0 /\ idle[c].left > 0
                THEN [idle EXCEPT ![c].cnt = 0, ![c].left = idle[c].idle_period]
                ELSE idle
HeardFrom(c) == IF idle[c].period > 0 /\ idle[c].left > 0
                THEN [idle EXCEPT ![c].cnt = 0, ![c].left = idle[c].idle_period + Extra]
                ELSE idle
IdleAuthorize(c) ==
    /\ timer' = [timer EXCEPT ![c] = IF Twt \/ period[c] = 0 THEN @ ELSE KeepAlive(period[c])]
    /\ idle' = HeardFrom(c)
    /\ UNCHANGED <<vif_period, sweep, period, lost, silent>>

\* Station, ASSOC -> AUTH, and both records are gone.
IdleGone(c) ==
    /\ timer' = [timer EXCEPT ![c] = Off]
    /\ period' = [period EXCEPT ![c] = 0]
    /\ idle' = [idle EXCEPT ![c] = NoIdle]
    /\ lost' = [lost EXCEPT ![c] = 0] /\ silent' = [silent EXCEPT ![c] = FALSE]
    /\ UNCHANGED <<vif_period, sweep>>

\* capi bss_max_idle; not while a station is between its authentication and
\* its association response, whose element would not say what its record does.
SetPeriod(p) == /\ p # vif_period /\ vif_period' = p
                /\ UNCHANGED <<idle, sweep, period, timer, lost, silent>>

-----------------------------------------------------------------------------
(* Timers and frames *)

\* The keep-alive is sent, by the firmware if it sleeps, and armed again.
Expire(c) ==
    /\ timer[c] = 0
    /\ timer' = [timer EXCEPT ![c] = KeepAlive(period[c])]
    /\ \/ lost' = [lost EXCEPT ![c] = 0] /\ idle' = HeardFrom(c)
       \/ lost[c] < MaxLost /\ lost' = [lost EXCEPT ![c] = @ + 1] /\ UNCHANGED idle
    /\ UNCHANGED <<vif_period, sweep, period, silent>>

\* Without a channel to send on the frame is freed, and the timer not armed again.
Drop(c) == /\ timer[c] = 0 /\ timer' = [timer EXCEPT ![c] = Off]
           /\ lost' = [lost EXCEPT ![c] = 0]
           /\ UNCHANGED <<vif_period, idle, sweep, period, silent>>

\* The count of one station: at the limit it is disconnected, else armed again.
CountedOnce(r) ==
    IF r.left # 1 THEN [r EXCEPT !.left = IF @ > 0 THEN @ - 1 ELSE 0]
    ELSE IF r.cnt + 1 >= Limit THEN [r EXCEPT !.left = 0, !.cnt = 0]
    ELSE [r EXCEPT !.left = 0, !.cnt = r.cnt + 1]
Counted(r) ==
    IF r.left # 1 THEN [r EXCEPT !.left = IF @ > 0 THEN @ - 1 ELSE 0]
    ELSE IF r.cnt + 1 >= Limit THEN [r EXCEPT !.left = 0, !.cnt = 0]
    ELSE [r EXCEPT !.left = r.idle_period, !.cnt = r.cnt + 1]
Expired(c) == idle[c].left = 1 /\ idle[c].cnt + 1 >= Limit

ApSweep == /\ sweep = 0 /\ sweep' = Sweep
           /\ idle' = [c \in Clients |-> Counted(idle[c])]
           /\ UNCHANGED <<vif_period, period, timer, lost, silent>>

\* The station loses its power.
Vanish(c) == /\ ~silent[c] /\ silent' = [silent EXCEPT ![c] = TRUE]
             /\ timer' = [timer EXCEPT ![c] = Off] /\ lost' = [lost EXCEPT ![c] = 0]
             /\ UNCHANGED <<vif_period, idle, sweep, period>>

Armed == {sweep} \cup {timer[c] : c \in {d \in Clients : timer[d] # Off}}
Advance == LET t == CHOOSE x \in Armed : \A y \in Armed : x <= y
           IN /\ t > 0 /\ sweep' = sweep - t
              /\ timer' = [c \in Clients |-> IF timer[c] = Off THEN Off ELSE timer[c] - t]
              /\ UNCHANGED <<vif_period, idle, period, lost, silent>>
=============================================================================
