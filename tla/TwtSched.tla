------------------------------ MODULE TwtSched ------------------------------
(***************************************************************************)
(* The TWT scheduler of an access point.                                   *)
(*                                                                         *)
(* The scheduled interval is cut into service periods, one per entry; an   *)
(* entry is shared by a group of at most max_num_in_group stations.  An    *)
(* agreement is spread over three places: a node in the flow_entry_list of *)
(* an entry, the counters sub_num, alloc_num and min_num_in_group, and the *)
(* bit, the flow and the entry pointer kept with the station.  A station   *)
(* has one flow (NRC_MAX_STA_TWT_AGRT), and is identified by the address   *)
(* of its record, which a later station may get again.                     *)
(***************************************************************************)
EXTENDS Naturals, FiniteSets

CONSTANTS
  Sta,         \* addresses of station records
  Vif,         \* interfaces of type AP
  NumEntries,  \* num / max_num_in_group
  MaxGroup,    \* max_num_in_group
  Algos,       \* values of the module parameter twt_algo
  Interval,    \* the scheduled interval
  Requests,    \* intervals asked for, see Wake
  Idles,       \* idle periods of stations; 0: none
  MaxSetup, MaxFail, MaxRestart,  \* bounds
  None         \* no station, no interface, no answer

Entry == 0 .. NumEntries - 1

\* A wake interval is sent as a mantissa and an exponent, and many pairs name
\* one interval: "own" is the pair made of the scheduler's mantissa and of its
\* exponent, or a larger one.
Wake == [len : Nat \ {0}, form : {"own", "other"}]

\* A BSS max idle period below the interval keeps the scheduler from starting.
ASSUME TwtAssumption ==
  /\ NumEntries \in Nat \ {0} /\ MaxGroup \in Nat \ {0}
  /\ Algos \subseteq {"BALANCED", "FCFS"}
  /\ Interval \in Nat \ {0}
  /\ Requests \subseteq Wake
  /\ Idles \subseteq Nat
  /\ MaxSetup \in Nat /\ MaxFail \in Nat /\ MaxRestart \in Nat
  /\ None \notin Sta /\ None \notin Vif
ASSUME IdleAssumption == \A i \in Idles : i = 0 \/ i >= Interval

VARIABLES
  algo, started, vif,
  sub,        \* entries[e].sub_num
  allocNum, minNum,  \* alloc_num, min_num_in_group
  held,       \* the places taken: nodes of the flow_entry_lists, and places
              \* charged to nobody (None) because no node could be allocated
  mask, flow, entry,  \* sta->twt.flowid_mask, and flow[0] and its entry, which
                      \* are read only while the bit is set
  reply,      \* the interval the last answer gave a station, and how
  on, idle,   \* interface and idle period of a station
  up,         \* interfaces that are up
  stopping,   \* nrc_twt_sched_stop holds the mutex, on behalf of this interface
  timerOn, pend, running,  \* the timer; get_tsf_work pending, running
  freed,      \* nrc_twt_sched_deinit
  missed,     \* history: stations whose agreement was dropped without deletion
  setups, fails, restarts  \* bounds

table   == <<sub, allocNum, minNum, held>>
staVars == <<mask, flow, entry, reply>>
env     == <<on, idle, up>>
work    == <<timerOn, pend, running>>
bounds  == <<setups, fails, restarts>>
vars == <<algo, started, vif, table, staVars, env, stopping, work, freed,
          missed, bounds>>

\* nrc_twt_sched_init, no interface up
Init ==
  /\ algo \in Algos /\ started = FALSE /\ vif = None
  /\ sub = [e \in Entry |-> 0] /\ allocNum = 0 /\ minNum = 0 /\ held = {}
  /\ mask = [s \in Sta |-> FALSE]
  /\ flow = [s \in Sta |-> None] /\ entry = [s \in Sta |-> None]
  /\ reply = [s \in Sta |-> None]
  /\ on = [s \in Sta |-> None] /\ idle = [s \in Sta |-> 0] /\ up = {}
  /\ stopping = None /\ timerOn = FALSE /\ pend = FALSE /\ running = FALSE
  /\ freed = FALSE /\ missed = {}
  /\ setups = 0 /\ fails = 0 /\ restarts = 0

\* Nobody holds the mutex; the scheduler exists.
Unlocked == stopping = None /\ ~freed

-----------------------------------------------------------------------------
(* The answer to a request, before a place is looked for.                  *)

Powers == {1, 2, 4, 8}  \* up to MAX_MULTI

\* The largest power of two up to k and MAX_MULTI.
Rounded(k) == CHOOSE p \in Powers : /\ p = 1 \/ p <= k
                                   /\ \A o \in Powers : o <= k => o <= p

\* The interval in multiples of the scheduled one, cut below the idle period.
CutNot(q, limit) == q.len \div Interval
Cut(q, limit) ==
  LET k == q.len \div Interval
      short == {n \in 1 .. k - 1 : q.len - (k - n) * Interval <= limit}
  IN  IF limit = 0 \/ q.len <= limit THEN k
      ELSE IF short = {} THEN 1
      ELSE CHOOSE n \in short : \A o \in short : o <= n

\* What the scheduler would agree to, and whether the request is that.
Agreed(q, limit) ==
  [len |-> Interval * Rounded(Cut(q, limit)), form |-> "own"]
Fits(q, limit) ==
  (limit = 0 \/ q.len <= limit) /\ q.len = Agreed(q, limit).len

-----------------------------------------------------------------------------
(* find_unused_twt_entry                                                   *)

CandidatesOver ==
  {e \in Entry : IF algo = "BALANCED"
                 THEN minNum < MaxGroup /\ sub[e] = minNum
                 ELSE sub[e] <= MaxGroup}
Candidates ==
  {e \in Entry : IF algo = "BALANCED"
                 THEN minNum < MaxGroup /\ sub[e] = minNum
                 ELSE sub[e] < MaxGroup}

\* No entry has the minimum any more: BALANCED raises it.
Raises == algo = "BALANCED" /\ minNum < MaxGroup /\ Candidates = {}
Again == Raises /\ minNum + 1 < MaxGroup
NewMin == IF Raises THEN minNum + 1 ELSE minNum

\* The first candidate, or the first entry without a look at it.
Found == Candidates # {} \/ Again
Place == IF Candidates = {} THEN 0
         ELSE CHOOSE e \in Candidates : \A o \in Candidates : e <= o

\* One more place of entry e is taken, by station s or by nobody.
Take(e, s) ==
  /\ \E n \in 1 .. Cardinality(held) + 1 :
       LET p == [entry |-> e, sta |-> s, n |-> n] IN
       /\ p \notin held
       /\ \A o \in 1 .. n - 1 : [p EXCEPT !.n = o] \in held
       /\ held' = held \cup {p}
  /\ sub' = [sub EXCEPT ![e] = @ + 1]
  /\ allocNum' = allocNum + 1

-----------------------------------------------------------------------------
(* nrc_mac_add_twt_setup, nrc_twt_sched_entry_add                          *)

Answer(s, c, q) == reply' = [reply EXCEPT ![s] = [cmd |-> c, q |-> q]]
Reject(s) == reply' = [reply EXCEPT ![s] = None]

\* The agreement exists: same parameters are accepted, others rejected.
Repeat(s, q) ==
  /\ IF flow[s] = q THEN Answer(s, "ACCEPT", q) ELSE Reject(s)
  /\ UNCHANGED <<table, mask, flow, entry, fails>>

Dictate(s, q) ==
  /\ Answer(s, "DICTATE", Agreed(q, idle[s]))
  /\ UNCHANGED <<table, mask, flow, entry, fails>>

NoPlace(s) ==
  /\ minNum' = NewMin
  /\ Reject(s)
  /\ UNCHANGED <<sub, allocNum, held, mask, flow, entry, fails>>

\* The node cannot be allocated, after the place has been counted.
NoMemory(s) ==
  /\ fails < MaxFail /\ fails' = fails + 1
  /\ minNum' = NewMin
  /\ Take(Place, None)
  /\ Reject(s)
  /\ UNCHANGED <<mask, flow, entry>>

Accept(s, q) ==
  /\ minNum' = NewMin
  /\ Take(Place, s)
  /\ mask' = [mask EXCEPT ![s] = TRUE]
  /\ entry' = [entry EXCEPT ![s] = Place]
  /\ flow' = [flow EXCEPT ![s] = Agreed(q, idle[s])]
  /\ Answer(s, "ACCEPT", q)
  /\ UNCHANGED fails

NotStarted(s) ==
  /\ Reject(s)
  /\ UNCHANGED <<table, mask, flow, entry, fails>>

Setup(s, q) ==
  /\ Unlocked /\ on[s] \in up
  /\ setups < MaxSetup /\ setups' = setups + 1
  /\ IF mask[s] THEN Repeat(s, q)
     ELSE IF ~started THEN NotStarted(s)
     ELSE IF ~Fits(q, idle[s]) THEN Dictate(s, q)
     ELSE IF ~Found THEN NoPlace(s)
     ELSE Accept(s, q) \/ NoMemory(s)
  /\ UNCHANGED <<algo, started, vif, env, stopping, work, freed, missed,
                 restarts>>

-----------------------------------------------------------------------------
(* nrc_twt_sched_entry_del, and the life of a station.                     *)

Nodes(s) == {p \in held : p.sta = s}
NodesAny(e, s) == Nodes(s)
NodesAt(e, s) == {p \in held : p.sta = s /\ p.entry = e}

MinKept(e) == minNum
MinAfter(e) == IF sub[e] - 1 < minNum THEN sub[e] - 1 ELSE minNum

\* A node of the station in the list of its entry; they are alike.
Unlist(s) ==
  LET e == entry[s] IN
  IF NodesAt(e, s) = {} THEN UNCHANGED table
  ELSE /\ held' = held \ {CHOOSE p \in NodesAt(e, s) : TRUE}
       /\ sub' = [sub EXCEPT ![e] = @ - 1]
       /\ allocNum' = allocNum - 1
       /\ minNum' = MinAfter(e)

DeleteNone(s) == UNCHANGED table
Delete(s) == IF started /\ mask[s] THEN Unlist(s) ELSE UNCHANGED table

\* The records of the stations S are zeroed (or given back).
Zeroed(S) ==
  /\ mask' = [s \in Sta |-> mask[s] /\ s \notin S]
  /\ flow' = [s \in Sta |-> IF s \in S THEN None ELSE flow[s]]
  /\ entry' = [s \in Sta |-> IF s \in S THEN None ELSE entry[s]]
  /\ reply' = [s \in Sta |-> IF s \in S THEN None ELSE reply[s]]

\* nrc_mac_twt_teardown_request
Teardown(s) ==
  /\ Unlocked /\ on[s] \in up
  /\ Delete(s)
  /\ mask' = [mask EXCEPT ![s] = @ /\ ~started]
  /\ reply' = [reply EXCEPT ![s] = None]
  /\ UNCHANGED <<algo, started, vif, flow, entry, env, stopping, work, freed,
                 missed, bounds>>

\* The record is zeroed when the station becomes known (NOTEXIST to NONE).
StaAdd(s, v, i) ==
  /\ on[s] = None /\ v \in up /\ i \in Idles
  /\ on' = [on EXCEPT ![s] = v] /\ idle' = [idle EXCEPT ![s] = i]
  /\ Zeroed({s})
  /\ UNCHANGED <<algo, started, vif, table, up, stopping, work, freed, missed,
                 bounds>>

\* nrc_mac_sta_remove, then the record is given back to mac80211.
StaRemove(s) ==
  /\ Unlocked /\ on[s] # None
  /\ Delete(s)
  /\ Zeroed({s})
  /\ on' = [on EXCEPT ![s] = None] /\ idle' = [idle EXCEPT ![s] = 0]
  /\ missed' = missed \cup {o \in {s} : mask[o] /\ ~started}
  /\ UNCHANGED <<algo, started, vif, up, stopping, work, freed, bounds>>

\* ieee80211_restart_hw after nrc_mac_restart failed to clear the stations:
\* mac80211 adds them all again, and their records are zeroed.
Known == {s \in Sta : on[s] # None}
Restart ==
  /\ Unlocked /\ restarts < MaxRestart /\ restarts' = restarts + 1
  /\ Zeroed(Known)
  /\ missed' = missed \cup {s \in Known : mask[s]}
  /\ UNCHANGED <<algo, started, vif, table, env, stopping, work, freed, setups,
                 fails>>

-----------------------------------------------------------------------------
(* Start, stop and the TSF worker.                                         *)

\* An interface comes up, or changes its beacon: nrc_twt_sched_start, which
\* gives up when the TSF of the target cannot be read.
Start(v) ==
  /\ Unlocked
  /\ up' = up \cup {v}
  /\ \/ ~started /\ started' = TRUE /\ vif' = v /\ timerOn' = TRUE
     \/ UNCHANGED <<started, vif, timerOn>>
  /\ UNCHANGED <<algo, table, staVars, on, idle, stopping, pend, running,
                 freed, missed, bounds>>

\* remove_interface, change_interface: mac80211 has removed the stations.
\* The timer is cancelled, and the work unless it runs already; a running
\* one is waited for with the mutex held.
StopBegin(v) ==
  /\ Unlocked
  /\ v \in up /\ (\A s \in Sta : on[s] # v)
  /\ up' = up \ {v}
  /\ IF started /\ vif = v
     THEN stopping' = v /\ timerOn' = FALSE /\ pend' = FALSE
     ELSE UNCHANGED <<stopping, timerOn, pend>>
  /\ UNCHANGED <<algo, started, vif, table, staVars, on, idle, running, freed,
                 missed, bounds>>

IdleAny == TRUE
Idle == ~running
StopEnd ==
  /\ stopping # None /\ Idle
  /\ stopping' = None
  /\ started' = FALSE /\ vif' = None
  /\ UNCHANGED <<algo, table, staVars, env, work, freed, missed, bounds>>

\* twt_sched_timer_handler
Tick ==
  /\ timerOn /\ pend' = TRUE
  /\ UNCHANGED <<algo, started, vif, table, staVars, env, stopping, timerOn,
                 running, freed, missed, bounds>>

\* get_tsf_worker is called and waits for the mutex.
WorkerCalled ==
  /\ pend /\ ~running
  /\ pend' = FALSE /\ running' = TRUE
  /\ UNCHANGED <<algo, started, vif, table, staVars, env, stopping, timerOn,
                 freed, missed, bounds>>

\* It reads the TSF of the interface; an armed timer is armed again.
WorkerRun ==
  /\ running /\ stopping = None
  /\ running' = FALSE
  /\ UNCHANGED <<algo, started, vif, table, staVars, env, stopping, timerOn,
                 pend, freed, missed, bounds>>

\* nrc_twt_sched_deinit, with all interfaces removed: the stop it calls does
\* nothing, the work queue is flushed, the tables are freed.
Deinit ==
  /\ Unlocked /\ up = {} /\ ~pend /\ ~running
  /\ freed' = TRUE
  /\ UNCHANGED <<algo, started, vif, table, staVars, env, stopping, work,
                 missed, bounds>>

-----------------------------------------------------------------------------
StaStep(s) ==
  \/ Teardown(s) \/ StaRemove(s)
  \/ \E q \in Requests : Setup(s, q)
  \/ \E v \in Vif, i \in Idles : StaAdd(s, v, i)

Next ==
  \/ \E s \in Sta : StaStep(s)
  \/ \E v \in Vif : Start(v) \/ StopBegin(v)
  \/ StopEnd \/ Restart \/ Tick \/ WorkerCalled \/ WorkerRun \/ Deinit

Spec == Init /\ [][Next]_vars

-----------------------------------------------------------------------------
(* Properties.                                                             *)

Node == [entry : Entry, sta : Sta \cup {None}, n : Nat \ {0}]

TypeOK ==
  /\ algo \in Algos /\ started \in BOOLEAN /\ vif \in Vif \cup {None}
  /\ sub \in [Entry -> Nat] /\ allocNum \in Nat /\ minNum \in 0 .. MaxGroup
  /\ held \subseteq Node /\ IsFiniteSet(held)
  /\ mask \in [Sta -> BOOLEAN]
  /\ flow \in [Sta -> Wake \cup {None}]
  /\ entry \in [Sta -> Entry \cup {None}]
  /\ reply \in [Sta -> [cmd : {"ACCEPT", "DICTATE"}, q : Wake] \cup {None}]
  /\ on \in [Sta -> Vif \cup {None}] /\ idle \in [Sta -> Nat]
  /\ up \subseteq Vif /\ stopping \in Vif \cup {None}
  /\ timerOn \in BOOLEAN /\ pend \in BOOLEAN /\ running \in BOOLEAN
  /\ freed \in BOOLEAN /\ missed \subseteq Sta
  /\ setups \in 0 .. MaxSetup /\ fails \in 0 .. MaxFail
  /\ restarts \in 0 .. MaxRestart

(* The counters agree with the lists: sub_num counts the nodes of an entry  *)
(* and the places charged to nobody, alloc_num those of the table, through  *)
(* set-ups, failed allocations, teardowns, removals, restarts and stops.    *)
At(e) == {p \in held : p.entry = e}
Counted ==
  /\ \A e \in Entry : sub[e] = Cardinality(At(e))
  /\ allocNum = Cardinality(held)

(* First come, first served, and groups of one, never overfill an entry.    *)
GroupCapSafe ==
  (algo = "FCFS" \/ MaxGroup = 1) => \A e \in Entry : sub[e] <= MaxGroup

(* A request is rejected for want of a place only if every entry is full:   *)
(* min_num_in_group, which deletions pull down and searches push up, never  *)
(* hides an entry that has room.                                            *)
RoomIsFound == ~Found => \A e \in Entry : sub[e] >= MaxGroup

(* A station's bit, its entry pointer and the lists agree: the entry of an  *)
(* agreement lists its station (what entry_del and sp_update rely on), and  *)
(* a station is listed once or not at all, unless its agreement was dropped *)
(* while the scheduler was stopped (another AP was stopped) or by a restart *)
(* that could not clear the stations: these leave a node with a stale       *)
(* pointer.                                                                 *)
Agreements ==
  \A s \in Sta :
    /\ mask[s] => NodesAt(entry[s], s) # {}
    /\ s \in missed \/ Cardinality(Nodes(s)) = IF mask[s] THEN 1 ELSE 0

(* The worker never reads the TSF of an interface that is gone, and nothing *)
(* of the scheduler is due or running once it is freed: the timer is        *)
(* cancelled before the work, the work before the interface is forgotten.   *)
WorkerSafe ==
  /\ running /\ stopping = None => vif # None
  /\ freed => ~timerOn /\ ~pend /\ ~running /\ ~started

(* A station that asks for the interval it was dictated is not dictated     *)
(* another one.                                                             *)
DictateSettles ==
  \A s \in Sta :
    reply[s] # None /\ reply[s].cmd = "DICTATE" => Fits(reply[s].q, idle[s])

=============================================================================
