----------------------------- MODULE WimRequest -----------------------------
(***************************************************************************)
(* Requests to the target that wait for its response.                      *)
(*                                                                         *)
(* nrc_xmit_wim_request_wait and nrc_xmit_wim_request_and_return send a WIM *)
(* under target_mtx, drop the mutex, sleep on the completion of the command *)
(* and take the response the RX thread has left in wim_resp[cmd].skb.  A    *)
(* response carries its command and nothing that names its request.         *)
(*                                                                         *)
(* Callers, the RX thread and the target run interleaved.  done is the      *)
(* counter of the completion: complete() adds one, a wait that ends takes   *)
(* one, completion_done() says whether it is above zero.                    *)
(***************************************************************************)
EXTENDS Naturals, FiniteSets

CONSTANTS
  Caller,     \* threads that issue requests
  Cmd,        \* WIM commands
  Uses,       \* Uses[c]: the commands caller c issues
  Returning,  \* callers of nrc_xmit_wim_request_and_return
  Notified,   \* commands also sent without waiting (nrc_shell_run_simple)
  MaxReq,     \* bound on the requests
  MaxLate,    \* bound on time-outs that come before the response
  MaxLost,    \* bound on requests refused or dropped by nrc_xmit_wim
  NoResp,     \* the NULL skb
  Free        \* nobody holds target_mtx, no command is being completed

ASSUME WimAssumption ==
  /\ Cmd # {}
  /\ Uses \in [Caller -> SUBSET Cmd]
  /\ Returning \subseteq Caller /\ Notified \subseteq Cmd
  /\ MaxReq \in Nat /\ MaxLate \in Nat /\ MaxLost \in Nat
  /\ NoResp \notin Nat
  /\ Free \notin Caller /\ Free \notin Cmd

VARIABLES
  mtx,          \* holder of nw->target_mtx
  resp,         \* wim_resp[cmd].skb, as the number of the request it answers
  done,         \* wim_resp[cmd].work.done
  rxDone,       \* command the RX thread is about to complete
  pc,           \* where each caller is
  req,          \* the request of each caller
  answer,       \* what its last request returned
  outstanding,  \* requests the target has not answered
  returned,     \* history: responses handed to a caller
  freed,        \* history: responses freed unread
  quiet,        \* history: nothing of the command was on its way when sent
  made,         \* requests so far
  late, lost    \* bounds

callerVars == <<pc, req, answer, quiet>>
slotVars   == <<resp, done>>
bounds     == <<made, late, lost>>
vars == <<mtx, slotVars, rxDone, callerVars, outstanding, returned, freed,
          bounds>>

Request == [id : 1 .. MaxReq, cmd : Cmd]

\* nrc_wim_response_init
Init ==
  /\ mtx = Free /\ rxDone = Free
  /\ resp = [k \in Cmd |-> NoResp] /\ done = [k \in Cmd |-> 0]
  /\ pc = [c \in Caller |-> "idle"]
  /\ req = [c \in Caller |-> [id |-> 0, cmd |-> CHOOSE k \in Cmd : TRUE]]
  /\ answer = [c \in Caller |-> NoResp]
  /\ quiet = [c \in Caller |-> FALSE]
  /\ outstanding = {} /\ returned = {} /\ freed = {}
  /\ made = 0 /\ late = 0 /\ lost = 0

Quiet(k) == rxDone # k /\ \A r \in outstanding : r.cmd # k

Lose == lost < MaxLost /\ lost' = lost + 1

-----------------------------------------------------------------------------
(* The callers.                                                            *)

\* The request fails before anything is sent or armed: NULL, mutex released.
Refused(c) ==
  /\ answer' = [answer EXCEPT ![c] = NoResp]
  /\ mtx' = Free
  /\ UNCHANGED <<pc, outstanding>>

Sent(c, R) ==
  /\ outstanding' = outstanding \cup R
  /\ mtx' = c
  /\ pc' = [pc EXCEPT ![c] = "arm"]
  /\ UNCHANGED answer

\* Up to the return of nrc_xmit_wim.  A response nobody took is freed if its
\* completion is done, else it counts as "not responded" and the call fails.
\* nrc_xmit_wim queues the WIM, drops it (suspended) or refuses it.
ReqSend(c, k) ==
  LET r == [id |-> made + 1, cmd |-> k] IN
  /\ pc[c] = "idle" /\ mtx = Free
  /\ made < MaxReq /\ made' = r.id
  /\ req' = [req EXCEPT ![c] = r]
  /\ quiet' = [quiet EXCEPT ![c] = Quiet(k)]
  /\ IF resp[k] # NoResp /\ done[k] = 0
     THEN Refused(c) /\ UNCHANGED <<resp, freed, lost>>
     ELSE /\ resp' = [resp EXCEPT ![k] = NoResp]
          /\ freed' = freed \cup ({resp[k]} \ {NoResp})
          /\ \/ Sent(c, {r}) /\ UNCHANGED lost
             \/ Sent(c, {}) /\ Lose
             \/ Refused(c) /\ Lose
  /\ UNCHANGED <<done, rxDone, returned, late>>

\* reinit_completion, mutex_unlock
RearmNot(k) == UNCHANGED done
Rearm(k) == done' = [done EXCEPT ![k] = 0]
ReqArm(c) ==
  /\ pc[c] = "arm"
  /\ Rearm(req[c].cmd)
  /\ mtx' = Free
  /\ pc' = [pc EXCEPT ![c] = "wait"]
  /\ UNCHANGED <<resp, rxDone, req, answer, quiet, outstanding, returned,
                 freed, bounds>>

\* wait_for_completion_timeout returns above zero.
WaitOk(c) ==
  LET k == req[c].cmd IN
  /\ pc[c] = "wait" /\ done[k] > 0
  /\ done' = [done EXCEPT ![k] = @ - 1]
  /\ pc' = [pc EXCEPT ![c] = "take"]
  /\ UNCHANGED <<mtx, resp, rxDone, req, answer, quiet, outstanding, returned,
                 freed, bounds>>

\* It returns zero: the response is late (bounded), or will never come.
WaitTimeoutNever(c) == FALSE
Coming(c) == req[c] \in outstanding \/ rxDone = req[c].cmd
WaitTimeout(c) ==
  /\ pc[c] = "wait" /\ done[req[c].cmd] = 0
  /\ IF Coming(c) THEN late < MaxLate /\ late' = late + 1 ELSE UNCHANGED late
  /\ answer' = [answer EXCEPT ![c] = NoResp]
  /\ pc' = [pc EXCEPT ![c] = "idle"]
  /\ UNCHANGED <<mtx, slotVars, rxDone, req, quiet, outstanding, returned,
                 freed, made, lost>>

\* The response is taken under the mutex.
Kept(k) == resp
Cleared(k) == [resp EXCEPT ![k] = NoResp]
Take(c) ==
  LET k == req[c].cmd IN
  /\ pc[c] = "take" /\ mtx = Free
  /\ resp[k] # NoResp
  /\ answer' = [answer EXCEPT ![c] = resp[k]]
  /\ returned' = returned \cup {resp[k]}
  /\ resp' = Cleared(k)
  /\ pc' = [pc EXCEPT ![c] = "idle"]
  /\ UNCHANGED <<mtx, done, rxDone, req, quiet, outstanding, freed, bounds>>

\* There is none: one function reads through the NULL pointer, the other
\* reports the error and returns; both leave the mutex locked.
TakeNull(c) ==
  /\ pc[c] = "take" /\ mtx = Free
  /\ resp[req[c].cmd] = NoResp
  /\ mtx' = c
  /\ answer' = [answer EXCEPT ![c] = NoResp]
  /\ pc' = [pc EXCEPT ![c] = IF c \in Returning THEN "idle" ELSE "dead"]
  /\ UNCHANGED <<slotVars, rxDone, req, quiet, outstanding, returned, freed,
                 bounds>>

\* A request nobody waits for, of a command others wait for.
Notify(k) ==
  /\ k \in Notified
  /\ made < MaxReq /\ made' = made + 1
  /\ outstanding' = outstanding \cup {[id |-> made + 1, cmd |-> k]}
  /\ UNCHANGED <<mtx, slotVars, rxDone, callerVars, returned, freed, late,
                 lost>>

-----------------------------------------------------------------------------
(* The RX thread.                                                          *)

\* nrc_wim_response_handler, up to mutex_unlock.  The target answers requests
\* of one command in turn.
Wanted(k) == done[k] = 0
RxResponse(r) ==
  /\ r \in outstanding /\ rxDone = Free /\ mtx = Free
  /\ \A s \in outstanding : s.cmd = r.cmd => r.id <= s.id
  /\ outstanding' = outstanding \ {r}
  /\ IF Wanted(r.cmd)
     THEN /\ resp' = [resp EXCEPT ![r.cmd] = r.id]
          /\ rxDone' = r.cmd
          /\ UNCHANGED freed
     ELSE freed' = freed \cup {r.id} /\ UNCHANGED <<resp, rxDone>>
  /\ UNCHANGED <<mtx, done, callerVars, returned, bounds>>

\* complete
RxComplete ==
  /\ rxDone # Free
  /\ done' = [done EXCEPT ![rxDone] = @ + 1]
  /\ rxDone' = Free
  /\ UNCHANGED <<mtx, resp, callerVars, outstanding, returned, freed, bounds>>

-----------------------------------------------------------------------------
Rx == RxComplete \/ \E r \in outstanding : RxResponse(r)
Locking(c) == Take(c) \/ TakeNull(c)
Waiting(c) == ReqArm(c) \/ WaitOk(c) \/ WaitTimeout(c)

Next ==
  \/ \E c \in Caller : Locking(c) \/ Waiting(c) \/ \E k \in Uses[c] : ReqSend(c, k)
  \/ \E k \in Cmd : Notify(k)
  \/ Rx

Spec == Init /\ [][Next]_vars

\* Timers run out, the target answers what reached it, and a mutex that is
\* released again and again is handed to each of those queued for it.
Fairness ==
  /\ \A c \in Caller : WF_vars(Waiting(c)) /\ SF_vars(Locking(c))
  /\ SF_vars(Rx)

FairSpec == Spec /\ Fairness

-----------------------------------------------------------------------------
(* Properties.                                                             *)

TypeOK ==
  /\ mtx \in Caller \cup {Free} /\ rxDone \in Cmd \cup {Free}
  /\ resp \in [Cmd -> (1 .. MaxReq) \cup {NoResp}]
  /\ done \in [Cmd -> 0 .. 1]
  /\ pc \in [Caller -> {"idle", "arm", "wait", "take", "dead"}]
  /\ req \in [Caller -> [id : 0 .. MaxReq, cmd : Cmd]]
  /\ answer \in [Caller -> (1 .. MaxReq) \cup {NoResp}]
  /\ quiet \in [Caller -> BOOLEAN]
  /\ outstanding \subseteq Request
  /\ returned \subseteq 1 .. MaxReq /\ freed \subseteq 1 .. MaxReq
  /\ made \in 0 .. MaxReq /\ late \in 0 .. MaxLate /\ lost \in 0 .. MaxLost

(* Whatever times out, crosses or is sent without waiting, a response skb   *)
(* has one owner: it is handed to one caller and never freed as well, never *)
(* handed out again, and the response slot of a command never keeps one     *)
(* that was handed out (no double free, no use after free of wim_resp).     *)
Stored == {resp[k] : k \in Cmd} \ {NoResp}
Ids(R) == {r.id : r \in R}
OneOwner ==
  /\ returned \cap freed = {} /\ returned \cap Stored = {}
  /\ freed \cap Stored = {}
  /\ Ids(outstanding) \cap (returned \cup freed \cup Stored) = {}
  /\ \A k, l \in Cmd : resp[k] = resp[l] => k = l \/ resp[k] = NoResp

(* After late responses the rendezvous recovers by itself: a caller whose   *)
(* request was sent when nothing of the command was on its way is woken by  *)
(* its own response, provided nobody else issues that command.              *)
Exclusive(c) ==
  /\ req[c].cmd \notin Notified
  /\ \A d \in Caller \ {c} : req[c].cmd \notin Uses[d]
WokenByOwn ==
  \A c \in Caller :
    pc[c] = "take" /\ quiet[c] /\ Exclusive(c) => resp[req[c].cmd] = req[c].id

(* Unless a caller has found its response gone, and left with the mutex      *)
(* locked, every call returns: refused, dropped, answered, late or never.    *)
Wedged == mtx # Free /\ pc[mtx] \in {"idle", "dead"}
Returns == []~Wedged => \A c \in Caller : pc[c] # "idle" ~> pc[c] = "idle"
=============================================================================
