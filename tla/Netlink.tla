------------------------------ MODULE Netlink ------------------------------
(***************************************************************************)
(* The generic netlink family of the driver (nrc-netlink.c).  A handler    *)
(* runs in the context of the thread that sends, one at a time under       *)
(* genl_mutex (parallel_ops is false): pre_doit wakes a sleeping target,   *)
(* the handler runs and replies, post_doit lets an idle target sleep       *)
(* again.  A shell command is a WIM request (hif.c, wim.c) that waits 30   *)
(* seconds for the answer of the target with the mutex held; an answer may *)
(* come after that, or before the request has begun to wait.               *)
(***************************************************************************)
EXTENDS Integers, Sequences, FiniteSets

CONSTANTS
    Threads,    \* threads that send requests
    Agents,     \* those of the test suites, whose replies are not followed
    None,       \* no thread, no message
    IdleMode,   \* module parameter idle_mode
    MaxFaults   \* bound: waits that time out, refusals, lost answers, changes of state

ASSUME NetlinkAssumption ==
    Agents \subseteq Threads /\ None \notin Threads /\ IdleMode \in BOOLEAN /\ MaxFaults \in Nat

VARIABLES
    drv,        \* nw->drv_state: running, asleep, anything else
    link,       \* no interface, one that is not associated, one that is
    genl,       \* the holder of genl_mutex
    phase,      \* where its handler is
    shell,      \* nrc_shell_running_state
    monitor,    \* signal_monitor
    stored,     \* nw->wim_resp[kind]: no answer, one signalled, one whose signal was reset
    target,     \* shell commands the target has yet to run or to answer
    msg, reply, \* the request of a thread and what it was replied
    serial,     \* the number of a thread's current command
    ran,        \* times the target ran it
    stray,      \* threads whose command left an answer that nobody waits for; None
                \* for an earlier command of a thread
    abandoned,       \* history: a shell command has left its state behind
    faults      \* bound: faults that are left

waiting == <<genl, phase, shell, stored, target>>
history == <<serial, ran, stray>>
vars == <<drv, link, waiting, monitor, msg, reply, history, abandoned, faults>>

Kinds == {"SHELL", "RAW", "MIC"}
Texts == {"success", "fail", "text"}

Init ==
    /\ drv = "RUNNING" /\ link = "assoc" /\ genl = None /\ phase = "run"
    /\ shell = "IDLE" /\ monitor = FALSE /\ abandoned = FALSE
    /\ stored = [k \in Kinds |-> "none"] /\ target = <<>>
    /\ msg = [t \in Threads |-> None] /\ reply = [t \in Threads |-> None]
    /\ serial = [t \in Threads |-> 0] /\ ran = serial /\ stray = {}
    /\ faults = MaxFaults

\* the answer to the command of t will be nobody's
Strays(t) == stray' = stray \cup {IF t \in Agents THEN None ELSE t}

Fault == faults > 0 /\ faults' = faults - 1

(***************************************************************************)
(* The handler of t replies r and returns.  post_doit puts the target to   *)
(* sleep in idle mode when no interface is in use and no scan runs; the    *)
(* power-save code may refuse.                                             *)
(***************************************************************************)
post_doit ==
    drv' \in {drv} \cup
        (IF IdleMode /\ link # "assoc" /\ drv = "RUNNING" THEN {"PS"} ELSE {})

Return(t, r) ==
    /\ reply' = [reply EXCEPT ![t] = IF t \in Agents THEN None ELSE r]
    /\ msg' = [msg EXCEPT ![t] = None]
    /\ genl' = None /\ phase' = "run"

Replied(t, r) == Return(t, r) /\ post_doit

\* genl_rcv takes the mutex; pre_doit wakes the target, or refuses: then neither
\* the handler nor post_doit runs
Enter(t) ==
    /\ genl = None /\ msg[t] # None
    /\ genl' = t /\ phase' = "run"
    /\ drv' = IF drv = "PS" THEN "RUNNING" ELSE drv
    /\ UNCHANGED <<link, shell, stored, target, monitor, msg, reply, history, abandoned, faults>>

Busy(t) ==
    /\ genl = None /\ msg[t] # None /\ drv = "PS" /\ Fault
    /\ Return(t, "error")
    /\ UNCHANGED <<drv, link, shell, stored, target, monitor, history, abandoned>>

Handling(t, op) == genl = t /\ phase = "run" /\ msg[t] = op

Reachable == drv = "RUNNING" /\ link # "none"

(***************************************************************************)
(* nrc_shell_run and nrc_shell_run_raw.  A time-out is the text "Failed"   *)
(* of a shell command and a reply without the attribute of a raw one; a    *)
(* request for either may come without a command ("BARE").                 *)
(***************************************************************************)
Shells == {"SHELL", "RAW"}
GivenUp(kind) == CASE kind = "SHELL" -> "Failed" [] kind = "RAW" -> "empty" [] OTHER -> "garbage"

ShellRefused(t) ==
    \E kind \in Shells \cup {"BARE"} :
        /\ Handling(t, kind)
        /\ \/ ~Reachable /\ Replied(t, "error")
           \/ Reachable /\ shell # "IDLE" /\ Replied(t, "Failed")
        /\ UNCHANGED <<link, shell, stored, target, monitor, history, abandoned, faults>>

\* the state is set before the command is looked for and the request allocated:
\* these two returns leave it
ShellLeft(t) ==
    /\ \/ Handling(t, "BARE") /\ UNCHANGED faults
       \/ (\E kind \in Shells : Handling(t, kind)) /\ Fault
    /\ Reachable /\ shell = "IDLE"
    /\ shell' = "RUNNING" /\ abandoned' = TRUE /\ Replied(t, "error")
    /\ UNCHANGED <<link, stored, target, monitor, history>>

(***************************************************************************)
(* nrc_xmit_wim_request_wait: an answer that was signalled and not taken   *)
(* is freed; one whose signal was reset is taken for a request under way.  *)
(***************************************************************************)
Request(t, kind) ==
    /\ stored[kind] # "undone"
    /\ stored' = [stored EXCEPT ![kind] = "none"]
    /\ target' = Append(target, [t |-> t, id |-> serial[t], kind |-> kind, answered |-> FALSE])
    /\ phase' = "sent"

ShellSend(t) ==
    \E kind \in Shells :
        /\ Handling(t, kind) /\ Reachable /\ shell = "IDLE"
        /\ Request(t, kind) /\ shell' = "RUNNING"
        /\ UNCHANGED <<drv, link, genl, monitor, msg, reply, history, abandoned, faults>>

\* not sent: an answer is in the way, or the host interface refuses
NotSent(t) ==
    \E kind \in Kinds :
        /\ Handling(t, kind) /\ (kind \in Shells => Reachable /\ shell = "IDLE")
        /\ \/ stored[kind] = "undone" /\ UNCHANGED <<stored, faults>>
           \/ stored[kind] # "undone" /\ Fault /\ stored' = [stored EXCEPT ![kind] = "none"]
        /\ Replied(t, GivenUp(kind))
        /\ UNCHANGED <<link, shell, target, monitor, history, abandoned>>

\* reinit_completion comes after the request has left
Reinit(t) ==
    /\ genl = t /\ phase = "sent" /\ phase' = "wait"
    /\ stored' = [stored EXCEPT ![msg[t]] = IF @ = "done" THEN "undone" ELSE @]
    /\ UNCHANGED <<drv, link, genl, shell, target, monitor, msg, reply, history, abandoned, faults>>

\* Mutant: a raw command leaves the state as it is.
IdleOfShell(kind) == IF kind = "SHELL" THEN "IDLE" ELSE shell

Idle(kind) == IF kind \in Shells THEN "IDLE" ELSE shell

\* WIM_RESP_TIMEOUT * 300; it ends a wait that nothing else will end
Answerable(kind) == drv = "RUNNING" /\ \E i \in DOMAIN target : target[i].kind = kind

TimeOut(t) ==
    /\ genl = t /\ phase = "wait"
    /\ IF Answerable(msg[t]) THEN Fault ELSE UNCHANGED faults
    /\ Strays(t)
    /\ shell' = Idle(msg[t]) /\ Replied(t, GivenUp(msg[t]))
    /\ UNCHANGED <<link, stored, target, monitor, serial, ran, abandoned>>

(***************************************************************************)
(* The target runs its commands one by one and answers each.  The answer   *)
(* is matched by the WIM command only: whoever waits for one takes it.     *)
(***************************************************************************)
Awake == drv = "RUNNING" /\ target # <<>>

TargetRuns ==
    /\ Awake /\ ~Head(target).answered
    /\ LET w == Head(target) IN
       /\ target' = <<[w EXCEPT !.answered = TRUE]>> \o Tail(target)
       /\ ran' = [ran EXCEPT ![w.t] = IF serial[w.t] = w.id THEN @ + 1 ELSE @]
    /\ UNCHANGED <<drv, link, genl, phase, shell, stored, monitor, msg, reply, serial,
                   stray, abandoned, faults>>

Waits(kind) == genl # None /\ phase = "wait" /\ msg[genl] = kind

Taken ==
    /\ Awake /\ Head(target).answered /\ Waits(Head(target).kind)
    /\ target' = Tail(target)
    /\ stored' = [stored EXCEPT ![Head(target).kind] = "none"]
    /\ shell' = Idle(Head(target).kind) /\ \E text \in Texts : Replied(genl, text)
    /\ UNCHANGED <<link, monitor, history, abandoned, faults>>

Kept ==
    /\ Awake /\ Head(target).answered /\ ~Waits(Head(target).kind)
    /\ target' = Tail(target)
    /\ stored' = [stored EXCEPT ![Head(target).kind] = "done"]
    /\ UNCHANGED <<drv, link, genl, phase, shell, monitor, msg, reply, history, abandoned, faults>>

Lost ==
    /\ Awake /\ Head(target).answered /\ Fault /\ target' = Tail(target)
    /\ UNCHANGED <<drv, link, genl, phase, shell, stored, monitor, msg, reply, history, abandoned>>

(***************************************************************************)
(* The handlers that do not wait.                                          *)
(***************************************************************************)
Handler(t, op) == Handling(t, op) /\ UNCHANGED <<link, shell, stored, faults, abandoned>>

\* nrc_shell_run_simple sends a shell command whose answer nobody waits for
RunSimple(t) ==
    /\ Handler(t, "SIMPLE")
    /\ \/ ~Reachable /\ Replied(t, "error") /\ UNCHANGED <<target, stray>>
       \/ /\ Reachable /\ Replied(t, "none") /\ Strays(t)
          /\ target' = Append(target, [t |-> t, id |-> 0, kind |-> "SHELL", answered |-> FALSE])
    /\ UNCHANGED <<monitor, serial, ran>>

\* cli_app_get_info: the report of the signal monitor
GetInfo(t) ==
    /\ \E op \in {"NUM", "PAGE", "STOP"} :
        /\ Handler(t, op)
        /\ \/ ~Reachable /\ Replied(t, "error") /\ UNCHANGED monitor
           \/ Reachable /\ op = "STOP" /\ monitor' = FALSE /\ Replied(t, "text")
           \/ /\ Reachable /\ op # "STOP" /\ link # "assoc"
              /\ Replied(t, "unassociated") /\ UNCHANGED monitor
           \/ /\ Reachable /\ op = "NUM" /\ link = "assoc"
              /\ monitor' = TRUE /\ Replied(t, "text")
           \/ /\ Reachable /\ op = "PAGE" /\ link = "assoc"
              /\ Replied(t, IF monitor THEN "text" ELSE "empty") /\ UNCHANGED monitor
    /\ UNCHANGED <<target, history>>

\* cli_app_driver_cmd runs a setting in the driver; the words decide on the
\* answer, if they can be split
DriverCmd(t) ==
    /\ Handling(t, "DRIVER")
    /\ \/ ~Reachable /\ Replied(t, "error") /\ UNCHANGED <<ran, faults>>
       \/ Reachable /\ Fault /\ Replied(t, "error") /\ UNCHANGED ran
       \/ /\ Reachable /\ ran' = [ran EXCEPT ![t] = @ + 1] /\ UNCHANGED faults
          /\ \E r \in {"success", "fail"} : Replied(t, r)
    /\ UNCHANGED <<link, shell, stored, target, monitor, serial, stray, abandoned>>

\* capi_sta_send_addba, _delba, capi_bss_max_idle and _offset
Capi(t) ==
    /\ Handler(t, "CAPI")
    /\ \/ drv # "RUNNING" /\ Replied(t, "error")
       \/ drv = "RUNNING" /\ \E r \in {"success", "fail"} : Replied(t, r)
    /\ UNCHANGED <<target, monitor, history>>

\* the handlers of the test agents, which do not ask for the state of the target
TestAgent(t) ==
    /\ Handler(t, "TEST")
    /\ \E r \in {"success", "fail", "none"} : Replied(t, r)
    /\ UNCHANGED <<target, monitor, history>>

\* nrc_mic_scan waits as a shell command does, without its running state
MicScan(t) ==
    /\ Handling(t, "MIC") /\ Request(t, "MIC")
    /\ UNCHANGED <<drv, link, genl, shell, monitor, msg, reply, history, abandoned, faults>>

MicNoMemory(t) ==
    /\ Handling(t, "MIC") /\ Fault /\ Replied(t, "error")
    /\ UNCHANGED <<link, shell, stored, target, monitor, history, abandoned>>

(***************************************************************************)
(* The rest of the driver: the target is restarted or removed and comes    *)
(* back, sleeps, loses or finds its access point.  A restart loses what    *)
(* the target had not answered.                                            *)
(***************************************************************************)
Down ==
    /\ drv # "DOWN" /\ Fault /\ drv' = "DOWN" /\ target' = <<>>
    /\ stray' = stray \cup {IF target[i].t \in Agents THEN None ELSE target[i].t :
                              i \in DOMAIN target}
    /\ UNCHANGED <<link, genl, phase, shell, stored, monitor, msg, reply, serial, ran, abandoned>>

Up ==
    /\ drv = "DOWN" /\ drv' = "RUNNING"
    /\ UNCHANGED <<link, waiting, monitor, msg, reply, history, abandoned, faults>>

Sleeps ==
    /\ drv = "RUNNING" /\ link = "assoc" /\ Fault /\ drv' = "PS"
    /\ UNCHANGED <<link, waiting, monitor, msg, reply, history, abandoned>>

Relink ==
    /\ Fault /\ link' \in {"none", "up", "assoc"} \ {link}
    /\ UNCHANGED <<drv, waiting, monitor, msg, reply, history, abandoned>>

Handlers(t) ==
    \/ Enter(t) \/ Busy(t) \/ ShellRefused(t) \/ ShellLeft(t) \/ ShellSend(t) \/ NotSent(t)
    \/ Reinit(t) \/ TimeOut(t) \/ RunSimple(t) \/ GetInfo(t) \/ DriverCmd(t) \/ Capi(t)
    \/ TestAgent(t) \/ MicScan(t) \/ MicNoMemory(t)

Target == TargetRuns \/ Taken \/ Kept \/ Lost

World == Down \/ Up \/ Sleeps \/ Relink

-----------------------------------------------------------------------------
(* Whatever a shell command meets once its request has been made (it is not *)
(* sent, times out, is answered, the target restarts), the running state    *)
(* ends with its handler: a later command finds it set only after one of    *)
(* the two returns before that, of a request without a command or without   *)
(* memory, which leave it set for good (nrc_shell_run, nrc_shell_run_raw).  *)
NeverStuck == shell = "RUNNING" /\ ~abandoned => genl # None /\ phase # "run"
=============================================================================
