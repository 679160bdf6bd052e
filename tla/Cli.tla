-------------------------------- MODULE Cli --------------------------------
(***************************************************************************)
(* The command line of the driver (cli_app) and the agents of the test     *)
(* suites, as clients of the netlink family of module Netlink.  A handler  *)
(* checks its operands, sends one or several requests and turns the        *)
(* replies into a result; a result that is neither success nor failure is  *)
(* tried again.  "show signal start" begins a reporter, a second thread of *)
(* the program, that "show signal stop" and "exit" end.                    *)
(***************************************************************************)
EXTENDS Netlink, Functions, TLC

CONSTANTS
    Clients,        \* running programs
    Typable(_, _),  \* the handlers a client uses after a command and its result
    Sendable,       \* the requests the agents send
    NTry,           \* tries of a command (cli_app_run_command)
    StatsTry,       \* tries of a part of the statistics, and of the station count
    SysTry,         \* retries of a part of the system configuration
    MaxPages,       \* bound: pages of an answer
    Budget          \* bound: commands of a client, requests of an agent

Main(c) == <<c, "main">>
Rep(c) == <<c, "rep">>

ASSUME CliAssumption ==
    /\ Threads = (Clients \X {"main", "rep"}) \cup Agents
    /\ \A c \in Clients : {Main(c), Rep(c)} \cap Agents = {}
    /\ {NTry, StatsTry, MaxPages} \subseteq Nat \ {0} /\ SysTry \in Nat
    /\ Budget \in [Clients \cup Agents -> Nat] /\ None # "SUCCESS"

VARIABLES
    run,        \* the command of a client: its policy, the part and the pages it has
                \* got, resends and tries left; none at the prompt
    result,     \* what the last command of a client returned
    at,         \* "prompt", in a command, waiting for the reporter, ended
    rep,        \* showRxThread: the reporter and where it is
    limit,      \* show_signal_try_number, 0 for no limit, less the rounds done
    force,      \* show_rx_force_stop
    cmds        \* bound: commands a client or an agent has left

cli == <<run, result, at, rep, limit, force, cmds>>
allvars == <<vars, cli>>

(***************************************************************************)
(* The handlers: what the check of the operands may do (send, refuse,      *)
(* crash on an operand that is not there) and the policy that sends and    *)
(* reads the replies.                                                      *)
(***************************************************************************)
Sends == {"send"}
Checks == {"send", "refuse"}
Atoi == {"send", "refuse", "crash"}     \* atoi or strcmp of argv[n] = NULL
All(names, policy, check) == [h \in names |-> [policy |-> policy, check |-> check]]

Memory == All({"read", "write"}, "plain", Sends)
General == All({"show version", "show config", "show edca"}, "shell", Sends)
Dispatch == All({"help"}, "local", Sends) @@ All({"show", "set", "test", "gpio"}, "local", {"refuse"})
Exit == All({"exit"}, "exit", Sends)
UmacInfo == All({"show uinfo"}, "info", Checks)
Ampdu == All({"show ampdu"}, "shell", Sends)
Signal == All({"show signal"}, "signal", Checks) @@ All({"show signal start"}, "start", Sends)
          @@ All({"show signal stop"}, "stop", Sends)
Aggregation == All({"show maxagg"}, "pages", Checks)
Radio == All({"show duty", "show autotxgain", "show cal_use"}, "shell", Sends)
Recovery == All({"show recovery", "show detection"}, "plain", Sends)
Wakeup == All({"show temp", "show wakeup_pin", "show wakeup_source"}, "shell", Sends)
Stations == All({"show sta"}, "pages", Checks) @@ All({"show ap"}, "ap", Checks)
Rates == All({"show tx_time"}, "plain", Sends)
         @@ All({"show cca_thresh", "show rc", "show rc_param"}, "shell", Sends)
Counters == All({"show stats simple_rx", "show mac clear", "show mac tx clear"}, "plain", Sends)
MacStats == All({"show mac tx stats", "show mac rx stats"}, "stats", Sends)
SelfConfig == All({"show self_config", "set self_config"}, "raw", Checks)
OptimalChannel == All({"show optimal_channel"}, "raw", Checks)
Versions == All({"show app_version"}, "local", Sends)
            @@ All({"show xtal_status", "show clock_count"}, "shell", Sends)
Sysconfig == All({"show sysconfig"}, "sysconfig", Sends)
BeaconMcs == All({"show bcn_mcs"}, "shell", Checks)
SetRates == All({"set gi", "set ack_mode", "set rc"}, "shell", Checks)
SetAgg == All({"set maxagg"}, "agg", Checks)
SetMcs == All({"set bcn_mcs"}, "shell", Checks)
          @@ All({"set bcmc_mcs", "set dhcp_mcs", "set mgmt_mcs"}, "shell", Atoi)
SetMoreMcs == All({"set duty", "set duty_debug", "set txpwr"}, "shell", Checks)
              @@ All({"set eapol_mcs", "set arp_mcs"}, "shell", Atoi)
SetWakeup == All({"set wakeup_pin"}, "shell", Checks) @@ All({"set wakeup_source"}, "shell", Sends)
SetBa == All({"set addba", "set delba"}, "ba", Sends)
SetMisc == All({"set rts", "set cts", "set drop", "set tsensor"}, "shell", Checks)
           @@ All({"set tx_time", "set cca_thresh", "set color"}, "shell", Sends)
SetMode == All({"set rc_param", "set deepsleep_gpio", "set report", "set support_ch_width",
                "set bgscan_trx", "set prim_loc"}, "shell", Checks)
           @@ All({"set ampdu_mode", "set mesh_rssi_threshold"}, "driver", Checks)
           @@ All({"set scan_period", "set mgmt_mcs10_permit"}, "shell", Sends)
Tests == All({"test mcs", "test country", "test length"}, "shell", Sends)
         @@ All({"test cont_tx", "test single_tx", "test sine_tx"}, "shell", Checks)
         @@ All({"test freq_bw"}, "shell", Atoi)
ReadGpio == All({"show rx_count", "show rx_clear", "gpio read", "gpio write", "gpio direction",
                 "gpio pullup"}, "shell", Sends)

Table == Memory @@ General @@ Dispatch @@ Exit @@ UmacInfo @@ Ampdu @@ Signal @@ Aggregation
         @@ Radio @@ Recovery @@ Wakeup @@ Stations @@ Rates @@ Counters @@ MacStats @@ SelfConfig
         @@ OptimalChannel @@ Versions @@ Sysconfig @@ BeaconMcs @@ SetRates @@ SetAgg @@ SetMcs
         @@ SetMoreMcs @@ SetWakeup @@ SetBa @@ SetMisc @@ SetMode @@ Tests @@ ReadGpio

(***************************************************************************)
(* The state of the program.                                               *)
(***************************************************************************)
Policies == {Table[h].policy : h \in DOMAIN Table} \ {"local", "exit"}
Places == {"prompt", "call", "reply", "stopping", "exited", "crashed"}

InitCli ==
    /\ Init
    /\ run = [c \in Clients |-> None] /\ result = run /\ at = [c \in Clients |-> "prompt"]
    /\ rep = [c \in Clients |-> "off"] /\ limit = [c \in Clients |-> 0]
    /\ force = [c \in Clients |-> FALSE] /\ cmds = Budget

driver == <<drv, link, waiting, monitor, abandoned, faults>>

Reporting(c) == rep[c] \notin {"off", "unheard"}

\* the request a policy sends for its first, second or third part
Op(policy, part) ==
    CASE policy \in {"shell", "plain", "stats"} -> "SHELL"
      [] policy \in {"raw", "info", "pages", "ap", "agg", "sysconfig"} -> "RAW"
      [] policy = "driver" -> "DRIVER"
      [] policy = "ba" -> "CAPI"
      [] policy = "signal" -> (IF part = 1 THEN "NUM" ELSE "PAGE")
      [] OTHER -> (IF part = 1 THEN "NUM" ELSE "STOP")

\* tries of one request before the handler goes on without it; 0 for no end
Resends(policy) ==
    CASE policy \in {"stats", "signal", "start", "stop"} -> StatsTry
      [] policy = "sysconfig" -> SysTry + 1
      [] OTHER -> 0

Begun(policy, tries) ==
    [policy |-> policy, part |-> 1, got |-> 0, left |-> Resends(policy), tries |-> tries]

(***************************************************************************)
(* The program ends: its reporter ends with it, and a request of it that   *)
(* has not entered the driver is not made.                                 *)
(***************************************************************************)
Ends(c, how) ==
    /\ at' = [at EXCEPT ![c] = how] /\ rep' = [rep EXCEPT ![c] = "off"]
    /\ msg' = [msg EXCEPT ![Rep(c)] = IF genl = Rep(c) THEN @ ELSE None,
                          ![Main(c)] = IF genl = Main(c) THEN @ ELSE None]

(***************************************************************************)
(* cli_app_run_command: a line is split and handed to its handler.         *)
(***************************************************************************)
Type(c) ==
    /\ at[c] = "prompt" /\ cmds[c] > 0 /\ cmds' = [cmds EXCEPT ![c] = @ - 1]
    /\ \E h \in Typable(run[c], result[c]) : \E o \in Table[h].check :
        \/ /\ o = "refuse" /\ result' = [result EXCEPT ![c] = "FAILURE"]
           /\ UNCHANGED <<run, at, rep, force, msg, serial, ran, stray>>
        \/ o = "crash" /\ Ends(c, "crashed") /\ UNCHANGED <<run, result, force, serial, ran, stray>>
        \/ /\ o = "send" /\ Table[h].policy = "local"
           /\ result' = [result EXCEPT ![c] = "SUCCESS"] /\ run' = [run EXCEPT ![c] = None]
           /\ UNCHANGED <<at, rep, force, msg, serial, ran, stray>>
        \/ /\ o = "send" /\ Table[h].policy = "exit" /\ Ends(c, "exited")
           /\ force' = [force EXCEPT ![c] = @ \/ Reporting(c)]
           /\ UNCHANGED <<run, result, serial, ran, stray>>
        \/ /\ o = "send" /\ Table[h].policy \in Policies
           /\ run' = [run EXCEPT ![c] = Begun(Table[h].policy, NTry)]
           /\ result' = [result EXCEPT ![c] = None] /\ at' = [at EXCEPT ![c] = "call"]
           /\ serial' = [serial EXCEPT ![Main(c)] = @ + 1]
           /\ ran' = [ran EXCEPT ![Main(c)] = 0]
           /\ stray' = {IF t = Main(c) THEN None ELSE t : t \in stray}
           /\ UNCHANGED <<rep, force, msg>>
    /\ UNCHANGED <<driver, reply, limit>>

\* netlink_send_data: the thread is in the kernel until the handler has returned
Send(c) ==
    /\ at[c] = "call" /\ at' = [at EXCEPT ![c] = "reply"]
    /\ msg' = [msg EXCEPT ![Main(c)] = Op(run[c].policy, run[c].part)]
    /\ UNCHANGED <<driver, reply, history, run, result, rep, limit, force, cmds>>

Again(c, k) ==
    /\ run' = [run EXCEPT ![c] = k] /\ at' = [at EXCEPT ![c] = "call"]
    /\ UNCHANGED <<result, rep, limit, force, msg>>

\* the next part, with its own count of tries
Part(c) ==
    Again(c, [run[c] EXCEPT !.part = @ + 1, !.left = Resends(run[c].policy)])

\* at the prompt, the policy and the tries of the last command are remembered
Prompt(c, ret) ==
    /\ at' = [at EXCEPT ![c] = "prompt"] /\ result' = [result EXCEPT ![c] = ret]
    /\ run' = [run EXCEPT ![c] = Begun(@.policy, @.tries)]

\* Mutant: the tries are not counted.
ReturnedAgain(c, ret) ==
    IF ret = "TIMEOUT" /\ run[c].tries > 1
    THEN Again(c, Begun(run[c].policy, run[c].tries))
    ELSE Prompt(c, ret) /\ UNCHANGED <<rep, limit, force, msg>>

\* what the handler returns; a time-out is tried again from the start
Returned(c, ret) ==
    IF ret = "TIMEOUT" /\ run[c].tries > 1
    THEN Again(c, Begun(run[c].policy, run[c].tries - 1))
    ELSE Prompt(c, ret) /\ UNCHANGED <<rep, limit, force, msg>>

Got(c, policies) ==
    /\ at[c] = "reply" /\ run[c].policy \in policies
    /\ reply[Main(c)] # None /\ reply' = [reply EXCEPT ![Main(c)] = None]
    /\ UNCHANGED <<driver, history, cmds>>

\* run_shell_cmd, run_driver_cmd, run_shell_direct_cmd and the two raw scans
RunShell(c) ==
    LET r == reply[Main(c)] IN
        /\ Got(c, {"shell", "driver", "raw"})
        /\ Returned(c, CASE r \in {"error", "fail"} -> "FAILURE" [] r = "Failed" -> "TIMEOUT"
                         [] OTHER -> "SUCCESS")

\* Mutant: the text of a time-out is an answer.
PlainShellAny(c) ==
    LET r == reply[Main(c)] IN
        /\ Got(c, {"plain"}) /\ Returned(c, IF r = "error" THEN "FAILURE" ELSE "SUCCESS")

\* the handlers that print any answer
PlainShell(c) ==
    LET r == reply[Main(c)] IN
        /\ Got(c, {"plain"})
        /\ Returned(c, CASE r = "error" -> "FAILURE" [] r = "Failed" -> "TIMEOUT"
                         [] OTHER -> "SUCCESS")

\* the reply of "set addba" and "set delba" is not read
SetBaSent(c) ==
    Got(c, {"ba"}) /\ Returned(c, "SUCCESS")

\* netlink_send_data_with_retry
Resend(c) ==
    /\ Got(c, {"info", "pages", "ap", "agg", "sysconfig"}) /\ reply[Main(c)] = "error"
    /\ \/ run[c].policy # "sysconfig" /\ Again(c, run[c])
       \/ /\ run[c].policy = "sysconfig" /\ run[c].left > 1
          /\ Again(c, [run[c] EXCEPT !.left = @ - 1])
       \/ run[c].policy = "sysconfig" /\ run[c].left <= 1 /\ Returned(c, "FAILURE")

ShowAp(c) ==
    LET r == reply[Main(c)] IN
        /\ Got(c, {"ap"}) /\ r # "error"
        /\ Returned(c, IF r \in {"success", "fail", "empty"} THEN "FAILURE" ELSE "SUCCESS")

SetMaxAgg(c) ==
    Got(c, {"agg"}) /\ reply[Main(c)] # "error" /\ Returned(c, "SUCCESS")

\* a reply that is not a page ends the pages
ShowPages(c) ==
    LET r == reply[Main(c)] IN
        /\ Got(c, {"pages", "info"}) /\ r # "error"
        /\ \/ run[c].policy = "info" /\ run[c].part = 1 /\ Part(c)
           \/ /\ run[c].policy = "pages" \/ run[c].part = 2
              /\ \/ Returned(c, "SUCCESS")
                 \/ /\ r = "text" /\ run[c].got < MaxPages
                    /\ Again(c, [run[c] EXCEPT !.got = @ + 1])

\* the length in the header of a page is copied without a look at the reply:
\* a word in its place is a length beyond the buffer
ShowSysconfig(c) ==
    LET r == reply[Main(c)] IN
        /\ Got(c, {"sysconfig"}) /\ r # "error"
        /\ \/ r \in {"text", "empty"} /\ Returned(c, "SUCCESS")
           \/ /\ r = "text" /\ run[c].got < MaxPages
              /\ Again(c, [run[c] EXCEPT !.got = @ + 1, !.left = SysTry + 1])
           \/ /\ r \in {"Failed", "fail", "success"} /\ Ends(c, "crashed")
              /\ UNCHANGED <<run, result, limit, force>>

\* cmd_show_mac_stats: three parts, each tried until it is answered
ShowStats(c) ==
    LET r == reply[Main(c)] IN
        /\ Got(c, {"stats"})
        /\ LET k == run[c]
               no == r \in {"error", "Failed"}
               got == IF no THEN k.got ELSE k.got + 1 IN
           IF no /\ k.left > 1 THEN Again(c, [k EXCEPT !.left = @ - 1])
           ELSE IF k.part < 3
             THEN Again(c, [k EXCEPT !.part = @ + 1, !.got = got, !.left = StatsTry])
           ELSE Returned(c, IF got = 3 THEN "SUCCESS" ELSE "FAILURE")

(***************************************************************************)
(* cmd_show_signal: the number of stations first, then a page at a time,   *)
(* or the start or the stop of the reporter.                               *)
(***************************************************************************)
Counted(c, r) == r = "text" \/ (r = "error" /\ run[c].left = 1)

CountStations(c) ==
    LET r == reply[Main(c)] IN
        /\ Got(c, {"signal", "start", "stop"}) /\ run[c].part = 1
        /\ \/ r = "error" /\ run[c].left > 1 /\ Again(c, [run[c] EXCEPT !.left = @ - 1])
           \/ r = "unassociated" /\ Returned(c, "SUCCESS")
           \/ /\ run[c].policy = "signal" /\ Counted(c, r)
              /\ \/ Returned(c, IF r = "error" THEN "FAILURE" ELSE "SUCCESS")
                 \/ r = "text" /\ Part(c)
           \/ /\ run[c].policy = "start" /\ Counted(c, r)
              /\ \/ Reporting(c) /\ Returned(c, "FAILURE")
                 \/ /\ ~Reporting(c) /\ rep' = [rep EXCEPT ![c] = "num"]
                    /\ \E n \in 0..1 : limit' = [limit EXCEPT ![c] = n]
                    /\ Prompt(c, "SUCCESS") /\ UNCHANGED <<force, msg>>
           \/ /\ run[c].policy = "stop" /\ Counted(c, r)
              /\ \/ ~Reporting(c) /\ Returned(c, "FAILURE")
                 \/ Reporting(c) /\ Part(c)

SignalPage(c) ==
    LET r == reply[Main(c)] IN
        /\ Got(c, {"signal"}) /\ run[c].part = 2
        /\ \/ Returned(c, "SUCCESS")
           \/ /\ r # "unassociated" /\ run[c].got < MaxPages
              /\ Again(c, [run[c] EXCEPT !.got = @ + 1])

\* the reporter is told once it was seen to run, whatever has become of it
ForceStop(c) ==
    LET r == reply[Main(c)] IN
        /\ Got(c, {"stop"}) /\ run[c].part = 2
        /\ force' = [force EXCEPT ![c] = TRUE] /\ at' = [at EXCEPT ![c] = "stopping"]
        /\ run' = [run EXCEPT ![c].got = IF r = "error" THEN 0 ELSE 1]
        /\ UNCHANGED <<result, rep, limit, msg>>

Stopped(c) ==
    /\ at[c] = "stopping" /\ ~force[c] /\ Prompt(c, "SUCCESS")
    /\ UNCHANGED <<driver, msg, reply, history, rep, limit, force, cmds>>

(***************************************************************************)
(* showRxThreadRun: a round counts the stations, reads them, and sleeps;   *)
(* told to stop or after its last round it stops the monitor and ends.     *)
(***************************************************************************)
RepSend(c) ==
    /\ rep[c] \in {"num", "page", "stop"} /\ msg[Rep(c)] = None /\ reply[Rep(c)] = None
    /\ msg' = [msg EXCEPT ![Rep(c)] =
                    CASE rep[c] = "num" -> "NUM" [] rep[c] = "page" -> "PAGE" [] OTHER -> "STOP"]
    /\ UNCHANGED <<driver, reply, history, cli>>

RoundOver(c) ==
    /\ rep' = [rep EXCEPT ![c] = "nap"]
    /\ force' = [force EXCEPT ![c] = @ \/ limit[c] = 1] /\ UNCHANGED <<at, msg, limit>>

RepReply(c) ==
    /\ LET r == reply[Rep(c)] IN
        /\ r # None /\ reply' = [reply EXCEPT ![Rep(c)] = None]
        /\ \/ rep[c] = "num" /\ r = "error" /\ UNCHANGED <<at, rep, limit, force, msg>>
           \/ rep[c] \in {"num", "page"} /\ r = "unassociated" /\ Ends(c, "crashed")
              /\ UNCHANGED <<limit, force>>
           \/ rep[c] = "num" /\ r = "text" /\ RoundOver(c)
           \/ /\ rep[c] = "num" /\ r = "text" /\ rep' = [rep EXCEPT ![c] = "page"]
              /\ UNCHANGED <<at, limit, force, msg>>
           \/ rep[c] = "page" /\ r # "unassociated" /\ RoundOver(c)
           \/ /\ rep[c] = "stop"
              /\ rep' = [rep EXCEPT ![c] = IF r = "error" THEN "unheard" ELSE "off"]
              /\ limit' = [limit EXCEPT ![c] = 0] /\ force' = [force EXCEPT ![c] = FALSE]
              /\ UNCHANGED <<at, msg>>
    /\ UNCHANGED <<driver, history, run, result, cmds>>

\* Mutant: the reporter that is told to stop leaves the monitor to the other thread.
RepNapQuits(c) ==
    /\ rep[c] = "nap" /\ rep' = [rep EXCEPT ![c] = IF force[c] THEN "off" ELSE "num"]
    /\ force' = [force EXCEPT ![c] = FALSE] /\ limit' = [limit EXCEPT ![c] = 0]
    /\ UNCHANGED <<driver, msg, reply, history, run, result, at, cmds>>

RepNap(c) ==
    /\ rep[c] = "nap" /\ rep' = [rep EXCEPT ![c] = IF force[c] THEN "stop" ELSE "num"]
    /\ UNCHANGED <<driver, msg, reply, history, run, result, at, limit, force, cmds>>

(***************************************************************************)
(* A test agent sends a request and reads the reply.                       *)
(***************************************************************************)
AgentSend(a) ==
    /\ cmds[a] > 0 /\ cmds' = [cmds EXCEPT ![a] = @ - 1] /\ msg[a] = None
    /\ \E op \in Sendable : msg' = [msg EXCEPT ![a] = op]
    /\ UNCHANGED <<driver, reply, history, run, result, at, rep, limit, force>>

Handles(c) ==
    \/ Send(c) \/ RunShell(c) \/ PlainShell(c) \/ SetBaSent(c) \/ Resend(c) \/ ShowAp(c)
    \/ SetMaxAgg(c) \/ ShowPages(c) \/ ShowSysconfig(c) \/ ShowStats(c) \/ CountStations(c)
    \/ SignalPage(c) \/ ForceStop(c) \/ Stopped(c)

Reporter(c) == RepSend(c) \/ RepReply(c) \/ RepNap(c)

Kernel(t) == Handlers(t) /\ UNCHANGED cli

Next ==
    \/ \E c \in Clients : Type(c) \/ Handles(c) \/ Reporter(c)
    \/ \E a \in Agents : AgentSend(a)
    \/ \E t \in Threads : Kernel(t)
    \/ (Target \/ World) /\ UNCHANGED cli

(***************************************************************************)
(* The threads of the program, the handlers and the target make progress;  *)
(* the mutex, which one holds at a time, is fair to those that wait.       *)
(* Nobody has to type, the target need not be restarted or come back.      *)
(***************************************************************************)
Runs(t) ==
    ShellRefused(t) \/ ShellLeft(t) \/ ShellSend(t) \/ NotSent(t) \/ Reinit(t) \/ TimeOut(t) \/ RunSimple(t)
    \/ GetInfo(t) \/ DriverCmd(t) \/ Capi(t) \/ TestAgent(t) \/ MicScan(t)

Fairness ==
    /\ \A c \in Clients : WF_allvars(Handles(c)) /\ WF_allvars(Reporter(c))
    /\ \A c \in Clients : \A t \in {Main(c), Rep(c)} : SF_allvars(Enter(t) /\ UNCHANGED cli)
    /\ WF_allvars((\E t \in Threads : Runs(t)) /\ UNCHANGED cli)
    /\ WF_allvars((TargetRuns \/ Taken \/ Kept) /\ UNCHANGED cli)

Spec == InitCli /\ [][Next]_allvars /\ Fairness

-----------------------------------------------------------------------------
(* A command that is one shell command, was reported to have succeeded and *)
(* has met no answer that somebody gave up waiting for, was run by the     *)
(* target.                                                                 *)
OkMeansRun ==
    \A c \in Clients :
        result[c] = "SUCCESS" /\ run[c] # None /\ run[c].policy \in {"shell", "plain"}
        /\ stray \subseteq {Main(c)} => ran[Main(c)] >= 1

(* "show signal stop" that has stopped a reporter leaves the monitor of    *)
(* the driver off, unless the driver refused one of the two requests.      *)
StopSilences ==
    [][\A c \in Clients : Stopped(c) => ~monitor \/ run[c].got = 0 \/ rep[c] = "unheard"]_allvars

(* While the driver can be asked, every command comes to an end, unless    *)
(* "show signal stop" met a reporter that had just ended by its limit.     *)
Ready == drv # "DOWN" /\ link # "none"
Hung(c) == at[c] = "stopping" /\ force[c] /\ ~Reporting(c)
CliEnds ==
    <>[]Ready =>
        \A c \in Clients :
            at[c] \in {"call", "reply", "stopping"}
                ~> (at[c] \in {"prompt", "exited", "crashed"} \/ Hung(c))
=============================================================================
