------------------------------ MODULE Cli_proof ------------------------------
(* For any number of agents, commands, pages, tries and faults: no shell   *)
(* command finds the running state of an earlier one (Netlink!NeverStuck)  *)
(* unless an allocation has failed; a shell command that succeeded was run *)
(* by the target (Cli!OkMeansRun), both for any number of programs; and    *)
(* "show signal stop" leaves the monitor off (Cli!StopSilences), for one.  *)
EXTENDS Cli, TLAPS

Records == /\ msg = [t \in Threads |-> msg[t]] /\ reply = [t \in Threads |-> reply[t]]
           /\ at = [c \in Clients |-> at[c]] /\ genl \in Threads \cup {None}

\* The thread whose handler runs has a request; one that has a reply has none.
Held == genl # None => msg[genl] # None
Either == /\ \A t \in Threads : msg[t] = None \/ reply[t] = None
          /\ \A a \in Agents : reply[a] = None

\* A client that is not waiting for a reply is not in the driver.
Outside == \A c \in Clients : at[c] \in {"prompt", "call", "stopping"} =>
                msg[Main(c)] = None /\ reply[Main(c)] = None

\* The state is that of the shell command that has the mutex and waits.
Shell == shell = "RUNNING" /\ ~abandoned => genl # None /\ phase # "run" /\ msg[genl] \in Shells

IInv == Records /\ Held /\ Either /\ Outside /\ Shell

-----------------------------------------------------------------------------
LEMMA Threading ==
    /\ \A c \in Clients : Main(c) \in Threads /\ Rep(c) \in Threads
    /\ \A c, d \in Clients : Main(c) # Rep(d) /\ (Main(c) = Main(d) => c = d)
    /\ \A c \in Clients : Main(c) \notin Agents /\ Rep(c) \notin Agents
    /\ Agents \subseteq Threads /\ None \notin Threads
  BY CliAssumption, NetlinkAssumption DEF Main, Rep

LEMMA Initially == InitCli => IInv
  BY Threading DEF InitCli, Init, IInv, Records, Held, Either, Outside, Shell

-----------------------------------------------------------------------------
(* The driver.                                                             *)

\* A handler returns: then no state may be left.
LEMMA ReturnKeeps ==
    ASSUME IInv, NEW t \in Threads, NEW r, Return(t, r), msg[t] # None, UNCHANGED at,
           shell' = "RUNNING" => abandoned'
    PROVE  IInv'
  <1>1. /\ msg' = [u \in Threads |-> IF u = t THEN None ELSE msg[u]]
        /\ reply' = [u \in Threads |->
                        IF u = t THEN IF t \in Agents THEN None ELSE r ELSE reply[u]]
    BY DEF IInv, Records, Return
  <1>2. genl' = None
    BY DEF Return
  <1>3. Records' /\ Held' /\ Shell'
    BY <1>1, <1>2 DEF IInv, Records, Held, Shell
  <1>4. Either'
    BY <1>1, Threading DEF IInv, Either
  <1>5. Outside'
    BY <1>1, Threading DEF IInv, Outside
  <1> QED BY <1>3, <1>4, <1>5 DEF IInv

LEMMA HoldKeeps ==
    ASSUME IInv, UNCHANGED <<msg, reply, at, genl>>, Shell'
    PROVE  IInv'
  BY DEF IInv, Records, Held, Either, Outside

\* While its handler runs, nothing is left of another command.
LEMMA RunsAlone ==
    ASSUME IInv, NEW t \in Threads, NEW op, Handling(t, op)
    PROVE  msg[t] # None /\ t # None /\ msg[t] = op /\ (shell = "RUNNING" => abandoned)
  BY Threading DEF IInv, Held, Shell, Handling

LEMMA EnterKeeps ==
    ASSUME IInv, NEW t \in Threads, Enter(t), UNCHANGED at
    PROVE  IInv'
  <1>1. genl = None /\ msg[t] # None /\ genl' = t /\ UNCHANGED <<msg, reply, shell, abandoned>>
    BY DEF Enter
  <1> QED BY <1>1, Threading DEF IInv, Records, Held, Either, Outside, Shell

LEMMA BusyKeeps ==
    ASSUME IInv, NEW t \in Threads, Busy(t), UNCHANGED at
    PROVE  IInv'
  <1>1. genl = None /\ msg[t] # None /\ Return(t, "error") /\ UNCHANGED <<shell, abandoned>>
    BY DEF Busy
  <1>2. shell' = "RUNNING" => abandoned'
    BY <1>1 DEF IInv, Shell
  <1> QED BY <1>1, <1>2, ReturnKeeps

LEMMA SendsKeep ==
    ASSUME IInv, NEW t \in Threads, ShellSend(t) \/ Reinit(t) \/ MicScan(t), UNCHANGED at
    PROVE  IInv'
  <1>1. CASE ShellSend(t)
    <2>1. PICK kind \in Shells : Handling(t, kind) /\ Request(t, kind)
      BY <1>1 DEF ShellSend
    <2>2. /\ UNCHANGED <<msg, reply, genl>> /\ phase' = "sent"
      BY <1>1, <2>1 DEF ShellSend, Request
    <2>3. Shell'
      BY <2>1, <2>2, Threading DEF Shell, Handling
    <2> QED BY <2>2, <2>3, HoldKeeps
  <1>2. CASE Reinit(t)
    <2>1. UNCHANGED <<msg, reply, genl, shell, abandoned>> /\ phase = "sent" /\ phase' = "wait"
      BY <1>2 DEF Reinit
    <2>2. Shell'
      BY <2>1 DEF IInv, Shell
    <2> QED BY <2>1, <2>2, HoldKeeps
  <1>3. CASE MicScan(t)
    <2>1. Handling(t, "MIC") /\ UNCHANGED <<msg, reply, genl, shell, abandoned>>
      BY <1>3 DEF MicScan
    <2>2. shell = "RUNNING" => abandoned
      BY <2>1, RunsAlone
    <2>3. Shell'
      BY <2>1, <2>2 DEF Shell
    <2> QED BY <2>1, <2>3, HoldKeeps
  <1> QED BY <1>1, <1>2, <1>3

\* The handlers that return at once.
LEMMA RunsKeep ==
    ASSUME IInv, NEW t \in Threads, UNCHANGED at,
           ShellRefused(t) \/ ShellLeft(t) \/ NotSent(t) \/ RunSimple(t) \/ GetInfo(t)
           \/ DriverCmd(t) \/ Capi(t) \/ TestAgent(t) \/ MicNoMemory(t)
    PROVE  IInv'
  <1>1. SUFFICES ASSUME NEW op, Handling(t, op), NEW r, Return(t, r),
                        UNCHANGED <<shell, abandoned>> \/ abandoned'
                 PROVE  IInv'
    <2>1. CASE ShellRefused(t)
      BY <1>1, <2>1 DEF ShellRefused, Replied
    <2>2. CASE ShellLeft(t)
      BY <1>1, <2>2 DEF ShellLeft, Replied
    <2>3. CASE NotSent(t)
      BY <1>1, <2>3 DEF NotSent, Replied
    <2>4. CASE RunSimple(t)
      BY <1>1, <2>4 DEF RunSimple, Handler, Replied
    <2>5. CASE GetInfo(t)
      BY <1>1, <2>5 DEF GetInfo, Handler, Replied
    <2>6. CASE DriverCmd(t)
      BY <1>1, <2>6 DEF DriverCmd, Replied
    <2>7. CASE Capi(t)
      BY <1>1, <2>7 DEF Capi, Handler, Replied
    <2>8. CASE TestAgent(t)
      BY <1>1, <2>8 DEF TestAgent, Handler, Replied
    <2>9. CASE MicNoMemory(t)
      BY <1>1, <2>9 DEF MicNoMemory, Replied
    <2> QED BY <2>1, <2>2, <2>3, <2>4, <2>5, <2>6, <2>7, <2>8, <2>9
  <1>2. msg[t] # None /\ (shell' = "RUNNING" => abandoned')
    BY <1>1, RunsAlone
  <1> QED BY <1>1, <1>2, ReturnKeeps

\* A wait that ends, by the answer or without it.
LEMMA WaitEnds ==
    ASSUME IInv, NEW t \in Threads, genl = t, phase = "wait", NEW r, Return(t, r),
           shell' = Idle(msg[t]), UNCHANGED <<at, abandoned>>
    PROVE  IInv'
  <1>1. msg[t] # None
    BY Threading DEF IInv, Held
  <1>2. shell' = "RUNNING" => abandoned'
    BY Threading DEF IInv, Shell, Idle
  <1> QED BY <1>1, <1>2, ReturnKeeps

LEMMA TimeOutKeeps ==
    ASSUME IInv, NEW t \in Threads, TimeOut(t), UNCHANGED at
    PROVE  IInv'
  <1>1. /\ genl = t /\ phase = "wait" /\ Return(t, GivenUp(msg[t]))
        /\ shell' = Idle(msg[t]) /\ UNCHANGED abandoned
    BY DEF TimeOut, Replied
  <1> QED BY <1>1, WaitEnds

LEMMA TargetKeeps ==
    ASSUME IInv, Target, UNCHANGED at
    PROVE  IInv'
  <1>1. CASE Taken
    <2>1. PICK text \in Texts : Return(genl, text)
      BY <1>1 DEF Taken, Replied
    <2>2. /\ genl # None /\ phase = "wait" /\ msg[genl] = Head(target).kind
          /\ shell' = Idle(Head(target).kind) /\ UNCHANGED abandoned
      BY <1>1 DEF Taken, Waits
    <2>3. genl \in Threads
      BY <2>2 DEF IInv, Records
    <2> QED BY <2>1, <2>2, <2>3, WaitEnds
  <1>2. CASE TargetRuns \/ Kept \/ Lost
    <2>1. UNCHANGED <<msg, reply, genl, phase, shell, abandoned>>
      BY <1>2 DEF TargetRuns, Kept, Lost
    <2>2. Shell'
      BY <2>1 DEF IInv, Shell
    <2> QED BY <2>1, <2>2, HoldKeeps
  <1> QED BY <1>1, <1>2 DEF Target

LEMMA WorldKeeps ==
    ASSUME IInv, World, UNCHANGED at
    PROVE  IInv'
  <1>1. UNCHANGED <<msg, reply, genl, phase, shell, abandoned>>
    BY DEF World, Down, Up, Sleeps, Relink, waiting
  <1>2. Shell'
    BY <1>1 DEF IInv, Shell
  <1> QED BY <1>1, <1>2, HoldKeeps

LEMMA KernelKeeps ==
    ASSUME IInv, NEW t \in Threads, Kernel(t)
    PROVE  IInv'
  <1>1. UNCHANGED at
    BY DEF Kernel, cli
  <1> QED BY <1>1, EnterKeeps, BusyKeeps, RunsKeep, SendsKeep, TimeOutKeeps DEF Kernel, Handlers

-----------------------------------------------------------------------------
(* The program.                                                            *)

\* Nothing a client does touches the state of the driver; what it does to its
\* requests must leave alone the one whose handler runs.
LEMMA ClientKeeps ==
    ASSUME IInv, UNCHANGED driver, Records', Either', Outside',
           genl # None => msg'[genl] = msg[genl]
    PROVE  IInv'
  <1>1. UNCHANGED <<genl, phase, shell, abandoned>>
    BY DEF driver, waiting
  <1> QED BY <1>1 DEF IInv, Held, Shell

LEMMA EndsKeeps ==
    ASSUME IInv, NEW c \in Clients, NEW how \in {"exited", "crashed"}, Ends(c, how),
           UNCHANGED driver, UNCHANGED reply \/ reply' = [reply EXCEPT ![Main(c)] = None]
                                             \/ reply' = [reply EXCEPT ![Rep(c)] = None]
    PROVE  IInv'
  <1>1. /\ Main(c) \in Threads /\ Rep(c) \in Threads
        /\ \A d \in Clients : Main(d) \in Threads
    BY Threading
  <1>2. at' = [d \in Clients |-> IF d = c THEN how ELSE at[d]]
    BY DEF IInv, Records, Ends
  <1>3. msg' = [t \in Threads |->
                  IF t \in {Main(c), Rep(c)} /\ genl # t THEN None ELSE msg[t]]
    BY <1>1 DEF IInv, Records, Ends
  <1>4. /\ reply' = [t \in Threads |-> reply'[t]]
        /\ \A t \in Threads : reply'[t] \in {None, reply[t]}
    BY <1>1 DEF IInv, Records
  <1>5. Records'
    <2>1. UNCHANGED genl
      BY DEF driver, waiting
    <2> QED BY <1>2, <1>3, <1>4, <2>1 DEF IInv, Records
  <1>6. Either'
    BY <1>3, <1>4, Threading DEF IInv, Either
  <1>7. Outside'
    BY <1>1, <1>2, <1>3, <1>4 DEF IInv, Outside
  <1>8. genl # None => msg'[genl] = msg[genl]
    BY <1>3 DEF IInv, Records
  <1> QED BY <1>5, <1>6, <1>7, <1>8, ClientKeeps

\* A reply is read, and the client goes elsewhere.
LEMMA GotKeeps ==
    ASSUME IInv, NEW c \in Clients, NEW policies, Got(c, policies), UNCHANGED msg,
           NEW p, at' = [at EXCEPT ![c] = p]
    PROVE  IInv'
  <1>1. reply[Main(c)] # None /\ reply' = [reply EXCEPT ![Main(c)] = None] /\ UNCHANGED driver
    BY DEF Got
  <1>2. /\ at' = [d \in Clients |-> IF d = c THEN p ELSE at[d]]
        /\ reply' = [t \in Threads |-> IF t = Main(c) THEN None ELSE reply[t]]
    BY <1>1 DEF IInv, Records
  <1>3. msg[Main(c)] = None /\ Main(c) \in Threads
    BY <1>1, Threading DEF IInv, Either
  <1>4. Records'
    <2>1. UNCHANGED genl
      BY <1>1 DEF driver, waiting
    <2> QED BY <1>2, <2>1 DEF IInv, Records
  <1>5. Either' /\ Outside'
    BY <1>2, <1>3, Threading DEF IInv, Either, Outside
  <1> QED BY <1>1, <1>4, <1>5, ClientKeeps

\* All that a handler does with a reply: it sends again or returns.
LEMMA ReadKeeps ==
    ASSUME IInv, NEW c \in Clients, \E policies : Got(c, policies),
           (\E k : Again(c, k)) \/ (\E ret : Returned(c, ret))
    PROVE  IInv'
  <1>1. PICK policies : Got(c, policies)
    OBVIOUS
  <1>2. UNCHANGED msg /\ \E p : at' = [at EXCEPT ![c] = p]
    BY DEF Returned, Again, Prompt
  <1>3. PICK p : at' = [at EXCEPT ![c] = p]
    BY <1>2
  <1> QED BY <1>1, <1>2, <1>3, GotKeeps

LEMMA RunsShell ==
    ASSUME IInv, NEW c \in Clients,
           RunShell(c) \/ PlainShell(c) \/ SetBaSent(c) \/ ShowAp(c) \/ SetMaxAgg(c)
    PROVE  IInv'
  <1>1. (\E policies : Got(c, policies)) /\ \E ret : Returned(c, ret)
    BY Zenon DEF RunShell, PlainShell, SetBaSent, ShowAp, SetMaxAgg
  <1>2. \E policies : Got(c, policies)
    BY <1>1
  <1> QED BY <1>1, <1>2, ReadKeeps

LEMMA ShowsPages ==
    ASSUME IInv, NEW c \in Clients, ShowPages(c) \/ SignalPage(c)
    PROVE  IInv'
  <1>1. \E policies : Got(c, policies)
    BY Zenon DEF ShowPages, SignalPage
  <1>2. (\E k : Again(c, k)) \/ \E ret : Returned(c, ret)
    BY Zenon DEF ShowPages, SignalPage, Part
  <1> QED BY <1>1, <1>2, ReadKeeps

LEMMA RetriesKeep ==
    ASSUME IInv, NEW c \in Clients, Resend(c) \/ ShowStats(c)
    PROVE  IInv'
  <1>1. \E policies : Got(c, policies)
    BY Zenon DEF Resend, ShowStats
  <1>2. (\E k : Again(c, k)) \/ \E ret : Returned(c, ret)
    BY Zenon DEF Resend, ShowStats
  <1> QED BY <1>1, <1>2, ReadKeeps

LEMMA ShowSysconfigKeeps ==
    ASSUME IInv, NEW c \in Clients, ShowSysconfig(c)
    PROVE  IInv'
  <1>1. CASE Ends(c, "crashed")
    <2>1. UNCHANGED driver /\ reply' = [reply EXCEPT ![Main(c)] = None]
      BY DEF ShowSysconfig, Got
    <2> QED BY <1>1, <2>1, EndsKeeps
  <1>2. CASE ~Ends(c, "crashed")
    <2>1. (\E k : Again(c, k)) \/ \E ret : Returned(c, ret)
      BY <1>2, Zenon DEF ShowSysconfig
    <2>2. \E policies : Got(c, policies)
      BY DEF ShowSysconfig
    <2> QED BY <2>1, <2>2, ReadKeeps
  <1> QED BY <1>1, <1>2

LEMMA ShowSignalKeeps ==
    ASSUME IInv, NEW c \in Clients, CountStations(c) \/ ForceStop(c)
    PROVE  IInv'
  <1>1. CASE CountStations(c)
    <2>1. \E policies : Got(c, policies)
      BY <1>1, Zenon DEF CountStations
    <2>2. CASE \E ret : Prompt(c, ret) /\ UNCHANGED msg
      BY <2>1, <2>2, GotKeeps DEF Prompt
    <2>3. CASE ~\E ret : Prompt(c, ret) /\ UNCHANGED msg
      <3>1. (\E k : Again(c, k)) \/ (\E ret : Returned(c, ret))
        BY <1>1, <2>3, ZenonT(60) DEF CountStations, Part
      <3> QED BY <2>1, <3>1, ReadKeeps
    <2> QED BY <2>2, <2>3
  <1>2. CASE ForceStop(c)
    BY <1>2, GotKeeps DEF ForceStop
  <1> QED BY <1>1, <1>2

\* A client goes to a place where it still has no request.
LEMMA GoesKeeps ==
    ASSUME IInv, NEW c \in Clients, at[c] \in {"prompt", "stopping"}, UNCHANGED driver,
           UNCHANGED <<msg, reply>>, NEW p, at' = [at EXCEPT ![c] = p]
    PROVE  IInv'
  <1>1. at' = [d \in Clients |-> IF d = c THEN p ELSE at[d]]
    BY DEF IInv, Records
  <1>2. UNCHANGED genl
    BY DEF driver, waiting
  <1> QED BY <1>1, <1>2, ClientKeeps DEF IInv, Records, Either, Outside

LEMMA SendKeeps ==
    ASSUME IInv, NEW c \in Clients, Send(c)
    PROVE  IInv'
  <1> DEFINE op == Op(run[c].policy, run[c].part)
  <1>1. /\ Main(c) \in Threads /\ Main(c) \notin Agents
        /\ \A d \in Clients : d # c => Main(d) # Main(c)
    BY Threading
  <1>2. msg' = [t \in Threads |-> IF t = Main(c) THEN op ELSE msg[t]]
    BY <1>1 DEF Send, IInv, Records
  <1>3. at' = [d \in Clients |-> IF d = c THEN "reply" ELSE at[d]]
    BY DEF Send, IInv, Records
  <1>4. UNCHANGED driver /\ UNCHANGED genl /\ UNCHANGED reply
    BY DEF Send, driver, waiting
  <1>5. msg[Main(c)] = None /\ reply[Main(c)] = None
    BY DEF Send, IInv, Outside
  <1>6. genl # None => msg'[genl] = msg[genl]
    BY <1>2, <1>5 DEF IInv, Records, Held
  <1>7. Records'
    BY <1>2, <1>3, <1>4 DEF IInv, Records
  <1>8. Either'
    BY <1>1, <1>2, <1>4, <1>5 DEF IInv, Either
  <1>9. Outside'
    BY <1>1, <1>2, <1>3, <1>4, Threading DEF IInv, Outside
  <1> QED BY <1>4, <1>6, <1>7, <1>8, <1>9, ClientKeeps

LEMMA HandlesKeep ==
    ASSUME IInv, NEW c \in Clients, Handles(c)
    PROVE  IInv'
  <1>1. CASE Stopped(c)
    BY <1>1, GoesKeeps DEF Stopped, Prompt
  <1> QED BY <1>1, SendKeeps, RunsShell, RetriesKeep, ShowsPages, ShowSysconfigKeeps,
             ShowSignalKeeps DEF Handles

LEMMA TypeKeeps ==
    ASSUME IInv, NEW c \in Clients, Type(c)
    PROVE  IInv'
  <1>1. at[c] = "prompt" /\ UNCHANGED driver /\ UNCHANGED reply
    BY DEF Type
  <1>2. CASE \E how \in {"exited", "crashed"} : Ends(c, how)
    BY <1>1, <1>2, EndsKeeps
  <1>3. CASE ~\E how \in {"exited", "crashed"} : Ends(c, how)
    <2>1. UNCHANGED msg /\ (UNCHANGED at \/ at' = [at EXCEPT ![c] = "call"])
      BY <1>3 DEF Type
    <2>2. at = [at EXCEPT ![c] = at[c]]
      BY DEF IInv, Records
    <2>3. \E p : at' = [at EXCEPT ![c] = p]
      BY <2>1, <2>2
    <2> QED BY <1>1, <2>1, <2>3, GoesKeeps
  <1> QED BY <1>2, <1>3

-----------------------------------------------------------------------------
(* The reporter and the agents.                                            *)

\* A thread that is nobody's main thread sends.
LEMMA AsksKeeps ==
    ASSUME IInv, NEW t \in Threads, \A c \in Clients : t # Main(c), msg[t] = None,
           reply[t] = None, NEW op, msg' = [msg EXCEPT ![t] = op],
           UNCHANGED driver, UNCHANGED <<reply, at>>
    PROVE  IInv'
  <1>1. msg' = [u \in Threads |-> IF u = t THEN op ELSE msg[u]]
    BY DEF IInv, Records
  <1>2. UNCHANGED genl
    BY DEF driver, waiting
  <1>3. Records' /\ Either' /\ Outside'
    BY <1>1, <1>2, Threading DEF IInv, Records, Either, Outside
  <1>4. genl # None => msg'[genl] = msg[genl]
    BY <1>1 DEF IInv, Records, Held
  <1> QED BY <1>3, <1>4, ClientKeeps

LEMMA AgentSendKeeps ==
    ASSUME IInv, NEW a \in Agents, AgentSend(a)
    PROVE  IInv'
  <1>1. PICK op \in Sendable : msg' = [msg EXCEPT ![a] = op]
    BY DEF AgentSend
  <1>2. msg[a] = None /\ UNCHANGED driver /\ UNCHANGED <<reply, at>>
    BY DEF AgentSend
  <1>3. a \in Threads /\ reply[a] = None /\ \A c \in Clients : a # Main(c)
    BY Threading DEF IInv, Either
  <1> QED BY <1>1, <1>2, <1>3, AsksKeeps

LEMMA ReporterKeeps ==
    ASSUME IInv, NEW c \in Clients, Reporter(c)
    PROVE  IInv'
  <1>1. CASE RepSend(c)
    <2>1. /\ msg[Rep(c)] = None /\ reply[Rep(c)] = None
          /\ UNCHANGED driver /\ UNCHANGED <<reply, at>>
          /\ \E op : msg' = [msg EXCEPT ![Rep(c)] = op]
      BY <1>1 DEF RepSend, cli
    <2> QED BY <2>1, Threading, AsksKeeps
  <1>2. CASE RepReply(c)
    <2>1. UNCHANGED driver /\ reply' = [reply EXCEPT ![Rep(c)] = None]
      BY <1>2 DEF RepReply
    <2>2. CASE Ends(c, "crashed")
      BY <2>1, <2>2, EndsKeeps
    <2>3. CASE ~Ends(c, "crashed")
      <3>1. UNCHANGED <<at, msg>>
        BY <1>2, <2>3 DEF RepReply, RoundOver
      <3>2. reply' = [t \in Threads |-> IF t = Rep(c) THEN None ELSE reply[t]]
        BY <2>1 DEF IInv, Records
      <3>3. UNCHANGED genl
        BY <2>1 DEF driver, waiting
      <3>4. Records' /\ Either' /\ Outside'
        BY <3>1, <3>2, <3>3, Threading DEF IInv, Records, Either, Outside
      <3> QED BY <2>1, <3>1, <3>4, ClientKeeps
    <2> QED BY <2>2, <2>3
  <1>3. CASE RepNap(c)
    <2>1. UNCHANGED driver /\ UNCHANGED <<msg, reply, at>>
      BY <1>3 DEF RepNap
    <2>2. UNCHANGED genl
      BY <2>1 DEF driver, waiting
    <2> QED BY <2>1, <2>2, ClientKeeps DEF IInv, Records, Either, Outside
  <1> QED BY <1>1, <1>2, <1>3 DEF Reporter

-----------------------------------------------------------------------------
LEMMA StepKeeps ==
    ASSUME IInv, [Next]_allvars
    PROVE  IInv'
  <1>1. CASE \E c \in Clients : Type(c) \/ Handles(c) \/ Reporter(c)
    BY <1>1, TypeKeeps, HandlesKeep, ReporterKeeps
  <1>2. CASE \E a \in Agents : AgentSend(a)
    BY <1>2, AgentSendKeeps
  <1>3. CASE \E t \in Threads : Kernel(t)
    BY <1>3, KernelKeeps
  <1>4. CASE (Target \/ World) /\ UNCHANGED cli
    BY <1>4, TargetKeeps, WorldKeeps DEF cli
  <1>5. CASE UNCHANGED allvars
    <2>1. UNCHANGED <<msg, reply, at, genl, phase, shell, abandoned>>
      BY <1>5 DEF allvars, vars, waiting, cli
    <2> QED BY <2>1, HoldKeeps DEF IInv, Shell
  <1> QED BY <1>1, <1>2, <1>3, <1>4, <1>5 DEF Next

\* A shell command finds the state of an earlier one only after an allocation
\* has failed, in every order of requests, answers, time-outs and restarts.
THEOREM SpecNeverStuck == Spec => []NeverStuck
  <1>1. IInv /\ [Next]_allvars => IInv'
    BY StepKeeps
  <1>2. IInv => NeverStuck
    BY DEF IInv, Shell, NeverStuck
  <1> QED BY Initially, <1>1, <1>2, PTL DEF Spec

-----------------------------------------------------------------------------
(* A reported success was earned (Cli!OkMeansRun).                         *)

Jobs == [policy : Policies, part : Nat, got : Nat, left : Int, tries : Int]
Entries == [t : Threads, id : Nat, kind : Kinds, answered : BOOLEAN]
Working == {"call", "reply", "stopping"}

RunTypes ==
    /\ run \in [Clients -> Jobs \cup {None}] /\ result = [c \in Clients |-> result[c]]
    /\ \A c \in Clients : at[c] \in Working => run[c] \in Jobs /\ result[c] # "SUCCESS"
    /\ \A c \in Clients : at[c] = "stopping" => run[c].policy = "stop"
    /\ ran \in [Threads -> Nat] /\ serial \in [Threads -> Nat] /\ target \in Seq(Entries)

\* The last command of the target is the one that a handler waits for.
Awaited(i) == /\ i = Len(target) /\ phase # "run"
              /\ genl = target[i].t /\ target[i].id = serial[target[i].t]

\* A command of what the program is doing now.
Own(c, i) == target[i].t = Main(c) /\ target[i].id = serial[Main(c)]

\* The answers that a program can meet are those of commands that were run.
Fed(c) == stray \subseteq {Main(c)} => ran[Main(c)] >= 1

\* What the target has is waited for, or a stray.
Traces ==
    /\ stray = {} => \A i \in DOMAIN target : Awaited(i)
    /\ \A c \in Clients : ~Fed(c) => \A i \in DOMAIN target : Own(c, i) \/ Awaited(i)
    /\ \A c \in Clients : \A i \in DOMAIN target :
          Own(c, i) /\ target[i].answered => ran[Main(c)] >= 1
    /\ \A i \in DOMAIN target : target[i].id <= serial[target[i].t]

\* A handler that sends one shell command has sent that one, and takes for an
\* answer only what the target said.
Answers ==
    /\ \A c \in Clients : msg[Main(c)] = "SIMPLE" => msg[Main(c)] = None
    /\ \A c \in Clients : run[c].policy \in {"shell", "plain"} =>
          /\ at[c] = "reply" /\ msg[Main(c)] # None => msg[Main(c)] = "SHELL"
          /\ at[c] = "reply" /\ reply[Main(c)] \notin {None, "error", "Failed"} => Fed(c)
          /\ run[c] # None /\ result[c] = "SUCCESS" => Fed(c)

AInv == RunTypes /\ Traces /\ Answers

-----------------------------------------------------------------------------
LEMMA Tasks ==
    ASSUME NEW p, NEW i
    PROVE  /\ Op(p, i) \in {"SHELL", "RAW", "DRIVER", "CAPI", "NUM", "PAGE", "STOP"}
           /\ p \in {"shell", "plain"} => Op(p, i) = "SHELL"
  BY DEF Op

LEMMA JobsBegun ==
    ASSUME NEW p \in Policies, NEW n \in Int
    PROVE  Begun(p, n) \in Jobs /\ Begun(p, n).policy = p
  <1>1. Resends(p) \in Int
    BY CliAssumption DEF Resends
  <1> QED BY <1>1 DEF Begun, Jobs

LEMMA AInitially == InitCli => AInv
  <1> SUFFICES ASSUME InitCli PROVE AInv
    OBVIOUS
  <1> USE Threading, CliAssumption
  <1>1. /\ target = <<>> /\ \A c \in Clients : run[c] = None /\ at[c] = "prompt"
        /\ \A t \in Threads : msg[t] = None
        /\ result = [c \in Clients |-> None] /\ run = result
        /\ serial = [t \in Threads |-> 0] /\ ran = serial
    BY DEF InitCli, Init
  <1>2. RunTypes
    <2>1. target \in Seq(Entries)
      BY <1>1
    <2>2. /\ run \in [Clients -> Jobs \cup {None}] /\ result = [c \in Clients |-> result[c]]
          /\ \A c \in Clients : at[c] \notin Working
      BY <1>1 DEF Working
    <2>3. ran \in [Threads -> Nat] /\ serial \in [Threads -> Nat]
      BY <1>1
    <2> QED BY <2>1, <2>2, <2>3 DEF RunTypes, Working
  <1>3. Traces
    BY <1>1 DEF Traces
  <1>4. Answers
    BY <1>1 DEF Answers
  <1> QED BY <1>2, <1>3, <1>4 DEF AInv

\* What was earned stays earned while the answers only become less certain.
LEMMA FedKept ==
    ASSUME NEW c \in Clients, Fed(c), RunTypes, RunTypes', stray \subseteq stray',
           \A t \in Threads : ran'[t] >= ran[t]
    PROVE  Fed(c)'
  <1>1. ran[Main(c)] \in Nat /\ ran'[Main(c)] \in Nat /\ ran'[Main(c)] >= ran[Main(c)]
    BY Threading DEF RunTypes
  <1> QED BY <1>1 DEF Fed

LEMMA EntryTypes ==
    ASSUME AInv
    PROVE  /\ target \in Seq(Entries) /\ Len(target) \in Nat /\ DOMAIN target = 1 .. Len(target)
           /\ \A i \in DOMAIN target : target[i] \in Entries
  <1>1. target \in Seq(Entries)
    BY DEF AInv, RunTypes
  <1> QED BY <1>1

\* Steps that leave the shell commands alone.
LEMMA TracesKept ==
    ASSUME AInv, UNCHANGED <<target, genl, phase, serial, ran, stray>>
    PROVE  Traces'
  BY DEF AInv, Traces, Fed, Own, Awaited

\* A handler that does not wait returns, or the mutex changes hands.
LEMMA TracesIdle ==
    ASSUME AInv, phase = "run" \/ genl = None, UNCHANGED <<target, serial>>, RunTypes',
           stray \subseteq stray', \A t \in Threads : ran'[t] >= ran[t]
    PROVE  Traces'
  <1>1. \A i \in DOMAIN target : target[i].t \in Threads
    BY EntryTypes DEF Entries
  <1>2. \A i \in DOMAIN target : ~Awaited(i)
    BY <1>1, Threading DEF Awaited
  <1>3. stray' = {} => stray = {}
    OBVIOUS
  <1>4. \A c \in Clients : ~Fed(c)' => ~Fed(c)
    BY FedKept DEF AInv
  <1>5. \A c \in Clients : /\ ran'[Main(c)] >= ran[Main(c)]
                           /\ ran[Main(c)] \in Nat /\ ran'[Main(c)] \in Nat
    BY Threading DEF AInv, RunTypes
  <1>6. \A c \in Clients : \A i \in DOMAIN target : Own(c, i)' = Own(c, i)
    BY DEF Own
  <1>7. /\ stray' = {} => \A i \in DOMAIN target' : Awaited(i)'
        /\ \A c \in Clients : ~Fed(c)' => \A i \in DOMAIN target' : Own(c, i)' \/ Awaited(i)'
    BY <1>2, <1>3, <1>4, <1>6 DEF AInv, Traces
  <1>8. \A c \in Clients : \A i \in DOMAIN target' :
            Own(c, i)' /\ target'[i].answered => ran'[Main(c)] >= 1
    BY <1>5, <1>6 DEF AInv, Traces
  <1>9. \A i \in DOMAIN target' : target'[i].id <= serial'[target'[i].t]
    BY DEF AInv, Traces
  <1> QED BY <1>7, <1>8, <1>9 DEF Traces

LEMMA TracesSent ==
    ASSUME AInv, RunTypes', NEW t \in Threads, NEW kind \in Kinds, Request(t, kind), genl = t,
           phase = "run", UNCHANGED <<genl, serial, ran, stray>>
    PROVE  Traces'
  <1> DEFINE w == [t |-> t, id |-> serial[t], kind |-> kind, answered |-> FALSE]
  <1> PICK n \in Nat : n = Len(target) + 1
    BY EntryTypes
  <1>1. target' = Append(target, w) /\ phase' = "sent" /\ w \in Entries
    BY DEF Request, AInv, RunTypes, Entries
  <1>2. /\ DOMAIN target' = (DOMAIN target) \cup {n} /\ target'[n] = w /\ Len(target') = n
        /\ \A i \in DOMAIN target : target'[i] = target[i] /\ i # n
    BY <1>1, EntryTypes
  <1>3. Awaited(n)'
    BY <1>1, <1>2 DEF Awaited
  <1>4. \A i \in DOMAIN target : ~Awaited(i)
    BY DEF Awaited
  <1>5. \A c \in Clients : Fed(c)' = Fed(c)
    BY DEF Fed
  <1>6. \A c \in Clients : \A i \in DOMAIN target : Own(c, i)' = Own(c, i)
    BY <1>2 DEF Own
  <1>7. \A c \in Clients : ~Fed(c)' => \A i \in DOMAIN target' : Own(c, i)' \/ Awaited(i)'
    BY <1>2, <1>3, <1>4, <1>5, <1>6 DEF AInv, Traces
  <1>8. stray' = {} => \A i \in DOMAIN target' : Awaited(i)'
    BY <1>2, <1>3, <1>4 DEF AInv, Traces
  <1>9. \A c \in Clients : \A i \in DOMAIN target' :
            Own(c, i)' /\ target'[i].answered => ran'[Main(c)] >= 1
    BY <1>2, <1>6 DEF AInv, Traces
  <1>10. \A i \in DOMAIN target' : target'[i].id <= serial'[target'[i].t]
    BY <1>2 DEF AInv, Traces, RunTypes
  <1> QED BY <1>7, <1>8, <1>9, <1>10 DEF Traces

\* The first command of the target leaves it, when it is the one waited for, or
\* when nobody waits for it.
LEMMA TracesTail ==
    ASSUME AInv, RunTypes', target # <<>>, target' = Tail(target), UNCHANGED <<serial, ran, stray>>,
           UNCHANGED <<genl, phase>> \/ Head(target).answered
    PROVE  Traces'
  <1>1. /\ DOMAIN target' = 1 .. (Len(target) - 1) /\ Len(target') = Len(target) - 1
        /\ \A i \in DOMAIN target' : target'[i] = target[i + 1] /\ i + 1 \in DOMAIN target
        /\ 1 \in DOMAIN target /\ Head(target) = target[1] /\ \A i \in DOMAIN target' : i \in Nat
    BY EntryTypes
  <1>2. \A c \in Clients : Fed(c)' = Fed(c)
    BY DEF Fed
  <1>3. \A c \in Clients : \A i \in DOMAIN target' : Own(c, i)' = Own(c, i + 1)
    BY <1>1 DEF Own
  <1>4. UNCHANGED <<genl, phase>> => \A i \in DOMAIN target' : Awaited(i)' = Awaited(i + 1)
    BY <1>1, EntryTypes DEF Awaited
  <1>5. ASSUME Awaited(1) PROVE \A i \in DOMAIN target' : FALSE
    <2>1. Len(target) = 1
      BY <1>5 DEF Awaited
    <2> QED BY <1>1, <2>1
  <1>6. stray' = {} => \A i \in DOMAIN target' : Awaited(i)'
    BY <1>1, <1>4, <1>5 DEF AInv, Traces
  <1>7. \A c \in Clients : ~Fed(c)' => \A i \in DOMAIN target' : Own(c, i)' \/ Awaited(i)'
    <2> SUFFICES ASSUME NEW c \in Clients, ~Fed(c), NEW i \in DOMAIN target'
                 PROVE  Own(c, i)' \/ Awaited(i)'
      BY <1>2
    <2>1. Own(c, 1) \/ Awaited(1)
      BY <1>1 DEF AInv, Traces
    <2>2. Own(c, i + 1) \/ Awaited(i + 1)
      BY <1>1 DEF AInv, Traces
    <2>3. ~Awaited(1)
      BY <1>5
    <2>4. Head(target).answered => Fed(c)
      BY <1>1, <2>1, <2>3 DEF AInv, Traces, Fed
    <2> QED BY <1>3, <1>4, <2>2, <2>4
  <1>8. \A c \in Clients : \A i \in DOMAIN target' :
            Own(c, i)' /\ target'[i].answered => ran'[Main(c)] >= 1
    BY <1>1, <1>3 DEF AInv, Traces
  <1>9. \A i \in DOMAIN target' : target'[i].id <= serial'[target'[i].t]
    BY <1>1 DEF AInv, Traces
  <1> QED BY <1>6, <1>7, <1>8, <1>9 DEF Traces

LEMMA TracesRuns ==
    ASSUME AInv, RunTypes', TargetRuns
    PROVE  Traces'
  <1> DEFINE w == target[1]
             u == [w EXCEPT !.answered = TRUE]
  <1>1. /\ 1 \in DOMAIN target /\ w \in Entries /\ w.t \in Threads /\ target # <<>>
        /\ target' = <<u>> \o Tail(target)
        /\ ran' = [ran EXCEPT ![w.t] = IF serial[w.t] = w.id THEN @ + 1 ELSE @]
        /\ UNCHANGED <<genl, phase, serial, stray>>
    <2>1. target # <<>> /\ Head(target) = target[1] /\ 1 \in DOMAIN target
      BY EntryTypes DEF TargetRuns, Awake
    <2>2. w \in Entries /\ w.t \in Threads
      BY <2>1, EntryTypes DEF Entries
    <2> QED BY <2>1, <2>2 DEF TargetRuns
  <1>2. u.t = w.t /\ u.id = w.id /\ u.kind = w.kind
    BY <1>1 DEF Entries
  <1>3. /\ DOMAIN target' = DOMAIN target /\ Len(target') = Len(target) /\ target'[1] = u
        /\ \A i \in DOMAIN target : i # 1 => target'[i] = target[i]
    BY <1>1, EntryTypes
  <1>4. \A t \in Threads : /\ ran[t] \in Nat
                           /\ ran'[t] = IF t = w.t /\ serial[t] = w.id THEN ran[t] + 1 ELSE ran[t]
    BY <1>1 DEF AInv, RunTypes
  <1>5. \A i \in DOMAIN target : /\ target'[i].t = target[i].t /\ target'[i].id = target[i].id
                                 /\ i # 1 => target'[i].answered = target[i].answered
    BY <1>2, <1>3
  <1>6. \A i \in DOMAIN target : Awaited(i)' = Awaited(i)
    BY <1>1, <1>3, <1>5 DEF Awaited
  <1>7. \A c \in Clients : \A i \in DOMAIN target : Own(c, i)' = Own(c, i)
    BY <1>1, <1>5 DEF Own
  <1>8. \A c \in Clients : ~Fed(c)' => ~Fed(c)
    BY <1>1, <1>4, FedKept DEF AInv
  <1>9. /\ stray' = {} => \A i \in DOMAIN target' : Awaited(i)'
        /\ \A c \in Clients : ~Fed(c)' => \A i \in DOMAIN target' : Own(c, i)' \/ Awaited(i)'
    BY <1>1, <1>3, <1>6, <1>7, <1>8 DEF AInv, Traces
  <1>10. \A c \in Clients : \A i \in DOMAIN target' :
            Own(c, i)' /\ target'[i].answered => ran'[Main(c)] >= 1
    <2> SUFFICES ASSUME NEW c \in Clients, NEW i \in DOMAIN target, Own(c, i), target'[i].answered
                 PROVE  ran'[Main(c)] >= 1
      BY <1>3, <1>7
    <2>1. CASE i = 1
      BY <1>4, <2>1, Threading DEF Own
    <2>2. CASE i # 1
      BY <1>4, <1>5, <2>2, Threading DEF AInv, Traces
    <2> QED BY <2>1, <2>2
  <1>11. \A i \in DOMAIN target' : target'[i].id <= serial'[target'[i].t]
    BY <1>1, <1>3, <1>5 DEF AInv, Traces
  <1> QED BY <1>9, <1>10, <1>11 DEF Traces

\* A wait ends without an answer: what is left of it is a stray.
LEMMA TracesTimeOut ==
    ASSUME AInv, RunTypes', NEW t \in Threads, genl = t, Strays(t), genl' = None,
           UNCHANGED <<target, serial, ran>>
    PROVE  Traces'
  <1> USE Threading
  <1>1. stray' # {} /\ stray \subseteq stray'
    BY DEF Strays
  <1>2. \A c \in Clients : ~Fed(c)' => ~Fed(c) /\ t = Main(c)
    BY <1>1 DEF Fed, Strays
  <1>3. \A c \in Clients : \A i \in DOMAIN target : Own(c, i)' = Own(c, i)
    BY DEF Own
  <1>4. \A c \in Clients : ~Fed(c)' => \A i \in DOMAIN target' : Own(c, i)' \/ Awaited(i)'
    <2> SUFFICES ASSUME NEW c \in Clients, ~Fed(c)', NEW i \in DOMAIN target
                 PROVE  Own(c, i)'
      OBVIOUS
    <2>1. Own(c, i) \/ Awaited(i)
      BY <1>2 DEF AInv, Traces
    <2>2. Awaited(i) => Own(c, i)
      BY <1>2 DEF Awaited, Own
    <2> QED BY <1>3, <2>1, <2>2
  <1>5. \A c \in Clients : \A i \in DOMAIN target' :
            Own(c, i)' /\ target'[i].answered => ran'[Main(c)] >= 1
    BY <1>3 DEF AInv, Traces
  <1>6. \A i \in DOMAIN target' : target'[i].id <= serial'[target'[i].t]
    BY DEF AInv, Traces
  <1> QED BY <1>1, <1>4, <1>5, <1>6 DEF Traces

\* A shell command that nobody waits for: no program sends one.
LEMMA TracesSimple ==
    ASSUME IInv, AInv, RunTypes', NEW t \in Threads, genl = t, msg[t] = "SIMPLE", Strays(t),
           target' = Append(target, [t |-> t, id |-> 0, kind |-> "SHELL", answered |-> FALSE]),
           UNCHANGED <<serial, ran>>
    PROVE  Traces'
  <1> USE Threading
  <1> PICK n \in Nat : n = Len(target) + 1
    BY EntryTypes
  <1>1. stray' # {} /\ stray \subseteq stray'
    BY DEF Strays
  <1>2. \A c \in Clients : t # Main(c)
    BY DEF IInv, Held, AInv, Answers
  <1>3. \A c \in Clients : Fed(c)'
    BY <1>2 DEF Fed, Strays
  <1>4. /\ DOMAIN target' = (DOMAIN target) \cup {n}
        /\ target'[n] = [t |-> t, id |-> 0, kind |-> "SHELL", answered |-> FALSE]
        /\ \A i \in DOMAIN target : target'[i] = target[i]
    BY EntryTypes
  <1>5. \A c \in Clients : \A i \in DOMAIN target : Own(c, i)' = Own(c, i)
    BY <1>4 DEF Own
  <1>6. \A c \in Clients : \A i \in DOMAIN target' :
            Own(c, i)' /\ target'[i].answered => ran'[Main(c)] >= 1
    BY <1>4, <1>5 DEF AInv, Traces
  <1>7. \A i \in DOMAIN target' : target'[i].id <= serial'[target'[i].t]
    BY <1>4 DEF AInv, Traces, RunTypes
  <1> QED BY <1>1, <1>3, <1>6, <1>7 DEF Traces

\* A program at the prompt is not in the driver: what the target has of it is a
\* stray, now of an earlier command.
LEMMA TracesTyped ==
    ASSUME IInv, AInv, RunTypes', NEW c \in Clients, at[c] = "prompt",
           serial' = [serial EXCEPT ![Main(c)] = @ + 1], ran' = [ran EXCEPT ![Main(c)] = 0],
           stray' = {IF t = Main(c) THEN None ELSE t : t \in stray},
           UNCHANGED <<target, genl, phase>>
    PROVE  Traces'
  <1> USE Threading
  <1>1. /\ \A t \in Threads : /\ serial'[t] = IF t = Main(c) THEN serial[t] + 1 ELSE serial[t]
                              /\ ran'[t] = IF t = Main(c) THEN 0 ELSE ran[t]
                              /\ serial[t] \in Nat /\ ran[t] \in Nat
        /\ \A i \in DOMAIN target : target[i].t \in Threads /\ target[i].id \in Nat
    BY EntryTypes DEF AInv, RunTypes, Entries
  <1>2. genl # Main(c)
    BY DEF IInv, Held, Outside
  <1>3. \A i \in DOMAIN target : Awaited(i) => Awaited(i)'
    BY <1>1, <1>2 DEF Awaited
  <1>4. stray' = {} => stray = {}
    OBVIOUS
  <1>5. \A d \in Clients : ~Fed(d)' => stray = {} \/ (d # c /\ ~Fed(d))
    <2> SUFFICES ASSUME NEW d \in Clients, stray' \subseteq {Main(d)}, stray # {}, ~(ran'[Main(d)] >= 1)
                 PROVE  d # c /\ stray \subseteq {Main(d)} /\ ~(ran[Main(d)] >= 1)
      BY DEF Fed
    <2>1. \A t \in stray : t # Main(c) /\ t = Main(d)
      <3> SUFFICES ASSUME NEW t \in stray PROVE t # Main(c) /\ t = Main(d)
        OBVIOUS
      <3>1. (IF t = Main(c) THEN None ELSE t) = Main(d)
        OBVIOUS
      <3> QED BY <3>1
    <2>2. d # c /\ stray \subseteq {Main(d)}
      BY <2>1
    <2> QED BY <1>1, <2>2
  <1>6. \A d \in Clients : d # c => \A i \in DOMAIN target : Own(d, i)' = Own(d, i)
    BY <1>1 DEF Own
  <1>7. \A i \in DOMAIN target : ~Own(c, i)'
    BY <1>1 DEF AInv, Traces, Own
  <1>8. /\ stray' = {} => \A i \in DOMAIN target' : Awaited(i)'
        /\ \A d \in Clients : ~Fed(d)' => \A i \in DOMAIN target' : Own(d, i)' \/ Awaited(i)'
    BY <1>3, <1>4, <1>5, <1>6 DEF AInv, Traces
  <1>9. \A d \in Clients : \A i \in DOMAIN target' :
            Own(d, i)' /\ target'[i].answered => ran'[Main(d)] >= 1
    BY <1>1, <1>6, <1>7 DEF AInv, Traces
  <1>10. \A i \in DOMAIN target' : target'[i].id <= serial'[target'[i].t]
    BY <1>1 DEF AInv, Traces
  <1> QED BY <1>8, <1>9, <1>10 DEF Traces

-----------------------------------------------------------------------------
(* The driver, once more.                                                  *)

\* Only the answer of the target to a command of its own can be taken for one.
LEMMA AnswersReturned ==
    ASSUME IInv, AInv, RunTypes', NEW t \in Threads, NEW r, Return(t, r),
           UNCHANGED <<run, result, at>>, stray \subseteq stray',
           \A u \in Threads : ran'[u] >= ran[u], msg[t] # None,
           \A c \in Clients : t = Main(c) /\ msg[t] = "SHELL" => r \in {"error", "Failed"} \/ Fed(c)
    PROVE  Answers'
  <1>1. /\ msg' = [u \in Threads |-> IF u = t THEN None ELSE msg[u]]
        /\ reply' = [u \in Threads |->
                        IF u = t THEN IF t \in Agents THEN None ELSE r ELSE reply[u]]
    BY DEF IInv, Records, Return
  <1>2. \A c \in Clients : Fed(c) => Fed(c)'
    BY FedKept DEF AInv
  <1>3. \A c \in Clients : msg'[Main(c)] = "SIMPLE" => msg'[Main(c)] = None
    BY <1>1, Threading DEF AInv, Answers
  <1>4. ASSUME NEW c \in Clients, run[c].policy \in {"shell", "plain"}
        PROVE  /\ at[c] = "reply" /\ msg'[Main(c)] # None => msg'[Main(c)] = "SHELL"
               /\ at[c] = "reply" /\ reply'[Main(c)] \notin {None, "error", "Failed"} => Fed(c)'
               /\ run[c] # None /\ result[c] = "SUCCESS" => Fed(c)'
    <2>1. CASE Main(c) = t
      BY <1>1, <1>2, <1>4, <2>1, Threading DEF AInv, Answers
    <2>2. CASE Main(c) # t
      BY <1>1, <1>2, <1>4, <2>2, Threading DEF AInv, Answers
    <2> QED BY <2>1, <2>2
  <1> QED BY <1>3, <1>4 DEF Answers

LEMMA AnswersHeld ==
    ASSUME AInv, RunTypes', UNCHANGED <<run, result, at, msg, reply>>, stray \subseteq stray',
           \A u \in Threads : ran'[u] >= ran[u]
    PROVE  Answers'
  <1>1. \A c \in Clients : Fed(c) => Fed(c)'
    BY FedKept DEF AInv
  <1> QED BY <1>1 DEF AInv, Answers

LEMMA TypesHeld ==
    ASSUME AInv, UNCHANGED <<run, result, at, serial>>, ran' \in [Threads -> Nat],
           target' \in Seq(Entries)
    PROVE  RunTypes'
  BY DEF AInv, RunTypes

LEMMA SameRuns ==
    ASSUME AInv, UNCHANGED ran
    PROVE  ran' \in [Threads -> Nat] /\ \A u \in Threads : ran'[u] >= ran[u]
  BY DEF AInv, RunTypes

\* A handler that asks nothing of the target returns.
LEMMA ReturnsEarn ==
    ASSUME IInv, AInv, NEW t \in Threads, NEW r, Return(t, r), msg[t] # None,
           UNCHANGED <<run, result, at, target, serial, stray>>, ran' \in [Threads -> Nat],
           \A u \in Threads : ran'[u] >= ran[u], phase = "run" \/ genl = None,
           msg[t] = "SHELL" => r \in {"error", "Failed"}
    PROVE  AInv'
  <1>1. RunTypes'
    BY TypesHeld DEF AInv, RunTypes
  <1>2. Traces'
    BY <1>1, TracesIdle
  <1>3. Answers'
    BY <1>1, AnswersReturned
  <1> QED BY <1>1, <1>2, <1>3 DEF AInv

LEMMA EnterEarns ==
    ASSUME IInv, AInv, NEW t \in Threads, Enter(t) \/ Reinit(t), UNCHANGED cli
    PROVE  AInv'
  <1>1. UNCHANGED <<target, msg, reply, serial, ran, stray, run, result, at>>
    BY DEF Enter, Reinit, history, cli
  <1>2. RunTypes'
    BY <1>1, TypesHeld DEF AInv, RunTypes
  <1>3. Answers'
    BY <1>1, <1>2, SameRuns, AnswersHeld
  <1>4. Traces'
    <2>1. CASE Enter(t)
      BY <1>1, <1>2, <2>1, SameRuns, TracesIdle DEF Enter
    <2>2. CASE Reinit(t)
      <3>1. \A i \in DOMAIN target : Awaited(i)' = Awaited(i)
        BY <1>1, <2>2 DEF Awaited, Reinit
      <3>2. /\ \A c \in Clients : Fed(c)' = Fed(c)
            /\ \A c \in Clients : \A i \in DOMAIN target : Own(c, i)' = Own(c, i)
        BY <1>1 DEF Fed, Own
      <3> QED BY <1>1, <3>1, <3>2 DEF AInv, Traces
    <2> QED BY <2>1, <2>2
  <1> QED BY <1>2, <1>3, <1>4 DEF AInv

LEMMA RefusalsEarn ==
    ASSUME IInv, AInv, NEW t \in Threads, UNCHANGED cli,
           Busy(t) \/ ShellRefused(t) \/ ShellLeft(t) \/ NotSent(t)
    PROVE  AInv'
  <1>1. SUFFICES ASSUME NEW r, Return(t, r), msg[t] = "SHELL" => r \in {"error", "Failed"},
                        phase = "run" \/ genl = None, UNCHANGED <<target, serial, ran, stray>>
                 PROVE  AInv'
    <2>1. CASE Busy(t)
      BY <1>1, <2>1 DEF Busy, history
    <2>2. CASE ShellRefused(t)
      BY <1>1, <2>2 DEF ShellRefused, Replied, Handling, history
    <2>3. CASE ShellLeft(t)
      BY <1>1, <2>3 DEF ShellLeft, Replied, Handling, history
    <2>4. CASE NotSent(t)
      <3>1. PICK kind \in Kinds : /\ msg[t] = kind /\ phase = "run" /\ Return(t, GivenUp(kind))
                                  /\ UNCHANGED <<target, serial, ran, stray>>
        BY <2>4 DEF NotSent, Replied, Handling, history
      <3>2. kind = "SHELL" => GivenUp(kind) = "Failed"
        BY DEF GivenUp
      <3> QED BY <1>1, <3>1, <3>2
    <2> QED BY <2>1, <2>2, <2>3, <2>4
  <1>2. msg[t] # None
    BY Threading DEF Busy, ShellRefused, ShellLeft, NotSent, Handling, IInv, Held
  <1> QED BY <1>1, <1>2, SameRuns, ReturnsEarn DEF cli

LEMMA HandledEarns ==
    ASSUME IInv, AInv, NEW t \in Threads, UNCHANGED cli,
           GetInfo(t) \/ DriverCmd(t) \/ Capi(t) \/ TestAgent(t) \/ MicNoMemory(t)
    PROVE  AInv'
  <1>1. SUFFICES ASSUME NEW r, Return(t, r), NEW op, msg[t] = op, op # "SHELL", genl = t,
                        phase = "run", UNCHANGED <<target, serial, stray>>,
                        ran' \in [Threads -> Nat], \A u \in Threads : ran'[u] >= ran[u]
                 PROVE  AInv'
    <2>1. CASE GetInfo(t)
      <3>1. PICK op \in {"NUM", "PAGE", "STOP"} : Handling(t, op)
        BY <2>1 DEF GetInfo, Handler
      <3>2. \E r : Return(t, r)
        BY <2>1 DEF GetInfo, Replied
      <3>3. UNCHANGED <<target, serial, stray, ran>>
        BY <2>1 DEF GetInfo, history
      <3> QED BY <1>1, <3>1, <3>2, <3>3, SameRuns DEF Handling
    <2>2. CASE DriverCmd(t)
      <3>1. UNCHANGED ran \/ ran' = [ran EXCEPT ![t] = @ + 1]
        BY <2>2 DEF DriverCmd
      <3>2. ran \in [Threads -> Nat]
        BY DEF AInv, RunTypes
      <3>3. ran' \in [Threads -> Nat] /\ \A u \in Threads : ran'[u] >= ran[u]
        BY <3>1, <3>2
      <3> QED BY <1>1, <2>2, <3>3 DEF DriverCmd, Handling, Replied
    <2>3. CASE Capi(t)
      BY <1>1, <2>3, SameRuns DEF Capi, Handler, Handling, Replied, history
    <2>4. CASE TestAgent(t)
      BY <1>1, <2>4, SameRuns DEF TestAgent, Handler, Handling, Replied, history
    <2>5. CASE MicNoMemory(t)
      BY <1>1, <2>5, SameRuns DEF MicNoMemory, Handling, Replied, history
    <2> QED BY <2>1, <2>2, <2>3, <2>4, <2>5
  <1>2. msg[t] # None
    BY <1>1, Threading DEF IInv, Held
  <1> QED BY <1>1, <1>2, ReturnsEarn DEF cli

LEMMA SendsEarn ==
    ASSUME IInv, AInv, NEW t \in Threads, UNCHANGED cli, ShellSend(t) \/ MicScan(t)
    PROVE  AInv'
  <1>1. PICK kind \in Kinds : /\ Request(t, kind) /\ genl = t /\ phase = "run"
                              /\ UNCHANGED <<genl, msg, reply, serial, ran, stray>>
    BY DEF ShellSend, MicScan, Handling, Kinds, Shells, history
  <1>2. target' \in Seq(Entries)
    <2>1. [t |-> t, id |-> serial[t], kind |-> kind, answered |-> FALSE] \in Entries
      BY DEF AInv, RunTypes, Entries
    <2> QED BY <1>1, <2>1, EntryTypes DEF Request
  <1>3. UNCHANGED <<run, result, at>>
    BY DEF cli
  <1>4. RunTypes'
    BY <1>1, <1>2, <1>3, SameRuns, TypesHeld
  <1>5. Traces'
    BY <1>1, <1>4, TracesSent
  <1>6. Answers'
    BY <1>1, <1>3, <1>4, SameRuns, AnswersHeld
  <1> QED BY <1>4, <1>5, <1>6 DEF AInv

LEMMA TimeOutEarns ==
    ASSUME IInv, AInv, NEW t \in Threads, UNCHANGED cli, TimeOut(t)
    PROVE  AInv'
  <1>1. /\ genl = t /\ Strays(t) /\ Return(t, GivenUp(msg[t])) /\ genl' = None
        /\ UNCHANGED <<target, serial, ran, run, result, at>>
    BY DEF TimeOut, Replied, Return, cli
  <1>2. RunTypes'
    BY <1>1, SameRuns, TypesHeld DEF AInv, RunTypes
  <1>3. Traces'
    BY <1>1, <1>2, TracesTimeOut
  <1>4. msg[t] # None /\ stray \subseteq stray'
    BY <1>1, Threading DEF IInv, Held, Strays
  <1>5. msg[t] = "SHELL" => GivenUp(msg[t]) = "Failed"
    BY DEF GivenUp
  <1>6. Answers'
    BY <1>1, <1>2, <1>4, <1>5, SameRuns, AnswersReturned
  <1> QED BY <1>2, <1>3, <1>6 DEF AInv

LEMMA SimpleEarns ==
    ASSUME IInv, AInv, NEW t \in Threads, UNCHANGED cli, RunSimple(t)
    PROVE  AInv'
  <1>1. /\ genl = t /\ phase = "run" /\ msg[t] = "SIMPLE" /\ msg[t] # None
        /\ UNCHANGED <<serial, ran, run, result, at>>
    BY Threading DEF RunSimple, Handler, Handling, IInv, Held, cli
  <1>2. CASE UNCHANGED <<target, stray>>
    <2>1. \E r : Return(t, r)
      BY DEF RunSimple, Replied
    <2> QED BY <1>1, <1>2, <2>1, SameRuns, ReturnsEarn
  <1>3. CASE ~UNCHANGED <<target, stray>>
    <2> DEFINE w == [t |-> t, id |-> 0, kind |-> "SHELL", answered |-> FALSE]
    <2>1. Return(t, "none") /\ Strays(t) /\ target' = Append(target, w) /\ stray \subseteq stray'
      BY <1>3 DEF RunSimple, Replied, Strays
    <2>2. w \in Entries
      BY DEF Entries, Kinds
    <2>3. target' \in Seq(Entries)
      BY <2>1, <2>2, EntryTypes
    <2>4. RunTypes'
      BY <1>1, <2>3, SameRuns, TypesHeld
    <2>5. Traces'
      BY <1>1, <2>1, <2>4, TracesSimple
    <2>6. Answers'
      BY <1>1, <2>1, <2>4, SameRuns, AnswersReturned
    <2> QED BY <2>4, <2>5, <2>6 DEF AInv
  <1> QED BY <1>2, <1>3

LEMMA TakenEarns ==
    ASSUME IInv, AInv, UNCHANGED cli, Taken
    PROVE  AInv'
  <1>1. PICK r \in Texts : Return(genl, r)
    BY DEF Taken, Replied
  <1>2. /\ genl # None /\ phase = "wait" /\ msg[genl] = Head(target).kind /\ Head(target).answered
        /\ target # <<>> /\ target' = Tail(target)
        /\ UNCHANGED <<serial, ran, stray, run, result, at>>
    BY DEF Taken, Awake, Waits, history, cli
  <1>3. genl \in Threads /\ msg[genl] # None
    BY <1>2 DEF IInv, Records, Held
  <1>4. target' \in Seq(Entries)
    BY <1>2, EntryTypes
  <1>5. RunTypes'
    BY <1>2, <1>4, SameRuns, TypesHeld
  <1>6. Traces'
    BY <1>2, <1>5, TracesTail
  <1>7. ASSUME NEW c \in Clients, genl = Main(c) PROVE Fed(c)
    <2>1. 1 \in DOMAIN target /\ Head(target) = target[1]
      BY <1>2, EntryTypes
    <2>2. ASSUME ~Fed(c) PROVE Own(c, 1)
      BY <1>7, <2>1, <2>2 DEF AInv, Traces, Awaited, Own
    <2> QED BY <1>2, <2>1, <2>2 DEF AInv, Traces, Fed
  <1>8. Answers'
    BY <1>1, <1>2, <1>3, <1>5, <1>7, SameRuns, AnswersReturned
  <1> QED BY <1>5, <1>6, <1>8 DEF AInv

LEMMA TargetEarns ==
    ASSUME IInv, AInv, UNCHANGED cli, Target
    PROVE  AInv'
  <1>1. CASE TargetRuns
    <2>1. UNCHANGED <<msg, reply, serial, stray, run, result, at>>
      BY <1>1 DEF TargetRuns, cli
    <2>2. target \in Seq(Entries) /\ Head(target) \in Entries /\ target # <<>>
      BY <1>1, EntryTypes DEF TargetRuns, Awake
    <2>3. [Head(target) EXCEPT !.answered = TRUE] \in Entries
      BY <2>2 DEF Entries
    <2>4. target' \in Seq(Entries)
      BY <1>1, <2>2, <2>3 DEF TargetRuns
    <2>5. ran' \in [Threads -> Nat] /\ \A u \in Threads : ran'[u] >= ran[u]
      <3> DEFINE w == Head(target)
      <3>1. ran' = [ran EXCEPT ![w.t] = IF serial[w.t] = w.id THEN @ + 1 ELSE @] /\ w.t \in Threads
        BY <1>1, <2>2 DEF TargetRuns, Entries
      <3> HIDE DEF w
      <3> QED BY <3>1 DEF AInv, RunTypes
    <2>6. RunTypes'
      BY <2>1, <2>4, <2>5, TypesHeld
    <2>7. Traces'
      BY <1>1, <2>6, TracesRuns
    <2>8. Answers'
      BY <2>1, <2>5, <2>6, AnswersHeld
    <2> QED BY <2>6, <2>7, <2>8 DEF AInv
  <1>2. CASE Kept \/ Lost
    <2>1. /\ target # <<>> /\ target' = Tail(target)
          /\ UNCHANGED <<genl, phase, msg, reply, serial, ran, stray, run, result, at>>
      BY <1>2 DEF Kept, Lost, Awake, history, cli
    <2>2. RunTypes'
      BY <2>1, EntryTypes, SameRuns, TypesHeld
    <2>3. Traces' /\ Answers'
      BY <2>1, <2>2, SameRuns, TracesTail, AnswersHeld
    <2> QED BY <2>2, <2>3 DEF AInv
  <1> QED BY <1>1, <1>2, TakenEarns DEF Target

LEMMA WorldEarns ==
    ASSUME IInv, AInv, UNCHANGED cli, World
    PROVE  AInv'
  <1>1. UNCHANGED <<genl, phase, msg, reply, serial, ran, run, result, at>>
    BY DEF World, Down, Up, Sleeps, Relink, waiting, history, cli
  <1>2. stray \subseteq stray' /\ (target' = <<>> \/ UNCHANGED <<target, stray>>)
    BY DEF World, Down, Up, Sleeps, Relink, waiting, history
  <1>3. target' \in Seq(Entries)
    <2>1. <<>> \in Seq(Entries) /\ target \in Seq(Entries)
      BY EntryTypes
    <2> QED BY <1>2, <2>1
  <1>4. RunTypes'
    BY <1>1, <1>3, SameRuns, TypesHeld
  <1>5. Traces'
    <2>1. CASE target' = <<>>
      BY <2>1 DEF Traces
    <2>2. CASE UNCHANGED <<target, stray>>
      BY <1>1, <2>2, TracesKept
    <2> QED BY <1>2, <2>1, <2>2
  <1>6. Answers'
    BY <1>1, <1>2, <1>4, SameRuns, AnswersHeld
  <1> QED BY <1>4, <1>5, <1>6 DEF AInv

LEMMA KernelEarns ==
    ASSUME IInv, AInv, NEW t \in Threads, Kernel(t)
    PROVE  AInv'
  <1>1. Handlers(t) /\ UNCHANGED cli
    BY DEF Kernel
  <1> QED BY <1>1, EnterEarns, RefusalsEarn, SendsEarn, HandledEarns, TimeOutEarns, SimpleEarns
          DEF Handlers

-----------------------------------------------------------------------------
(* The program, once more.                                                 *)

\* The requests of the others, and what they were replied, are left alone.
LEMMA AnswersElsewhere ==
    ASSUME IInv, AInv, UNCHANGED <<stray, ran>>, NEW c \in Clients,
           \A d \in Clients : d # c => /\ UNCHANGED <<run[d], result[d], at[d]>>
                                       /\ msg'[Main(d)] \in {None, msg[Main(d)]}
                                       /\ reply'[Main(d)] \in {None, reply[Main(d)]},
           msg'[Main(c)] = "SIMPLE" => msg'[Main(c)] = None,
           run'[c].policy \in {"shell", "plain"} =>
               /\ at'[c] = "reply" /\ msg'[Main(c)] # None => msg'[Main(c)] = "SHELL"
               /\ at'[c] = "reply" /\ reply'[Main(c)] \notin {None, "error", "Failed"} => Fed(c)
               /\ run'[c] # None /\ result'[c] = "SUCCESS" => Fed(c)
    PROVE  Answers'
  <1>1. \A d \in Clients : Fed(d)' = Fed(d)
    BY DEF Fed
  <1>2. \A d \in Clients : msg'[Main(d)] = "SIMPLE" => msg'[Main(d)] = None
    BY DEF AInv, Answers
  <1>3. ASSUME NEW d \in Clients, run'[d].policy \in {"shell", "plain"}
        PROVE  /\ at'[d] = "reply" /\ msg'[Main(d)] # None => msg'[Main(d)] = "SHELL"
               /\ at'[d] = "reply" /\ reply'[Main(d)] \notin {None, "error", "Failed"} => Fed(d)'
               /\ run'[d] # None /\ result'[d] = "SUCCESS" => Fed(d)'
    <2>1. CASE d = c
      BY <1>1, <1>3, <2>1
    <2>2. CASE d # c
      BY <1>1, <1>3, <2>2 DEF AInv, Answers
    <2> QED BY <2>1, <2>2
  <1> QED BY <1>2, <1>3 DEF Answers

LEMMA GotLeaves ==
    ASSUME IInv, NEW c \in Clients, NEW P, Got(c, P)
    PROVE  /\ at[c] = "reply" /\ run[c].policy \in P /\ reply[Main(c)] # None
           /\ \A d \in Clients : reply'[Main(d)] = IF d = c THEN None ELSE reply[Main(d)]
           /\ UNCHANGED <<target, genl, phase, serial, ran, stray>>
  <1>1. reply' = [reply EXCEPT ![Main(c)] = None]
    BY DEF Got
  <1>2. \A d \in Clients : reply'[Main(d)] = IF d = c THEN None ELSE reply[Main(d)]
    BY <1>1, Threading DEF IInv, Records
  <1> QED BY <1>2 DEF Got, driver, waiting, history

LEMMA AgainEarns ==
    ASSUME IInv, AInv, NEW c \in Clients, NEW P, Got(c, P), NEW k \in Jobs, Again(c, k)
    PROVE  AInv'
  <1>1. /\ run' = [run EXCEPT ![c] = k] /\ at' = [at EXCEPT ![c] = "call"]
        /\ UNCHANGED <<result, msg>>
    BY DEF Again
  <1>2. \A d \in Clients : /\ run'[d] = IF d = c THEN k ELSE run[d]
                           /\ at'[d] = IF d = c THEN "call" ELSE at[d]
    BY <1>1 DEF AInv, RunTypes, IInv, Records
  <1>3. result[c] # "SUCCESS"
    BY GotLeaves DEF AInv, RunTypes, Working
  <1>4. RunTypes'
    BY <1>1, <1>2, <1>3, GotLeaves DEF AInv, RunTypes
  <1>5. Answers'
    BY <1>1, <1>2, <1>3, GotLeaves, AnswersElsewhere DEF AInv, Answers
  <1>6. Traces'
    BY GotLeaves, TracesKept
  <1> QED BY <1>4, <1>5, <1>6 DEF AInv

LEMMA PromptEarns ==
    ASSUME IInv, AInv, NEW c \in Clients, NEW P, Got(c, P), NEW ret, Prompt(c, ret), UNCHANGED msg,
           run[c].policy \in {"shell", "plain"} /\ ret = "SUCCESS" => Fed(c)
    PROVE  AInv'
  <1> DEFINE k == Begun(run[c].policy, run[c].tries)
  <1>1. /\ run' = [run EXCEPT ![c] = k] /\ at' = [at EXCEPT ![c] = "prompt"]
        /\ result' = [result EXCEPT ![c] = ret]
    BY DEF Prompt
  <1>2. run[c] \in Jobs
    BY GotLeaves DEF AInv, RunTypes, Working
  <1>3. k \in Jobs /\ k.policy = run[c].policy
    BY <1>2, JobsBegun DEF Jobs
  <1> HIDE DEF k
  <1>4. \A d \in Clients : /\ run'[d] = IF d = c THEN k ELSE run[d]
                           /\ at'[d] = IF d = c THEN "prompt" ELSE at[d]
                           /\ result'[d] = IF d = c THEN ret ELSE result[d]
    BY <1>1 DEF AInv, RunTypes, IInv, Records
  <1>5. RunTypes'
    <2>1. /\ run' \in [Clients -> Jobs \cup {None}]
          /\ result' = [d \in Clients |-> result'[d]]
      BY <1>1, <1>3 DEF AInv, RunTypes
    <2>2. \A d \in Clients : at'[d] \in Working => run'[d] \in Jobs /\ result'[d] # "SUCCESS"
      BY <1>4 DEF AInv, RunTypes, Working
    <2> QED BY <1>4, <2>1, <2>2, GotLeaves DEF AInv, RunTypes
  <1>6. Answers'
    BY <1>3, <1>4, GotLeaves, AnswersElsewhere DEF AInv, Answers
  <1>7. Traces'
    BY GotLeaves, TracesKept
  <1> QED BY <1>5, <1>6, <1>7 DEF AInv

LEMMA ReturnedEarns ==
    ASSUME IInv, AInv, NEW c \in Clients, NEW P, Got(c, P), NEW ret, Returned(c, ret),
           run[c].policy \in {"shell", "plain"} /\ ret = "SUCCESS" => Fed(c)
    PROVE  AInv'
  <1>1. run[c] \in Jobs
    BY GotLeaves DEF AInv, RunTypes, Working
  <1>2. CASE ret = "TIMEOUT" /\ run[c].tries > 1
    <2>1. Again(c, Begun(run[c].policy, run[c].tries - 1))
      BY <1>2 DEF Returned
    <2>2. run[c].policy \in Policies /\ run[c].tries - 1 \in Int
      BY <1>1 DEF Jobs
    <2>3. Begun(run[c].policy, run[c].tries - 1) \in Jobs
      BY <2>2, JobsBegun
    <2> QED BY <2>1, <2>3, AgainEarns
  <1>3. CASE ~(ret = "TIMEOUT" /\ run[c].tries > 1)
    BY <1>3, PromptEarns DEF Returned
  <1> QED BY <1>2, <1>3

LEMMA RunsShellEarn ==
    ASSUME IInv, AInv, NEW c \in Clients, RunShell(c) \/ PlainShell(c)
    PROVE  AInv'
  <1> DEFINE r == reply[Main(c)]
  <1>1. PICK P, ret : /\ Got(c, P) /\ Returned(c, ret)
                      /\ ret = "SUCCESS" => r \notin {"error", "Failed"}
    <2>1. CASE RunShell(c)
      <3> DEFINE ret == CASE r \in {"error", "fail"} -> "FAILURE" [] r = "Failed" -> "TIMEOUT"
                          [] OTHER -> "SUCCESS"
      <3>1. ret = "SUCCESS" => r \notin {"error", "Failed"}
        OBVIOUS
      <3>2. Got(c, {"shell", "driver", "raw"}) /\ Returned(c, ret)
        BY <2>1, Zenon DEF RunShell
      <3> HIDE DEF ret
      <3> QED BY <3>1, <3>2
    <2>2. CASE PlainShell(c)
      <3> DEFINE ret == CASE r = "error" -> "FAILURE" [] r = "Failed" -> "TIMEOUT"
                          [] OTHER -> "SUCCESS"
      <3>1. ret = "SUCCESS" => r \notin {"error", "Failed"}
        OBVIOUS
      <3>2. Got(c, {"plain"}) /\ Returned(c, ret)
        BY <2>2, Zenon DEF PlainShell
      <3> HIDE DEF ret
      <3> QED BY <3>1, <3>2
    <2> QED BY <2>1, <2>2
  <1>2. run[c].policy \in {"shell", "plain"} /\ ret = "SUCCESS" => Fed(c)
    BY <1>1, GotLeaves DEF AInv, Answers
  <1> QED BY <1>1, <1>2, ReturnedEarns

\* The other handlers are not of this kind; they send again or return.
LEMMA ReadsEarn ==
    ASSUME IInv, AInv, NEW c \in Clients, NEW P, Got(c, P), {"shell", "plain"} \cap P = {},
           (\E k \in Jobs : Again(c, k)) \/ (\E ret : Returned(c, ret))
                                         \/ (\E ret : Prompt(c, ret) /\ UNCHANGED msg)
    PROVE  AInv'
  <1>1. run[c].policy \notin {"shell", "plain"}
    BY GotLeaves
  <1> QED BY <1>1, AgainEarns, ReturnedEarns, PromptEarns

\* What is sent again has the policy, with other counts.
LEMMA JobsAgain ==
    ASSUME IInv, AInv, NEW c \in Clients, at[c] = "reply"
    PROVE  /\ run[c] \in Jobs /\ [run[c] EXCEPT !.left = @ - 1] \in Jobs
           /\ [run[c] EXCEPT !.got = @ + 1] \in Jobs
           /\ [run[c] EXCEPT !.got = @ + 1, !.left = SysTry + 1] \in Jobs
           /\ [run[c] EXCEPT !.part = @ + 1, !.left = Resends(run[c].policy)] \in Jobs
           /\ \A got \in {run[c].got, run[c].got + 1} :
                 [run[c] EXCEPT !.part = @ + 1, !.got = got, !.left = StatsTry] \in Jobs
  <1>1. run[c] \in Jobs
    BY DEF AInv, RunTypes, Working
  <1>2. Resends(run[c].policy) \in Int /\ SysTry + 1 \in Int /\ StatsTry \in Int
    BY CliAssumption DEF Resends
  <1>3. /\ \A l \in Int, j \in Jobs : [j EXCEPT !.left = l] \in Jobs
        /\ \A n \in Nat, j \in Jobs : [j EXCEPT !.got = n] \in Jobs
        /\ \A n \in Nat, j \in Jobs : [j EXCEPT !.part = n] \in Jobs
        /\ \A j \in Jobs : j.left \in Int /\ j.got \in Nat /\ j.part \in Nat
    BY DEF Jobs
  <1> DEFINE more == [run[c] EXCEPT !.got = @ + 1]
             next == [run[c] EXCEPT !.part = @ + 1]
             part(got) == [next EXCEPT !.got = got]
  <1>4. /\ [run[c] EXCEPT !.left = @ - 1] \in Jobs /\ more \in Jobs /\ next \in Jobs
        /\ \A got \in {run[c].got, run[c].got + 1} : part(got) \in Jobs
    <2>1. run[c].left - 1 \in Int /\ run[c].got + 1 \in Nat /\ run[c].part + 1 \in Nat
      BY <1>1, <1>3
    <2>2. [run[c] EXCEPT !.left = @ - 1] \in Jobs
      BY <1>1, <1>3, <2>1
    <2>3. more \in Jobs /\ next \in Jobs
      BY <1>1, <1>3, <2>1
    <2>4. \A got \in {run[c].got, run[c].got + 1} : got \in Nat
      BY <1>1, <1>3
    <2>5. \A got \in {run[c].got, run[c].got + 1} : part(got) \in Jobs
      <3> HIDE DEF next
      <3> QED BY <1>3, <2>3, <2>4
    <2> QED BY <2>2, <2>3, <2>5
  <1>5. [run[c] EXCEPT !.got = @ + 1, !.left = SysTry + 1] = [more EXCEPT !.left = SysTry + 1]
    BY <1>1 DEF Jobs
  <1>6. [run[c] EXCEPT !.part = @ + 1, !.left = Resends(run[c].policy)]
            = [next EXCEPT !.left = Resends(run[c].policy)]
    BY <1>1 DEF Jobs
  <1>7. \A got : [run[c] EXCEPT !.part = @ + 1, !.got = got, !.left = StatsTry]
            = [part(got) EXCEPT !.left = StatsTry]
    BY <1>1 DEF Jobs
  <1> QED BY <1>1, <1>2, <1>3, <1>4, <1>5, <1>6, <1>7

LEMMA PagesEarn ==
    ASSUME IInv, AInv, NEW c \in Clients,
           SetBaSent(c) \/ ShowAp(c) \/ SetMaxAgg(c) \/ ShowPages(c) \/ SignalPage(c)
    PROVE  AInv'
  <1>1. at[c] = "reply"
    BY DEF SetBaSent, ShowAp, SetMaxAgg, ShowPages, SignalPage, Got
  <1>2. PICK P : Got(c, P) /\ {"shell", "plain"} \cap P = {}
    BY SMT DEF SetBaSent, ShowAp, SetMaxAgg, ShowPages, SignalPage
  <1>3. (\E k \in Jobs : Again(c, k)) \/ (\E ret : Returned(c, ret))
    <2>1. CASE SetBaSent(c) \/ ShowAp(c) \/ SetMaxAgg(c)
      BY <2>1, Zenon DEF SetBaSent, ShowAp, SetMaxAgg
    <2>2. CASE ShowPages(c) \/ SignalPage(c)
      <3>1. \/ \E ret : Returned(c, ret)
            \/ Again(c, [run[c] EXCEPT !.got = @ + 1])
            \/ Again(c, [run[c] EXCEPT !.part = @ + 1, !.left = Resends(run[c].policy)])
        BY <2>2, Zenon DEF ShowPages, SignalPage, Part
      <3> QED BY <1>1, <3>1, JobsAgain
    <2> QED BY <2>1, <2>2
  <1> QED BY <1>2, <1>3, ReadsEarn

LEMMA RetriesEarn ==
    ASSUME IInv, AInv, NEW c \in Clients, Resend(c) \/ ShowStats(c)
    PROVE  AInv'
  <1>1. at[c] = "reply"
    BY DEF Resend, ShowStats, Got
  <1>2. PICK P : Got(c, P) /\ {"shell", "plain"} \cap P = {}
    BY DEF Resend, ShowStats
  <1>3. (\E k \in Jobs : Again(c, k)) \/ (\E ret : Returned(c, ret))
    <2>1. CASE Resend(c)
      <3>1. \/ \E ret : Returned(c, ret)
            \/ Again(c, run[c])
            \/ Again(c, [run[c] EXCEPT !.left = @ - 1])
        BY <2>1, Zenon DEF Resend
      <3> QED BY <1>1, <3>1, JobsAgain
    <2>2. CASE ShowStats(c)
      <3> DEFINE no == reply[Main(c)] \in {"error", "Failed"}
                 got == IF no THEN run[c].got ELSE run[c].got + 1
      <3>1. \/ \E ret : Returned(c, ret)
            \/ Again(c, [run[c] EXCEPT !.left = @ - 1])
            \/ Again(c, [run[c] EXCEPT !.part = @ + 1, !.got = got, !.left = StatsTry])
        BY <2>2, Zenon DEF ShowStats
      <3>2. got \in {run[c].got, run[c].got + 1}
        OBVIOUS
      <3> QED BY <1>1, <3>1, <3>2, JobsAgain
    <2> QED BY <2>1, <2>2
  <1> QED BY <1>2, <1>3, ReadsEarn

\* A program that ends keeps at most the request that is in the driver.
LEMMA EndsEarn ==
    ASSUME IInv, AInv, NEW c \in Clients, NEW how \in {"exited", "crashed"}, Ends(c, how),
           UNCHANGED <<run, result, target, genl, phase, serial, ran, stray>>,
           \A d \in Clients : reply'[Main(d)] \in {None, reply[Main(d)]}
    PROVE  AInv'
  <1>1. /\ \A d \in Clients : at'[d] = IF d = c THEN how ELSE at[d]
        /\ \A d \in Clients : msg'[Main(d)] \in {None, msg[Main(d)]}
    BY Threading DEF Ends, IInv, Records
  <1>2. RunTypes'
    BY <1>1 DEF AInv, RunTypes, Working
  <1>3. Answers'
    BY <1>1, AnswersElsewhere DEF AInv, Answers
  <1>4. Traces'
    BY TracesKept
  <1> QED BY <1>2, <1>3, <1>4 DEF AInv

LEMMA ShowSysconfigEarns ==
    ASSUME IInv, AInv, NEW c \in Clients, ShowSysconfig(c)
    PROVE  AInv'
  <1>1. Got(c, {"sysconfig"})
    BY DEF ShowSysconfig
  <1>2. CASE Ends(c, "crashed") /\ UNCHANGED <<run, result>>
    BY <1>1, <1>2, GotLeaves, EndsEarn
  <1>3. CASE ~(Ends(c, "crashed") /\ UNCHANGED <<run, result>>)
    <2>1. \/ \E ret : Returned(c, ret)
          \/ Again(c, [run[c] EXCEPT !.got = @ + 1, !.left = SysTry + 1])
      BY <1>3 DEF ShowSysconfig
    <2>2. {"shell", "plain"} \cap {"sysconfig"} = {}
      OBVIOUS
    <2> QED BY <1>1, <2>1, <2>2, GotLeaves, JobsAgain, ReadsEarn
  <1> QED BY <1>2, <1>3

LEMMA CountStationsEarns ==
    ASSUME IInv, AInv, NEW c \in Clients, CountStations(c)
    PROVE  AInv'
  <1>1. Got(c, {"signal", "start", "stop"}) /\ {"shell", "plain"} \cap {"signal", "start", "stop"} = {}
    BY Zenon DEF CountStations
  <1>2. \/ \E ret : Returned(c, ret)
        \/ \E ret : Prompt(c, ret) /\ UNCHANGED msg
        \/ Again(c, [run[c] EXCEPT !.left = @ - 1])
        \/ Again(c, [run[c] EXCEPT !.part = @ + 1, !.left = Resends(run[c].policy)])
    BY ZenonT(60) DEF CountStations, Part
  <1> QED BY <1>1, <1>2, GotLeaves, JobsAgain, ReadsEarn

LEMMA SendEarns ==
    ASSUME IInv, AInv, NEW c \in Clients, Send(c)
    PROVE  AInv'
  <1> DEFINE op == Op(run[c].policy, run[c].part)
  <1>1. /\ at[c] = "call" /\ reply[Main(c)] = None
        /\ UNCHANGED <<run, result, reply, target, genl, phase, serial, ran, stray>>
    BY DEF Send, IInv, Outside, driver, waiting, history
  <1>2. /\ at' = [d \in Clients |-> IF d = c THEN "reply" ELSE at[d]]
        /\ \A d \in Clients : msg'[Main(d)] = IF d = c THEN op ELSE msg[Main(d)]
    BY Threading DEF Send, IInv, Records
  <1>3. RunTypes'
    BY <1>1, <1>2 DEF AInv, RunTypes, Working
  <1>4. op # "SIMPLE" /\ (run[c].policy \in {"shell", "plain"} => op = "SHELL")
    BY Tasks
  <1>5. Answers'
    BY <1>1, <1>2, <1>4, AnswersElsewhere DEF AInv, Answers
  <1>6. Traces'
    BY <1>1, TracesKept
  <1> QED BY <1>3, <1>5, <1>6 DEF AInv

LEMMA StopsEarn ==
    ASSUME IInv, AInv, NEW c \in Clients, ForceStop(c) \/ Stopped(c)
    PROVE  AInv'
  <1>1. CASE ForceStop(c)
    <2>1. Got(c, {"stop"}) /\ UNCHANGED <<result, msg>> /\ at' = [at EXCEPT ![c] = "stopping"]
      BY <1>1 DEF ForceStop
    <2>2. PICK g \in Nat : run' = [run EXCEPT ![c].got = g]
      BY <1>1 DEF ForceStop
    <2>3. run[c] \in Jobs /\ run[c].policy = "stop" /\ result[c] # "SUCCESS"
      BY <2>1, GotLeaves DEF AInv, RunTypes, Working
    <2> DEFINE k == [run[c] EXCEPT !.got = g]
    <2>4. k \in Jobs /\ k.policy = "stop"
      BY <2>3 DEF Jobs
    <2>5. run' = [run EXCEPT ![c] = k]
      BY <2>2
    <2> HIDE DEF k
    <2>6. \A d \in Clients : /\ run'[d] = IF d = c THEN k ELSE run[d]
                             /\ at'[d] = IF d = c THEN "stopping" ELSE at[d]
      BY <2>1, <2>5 DEF AInv, RunTypes, IInv, Records
    <2>7. RunTypes'
      BY <2>1, <2>3, <2>4, <2>5, <2>6, GotLeaves DEF AInv, RunTypes
    <2>8. Answers'
      BY <2>1, <2>4, <2>6, GotLeaves, AnswersElsewhere DEF AInv, Answers
    <2>9. Traces'
      BY <2>1, GotLeaves, TracesKept
    <2> QED BY <2>7, <2>8, <2>9 DEF AInv
  <1>2. CASE Stopped(c)
    <2> DEFINE k == Begun(run[c].policy, run[c].tries)
    <2>1. /\ at[c] = "stopping" /\ run' = [run EXCEPT ![c] = k] /\ at' = [at EXCEPT ![c] = "prompt"]
          /\ result' = [result EXCEPT ![c] = "SUCCESS"]
          /\ UNCHANGED <<msg, reply, target, genl, phase, serial, ran, stray>>
      BY <1>2 DEF Stopped, Prompt, driver, waiting, history
    <2>2. run[c] \in Jobs /\ run[c].policy = "stop"
      BY <2>1 DEF AInv, RunTypes, Working
    <2>3. k \in Jobs /\ k.policy = "stop"
      BY <2>2, JobsBegun DEF Jobs
    <2> HIDE DEF k
    <2>4. \A d \in Clients : /\ run'[d] = IF d = c THEN k ELSE run[d]
                             /\ at'[d] = IF d = c THEN "prompt" ELSE at[d]
                             /\ result'[d] = IF d = c THEN "SUCCESS" ELSE result[d]
      BY <2>1 DEF AInv, RunTypes, IInv, Records
    <2>5. RunTypes'
      <3>1. /\ run' \in [Clients -> Jobs \cup {None}]
            /\ result' = [d \in Clients |-> result'[d]]
        BY <2>1, <2>3 DEF AInv, RunTypes
      <3>2. \A d \in Clients : at'[d] \in Working => run'[d] \in Jobs /\ result'[d] # "SUCCESS"
        BY <2>4 DEF AInv, RunTypes, Working
      <3> QED BY <2>1, <2>4, <3>1, <3>2 DEF AInv, RunTypes
    <2>6. Answers'
      BY <2>1, <2>3, <2>4, AnswersElsewhere DEF AInv, Answers
    <2>7. Traces'
      BY <2>1, TracesKept
    <2> QED BY <2>5, <2>6, <2>7 DEF AInv
  <1> QED BY <1>1, <1>2

LEMMA HandlesEarn ==
    ASSUME IInv, AInv, NEW c \in Clients, Handles(c)
    PROVE  AInv'
  BY SendEarns, RunsShellEarn, PagesEarn, RetriesEarn, ShowSysconfigEarns, CountStationsEarns,
     StopsEarn DEF Handles

LEMMA TypeEarns ==
    ASSUME IInv, AInv, NEW c \in Clients, Type(c)
    PROVE  AInv'
  <1>1. at[c] = "prompt" /\ UNCHANGED <<target, genl, phase, reply>>
    BY DEF Type, driver, waiting
  <1>2. CASE \E how \in {"exited", "crashed"} :
                 Ends(c, how) /\ UNCHANGED <<run, result, serial, ran, stray>>
    BY <1>1, <1>2, EndsEarn
  <1>3. CASE /\ UNCHANGED <<at, msg, serial, ran, stray>>
             /\ \/ UNCHANGED run /\ result' = [result EXCEPT ![c] = "FAILURE"]
                \/ run' = [run EXCEPT ![c] = None] /\ result' = [result EXCEPT ![c] = "SUCCESS"]
    <2>1. /\ \A d \in Clients : d # c => UNCHANGED <<run[d], result[d]>>
          /\ run'[c] = None \/ result'[c] # "SUCCESS"
          /\ run' \in [Clients -> Jobs \cup {None}] /\ result' = [d \in Clients |-> result'[d]]
      BY <1>3 DEF AInv, RunTypes
    <2>2. RunTypes'
      BY <1>1, <1>3, <2>1 DEF AInv, RunTypes, Working
    <2>3. Answers'
      BY <1>1, <1>3, <2>1, AnswersElsewhere DEF AInv, Answers
    <2> QED BY <1>1, <1>3, <2>2, <2>3, TracesKept DEF AInv
  <1>4. CASE \E p \in Policies :
                 /\ run' = [run EXCEPT ![c] = Begun(p, NTry)]
                 /\ result' = [result EXCEPT ![c] = None] /\ at' = [at EXCEPT ![c] = "call"]
                 /\ serial' = [serial EXCEPT ![Main(c)] = @ + 1]
                 /\ ran' = [ran EXCEPT ![Main(c)] = 0]
                 /\ stray' = {IF t = Main(c) THEN None ELSE t : t \in stray}
                 /\ UNCHANGED msg
    <2>1. PICK k \in Jobs :
                 /\ run' = [run EXCEPT ![c] = k]
                 /\ result' = [result EXCEPT ![c] = None] /\ at' = [at EXCEPT ![c] = "call"]
                 /\ serial' = [serial EXCEPT ![Main(c)] = @ + 1]
                 /\ ran' = [ran EXCEPT ![Main(c)] = 0]
                 /\ stray' = {IF t = Main(c) THEN None ELSE t : t \in stray}
                 /\ UNCHANGED msg
      <3>1. NTry \in Int
        BY CliAssumption
      <3>2. \A p \in Policies : Begun(p, NTry) \in Jobs
        BY <3>1, JobsBegun
      <3> QED BY <1>4, <3>2
    <2>2. \A d \in Clients : /\ run'[d] = IF d = c THEN k ELSE run[d]
                             /\ at'[d] = IF d = c THEN "call" ELSE at[d]
                             /\ result'[d] = IF d = c THEN None ELSE result[d]
      BY <2>1 DEF AInv, RunTypes, IInv, Records
    <2>3. \A t \in Threads : ran'[t] = IF t = Main(c) THEN 0 ELSE ran[t]
      BY <2>1 DEF AInv, RunTypes
    <2>4. RunTypes'
      <3>1. /\ run' \in [Clients -> Jobs \cup {None}] /\ result' = [d \in Clients |-> result'[d]]
        BY <2>1 DEF AInv, RunTypes
      <3>2. ran' \in [Threads -> Nat] /\ serial' \in [Threads -> Nat]
        <4>1. ran \in [Threads -> Nat] /\ serial \in [Threads -> Nat] /\ Main(c) \in Threads
          BY Threading DEF AInv, RunTypes
        <4> QED BY <2>1, <4>1
      <3>3. \A d \in Clients : at'[d] \in Working => run'[d] \in Jobs /\ result'[d] # "SUCCESS"
        BY <2>2, CliAssumption DEF AInv, RunTypes, Working
      <3> QED BY <1>1, <2>2, <3>1, <3>2, <3>3 DEF AInv, RunTypes
    <2>5. Traces'
      BY <1>1, <2>1, <2>4, TracesTyped
    <2>6. \A d \in Clients : d # c => (Fed(d) => Fed(d)')
      BY <2>1, <2>3, Threading DEF Fed
    <2>7. Answers'
      BY <1>1, <2>1, <2>2, <2>6, CliAssumption DEF AInv, Answers
    <2> QED BY <2>4, <2>5, <2>7 DEF AInv
  <1> QED BY <1>2, <1>3, <1>4, Zenon DEF Type

LEMMA OthersEarn ==
    ASSUME IInv, AInv, \/ \E c \in Clients : Reporter(c)
                       \/ \E a \in Agents : AgentSend(a)
    PROVE  AInv'
  <1>1. UNCHANGED <<run, result, target, genl, phase, serial, ran, stray>>
    BY DEF Reporter, RepSend, RepReply, RepNap, AgentSend, driver, waiting, history, cli
  <1>2. \A d \in Clients : reply'[Main(d)] = reply[Main(d)]
    BY Threading DEF Reporter, RepSend, RepReply, RepNap, AgentSend, IInv, Records
  <1>3. CASE \E c \in Clients : Ends(c, "crashed")
    BY <1>1, <1>2, <1>3, EndsEarn
  <1>4. CASE ~\E c \in Clients : Ends(c, "crashed")
    <2>1. UNCHANGED at
      BY <1>4 DEF Reporter, RepSend, RepReply, RepNap, AgentSend, RoundOver, cli
    <2>2. \A d \in Clients : msg'[Main(d)] = msg[Main(d)]
      <3>1. UNCHANGED msg \/ \E t \in Threads : \E op : /\ \A d \in Clients : t # Main(d)
                                                       /\ msg' = [msg EXCEPT ![t] = op]
        BY <1>4, Threading DEF Reporter, RepSend, RepReply, RepNap, AgentSend, RoundOver
      <3> QED BY <3>1, Threading DEF IInv, Records
    <2>3. RunTypes'
      BY <1>1, <2>1 DEF AInv, RunTypes
    <2>4. \A d \in Clients : Fed(d)' = Fed(d)
      BY <1>1 DEF Fed
    <2>5. Answers'
      BY <1>1, <1>2, <2>1, <2>2, <2>4 DEF AInv, Answers
    <2>6. Traces'
      BY <1>1, TracesKept
    <2> QED BY <2>3, <2>5, <2>6 DEF AInv
  <1> QED BY <1>3, <1>4

LEMMA StepEarns ==
    ASSUME IInv, AInv, [Next]_allvars
    PROVE  AInv'
  <1>1. CASE \E c \in Clients : Type(c) \/ Handles(c) \/ Reporter(c)
    BY <1>1, TypeEarns, HandlesEarn, OthersEarn
  <1>2. CASE \E a \in Agents : AgentSend(a)
    BY <1>2, OthersEarn
  <1>3. CASE \E t \in Threads : Kernel(t)
    BY <1>3, KernelEarns
  <1>4. CASE (Target \/ World) /\ UNCHANGED cli
    BY <1>4, TargetEarns, WorldEarns
  <1>5. CASE UNCHANGED allvars
    <2>1. UNCHANGED <<run, result, at, msg, reply, target, genl, phase, serial, ran, stray>>
      BY <1>5 DEF allvars, vars, waiting, history, cli
    <2>2. \A d \in Clients : Fed(d)' = Fed(d)
      BY <2>1 DEF Fed
    <2>3. RunTypes' /\ Answers'
      BY <2>1, <2>2 DEF AInv, RunTypes, Answers
    <2> QED BY <2>1, <2>3, TracesKept DEF AInv
  <1> QED BY <1>1, <1>2, <1>3, <1>4, <1>5 DEF Next

\* A command that is one shell command and succeeded was run by the target,
\* unless its program can meet the answer of another (nrc_xmit_wim_request_wait
\* matches answers by the command only), for any number of programs, agents,
\* tries and faults.
THEOREM SpecOkMeansRun == Spec => []OkMeansRun
  <1>1. InitCli => IInv /\ AInv
    BY Initially, AInitially
  <1>2. IInv /\ AInv /\ [Next]_allvars => (IInv /\ AInv)'
    BY StepKeeps, StepEarns
  <1>3. IInv /\ AInv => OkMeansRun
    BY DEF AInv, Answers, OkMeansRun, Fed
  <1> QED BY <1>1, <1>2, <1>3, PTL DEF Spec

-----------------------------------------------------------------------------
(* What "show signal stop" leaves behind (Cli!StopSilences).  The monitor   *)
(* is the driver's, so this is of one program on its own: whoever counts    *)
(* stations turns it on.                                                    *)

Alone == (\A c, d \in Clients : c = d) /\ "NUM" \notin Sendable

Ended == {"exited", "crashed"}
Stood(c) == reply[Rep(c)] \notin {None, "error"}

\* What the two threads of the program ask for: the reporter counts and stops in
\* its places, and the main thread waits for the one that it has told to stop.
Heeded ==
    /\ rep = [c \in Clients |-> rep[c]] /\ force = [c \in Clients |-> force[c]]
    /\ \A a \in Agents : msg[a] # None => msg[a] # "NUM"
    /\ \A c \in Clients :
        /\ at[c] = "reply" /\ run[c].policy = "stop" /\ run[c].part = 2 /\ msg[Main(c)] # None =>
              msg[Main(c)] = "STOP"
        /\ at[c] \notin Ended =>
              /\ rep[c] \in {"off", "unheard", "nap"} => msg[Rep(c)] = None /\ reply[Rep(c)] = None
              /\ rep[c] = "stop" /\ msg[Rep(c)] # None => msg[Rep(c)] = "STOP"
              /\ msg[Rep(c)] = "NUM" /\ msg[Rep(c)] # None => rep[c] = "num"
        /\ at[c] = "stopping" /\ ~force[c] => rep[c] \in {"off", "unheard"}

\* The main thread has stopped the monitor, and so has its reporter.
StoppedBoth(c) ==
    /\ \/ at[c] = "stopping" /\ run[c].got # 0
       \/ /\ at[c] = "reply" /\ run[c].policy = "stop" /\ run[c].part = 2
          /\ reply[Main(c)] \notin {None, "error"}
    /\ rep[c] = "off" \/ (rep[c] = "stop" /\ Stood(c))

\* Only what is sent to the target is waited for.
Patient == genl # None /\ phase # "run" => msg[genl] # "STOP"

SInv == Heeded /\ Patient /\ \A c \in Clients : StoppedBoth(c) => monitor = FALSE

LEMMA SInitially == InitCli => SInv
  <1> SUFFICES ASSUME InitCli PROVE SInv
    OBVIOUS
  <1>1. /\ \A t \in Threads : msg[t] = None /\ reply[t] = None
        /\ \A c \in Clients : at[c] = "prompt" /\ rep[c] = "off"
        /\ rep = [c \in Clients |-> "off"] /\ force = [c \in Clients |-> FALSE]
    BY DEF InitCli, Init
  <1>2. Heeded
    BY <1>1, Threading DEF Heeded
  <1>3. \A c \in Clients : ~StoppedBoth(c)
    BY <1>1 DEF StoppedBoth
  <1>4. Patient
    BY DEF InitCli, Init, Patient
  <1> QED BY <1>2, <1>3, <1>4 DEF SInv

LEMMA SilentKept ==
    ASSUME SInv, UNCHANGED <<run, at, rep, force, msg, reply, monitor>>, Patient'
    PROVE  SInv'
  BY DEF SInv, Heeded, StoppedBoth, Stood

\* A handler replies: the monitor is off once it was stopped, and on only once
\* somebody has counted.
LEMMA ReturnsSilent ==
    ASSUME Alone, IInv, SInv, NEW t \in Threads, NEW r, Return(t, r), msg[t] # None,
           UNCHANGED <<run, at, rep, force>>, UNCHANGED monitor \/ monitor' = FALSE \/ msg[t] = "NUM",
           msg[t] = "STOP" => r = "error" \/ monitor' = FALSE
    PROVE  SInv'
  <1> USE Threading
  <1>1. /\ \A u \in Threads : msg'[u] = IF u = t THEN None ELSE msg[u]
        /\ \A u \in Threads : u \notin Agents => reply'[u] = IF u = t THEN r ELSE reply[u]
    BY DEF IInv, Records, Return
  <1>2. Heeded'
    <2>1. \A c \in Clients : msg'[Main(c)] \in {None, msg[Main(c)]} /\ msg'[Rep(c)] \in {None, msg[Rep(c)]}
      BY <1>1
    <2>2. \A a \in Agents : msg'[a] \in {None, msg[a]}
      BY <1>1
    <2>3. \A c \in Clients : at[c] \notin Ended /\ rep[c] \in {"off", "unheard", "nap"} =>
              msg'[Rep(c)] = None /\ reply'[Rep(c)] = None
      BY <1>1 DEF SInv, Heeded
    <2> QED BY <2>1, <2>2, <2>3 DEF SInv, Heeded
  <1>3. ASSUME NEW c \in Clients, StoppedBoth(c)' PROVE monitor' = FALSE
    <2>1. t \in {Main(c), Rep(c)} \cup Agents
      BY CliAssumption DEF Alone, Main, Rep
    <2>2. CASE t = Main(c)
      <3>1. at[c] = "reply" /\ run[c].policy = "stop" /\ run[c].part = 2 /\ r # "error"
        BY <1>1, <1>3, <2>2 DEF StoppedBoth, IInv, Outside
      <3> QED BY <2>2, <3>1 DEF SInv, Heeded
    <2>3. CASE t = Rep(c)
      <3>1. rep[c] = "stop" /\ r # "error"
        BY <1>1, <1>3, <2>3 DEF StoppedBoth, Stood, SInv, Heeded, Ended
      <3> QED BY <1>3, <2>3, <3>1 DEF SInv, Heeded, StoppedBoth, Ended
    <2>4. CASE t \in Agents
      <3>1. StoppedBoth(c)
        BY <1>1, <1>3, <2>4 DEF StoppedBoth, Stood
      <3> QED BY <2>4, <3>1 DEF SInv, Heeded
    <2> QED BY <2>1, <2>2, <2>3, <2>4
  <1>4. Patient'
    BY DEF Return, Patient
  <1> QED BY <1>2, <1>3, <1>4 DEF SInv

LEMMA KernelSilent ==
    ASSUME Alone, IInv, SInv, NEW t \in Threads, Kernel(t)
    PROVE  SInv'
  <1> USE Threading
  <1>1. Handlers(t) /\ UNCHANGED <<run, at, rep, force>>
    BY DEF Kernel, cli
  <1>2. CASE Enter(t) \/ Reinit(t) \/ ShellSend(t) \/ MicScan(t)
    <2>1. UNCHANGED <<msg, reply, monitor>> /\ Patient'
      BY <1>2 DEF Enter, Reinit, ShellSend, MicScan, Handling, Shells, Patient, SInv
    <2> QED BY <1>1, <2>1, SilentKept
  <1>3. CASE Busy(t)
    BY <1>1, <1>3, ReturnsSilent DEF Busy
  <1>4. CASE ShellRefused(t) \/ ShellLeft(t) \/ NotSent(t)
    <2>1. (\E r : Return(t, r)) /\ msg[t] # "STOP" /\ UNCHANGED monitor /\ genl = t
      BY <1>4 DEF ShellRefused, ShellLeft, NotSent, Replied, Handling, Shells, Kinds
    <2> QED BY <1>1, <2>1, ReturnsSilent DEF IInv, Held
  <1>5. CASE RunSimple(t) \/ DriverCmd(t) \/ Capi(t) \/ TestAgent(t) \/ MicNoMemory(t)
    <2>1. (\E r : Return(t, r)) /\ msg[t] # "STOP" /\ UNCHANGED monitor /\ genl = t
      BY <1>5 DEF MicNoMemory, RunSimple, DriverCmd, Capi, TestAgent, Handler, Replied, Handling
    <2> QED BY <1>1, <2>1, ReturnsSilent DEF IInv, Held
  <1>6. CASE TimeOut(t)
    <2>1. /\ genl = t /\ phase = "wait" /\ Return(t, GivenUp(msg[t])) /\ UNCHANGED monitor
      BY <1>6 DEF TimeOut, Replied
    <2>2. msg[t] # "STOP" /\ msg[t] # None
      BY <2>1 DEF SInv, Patient, IInv, Held
    <2> QED BY <1>1, <2>1, <2>2, ReturnsSilent
  <1>7. CASE GetInfo(t)
    <2>1. PICK op, r :
              /\ msg[t] = op /\ genl = t /\ Return(t, r)
              /\ UNCHANGED monitor \/ monitor' = FALSE \/ op = "NUM"
              /\ op = "STOP" => r = "error" \/ monitor' = FALSE
      BY <1>7, Zenon DEF GetInfo, Handler, Replied, Handling
    <2> QED BY <1>1, <2>1, ReturnsSilent DEF IInv, Held
  <1> QED BY <1>1, <1>2, <1>3, <1>4, <1>5, <1>6, <1>7 DEF Handlers

LEMMA TargetSilent ==
    ASSUME Alone, IInv, SInv, Target \/ World, UNCHANGED cli
    PROVE  SInv'
  <1>1. UNCHANGED <<run, at, rep, force>>
    BY DEF cli
  <1>2. CASE Taken
    <2>1. PICK r : Return(genl, r)
      BY <1>2 DEF Taken, Replied
    <2>2. /\ genl \in Threads /\ msg[genl] # None /\ msg[genl] # "STOP" /\ UNCHANGED monitor
      BY <1>2 DEF Taken, Waits, IInv, Held, Records, SInv, Patient
    <2> QED BY <1>1, <2>1, <2>2, ReturnsSilent
  <1>3. CASE TargetRuns \/ Kept \/ Lost \/ World
    <2>1. UNCHANGED <<msg, reply, monitor, genl, phase>>
      BY <1>3 DEF TargetRuns, Kept, Lost, World, Down, Up, Sleeps, Relink, waiting
    <2> QED BY <1>1, <2>1, SilentKept DEF SInv, Patient
  <1> QED BY <1>2, <1>3 DEF Target

-----------------------------------------------------------------------------
\* The main thread has read its reply and goes back to the prompt or sends again.
LEMMA ReadsSilent ==
    ASSUME Alone, IInv, SInv, NEW c \in Clients, NEW P, Got(c, P), NEW p \in {"call", "prompt"},
           at' = [at EXCEPT ![c] = p], UNCHANGED <<rep, force, msg>>
    PROVE  SInv'
  <1> USE Threading
  <1>1. /\ \A d \in Clients : d = c /\ at'[d] = p
        /\ UNCHANGED <<monitor, genl, phase>> /\ at[c] = "reply"
    BY DEF Alone, Got, driver, waiting, IInv, Records
  <1>2. \A d \in Clients : reply'[Rep(d)] = reply[Rep(d)]
    BY DEF Got, IInv, Records
  <1>3. Heeded'
    BY <1>1, <1>2 DEF SInv, Heeded, Ended
  <1>4. \A d \in Clients : ~StoppedBoth(d)'
    BY <1>1 DEF StoppedBoth
  <1> QED BY <1>1, <1>3, <1>4 DEF SInv, Patient

\* A program that has ended asks for nothing.
LEMMA EndsSilent ==
    ASSUME Alone, IInv, SInv, NEW c \in Clients, NEW how \in Ended, Ends(c, how),
           UNCHANGED <<monitor, genl, phase>>, force' = [d \in Clients |-> force'[d]]
    PROVE  SInv'
  <1> USE Threading
  <1>1. /\ \A d \in Clients : d = c /\ at'[d] = how
        /\ \A t \in Threads : msg'[t] \in {None, msg[t]}
        /\ genl # None => msg'[genl] = msg[genl]
    BY DEF Alone, Ends, IInv, Records
  <1>2. rep' = [d \in Clients |-> rep'[d]] /\ force' = [d \in Clients |-> force'[d]]
    BY DEF Ends, SInv, Heeded
  <1>3. Heeded'
    BY <1>1, <1>2 DEF SInv, Heeded, Ended
  <1>4. \A d \in Clients : ~StoppedBoth(d)'
    BY <1>1 DEF StoppedBoth, Ended
  <1>5. Patient'
    BY <1>1 DEF SInv, Patient
  <1> QED BY <1>3, <1>4, <1>5 DEF SInv

LEMMA HandlersSilent ==
    ASSUME Alone, IInv, SInv, NEW c \in Clients,
           RunShell(c) \/ PlainShell(c) \/ SetBaSent(c) \/ Resend(c) \/ ShowAp(c) \/ SetMaxAgg(c)
           \/ ShowPages(c) \/ SignalPage(c) \/ ShowStats(c)
    PROVE  SInv'
  <1>1. (\E P : Got(c, P)) /\ ((\E k : Again(c, k)) \/ (\E ret : Returned(c, ret)))
    <2>1. CASE RunShell(c) \/ PlainShell(c) \/ SetBaSent(c) \/ ShowAp(c) \/ SetMaxAgg(c)
      BY <2>1, Zenon DEF RunShell, PlainShell, SetBaSent, ShowAp, SetMaxAgg
    <2>2. CASE ShowPages(c) \/ SignalPage(c)
      BY <2>2, Zenon DEF ShowPages, SignalPage, Part
    <2>3. CASE Resend(c) \/ ShowStats(c)
      BY <2>3, Zenon DEF Resend, ShowStats
    <2> QED BY <2>1, <2>2, <2>3
  <1>2. /\ \E p \in {"call", "prompt"} : at' = [at EXCEPT ![c] = p]
        /\ UNCHANGED <<rep, force, msg>>
    BY <1>1 DEF Returned, Again, Prompt
  <1> QED BY <1>1, <1>2, ReadsSilent

LEMMA CountStationsSilent ==
    ASSUME Alone, IInv, SInv, NEW c \in Clients, CountStations(c)
    PROVE  SInv'
  <1> USE Threading
  <1>1. at[c] = "reply" /\ \E P : Got(c, P)
    BY DEF CountStations, Got
  <1>2. CASE rep' = rep
    <2>1. /\ \E p \in {"call", "prompt"} : at' = [at EXCEPT ![c] = p]
          /\ UNCHANGED <<force, msg>>
      <3>1. \/ \E ret : Returned(c, ret)
            \/ \E ret : Prompt(c, ret) /\ UNCHANGED <<force, msg>>
            \/ \E k : Again(c, k)
        BY ZenonT(60) DEF CountStations, Part
      <3> QED BY <3>1 DEF Returned, Again, Prompt
    <2> QED BY <1>1, <1>2, <2>1, ReadsSilent
  <1>3. CASE rep' # rep
    <2>1. /\ ~Reporting(c) /\ rep' = [rep EXCEPT ![c] = "num"] /\ at' = [at EXCEPT ![c] = "prompt"]
          /\ UNCHANGED <<force, msg, monitor, genl, phase>>
      <3>1. /\ ~Reporting(c) /\ rep' = [rep EXCEPT ![c] = "num"] /\ Prompt(c, "SUCCESS")
            /\ UNCHANGED <<force, msg>>
        BY <1>3, ZenonT(60) DEF CountStations, Part, Again, Returned, Prompt
      <3> QED BY <1>1, <3>1 DEF Prompt, Got, driver, waiting
    <2>2. \A d \in Clients : d = c /\ at'[d] = "prompt" /\ rep'[d] = "num" /\ at[d] \notin Ended
      BY <1>1, <2>1 DEF Alone, IInv, Records, SInv, Heeded, Ended
    <2>3. \A d \in Clients : rep[d] \in {"off", "unheard"}
      BY <2>1, <2>2 DEF Reporting
    <2>4. /\ rep' = [d \in Clients |-> rep'[d]] /\ force' = [d \in Clients |-> force'[d]]
          /\ \A a \in Agents : msg'[a] # None => msg'[a] # "NUM"
      BY <2>1 DEF SInv, Heeded
    <2>5. Heeded'
      BY <2>2, <2>4 DEF Heeded, Ended
    <2>6. \A d \in Clients : ~StoppedBoth(d)'
      BY <2>2 DEF StoppedBoth
    <2> QED BY <2>1, <2>5, <2>6 DEF SInv, Patient
  <1> QED BY <1>2, <1>3

LEMMA ShowSysconfigSilent ==
    ASSUME Alone, IInv, SInv, NEW c \in Clients, ShowSysconfig(c)
    PROVE  SInv'
  <1>1. Got(c, {"sysconfig"})
    BY DEF ShowSysconfig
  <1>2. CASE Ends(c, "crashed") /\ UNCHANGED force
    <2>1. UNCHANGED <<monitor, genl, phase>> /\ force' = [d \in Clients |-> force'[d]]
      BY <1>1, <1>2 DEF Got, driver, waiting, SInv, Heeded
    <2> QED BY <1>2, <2>1, EndsSilent DEF Ended
  <1>3. CASE ~(Ends(c, "crashed") /\ UNCHANGED force)
    <2>1. (\E k : Again(c, k)) \/ (\E ret : Returned(c, ret))
      BY <1>3, Zenon DEF ShowSysconfig
    <2>2. /\ \E p \in {"call", "prompt"} : at' = [at EXCEPT ![c] = p]
          /\ UNCHANGED <<rep, force, msg>>
      BY <2>1 DEF Returned, Again, Prompt
    <2> QED BY <1>1, <2>2, ReadsSilent
  <1> QED BY <1>2, <1>3

LEMMA StopsSilent ==
    ASSUME Alone, IInv, AInv, SInv, NEW c \in Clients, ForceStop(c) \/ Stopped(c)
    PROVE  SInv'
  <1> USE Threading
  <1>1. CASE ForceStop(c)
    <2>1. /\ Got(c, {"stop"}) /\ run[c].part = 2 /\ at[c] = "reply" /\ run[c].policy = "stop"
          /\ force' = [force EXCEPT ![c] = TRUE] /\ at' = [at EXCEPT ![c] = "stopping"]
          /\ run' = [run EXCEPT ![c].got = IF reply[Main(c)] = "error" THEN 0 ELSE 1]
          /\ UNCHANGED <<rep, msg, monitor, genl, phase>> /\ reply[Main(c)] # None
      BY <1>1 DEF ForceStop, Got, driver, waiting
    <2>2. /\ \A d \in Clients : d = c /\ at'[d] = "stopping" /\ force'[d] = TRUE
          /\ \A d \in Clients : reply'[Rep(d)] = reply[Rep(d)]
      BY <2>1 DEF Alone, IInv, Records, SInv, Heeded, Got
    <2>3. run'[c].got # 0 => reply[Main(c)] # "error"
      <3>1. run[c] \in Jobs /\ run \in [Clients -> Jobs \cup {None}]
        BY <2>1 DEF AInv, RunTypes, Working
      <3>2. run'[c] = [run[c] EXCEPT !.got = IF reply[Main(c)] = "error" THEN 0 ELSE 1]
        BY <2>1, <3>1
      <3> QED BY <3>1, <3>2 DEF Jobs
    <2>4. rep' = [d \in Clients |-> rep'[d]] /\ force' = [d \in Clients |-> force'[d]]
      BY <2>1 DEF SInv, Heeded
    <2>5. Heeded'
      BY <2>1, <2>2, <2>4 DEF SInv, Heeded, Ended
    <2>6. \A d \in Clients : StoppedBoth(d)' => StoppedBoth(d)
      BY <2>1, <2>2, <2>3 DEF StoppedBoth, Stood
    <2> QED BY <2>1, <2>5, <2>6 DEF SInv, Patient
  <1>2. CASE Stopped(c)
    <2>1. /\ at' = [at EXCEPT ![c] = "prompt"] /\ at[c] = "stopping"
          /\ UNCHANGED <<rep, force, msg, reply, monitor, genl, phase>>
      BY <1>2 DEF Stopped, Prompt, driver, waiting
    <2>2. \A d \in Clients : d = c /\ at'[d] = "prompt"
      BY <2>1 DEF Alone, IInv, Records
    <2>3. Heeded'
      BY <2>1, <2>2 DEF SInv, Heeded, Ended
    <2>4. \A d \in Clients : ~StoppedBoth(d)'
      BY <2>2 DEF StoppedBoth
    <2> QED BY <2>1, <2>3, <2>4 DEF SInv, Patient
  <1> QED BY <1>1, <1>2

LEMMA SendSilent ==
    ASSUME Alone, IInv, SInv, NEW c \in Clients, Send(c)
    PROVE  SInv'
  <1> USE Threading
  <1>1. /\ at[c] = "call" /\ at' = [at EXCEPT ![c] = "reply"]
        /\ msg' = [msg EXCEPT ![Main(c)] = Op(run[c].policy, run[c].part)]
        /\ UNCHANGED <<run, rep, force, reply, monitor, genl, phase>>
    BY DEF Send, driver, waiting
  <1>2. /\ \A d \in Clients : d = c /\ at'[d] = "reply" /\ at[d] = "call"
        /\ \A t \in Threads : msg'[t] = IF t = Main(c) THEN Op(run[c].policy, run[c].part) ELSE msg[t]
        /\ msg[Main(c)] = None /\ reply[Main(c)] = None
    BY <1>1 DEF Alone, IInv, Records, Outside
  <1>3. run[c].policy = "stop" /\ run[c].part = 2 => Op(run[c].policy, run[c].part) = "STOP"
    BY DEF Op
  <1>4. Heeded'
    BY <1>1, <1>2, <1>3 DEF SInv, Heeded, Ended
  <1>5. \A d \in Clients : ~StoppedBoth(d)'
    BY <1>1, <1>2 DEF StoppedBoth
  <1>6. Patient'
    BY <1>1, <1>2 DEF SInv, Patient, IInv, Held, Records
  <1> QED BY <1>4, <1>5, <1>6 DEF SInv

LEMMA HandlesSilent ==
    ASSUME Alone, IInv, AInv, SInv, NEW c \in Clients, Handles(c)
    PROVE  SInv'
  BY SendSilent, HandlersSilent, ShowSysconfigSilent, CountStationsSilent, StopsSilent DEF Handles

\* A line is typed: the main thread is not in the driver yet.
LEMMA TypeSilent ==
    ASSUME Alone, IInv, SInv, NEW c \in Clients, Type(c)
    PROVE  SInv'
  <1>1. /\ at[c] = "prompt" /\ UNCHANGED <<reply, monitor, genl, phase>>
        /\ \/ Ends(c, "crashed") /\ UNCHANGED force
           \/ Ends(c, "exited") /\ force' = [force EXCEPT ![c] = @ \/ Reporting(c)]
           \/ /\ UNCHANGED <<rep, force, msg>>
              /\ UNCHANGED at \/ at' = [at EXCEPT ![c] = "call"]
    BY Zenon DEF Type, driver, waiting
  <1>2. CASE (\E how \in Ended : Ends(c, how)) /\ force' = [d \in Clients |-> force'[d]]
    BY <1>1, <1>2, EndsSilent
  <1>3. CASE UNCHANGED <<rep, force, msg>> /\ (UNCHANGED at \/ at' = [at EXCEPT ![c] = "call"])
    <2>1. \A d \in Clients : d = c /\ at'[d] \in {"prompt", "call"} /\ at[d] \notin Ended
      BY <1>1, <1>3 DEF Alone, IInv, Records, Ended
    <2>2. Heeded'
      BY <1>1, <1>3, <2>1 DEF SInv, Heeded, Ended
    <2>3. \A d \in Clients : ~StoppedBoth(d)'
      BY <2>1 DEF StoppedBoth
    <2> QED BY <1>1, <1>3, <2>2, <2>3 DEF SInv, Patient
  <1>4. force = [d \in Clients |-> force[d]]
    BY DEF SInv, Heeded
  <1> QED BY <1>1, <1>2, <1>3, <1>4 DEF Ended

-----------------------------------------------------------------------------
(* The reporter and the agents.                                            *)

\* The reporter asks for what its place says.
LEMMA RepSendSilent ==
    ASSUME Alone, IInv, SInv, NEW c \in Clients, RepSend(c)
    PROVE  SInv'
  <1> USE Threading
  <1> DEFINE op == CASE rep[c] = "num" -> "NUM" [] rep[c] = "page" -> "PAGE" [] OTHER -> "STOP"
  <1>1. /\ rep[c] \in {"num", "page", "stop"} /\ msg[Rep(c)] = None /\ reply[Rep(c)] = None
        /\ msg' = [msg EXCEPT ![Rep(c)] = op]
        /\ UNCHANGED <<run, at, rep, force, reply, monitor, genl, phase>>
    BY Zenon DEF RepSend, driver, waiting, cli
  <1>2. /\ \A d \in Clients : d = c
        /\ \A t \in Threads : msg'[t] = IF t = Rep(c) THEN op ELSE msg[t]
    BY <1>1 DEF Alone, IInv, Records
  <1>3. op = "NUM" <=> rep[c] = "num"
    BY <1>1
  <1>4. rep[c] = "stop" => op = "STOP"
    OBVIOUS
  <1> HIDE DEF op
  <1>5. Heeded'
    BY <1>1, <1>2, <1>3, <1>4 DEF SInv, Heeded, Ended
  <1>6. \A d \in Clients : StoppedBoth(d)' => StoppedBoth(d)
    BY <1>1, <1>2 DEF StoppedBoth, Stood
  <1>7. Patient'
    BY <1>1, <1>2 DEF SInv, Patient, IInv, Held, Records
  <1> QED BY <1>1, <1>5, <1>6, <1>7 DEF SInv

\* It reads a reply: only the reply to its own stop ends it.
LEMMA RepReplySilent ==
    ASSUME Alone, IInv, SInv, NEW c \in Clients, RepReply(c)
    PROVE  SInv'
  <1> USE Threading
  <1>1. /\ reply[Rep(c)] # None /\ reply' = [reply EXCEPT ![Rep(c)] = None]
        /\ UNCHANGED <<run, monitor, genl, phase>>
    BY Zenon DEF RepReply, driver, waiting
  <1>2. /\ \A d \in Clients : d = c
        /\ \A t \in Threads : reply'[t] = IF t = Rep(c) THEN None ELSE reply[t]
        /\ msg[Rep(c)] = None
    BY <1>1 DEF Alone, IInv, Records, Either
  <1>3. rep = [d \in Clients |-> rep[d]] /\ force = [d \in Clients |-> force[d]]
    BY DEF SInv, Heeded
  <1>4. CASE Ends(c, "crashed") /\ UNCHANGED force
    BY <1>1, <1>3, <1>4, EndsSilent DEF Ended
  <1>5. CASE UNCHANGED <<at, msg>> /\ rep[c] \in {"num", "page"} /\ rep'[c] \in {"num", "page", "nap"}
             /\ rep' = [rep EXCEPT ![c] = rep'[c]] /\ force' = [force EXCEPT ![c] = force'[c]]
             /\ (force[c] => force'[c])
    <2>1. Heeded'
      BY <1>1, <1>2, <1>3, <1>5 DEF SInv, Heeded, Ended
    <2>2. \A d \in Clients : ~StoppedBoth(d)'
      BY <1>2, <1>5 DEF StoppedBoth
    <2> QED BY <1>1, <1>5, <2>1, <2>2 DEF SInv, Patient
  <1>6. CASE UNCHANGED <<at, msg>> /\ rep[c] = "stop"
             /\ rep' = [rep EXCEPT ![c] = IF reply[Rep(c)] = "error" THEN "unheard" ELSE "off"]
             /\ force' = [force EXCEPT ![c] = FALSE]
    <2>1. Heeded'
      BY <1>1, <1>2, <1>3, <1>6, ZenonT(30) DEF SInv, Heeded, Ended
    <2>2. \A d \in Clients : StoppedBoth(d)' => StoppedBoth(d)
      BY <1>1, <1>2, <1>3, <1>6 DEF StoppedBoth, Stood
    <2> QED BY <1>1, <1>6, <2>1, <2>2 DEF SInv, Patient
  <1>7. \/ Ends(c, "crashed") /\ UNCHANGED force
        \/ rep[c] = "num" /\ UNCHANGED <<at, rep, force, msg>>
        \/ rep[c] \in {"num", "page"} /\ RoundOver(c)
        \/ rep[c] = "num" /\ rep' = [rep EXCEPT ![c] = "page"] /\ UNCHANGED <<at, force, msg>>
        \/ /\ rep[c] = "stop" /\ UNCHANGED <<at, msg>> /\ force' = [force EXCEPT ![c] = FALSE]
           /\ rep' = [rep EXCEPT ![c] = IF reply[Rep(c)] = "error" THEN "unheard" ELSE "off"]
    BY Zenon DEF RepReply
  <1> QED BY <1>3, <1>4, <1>5, <1>6, <1>7 DEF RoundOver

LEMMA RepNapSilent ==
    ASSUME Alone, IInv, SInv, NEW c \in Clients, RepNap(c)
    PROVE  SInv'
  <1>1. /\ rep[c] = "nap" /\ rep' = [rep EXCEPT ![c] = IF force[c] THEN "stop" ELSE "num"]
        /\ UNCHANGED <<run, at, force, msg, reply, monitor, genl, phase>>
    BY Zenon DEF RepNap, driver, waiting
  <1>2. \A d \in Clients : d = c /\ rep'[d] \in {"stop", "num"}
    BY <1>1 DEF Alone, SInv, Heeded
  <1>3. Heeded'
    BY <1>1, <1>2 DEF SInv, Heeded, Ended
  <1>4. \A d \in Clients : ~StoppedBoth(d)'
    BY <1>1, <1>2 DEF StoppedBoth, Stood, SInv, Heeded, Ended
  <1> QED BY <1>1, <1>3, <1>4 DEF SInv, Patient

LEMMA AgentSendSilent ==
    ASSUME Alone, IInv, SInv, NEW a \in Agents, AgentSend(a)
    PROVE  SInv'
  <1> USE Threading
  <1>1. /\ msg[a] = None /\ \E op \in Sendable : msg' = [msg EXCEPT ![a] = op]
        /\ UNCHANGED <<run, at, rep, force, reply, monitor, genl, phase>>
    BY DEF AgentSend, driver, waiting
  <1>2. /\ \A t \in Threads : t # a => msg'[t] = msg[t]
        /\ msg'[a] # "NUM"
    BY <1>1 DEF Alone, IInv, Records
  <1>3. Heeded'
    BY <1>1, <1>2 DEF SInv, Heeded, Ended
  <1>4. \A d \in Clients : StoppedBoth(d)' => StoppedBoth(d)
    BY <1>1 DEF StoppedBoth, Stood
  <1>5. Patient'
    BY <1>1, <1>2 DEF SInv, Patient, IInv, Held, Records
  <1> QED BY <1>1, <1>3, <1>4, <1>5 DEF SInv

LEMMA StepSilent ==
    ASSUME Alone, IInv, AInv, SInv, [Next]_allvars
    PROVE  SInv'
  <1>1. CASE \E c \in Clients : Type(c) \/ Handles(c)
    BY <1>1, TypeSilent, HandlesSilent
  <1>2. CASE \E c \in Clients : Reporter(c)
    BY <1>2, RepSendSilent, RepReplySilent, RepNapSilent DEF Reporter
  <1>3. CASE \E a \in Agents : AgentSend(a)
    BY <1>3, AgentSendSilent
  <1>4. CASE \E t \in Threads : Kernel(t)
    BY <1>4, KernelSilent
  <1>5. CASE (Target \/ World) /\ UNCHANGED cli
    BY <1>5, TargetSilent
  <1>6. CASE UNCHANGED allvars
    <2>1. UNCHANGED <<run, at, rep, force, msg, reply, monitor, genl, phase>>
      BY <1>6 DEF allvars, vars, waiting, cli
    <2> QED BY <2>1, SilentKept DEF SInv, Patient
  <1> QED BY <1>1, <1>2, <1>3, <1>4, <1>5, <1>6 DEF Next

\* Of one program, "show signal stop" that has stopped a reporter leaves the
\* monitor of the driver off, unless the driver refused one of the two requests
\* (cmd_show_signal, showRxThreadRun), whatever the agents of the test suites
\* send that is not a count of stations, and for any number of tries and faults.
THEOREM SpecStopSilences == ASSUME Alone PROVE Spec => StopSilences
  <1>1. InitCli => IInv /\ AInv /\ SInv
    BY Initially, AInitially, SInitially
  <1>2. IInv /\ AInv /\ SInv /\ [Next]_allvars => (IInv /\ AInv /\ SInv)'
    BY StepKeeps, StepEarns, StepSilent
  <1>3. SInv => [\A c \in Clients : Stopped(c) => ~monitor \/ run[c].got = 0 \/ rep[c] = "unheard"]_allvars
    <2> SUFFICES ASSUME SInv, NEW c \in Clients, Stopped(c)
                 PROVE  ~monitor \/ run[c].got = 0 \/ rep[c] = "unheard"
      BY Zenon
    <2>1. at[c] = "stopping" /\ ~force[c]
      BY DEF Stopped
    <2>2. rep[c] \in {"off", "unheard"}
      BY <2>1 DEF SInv, Heeded, Ended
    <2>3. CASE rep[c] = "off" /\ run[c].got # 0
      <3>1. monitor = FALSE
        BY <2>1, <2>3 DEF SInv, StoppedBoth
      <3> QED BY <3>1
    <2> QED BY <2>2, <2>3
  <1> QED BY <1>1, <1>2, <1>3, PTL DEF Spec, StopSilences
=============================================================================
