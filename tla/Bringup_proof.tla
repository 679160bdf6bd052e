---------------------------- MODULE Bringup_proof ----------------------------
(* What the driver has taken at each point of its start, restart and       *)
(* removal (Bringup!AllOrNothing), and that the image arrives whole        *)
(* (Bringup!Loaded), for every length of image and fragment and any number *)
(* of retries.  The invariants hold until a removal meets a restart, which *)
(* the properties except (Bringup!overlap).                                *)
EXTENDS Bringup, TLAPS

\* One thread is at work at a time.
Alone == /\ pc \in [Threads -> Places] /\ have \subseteq Memory \cup Running
         /\ Idle("main") \/ Idle("worker")

(***************************************************************************)
(* What there is (h), whether the link is started (s) and the state of the *)
(* driver (d) while thread t is at a place.  The restart worker keeps the  *)
(* registered hw.                                                          *)
(***************************************************************************)
Receiving == {"rx", "irq"}
Needed == Memory \cup (Running \ {"debugfs"})
Kept(t) == Memory \cup (IF t = "main" THEN {} ELSE {"hw"})

Probing(t, place, h, s) ==
    /\ t = "main" /\ place = "priv" => h = {} /\ ~s
    /\ t = "main" /\ place \in {"gpio", "free_priv"} => h = {"priv"} /\ ~s
    /\ t = "main" /\ place \in {"hif", "free_gpio"} => h = {"priv", "gpio"} /\ ~s
    /\ t = "main" /\ place \in {"reset", "read", "nw", "free_hif"} =>
          h = {"priv", "gpio", "hif"} /\ ~s
    /\ t = "main" /\ place = "free_nw" => h = Memory /\ ~s
    /\ t = "worker" /\ place = "read" => h = Kept(t) /\ ~s
    /\ place = "idle" => IF "hw" \in h THEN Needed \subseteq h /\ s ELSE h = {} /\ ~s

Starting(t, place, h, s) ==
    /\ place \in {"check", "frag", "next", "ready", "hifstart"} => h = Kept(t) /\ ~s
    /\ place \in {"fwstart", "return"} =>
          Kept(t) \subseteq h /\ h \subseteq Kept(t) \cup Receiving /\ s
    /\ place = "netlink" => h = Kept(t) \cup Receiving /\ s
    /\ place = "register" => h = Kept(t) \cup Receiving \cup {"netlink"} /\ s

Stopping(t, place, h, s) ==
    /\ place = "stop" => Needed \subseteq h /\ s
    /\ place = "unregister" =>
          Memory \cup Receiving \cup {"hw"} \subseteq h /\ "netlink" \notin h /\ s
    /\ place = "close" => /\ Kept(t) \cup Receiving \subseteq h /\ s
                          /\ h \subseteq Kept(t) \cup Receiving \cup {"debugfs"}

Fits(t, place, h, s, d) ==
    /\ Probing(t, place, h, s) /\ Starting(t, place, h, s) /\ Stopping(t, place, h, s)
    /\ place \in {"fwstart", "netlink", "register", "stop"} => d = "START"
    /\ place = "idle" /\ "hw" \in h => d = "START"

\* A failed restart is the exception: it leaves the hw to nobody.
Still == Idle("main") /\ Idle("worker")
Accounted ==
    ~stranded => \A t \in Threads : ~Idle(t) \/ Still => Fits(t, pc[t], have, started, drv)

-----------------------------------------------------------------------------
LEMMA Initially == Init => Alone /\ Accounted
  BY DEF Init, Alone, Accounted, Fits, Probing, Starting, Stopping, Idle, Still, Threads,
         Places, Memory, Running

\* A step moves one thread, which is at work or the first of both.
LEMMA MoveKeeps ==
    ASSUME Alone, NEW t \in Threads, NEW to \in Places,
           pc' = [pc EXCEPT ![t] = to], have' \subseteq Memory \cup Running,
           ~Idle(t) \/ Still, ~stranded' => Fits(t, to, have', started', drv')
    PROVE  Alone' /\ Accounted'
  <1>1. /\ pc'[t] = to /\ \A u \in Threads : u # t => pc'[u] = "idle"
        /\ pc' \in [Threads -> Places]
    BY DEF Alone, Idle, Still, Threads
  <1>2. Alone'
    BY <1>1 DEF Alone, Idle, Threads
  <1>3. ASSUME NEW u \in Threads, ~stranded', u # t, Still'
        PROVE  Fits(u, pc'[u], have', started', drv')
    BY <1>1, <1>3 DEF Still, Idle, Threads, Fits, Probing, Starting, Stopping
  <1> QED BY <1>1, <1>2, <1>3 DEF Accounted, Idle

LEMMA StayKeeps ==
    ASSUME Alone, Accounted, UNCHANGED <<pc, have, started, drv, stranded>>
    PROVE  Alone' /\ Accounted'
  BY DEF Alone, Accounted, Idle, Still

\* What fits the place of a thread at work.
LEMMA Fitting ==
    ASSUME Accounted, NEW t \in Threads, pc[t] # "idle", ~stranded
    PROVE  Fits(t, pc[t], have, started, drv)
  BY DEF Accounted, Idle

-----------------------------------------------------------------------------
(* The probe takes and gives back one thing after the other.               *)

LEMMA TakesKeep ==
    ASSUME Alone, Accounted,
           AllocPriv \/ AllocGpio \/ AllocHif \/ AllocNw \/ ResetDevice
    PROVE  Alone' /\ Accounted'
  <1>1. CASE AllocPriv
    <2>1. /\ pc["main"] = "priv" /\ pc' = [pc EXCEPT !["main"] = "gpio"]
          /\ have' = have \cup {"priv"} /\ UNCHANGED <<started, stranded>>
      BY <1>1 DEF AllocPriv, Take, Step, Goto
    <2>2. ~stranded' => Fits("main", "gpio", have', started', drv')
      BY <2>1, Fitting DEF Fits, Probing, Starting, Stopping, Kept, Threads, Memory
    <2> QED BY <2>1, <2>2, MoveKeeps DEF Alone, Idle, Threads, Places, Memory, Running
  <1>2. CASE AllocGpio
    <2>1. /\ pc["main"] = "gpio" /\ pc' = [pc EXCEPT !["main"] = "hif"]
          /\ have' = have \cup {"gpio"} /\ UNCHANGED <<started, stranded>>
      BY <1>2 DEF AllocGpio, Take, Step, Goto
    <2>2. ~stranded' => Fits("main", "hif", have', started', drv')
      BY <2>1, Fitting DEF Fits, Probing, Starting, Stopping, Kept, Threads, Memory
    <2> QED BY <2>1, <2>2, MoveKeeps DEF Alone, Idle, Threads, Places, Memory, Running
  <1>3. CASE AllocHif
    <2>1. /\ pc["main"] = "hif" /\ pc' = [pc EXCEPT !["main"] = "reset"]
          /\ have' = have \cup {"hif"} /\ UNCHANGED <<started, stranded>>
      BY <1>3 DEF AllocHif, Take, Step, Goto
    <2>2. ~stranded' => Fits("main", "reset", have', started', drv')
      BY <2>1, Fitting DEF Fits, Probing, Starting, Stopping, Kept, Threads, Memory
    <2> QED BY <2>1, <2>2, MoveKeeps DEF Alone, Idle, Threads, Places, Memory, Running
  <1>4. CASE AllocNw
    <2>1. /\ pc["main"] = "nw" /\ pc' = [pc EXCEPT !["main"] = "check"]
          /\ have' = have \cup {"nw"} /\ UNCHANGED <<started, stranded>>
      BY <1>4 DEF AllocNw, Step, Goto
    <2>2. ~stranded' => Fits("main", "check", have', started', drv')
      BY <2>1, Fitting DEF Fits, Probing, Starting, Stopping, Kept, Threads, Memory
    <2> QED BY <2>1, <2>2, MoveKeeps DEF Alone, Idle, Threads, Places, Memory, Running
  <1>5. CASE ResetDevice
    <2>1. /\ pc["main"] = "reset" /\ pc' = [pc EXCEPT !["main"] = "read"]
          /\ have' = have /\ UNCHANGED <<started, stranded>>
      BY <1>5 DEF ResetDevice, Step, Goto
    <2>2. ~stranded' => Fits("main", "read", have', started', drv')
      BY <2>1, Fitting DEF Fits, Probing, Starting, Stopping, Kept, Threads, Memory
    <2> QED BY <2>1, <2>2, MoveKeeps DEF Alone, Idle, Threads, Places, Memory, Running
  <1> QED BY <1>1, <1>2, <1>3, <1>4, <1>5

LEMMA GivesKeep ==
    ASSUME Alone, Accounted,
           GpioFails \/ FreeNw \/ FreeHif \/ FreeGpio \/ FreePriv
    PROVE  Alone' /\ Accounted'
  <1>1. CASE GpioFails
    <2>1. /\ pc["main"] = "gpio" /\ pc' = [pc EXCEPT !["main"] = "free_priv"]
          /\ have' = have \ {"gpio"} /\ UNCHANGED <<started, stranded>>
      BY <1>1 DEF GpioFails, Give, Step, Goto, Idle
    <2>2. ~stranded' => Fits("main", "free_priv", have', started', drv')
      BY <2>1, Fitting DEF Fits, Probing, Starting, Stopping, Kept, Threads, Memory
    <2> QED BY <2>1, <2>2, MoveKeeps DEF Alone, Idle, Threads, Places, Memory, Running
  <1>2. CASE FreeNw
    <2>1. /\ pc["main"] = "free_nw" /\ pc' = [pc EXCEPT !["main"] = "free_hif"]
          /\ have' = have \ {"nw"} /\ UNCHANGED <<started, stranded>>
      BY <1>2 DEF FreeNw, Give, Step, Goto, Idle
    <2>2. ~stranded' => Fits("main", "free_hif", have', started', drv')
      BY <2>1, Fitting DEF Fits, Probing, Starting, Stopping, Kept, Threads, Memory
    <2> QED BY <2>1, <2>2, MoveKeeps DEF Alone, Idle, Threads, Places, Memory, Running
  <1>3. CASE FreeHif
    <2>1. /\ pc["main"] = "free_hif" /\ pc' = [pc EXCEPT !["main"] = "free_gpio"]
          /\ have' = have \ {"hif"} /\ UNCHANGED <<started, stranded>>
      BY <1>3 DEF FreeHif, Give, Step, Goto, Idle
    <2>2. ~stranded' => Fits("main", "free_gpio", have', started', drv')
      BY <2>1, Fitting DEF Fits, Probing, Starting, Stopping, Kept, Threads, Memory
    <2> QED BY <2>1, <2>2, MoveKeeps DEF Alone, Idle, Threads, Places, Memory, Running
  <1>4. CASE FreeGpio
    <2>1. /\ pc["main"] = "free_gpio" /\ pc' = [pc EXCEPT !["main"] = "free_priv"]
          /\ have' = have \ {"gpio"} /\ UNCHANGED <<started, stranded>>
      BY <1>4 DEF FreeGpio, Give, Step, Goto, Idle
    <2>2. ~stranded' => Fits("main", "free_priv", have', started', drv')
      BY <2>1, Fitting DEF Fits, Probing, Starting, Stopping, Kept, Threads, Memory
    <2> QED BY <2>1, <2>2, MoveKeeps DEF Alone, Idle, Threads, Places, Memory, Running
  <1>5. CASE FreePriv
    <2>1. /\ pc["main"] = "free_priv" /\ pc' = [pc EXCEPT !["main"] = "idle"]
          /\ have' = have \ {"priv"} /\ UNCHANGED <<started, stranded>>
      BY <1>5 DEF FreePriv, Give, Step, Goto, Idle
    <2>2. ~stranded' => Fits("main", "idle", have', started', drv')
      BY <2>1, Fitting DEF Fits, Probing, Starting, Stopping, Kept, Threads, Memory
    <2> QED BY <2>1, <2>2, MoveKeeps DEF Alone, Idle, Threads, Places, Memory, Running
  <1> QED BY <1>1, <1>2, <1>3, <1>4, <1>5

-----------------------------------------------------------------------------
(* The probe of the target and the start, by either thread.                *)

\* A thread at work goes from a place that fits to one that fits.
LEMMA WorkKeeps ==
    ASSUME Alone, Accounted, NEW t \in Threads, pc[t] # "idle", NEW to \in Places,
           pc' = [pc EXCEPT ![t] = to], have' \subseteq have \cup Running, stranded => stranded',
           Fits(t, pc[t], have, started, drv) /\ ~stranded' =>
               Fits(t, to, have', started', drv')
    PROVE  Alone' /\ Accounted'
  BY MoveKeeps, Fitting DEF Alone, Idle

LEMMA ErrorGoes ==
    ASSUME NEW t \in Threads, Error(t)
    PROVE  \/ t = "main" /\ pc' = [pc EXCEPT ![t] = "free_nw"] /\ UNCHANGED stranded
           \/ t = "worker" /\ pc' = [pc EXCEPT ![t] = "idle"] /\ stranded' = TRUE
  BY DEF Error, Goto, Threads

LEMMA ReadsKeep ==
    ASSUME Alone, Accounted, NEW t \in Threads, ReadFails(t) \/ NotReady(t) \/ Probed(t)
    PROVE  Alone' /\ Accounted'
  <1>1. pc[t] = "read" /\ UNCHANGED <<have, started, drv, stranded>>
    BY DEF ReadFails, NotReady, Probed
  <1>2. CASE UNCHANGED pc
    BY <1>1, <1>2, StayKeeps
  <1>3. CASE \E to \in IF t = "main" THEN {"reset", "nw", "free_hif"} ELSE {"check"} :
               pc' = [pc EXCEPT ![t] = to]
    <2>1. PICK to \in IF t = "main" THEN {"reset", "nw", "free_hif"} ELSE {"check"} :
               pc' = [pc EXCEPT ![t] = to]
      BY <1>3
    <2>2. to \in Places
      BY DEF Places
    <2>3. Fits(t, pc[t], have, started, drv) => Fits(t, to, have', started', drv')
      BY <1>1, <2>1 DEF Fits, Probing, Starting, Stopping, Kept, Threads
    <2> QED BY <1>1, <2>1, <2>2, <2>3, WorkKeeps
  <1> QED BY <1>2, <1>3 DEF ReadFails, NotReady, Probed, ProbeFails, Goto, Threads

\* From the check to the firmware, nothing is taken.
LEMMA DownloadsKeep ==
    ASSUME Alone, Accounted, NEW t \in Threads,
           Check(t) \/ SendFrag(t) \/ LoseFrag(t) \/ AckFails(t) \/ NextFrag(t) \/ CheckFails(t) \/ PollReady(t)
    PROVE  Alone' /\ Accounted'
  <1>1. pc[t] \in {"check", "frag", "next", "ready"} /\ UNCHANGED <<have, started, drv>>
    BY DEF Check, SendFrag, LoseFrag, AckFails, NextFrag, CheckFails, PollReady, Step
  <1>2. CASE Error(t)
    <2>1. PICK to \in {"free_nw", "idle"} :
            /\ pc' = [pc EXCEPT ![t] = to] /\ (to = "free_nw" => t = "main")
            /\ to = "idle" => stranded'
            /\ stranded => stranded'
      BY <1>2, ErrorGoes
    <2>2. Fits(t, pc[t], have, started, drv) /\ ~stranded' => Fits(t, to, have', started', drv')
      BY <1>1, <2>1 DEF Fits, Probing, Starting, Stopping, Kept, Threads
    <2> QED BY <1>1, <2>1, <2>2, WorkKeeps DEF Places
  <1>3. CASE UNCHANGED <<pc, stranded>>
    BY <1>1, <1>3, StayKeeps
  <1>4. CASE UNCHANGED stranded /\ \E to \in {"frag", "next", "ready", "hifstart", "hung", "oops"} :
               pc' = [pc EXCEPT ![t] = to]
    <2>1. PICK to \in {"frag", "next", "ready", "hifstart", "hung", "oops"} : pc' = [pc EXCEPT ![t] = to]
      BY <1>4
    <2>2. Fits(t, pc[t], have, started, drv) => Fits(t, to, have', started', drv')
      BY <1>1, <2>1 DEF Fits, Probing, Starting, Stopping, Kept, Threads
    <2>3. pc[t] # "idle" /\ to \in Places
      BY <1>1, <2>1 DEF Places
    <2> QED BY <1>1, <1>4, <2>1, <2>2, <2>3, WorkKeeps
  <1> QED BY <1>2, <1>3, <1>4
          DEF Check, SendFrag, LoseFrag, AckFails, NextFrag, CheckFails, PollReady, CheckFwFile, Goto, Step

LEMMA HifStartKeeps ==
    ASSUME Alone, Accounted, NEW t \in Threads, HifStart(t)
    PROVE  Alone' /\ Accounted'
  <1>1. PICK to \in {"fwstart", "return", "oops"} :
            /\ pc[t] = "hifstart" /\ pc' = [pc EXCEPT ![t] = to]
            /\ have' \in {have, have \cup Receiving} /\ started' = TRUE /\ drv' = "START"
            /\ UNCHANGED stranded
    BY DEF HifStart, Goto, Receiving
  <1>2. Fits(t, pc[t], have, started, drv) => Fits(t, to, have', started', drv')
    BY <1>1 DEF Fits, Probing, Starting, Stopping, Threads
  <1>3. to \in Places /\ pc[t] # "idle" /\ have' \subseteq have \cup Running
    BY <1>1 DEF Places, Receiving, Running
  <1> QED BY <1>1, <1>2, <1>3, WorkKeeps

LEMMA FwStartKeeps ==
    ASSUME Alone, Accounted, NEW t \in Threads,
           FwStart(t) \/ FwTimeout(t) \/ NetlinkInit(t) \/ NetlinkFails(t)
    PROVE  Alone' /\ Accounted'
  <1>1. UNCHANGED <<started, drv, stranded>>
    BY DEF FwStart, FwTimeout, NetlinkInit, NetlinkFails, Take, Give
  <1>2. PICK to \in {"netlink", "return", "register"} :
            /\ pc[t] \in {"fwstart", "netlink"} /\ pc' = [pc EXCEPT ![t] = to]
            /\ \/ pc[t] = "fwstart" /\ to = "netlink" /\ have' = have /\ Receiving \subseteq have
               \/ to = "return" /\ have' = IF pc[t] = "netlink" THEN have \ {"netlink"} ELSE have
               \/ pc[t] = "netlink" /\ to = "register" /\ have' = have \cup {"netlink"}
    BY DEF FwStart, FwTimeout, NetlinkInit, NetlinkFails, Take, Give, Step, Goto, Receiving
  <1>3. Fits(t, pc[t], have, started, drv) => Fits(t, to, have', started', drv')
    BY <1>1, <1>2 DEF Fits, Probing, Starting, Stopping, Kept, Memory, Receiving
  <1> QED BY <1>1, <1>2, <1>3, WorkKeeps DEF Places, Running

-----------------------------------------------------------------------------
(* The ends of a start, the restart and the removal.                       *)

LEMMA RegisterKeeps ==
    ASSUME Alone, Accounted, Register \/ RestartHw
    PROVE  Alone' /\ Accounted'
  <1>1. PICK t \in Threads :
            /\ pc[t] = "register" /\ pc' = [pc EXCEPT ![t] = "idle"]
            /\ have' = IF t = "main" THEN have \cup {"hw", "debugfs"} ELSE have
            /\ UNCHANGED <<started, drv, stranded>>
    BY DEF Register, RestartHw, Step, Goto, Threads
  <1>2. ASSUME Fits(t, pc[t], have, started, drv) PROVE Fits(t, "idle", have', started', drv')
    <2>1. have = Kept(t) \cup Receiving \cup {"netlink"} /\ started /\ drv = "START"
      BY <1>1, <1>2 DEF Fits, Starting
    <2>2. Needed \subseteq have'
      <3>1. CASE t = "main"
        BY <1>1, <2>1, <3>1 DEF Kept, Needed, Receiving, Running, Memory
      <3>2. CASE t = "worker"
        BY <1>1, <2>1, <3>2 DEF Kept, Needed, Receiving, Running, Memory
      <3> QED BY <3>1, <3>2 DEF Threads
    <2>3. "hw" \in have'
      BY <2>2 DEF Needed, Running
    <2> QED BY <1>1, <2>1, <2>2, <2>3 DEF Fits, Probing, Starting, Stopping
  <1> QED BY <1>1, <1>2, WorkKeeps DEF Places, Running

LEMMA ErrReturnKeeps ==
    ASSUME Alone, Accounted, NEW t \in Threads, ErrReturn(t)
    PROVE  Alone' /\ Accounted'
  <1>1. /\ pc[t] = "return" /\ started' = FALSE
        /\ have' = IF started THEN have \ Receiving ELSE have
    BY DEF ErrReturn, HifStop, Receiving
  <1>2. PICK to \in {"free_nw", "idle"} :
          /\ pc' = [pc EXCEPT ![t] = to] /\ (to = "free_nw" => t = "main")
          /\ to = "idle" => stranded'
          /\ stranded => stranded'
    BY ErrorGoes DEF ErrReturn
  <1>3. Fits(t, pc[t], have, started, drv) /\ ~stranded' => Fits(t, to, have', started', drv')
    BY <1>1, <1>2 DEF Fits, Probing, Starting, Stopping, Kept, Receiving, Memory
  <1>4. pc[t] # "idle" /\ to \in Places /\ have' \subseteq have
    BY <1>1 DEF Places
  <1> QED BY <1>2, <1>3, <1>4, WorkKeeps

\* The driver is loaded, or a driver that runs is to be restarted or removed.
LEMMA BeginsKeep ==
    ASSUME Alone, Accounted, ~overlap', Load \/ Restart \/ Remove
    PROVE  Alone' /\ Accounted'
  <1>1. PICK t \in Threads, to \in {"priv", "stop"} :
          /\ Still /\ pc' = [pc EXCEPT ![t] = to]
          /\ IF to = "stop" THEN have \cap {"hw", "debugfs"} # {} ELSE t = "main" /\ "hw" \notin have
    BY DEF Load, Restart, Remove, Still, Step, Goto, Idle, Bound, Threads
  <1>2. UNCHANGED <<have, started, drv, stranded>>
    BY DEF Load, Restart, Remove
  <1>3. ~stranded => Fits(t, "idle", have, started, drv)
    BY <1>1 DEF Accounted, Still, Idle, Threads
  <1>4. ~stranded' => Fits(t, to, have', started', drv')
    BY <1>1, <1>2, <1>3 DEF Fits, Probing, Starting, Stopping
  <1>5. to \in Places
    BY DEF Places
  <1> QED BY <1>1, <1>2, <1>4, <1>5, MoveKeeps DEF Alone

LEMMA StopsKeep ==
    ASSUME Alone, Accounted, NEW t \in Threads, StopBegin(t) \/ Unregister(t) \/ Close(t)
    PROVE  Alone' /\ Accounted'
  <1>1. CASE StopBegin(t) /\ (stranded \/ drv = "INIT")
    <2>1. PICK to \in {"free_nw", "read", "unregister"} :
            /\ pc[t] = "stop" /\ pc' = [pc EXCEPT ![t] = to]
            /\ have' \subseteq have /\ UNCHANGED <<drv, stranded>>
      BY <1>1 DEF StopBegin, Stopped, Goto
    <2>2. Fits(t, pc[t], have, started, drv) => drv # "INIT"
      BY <2>1 DEF Fits
    <2>3. to \in Places
      BY DEF Places
    <2>4. ~stranded' => FALSE
      BY <1>1, <2>1, <2>2, Fitting
    <2> QED BY <2>1, <2>3, <2>4, WorkKeeps
  <1>2. CASE StopBegin(t) /\ ~(stranded \/ drv = "INIT")
    <2>1. /\ pc[t] = "stop" /\ pc' = [pc EXCEPT ![t] = "unregister"]
          /\ have' = have \ {"netlink"} /\ UNCHANGED <<started, drv, stranded>>
      BY <1>2 DEF StopBegin, Goto
    <2>2. Fits(t, pc[t], have, started, drv) => Fits(t, "unregister", have', started', drv')
      BY <2>1 DEF Fits, Probing, Starting, Stopping, Needed, Memory, Running, Receiving
    <2> QED BY <2>1, <2>2, WorkKeeps DEF Places
  <1>3. CASE Unregister(t)
    <2>1. /\ pc[t] = "unregister" /\ pc' = [pc EXCEPT ![t] = "close"]
          /\ have' = (IF t = "main" THEN have \ {"hw"} ELSE have)
          /\ UNCHANGED <<started, stranded>>
      BY <1>3 DEF Unregister, Step, Goto
    <2>2. have \subseteq Memory \cup Running
      BY DEF Alone
    <2>3. Fits(t, pc[t], have, started, drv) => Fits(t, "close", have', started', drv')
      BY <2>1, <2>2 DEF Fits, Probing, Starting, Stopping, Kept, Memory, Running, Receiving
    <2> QED BY <2>1, <2>3, WorkKeeps DEF Places
  <1>4. CASE Close(t)
    <2>1. /\ pc[t] = "close" /\ pc' = [pc EXCEPT ![t] = Stopped(t)] /\ started' = FALSE
          /\ have' = (IF started THEN have \ Receiving ELSE have) \ {"debugfs"}
          /\ UNCHANGED stranded
      BY <1>4 DEF Close, Step, Goto, Receiving
    <2>2. Fits(t, pc[t], have, started, drv) => Fits(t, Stopped(t), have', started', drv')
      BY <2>1 DEF Fits, Probing, Starting, Stopping, Kept, Stopped, Memory, Receiving, Threads
    <2>3. Stopped(t) \in Places /\ have' \subseteq have
      BY <2>1 DEF Places, Stopped
    <2> QED BY <2>1, <2>2, <2>3, WorkKeeps
  <1> QED BY <1>1, <1>2, <1>3, <1>4

LEMMA OthersKeep ==
    ASSUME Alone, Accounted, Oops \/ TgtBoots \/ TgtStarts \/ UNCHANGED vars
    PROVE  Alone' /\ Accounted'
  <1>1. CASE Oops
    <2>1. /\ pc["main"] # "idle" /\ pc' = [pc EXCEPT !["main"] = "oops"]
          /\ UNCHANGED <<have, started, drv, stranded>>
      BY <1>1 DEF Oops, Step, Goto
    <2>2. Fits("main", "oops", have', started', drv')
      BY DEF Fits, Probing, Starting, Stopping
    <2> QED BY <2>1, <2>2, WorkKeeps DEF Places, Threads
  <1>2. CASE TgtBoots \/ TgtStarts \/ UNCHANGED vars
    BY <1>2, StayKeeps DEF TgtBoots, TgtStarts, vars
  <1> QED BY <1>1, <1>2

LEMMA StepKeeps ==
    ASSUME Alone, Accounted, ~overlap', [Next]_vars
    PROVE  Alone' /\ Accounted'
  <1>1. CASE Main
    BY <1>1, TakesKeep, GivesKeep, OthersKeep, RegisterKeeps DEF Main
  <1>2. CASE \E t \in Threads : Both(t)
    BY <1>2, ReadsKeep, DownloadsKeep, HifStartKeeps, FwStartKeeps, ErrReturnKeeps, StopsKeep
       DEF Both
  <1> QED BY <1>1, <1>2, BeginsKeep, OthersKeep, RegisterKeeps DEF Next

\* What a removal has met stays met.
LEMMA Overlapped ==
    ASSUME [Next]_vars, ~overlap'
    PROVE  ~overlap
  <1>1. overlap' = overlap \/ Remove \/ Restart
    BY Zenon DEF Next, Main, Both, Load, AllocPriv, AllocGpio, GpioFails, AllocHif, AllocNw, Oops, ResetDevice,
       Register, FreeNw, FreeHif, FreeGpio, FreePriv, Take, Give, ReadFails, NotReady, Probed, CheckFails, Check,
       SendFrag, LoseFrag, AckFails, NextFrag, PollReady, HifStart, FwStart, FwTimeout, NetlinkInit,
       NetlinkFails, ErrReturn, StopBegin, Unregister, Close, Restart, RestartHw, TgtBoots, TgtStarts, vars
  <1> QED BY <1>1 DEF Remove, Restart

\* A probe that fails at any step and a removal leave nothing behind, and what
\* succeeds leaves all that is needed, for every number of retries and loads; a
\* failed restart and a removal that meets a restart are excepted.
THEOREM SpecAllOrNothing == Spec => []AllOrNothing
  <1> DEFINE Inv == ~overlap => Alone /\ Accounted
  <1>1. Init => Inv
    BY Initially
  <1>2. Inv /\ [Next]_vars => Inv'
    BY StepKeeps, Overlapped
  <1>3. Inv => AllOrNothing
    BY DEF Accounted, Still, Fits, Probing, Needed, AllOrNothing, Idle, Bound, Threads
  <1> QED BY <1>1, <1>2, <1>3, PTL DEF Spec

-----------------------------------------------------------------------------
(* The download.  Before a fragment is sent the target has the bytes up to *)
(* its position; the last fragment ends at the end of the image.           *)

Downloads == [chunk : Nat, addr : Nat, len : Nat, pos : Nat, rest : Nat]
Arrived(n) == \A a \in Addresses : a < n => mem[a] = a

Fragment(t) ==
    /\ pc[t] \in {"frag", "next"} =>
          /\ fw_name /\ dl.chunk < NumChunks
          /\ dl.pos = dl.chunk * Frag /\ dl.rest = Size - dl.pos
    /\ pc[t] = "frag" =>
          /\ tgt = "rom" /\ Arrived(dl.pos)
          /\ dl.chunk > 0 => dl.addr + dl.len = dl.pos
    /\ pc[t] = "next" =>
          /\ ~LastFrag => tgt = "rom" /\ Arrived(dl.pos + dl.len)
          /\ dl.addr = dl.pos /\ dl.len = IF dl.rest < Frag THEN dl.rest ELSE Frag

Whole == fw_name /\ tgt \in {"loaded", "fw"} => \A a \in Addresses : mem[a] = a

Download == /\ dl \in Downloads /\ mem = [a \in Addresses |-> mem[a]]
            /\ Whole /\ \A t \in Threads : Fragment(t)

LEMMA Sizes == Size \in Nat \ {0} /\ Frag \in Nat \ {0}
  BY BringupAssumption

LEMMA Chunks ==
    /\ NumChunks \in Nat \ {0}
    /\ (NumChunks - 1) * Frag < Size /\ Size <= NumChunks * Frag
  BY Sizes DEF NumChunks

\* A fragment that is not the last is a whole one and leaves something to send.
LEMMA WholeChunk ==
    ASSUME NEW k \in Nat, k < NumChunks - 1
    PROVE  k * Frag \in Nat /\ (k + 1) * Frag = k * Frag + Frag /\ (k + 1) * Frag < Size
  <1>1. (k + 1) * Frag <= (NumChunks - 1) * Frag
    BY Sizes, Chunks
  <1> QED BY <1>1, Sizes, Chunks

LEMMA LastChunk ==
    ASSUME NEW k \in Nat, k = NumChunks - 1
    PROVE  k * Frag \in Nat /\ k * Frag < Size /\ Size <= k * Frag + Frag
  BY Sizes, Chunks

LEMMA DownloadInit == Init => Download
  BY Sizes DEF Init, Download, Downloads, NoDownload, Whole, Fragment, Threads

\* A step that sends nothing and brings no thread to the download.
LEMMA SendsNothing ==
    ASSUME Download, UNCHANGED <<fw_name, mem, dl>>,
           \A t \in Threads : pc'[t] \in {"frag", "next"} => pc'[t] = pc[t] /\ UNCHANGED tgt,
           tgt' \in {"loaded", "fw"} /\ fw_name => tgt \in {"loaded", "fw"}
    PROVE  Download'
  BY DEF Download, Whole, Fragment, LastFrag, Arrived

\* A thread at work goes to a place outside the download.
LEMMA LeavesAlone ==
    ASSUME Alone, Download, NEW t \in Threads, ~Idle(t) \/ Still, NEW to,
           to \notin {"frag", "next"}, pc' = [pc EXCEPT ![t] = to],
           UNCHANGED <<fw_name, mem, dl>>, UNCHANGED tgt \/ tgt' = "off"
    PROVE  Download'
  <1>1. \A u \in Threads : pc'[u] \notin {"frag", "next"}
    BY DEF Alone, Idle, Still, Threads
  <1> QED BY <1>1, SendsNothing

LEMMA MainLeaves ==
    ASSUME Alone, Download, Main
    PROVE  Download'
  <1>1. PICK to \in Places : to \notin {"frag", "next"} /\ pc' = [pc EXCEPT !["main"] = to]
    BY DEF Main, AllocPriv, AllocGpio, GpioFails, AllocHif, AllocNw, Oops, ResetDevice, Register,
           FreeNw, FreeHif, FreeGpio, FreePriv, Take, Give, Step, Goto, Places
  <1>2. pc["main"] # "idle"
    BY DEF Main, AllocPriv, AllocGpio, GpioFails, AllocHif, AllocNw, Oops, ResetDevice, Register,
           FreeNw, FreeHif, FreeGpio, FreePriv, Take, Give, Step, Goto
  <1>3. UNCHANGED <<fw_name, mem, dl>> /\ (UNCHANGED tgt \/ tgt' = "off")
    BY DEF Main, AllocPriv, AllocGpio, GpioFails, AllocHif, AllocNw, Oops, ResetDevice, Register,
           FreeNw, FreeHif, FreeGpio, FreePriv, Take, Give, conf, target
  <1> QED BY <1>1, <1>2, <1>3, LeavesAlone DEF Idle, Threads

LEMMA BeginsLeave ==
    ASSUME Alone, Download, ~overlap', Load \/ Restart \/ Remove \/ RestartHw
    PROVE  Download'
  <1>1. PICK t \in Threads, to \in {"priv", "stop", "idle"} :
            pc' = [pc EXCEPT ![t] = to] /\ (~Idle(t) \/ Still)
    BY DEF Load, Restart, Remove, RestartHw, Still, Step, Goto, Idle, Threads
  <1>2. UNCHANGED <<fw_name, mem, dl, tgt>>
    BY DEF Load, Restart, Remove, RestartHw, conf, target
  <1> QED BY <1>1, <1>2, LeavesAlone

LEMMA WorkLeaves ==
    ASSUME Alone, Download, NEW t \in Threads,
           AckFails(t) \/ Probed(t) \/ CheckFails(t) \/ HifStart(t) \/ FwStart(t) \/ FwTimeout(t)
           \/ NetlinkInit(t) \/ NetlinkFails(t) \/ ErrReturn(t) \/ StopBegin(t)
           \/ Unregister(t) \/ Close(t)
    PROVE  Download'
  <1>1. pc[t] # "idle"
    BY DEF AckFails, Probed, CheckFails, HifStart, FwStart, FwTimeout, NetlinkInit, NetlinkFails, ErrReturn,
           StopBegin, Unregister, Close, Take, Give, Step
  <1>2. UNCHANGED <<fw_name, mem, dl>> /\ (UNCHANGED tgt \/ tgt' = "off")
    BY DEF AckFails, Probed, CheckFails, HifStart, FwStart, FwTimeout, NetlinkInit, NetlinkFails, ErrReturn,
           StopBegin, Unregister, Close, Take, Give, conf, target
  <1>3. PICK to \in Places : to \notin {"frag", "next"} /\ pc' = [pc EXCEPT ![t] = to]
    BY ErrorGoes DEF AckFails, Probed, CheckFails, HifStart, FwStart, FwTimeout, NetlinkInit,
           NetlinkFails, ErrReturn, StopBegin, Unregister, Close, Take, Give, Step, Goto, Stopped, Places
  <1> QED BY <1>1, <1>2, <1>3, LeavesAlone DEF Idle

LEMMA RepeatsLeave ==
    ASSUME Alone, Download, NEW t \in Threads, ReadFails(t) \/ NotReady(t) \/ PollReady(t)
    PROVE  Download'
  <1>1. pc[t] \in {"read", "ready"} /\ UNCHANGED <<fw_name, mem, dl, tgt>>
    BY DEF ReadFails, NotReady, PollReady, conf, target
  <1>2. CASE UNCHANGED pc
    BY <1>1, <1>2, SendsNothing
  <1>3. CASE \E to \in {"check", "reset", "free_hif", "hifstart", "free_nw", "idle"} :
               pc' = [pc EXCEPT ![t] = to]
    BY <1>1, <1>3, LeavesAlone DEF Idle
  <1> QED BY <1>2, <1>3, ErrorGoes DEF ReadFails, NotReady, PollReady, ProbeFails, Goto

LEMMA TargetLeaves ==
    ASSUME Download, TgtBoots \/ TgtStarts \/ UNCHANGED vars
    PROVE  Download'
  <1>1. CASE TgtBoots
    <2>1. /\ tgt = "off" /\ tgt' = (IF fw_name THEN "rom" ELSE "fw")
          /\ mem' = [a \in Addresses |-> -1] /\ UNCHANGED <<fw_name, pc, dl>>
      BY <1>1 DEF TgtBoots, conf
    <2>2. ASSUME NEW t \in Threads PROVE Fragment(t)'
      <3>1. Fragment(t) /\ LastFrag' = LastFrag
        BY <2>1 DEF Download, LastFrag
      <3>2. pc[t] # "frag" /\ (pc[t] = "next" => LastFrag)
        BY <2>1, <3>1 DEF Fragment
      <3> QED BY <2>1, <3>1, <3>2 DEF Fragment
    <2>3. Whole'
      BY <2>1 DEF Whole
    <2> QED BY <2>1, <2>2, <2>3 DEF Download
  <1>2. CASE TgtStarts
    <2>1. tgt = "loaded" /\ tgt' = "fw" /\ UNCHANGED <<fw_name, pc, dl, mem>>
      BY <1>2 DEF TgtStarts, conf
    <2>2. ASSUME NEW t \in Threads PROVE Fragment(t)'
      <3>1. Fragment(t) /\ LastFrag' = LastFrag
        BY <2>1 DEF Download, LastFrag
      <3>2. pc[t] # "frag" /\ (pc[t] = "next" => LastFrag)
        BY <2>1, <3>1 DEF Fragment
      <3> QED BY <2>1, <3>1, <3>2 DEF Fragment
    <2> QED BY <2>1, <2>2 DEF Download, Whole
  <1>3. CASE UNCHANGED vars
    BY <1>3, SendsNothing DEF vars, conf, target
  <1> QED BY <1>1, <1>2, <1>3

LEMMA CheckBegins ==
    ASSUME Alone, Download, NEW t \in Threads, Check(t)
    PROVE  Download'
  <1>1. PICK to \in {"frag", "ready"} :
          /\ pc[t] = "check" /\ pc' = [pc EXCEPT ![t] = to] /\ dl' = NoDownload
          /\ to = "frag" => fw_name /\ tgt = "rom"
          /\ UNCHANGED <<fw_name, mem, tgt>>
    BY DEF Check, CheckFwFile, Goto, conf, target
  <1>2. \A u \in Threads : pc'[u] = IF u = t THEN to ELSE "idle"
    BY <1>1 DEF Alone, Idle, Threads
  <1>3. dl' \in Downloads /\ Arrived(0)
    BY <1>1, Sizes DEF NoDownload, Downloads, Arrived, Addresses
  <1>4. \A u \in Threads : Fragment(u)'
    BY <1>1, <1>2, <1>3, Sizes, Chunks DEF Fragment, NoDownload, Arrived
  <1> QED BY <1>1, <1>3, <1>4 DEF Download, Whole

\* The header of a fragment: its address has kept up with the position.
LEMMA Updated ==
    ASSUME dl \in Downloads, dl.pos = dl.chunk * Frag, dl.chunk > 0 => dl.addr + dl.len = dl.pos,
           dl' = UpdateFrag(dl)
    PROVE  /\ dl' \in Downloads /\ dl'.chunk = dl.chunk /\ dl'.pos = dl.pos /\ dl'.rest = dl.rest
           /\ dl'.addr = dl.pos /\ dl'.len = IF dl.rest < Frag THEN dl.rest ELSE Frag
  <1> DEFINE len == IF dl.rest < Frag THEN dl.rest ELSE Frag
  <1>1. dl.chunk = 0 => dl.pos = 0
    BY Sizes
  <1>2. dl' = [dl EXCEPT !.addr = IF dl.chunk = 0 THEN 0 ELSE dl.addr + dl.len, !.len = len]
    BY DEF UpdateFrag
  <1>3. dl.chunk > 0 \/ dl.chunk = 0
    BY DEF Downloads
  <1>4. (IF dl.chunk = 0 THEN 0 ELSE dl.addr + dl.len) = dl.pos
    BY <1>1, <1>3
  <1>5. dl' = [dl EXCEPT !.addr = dl.pos, !.len = len]
    BY <1>2, <1>4
  <1>6. len \in Nat /\ dl.pos \in Nat
    BY Sizes DEF Downloads
  <1> QED BY <1>5, <1>6 DEF Downloads

\* The fragment lands behind what has arrived; with the last one the image is
\* whole.
LEMMA SendFragArrives ==
    ASSUME Alone, Download, NEW t \in Threads, SendFrag(t)
    PROVE  Download'
  <1> DEFINE len == IF dl.rest < Frag THEN dl.rest ELSE Frag
  <1>1. /\ pc[t] = "frag" /\ pc' = [pc EXCEPT ![t] = "next"] /\ dl' = UpdateFrag(dl)
        /\ mem' = [a \in Addresses |-> IF a \in dl'.addr..dl'.addr + dl'.len - 1
                                          THEN dl'.pos + (a - dl'.addr) ELSE mem[a]]
        /\ tgt' = IF tgt = "rom" /\ LastFrag THEN "loaded" ELSE tgt
        /\ UNCHANGED fw_name
    BY DEF SendFrag, Step, Goto, conf
  <1>2. /\ fw_name /\ tgt = "rom" /\ dl \in Downloads /\ dl.chunk < NumChunks
        /\ dl.pos = dl.chunk * Frag /\ dl.rest = Size - dl.pos /\ Arrived(dl.pos)
        /\ dl.chunk > 0 => dl.addr + dl.len = dl.pos
    BY <1>1 DEF Download, Fragment
  <1>4. /\ dl' \in Downloads /\ dl'.chunk = dl.chunk /\ dl'.pos = dl.pos /\ dl'.rest = dl.rest
        /\ dl'.addr = dl.pos /\ dl'.len = len
    BY <1>1, <1>2, Updated
  <1>5. Arrived(dl.pos + len)'
    <2>1. \A a \in Addresses : a < dl.pos + len => mem'[a] = a
      <3>1. dl.pos \in Nat /\ len \in Nat /\ \A a \in Addresses : a \in Nat
        BY <1>2, Sizes DEF Downloads, Addresses
      <3>2. \A a \in Addresses : mem'[a] = IF a \in dl.pos..dl.pos + len - 1
                                              THEN dl.pos + (a - dl.pos) ELSE mem[a]
        BY <1>1, <1>4
      <3>3. \A a \in Addresses : a < dl.pos => mem[a] = a
        BY <1>2 DEF Arrived
      <3> QED BY <3>1, <3>2, <3>3
    <2>2. (dl.pos + len)' = dl.pos + len
      BY <1>4
    <2> QED BY <2>1, <2>2 DEF Arrived
  <1>6. \A u \in Threads : u # t => pc'[u] = "idle"
    BY <1>1 DEF Alone, Idle, Threads
  <1>7. Fragment(t)'
    <2>1. pc'[t] = "next"
      BY <1>1 DEF Alone
    <2>2. ~LastFrag' => tgt' = "rom"
      BY <1>1, <1>2, <1>4 DEF LastFrag
    <2>3. Arrived(dl.pos + dl.len)'
      BY <1>4, <1>5 DEF Arrived
    <2> QED BY <1>1, <1>2, <1>4, <2>1, <2>2, <2>3 DEF Fragment
  <1>8. Whole'
    <2>1. CASE dl.chunk = NumChunks - 1
      <3>1. dl.pos + len = Size
        <4>1. dl.chunk \in Nat
          BY <1>2 DEF Downloads
        <4>2. dl.pos \in Nat /\ dl.pos < Size /\ Size <= dl.pos + Frag
          BY <1>2, <2>1, <4>1, LastChunk
        <4>3. dl.rest = Size - dl.pos
          BY <1>2
        <4> QED BY <4>2, <4>3, Sizes
      <3> QED BY <1>4, <1>5, <3>1, Sizes DEF Arrived, Whole, Addresses
    <2>2. CASE dl.chunk # NumChunks - 1
      BY <1>1, <1>2, <2>2 DEF Whole, LastFrag
    <2> QED BY <2>1, <2>2
  <1>9. \A u \in Threads : Fragment(u)'
    BY <1>6, <1>7 DEF Fragment
  <1> QED BY <1>1, <1>4, <1>8, <1>9 DEF Download

\* A fragment that is lost leaves its thread waiting, unless it is the last.
LEMMA LoseFragStays ==
    ASSUME Alone, Download, NEW t \in Threads, LoseFrag(t)
    PROVE  Download'
  <1>1. /\ pc[t] = "frag" /\ dl' = UpdateFrag(dl) /\ UNCHANGED <<fw_name, mem, tgt>>
        /\ pc' = [pc EXCEPT ![t] = IF LastFrag THEN "next" ELSE "hung"]
    BY DEF LoseFrag, Step, Goto, conf, target
  <1>2. /\ fw_name /\ tgt = "rom" /\ dl \in Downloads /\ dl.chunk < NumChunks
        /\ dl.pos = dl.chunk * Frag /\ dl.rest = Size - dl.pos
        /\ dl.chunk > 0 => dl.addr + dl.len = dl.pos
    BY <1>1 DEF Download, Fragment
  <1>3. /\ dl' \in Downloads /\ dl'.chunk = dl.chunk /\ dl'.pos = dl.pos /\ dl'.rest = dl.rest
        /\ dl'.addr = dl.pos /\ dl'.len = IF dl.rest < Frag THEN dl.rest ELSE Frag
    BY <1>1, <1>2, Updated
  <1>4. \A u \in Threads : u # t => pc'[u] = "idle"
    BY <1>1 DEF Alone, Idle, Threads
  <1>5. pc'[t] = "hung" \/ (pc'[t] = "next" /\ LastFrag')
    BY <1>1, <1>3 DEF Alone, LastFrag
  <1>6. Fragment(t)'
    BY <1>1, <1>2, <1>3, <1>5 DEF Fragment
  <1>7. \A u \in Threads : Fragment(u)'
    BY <1>4, <1>6 DEF Fragment
  <1>8. Whole'
    BY <1>1, <1>2 DEF Whole
  <1> QED BY <1>1, <1>3, <1>7, <1>8 DEF Download

LEMMA NextFragFollows ==
    ASSUME Alone, Download, NEW t \in Threads, NextFrag(t)
    PROVE  Download'
  <1>1. pc[t] = "next" /\ UNCHANGED <<fw_name, mem, tgt>>
    BY DEF NextFrag, conf, target
  <1>2. /\ fw_name /\ dl \in Downloads /\ dl.chunk < NumChunks
        /\ dl.pos = dl.chunk * Frag /\ dl.rest = Size - dl.pos
        /\ ~LastFrag => tgt = "rom" /\ Arrived(dl.pos + dl.len)
        /\ dl.addr = dl.pos /\ dl.len = IF dl.rest < Frag THEN dl.rest ELSE Frag
    BY <1>1 DEF Download, Fragment
  <1>3. CASE LastFrag
    <2>1. pc' = [pc EXCEPT ![t] = "ready"] /\ UNCHANGED dl
      BY <1>3 DEF NextFrag, Goto
    <2> QED BY <1>1, <2>1, LeavesAlone DEF Idle
  <1>4. CASE ~LastFrag
    <2>1. /\ pc' = [pc EXCEPT ![t] = "frag"]
          /\ dl' = [dl EXCEPT !.chunk = @ + 1, !.pos = @ + dl.len, !.rest = @ - dl.len]
      BY <1>4 DEF NextFrag, Goto
    <2>2. dl.chunk \in Nat /\ dl.chunk < NumChunks - 1
      BY <1>2, <1>4, Chunks DEF Downloads, LastFrag
    <2>3. /\ dl.pos \in Nat /\ (dl.chunk + 1) * Frag = dl.pos + Frag /\ dl.pos + Frag < Size
      BY <1>2, <2>2, WholeChunk
    <2>4. dl.len = Frag
      BY <1>2, <2>3, Sizes DEF Downloads
    <2>5. /\ dl'.chunk = dl.chunk + 1 /\ dl'.pos = dl.pos + Frag /\ dl'.rest = dl.rest - Frag
          /\ dl'.addr = dl.addr /\ dl'.len = Frag
      BY <1>2, <2>1, <2>4 DEF Downloads
    <2>6. dl' \in Downloads
      <3>1. dl.pos + dl.len \in Nat /\ dl.rest - dl.len \in Nat
        BY <1>2, <2>3, <2>4, Sizes
      <3>2. dl \in Downloads
        BY <1>2
      <3>3. dl' = [chunk |-> dl.chunk + 1, addr |-> dl.addr, len |-> dl.len,
                   pos |-> dl.pos + dl.len, rest |-> dl.rest - dl.len]
        BY <2>1, <3>2 DEF Downloads
      <3>4. dl.chunk + 1 \in Nat /\ dl.addr \in Nat /\ dl.len \in Nat
        BY <2>2, <3>2 DEF Downloads
      <3> QED BY <3>1, <3>3, <3>4 DEF Downloads
    <2>7. \A u \in Threads : pc'[u] = IF u = t THEN "frag" ELSE "idle"
      BY <1>1, <2>1 DEF Alone, Idle, Threads
    <2>8. Arrived(dl.pos)'
      BY <1>1, <1>2, <1>4, <2>4, <2>5 DEF Arrived
    <2>9. dl'.chunk < NumChunks /\ dl'.pos = dl'.chunk * Frag /\ dl'.rest = Size - dl'.pos
      BY <1>2, <2>2, <2>3, <2>5, Sizes, Chunks DEF Downloads
    <2>10. \A u \in Threads : Fragment(u)'
      BY <1>1, <1>2, <1>4, <2>5, <2>7, <2>8, <2>9 DEF Fragment
    <2> QED BY <1>1, <2>6, <2>10 DEF Download, Whole
  <1> QED BY <1>3, <1>4

LEMMA DownloadStep ==
    ASSUME Alone, Download, ~overlap', [Next]_vars
    PROVE  Download'
  <1>1. CASE \E t \in Threads : Both(t)
    BY <1>1, RepeatsLeave, WorkLeaves, CheckBegins, SendFragArrives, LoseFragStays, NextFragFollows DEF Both
  <1> QED BY <1>1, MainLeaves, BeginsLeave, TargetLeaves DEF Next

\* The firmware that starts is the image, every byte at its place, whatever the
\* lengths of the image and of a fragment.
THEOREM SpecLoaded == Spec => []Loaded
  <1> DEFINE Inv == ~overlap => Alone /\ Accounted /\ Download
  <1>1. Init => Inv
    BY Initially, DownloadInit
  <1>2. Inv /\ [Next]_vars => Inv'
    BY StepKeeps, DownloadStep, Overlapped
  <1>3. Inv => Loaded
    BY DEF Download, Whole, Loaded
  <1> QED BY <1>1, <1>2, <1>3, PTL DEF Spec
=============================================================================
