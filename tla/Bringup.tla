------------------------------ MODULE Bringup ------------------------------
(***************************************************************************)
(* Loading, starting, restarting and removing the driver (nrc-hif-cspi.c,  *)
(* nrc-init.c, nrc-fw.c, nrc-bd.c).  The probe takes its resources one by  *)
(* one, resets and probes the target, downloads the firmware and registers *)
(* with mac80211; each step may fail, and what was taken is given back.  A *)
(* restart, asked for through debugfs, runs on a work queue; the removal   *)
(* of the driver on another thread.                                        *)
(***************************************************************************)
EXTENDS Integers

CONSTANTS
    Size, Frag, \* length of the image and of a fragment
    Probes,     \* retries of the probe (MAX_RETRY_CNT)
    Reads,      \* reads of a probe (MAX_PROBE_CNT)
    Polls,      \* polls for the firmware (MAX_FW_RETRY_CNT)
    Loads       \* bound: how often the driver is loaded

ASSUME BringupAssumption ==
    /\ {Probes, Loads} \subseteq Nat
    /\ {Size, Frag, Reads, Polls} \subseteq Nat \ {0}

VARIABLES
    fw_name, irq,   \* module parameters: a firmware file; an interrupt or polling
    have,           \* what the driver has allocated, registered or started
    started,        \* hdev->started
    drv,            \* nw->drv_state
    pc,             \* what the loading thread and the restart worker do
    tries, retry,   \* reads or polls of a thread, probes
    stranded,       \* a restart failed: mac80211 keeps an interface
    dl,             \* nw->fw_priv: chunk, address, length, position, rest
    tgt, mem,       \* the target and its memory: address to byte of the image
    loads,          \* bound: loads that are left
    overlap         \* a removal and a restart have been under way at a time

conf == <<fw_name, irq>>
vars == <<conf, have, started, drv, pc, tries, retry, stranded, dl, tgt, mem, loads, overlap>>
target == <<tgt, mem>>

Threads == {"main", "worker"}
Memory == {"priv", "gpio", "hif", "nw"}
\* Where a thread ends that the code has no way out for.
Dead == {"oops", "hung"}
Running == {"rx", "irq", "netlink", "hw", "debugfs"}
Places == {"idle", "priv", "gpio", "hif", "reset", "read", "nw", "check", "frag", "next",
           "ready", "hifstart", "fwstart", "netlink", "register", "return", "stop",
           "unregister", "close", "free_nw", "free_hif", "free_gpio", "free_priv", "oops", "hung"}
Addresses == 0..Size - 1

NoDownload == [chunk |-> 0, addr |-> 0, len |-> 0, pos |-> 0, rest |-> Size]

Init ==
    /\ fw_name \in BOOLEAN /\ irq \in BOOLEAN
    /\ have = {} /\ started = FALSE /\ drv = "INIT" /\ pc = [t \in Threads |-> "idle"]
    /\ tries = [t \in Threads |-> 0] /\ retry = 0 /\ stranded = FALSE /\ dl = NoDownload
    /\ tgt = "off" /\ mem = [a \in Addresses |-> -1] /\ loads = Loads /\ overlap = FALSE

Idle(t) == pc[t] = "idle"
Goto(t, place) == pc' = [pc EXCEPT ![t] = place]
Step(t, from, to) == pc[t] = from /\ Goto(t, to)
Again(t) == tries' = [tries EXCEPT ![t] = 0]
Bound == "hw" \in have

\* A step of an allocation, and the way back: nothing else changes.
Take(t, from, r, to) ==
    /\ Step(t, from, to) /\ have' = have \cup {r}
    /\ UNCHANGED <<conf, started, drv, tries, retry, stranded, dl, target, loads, overlap>>
Give(t, from, r, to) ==
    /\ Step(t, from, to) /\ have' = have \ {r}
    /\ UNCHANGED <<conf, started, drv, tries, retry, stranded, dl, target, loads, overlap>>
-----------------------------------------------------------------------------
(* The probe (nrc_cspi_probe).                                             *)

\* The module is loaded, or the device found again.
Load ==
    /\ Idle("main") /\ Idle("worker") /\ ~Bound
    /\ loads > 0 /\ loads' = loads - 1
    /\ Goto("main", "priv") /\ retry' = 0
    /\ UNCHANGED <<conf, have, started, drv, tries, stranded, dl, target, overlap>>

AllocPriv == Take("main", "priv", "priv", "gpio")
AllocGpio == Take("main", "gpio", "gpio", "hif")
GpioFails == Give("main", "gpio", "gpio", "free_priv")
AllocHif == Take("main", "hif", "hif", "reset")

\* nrc_nw_alloc: the driver state is INIT.
AllocNw ==
    /\ Step("main", "nw", "check") /\ have' = have \cup {"nw"} /\ drv' = "INIT"
    /\ UNCHANGED <<conf, started, tries, retry, stranded, dl, target, loads, overlap>>

\* The allocators return NULL, the probe tests IS_ERR and goes on with it;
\* nrc_register_hw frees the hw that its caller goes on to use and free.
Oops ==
    /\ \/ \E r \in {"priv", "hif", "nw"} : Step("main", r, "oops")
       \/ Step("main", "register", "oops")
    /\ UNCHANGED <<conf, have, started, drv, tries, retry, stranded, dl, target, loads, overlap>>

\* With a firmware file the target is reset into its boot loader.
ResetDevice ==
    /\ Step("main", "reset", "read") /\ Again("main")
    /\ tgt' = IF fw_name THEN "off" ELSE tgt
    /\ UNCHANGED <<conf, have, started, drv, retry, stranded, dl, mem, loads, overlap>>

\* Mutant: a failed probe is repeated without end.
ProbeFailsOn(t) ==
    IF t = "worker" THEN Goto(t, "check") /\ UNCHANGED retry
    ELSE Goto(t, "reset") /\ retry' = retry

\* The probe is repeated; the restart worker ignores the result.
ProbeFails(t) ==
    IF t = "worker" THEN Goto(t, "check") /\ UNCHANGED retry
    ELSE IF retry < Probes THEN Goto(t, "reset") /\ retry' = retry + 1
    ELSE Goto(t, "free_hif") /\ UNCHANGED retry

\* spi_probe: the system registers are read, up to Reads times.
ReadFails(t) ==
    /\ pc[t] = "read"
    /\ IF tries[t] + 1 < Reads
         THEN tries' = [tries EXCEPT ![t] = @ + 1] /\ UNCHANGED <<pc, retry>>
         ELSE ProbeFails(t) /\ Again(t)
    /\ UNCHANGED <<conf, have, started, drv, stranded, dl, target, loads, overlap>>

NotReady(t) ==
    /\ pc[t] = "read" /\ fw_name /\ tgt = "off" /\ ProbeFails(t) /\ Again(t)
    /\ UNCHANGED <<conf, have, started, drv, stranded, dl, target, loads, overlap>>

Probed(t) ==
    /\ pc[t] = "read" /\ (fw_name => tgt # "off") /\ Again(t)
    /\ Goto(t, IF t = "main" THEN "nw" ELSE "check")
    /\ UNCHANGED <<conf, have, started, drv, retry, stranded, dl, target, loads, overlap>>
-----------------------------------------------------------------------------
(* nrc_nw_start, by the probe or by the restart worker.                    *)

\* Mutant: the probe takes an error for success.
ErrorIgnored(t) ==
    IF t = "main" THEN Goto(t, "idle") /\ UNCHANGED stranded
                  ELSE Goto(t, "idle") /\ stranded' = TRUE

\* An error: the probe frees what it has, the worker just ends.
Error(t) ==
    IF t = "main" THEN Goto(t, "free_nw") /\ UNCHANGED stranded
                  ELSE Goto(t, "idle") /\ stranded' = TRUE

\* Not INIT, no boot loader, or invalid board data (nrc_check_bd).
CheckFails(t) ==
    /\ pc[t] = "check" /\ Error(t)
    /\ UNCHANGED <<conf, have, started, drv, tries, retry, dl, target, loads, overlap>>

\* nrc_check_fw_file: without a file that is found there is no download.
CheckFwFile(t) == (fw_name /\ Goto(t, "frag")) \/ Goto(t, "ready")

Check(t) ==
    /\ pc[t] = "check" /\ drv = "INIT" /\ (fw_name => tgt = "rom") /\ Again(t)
    /\ dl' = NoDownload /\ CheckFwFile(t)
    /\ UNCHANGED <<conf, have, started, drv, retry, stranded, target, loads, overlap>>

NumChunks == (Size + Frag - 1) \div Frag

\* Mutant: every fragment is written to the address of the one before.
UpdateFragStuck(d) ==
    LET len == IF d.rest < Frag THEN d.rest ELSE Frag IN
    [d EXCEPT !.addr = IF d.chunk < 2 THEN 0 ELSE @ + d.len, !.len = len]

\* nrc_fw_update_frag
UpdateFrag(d) ==
    LET len == IF d.rest < Frag THEN d.rest ELSE Frag IN
    [d EXCEPT !.addr = IF d.chunk = 0 THEN 0 ELSE @ + d.len, !.len = len]

LastFrag == dl.chunk = NumChunks - 1

\* nrc_fw_send_frag: the boot loader writes each fragment and acknowledges it; after
\* the one with eof it starts the image.
SendFrag(t) ==
    /\ Step(t, "frag", "next") /\ dl' = UpdateFrag(dl)
    /\ mem' = [a \in Addresses |-> IF a \in dl'.addr..dl'.addr + dl'.len - 1
                                     THEN dl'.pos + (a - dl'.addr) ELSE mem[a]]
    /\ tgt' = IF tgt = "rom" /\ LastFrag THEN "loaded" ELSE tgt
    /\ UNCHANGED <<conf, have, started, drv, tries, retry, stranded, loads, overlap>>

\* The write fails, and nobody looks at its result: there will be no
\* acknowledgement, for which spi_wait_ack waits without a bound, but after the
\* last fragment.
LoseFrag(t) ==
    /\ Step(t, "frag", IF LastFrag THEN "next" ELSE "hung") /\ dl' = UpdateFrag(dl)
    /\ UNCHANGED <<conf, have, started, drv, tries, retry, stranded, target, loads, overlap>>

\* The status cannot be read: BUG_ON in nrc_fw_check_next_frag.
AckFails(t) ==
    /\ ~LastFrag /\ Step(t, "next", "oops")
    /\ UNCHANGED <<conf, have, started, drv, tries, retry, stranded, dl, target, loads, overlap>>

\* nrc_fw_check_next_frag
NextFrag(t) ==
    /\ pc[t] = "next"
    /\ IF LastFrag
         THEN Goto(t, "ready") /\ UNCHANGED dl
         ELSE /\ Goto(t, "frag")
              /\ dl' = [dl EXCEPT !.chunk = @ + 1, !.pos = @ + dl.len, !.rest = @ - dl.len]
    /\ UNCHANGED <<conf, have, started, drv, tries, retry, stranded, target, loads, overlap>>

\* spi_check_ready: the status bit and the identity of host and firmware.
CheckReady == tgt = "fw"

\* Up to Polls polls; the timeout returns with what the start did so far.
PollReady(t) ==
    /\ pc[t] = "ready"
    /\ IF CheckReady THEN Goto(t, "hifstart") /\ Again(t) /\ UNCHANGED stranded
       ELSE IF tries[t] + 1 < Polls
         THEN tries' = [tries EXCEPT ![t] = @ + 1] /\ UNCHANGED <<pc, stranded>>
       ELSE Error(t) /\ Again(t)
    /\ UNCHANGED <<conf, have, started, drv, retry, dl, target, loads, overlap>>

\* nrc_hif_start, spi_start: the RX thread, the interrupt, the first status.
\* Neither interrupt nor polling: it stops its thread and returns 0.
HifStart(t) ==
    /\ pc[t] = "hifstart" /\ drv' = "START" /\ started' = TRUE
    /\ \/ ~irq /\ Goto(t, "fwstart") /\ UNCHANGED have
       \/ irq /\ Goto(t, "fwstart") /\ have' = have \cup {"rx", "irq"}
       \/ irq /\ Goto(t, "return") /\ have' = have \cup {"rx", "irq"}
       \/ irq /\ Goto(t, "return") /\ UNCHANGED have
       \/ Goto(t, "oops") /\ UNCHANGED have
    /\ UNCHANGED <<conf, tries, retry, stranded, dl, target, loads, overlap>>

\* nrc_fw_start waits for the answer to WIM_CMD_START.
FwStart(t) ==
    /\ Step(t, "fwstart", "netlink") /\ tgt = "fw" /\ {"rx", "irq"} \subseteq have
    /\ UNCHANGED <<conf, have, started, drv, tries, retry, stranded, dl, target, loads, overlap>>

FwTimeout(t) ==
    /\ Step(t, "fwstart", "return")
    /\ UNCHANGED <<conf, have, started, drv, tries, retry, stranded, dl, target, loads, overlap>>

NetlinkInit(t) == Take(t, "netlink", "netlink", "register")
NetlinkFails(t) == Give(t, "netlink", "netlink", "return")

\* nrc_register_hw and debugfs; after a restart mac80211 still has the hw.
Register ==
    /\ Step("main", "register", "idle") /\ have' = have \cup {"hw", "debugfs"}
    /\ UNCHANGED <<conf, started, drv, tries, retry, stranded, dl, target, loads, overlap>>
RestartHw ==
    /\ Step("worker", "register", "idle")
    /\ UNCHANGED <<conf, have, started, drv, tries, retry, stranded, dl, target, loads, overlap>>

\* nrc_hif_stop
HifStop ==
    /\ have' = IF started THEN have \ {"rx", "irq"} ELSE have
    /\ started' = FALSE

\* err_return
ErrReturn(t) ==
    /\ pc[t] = "return" /\ HifStop /\ tgt' = "off" /\ drv' = "INIT" /\ Error(t)
    /\ UNCHANGED <<conf, tries, retry, dl, mem, loads, overlap>>
-----------------------------------------------------------------------------
(* nrc_nw_stop, the restart worker and the removal.                        *)

\* A write to the debugfs file, which a restart and a removal take away while
\* they stop the driver.
Restart ==
    /\ "debugfs" \in have /\ Step("worker", "idle", "stop")
    /\ overlap' = (overlap \/ ~Idle("main"))
    /\ UNCHANGED <<conf, have, started, drv, tries, retry, stranded, dl, target, loads>>

\* Nothing keeps the removal of the driver from a restart that is under way.
Remove ==
    /\ Bound /\ Step("main", "idle", "stop")
    /\ overlap' = (overlap \/ ~Idle("worker"))
    /\ UNCHANGED <<conf, have, started, drv, tries, retry, stranded, dl, target, loads>>

Stopped(t) == IF t = "main" THEN "free_nw" ELSE "read"

StopBegin(t) ==
    /\ pc[t] = "stop"
    /\ IF drv = "INIT" THEN Goto(t, Stopped(t)) /\ UNCHANGED have
                       ELSE Goto(t, "unregister") /\ have' = have \ {"netlink"}
    /\ UNCHANGED <<conf, started, drv, tries, retry, stranded, dl, target, loads, overlap>>

Unregister(t) ==
    /\ Step(t, "unregister", "close") /\ drv' = "CLOSING"
    /\ have' = IF t = "main" THEN have \ {"hw"} ELSE have
    /\ UNCHANGED <<conf, started, tries, retry, stranded, dl, target, loads, overlap>>

\* Frames and WIMs are freed, the target is reset.
Close(t) ==
    /\ Step(t, "close", Stopped(t)) /\ started' = FALSE /\ drv' = "INIT" /\ tgt' = "off"
    /\ have' = (IF started THEN have \ {"rx", "irq"} ELSE have) \ {"debugfs"}
    /\ UNCHANGED <<conf, tries, retry, stranded, dl, mem, loads, overlap>>

\* nrc_nw_free waits for the restart work queue.
FreeNw == Idle("worker") /\ Give("main", "free_nw", "nw", "free_hif")
FreeHif == Give("main", "free_hif", "hif", "free_gpio")
FreeGpio == Give("main", "free_gpio", "gpio", "free_priv")
FreePriv == Give("main", "free_priv", "priv", "idle")
-----------------------------------------------------------------------------
(* The target comes out of its reset, and starts the image.                *)

TgtBoots ==
    /\ tgt = "off" /\ tgt' = IF fw_name THEN "rom" ELSE "fw"
    /\ mem' = [a \in Addresses |-> -1]
    /\ UNCHANGED <<conf, have, started, drv, pc, tries, retry, stranded, dl, loads, overlap>>

TgtStarts ==
    /\ tgt = "loaded" /\ tgt' = "fw"
    /\ UNCHANGED <<conf, have, started, drv, pc, tries, retry, stranded, dl, mem, loads, overlap>>

Main ==
    \/ AllocPriv \/ AllocGpio \/ GpioFails \/ AllocHif \/ AllocNw \/ Oops \/ ResetDevice
    \/ Register \/ FreeNw \/ FreeHif \/ FreeGpio \/ FreePriv

Both(t) ==
    \/ ReadFails(t) \/ NotReady(t) \/ Probed(t) \/ CheckFails(t) \/ Check(t) \/ SendFrag(t)
    \/ LoseFrag(t) \/ AckFails(t) \/ NextFrag(t) \/ PollReady(t) \/ HifStart(t) \/ FwStart(t) \/ FwTimeout(t)
    \/ NetlinkInit(t) \/ NetlinkFails(t) \/ ErrReturn(t) \/ StopBegin(t) \/ Unregister(t)
    \/ Close(t)

Next ==
    \/ Load \/ Restart \/ Remove \/ TgtBoots \/ TgtStarts
    \/ Main \/ RestartHw \/ \E t \in Threads : Both(t)

Spec == Init /\ [][Next]_vars

\* The two threads run; nothing is asked of the target.
Fairness == WF_vars(Main \/ Both("main")) /\ WF_vars(RestartHw \/ Both("worker"))

FairSpec == Spec /\ Fairness
-----------------------------------------------------------------------------
(* Properties.                                                             *)

\* A probe that fails, wherever it does, and a removal leave nothing behind; a
\* probe or a restart that succeeds leaves all it needs running.  A failed
\* restart is an exception (INIT hides from the removal that the hw is registered),
\* and so is a removal that meets a restart.
AllOrNothing ==
    Idle("main") /\ Idle("worker") /\ ~stranded /\ ~overlap =>
        IF Bound THEN Memory \cup (Running \ {"debugfs"}) \subseteq have /\ drv = "START"
                 ELSE have = {}

\* The firmware that starts is the image, whole and every byte in its place,
\* whatever write fails, unless a removal has reset the target under a restart.
Loaded == fw_name /\ tgt \in {"loaded", "fw"} /\ ~overlap => \A a \in Addresses : mem[a] = a

\* A probe, a restart and a removal end, whether or not the target shows itself, its
\* firmware becomes ready or answers, and also when one meets another; only a
\* thread that cannot go on holds up the other.
Ends == \A t \in Threads : pc[t] # "idle" ~> pc[t] = "idle" \/ \E u \in Threads : pc[u] \in Dead
=============================================================================
