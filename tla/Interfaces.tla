------------------------------ MODULE Interfaces ------------------------------
(***************************************************************************)
(* The interface table (nrc-mac80211.c): mac80211 opens, changes, closes   *)
(* and monitors interfaces, each takes one of two hardware indexes, and    *)
(* what the target knows of it is kept under that index.  A watchdog reset *)
(* of the target, or a restart by the user, lets nrc_mac_restart release   *)
(* the indexes on a thread of its own; mac80211 then adds every interface  *)
(* again.                                                                  *)
(***************************************************************************)
EXTENDS Integers, FiniteSets, VendorIe

CONSTANTS
    Vifs,           \* interfaces of mac80211, each with an address of its own
    Monitor,        \* the virtual monitor interface of mac80211
    First,          \* the interface mac80211 adds first after a restart
    Stas,           \* bound: stations of an access point
    Retries,        \* tries to clear the stations (10 in the code)
    Budgets         \* bounds: how often each of these happens, in one behaviour or another

Freed == "freed"

ASSUME InterfacesAssumption ==
    /\ Monitor \notin Vifs /\ NoVif \notin Vifs \cup {Monitor}
    /\ Freed \notin Vifs \cup {Monitor, NoVif}
    /\ First \in Vifs
    /\ Stas \in Nat /\ Retries \in Nat
    /\ Budgets \subseteq [opens : Nat, monitors : Nat, crashes : Nat, resets : Nat, sets : Nat]

VARIABLES
    drv,            \* nw->drv_state
    vif,            \* nw->vif: an interface, none, or one that mac80211 freed
    index,          \* i_vif->index
    type, up,       \* interfaces: their type, those that mac80211 has open
    max_idle_timer, \* interfaces whose timer is pending
    twt,            \* interface the TWT scheduler is started for
    stas,           \* mac80211: number of stations of an interface
    bcn,            \* mac80211: interfaces that send beacons
    irq,            \* nrc_mac_restart: where it is, its slot, is_relay, its caller
    again,          \* mac80211 has to add an interface again, to configure it
    tgt, tgtUp,     \* target: the type it has for an index; it runs
    told,           \* history: elements given through an interface since it came under
                    \* its index, not removed since, that it should have in the air
    home,           \* history: the index an interface came under last
    misled,         \* history: an interface was led to a slot that is not its own, or to
                    \* two, or a restart took a freed one for something else
    dropped,        \* history: interfaces that mac80211 closed without the driver
    left            \* bounds: what is left of each

mac == <<type, up, stas, bcn>>
table == <<vif, index>>
target == <<tgt, tgtUp>>
marks == <<home, misled, dropped>>
vars == <<drv, table, mac, max_idle_timer, twt, irq, again, target, vendor, told, marks,
          left>>

All == Vifs \cup {Monitor}
Slots == 0..1
Types == {"STA", "AP", "MONITOR"}

Idle == [pc |-> "idle", i |-> 0, relay |-> FALSE, by |-> "wdt", tries |-> 0]

Init ==
    /\ drv = "START" /\ tgtUp = TRUE
    /\ vif = [i \in Slots |-> NoVif] /\ index = [v \in All |-> 0]
    /\ type \in {t \in [All -> Types] : \A v \in All : t[v] = "MONITOR" <=> v = Monitor}
    /\ up = {} /\ max_idle_timer = {} /\ twt = NoVif
    /\ stas = [v \in Vifs |-> 0] /\ bcn = {} /\ VendorInit /\ told = [v \in Vifs |-> {}]
    /\ home = [v \in All |-> 0] /\ misled = FALSE /\ dropped = {}
    /\ irq = Idle
    /\ again = [v \in All |-> "no"] /\ tgt = [i \in Slots |-> "NONE"]
    /\ left \in Budgets

Spend(b) == left[b] > 0 /\ left' = [left EXCEPT ![b] = @ - 1]
Settled == \A v \in All : again[v] = "no"
Quiet == irq.pc = "idle" /\ Settled /\ tgtUp

\* A WIM about index i: nrc_xmit_wim drops one with an invalid index and all of
\* them while the target restarts.
Reaches(d, i) == i \in Slots /\ tgtUp /\ d # "REBOOT"

\* nrc_wim_set_sta_type, nrc_wim_unset_sta_type.
Wim(d, i, t) == tgt' = IF Reaches(d, i) THEN [tgt EXCEPT ![i] = t] ELSE tgt
-----------------------------------------------------------------------------
(* The index of an interface.                                              *)

\* nrc_alloc_vif_index takes the first slot that is free or of this address; a
\* freed interface in the table may or may not still show the address.
Fits(v, i) == vif[i] \in {NoVif, v}
Candidates(v) == LET fit == {i \in Slots : Fits(v, i)} IN
    {i \in fit : \A j \in fit : i <= j} \cup
    (IF v = Monitor THEN {i \in Slots : vif[i] = Freed} ELSE {})

\* Slot i is not v's own, or not its only one.
Misleads(v, i) == \/ vif[i] # NoVif /\ (i # 0 \/ vif[i] # v)
                  \/ \E j \in Slots \ {i} : vif[j] = v

\* Mutant: takes the last slot it finds.
AllocLast(v, i) ==
    /\ vif' = [vif EXCEPT ![1] = v] /\ index' = [index EXCEPT ![v] = i]
    /\ misled' = (misled \/ Misleads(v, i))

\* The driver data is cleared first, and the index of a slot found by its
\* address is not set.
Alloc(v, i) ==
    /\ vif' = IF vif[i] = NoVif THEN [vif EXCEPT ![i] = v] ELSE vif
    /\ index' = [index EXCEPT ![v] = IF vif[i] = NoVif THEN i ELSE 0]
    /\ misled' = (misled \/ Misleads(v, i))

\* nrc_free_vif_index.  The code does not test for index -1, which would address
\* the pointer in front of the table.
Free(v) ==
    /\ vif' = [vif EXCEPT ![index[v]] = NoVif]
    /\ index' = [index EXCEPT ![v] = -1]
-----------------------------------------------------------------------------
(* Calls of mac80211, one at a time.                                       *)

\* nrc_mac_add_interface.  Under another index than before, an interface is not
\* given the elements that are backed up under that one.
Add(v) ==
    \E i \in Candidates(v) :
        /\ Alloc(v, i)
        /\ Wim("RUNNING", index'[v], type[v])
        /\ BackupInit(index'[v], type[v], v \in bcn)
        /\ max_idle_timer' = (max_idle_timer \ {v}) \cup
                                 (IF type[v] = "AP" THEN {v} ELSE {})
        /\ home' = [home EXCEPT ![v] = index'[v]]
        /\ told' = IF home[v] = index'[v] THEN told ELSE [told EXCEPT ![v] = {}]

MayOpen(v) == Quiet /\ v \notin up /\ Monitor \notin up /\ Spend("opens")

\* nrc_mac_start (with the first interface), nrc_mac_add_interface.
Open(v) ==
    /\ MayOpen(v) /\ Add(v)
    /\ up' = up \cup {v} /\ drv' = "RUNNING"
    /\ UNCHANGED <<type, stas, bcn, twt, irq, again, tgtUp, backup, remote, dropped>>

\* No slot is left, or the device of the interface is not found, when the slot
\* is taken already; with invalid board data nrc_mac_start changes nothing.
OpenFails(v) ==
    /\ MayOpen(v)
    /\ \/ \E i \in Candidates(v) : Alloc(v, i)
       \/ Candidates(v) = {} /\ index' = [index EXCEPT ![v] = 0] /\ UNCHANGED <<vif, misled>>
    /\ drv' = IF up = {} THEN "STOP" ELSE drv
    /\ UNCHANGED <<mac, max_idle_timer, twt, irq, again, target, vendor, told, home, dropped>>

\* mac80211 has only monitors open: it adds an interface of its own.
OpenMonitor ==
    /\ Quiet /\ up = {} /\ Spend("monitors") /\ Candidates(Monitor) # {}
    /\ drv' = "RUNNING" /\ Add(Monitor) /\ up' = {Monitor}
    /\ UNCHANGED <<type, stas, bcn, twt, irq, again, tgtUp, backup, remote, dropped>>

\* nrc_mac_remove_interface does nothing for a monitor, which is then freed.
CloseMonitor ==
    /\ Quiet /\ Monitor \in up /\ up' = {} /\ drv' = "STOP"
    /\ vif' = [i \in Slots |-> IF vif[i] = Monitor THEN Freed ELSE vif[i]]
    /\ UNCHANGED <<index, type, stas, bcn, max_idle_timer, twt, irq, again, target,
                   vendor, told, left, marks>>

\* Mutant: the target is not told.
ChangeQuiet(v, t) ==
    /\ Quiet /\ v \in up /\ type[v] # t
    /\ twt' = IF twt = v THEN NoVif ELSE twt
    /\ type' = [type EXCEPT ![v] = t] /\ stas' = [stas EXCEPT ![v] = 0] /\ bcn' = bcn \ {v}
    /\ max_idle_timer' = (max_idle_timer \ {v}) \cup (IF t = "AP" THEN {v} ELSE {})
    /\ told' = [told EXCEPT ![v] = {}]
    /\ UNCHANGED <<drv, table, up, irq, again, target, vendor, left, marks>>

\* Mutant: the TWT scheduler is not stopped.
ChangeOnly(v, t) ==
    /\ Quiet /\ v \in up /\ type[v] # t
    /\ type' = [type EXCEPT ![v] = t] /\ stas' = [stas EXCEPT ![v] = 0] /\ bcn' = bcn \ {v}
    /\ Wim(drv, index[v], t)
    /\ max_idle_timer' = (max_idle_timer \ {v}) \cup (IF t = "AP" THEN {v} ELSE {})
    /\ told' = [told EXCEPT ![v] = {}]
    /\ UNCHANGED <<drv, table, up, twt, irq, again, tgtUp, vendor, left, marks>>

\* nrc_mac_change_interface.  What the target keeps of the elements is its own.
Change(v, t) ==
    /\ Quiet /\ v \in up /\ type[v] # t
    /\ twt' = IF twt = v THEN NoVif ELSE twt
    /\ type' = [type EXCEPT ![v] = t] /\ stas' = [stas EXCEPT ![v] = 0] /\ bcn' = bcn \ {v}
    /\ Wim(drv, index[v], t)
    /\ max_idle_timer' = (max_idle_timer \ {v}) \cup (IF t = "AP" THEN {v} ELSE {})
    /\ told' = [told EXCEPT ![v] = {}]
    /\ UNCHANGED <<drv, table, up, irq, again, tgtUp, vendor, left, marks>>

\* nrc_mac_stop, after the last interface.
Stop(v) == drv' = IF up = {v} THEN "STOP" ELSE drv

\* nrc_mac_remove_interface.
Close(v) ==
    /\ Quiet /\ v \in up
    /\ max_idle_timer' = max_idle_timer \ {v}
    /\ Forget(index[v], type[v]) /\ told' = [told EXCEPT ![v] = {}]
    /\ home' = [home EXCEPT ![v] = 0]
    /\ Wim(drv, index[v], "NONE") /\ Free(v)
    /\ twt' = IF twt = v THEN NoVif ELSE twt
    /\ up' = up \ {v} /\ stas' = [stas EXCEPT ![v] = 0] /\ bcn' = bcn \ {v}
    /\ Stop(v)
    /\ UNCHANGED <<type, irq, again, tgtUp, left, misled, dropped>>

\* nrc_mac_bss_info_changed: BEACON_ENABLED starts the TWT scheduler, unless it
\* runs or cannot read the TSF; BEACON gives the target the elements.
Beacons(v) ==
    /\ twt' \in {twt, IF twt = NoVif THEN v ELSE twt}
    /\ ies' = IF Reaches(drv, index[v])
                 THEN [ies EXCEPT ![index[v]] = (@ \ InBeacon) \cup (buf \cap InBeacon)]
                 ELSE ies

Beacon(v) ==
    /\ Quiet /\ v \in up /\ type[v] = "AP" /\ bcn' = bcn \cup {v} /\ Beacons(v)
    /\ UNCHANGED <<drv, table, type, up, stas, max_idle_timer, irq, again, target, buf, backup,
                   byWdt, reinstall, remote, told, left, marks>>
-----------------------------------------------------------------------------
(* The vendor elements.                                                    *)

\* What an update of the target's elements comes to while it restarts.
Sent(new, i) == IF Reaches(drv, i) THEN new ELSE ies

\* A user command, also while the target is down.
SetElem(v, e) ==
    /\ (Quiet \/ ~tgtUp) /\ v \in up /\ Spend("sets")
    /\ Append(e, v, index[v])
    /\ ies' = Sent(Updated(buf', index[v], e, v \in bcn), index[v])
    /\ told' = IF e \in InBeacon /\ v \notin bcn THEN told ELSE [told EXCEPT ![v] = @ \cup {e}]
    /\ UNCHANGED <<drv, table, mac, max_idle_timer, twt, irq, again, target, marks>>

\* The buffer is shared: the element is gone for all interfaces.
Untold(e) == told' = [w \in Vifs |-> told[w] \ {e}]

RemoveElem(v, e) ==
    /\ (Quiet \/ ~tgtUp) /\ v \in up /\ e \in buf
    /\ Removed(e, index[v])
    /\ ies' = Sent(Updated(buf', index[v], e, v \in bcn), index[v])
    /\ Untold(e)
    /\ UNCHANGED <<drv, table, mac, max_idle_timer, twt, irq, again, target, remote, left, marks>>

\* remotecmd_callback, whatever became of the interface.
RemoteOff ==
    /\ remote # NoVif /\ remote' = NoVif
    /\ IF Remote \in buf
         THEN /\ Removed(Remote, index[remote]) /\ Untold(Remote)
              /\ ies' = Sent(Updated(buf', index[remote], Remote, remote \in bcn), index[remote])
         ELSE UNCHANGED <<buf, backup, byWdt, reinstall, ies, told>>
    /\ UNCHANGED <<drv, table, mac, max_idle_timer, twt, irq, again, target, left, marks>>

\* nrc_vcmd_backup_delayed_reinstall.
Reinstall(i) ==
    /\ i \in reinstall /\ reinstall' = reinstall \ {i}
    /\ IF vif[i] \in Vifs
         THEN /\ buf' = buf \cup backup[i]
              /\ ies' = Sent(Reinstalled(i, vif[i] \in bcn), i)
         ELSE UNCHANGED <<buf, ies>>
    /\ UNCHANGED <<drv, table, mac, max_idle_timer, twt, irq, again, target, backup, byWdt,
                   remote, told, left, marks>>
-----------------------------------------------------------------------------
(* The stations of an access point.                                        *)

StaJoins(v) ==
    /\ Quiet /\ v \in up /\ type[v] = "AP" /\ stas[v] < Stas
    /\ stas' = [stas EXCEPT ![v] = @ + 1]
    /\ UNCHANGED <<drv, table, type, up, bcn, max_idle_timer, twt, irq, again, target, vendor, told, left, marks>>

StaLeaves(v) ==
    /\ stas[v] > 0 /\ stas' = [stas EXCEPT ![v] = @ - 1]
    /\ UNCHANGED <<drv, table, type, up, bcn, max_idle_timer, twt, irq, again, target, vendor, told, left, marks>>
-----------------------------------------------------------------------------
(* A restart: by the watchdog of the target, or by the user.               *)

\* The target loses what it knows.  It restores a single station itself: the
\* driver does not add that again.
WdtExpired ==
    /\ tgtUp /\ drv = "RUNNING" /\ irq.pc = "idle" /\ Settled
    /\ Spend("crashes")
    /\ drv' = "REBOOT" /\ tgtUp' = FALSE
    /\ tgt' = IF Cardinality(up) = 1 /\ \E v \in up : type[v] = "STA" THEN tgt
                                                   ELSE [i \in Slots |-> "NONE"]
    /\ ies' = [i \in Slots |-> {}]
    /\ UNCHANGED <<table, mac, max_idle_timer, twt, irq, again, buf, backup, byWdt, reinstall,
                   remote, told, marks>>

Begin(caller) == irq' = [pc |-> "slot", i |-> 0, by |-> caller, tries |-> 0,
                         relay |-> \A i \in Slots : vif[i] # NoVif]

FwReady ==
    /\ ~tgtUp /\ tgtUp' = TRUE /\ byWdt' = [i \in Slots |-> TRUE] /\ Begin("wdt")
    /\ UNCHANGED <<drv, table, mac, max_idle_timer, twt, again, tgt, buf, backup, reinstall,
                   remote, ies, told, left, marks>>

\* restart_worker: stops the driver, probes the target, which has forgotten all,
\* and starts the driver again.  The elements are not told again.
UserRestart ==
    /\ Quiet /\ Spend("resets")
    /\ drv' = "START" /\ tgt' = [i \in Slots |-> "NONE"] /\ Begin("user")
    /\ ies' = [i \in Slots |-> {}] /\ told' = [v \in Vifs |-> {}]
    /\ UNCHANGED <<table, mac, max_idle_timer, twt, again, tgtUp, buf, backup, byWdt, reinstall,
                   remote, marks>>

\* Back in the caller: ieee80211_restart_hw, and after a watchdog reset RUNNING.
Finish(restart) ==
    /\ irq' = Idle
    /\ again' = IF restart \/ irq.by = "user"
                  THEN [v \in All |-> IF v \in up THEN "add" ELSE "no"] ELSE again
    /\ drv' = IF irq.by = "wdt" \/ up # {} THEN "RUNNING" ELSE drv

NextSlot ==
    /\ irq.pc = "slot" /\ irq.i \in Slots /\ vif[irq.i] \in {NoVif, Freed, Monitor}
    /\ irq' = [irq EXCEPT !.i = @ + 1]
    /\ UNCHANGED <<drv, table, mac, max_idle_timer, twt, again, target, vendor, told, left, marks>>

\* What is read of a freed interface may say that it is a station or an access
\* point: then some slot is released, or the restart ends with a single station.
RestartFreed ==
    /\ irq.pc = "slot" /\ irq.i \in Slots /\ vif[irq.i] = Freed
    /\ misled' = TRUE
    /\ \/ /\ \E i \in Slots : vif' = [vif EXCEPT ![i] = NoVif]
          /\ irq' = [irq EXCEPT !.i = @ + 1]
          /\ UNCHANGED <<drv, again, buf, byWdt, reinstall, ies>>
       \/ ~irq.relay /\ Finish(FALSE) /\ BackupInit(irq.i, "STA", FALSE) /\ UNCHANGED vif
    /\ UNCHANGED <<index, mac, max_idle_timer, twt, target, backup, remote, told, home, dropped, left>>

\* A single station only loses its connection; one of two is released.
RestartSta ==
    /\ irq.pc = "slot" /\ irq.i \in Slots /\ vif[irq.i] \in Vifs
    /\ LET v == vif[irq.i] IN
           /\ type[v] = "STA"
           /\ IF irq.relay
                THEN Free(v) /\ irq' = [irq EXCEPT !.i = @ + 1] /\ UNCHANGED <<drv, again>>
                     /\ UNCHANGED <<buf, byWdt, reinstall, ies>>
                ELSE Finish(FALSE) /\ BackupInit(irq.i, "STA", FALSE) /\ UNCHANGED table
    /\ UNCHANGED <<mac, max_idle_timer, twt, target, backup, remote, told, left, marks>>

\* An access point: mac80211 is made to take its stations for gone.
RestartAp ==
    /\ irq.pc = "slot" /\ irq.i \in Slots /\ vif[irq.i] \in Vifs
    /\ type[vif[irq.i]] = "AP"
    /\ max_idle_timer' = max_idle_timer \ {vif[irq.i]}
    /\ irq' = [irq EXCEPT !.pc = "wait"]
    /\ UNCHANGED <<drv, table, mac, twt, again, target, vendor, told, left, marks>>

\* get_sta_cnt: mac80211 still has stations of the access point.
Remaining == vif[irq.i] \in Vifs /\ stas[vif[irq.i]] > 0

\* Mutant: waits for the stations however long it takes.
WaitForStasAll ==
    /\ irq.pc = "wait"
    /\ irq' = [irq EXCEPT !.tries = IF @ < Retries + 1 THEN @ + 1 ELSE 0]
    /\ Remaining
    /\ UNCHANGED <<drv, table, mac, max_idle_timer, twt, again, target, vendor, told, left, marks>>

WaitForStas ==
    /\ irq.pc = "wait" /\ irq.tries <= Retries
    /\ Remaining
    /\ irq' = [irq EXCEPT !.tries = @ + 1]
    /\ UNCHANGED <<drv, table, mac, max_idle_timer, twt, again, target, vendor, told, left, marks>>

ReleaseAp ==
    /\ irq.pc = "wait" /\ vif[irq.i] \in Vifs
    /\ stas[vif[irq.i]] = 0 \/ irq.tries > Retries
    /\ max_idle_timer' = max_idle_timer \ {vif[irq.i]} /\ Free(vif[irq.i])
    /\ irq' = [irq EXCEPT !.pc = "slot", !.i = @ + 1]
    /\ UNCHANGED <<drv, mac, twt, again, target, vendor, told, left, marks>>

RestartDone ==
    /\ irq.pc = "slot" /\ irq.i = 2 /\ Finish(TRUE)
    /\ UNCHANGED <<table, mac, max_idle_timer, twt, target, vendor, told, left, marks>>

\* The restart work of mac80211 adds the interfaces in its order, and configures
\* them.
Readd(v) ==
    /\ irq.pc = "idle" /\ again[v] = "add" /\ (v = First \/ again[First] # "add")
    /\ Candidates(v) # {} /\ Add(v)
    /\ again' = [again EXCEPT ![v] = IF v = Monitor THEN "no" ELSE "bss"]
    /\ UNCHANGED <<drv, mac, twt, irq, tgtUp, backup, remote, dropped, left>>

\* An interface finds no slot or no device, or the driver does not start:
\* mac80211 removes those that it has added, and closes all.
ReaddFails ==
    /\ irq.pc = "idle" /\ \E v \in Vifs : again[v] = "add"
    /\ LET added == {v \in up : again[v] # "add"}
           slots == {index[v] : v \in added}
       IN  /\ vif' = [i \in Slots |-> IF i \in slots THEN NoVif ELSE vif[i]]
           /\ index' = [v \in All |-> IF v \in added THEN -1 ELSE index[v]]
           /\ tgt' = [i \in Slots |-> IF i \in slots THEN "NONE" ELSE tgt[i]]
           /\ backup' = [i \in Slots |-> IF i \in slots THEN {} ELSE backup[i]]
           /\ ies' = [i \in Slots |-> IF i \in slots THEN {} ELSE ies[i]]
           /\ reinstall' = reinstall \ slots
           /\ max_idle_timer' = max_idle_timer \ added
           /\ twt' = IF twt \in added THEN NoVif ELSE twt
           /\ dropped' = dropped \cup (up \ added)
    /\ up' = {} /\ bcn' = {} /\ stas' = [v \in Vifs |-> 0] /\ drv' = "STOP"
    /\ again' = [v \in All |-> "no"] /\ told' = [v \in Vifs |-> {}]
    /\ UNCHANGED <<type, irq, tgtUp, buf, byWdt, remote, home, misled, left>>

Reconfigure(v) ==
    /\ irq.pc = "idle" /\ again[v] = "bss" /\ again' = [again EXCEPT ![v] = "no"]
    /\ IF v \in bcn THEN Beacons(v) ELSE UNCHANGED <<twt, ies>>
    /\ UNCHANGED <<drv, table, mac, max_idle_timer, irq, target, buf, backup, byWdt, reinstall,
                   remote, told, left, marks>>

Next ==
    \/ \E v \in Vifs : \/ Open(v) \/ OpenFails(v) \/ Close(v) \/ Beacon(v)
                       \/ StaJoins(v) \/ StaLeaves(v)
                       \/ \E t \in {"STA", "AP"} : Change(v, t)
                       \/ \E e \in Elems : SetElem(v, e) \/ RemoveElem(v, e)
    \/ OpenMonitor \/ CloseMonitor \/ RemoteOff \/ \E i \in Slots : Reinstall(i)
    \/ WdtExpired \/ FwReady \/ UserRestart
    \/ NextSlot \/ RestartFreed \/ RestartSta \/ RestartAp \/ WaitForStas \/ ReleaseAp \/ RestartDone
    \/ ReaddFails \/ \E v \in All : Readd(v) \/ Reconfigure(v)

Spec == Init /\ [][Next]_vars

\* The target comes back, and the threads of the driver and of mac80211 run.
Fairness ==
    /\ WF_vars(FwReady)
    /\ WF_vars(NextSlot \/ RestartFreed \/ RestartSta \/ RestartAp \/ WaitForStas
               \/ ReleaseAp \/ RestartDone)
    /\ WF_vars(ReaddFails \/ \E v \in All : Readd(v) \/ Reconfigure(v))

FairSpec == Spec /\ Fairness
-----------------------------------------------------------------------------
(* Properties.                                                             *)

\* Outside a restart every open interface has a valid index whose slot leads
\* back to it: frames and WIMs of two interfaces are never taken for each other.
\* The exceptions begin with an interface that is found in the table by its
\* address (nrc-mac80211.c:1056, the index is not set), that takes a slot beside the
\* one it has, or that a restart reads after it was freed.
OwnIndex == Quiet /\ ~misled => \A v \in up : index[v] \in Slots /\ vif[index[v]] = v

\* Outside a restart the target has every open interface under its index with
\* its type, and, once the reinstallation has run, the elements given through
\* it since it came under that index.  The exceptions are those of OwnIndex.
TargetKnows == Quiet /\ ~misled => \A v \in up :
    /\ tgt[index[v]] = type[v]
    /\ v # Monitor /\ index[v] \notin reinstall => told[v] \subseteq ies[index[v]]

\* The TWT scheduler is started only for an open access point, or for one that
\* mac80211 closed when it could not add it again after a restart.
TwtOfAp == twt # NoVif => (twt \in up /\ type[twt] = "AP") \/ twt \in dropped

\* A restart comes to its end, even if stations do not go.
RestartEnds == ~tgtUp ~> Quiet

=============================================================================
