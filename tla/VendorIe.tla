------------------------------- MODULE VendorIe -------------------------------
(***************************************************************************)
(* The vendor elements (nrc-mac80211.c).  A user command puts an element   *)
(* into one of the buffers the interfaces share, and tells the target of   *)
(* the interface it came through.  The elements of the announce commands   *)
(* are backed up under the index of that interface, to be told again to a  *)
(* target that lost them in a watchdog reset; the element of a remote      *)
(* command is taken back by a timer.                                       *)
(***************************************************************************)
EXTENDS Integers

CONSTANTS
    Elems,          \* elements: one for each command
    InBeacon,       \* those of beacons; the others are of probes and associations
    Remote,         \* the one of remote commands, in the beacon
    NoVif           \* no interface

ASSUME VendorAssumption == InBeacon \subseteq Elems /\ Remote \in InBeacon

VARIABLES
    buf,            \* nw->vendor_skb_beacon, .._probe_req, .._probe_rsp, .._assoc_req
    backup,         \* vcmd_backup_info[].head
    byWdt,          \* vcmd_backup_info[].reset_by_wdt
    reinstall,      \* indexes whose vcmd_backup_reinstall work is queued
    remote,         \* interface of the pending remotecmd_timer
    ies             \* target: the elements of an index

vendor == <<buf, backup, byWdt, reinstall, remote, ies>>

Indexes == 0..1

VendorInit ==
    /\ buf = {} /\ backup = [i \in Indexes |-> {}] /\ byWdt = [i \in Indexes |-> FALSE]
    /\ reinstall = {} /\ remote = NoVif /\ ies = [i \in Indexes |-> {}]

SameBuffer(e, f) == e \in InBeacon <=> f \in InBeacon

\* nrc_vendor_update_beacon and its like: the target of index i gets the whole
\* buffer b of e.  Without beacons there is no template to put it in.
Updated(b, i, e, beacons) ==
    IF e \in InBeacon /\ ~beacons THEN ies
    ELSE [ies EXCEPT ![i] = {f \in @ : ~SameBuffer(e, f)} \cup {f \in b : SameBuffer(e, f)}]

\* nrc_vendor_update and nrc_vendor_remove: an element has a place of its own.
VendorUpdate(e) == buf' = buf \cup {e}
VendorRemove(e) == buf' = buf \ {e}

\* nrc_vcmd_backup_add_entry and its like.  Nothing but the announcements is
\* backed up.
BackupAdd(e, i) == backup' = IF e = Remote THEN backup ELSE [backup EXCEPT ![i] = @ \cup {e}]
BackupDel(e, i) == backup' = IF e = Remote THEN backup ELSE [backup EXCEPT ![i] = @ \ {e}]

\* nrc_vendor_cmd_append, remotecmd_schedule_off.
Append(e, v, i) ==
    /\ VendorUpdate(e) /\ BackupAdd(e, i)
    /\ remote' = IF e = Remote THEN v ELSE remote
    /\ UNCHANGED <<byWdt, reinstall>>

\* nrc_vendor_cmd_remove.
Removed(e, i) == VendorRemove(e) /\ BackupDel(e, i) /\ UNCHANGED <<byWdt, reinstall>>

\* nrc_vcmd_backup_reinstall: every element goes into its buffer again, and the
\* buffers to the target.
Reinstalled(i, beacons) ==
    LET sent == {e \in backup[i] : e \in InBeacon => beacons} IN
    [ies EXCEPT ![i] = {f \in @ : \A e \in sent : ~SameBuffer(e, f)} \cup
                       {f \in buf \cup backup[i] : \E e \in sent : SameBuffer(e, f)}]

\* Mutant: only an interface that is added again gets its elements back.
BackupInitAdded(i, type, beacons) ==
    /\ byWdt' = IF type = "MONITOR" THEN byWdt ELSE [byWdt EXCEPT ![i] = FALSE]
    /\ IF byWdt[i] /\ type = "AP"
         THEN ies' = Reinstalled(i, beacons) /\ buf' = buf \cup backup[i]
         ELSE UNCHANGED <<ies, buf>>
    /\ UNCHANGED reinstall

\* nrc_vcmd_backup_init_info, when an interface is added under index i, or stays.
BackupInit(i, type, beacons) ==
    /\ byWdt' = IF type = "MONITOR" THEN byWdt ELSE [byWdt EXCEPT ![i] = FALSE]
    /\ IF byWdt[i] /\ type = "AP"
         THEN ies' = Reinstalled(i, beacons) /\ buf' = buf \cup backup[i]
         ELSE UNCHANGED <<ies, buf>>
    /\ reinstall' = IF byWdt[i] /\ type = "STA" THEN reinstall \cup {i} ELSE reinstall

\* nrc_mac_remove_interface: the backup is deleted; the buffer stays as it is.
Forget(i, type) ==
    /\ backup' = [backup EXCEPT ![i] = {}]
    /\ reinstall' = IF type = "STA" THEN reinstall \ {i} ELSE reinstall
    /\ ies' = [ies EXCEPT ![i] = {}]
    /\ UNCHANGED <<buf, byWdt, remote>>

=============================================================================
