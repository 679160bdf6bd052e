--------------------------- MODULE Interfaces_proof ---------------------------
(* For any number of interfaces and elements, whatever is opened, changed,     *)
(* closed or restarted, and whatever of it fails: the TWT scheduler belongs to *)
(* an open access point, or to one that mac80211 closed by itself              *)
(* (Interfaces!TwtOfAp); and as long as nothing was misled, an open interface  *)
(* has an index of its own (OwnIndex), and the target has its type and its     *)
(* elements (TargetKnows).                                                     *)
EXTENDS Interfaces, FiniteSetTheorems, TLAPS

MacTypes == /\ up \subseteq All /\ bcn \subseteq Vifs /\ type \in [All -> Types]
            /\ twt \in Vifs \cup {NoVif}

\* Only open access points send beacons, and the scheduler follows beacons; it is
\* not stopped for an interface that mac80211 closes without the driver.
Beaconing == /\ \A v \in bcn : v \in up /\ type[v] = "AP"
             /\ twt # NoVif => (twt \in up /\ type[twt] = "AP") \/ twt \in dropped

\* mac80211 has its own monitor open only by itself.
Alone == Monitor \in up => up = {Monitor}

IInv == MacTypes /\ Beaconing /\ Alone

-----------------------------------------------------------------------------
LEMMA Initially == Init => IInv
  BY DEF Init, IInv, MacTypes, Beaconing, Alone

\* The scheduler is started only by an access point that sends beacons.
LEMMA BeaconsStart ==
    ASSUME NEW v \in Vifs, Beacons(v)
    PROVE  twt' = twt \/ twt' = v
  BY DEF Beacons

LEMMA OpenKeeps ==
    ASSUME IInv, NEW v \in Vifs, Open(v)
    PROVE  IInv'
  <1>1. up' = up \cup {v} /\ Monitor \notin up /\ UNCHANGED <<type, bcn, twt, dropped>>
    BY DEF Open, MayOpen
  <1>2. v # Monitor /\ v \in All
    BY InterfacesAssumption DEF All
  <1> QED BY <1>1, <1>2 DEF IInv, MacTypes, Beaconing, Alone

LEMMA MonitorKeeps ==
    ASSUME IInv, OpenMonitor \/ CloseMonitor
    PROVE  IInv'
  <1>1. CASE OpenMonitor
    <2>1. up = {} /\ up' = {Monitor} /\ UNCHANGED <<type, bcn, twt, dropped>>
      BY <1>1 DEF OpenMonitor
    <2> QED BY <2>1 DEF IInv, MacTypes, Beaconing, Alone, All
  <1>2. CASE CloseMonitor
    <2>1. Monitor \in up /\ up' = {} /\ UNCHANGED <<type, bcn, twt, dropped>>
      BY <1>2 DEF CloseMonitor, marks
    <2>2. up = {Monitor} /\ Monitor \notin Vifs
      BY <2>1, InterfacesAssumption DEF IInv, Alone
    <2>3. bcn = {} /\ (twt = NoVif \/ twt \in dropped)
      BY <2>2 DEF IInv, MacTypes, Beaconing
    <2> QED BY <2>1, <2>3 DEF IInv, MacTypes, Beaconing, Alone
  <1> QED BY <1>1, <1>2

LEMMA ChangeKeeps ==
    ASSUME IInv, NEW v \in Vifs, NEW t \in {"STA", "AP"}, Change(v, t)
    PROVE  IInv'
  <1>1. /\ twt' = IF twt = v THEN NoVif ELSE twt
        /\ type' = [type EXCEPT ![v] = t] /\ bcn' = bcn \ {v} /\ UNCHANGED <<up, dropped>>
    BY DEF Change, marks
  <1>2. type' \in [All -> Types] /\ \A w \in Vifs : w # v => type'[w] = type[w]
    BY <1>1 DEF IInv, MacTypes, Types, All
  <1> QED BY <1>1, <1>2 DEF IInv, MacTypes, Beaconing, Alone

LEMMA CloseKeeps ==
    ASSUME IInv, NEW v \in Vifs, Close(v)
    PROVE  IInv'
  <1>1. /\ twt' = IF twt = v THEN NoVif ELSE twt
        /\ up' = up \ {v} /\ bcn' = bcn \ {v} /\ UNCHANGED <<type, dropped>>
    BY DEF Close
  <1>2. v # Monitor
    BY InterfacesAssumption
  <1> QED BY <1>1, <1>2 DEF IInv, MacTypes, Beaconing, Alone

LEMMA BeaconKeeps ==
    ASSUME IInv, NEW v \in Vifs, Beacon(v)
    PROVE  IInv'
  <1>1. /\ v \in up /\ type[v] = "AP" /\ bcn' = bcn \cup {v} /\ twt' \in {twt, v}
        /\ UNCHANGED <<up, type, dropped>>
    BY DEF Beacon, Beacons, marks
  <1> QED BY <1>1 DEF IInv, MacTypes, Beaconing, Alone

LEMMA ReconfigureKeeps ==
    ASSUME IInv, NEW v \in All, Reconfigure(v)
    PROVE  IInv'
  <1>1. UNCHANGED <<up, type, bcn, dropped>>
    BY DEF Reconfigure, mac, marks
  <1>2. twt' = twt \/ (twt' = v /\ v \in bcn)
    BY DEF Reconfigure, Beacons
  <1> QED BY <1>1, <1>2 DEF IInv, MacTypes, Beaconing, Alone

\* The scheduler may be left behind, with a mark.
LEMMA ReaddFailsKeeps ==
    ASSUME IInv, ReaddFails
    PROVE  IInv'
  <1> DEFINE added == {v \in up : again[v] # "add"}
  <1>1. /\ twt' = IF twt \in added THEN NoVif ELSE twt
        /\ dropped' = dropped \cup (up \ added)
        /\ up' = {} /\ bcn' = {} /\ UNCHANGED type
    BY DEF ReaddFails
  <1> HIDE DEF added
  <1> QED BY <1>1 DEF IInv, MacTypes, Beaconing, Alone

\* The rest leaves the scheduler, the beacons and the types alone.
LEMMA OthersKeep ==
    ASSUME IInv, UNCHANGED <<up, type, bcn, twt, dropped>>
    PROVE  IInv'
  BY DEF IInv, MacTypes, Beaconing, Alone

LEMMA StepKeeps ==
    ASSUME IInv, [Next]_vars
    PROVE  IInv'
  <1>1. CASE \E v \in Vifs : Open(v) \/ Close(v) \/ Beacon(v)
    BY <1>1, OpenKeeps, CloseKeeps, BeaconKeeps
  <1>2. CASE \E v \in Vifs, t \in {"STA", "AP"} : Change(v, t)
    BY <1>2, ChangeKeeps
  <1>3. CASE OpenMonitor \/ CloseMonitor
    BY <1>3, MonitorKeeps
  <1>4. CASE \E v \in All : Reconfigure(v)
    BY <1>4, ReconfigureKeeps
  <1>5. CASE \E v \in Vifs : OpenFails(v) \/ StaJoins(v) \/ StaLeaves(v)
    BY <1>5, OthersKeep DEF OpenFails, StaJoins, StaLeaves, mac, marks
  <1>6. CASE \E v \in Vifs : \E e \in Elems : SetElem(v, e) \/ RemoveElem(v, e)
    BY <1>6, OthersKeep DEF SetElem, RemoveElem, mac, marks
  <1>7. CASE RemoteOff \/ \E i \in Slots : Reinstall(i)
    BY <1>7, OthersKeep DEF RemoteOff, Reinstall, mac, marks
  <1>8. CASE WdtExpired \/ FwReady \/ UserRestart
    BY <1>8, OthersKeep DEF WdtExpired, FwReady, UserRestart, mac, marks
  <1>9. CASE NextSlot \/ RestartFreed \/ RestartSta \/ RestartAp
    BY <1>9, OthersKeep DEF NextSlot, RestartFreed, RestartSta, RestartAp, mac, marks
  <1>10. CASE WaitForStas \/ ReleaseAp \/ RestartDone
    BY <1>10, OthersKeep DEF WaitForStas, ReleaseAp, RestartDone, mac, marks
  <1>11. CASE \E v \in All : Readd(v)
    BY <1>11, OthersKeep DEF Readd, mac
  <1>12. CASE ReaddFails
    BY <1>12, ReaddFailsKeeps
  <1>13. CASE UNCHANGED vars
    BY <1>13, OthersKeep DEF vars, mac, marks
  <1> QED BY <1>1, <1>2, <1>3, <1>4, <1>5, <1>6, <1>7, <1>8, <1>9, <1>10, <1>11,
             <1>12, <1>13 DEF Next

\* The TWT scheduler is started only for an open access point, or for one that
\* mac80211 closed when it could not add it again (ieee80211_reconfig).
THEOREM SpecTwtOfAp == Spec => []TwtOfAp
  <1>1. IInv /\ [Next]_vars => IInv'
    BY StepKeeps
  <1>2. IInv => TwtOfAp
    BY DEF IInv, Beaconing, TwtOfAp
  <1> QED BY Initially, <1>1, <1>2, PTL DEF Spec

-----------------------------------------------------------------------------
(* The table of the interfaces (Interfaces!OwnIndex), as long as nothing was *)
(* misled: the mark never goes away.                                         *)

Irqs == [pc : {"idle", "slot", "wait"}, i : 0..2, relay : BOOLEAN,
         by : {"wdt", "user"}, tries : Int]

TableTypes ==
    /\ vif \in [Slots -> All \cup {NoVif, Freed}] /\ index \in [All -> -1..1]
    /\ again \in [All -> {"no", "add", "bss"}] /\ irq \in Irqs

\* The interfaces in the table have its indexes, and the table leads back from
\* the index of an open one; an open one that is not in it is being restarted.
Placed ==
    /\ \A i \in Slots : vif[i] \in All => index[vif[i]] = i
    /\ \A v \in up : index[v] # -1 => index[v] \in Slots /\ vif[index[v]] = v
    /\ \A v \in up : index[v] = -1 => v \in Vifs /\ (irq.pc # "idle" \/ again[v] = "add")

\* A restart begins with everything in place.
Restarting ==
    /\ ~tgtUp => drv = "REBOOT" /\ irq.pc = "idle" /\ Settled
    /\ drv = "REBOOT" => ~tgtUp \/ (irq.pc # "idle" /\ irq.by = "wdt")
    /\ irq.pc # "idle" => Settled

\* It releases the slots in turn; a single interface is all there is.
Releasing == irq.pc # "idle" =>
    /\ ~irq.relay => \E i \in Slots : vif[i] = NoVif
    /\ ~irq.relay /\ (\E v \in up : index[v] = -1) => \A i \in Slots : vif[i] = NoVif
    /\ irq.pc = "wait" => irq.i \in Slots /\ vif[irq.i] \in Vifs

\* Only what is open is added again.
Again ==
    /\ \A v \in All : again[v] # "no" => v \in up
    /\ again[Monitor] # "bss"

TInv == TableTypes /\ Placed /\ Restarting /\ Releasing /\ Again

LEMMA Names ==
    /\ Slots = {0, 1} /\ Monitor \in All
    /\ Monitor \notin Vifs /\ \A v \in Vifs : v \in All /\ v # Monitor
    /\ NoVif \notin All /\ Freed \notin All /\ NoVif # Freed
  BY InterfacesAssumption DEF Slots, All

LEMMA TInitially ==
    ASSUME Init
    PROVE  TInv
  <1> USE Names
  <1>1. TableTypes
    <2>1. vif \in [Slots -> All \cup {NoVif, Freed}] /\ index \in [All -> -1..1]
      BY DEF Init
    <2>2. again \in [All -> {"no", "add", "bss"}]
      BY DEF Init
    <2>3. irq \in Irqs
      BY DEF Init, Irqs, Idle
    <2> QED BY <2>1, <2>2, <2>3 DEF TableTypes
  <1>2. Placed
    BY DEF Init, Placed
  <1>3. Restarting /\ Releasing /\ Again
    BY DEF Init, Restarting, Releasing, Again, Settled, Idle
  <1> QED BY <1>1, <1>2, <1>3 DEF TInv

\* What does not touch the table and the course of restarts.
LEMMA TableKept ==
    ASSUME TInv, UNCHANGED <<drv, vif, index, up, again, irq, tgtUp>>
    PROVE  TInv'
  <1>1. TableTypes' /\ Placed'
    BY DEF TInv, TableTypes, Placed
  <1>2. Settled' <=> Settled
    BY DEF Settled
  <1>3. Restarting' /\ Releasing' /\ Again'
    BY <1>2 DEF TInv, Restarting, Releasing, Again
  <1> QED BY <1>1, <1>3 DEF TInv

\* Outside a restart nothing is out of place.
LEMMA QuietTable ==
    ASSUME TInv, Quiet
    PROVE  /\ irq.pc = "idle" /\ tgtUp /\ drv # "REBOOT"
           /\ \A v \in All : again[v] = "no"
           /\ \A v \in up : v \in All =>
                index[v] \in Slots /\ index[v] # -1 /\ vif[index[v]] = v
  <1>1. /\ irq.pc = "idle" /\ tgtUp /\ \A v \in All : again[v] = "no"
    BY DEF Quiet, Settled
  <1>2. drv # "REBOOT"
    BY <1>1 DEF TInv, Restarting
  <1>3. \A v \in up : v \in All =>
                index[v] \in Slots /\ index[v] # -1 /\ vif[index[v]] = v
    BY <1>1 DEF TInv, Placed
  <1> QED BY <1>1, <1>2, <1>3

\* Where nothing is restarted before or after, the table is what matters.
LEMMA QuietSteps ==
    ASSUME Quiet, TInv, UNCHANGED <<irq, again, tgtUp>>, drv' \in {drv, "RUNNING", "STOP"}
    PROVE  Quiet' /\ Restarting' /\ Releasing' /\ Again'
  <1>1. Quiet'
    BY DEF Quiet, Settled
  <1>2. Restarting'
    BY <1>1, QuietTable DEF Restarting, Quiet
  <1>3. Releasing' /\ Again'
    BY QuietTable, Names DEF Releasing, Again
  <1> QED BY <1>1, <1>2, <1>3

\* What an interface that takes slot i changes of the table.
Takes(v, i) ==
    /\ vif' \in [Slots -> All \cup {NoVif, Freed}] /\ index' \in [All -> -1..1]
    /\ i \in Slots /\ vif[i] \in {NoVif, v}
    /\ vif'[i] = v /\ \A j \in Slots : j # i => vif'[j] = vif[j] /\ vif[j] # v
    /\ index'[v] = i /\ \A w \in All : w # v => index'[w] = index[w]

\* An interface that is not misled takes a slot that is free or its own.
LEMMA AllocTakes ==
    ASSUME TInv, NEW v \in All, NEW i \in Candidates(v), Alloc(v, i), ~misled'
    PROVE  Takes(v, i)
  <1> USE Names
  <1>1. i \in Slots
    BY DEF Candidates
  <1>2. ~Misleads(v, i)
    BY DEF Alloc
  <1>3. vif[i] = NoVif \/ (i = 0 /\ vif[i] = v)
    BY <1>2 DEF Misleads
  <1>4. \A j \in Slots : j # i => vif[j] # v
    BY <1>1, <1>2 DEF Misleads
  <1>5. CASE vif[i] = NoVif
    <2>1. vif' = [vif EXCEPT ![i] = v] /\ index' = [index EXCEPT ![v] = i]
      BY <1>5 DEF Alloc
    <2> QED BY <1>1, <1>4, <1>5, <2>1 DEF TInv, TableTypes, Takes
  <1>6. CASE i = 0 /\ vif[i] = v
    <2>1. vif' = vif /\ index' = [index EXCEPT ![v] = 0]
      BY <1>6 DEF Alloc
    <2> QED BY <1>1, <1>4, <1>6, <2>1 DEF TInv, TableTypes, Takes
  <1> QED BY <1>3, <1>5, <1>6

LEMMA TakesPlaced ==
    ASSUME TInv, up \subseteq All, NEW v \in All, NEW i, Takes(v, i),
           up' \in {up, up \cup {v}}, irq' = irq,
           \A w \in All : w # v => again'[w] = again[w]
    PROVE  Placed'
  <1> USE Names
  <1>1. \A j \in Slots : vif'[j] \in All => index'[vif'[j]] = j
    BY DEF TInv, Placed, Takes
  <1>2. \A w \in up' : index'[w] # -1 => index'[w] \in Slots /\ vif'[index'[w]] = w
    BY DEF TInv, Placed, Takes
  <1>3. \A w \in up' : index'[w] = -1 => w \in Vifs /\ (irq'.pc # "idle" \/ again'[w] = "add")
    BY DEF TInv, Placed, Takes
  <1> QED BY <1>1, <1>2, <1>3 DEF Placed

\* An interface is opened outside a restart.
LEMMA AddTable ==
    ASSUME IInv, TInv, Quiet, NEW v \in All, NEW i \in Candidates(v), Alloc(v, i), ~misled',
           up' \in {up, up \cup {v}}, UNCHANGED <<irq, again, tgtUp>>,
           drv' \in {drv, "RUNNING", "STOP"}
    PROVE  TInv'
  <1>1. Takes(v, i)
    BY AllocTakes
  <1>2. up \subseteq All
    BY DEF IInv, MacTypes
  <1>3. Placed'
    BY <1>1, <1>2, TakesPlaced
  <1>4. TableTypes'
    BY <1>1 DEF TInv, TableTypes, Takes
  <1>5. Restarting' /\ Releasing' /\ Again'
    BY QuietSteps
  <1> QED BY <1>3, <1>4, <1>5 DEF TInv

LEMMA OpenTable ==
    ASSUME IInv, TInv, ~misled', NEW v \in Vifs, Open(v) \/ OpenFails(v)
    PROVE  TInv'
  <1> USE Names
  <1>1. Quiet /\ v \notin up /\ UNCHANGED <<irq, again, tgtUp>>
    BY DEF Open, OpenFails, MayOpen, target
  <1>2. CASE Open(v)
    <2>1. PICK i \in Candidates(v) : Alloc(v, i)
      BY <1>2 DEF Open, Add
    <2>2. up' = up \cup {v} /\ drv' = "RUNNING"
      BY <1>2 DEF Open
    <2> QED BY <1>1, <2>1, <2>2, AddTable
  <1>3. CASE OpenFails(v)
    <2>1. up' = up /\ drv' \in {drv, "STOP"}
      BY <1>3 DEF OpenFails, mac
    <2>2. CASE \E i \in Candidates(v) : Alloc(v, i)
      BY <1>1, <2>1, <2>2, AddTable
    <2>3. CASE Candidates(v) = {} /\ index' = [index EXCEPT ![v] = 0] /\ UNCHANGED vif
      <3>1. TableTypes'
        BY <1>1, <2>3 DEF TInv, TableTypes
      <3>2. \A i \in Slots : vif[i] # v
        <4>1. \A i \in Slots : vif[i] = v =>
                 \E k \in Slots : Fits(v, k) /\ \A j \in Slots : Fits(v, j) => k <= j
          BY DEF Fits
        <4> QED BY <2>3, <4>1 DEF Candidates
      <3>3. index' \in [All -> -1..1] /\ \A w \in All : w # v => index'[w] = index[w]
        BY <2>3 DEF TInv, TableTypes
      <3>4. \A w \in up : w \in All /\ w # v
        BY <1>1 DEF IInv, MacTypes
      <3>5. Placed'
        BY <1>1, <2>1, <2>3, <3>2, <3>3, <3>4 DEF TInv, Placed
      <3>6. Restarting' /\ Releasing' /\ Again'
        BY <1>1, <2>1, QuietSteps
      <3> QED BY <3>1, <3>5, <3>6 DEF TInv
    <2> QED BY <1>3, <2>2, <2>3 DEF OpenFails
  <1> QED BY <1>2, <1>3

LEMMA OpenMonitorTable ==
    ASSUME IInv, TInv, ~misled', OpenMonitor
    PROVE  TInv'
  <1> USE Names
  <1>1. /\ Quiet /\ up' = up \cup {Monitor} /\ UNCHANGED <<irq, again, tgtUp>>
        /\ drv' = "RUNNING"
    BY DEF OpenMonitor
  <1>2. PICK i \in Candidates(Monitor) : Alloc(Monitor, i)
    BY DEF OpenMonitor, Add
  <1> QED BY <1>1, <1>2, AddTable

LEMMA CloseMonitorTable ==
    ASSUME IInv, TInv, CloseMonitor
    PROVE  TInv'
  <1> USE Names
  <1>1. /\ Quiet /\ up' = {} /\ drv' = "STOP"
        /\ UNCHANGED <<index, irq, again, tgtUp>>
        /\ vif' = [i \in Slots |-> IF vif[i] = Monitor THEN Freed ELSE vif[i]]
    BY DEF CloseMonitor, target
  <1>2. TableTypes'
    BY <1>1 DEF TInv, TableTypes
  <1>3. \A i \in Slots : vif'[i] \in All => vif'[i] = vif[i]
    BY <1>1
  <1>4. Placed'
    BY <1>1, <1>3 DEF TInv, Placed
  <1>5. Restarting' /\ Releasing' /\ Again'
    BY <1>1, QuietSteps
  <1> QED BY <1>2, <1>4, <1>5 DEF TInv

\* What freeing the slot i of an interface in place changes of the table.
Leaves(v, i) ==
    /\ vif' \in [Slots -> All \cup {NoVif, Freed}] /\ index' \in [All -> -1..1]
    /\ i \in Slots /\ vif[i] = v /\ vif'[i] = NoVif /\ index'[v] = -1
    /\ \A j \in Slots : j # i => vif'[j] = vif[j]
    /\ \A w \in All : w # v => index'[w] = index[w]
    /\ \A j \in Slots : vif'[j] # v

LEMMA FreeTable ==
    ASSUME TInv, NEW v \in Vifs, index[v] \in Slots, vif[index[v]] = v, Free(v)
    PROVE  Leaves(v, index[v])
  <1> USE Names
  <1> DEFINE i == index[v]
  <1>1. i \in Slots /\ vif[i] = v
    OBVIOUS
  <1>2. vif' = [vif EXCEPT ![i] = NoVif] /\ index' = [index EXCEPT ![v] = -1]
    BY DEF Free
  <1>3. \A j \in Slots : j # i => vif[j] # v
    BY DEF TInv, Placed
  <1> HIDE DEF i
  <1>4. /\ vif'[i] = NoVif /\ index'[v] = -1
        /\ \A j \in Slots : j # i => vif'[j] = vif[j]
        /\ \A w \in All : w # v => index'[w] = index[w]
        /\ vif' \in [Slots -> All \cup {NoVif, Freed}] /\ index' \in [All -> -1..1]
    BY <1>1, <1>2 DEF TInv, TableTypes
  <1>5. \A j \in Slots : vif'[j] # v
    BY <1>1, <1>3, <1>4
  <1> QED BY <1>1, <1>4, <1>5 DEF i, Leaves

LEMMA CloseTable ==
    ASSUME IInv, TInv, NEW v \in Vifs, Close(v)
    PROVE  TInv'
  <1> USE Names
  <1>1. /\ Quiet /\ v \in up /\ up' = up \ {v} /\ Free(v) /\ drv' \in {drv, "STOP"}
        /\ UNCHANGED <<irq, again, tgtUp>>
    BY DEF Close, Stop
  <1> DEFINE i == index[v]
  <1>2. i \in Slots /\ vif[i] = v
    BY <1>1, QuietTable
  <1>3. Leaves(v, i)
    BY <1>1, <1>2, FreeTable
  <1> HIDE DEF i
  <1>4. TableTypes'
    BY <1>1, <1>3 DEF TInv, Leaves, TableTypes
  <1>5. Placed'
    <2>1. \A j \in Slots : vif'[j] \in All => index'[vif'[j]] = j
      BY <1>1, <1>3 DEF TInv, Leaves, Placed
    <2>2. \A w \in up' : index'[w] # -1 => index'[w] \in Slots /\ vif'[index'[w]] = w
      BY <1>1, <1>3 DEF TInv, Leaves, Placed, IInv, MacTypes
    <2>3. \A w \in up' : index'[w] = -1 => w \in Vifs /\ (irq'.pc # "idle" \/ again'[w] = "add")
      BY <1>1, <1>3 DEF TInv, Leaves, Placed, IInv, MacTypes
    <2> QED BY <2>1, <2>2, <2>3 DEF Placed
  <1>6. Restarting' /\ Releasing' /\ Again'
    BY <1>1, QuietSteps
  <1> QED BY <1>4, <1>5, <1>6 DEF TInv

LEMMA WdtExpiredTable ==
    ASSUME IInv, TInv, WdtExpired
    PROVE  TInv'
  <1>1. /\ irq.pc = "idle" /\ Settled /\ drv' = "REBOOT" /\ tgtUp' = FALSE
        /\ UNCHANGED <<vif, index, up, irq, again>>
    BY DEF WdtExpired, table, mac
  <1>2. TableTypes' /\ Placed'
    BY <1>1 DEF TInv, TableTypes, Placed
  <1>3. irq'.pc = "idle" /\ Settled'
    BY <1>1 DEF Settled
  <1>4. Restarting' /\ Releasing' /\ Again'
    BY <1>1, <1>3 DEF TInv, Restarting, Releasing, Again
  <1> QED BY <1>2, <1>4 DEF TInv

\* nrc_mac_restart begins, for either caller.
LEMMA BeginTable ==
    ASSUME IInv, TInv, NEW caller \in {"wdt", "user"}, Begin(caller),
           irq.pc = "idle", Settled, caller = "user" => drv' # "REBOOT",
           tgtUp' = TRUE, UNCHANGED <<vif, index, up, again>>
    PROVE  TInv'
  <1> USE Names
  <1>1. /\ irq'.pc = "slot" /\ irq'.i = 0 /\ irq'.by = caller
        /\ irq'.relay <=> \A i \in Slots : vif[i] # NoVif
    BY DEF Begin
  <1>2. irq' \in Irqs
    BY DEF Begin, Irqs
  <1>3. TableTypes'
    BY <1>2 DEF TInv, TableTypes
  <1>4. \A v \in up : index[v] # -1
    BY DEF TInv, Placed, Settled, IInv, MacTypes
  <1>5. Placed'
    BY <1>4 DEF TInv, Placed
  <1>6. Settled'
    BY DEF Settled
  <1>7. Restarting'
    BY <1>1, <1>6 DEF Restarting
  <1>8. Releasing' /\ Again'
    BY <1>1, <1>4 DEF TInv, Releasing, Again
  <1> QED BY <1>3, <1>5, <1>7, <1>8 DEF TInv

LEMMA FwReadyTable ==
    ASSUME IInv, TInv, FwReady
    PROVE  TInv'
  <1>1. ~tgtUp /\ tgtUp' = TRUE /\ Begin("wdt") /\ UNCHANGED <<vif, index, up, again>>
    BY DEF FwReady, table, mac
  <1>2. irq.pc = "idle" /\ Settled
    BY <1>1 DEF TInv, Restarting
  <1> QED BY <1>1, <1>2, BeginTable

LEMMA UserRestartTable ==
    ASSUME IInv, TInv, UserRestart
    PROVE  TInv'
  <1>1. /\ Quiet /\ drv' = "START" /\ Begin("user")
        /\ UNCHANGED <<vif, index, up, again, tgtUp>>
    BY DEF UserRestart, table, mac
  <1>2. irq.pc = "idle" /\ Settled /\ tgtUp' = TRUE
    BY <1>1 DEF Quiet
  <1> QED BY <1>1, <1>2, BeginTable

\* While slots are released the target runs and nothing is added again.
LEMMA Busy ==
    ASSUME TInv, irq.pc # "idle"
    PROVE  tgtUp /\ \A v \in All : again[v] = "no"
  BY DEF TInv, Restarting, Settled

\* The next slot, when this one holds no interface (any more).
LEMMA AdvanceTable ==
    ASSUME IInv, TInv, irq.pc # "idle", irq' \in Irqs, irq'.pc = "slot",
           irq'.relay = irq.relay, irq'.by = irq.by,
           \/ UNCHANGED <<vif, index>>
           \/ \E v \in Vifs, i \in Slots : Leaves(v, i),
           UNCHANGED <<drv, up, again, tgtUp>>
    PROVE  TInv'
  <1> USE Names
  <1>1. up \subseteq All
    BY DEF IInv, MacTypes
  <1>2. TableTypes'
    BY DEF TInv, TableTypes, Leaves
  <1>3. Placed'
    <2>1. CASE UNCHANGED <<vif, index>>
      BY <2>1 DEF TInv, Placed
    <2>2. CASE \E v \in Vifs, i \in Slots : Leaves(v, i)
      <3>1. PICK v \in Vifs, i \in Slots : Leaves(v, i)
        BY <2>2
      <3>2. \A j \in Slots : vif'[j] \in All => index'[vif'[j]] = j
        BY <3>1 DEF TInv, Placed, Leaves
      <3>3. \A w \in up : index'[w] # -1 => index'[w] \in Slots /\ vif'[index'[w]] = w
        BY <1>1, <3>1 DEF TInv, Placed, Leaves
      <3>4. \A w \in up : index'[w] = -1 => w \in Vifs
        BY <1>1, <3>1 DEF TInv, Placed, Leaves
      <3> QED BY <3>2, <3>3, <3>4 DEF Placed
    <2> QED BY <2>1, <2>2
  <1>4. Settled'
    BY Busy DEF Settled
  <1>5. Restarting'
    BY <1>4, Busy DEF TInv, Restarting
  <1>6. Releasing'
    <2>1. CASE UNCHANGED <<vif, index>>
      BY <2>1 DEF TInv, Releasing
    <2>2. CASE \E v \in Vifs, i \in Slots : Leaves(v, i)
      <3>1. PICK v \in Vifs, i \in Slots : Leaves(v, i)
        BY <2>2
      <3>2. vif[i] = v /\ vif'[i] = NoVif /\ v # NoVif
        BY <3>1 DEF Leaves
      <3>3. ASSUME ~irq.relay PROVE \A j \in Slots : vif'[j] = NoVif
        <4>1. PICK k \in Slots : vif[k] = NoVif
          BY <3>3 DEF TInv, Releasing
        <4>2. k # i /\ vif'[k] = NoVif
          BY <3>1, <3>2, <4>1 DEF Leaves
        <4> QED BY <3>2, <4>2
      <3>4. ~irq'.relay => \A j \in Slots : vif'[j] = NoVif
        BY <3>3
      <3> QED BY <3>2, <3>4 DEF Releasing
    <2> QED BY <2>1, <2>2
  <1>7. Again'
    BY Busy DEF Again
  <1> QED BY <1>2, <1>3, <1>5, <1>6, <1>7 DEF TInv

LEMMA NextSlotTable ==
    ASSUME IInv, TInv, NextSlot
    PROVE  TInv'
  <1>1. /\ irq.pc = "slot" /\ irq.i \in Slots /\ irq' = [irq EXCEPT !.i = @ + 1]
        /\ UNCHANGED <<drv, vif, index, up, again, tgtUp>>
    BY DEF NextSlot, table, mac, target
  <1>2. /\ irq' \in Irqs /\ irq'.pc = "slot"
        /\ irq'.relay = irq.relay /\ irq'.by = irq.by
    BY <1>1, Names DEF TInv, TableTypes, Irqs
  <1> QED BY <1>1, <1>2, AdvanceTable

\* What a slot holds is in place.
LEMMA Holds ==
    ASSUME TInv, irq.i \in Slots, vif[irq.i] \in Vifs
    PROVE  index[vif[irq.i]] = irq.i
  BY Names DEF TInv, Placed

\* Back in the caller of nrc_mac_restart.
LEMMA FinishTable ==
    ASSUME IInv, TInv, irq.pc # "idle", NEW r \in BOOLEAN, Finish(r),
           \A v \in up : index[v] = -1 => r = TRUE,
           UNCHANGED <<vif, index, up, tgtUp>>
    PROVE  TInv'
  <1> USE Names
  <1>1. /\ irq' \in Irqs /\ irq'.pc = "idle"
        /\ \/ again' = [v \in All |-> IF v \in up THEN "add" ELSE "no"]
           \/ again' = again /\ ~r
        /\ drv' = IF irq.by = "wdt" \/ up # {} THEN "RUNNING" ELSE drv
    BY DEF Irqs, Idle, Finish
  <1>2. /\ again' \in [All -> {"no", "add", "bss"}]
        /\ \A v \in All : again'[v] # "no" => v \in up /\ again'[v] = "add"
        /\ r => \A v \in up : again'[v] = "add"
    BY <1>1, Busy DEF TInv, TableTypes, IInv, MacTypes
  <1>3. drv' # "REBOOT"
    BY <1>1, Busy DEF TInv, Restarting
  <1>4. TableTypes'
    BY <1>1, <1>2 DEF TInv, TableTypes
  <1>5. Placed'
    BY <1>2 DEF TInv, Placed
  <1>6. Restarting'
    BY <1>1, <1>3, Busy DEF TInv, Restarting
  <1>7. Releasing' /\ Again'
    BY <1>1, <1>2 DEF Releasing, Again, IInv, MacTypes
  <1> QED BY <1>4, <1>5, <1>6, <1>7 DEF TInv

\* A single interface in the table is in place, and all that is open.
LEMMA Single ==
    ASSUME IInv, TInv, irq.pc # "idle", ~irq.relay, NEW i \in Slots, vif[i] \in Vifs
    PROVE  \A w \in up : index[w] # -1 /\ index[w] = i /\ vif[i] = w
  <1> USE Names
  <1>1. vif[i] # NoVif
    OBVIOUS
  <1>2. \A w \in up : index[w] # -1
    BY <1>1 DEF TInv, Releasing
  <1>3. \A j \in Slots : j # i => vif[j] = NoVif
    BY <1>1 DEF TInv, Releasing
  <1>4. \A w \in up : w \in All
    BY DEF IInv, MacTypes
  <1>5. \A w \in up : index[w] \in Slots /\ vif[index[w]] = w
    BY <1>2 DEF TInv, Placed
  <1>6. \A w \in up : index[w] = i
    BY <1>3, <1>4, <1>5
  <1> QED BY <1>2, <1>5, <1>6

LEMMA RestartStaTable ==
    ASSUME IInv, TInv, RestartSta
    PROVE  TInv'
  <1> USE Names
  <1> DEFINE v == vif[irq.i]
  <1>1. irq.pc = "slot" /\ irq.i \in Slots /\ v \in Vifs /\ UNCHANGED <<up, tgtUp>>
    BY DEF RestartSta, mac, target
  <1>2. index[v] = irq.i
    BY <1>1, Holds
  <1>3. CASE irq.relay
    <2>1. Free(v) /\ irq' = [irq EXCEPT !.i = @ + 1] /\ UNCHANGED <<drv, again>>
      BY <1>3 DEF RestartSta
    <2>2. Leaves(v, irq.i)
      BY <1>1, <1>2, <2>1, FreeTable
    <2>3. /\ irq' \in Irqs /\ irq'.pc = "slot"
          /\ irq'.relay = irq.relay /\ irq'.by = irq.by
      BY <1>1, <2>1 DEF TInv, TableTypes, Irqs
    <2> QED BY <1>1, <2>1, <2>2, <2>3, AdvanceTable
  <1>4. CASE ~irq.relay
    <2>1. Finish(FALSE) /\ UNCHANGED <<vif, index>>
      BY <1>4 DEF RestartSta, table
    <2>2. \A w \in up : index[w] # -1
      BY <1>1, <1>4, Single
    <2> QED BY <1>1, <2>1, <2>2, FinishTable
  <1> QED BY <1>3, <1>4

LEMMA RestartDoneTable ==
    ASSUME IInv, TInv, RestartDone
    PROVE  TInv'
  <1>1. irq.pc # "idle" /\ Finish(TRUE) /\ UNCHANGED <<vif, index, up, tgtUp>>
    BY DEF RestartDone, mac, target, table
  <1> QED BY <1>1, FinishTable

\* Where the restart waits for the stations, the slot is as it was.
LEMMA WaitTable ==
    ASSUME IInv, TInv, RestartAp \/ WaitForStas
    PROVE  TInv'
  <1> USE Names
  <1>1. /\ irq.pc # "idle" /\ UNCHANGED <<drv, vif, index, up, again, tgtUp>>
    BY DEF RestartAp, WaitForStas, table, mac, target
  <1>2. /\ irq' \in Irqs /\ irq'.pc = "wait" /\ irq'.i = irq.i
        /\ irq'.relay = irq.relay /\ irq'.by = irq.by
    <2>1. CASE RestartAp
      BY <2>1 DEF RestartAp, TInv, TableTypes, Irqs
    <2>2. CASE WaitForStas
      BY <2>2 DEF WaitForStas, TInv, TableTypes, Irqs
    <2> QED BY <2>1, <2>2
  <1>3. irq.i \in Slots /\ vif[irq.i] \in Vifs
    BY DEF RestartAp, WaitForStas, TInv, Releasing
  <1>4. TableTypes' /\ Placed'
    BY <1>1, <1>2 DEF TInv, TableTypes, Placed
  <1>5. Settled'
    BY <1>1, Busy DEF Settled
  <1>6. Restarting'
    BY <1>1, <1>2, <1>5, Busy DEF TInv, Restarting
  <1>7. Releasing' /\ Again'
    BY <1>1, <1>2, <1>3 DEF TInv, Releasing, Again
  <1> QED BY <1>4, <1>6, <1>7 DEF TInv

LEMMA ReleaseApTable ==
    ASSUME IInv, TInv, ReleaseAp
    PROVE  TInv'
  <1> USE Names
  <1> DEFINE v == vif[irq.i]
  <1>1. /\ irq.pc = "wait" /\ v \in Vifs /\ Free(v)
        /\ irq' = [irq EXCEPT !.pc = "slot", !.i = @ + 1]
        /\ UNCHANGED <<drv, up, again, tgtUp>>
    BY DEF ReleaseAp, mac, target
  <1>2. irq.i \in Slots
    BY <1>1 DEF TInv, Releasing
  <1>3. index[v] = irq.i
    BY <1>1, <1>2, Holds
  <1>4. Leaves(v, irq.i)
    BY <1>1, <1>2, <1>3, FreeTable
  <1>5. /\ irq' \in Irqs /\ irq'.pc = "slot"
        /\ irq'.relay = irq.relay /\ irq'.by = irq.by
    <2> DEFINE u == [irq EXCEPT !.pc = "slot"]
    <2>1. /\ u \in Irqs /\ u.pc = "slot" /\ u.i = irq.i
          /\ u.relay = irq.relay /\ u.by = irq.by
      BY DEF TInv, TableTypes, Irqs
    <2>2. irq' = [u EXCEPT !.i = @ + 1]
      BY <1>1, <2>1 DEF TInv, TableTypes, Irqs
    <2> HIDE DEF u
    <2> QED BY <1>2, <2>1, <2>2 DEF Irqs
  <1> QED BY <1>1, <1>2, <1>4, <1>5, AdvanceTable

\* mac80211 adds an interface again.
LEMMA ReaddTable ==
    ASSUME IInv, TInv, ~misled', NEW v \in All, Readd(v)
    PROVE  TInv'
  <1> USE Names
  <1>1. /\ irq.pc = "idle" /\ again[v] = "add"
        /\ again' = [again EXCEPT ![v] = IF v = Monitor THEN "no" ELSE "bss"]
        /\ UNCHANGED <<drv, up, irq, tgtUp>>
    BY DEF Readd, mac
  <1>2. /\ again' \in [All -> {"no", "add", "bss"}]
        /\ \A w \in All : w # v => again'[w] = again[w]
        /\ again'[v] = IF v = Monitor THEN "no" ELSE "bss"
    BY <1>1 DEF TInv, TableTypes
  <1>3. PICK i \in Candidates(v) : Alloc(v, i)
    BY DEF Readd, Add
  <1>4. Takes(v, i)
    BY <1>3, AllocTakes
  <1>5. TableTypes'
    BY <1>1, <1>2, <1>4 DEF TInv, TableTypes, Takes
  <1>6. Placed'
    <2>1. up \subseteq All
      BY DEF IInv, MacTypes
    <2> QED BY <1>1, <1>2, <1>4, <2>1, TakesPlaced
  <1>7. ~Settled
    BY <1>1 DEF Settled
  <1>8. Restarting'
    BY <1>1, <1>7 DEF TInv, Restarting
  <1>9. Releasing' /\ Again'
    BY <1>1, <1>2 DEF TInv, Releasing, Again
  <1> QED BY <1>5, <1>6, <1>8, <1>9 DEF TInv

\* Those that were added already are in place, and leave their slots.
LEMMA ReaddFailsTable ==
    ASSUME IInv, TInv, ReaddFails
    PROVE  TInv'
  <1> USE Names
  <1> DEFINE added == {v \in up : again[v] # "add"}
             slots == {index[v] : v \in added}
  <1>1. /\ irq.pc = "idle" /\ ~Settled
        /\ vif' = [i \in Slots |-> IF i \in slots THEN NoVif ELSE vif[i]]
        /\ index' = [v \in All |-> IF v \in added THEN -1 ELSE index[v]]
    BY DEF ReaddFails, Settled
  <1>2. /\ up' = {} /\ drv' = "STOP" /\ again' = [v \in All |-> "no"]
        /\ UNCHANGED <<irq, tgtUp>>
    BY DEF ReaddFails
  <1>3. \A v \in added : index[v] \in slots
    OBVIOUS
  <1> HIDE DEF added, slots
  <1>4. TableTypes'
    BY <1>1, <1>2 DEF TInv, TableTypes
  <1>5. Placed'
    <2> SUFFICES ASSUME NEW i \in Slots, vif'[i] \in All PROVE index'[vif'[i]] = i
      BY <1>2 DEF Placed
    <2>1. i \notin slots /\ vif'[i] = vif[i]
      BY <1>1
    <2>2. index[vif[i]] = i
      BY <2>1 DEF TInv, Placed
    <2>3. vif[i] \notin added
      BY <1>3, <2>1, <2>2
    <2> QED BY <1>1, <2>1, <2>2, <2>3
  <1>6. tgtUp
    BY <1>1 DEF TInv, Restarting
  <1>7. Restarting' /\ Releasing'
    BY <1>1, <1>2, <1>6 DEF Restarting, Releasing
  <1>8. Again'
    BY <1>2 DEF Again
  <1> QED BY <1>4, <1>5, <1>7, <1>8 DEF TInv

LEMMA ReconfigureTable ==
    ASSUME IInv, TInv, NEW v \in All, Reconfigure(v)
    PROVE  TInv'
  <1> USE Names
  <1>1. /\ irq.pc = "idle" /\ again[v] = "bss" /\ again' = [again EXCEPT ![v] = "no"]
        /\ UNCHANGED <<drv, vif, index, up, irq, tgtUp>>
    BY DEF Reconfigure, table, mac, target
  <1>2. /\ again' \in [All -> {"no", "add", "bss"}] /\ again'[v] = "no"
        /\ \A w \in All : w # v => again'[w] = again[w]
    BY <1>1 DEF TInv, TableTypes
  <1>3. TableTypes'
    BY <1>1, <1>2 DEF TInv, TableTypes
  <1>4. Placed'
    BY <1>1, <1>2 DEF TInv, Placed, IInv, MacTypes
  <1>5. ~Settled
    BY <1>1 DEF Settled
  <1>6. Restarting'
    BY <1>1, <1>5 DEF TInv, Restarting
  <1>7. Releasing' /\ Again'
    BY <1>1, <1>2 DEF TInv, Releasing, Again
  <1> QED BY <1>3, <1>4, <1>6, <1>7 DEF TInv

LEMMA OtherTable ==
    ASSUME TInv, NEW v \in Vifs,
           \/ StaJoins(v) \/ StaLeaves(v) \/ Beacon(v)
           \/ \E t \in {"STA", "AP"} : Change(v, t)
           \/ \E e \in Elems : SetElem(v, e) \/ RemoveElem(v, e)
           \/ RemoteOff \/ \E i \in Slots : Reinstall(i)
    PROVE  TInv'
  <1>1. UNCHANGED <<drv, vif, index, up, again, irq, tgtUp>>
    BY DEF StaJoins, StaLeaves, Beacon, Change, SetElem, RemoveElem, RemoteOff, Reinstall,
           table, mac, target
  <1> QED BY <1>1, TableKept

LEMMA StepTable ==
    ASSUME IInv, TInv, ~misled', [Next]_vars
    PROVE  TInv'
  <1>1. CASE \E v \in Vifs : Open(v) \/ OpenFails(v) \/ Close(v)
    BY <1>1, OpenTable, CloseTable
  <1>2. CASE \E v \in Vifs : \/ StaJoins(v) \/ StaLeaves(v) \/ Beacon(v)
                            \/ \E t \in {"STA", "AP"} : Change(v, t)
                            \/ \E e \in Elems : SetElem(v, e) \/ RemoveElem(v, e)
    BY <1>2, OtherTable
  <1>3. CASE RemoteOff \/ \E i \in Slots : Reinstall(i)
    <2>1. UNCHANGED <<drv, vif, index, up, again, irq, tgtUp>>
      BY <1>3 DEF RemoteOff, Reinstall, table, mac, target
    <2> QED BY <2>1, TableKept
  <1>4. CASE OpenMonitor \/ CloseMonitor
    BY <1>4, OpenMonitorTable, CloseMonitorTable
  <1>5. CASE WdtExpired \/ FwReady \/ UserRestart
    BY <1>5, WdtExpiredTable, FwReadyTable, UserRestartTable
  <1>6. CASE NextSlot \/ RestartSta \/ RestartAp \/ WaitForStas \/ ReleaseAp \/ RestartDone
    BY <1>6, NextSlotTable, RestartStaTable, WaitTable, ReleaseApTable, RestartDoneTable
  <1>7. ~RestartFreed
    BY DEF RestartFreed
  <1>8. CASE ReaddFails \/ \E v \in All : Readd(v) \/ Reconfigure(v)
    BY <1>8, ReaddFailsTable, ReaddTable, ReconfigureTable
  <1>9. CASE UNCHANGED vars
    BY <1>9, TableKept DEF vars, table, mac, target
  <1> QED BY <1>1, <1>2, <1>3, <1>4, <1>5, <1>6, <1>7, <1>8, <1>9 DEF Next

\* The mark that something was misled stays.
LEMMA Misled ==
    ASSUME [Next]_vars, ~misled'
    PROVE  ~misled
  <1>1. CASE \E v \in Vifs : Open(v) \/ OpenFails(v) \/ Close(v)
    BY <1>1 DEF Open, OpenFails, Close, Add, Alloc
  <1>2. CASE \E v \in Vifs : \/ StaJoins(v) \/ StaLeaves(v) \/ Beacon(v)
                            \/ \E t \in {"STA", "AP"} : Change(v, t)
                            \/ \E e \in Elems : SetElem(v, e) \/ RemoveElem(v, e)
    BY <1>2 DEF StaJoins, StaLeaves, Beacon, Change, SetElem, RemoveElem, marks
  <1>3. CASE RemoteOff \/ \E i \in Slots : Reinstall(i)
    BY <1>3 DEF RemoteOff, Reinstall, marks
  <1>4. CASE OpenMonitor \/ CloseMonitor
    BY <1>4 DEF OpenMonitor, CloseMonitor, Add, Alloc, marks
  <1>5. CASE WdtExpired \/ FwReady \/ UserRestart
    BY <1>5 DEF WdtExpired, FwReady, UserRestart, marks
  <1>6. CASE NextSlot \/ RestartSta \/ RestartAp \/ WaitForStas \/ ReleaseAp \/ RestartDone
    BY <1>6 DEF NextSlot, RestartSta, RestartAp, WaitForStas, ReleaseAp, RestartDone, marks
  <1>7. ~RestartFreed
    BY DEF RestartFreed
  <1>8. CASE ReaddFails \/ \E v \in All : Readd(v) \/ Reconfigure(v)
    BY <1>8 DEF ReaddFails, Readd, Reconfigure, Add, Alloc, marks
  <1>9. CASE UNCHANGED vars
    BY <1>9 DEF vars, marks
  <1> QED BY <1>1, <1>2, <1>3, <1>4, <1>5, <1>6, <1>7, <1>8, <1>9 DEF Next

\* Every open interface has an index whose slot leads back to it
\* (nrc_alloc_vif_index, nrc_free_vif_index, nrc_mac_restart), until one is misled,
\* for any set of interfaces and any number of openings, changes, monitors and
\* restarts, whatever fails of them.
THEOREM SpecOwnIndex == Spec => []OwnIndex
  <1> DEFINE Inv == IInv /\ (~misled => TInv)
  <1>1. Init => Inv
    BY Initially, TInitially
  <1>2. Inv /\ [Next]_vars => Inv'
    BY StepKeeps, StepTable, Misled
  <1>3. Inv => OwnIndex
    BY QuietTable DEF OwnIndex, IInv, MacTypes
  <1> QED BY <1>1, <1>2, <1>3, PTL DEF Spec

-----------------------------------------------------------------------------
(* What the target knows (Interfaces!TargetKnows), until one is misled.      *)

ElemTypes ==
    /\ told \in [Vifs -> SUBSET Elems] /\ backup \in [Slots -> SUBSET Elems]
    /\ ies \in [Slots -> SUBSET Elems] /\ byWdt \in [Slots -> BOOLEAN]
    /\ tgt \in [Slots -> Types \cup {"NONE"}] /\ remote \in Vifs \cup {NoVif}
    /\ buf \subseteq Elems /\ home \in [All -> Slots]

\* The target has the type of each interface that is in place; what a watchdog
\* reset does to the type of a single station, the target undoes itself.
TypesKnown ==
    /\ \A v \in Vifs : type[v] \in {"STA", "AP"}
    /\ \A v \in up : irq.pc = "idle" /\ tgtUp /\ again[v] # "add" => tgt[index[v]] = type[v]
    /\ irq.pc # "idle" /\ irq.by = "wdt" => drv = "REBOOT"
    /\ \A v \in up : drv = "REBOOT" /\ up = {v} /\ type[v] = "STA" /\ index[v] # -1
                        => tgt[index[v]] = "STA"

\* An interface in place has the index it came under.
Homes == \A v \in up : index[v] # -1 => home[v] = index[v]

\* What was told is in the buffers and backed up under the index the interface
\* came under; while an interface waits to be added again, that slot is marked,
\* or another one has it.
Backed ==
    /\ \A v \in Vifs : told[v] \subseteq buf
    /\ \A v \in Vifs : v \notin up => told[v] = {}
    /\ \A v \in Vifs : v \notin bcn => told[v] \cap InBeacon = {}
    /\ \A v \in Vifs : told[v] \ {Remote} \subseteq backup[home[v]]
    /\ \A v \in Vifs : irq.pc # "idle" /\ told[v] # {} => byWdt[home[v]] /\ irq.by = "wdt"
    /\ \A v \in Vifs : again[v] = "add" /\ told[v] # {} =>
          byWdt[home[v]] \/ vif[home[v]] \in All \ {v}

\* The target has the elements of probes and associations once the interface is
\* added and the reinstallation has run, and those of beacons once it is
\* configured.
InAir == irq.pc = "idle" /\ tgtUp => \A v \in Vifs : v \in up =>
    /\ again[v] = "no" => told[v] \cap InBeacon \subseteq ies[index[v]]
    /\ again[v] # "add" /\ index[v] \notin reinstall => told[v] \ InBeacon \subseteq ies[index[v]]

KInv == ElemTypes /\ TypesKnown /\ Homes /\ Backed /\ InAir

LEMMA KInitially == Init => KInv
  <1> SUFFICES ASSUME Init PROVE KInv
    OBVIOUS
  <1> USE Names, VendorAssumption
  <1>1. /\ up = {} /\ drv = "START" /\ irq.pc = "idle"
        /\ \A v \in Vifs : told[v] = {}
        /\ \A v \in All : again[v] = "no"
    BY DEF Init, Idle
  <1>2. ElemTypes
    <2>1. /\ told \in [Vifs -> SUBSET Elems] /\ tgt \in [Slots -> Types \cup {"NONE"}]
          /\ home \in [All -> Slots]
      BY DEF Init
    <2>2. /\ backup \in [Slots -> SUBSET Elems] /\ byWdt \in [Slots -> BOOLEAN]
          /\ ies \in [Slots -> SUBSET Elems] /\ remote \in Vifs \cup {NoVif} /\ buf \subseteq Elems
      BY DEF Init, VendorInit, Indexes, Slots
    <2> QED BY <2>1, <2>2 DEF ElemTypes
  <1>3. TypesKnown
    <2>1. \A v \in Vifs : type[v] \in {"STA", "AP"}
      BY DEF Init, Types
    <2> QED BY <1>1, <2>1 DEF TypesKnown
  <1>4. Homes /\ Backed /\ InAir
    BY <1>1 DEF Homes, Backed, InAir
  <1> QED BY <1>2, <1>3, <1>4 DEF KInv

\* An interface that is in place has its slot, and no other one has it.
LEMMA InHome ==
    ASSUME IInv, TInv, Homes, NEW v \in up, index[v] # -1
    PROVE  /\ v \in All /\ index[v] \in Slots /\ index[v] = home[v] /\ vif[index[v]] = v
           /\ \A w \in All : w # v /\ index[w] = index[v] => w \notin up
  <1> USE Names
  <1>1. v \in All /\ index[v] \in Slots /\ vif[index[v]] = v /\ index[v] = home[v]
    BY DEF IInv, MacTypes, TInv, Placed, Homes
  <1>2. \A w \in All : w # v /\ index[w] = index[v] => w \notin up
    BY <1>1 DEF TInv, Placed
  <1> QED BY <1>1, <1>2

\* Where nothing is restarted, or mac80211 adds interfaces again, all that does
\* not wait to be added is in place; the target hears of it.
LEMMA InPlace ==
    ASSUME IInv, TInv, Homes, irq.pc = "idle", NEW v \in up, again[v] # "add"
    PROVE  /\ v \in All /\ index[v] \in Slots /\ index[v] = home[v] /\ vif[index[v]] = v
           /\ \A w \in All : w # v /\ index[w] = index[v] => w \notin up
  <1>1. index[v] # -1
    BY DEF TInv, Placed
  <1> QED BY <1>1, InHome

LEMMA Heard ==
    ASSUME TInv, irq.pc = "idle", tgtUp, NEW i \in Slots
    PROVE  drv # "REBOOT" /\ Reaches(drv, i) /\ Reaches("RUNNING", i)
  BY DEF TInv, Restarting, Reaches

\* Nothing of this changes, or only where the restart is.
LEMMA KnowsKept ==
    ASSUME KInv, UNCHANGED <<drv, up, bcn, type, again, index, tgt, tgtUp, told, buf, backup,
                             byWdt, remote, vif, irq, ies, reinstall, home>>
    PROVE  KInv'
  <1>1. ElemTypes' /\ TypesKnown' /\ Homes'
    BY DEF KInv, ElemTypes, TypesKnown, Homes
  <1>2. Backed' /\ InAir'
    BY DEF KInv, Backed, InAir
  <1> QED BY <1>1, <1>2 DEF KInv

LEMMA BusyKnows ==
    ASSUME IInv, TInv, KInv, irq.pc # "idle", irq'.pc # "idle", irq'.by = irq.by,
           index' = index \/ \E v \in Vifs, i \in Slots : Leaves(v, i),
           UNCHANGED <<drv, up, bcn, type, again, tgt, tgtUp, told, buf, backup, byWdt, remote,
                       ies, home>>
    PROVE  KInv'
  <1>1. \A v \in up : index'[v] # -1 => index'[v] = index[v]
    BY DEF Leaves, IInv, MacTypes
  <1>2. ElemTypes'
    BY DEF KInv, ElemTypes
  <1>3. TypesKnown'
    BY <1>1 DEF KInv, TypesKnown
  <1>4. Homes'
    BY <1>1 DEF KInv, Homes
  <1>5. Backed'
    BY Busy, Names DEF KInv, Backed
  <1>6. InAir'
    BY DEF InAir
  <1> QED BY <1>2, <1>3, <1>4, <1>5, <1>6 DEF KInv

LEMMA WaitKnows ==
    ASSUME IInv, TInv, KInv, NextSlot \/ RestartAp \/ WaitForStas
    PROVE  KInv'
  <1>1. /\ irq.pc # "idle" /\ index' = index
        /\ UNCHANGED <<drv, up, bcn, type, again, tgt, tgtUp, told, buf, backup, byWdt, remote,
                       ies, home>>
    BY DEF NextSlot, RestartAp, WaitForStas, table, mac, target, vendor, marks
  <1>2. irq'.pc # "idle" /\ irq'.by = irq.by
    <2>1. CASE NextSlot
      BY <2>1 DEF NextSlot, TInv, TableTypes, Irqs
    <2>2. CASE RestartAp
      BY <2>2 DEF RestartAp, TInv, TableTypes, Irqs
    <2>3. CASE WaitForStas
      BY <2>3 DEF WaitForStas, TInv, TableTypes, Irqs
    <2> QED BY <2>1, <2>2, <2>3
  <1> QED BY <1>1, <1>2, BusyKnows

LEMMA ReleaseApKnows ==
    ASSUME IInv, TInv, KInv, ReleaseAp
    PROVE  KInv'
  <1>1. /\ irq.pc = "wait" /\ irq.i \in Slots /\ vif[irq.i] \in Vifs /\ Free(vif[irq.i])
        /\ irq' = [irq EXCEPT !.pc = "slot", !.i = @ + 1]
        /\ UNCHANGED <<drv, up, bcn, type, again, tgt, tgtUp, told, buf, backup, byWdt, remote,
                       ies, home>>
    BY DEF ReleaseAp, mac, target, vendor, marks, TInv, Releasing
  <1>2. irq'.pc # "idle" /\ irq'.by = irq.by
    BY <1>1 DEF TInv, TableTypes, Irqs
  <1>3. Leaves(vif[irq.i], irq.i)
    BY <1>1, Holds, FreeTable
  <1> QED BY <1>1, <1>2, <1>3, BusyKnows

LEMMA RestartDoneKnows ==
    ASSUME IInv, TInv, KInv, RestartDone
    PROVE  KInv'
  <1>1. /\ irq.pc # "idle" /\ Finish(TRUE)
        /\ UNCHANGED <<vif, index, up, bcn, type, tgt, tgtUp, told, buf, backup, byWdt, remote,
                       ies, home>>
    BY DEF RestartDone, mac, target, table, vendor, marks
  <1>2. /\ irq'.pc = "idle" /\ again' = [v \in All |-> IF v \in up THEN "add" ELSE "no"]
        /\ drv' = IF irq.by = "wdt" \/ up # {} THEN "RUNNING" ELSE drv
    BY <1>1 DEF Finish, Idle
  <1>3. \A v \in up : v \in All /\ again'[v] = "add"
    BY <1>2 DEF IInv, MacTypes
  <1>4. drv' # "REBOOT"
    BY <1>1, <1>2, Busy DEF TInv, Restarting
  <1>5. ElemTypes' /\ TypesKnown'
    BY <1>1, <1>2, <1>3, <1>4 DEF KInv, ElemTypes, TypesKnown
  <1>6. Homes' /\ Backed'
    BY <1>1, <1>2, <1>3 DEF KInv, Homes, Backed
  <1>7. InAir'
    BY <1>1, <1>3 DEF InAir
  <1> QED BY <1>5, <1>6, <1>7 DEF KInv

LEMMA RestartStaKnows ==
    ASSUME IInv, TInv, KInv, RestartSta
    PROVE  KInv'
  <1> USE Names
  <1> DEFINE v == vif[irq.i]
             i == irq.i
  <1>1. /\ irq.pc = "slot" /\ i \in Slots /\ v \in Vifs /\ type[v] = "STA"
        /\ UNCHANGED <<up, bcn, type, tgt, tgtUp, told, backup, remote, home>>
    BY DEF RestartSta, mac, target, marks
  <1>2. index[v] = i
    BY <1>1, Holds
  <1>3. CASE irq.relay
    <2>1. /\ Free(v) /\ irq' = [irq EXCEPT !.i = @ + 1]
          /\ UNCHANGED <<drv, again, buf, byWdt, ies>>
      BY <1>3 DEF RestartSta
    <2>2. Leaves(v, i)
      BY <1>1, <1>2, <2>1, FreeTable
    <2>3. irq'.pc # "idle" /\ irq'.by = irq.by
      BY <1>1, <2>1 DEF TInv, TableTypes, Irqs
    <2> QED BY <1>1, <2>1, <2>2, <2>3, BusyKnows
  <1>4. CASE ~irq.relay
    <2>1. Finish(FALSE) /\ BackupInit(i, "STA", FALSE) /\ UNCHANGED <<vif, index>>
      BY <1>4 DEF RestartSta, table
    <2>2. \A w \in up : index[w] = i /\ i # -1 /\ w = v /\ w \in All
      BY <1>1, <1>4, Single DEF IInv, MacTypes
    <2>3. \A w \in up : home[w] = i /\ up = {w}
      BY <2>2 DEF KInv, Homes
    <2> HIDE DEF v, i
    <2>4. /\ irq'.pc = "idle"
          /\ again' = IF irq.by = "user"
                        THEN [w \in All |-> IF w \in up THEN "add" ELSE "no"] ELSE again
          /\ drv' = IF irq.by = "wdt" \/ up # {} THEN "RUNNING" ELSE drv
      BY <2>1 DEF Finish, Idle
    <2>5. drv' # "REBOOT"
      BY <1>1, <2>4, Busy DEF TInv, Restarting
    <2>6. /\ byWdt' = [byWdt EXCEPT ![i] = FALSE] /\ UNCHANGED <<ies, buf>>
          /\ byWdt[i] => i \in reinstall'
      BY <2>1 DEF BackupInit
    <2>7. irq.by = "user" => \A w \in Vifs : told[w] = {}
      BY <1>1 DEF KInv, Backed
    <2>8. \A w \in All : again'[w] = "add" => irq.by = "user"
      BY <1>1, <2>4, Busy
    <2>9. ElemTypes'
      BY <1>1, <2>6 DEF KInv, ElemTypes
    <2>10. TypesKnown'
      <3>1. \A w \in up : irq.by = "user" => again'[w] = "add"
        BY <2>2, <2>4
      <3>2. \A w \in up : irq.by # "user" => tgt[index[w]] = type[w]
        <4>1. irq.by # "user" => drv = "REBOOT"
          BY <1>1 DEF KInv, TypesKnown, TInv, TableTypes, Irqs
        <4> QED BY <1>1, <2>2, <2>3, <4>1 DEF KInv, TypesKnown
      <3>3. \A w \in Vifs : type'[w] \in {"STA", "AP"}
        BY <1>1 DEF KInv, TypesKnown
      <3> QED BY <1>1, <2>1, <2>4, <2>5, <3>1, <3>2, <3>3 DEF TypesKnown
    <2>11. Homes'
      BY <1>1, <2>1 DEF KInv, Homes
    <2>12. Backed'
      <3>1. \A w \in Vifs : again'[w] = "add" => told'[w] = {}
        BY <1>1, <2>7, <2>8
      <3> QED BY <1>1, <2>4, <2>6, <3>1 DEF KInv, Backed
    <2>13. InAir'
      <3> SUFFICES ASSUME NEW w \in Vifs, w \in up
                   PROVE  /\ told'[w] \cap InBeacon = {}
                          /\ index'[w] \notin reinstall' => told'[w] = {}
        BY <1>1 DEF InAir
      <3>1. told[w] \cap InBeacon = {}
        BY <1>1, <2>2 DEF KInv, Backed, IInv, Beaconing
      <3>2. told[w] # {} => byWdt[i]
        BY <1>1, <2>3 DEF KInv, Backed
      <3> QED BY <1>1, <2>1, <2>2, <2>6, <3>1, <3>2
    <2> QED BY <2>9, <2>10, <2>11, <2>12, <2>13 DEF KInv
  <1> QED BY <1>3, <1>4

LEMMA WdtExpiredKnows ==
    ASSUME IInv, TInv, KInv, WdtExpired
    PROVE  KInv'
  <1> USE Names
  <1>1. /\ irq.pc = "idle" /\ Settled /\ tgtUp /\ drv' = "REBOOT" /\ tgtUp' = FALSE
        /\ tgt' = IF Cardinality(up) = 1 /\ \E v \in up : type[v] = "STA" THEN tgt
                                                       ELSE [i \in Slots |-> "NONE"]
        /\ ies' = [i \in Slots |-> {}]
        /\ UNCHANGED <<vif, index, up, bcn, type, irq, again, told, buf, backup, byWdt, remote,
                       home>>
    BY DEF WdtExpired, table, mac, marks
  <1>2. \A v \in up : v \in All /\ again[v] = "no"
    BY <1>1 DEF Settled, IInv, MacTypes
  <1>3. ElemTypes'
    BY <1>1 DEF KInv, ElemTypes
  <1>4. TypesKnown'
    <2>1. ASSUME NEW v \in up, up = {v}, type[v] = "STA" PROVE tgt'[index[v]] = "STA"
      <3>1. Cardinality(up) = 1
        BY <2>1, FS_Singleton
      <3>2. tgt' = tgt
        BY <1>1, <2>1, <3>1
      <3>3. tgt[index[v]] = "STA"
        BY <1>1, <1>2, <2>1 DEF KInv, TypesKnown
      <3> QED BY <3>2, <3>3
    <2> QED BY <1>1, <2>1 DEF KInv, TypesKnown
  <1>5. Homes' /\ Backed'
    BY <1>1 DEF KInv, Homes, Backed
  <1>6. InAir'
    BY <1>1 DEF InAir
  <1> QED BY <1>3, <1>4, <1>5, <1>6 DEF KInv

LEMMA FwReadyKnows ==
    ASSUME IInv, TInv, KInv, FwReady
    PROVE  KInv'
  <1> USE Names
  <1>1. /\ ~tgtUp /\ byWdt' = [i \in Slots |-> TRUE] /\ irq'.pc = "slot" /\ irq'.by = "wdt"
        /\ UNCHANGED <<drv, vif, index, up, bcn, type, again, tgt, told, buf, backup, remote, ies,
                       home>>
    BY DEF FwReady, Begin, table, mac, marks
  <1>2. drv = "REBOOT" /\ irq.pc = "idle"
    BY <1>1 DEF TInv, Restarting
  <1>3. ElemTypes'
    BY <1>1 DEF KInv, ElemTypes
  <1>4. TypesKnown' /\ Homes'
    BY <1>1, <1>2 DEF KInv, TypesKnown, Homes
  <1>5. Backed'
    <2>1. \A v \in Vifs : byWdt'[home[v]] = TRUE
      BY <1>1 DEF KInv, ElemTypes
    <2> QED BY <1>1, <2>1 DEF KInv, Backed
  <1>6. InAir'
    BY <1>1 DEF InAir
  <1> QED BY <1>3, <1>4, <1>5, <1>6 DEF KInv

LEMMA UserRestartKnows ==
    ASSUME IInv, TInv, KInv, UserRestart
    PROVE  KInv'
  <1> USE Names
  <1>1. /\ Quiet /\ drv' = "START" /\ irq'.pc = "slot" /\ irq'.by = "user"
        /\ tgt' = [i \in Slots |-> "NONE"] /\ ies' = [i \in Slots |-> {}]
        /\ told' = [v \in Vifs |-> {}]
        /\ UNCHANGED <<vif, index, up, bcn, type, again, buf, backup, byWdt, remote, home>>
    BY DEF UserRestart, Begin, table, mac, marks
  <1>2. \A v \in Vifs : told'[v] = {}
    BY <1>1
  <1>3. ElemTypes'
    BY <1>1 DEF KInv, ElemTypes
  <1>4. TypesKnown' /\ Homes'
    BY <1>1 DEF KInv, TypesKnown, Homes
  <1>5. Backed'
    BY <1>1, <1>2 DEF KInv, Backed
  <1>6. InAir'
    BY <1>1 DEF InAir
  <1> QED BY <1>3, <1>4, <1>5, <1>6 DEF KInv

LEMMA CloseMonitorKnows ==
    ASSUME IInv, TInv, KInv, CloseMonitor
    PROVE  KInv'
  <1> USE Names
  <1>1. /\ Quiet /\ Monitor \in up /\ up' = {} /\ drv' = "STOP"
        /\ UNCHANGED <<index, irq, bcn, type, again, tgt, tgtUp, told, buf, backup, byWdt, remote,
                       ies, home>>
    BY DEF CloseMonitor, target, vendor, marks
  <1>2. \A v \in Vifs : v \notin up /\ told[v] = {}
    BY <1>1 DEF IInv, Alone, KInv, Backed
  <1>3. ElemTypes' /\ TypesKnown'
    BY <1>1, QuietTable DEF KInv, ElemTypes, TypesKnown
  <1>4. Homes' /\ Backed' /\ InAir'
    BY <1>1, <1>2, QuietTable DEF KInv, Homes, Backed, InAir
  <1> QED BY <1>3, <1>4 DEF KInv

\* mac80211 closes all, and what they were told is gone.
LEMMA ReaddFailsKnows ==
    ASSUME IInv, TInv, KInv, ReaddFails
    PROVE  KInv'
  <1> DEFINE slots == {index[v] : v \in {w \in up : again[w] # "add"}}
  <1>1. /\ up' = {} /\ drv' = "STOP" /\ irq.pc = "idle" /\ told' = [v \in Vifs |-> {}]
        /\ again' = [v \in All |-> "no"]
        /\ tgt' = [i \in Slots |-> IF i \in slots THEN "NONE" ELSE tgt[i]]
        /\ backup' = [i \in Slots |-> IF i \in slots THEN {} ELSE backup[i]]
        /\ ies' = [i \in Slots |-> IF i \in slots THEN {} ELSE ies[i]]
        /\ UNCHANGED <<type, irq, buf, byWdt, remote, home>>
    BY DEF ReaddFails
  <1> HIDE DEF slots
  <1>2. ElemTypes'
    BY <1>1 DEF KInv, ElemTypes
  <1>3. TypesKnown' /\ Homes' /\ InAir'
    BY <1>1 DEF KInv, TypesKnown, Homes, InAir
  <1>4. Backed'
    BY <1>1, Names DEF Backed
  <1> QED BY <1>2, <1>3, <1>4 DEF KInv

\* A type set for an interface in place concerns no other one.
LEMMA WimTypes ==
    ASSUME IInv, TInv, KInv, irq.pc = "idle", tgtUp, NEW i \in Slots, NEW t \in Types \cup {"NONE"},
           NEW d, d # "REBOOT", Wim(d, i, t)
    PROVE  /\ tgt' \in [Slots -> Types \cup {"NONE"}] /\ tgt'[i] = t
           /\ \A j \in Slots : j # i => tgt'[j] = tgt[j]
  <1>1. tgt' = [tgt EXCEPT ![i] = t]
    BY DEF Wim, Reaches
  <1> QED BY <1>1 DEF KInv, ElemTypes

LEMMA ChangeKnows ==
    ASSUME IInv, TInv, KInv, NEW v \in Vifs, NEW t \in {"STA", "AP"}, Change(v, t)
    PROVE  KInv'
  <1> USE Names
  <1>1. /\ Quiet /\ v \in up /\ type' = [type EXCEPT ![v] = t] /\ bcn' = bcn \ {v}
        /\ Wim(drv, index[v], t) /\ told' = [told EXCEPT ![v] = {}]
        /\ UNCHANGED <<drv, vif, index, up, irq, again, tgtUp, buf, backup, byWdt, reinstall,
                       remote, ies, home>>
    BY DEF Change, table, vendor, marks
  <1>2. /\ irq.pc = "idle" /\ tgtUp /\ drv # "REBOOT" /\ \A w \in All : again[w] = "no"
        /\ index[v] \in Slots
    BY <1>1, QuietTable
  <1>3. /\ tgt' \in [Slots -> Types \cup {"NONE"}] /\ tgt'[index[v]] = t
        /\ \A j \in Slots : j # index[v] => tgt'[j] = tgt[j]
    <2>1. t \in Types \cup {"NONE"}
      BY DEF Types
    <2> QED BY <1>1, <1>2, <2>1, WimTypes
  <1>4. /\ type'[v] = t /\ \A w \in All : w # v => type'[w] = type[w]
        /\ told'[v] = {} /\ \A w \in Vifs : w # v => told'[w] = told[w]
        /\ told' \in [Vifs -> SUBSET Elems]
    BY <1>1 DEF IInv, MacTypes, KInv, ElemTypes
  <1>5. ElemTypes'
    BY <1>1, <1>3, <1>4 DEF KInv, ElemTypes
  <1>6. TypesKnown'
    <2>1. \A w \in up : tgt'[index[w]] = type'[w]
      <3> SUFFICES ASSUME NEW w \in up PROVE tgt'[index[w]] = type'[w]
        OBVIOUS
      <3>1. w \in All /\ index[w] \in Slots /\ (w # v => index[w] # index[v])
        BY <1>1, <1>2, InPlace DEF KInv, IInv, MacTypes
      <3>2. tgt[index[w]] = type[w]
        BY <1>2, <3>1 DEF KInv, TypesKnown
      <3> QED BY <1>3, <1>4, <3>1, <3>2
    <2> QED BY <1>1, <1>2, <1>4, <2>1 DEF KInv, TypesKnown
  <1>7. Homes' /\ Backed'
    BY <1>1, <1>2, <1>4 DEF KInv, Homes, Backed
  <1>8. InAir'
    BY <1>1, <1>4 DEF KInv, InAir
  <1> QED BY <1>5, <1>6, <1>7, <1>8 DEF KInv

LEMMA CloseKnows ==
    ASSUME IInv, TInv, KInv, NEW v \in Vifs, Close(v)
    PROVE  KInv'
  <1> USE Names
  <1> DEFINE i == index[v]
  <1>1. /\ Quiet /\ v \in up /\ up' = up \ {v} /\ bcn' = bcn \ {v} /\ Free(v)
        /\ home' = [home EXCEPT ![v] = 0]
        /\ Forget(i, type[v]) /\ told' = [told EXCEPT ![v] = {}] /\ Wim(drv, i, "NONE")
        /\ drv' \in {drv, "STOP"} /\ UNCHANGED <<type, irq, again, tgtUp>>
    BY DEF Close, Stop
  <1>2. /\ irq.pc = "idle" /\ tgtUp /\ drv # "REBOOT" /\ \A w \in All : again[w] = "no"
        /\ i \in Slots /\ i # -1 /\ vif[i] = v
    BY <1>1, QuietTable
  <1>3. /\ tgt' \in [Slots -> Types \cup {"NONE"}] /\ \A j \in Slots : j # i => tgt'[j] = tgt[j]
    BY <1>1, <1>2, WimTypes
  <1>4. /\ told'[v] = {} /\ \A w \in Vifs : w # v => told'[w] = told[w]
        /\ told' \in [Vifs -> SUBSET Elems]
    BY <1>1 DEF KInv, ElemTypes
  <1>5. Leaves(v, i)
    BY <1>1, <1>2, FreeTable
  <1> HIDE DEF i
  <1>6. /\ UNCHANGED <<buf, byWdt, remote>> /\ ies' = [ies EXCEPT ![i] = {}]
        /\ backup' = [backup EXCEPT ![i] = {}]
        /\ \A j \in Slots : j # i => (j \in reinstall' <=> j \in reinstall)
    BY <1>1 DEF Forget
  <1>7. /\ ies' \in [Slots -> SUBSET Elems] /\ backup' \in [Slots -> SUBSET Elems]
        /\ \A j \in Slots : j # i => ies'[j] = ies[j] /\ backup'[j] = backup[j]
    BY <1>2, <1>6 DEF KInv, ElemTypes
  <1>8. \A w \in up' : /\ w \in All /\ w # v /\ w \in up /\ index'[w] = index[w]
                       /\ index[w] \in Slots /\ index[w] # i /\ index[w] = home[w]
    <2> SUFFICES ASSUME NEW w \in up'
                 PROVE  /\ w \in All /\ w # v /\ w \in up /\ index'[w] = index[w]
                        /\ index[w] \in Slots /\ index[w] # i /\ index[w] = home[w]
      OBVIOUS
    <2>1. w \in up /\ w # v /\ w \in All
      BY <1>1 DEF IInv, MacTypes
    <2>2. index[w] \in Slots /\ index[w] = home[w] /\ vif[index[w]] = w
      BY <1>2, <2>1, InPlace DEF KInv
    <2> QED BY <1>5, <2>1, <2>2 DEF Leaves
  <1>9. home' \in [All -> Slots] /\ \A w \in All : w # v => home'[w] = home[w]
    BY <1>1 DEF KInv, ElemTypes
  <1>10. ElemTypes'
    BY <1>3, <1>4, <1>6, <1>7, <1>9 DEF KInv, ElemTypes
  <1>11. TypesKnown' /\ Homes'
    <2>1. TypesKnown'
      BY <1>1, <1>2, <1>3, <1>8 DEF KInv, TypesKnown
    <2>2. Homes'
      BY <1>8, <1>9 DEF Homes
    <2> QED BY <2>1, <2>2
  <1>12. Backed'
    <2>1. ASSUME NEW w \in Vifs PROVE told'[w] \ {Remote} \subseteq backup'[home'[w]]
      <3>1. CASE w \in up'
        BY <1>4, <1>7, <1>8, <1>9, <3>1 DEF KInv, Backed
      <3>2. CASE w \notin up'
        BY <1>1, <1>4, <3>2 DEF KInv, Backed
      <3> QED BY <3>1, <3>2
    <2>2. \A w \in Vifs : told'[w] \subseteq buf'
      BY <1>4, <1>6 DEF KInv, Backed
    <2>3. \A w \in Vifs : w \notin up' => told'[w] = {}
      BY <1>1, <1>4 DEF KInv, Backed
    <2>4. \A w \in Vifs : w \notin bcn' => told'[w] \cap InBeacon = {}
      BY <1>1, <1>4 DEF KInv, Backed
    <2>5. irq'.pc = "idle" /\ \A w \in Vifs : again'[w] # "add"
      BY <1>1, <1>2
    <2> QED BY <2>1, <2>2, <2>3, <2>4, <2>5 DEF Backed
  <1>13. InAir'
    BY <1>1, <1>2, <1>4, <1>6, <1>7, <1>8 DEF KInv, InAir
  <1> QED BY <1>10, <1>11, <1>12, <1>13 DEF KInv

\* A beacon, or its configuration after a restart, takes its elements to the
\* target.
LEMMA BeaconsTell ==
    ASSUME IInv, TInv, KInv, irq.pc = "idle", tgtUp, NEW v \in up, again[v] # "add", Beacons(v)
    PROVE  /\ ies' \in [Slots -> SUBSET Elems]
           /\ \A f : f \in ies'[index[v]] <=> IF f \in InBeacon
                        THEN f \in buf /\ f \in Elems ELSE f \in ies[index[v]]
           /\ \A w \in up : again[w] # "add" /\ w # v => ies'[index[w]] = ies[index[w]]
  <1> USE Names, VendorAssumption
  <1> DEFINE i == index[v]
  <1>1. /\ i \in Slots
        /\ \A w \in up : again[w] # "add" /\ w # v => index[w] \in Slots /\ index[w] # i
    BY InPlace DEF KInv
  <1>2. Reaches(drv, i)
    BY <1>1, Heard
  <1>3. ies' = [ies EXCEPT ![i] = (@ \ InBeacon) \cup (buf \cap InBeacon)]
    BY <1>2 DEF Beacons
  <1> HIDE DEF i
  <1>4. /\ ies'[i] = (ies[i] \ InBeacon) \cup (buf \cap InBeacon)
        /\ \A j \in Slots : j # i => ies'[j] = ies[j] /\ ies' \in [Slots -> SUBSET Elems]
    BY <1>1, <1>3 DEF KInv, ElemTypes
  <1>5. ies' \in [Slots -> SUBSET Elems]
    BY <1>1, <1>3 DEF KInv, ElemTypes
  <1> QED BY <1>1, <1>4, <1>5 DEF i

LEMMA BeaconKnows ==
    ASSUME IInv, TInv, KInv, NEW v \in Vifs, Beacon(v)
    PROVE  KInv'
  <1> USE Names, VendorAssumption
  <1>1. /\ Quiet /\ v \in up /\ bcn' = bcn \cup {v} /\ Beacons(v)
        /\ UNCHANGED <<drv, vif, index, up, type, irq, again, tgt, tgtUp, buf, backup, byWdt,
                       reinstall, remote, told, home>>
    BY DEF Beacon, table, target, marks
  <1>2. /\ irq.pc = "idle" /\ tgtUp /\ \A w \in All : again[w] = "no"
    BY <1>1, QuietTable
  <1>3. /\ ies' \in [Slots -> SUBSET Elems]
        /\ \A f : f \in ies'[index[v]] <=> IF f \in InBeacon
                        THEN f \in buf /\ f \in Elems ELSE f \in ies[index[v]]
        /\ \A w \in up : again[w] # "add" /\ w # v => ies'[index[w]] = ies[index[w]]
    BY <1>1, <1>2, BeaconsTell
  <1>4. ElemTypes' /\ TypesKnown'
    BY <1>1, <1>3 DEF KInv, ElemTypes, TypesKnown
  <1>5. Homes' /\ Backed'
    BY <1>1 DEF KInv, Homes, Backed
  <1>6. InAir'
    <2>1. \A w \in Vifs : w \in up /\ w # v => ies'[index[w]] = ies[index[w]]
      BY <1>2, <1>3
    <2>2. told[v] \subseteq buf /\ told[v] \subseteq Elems
      BY DEF KInv, Backed, ElemTypes
    <2> QED BY <1>1, <1>2, <1>3, <2>1, <2>2 DEF KInv, InAir
  <1> QED BY <1>4, <1>5, <1>6 DEF KInv

LEMMA ReconfigureKnows ==
    ASSUME IInv, TInv, KInv, NEW v \in All, Reconfigure(v)
    PROVE  KInv'
  <1> USE Names, VendorAssumption
  <1>1. /\ irq.pc = "idle" /\ again[v] = "bss" /\ again' = [again EXCEPT ![v] = "no"]
        /\ IF v \in bcn THEN Beacons(v) ELSE UNCHANGED ies
        /\ UNCHANGED <<drv, vif, index, up, bcn, type, irq, tgt, tgtUp, buf, backup, byWdt,
                       reinstall, remote, told, home>>
    BY DEF Reconfigure, table, target, mac, marks
  <1>2. v \in up /\ tgtUp /\ v \in Vifs
    BY <1>1 DEF TInv, Again, Restarting, Settled, All
  <1>3. again'[v] = "no" /\ \A w \in All : w # v => again'[w] = again[w]
    BY <1>1 DEF TInv, TableTypes
  <1>4. /\ ies' \in [Slots -> SUBSET Elems]
        /\ \A f : f \notin InBeacon => (f \in ies'[index[v]] <=> f \in ies[index[v]])
        /\ \A f \in Elems : v \in bcn /\ f \in buf /\ f \in InBeacon => f \in ies'[index[v]]
        /\ \A w \in up : again[w] # "add" /\ w # v => ies'[index[w]] = ies[index[w]]
    <2>1. CASE v \in bcn
      <3>1. Beacons(v)
        BY <1>1, <2>1
      <3> QED BY <1>1, <1>2, <3>1, BeaconsTell
    <2>2. CASE v \notin bcn
      BY <1>1, <2>2 DEF KInv, ElemTypes
    <2> QED BY <2>1, <2>2
  <1>5. ElemTypes' /\ TypesKnown'
    <2>1. ElemTypes'
      BY <1>1, <1>4 DEF KInv, ElemTypes
    <2>2. \A w \in up : w \in All /\ (again'[w] # "add" => again[w] # "add")
      BY <1>1, <1>3 DEF IInv, MacTypes
    <2>3. TypesKnown'
      BY <1>1, <2>2 DEF KInv, TypesKnown
    <2> QED BY <2>1, <2>3
  <1>6. Homes' /\ Backed'
    BY <1>1, <1>3, Names DEF KInv, Homes, Backed
  <1>7. InAir'
    <2> SUFFICES ASSUME NEW w \in Vifs, w \in up
                 PROVE  /\ again'[w] = "no" => told[w] \cap InBeacon \subseteq ies'[index[w]]
                        /\ again'[w] # "add" /\ index[w] \notin reinstall =>
                             told[w] \ InBeacon \subseteq ies'[index[w]]
      BY <1>1 DEF InAir
    <2>1. CASE w # v
      BY <1>1, <1>2, <1>3, <1>4, <2>1 DEF KInv, InAir
    <2>2. CASE w = v
      <3>1. told[v] \subseteq buf /\ told[v] \subseteq Elems /\ (v \notin bcn => told[v] \cap InBeacon = {})
        BY <1>2 DEF KInv, Backed, ElemTypes
      <3>2. told[v] \cap InBeacon \subseteq ies'[index[v]]
        BY <1>4, <3>1
      <3>3. index[v] \notin reinstall => told[v] \ InBeacon \subseteq ies'[index[v]]
        BY <1>1, <1>2, <1>4 DEF KInv, InAir
      <3> QED BY <2>2, <3>2, <3>3
    <2> QED BY <2>1, <2>2
  <1> QED BY <1>5, <1>6, <1>7 DEF KInv

\* An update takes the elements of one buffer to the target, and leaves those of
\* the other one there.
Concerns(e, f, v) == (f \in InBeacon <=> e \in InBeacon) /\ (v \in bcn \/ e \notin InBeacon)
Tells(n, b, i, e, v) ==
    /\ n \in [Slots -> SUBSET Elems] /\ \A j \in Slots : j # i => n[j] = ies[j]
    /\ \A f \in Elems : Concerns(e, f, v) => (f \in n[i] <=> f \in b)
    /\ \A f \in Elems : ~Concerns(e, f, v) => (f \in n[i] <=> f \in ies[i])

LEMMA UpdateTells ==
    ASSUME KInv, NEW b \in SUBSET Elems, NEW i \in Slots, NEW e \in Elems, NEW v
    PROVE  Tells(Updated(b, i, e, v \in bcn), b, i, e, v)
  <1> DEFINE u == Updated(b, i, e, v \in bcn)
  <1>1. CASE e \in InBeacon /\ v \notin bcn
    BY <1>1 DEF Updated, KInv, ElemTypes, Tells, Concerns
  <1>2. CASE ~(e \in InBeacon /\ v \notin bcn)
    <2> DEFINE n == {f \in ies[i] : ~SameBuffer(e, f)} \cup {f \in b : SameBuffer(e, f)}
    <2>1. u = [ies EXCEPT ![i] = n]
      BY <1>2 DEF Updated
    <2>2. n \in SUBSET Elems
      BY DEF KInv, ElemTypes
    <2>3. \A f : f \in n <=> \/ f \in ies[i] /\ ~SameBuffer(e, f)
                             \/ f \in b /\ SameBuffer(e, f)
      OBVIOUS
    <2> HIDE DEF n
    <2>4. /\ u[i] = n /\ u \in [Slots -> SUBSET Elems]
          /\ \A j \in Slots : j # i => u[j] = ies[j]
      BY <2>1, <2>2 DEF KInv, ElemTypes
    <2> QED BY <1>2, <2>3, <2>4 DEF SameBuffer, Tells, Concerns
  <1> QED BY <1>1, <1>2

\* Where the vendor commands act: the interface is in place.
LEMMA CommandPlace ==
    ASSUME IInv, TInv, Homes, NEW v \in Vifs, v \in up, Quiet \/ ~tgtUp
    PROVE  /\ irq.pc = "idle" /\ \A w \in All : again[w] = "no"
           /\ index[v] \in Slots /\ index[v] = home[v]
           /\ \A w \in up : w # v => index[w] # index[v]
  <1> USE Names
  <1>1. irq.pc = "idle" /\ \A w \in All : again[w] = "no"
    BY DEF Quiet, Settled, TInv, Restarting
  <1>2. \A w \in up : w \in All /\ again[w] # "add"
    BY <1>1 DEF IInv, MacTypes
  <1> QED BY <1>1, <1>2, InPlace

\* The element that is set is told at once, or, if it is one of beacons, with the
\* next configuration of the interface.
LEMMA SetElemKnows ==
    ASSUME IInv, TInv, KInv, NEW v \in Vifs, NEW e \in Elems, SetElem(v, e)
    PROVE  KInv'
  <1> USE Names, VendorAssumption
  <1> DEFINE i == index[v]
  <1>1. /\ Quiet \/ ~tgtUp
        /\ v \in up /\ buf' = buf \cup {e}
        /\ backup' = IF e = Remote THEN backup ELSE [backup EXCEPT ![i] = @ \cup {e}]
        /\ remote' = IF e = Remote THEN v ELSE remote
        /\ ies' = Sent(Updated(buf', i, e, v \in bcn), i)
        /\ told' = IF e \in InBeacon /\ v \notin bcn THEN told ELSE [told EXCEPT ![v] = @ \cup {e}]
        /\ UNCHANGED <<drv, vif, index, up, bcn, type, irq, again, tgt, tgtUp, byWdt, reinstall,
                       home>>
    BY DEF SetElem, Append, VendorUpdate, BackupAdd, table, mac, target, marks
  <1>2. /\ irq.pc = "idle" /\ \A w \in All : again[w] = "no"
        /\ i \in Slots /\ i = home[v] /\ \A w \in up : w # v => index[w] # i
    BY <1>1, CommandPlace DEF KInv
  <1> HIDE DEF i
  <1>3. /\ backup' \in [Slots -> SUBSET Elems]
        /\ \A j \in Slots : backup[j] \subseteq backup'[j]
        /\ e # Remote => e \in backup'[i]
    BY <1>1, <1>2 DEF KInv, ElemTypes
  <1>4. /\ told' \in [Vifs -> SUBSET Elems]
        /\ told'[v] \subseteq told[v] \cup {e} /\ (e \in InBeacon /\ v \notin bcn => told'[v] = told[v])
        /\ \A w \in Vifs : w # v => told'[w] = told[w]
    BY <1>1 DEF KInv, ElemTypes
  <1>5. ies' = ies \/ (tgtUp /\ ies' = Updated(buf', i, e, v \in bcn))
    BY <1>1 DEF Sent, Reaches
  <1>6. buf' \in SUBSET Elems
    BY <1>1 DEF KInv, ElemTypes
  <1>7. ies' \in [Slots -> SUBSET Elems] /\ \A j \in Slots : j # i => ies'[j] = ies[j]
    <2>1. Tells(Updated(buf', i, e, v \in bcn), buf', i, e, v)
      BY <1>2, <1>6, UpdateTells
    <2> QED BY <1>5, <2>1 DEF KInv, ElemTypes, Tells
  <1>8. ElemTypes'
    BY <1>1, <1>3, <1>4, <1>6, <1>7 DEF KInv, ElemTypes
  <1>9. TypesKnown'
    BY <1>1 DEF KInv, TypesKnown
  <1>10. Homes'
    BY <1>1 DEF KInv, Homes
  <1>11. Backed'
    <2>1. \A w \in Vifs : told'[w] \subseteq buf'
      BY <1>1, <1>4 DEF KInv, Backed
    <2>2. \A w \in Vifs : w \notin bcn => told'[w] \cap InBeacon = {}
      BY <1>4 DEF KInv, Backed
    <2>3. ASSUME NEW w \in Vifs PROVE told'[w] \ {Remote} \subseteq backup'[home[w]]
      <3>1. home[w] \in Slots /\ told[w] \ {Remote} \subseteq backup[home[w]]
        BY Names DEF KInv, Backed, ElemTypes
      <3> QED BY <1>2, <1>3, <1>4, <3>1
    <2>4. \A w \in Vifs : w \notin up => told'[w] = {}
      BY <1>1, <1>4 DEF KInv, Backed
    <2>5. irq'.pc = "idle" /\ \A w \in Vifs : again'[w] # "add"
      BY <1>1, <1>2
    <2> QED BY <1>1, <2>1, <2>2, <2>3, <2>4, <2>5 DEF Backed
  <1>12. InAir'
    <2> SUFFICES ASSUME tgtUp, NEW w \in Vifs, w \in up
                 PROVE  /\ told'[w] \cap InBeacon \subseteq ies'[index[w]]
                        /\ index[w] \notin reinstall => told'[w] \ InBeacon \subseteq ies'[index[w]]
      BY <1>1 DEF InAir
    <2>1. /\ told[w] \cap InBeacon \subseteq ies[index[w]] /\ told[w] \subseteq buf
          /\ index[w] \notin reinstall => told[w] \ InBeacon \subseteq ies[index[w]]
          /\ told'[w] \in SUBSET Elems
      BY <1>2, <1>4 DEF KInv, InAir, Backed, ElemTypes
    <2>2. CASE w # v
      <3>1. index[w] \in Slots
        BY <1>2, InPlace DEF KInv
      <3> QED BY <1>2, <1>4, <1>7, <2>1, <2>2, <3>1
    <2>3. CASE w = v
      <3>1. ies' = Updated(buf', i, e, v \in bcn)
        BY <1>1, <1>2, Heard DEF Sent
      <3>2. Tells(ies', buf', i, e, v)
        BY <1>2, <1>6, <3>1, UpdateTells
      <3>3. told'[v] \cap InBeacon \subseteq ies'[i]
        BY <1>1, <1>4, <2>1, <2>3, <3>2, ZenonT(30) DEF i, Tells, Concerns
      <3>4. index[v] \notin reinstall => told'[v] \ InBeacon \subseteq ies'[i]
        BY <1>1, <1>4, <2>1, <2>3, <3>2, ZenonT(30) DEF i, Tells, Concerns
      <3> QED BY <2>3, <3>3, <3>4 DEF i
    <2> QED BY <2>2, <2>3
  <1> QED BY <1>8, <1>9, <1>10, <1>11, <1>12 DEF KInv

\* An element is taken back, by a command or by the timer.
LEMMA RemovedKnows ==
    ASSUME IInv, TInv, KInv, NEW v \in Vifs, NEW e \in Elems, Removed(e, index[v]), Untold(e),
           ies' = Sent(Updated(buf', index[v], e, v \in bcn), index[v]),
           UNCHANGED <<drv, vif, index, up, bcn, type, irq, again, tgt, tgtUp, home>>,
           remote' \in Vifs \cup {NoVif}
    PROVE  KInv'
  <1> USE Names, VendorAssumption
  <1> DEFINE i == index[v]
  <1>1. /\ buf' = buf \ {e} /\ UNCHANGED <<byWdt, reinstall>>
        /\ backup' = IF e = Remote THEN backup ELSE [backup EXCEPT ![i] = @ \ {e}]
        /\ told' = [w \in Vifs |-> told[w] \ {e}]
    BY DEF Removed, VendorRemove, BackupDel, Untold
  <1> HIDE DEF i
  <1>2. /\ told' \in [Vifs -> SUBSET Elems] /\ \A w \in Vifs : told'[w] = told[w] \ {e}
        /\ buf' \in SUBSET Elems
    BY <1>1 DEF KInv, ElemTypes
  <1>3. /\ backup' \in [Slots -> SUBSET Elems]
        /\ \A j \in Slots : backup[j] \ {e} \subseteq backup'[j]
    BY <1>1 DEF KInv, ElemTypes
  <1>4. \/ ies' = ies
        \/ i \in Slots /\ Tells(ies', buf', i, e, v)
    <2>1. i \in Slots => Tells(Updated(buf', i, e, v \in bcn), buf', i, e, v)
      BY <1>2, UpdateTells
    <2> QED BY <2>1 DEF Sent, Reaches, i
  <1>5. ElemTypes'
    BY <1>1, <1>2, <1>3, <1>4 DEF KInv, ElemTypes, Tells
  <1>6. TypesKnown'
    BY DEF KInv, TypesKnown
  <1>7. Homes' /\ \A w \in Vifs : home'[w] = home[w] /\ home[w] \in Slots
    BY Names DEF KInv, Homes, ElemTypes
  <1>8. Backed'
    <2>1. \A w \in Vifs : told'[w] \subseteq buf' /\ (told'[w] # {} => told[w] # {})
      BY <1>1, <1>2 DEF KInv, Backed
    <2>2. \A w \in Vifs : told'[w] \ {Remote} \subseteq backup'[home[w]]
      BY <1>2, <1>3, <1>7 DEF KInv, Backed
    <2>3. \A w \in Vifs : w \notin bcn => told'[w] \cap InBeacon = {}
      BY <1>2 DEF KInv, Backed
    <2> QED BY <1>1, <1>2, <1>7, <2>1, <2>2, <2>3 DEF KInv, Backed
  <1>9. InAir'
    <2> SUFFICES ASSUME irq.pc = "idle", tgtUp, NEW w \in Vifs, w \in up, again[w] # "add"
                 PROVE  /\ again[w] = "no" => told'[w] \cap InBeacon \subseteq ies'[index[w]]
                        /\ index[w] \notin reinstall => told'[w] \ InBeacon \subseteq ies'[index[w]]
      BY <1>1 DEF InAir
    <2>1. /\ again[w] = "no" => told[w] \cap InBeacon \subseteq ies[index[w]]
          /\ index[w] \notin reinstall => told[w] \ InBeacon \subseteq ies[index[w]]
          /\ told'[w] \subseteq told[w] /\ told'[w] \subseteq buf' /\ told'[w] \subseteq Elems
      BY <1>1, <1>2 DEF KInv, InAir, Backed
    <2>2. index[w] \in Slots
      BY InPlace DEF KInv
    <2>3. ies' = ies \/ \A f \in Elems : f \in ies[index[w]] /\ f \in buf' => f \in ies'[index[w]]
      <3>1. CASE i \in Slots /\ Tells(ies', buf', i, e, v)
        BY <2>2, <3>1 DEF Tells
      <3> QED BY <1>4, <3>1
    <2> QED BY <2>1, <2>3
  <1> QED BY <1>5, <1>6, <1>7, <1>8, <1>9 DEF KInv

LEMMA RemoveElemKnows ==
    ASSUME IInv, TInv, KInv, NEW v \in Vifs, NEW e \in Elems, RemoveElem(v, e)
    PROVE  KInv'
  <1>1. /\ Removed(e, index[v]) /\ Untold(e)
        /\ ies' = Sent(Updated(buf', index[v], e, v \in bcn), index[v])
        /\ UNCHANGED <<drv, vif, index, up, bcn, type, irq, again, tgt, tgtUp, remote, home>>
    BY DEF RemoveElem, table, mac, target, marks
  <1>2. remote' \in Vifs \cup {NoVif}
    BY <1>1 DEF KInv, ElemTypes
  <1> QED BY <1>1, <1>2, RemovedKnows

LEMMA RemoteOffKnows ==
    ASSUME IInv, TInv, KInv, RemoteOff
    PROVE  KInv'
  <1> USE Names, VendorAssumption
  <1>1. /\ remote # NoVif /\ remote' = NoVif
        /\ UNCHANGED <<drv, vif, index, up, bcn, type, irq, again, tgt, tgtUp, home>>
    BY DEF RemoteOff, table, mac, target, marks
  <1>2. remote \in Vifs /\ Remote \in Elems
    BY <1>1 DEF KInv, ElemTypes
  <1>3. CASE Remote \in buf
    <2>1. /\ Removed(Remote, index[remote]) /\ Untold(Remote)
          /\ ies' = Sent(Updated(buf', index[remote], Remote, remote \in bcn), index[remote])
      BY <1>3 DEF RemoteOff
    <2> QED BY <1>1, <1>2, <2>1, RemovedKnows
  <1>4. CASE Remote \notin buf
    <2>1. UNCHANGED <<buf, backup, byWdt, reinstall, ies, told>>
      BY <1>4 DEF RemoteOff
    <2>2. ElemTypes' /\ TypesKnown'
      BY <1>1, <2>1 DEF KInv, ElemTypes, TypesKnown
    <2>3. Homes' /\ Backed' /\ InAir'
      BY <1>1, <2>1 DEF KInv, Homes, Backed, InAir
    <2> QED BY <2>2, <2>3 DEF KInv
  <1> QED BY <1>3, <1>4

\* A reinstallation takes what is backed up under an index to the target, and
\* what its buffers hold besides.
Restores(n, i, v) ==
    /\ n \in [Slots -> SUBSET Elems] /\ \A j \in Slots : j # i => n[j] = ies[j]
    /\ \A f \in Elems : f \in buf \cup backup[i] /\ f \in ies[i] => f \in n[i]
    /\ \A f \in backup[i] : (f \in InBeacon /\ v \notin bcn) \/ f \in n[i]

LEMMA ReinstallRestores ==
    ASSUME KInv, NEW i \in Slots, NEW v
    PROVE  Restores(Reinstalled(i, v \in bcn), i, v)
  <1> DEFINE sent == {e \in backup[i] : e \in InBeacon => v \in bcn}
             n == {f \in ies[i] : \A e \in sent : ~SameBuffer(e, f)} \cup
                  {f \in buf \cup backup[i] : \E e \in sent : SameBuffer(e, f)}
             u == Reinstalled(i, v \in bcn)
  <1>1. u = [ies EXCEPT ![i] = n]
    BY DEF Reinstalled
  <1>2. n \in SUBSET Elems
    BY DEF KInv, ElemTypes
  <1>3. \A f : f \in buf \cup backup[i] /\ f \in ies[i] => f \in n
    OBVIOUS
  <1>4. \A f \in backup[i] : (f \in InBeacon /\ v \notin bcn) \/ f \in n
    BY DEF SameBuffer
  <1> HIDE DEF n
  <1>5. /\ u[i] = n /\ u \in [Slots -> SUBSET Elems]
        /\ \A j \in Slots : j # i => u[j] = ies[j]
    BY <1>1, <1>2 DEF KInv, ElemTypes
  <1> QED BY <1>3, <1>4, <1>5 DEF Restores

LEMMA ReinstallKnows ==
    ASSUME IInv, TInv, KInv, NEW i \in Slots, Reinstall(i)
    PROVE  KInv'
  <1> USE Names, VendorAssumption
  <1>1. /\ reinstall' = reinstall \ {i}
        /\ UNCHANGED <<drv, vif, index, up, bcn, type, irq, again, tgt, tgtUp, backup, byWdt, remote,
                       told, home>>
    BY DEF Reinstall, table, mac, target, marks
  <1>2. \/ vif[i] \in Vifs /\ buf' = buf \cup backup[i] /\ ies' = Sent(Reinstalled(i, vif[i] \in bcn), i)
        \/ vif[i] \notin Vifs /\ UNCHANGED <<buf, ies>>
    BY DEF Reinstall
  <1>3. Restores(Reinstalled(i, vif[i] \in bcn), i, vif[i])
    BY ReinstallRestores
  <1>4. /\ buf \subseteq buf' /\ buf' \subseteq Elems /\ ies' \in [Slots -> SUBSET Elems]
        /\ \A j \in Slots : j # i => ies'[j] = ies[j]
    BY <1>2, <1>3 DEF KInv, ElemTypes, Restores, Sent
  <1>5. ElemTypes' /\ TypesKnown'
    BY <1>1, <1>4 DEF KInv, ElemTypes, TypesKnown
  <1>6. Homes' /\ Backed'
    BY <1>1, <1>4 DEF KInv, Homes, Backed
  <1>7. InAir'
    <2> SUFFICES ASSUME irq.pc = "idle", tgtUp, NEW w \in Vifs, w \in up, again[w] # "add"
                 PROVE  /\ again[w] = "no" => told[w] \cap InBeacon \subseteq ies'[index[w]]
                        /\ index[w] \notin reinstall' => told[w] \ InBeacon \subseteq ies'[index[w]]
      BY <1>1 DEF InAir
    <2>1. index[w] \in Slots /\ index[w] = home[w] /\ vif[index[w]] = w
      BY InPlace DEF KInv
    <2>2. /\ again[w] = "no" => told[w] \cap InBeacon \subseteq ies[index[w]]
          /\ index[w] \notin reinstall => told[w] \ InBeacon \subseteq ies[index[w]]
          /\ told[w] \subseteq buf /\ told[w] \subseteq Elems
          /\ told[w] \ {Remote} \subseteq backup[index[w]]
      BY <2>1 DEF KInv, InAir, Backed, ElemTypes
    <2>3. CASE index[w] # i
      BY <1>1, <1>4, <2>1, <2>2, <2>3
    <2>4. CASE index[w] = i
      <3>1. ies' = Reinstalled(i, vif[i] \in bcn)
        BY <1>2, <2>1, <2>4, Heard DEF Sent
      <3>2. Restores(ies', i, w)
        BY <1>3, <2>1, <2>4, <3>1
      <3>3. again[w] = "no" => told[w] \cap InBeacon \subseteq ies'[i]
        BY <2>2, <2>4, <3>2 DEF Restores
      <3>4. told[w] \ InBeacon \subseteq ies'[i]
        BY <2>2, <2>4, <3>2 DEF Restores
      <3> QED BY <2>4, <3>3, <3>4
    <2> QED BY <2>3, <2>4
  <1> QED BY <1>5, <1>6, <1>7 DEF KInv

\* What adding an interface under index i changes of the target and the backup.
Adds(v, i) ==
    /\ tgt' \in [Slots -> Types \cup {"NONE"}] /\ tgt'[i] = type[v]
    /\ \A j \in Slots : j # i => tgt'[j] = tgt[j]
    /\ byWdt' \in [Slots -> BOOLEAN] /\ \A j \in Slots : j # i => byWdt'[j] = byWdt[j]
    /\ buf \subseteq buf' /\ buf' \subseteq Elems
    /\ ies' \in [Slots -> SUBSET Elems] /\ \A j \in Slots : j # i => ies'[j] = ies[j]
    /\ \A j \in Slots : j # i => (j \in reinstall' <=> j \in reinstall)
    /\ byWdt[i] /\ v \in Vifs => i \in reinstall' \/ \A f \in backup[i] : f \in InBeacon \/ f \in ies'[i]

LEMMA AddedTells ==
    ASSUME IInv, TInv, KInv, irq.pc = "idle", tgtUp, NEW v \in All, NEW i \in Slots,
           Wim("RUNNING", i, type[v]), BackupInit(i, type[v], v \in bcn)
    PROVE  Adds(v, i)
  <1> USE Names
  <1>1. type[v] \in Types \cup {"NONE"}
    BY DEF IInv, MacTypes
  <1>2. /\ tgt' \in [Slots -> Types \cup {"NONE"}] /\ tgt'[i] = type[v]
        /\ \A j \in Slots : j # i => tgt'[j] = tgt[j]
    BY <1>1, WimTypes
  <1>3. byWdt' \in [Slots -> BOOLEAN] /\ \A j \in Slots : j # i => byWdt'[j] = byWdt[j]
    <2>1. byWdt' = byWdt \/ byWdt' = [byWdt EXCEPT ![i] = FALSE]
      BY DEF BackupInit
    <2> QED BY <2>1 DEF KInv, ElemTypes
  <1>4. Restores(Reinstalled(i, v \in bcn), i, v)
    BY ReinstallRestores
  <1>5. /\ buf \subseteq buf' /\ buf' \subseteq Elems
        /\ ies' \in [Slots -> SUBSET Elems] /\ \A j \in Slots : j # i => ies'[j] = ies[j]
    <2>1. \/ UNCHANGED <<ies, buf>>
          \/ ies' = Reinstalled(i, v \in bcn) /\ buf' = buf \cup backup[i]
      BY DEF BackupInit
    <2> QED BY <1>4, <2>1 DEF KInv, ElemTypes, Restores
  <1>6. \A j \in Slots : j # i => (j \in reinstall' <=> j \in reinstall)
    BY DEF BackupInit
  <1>7. ASSUME byWdt[i], v \in Vifs
        PROVE  i \in reinstall' \/ \A f \in backup[i] : f \in InBeacon \/ f \in ies'[i]
    <2>1. CASE type[v] = "STA"
      BY <1>7, <2>1 DEF BackupInit
    <2>2. CASE type[v] = "AP"
      <3>1. ies' = Reinstalled(i, v \in bcn)
        BY <1>7, <2>2 DEF BackupInit
      <3> QED BY <1>4, <3>1 DEF Restores
    <2> QED BY <1>7, <2>1, <2>2 DEF KInv, TypesKnown
  <1> QED BY <1>2, <1>3, <1>5, <1>6, <1>7 DEF Adds

\* An interface that is opened has been told nothing; one that is added again
\* waited to be; under another index than before it is told nothing.
LEMMA AddKnows ==
    ASSUME IInv, TInv, KInv, IInv', TInv', ~misled', irq.pc = "idle", tgtUp,
           UNCHANGED <<irq, tgtUp>>,
           NEW v \in All, Add(v), up' = up \cup {v}, again'[v] # "add", drv' # "REBOOT",
           \A w \in All : w # v => again'[w] = again[w],
           v \in Vifs => told[v] = {} \/ (again[v] = "add" /\ again'[v] = "bss" /\ v \in up),
           UNCHANGED <<bcn, type, backup, remote>>
    PROVE  KInv'
  <1> USE Names, VendorAssumption
  <1>1. PICK i \in Candidates(v) : Alloc(v, i)
    BY DEF Add
  <1>2. Takes(v, i)
    BY <1>1, AllocTakes
  <1>3. i \in Slots /\ index'[v] = i /\ vif'[i] = v /\ vif[i] \in {NoVif, v}
    BY <1>2 DEF Takes
  <1>4. Wim("RUNNING", i, type[v]) /\ BackupInit(i, type[v], v \in bcn)
    BY <1>3 DEF Add
  <1>5. Adds(v, i)
    BY <1>3, <1>4, AddedTells
  <1>6. /\ home' = [home EXCEPT ![v] = i]
        /\ told' = IF home[v] = i THEN told ELSE [told EXCEPT ![v] = {}]
    BY <1>3 DEF Add
  <1>7. /\ home' \in [All -> Slots] /\ home'[v] = i
        /\ \A w \in All : w # v => home'[w] = home[w]
    BY <1>3, <1>6 DEF KInv, ElemTypes
  <1>8. /\ told' \in [Vifs -> SUBSET Elems] /\ \A w \in Vifs : w # v => told'[w] = told[w]
        /\ v \in Vifs => told'[v] = {} \/ (told'[v] = told[v] /\ home[v] = i)
    BY <1>6 DEF KInv, ElemTypes
  <1>9. \A w \in All : w # v => index'[w] = index[w]
    BY <1>2 DEF Takes
  <1>10. \A w \in up' : w \in All /\ (again'[w] # "add" => index'[w] \in Slots /\ vif'[index'[w]] = w)
    BY DEF TInv, Placed, IInv, MacTypes
  <1>11. ASSUME NEW w \in up', w # v, again'[w] # "add"
         PROVE  /\ w \in up /\ again[w] # "add" /\ again'[w] = again[w]
                /\ index'[w] = index[w] /\ index[w] \in Slots /\ index[w] # i
    BY <1>3, <1>9, <1>10, <1>11
  <1>12. ElemTypes'
    BY <1>5, <1>7, <1>8 DEF KInv, ElemTypes, Adds
  <1>13. TypesKnown'
    <2>1. ASSUME NEW w \in up', again'[w] # "add" PROVE tgt'[index'[w]] = type[w]
      <3>1. CASE w = v
        BY <1>3, <1>5, <3>1 DEF Adds
      <3>2. CASE w # v
        <4>1. /\ w \in up /\ again[w] # "add" /\ index'[w] = index[w]
              /\ index[w] \in Slots /\ index[w] # i
          BY <1>11, <2>1, <3>2
        <4>2. tgt[index[w]] = type[w]
          BY <4>1 DEF KInv, TypesKnown
        <4> QED BY <1>5, <4>1, <4>2 DEF Adds
      <3> QED BY <3>1, <3>2
    <2> QED BY <2>1 DEF KInv, TypesKnown
  <1>14. Homes'
    <2> SUFFICES ASSUME NEW w \in up', index'[w] # -1 PROVE home'[w] = index'[w]
      BY DEF Homes
    <2>1. CASE w = v
      BY <1>3, <1>7, <2>1
    <2>2. CASE w # v
      BY <1>7, <1>9, <1>10, <2>2 DEF KInv, Homes
    <2> QED BY <2>1, <2>2
  <1>15. Backed'
    <2>1. \A w \in Vifs : told'[w] \subseteq buf'
      BY <1>5, <1>8 DEF KInv, Backed, Adds
    <2>2. ASSUME NEW w \in Vifs, again'[w] = "add", told'[w] # {}
          PROVE  byWdt'[home'[w]] \/ vif'[home'[w]] \in All \ {w}
      <3>1. w # v /\ again[w] = "add" /\ told[w] # {} /\ home'[w] = home[w] /\ home[w] \in Slots
        BY <1>7, <1>8, <2>2 DEF KInv, ElemTypes
      <3>2. byWdt[home[w]] \/ vif[home[w]] \in All \ {w}
        BY <3>1 DEF KInv, Backed
      <3>3. CASE home[w] = i
        BY <1>3, <3>1, <3>3
      <3>4. CASE home[w] # i
        BY <1>2, <1>5, <3>1, <3>2, <3>4 DEF Takes, Adds
      <3> QED BY <3>3, <3>4
    <2>3. \A w \in Vifs : told'[w] \ {Remote} \subseteq backup[home'[w]]
      BY <1>7, <1>8 DEF KInv, Backed
    <2>4. \A w \in Vifs : w \notin up' => told'[w] = {}
      BY <1>8 DEF KInv, Backed
    <2>5. \A w \in Vifs : w \notin bcn => told'[w] \cap InBeacon = {}
      BY <1>8 DEF KInv, Backed
    <2> QED BY <2>1, <2>2, <2>3, <2>4, <2>5 DEF Backed
  <1>16. InAir'
    <2> SUFFICES ASSUME NEW w \in Vifs, w \in up', again'[w] # "add"
                 PROVE  /\ again'[w] = "no" => told'[w] \cap InBeacon \subseteq ies'[index'[w]]
                        /\ index'[w] \notin reinstall' => told'[w] \ InBeacon \subseteq ies'[index'[w]]
      BY DEF InAir
    <2>1. CASE w # v
      <3>1. /\ w \in up /\ again[w] # "add" /\ again'[w] = again[w] /\ index'[w] = index[w]
            /\ index[w] \in Slots /\ index[w] # i /\ told'[w] = told[w]
        BY <1>8, <1>11, <2>1
      <3>2. /\ again[w] = "no" => told[w] \cap InBeacon \subseteq ies[index[w]]
            /\ index[w] \notin reinstall => told[w] \ InBeacon \subseteq ies[index[w]]
        BY <3>1 DEF KInv, InAir
      <3>3. ies'[index[w]] = ies[index[w]] /\ (index[w] \in reinstall' <=> index[w] \in reinstall)
        BY <1>5, <3>1 DEF Adds
      <3> QED BY <3>1, <3>2, <3>3
    <2>2. CASE w = v /\ told'[v] # {}
      <3>1. /\ told'[v] = told[v] /\ home[v] = i /\ v \in Vifs
            /\ again[v] = "add" /\ again'[v] = "bss" /\ v \in up
        BY <1>8, <2>2
      <3>2. byWdt[i]
        BY <1>3, <2>2, <3>1 DEF KInv, Backed
      <3>3. told[v] \ {Remote} \subseteq backup[i]
        BY <3>1 DEF KInv, Backed
      <3>4. i \notin reinstall' => told[v] \ InBeacon \subseteq ies'[i]
        BY <1>5, <3>1, <3>2, <3>3 DEF Adds
      <3> QED BY <1>3, <2>2, <3>1, <3>4
    <2>3. CASE w = v /\ told'[v] = {}
      BY <2>3
    <2> QED BY <2>1, <2>2, <2>3
  <1> QED BY <1>12, <1>13, <1>14, <1>15, <1>16 DEF KInv

LEMMA OpenKnows ==
    ASSUME IInv, TInv, KInv, ~misled', NEW v \in Vifs, Open(v)
    PROVE  KInv'
  <1> USE Names
  <1>1. /\ Quiet /\ v \notin up /\ drv' = "RUNNING" /\ Add(v) /\ up' = up \cup {v}
        /\ UNCHANGED <<irq, again, tgtUp, bcn, type, backup, remote>>
    BY DEF Open, MayOpen
  <1>2. irq.pc = "idle" /\ tgtUp /\ \A w \in All : again[w] = "no"
    BY <1>1, QuietTable
  <1>3. IInv' /\ TInv'
    BY OpenKeeps, OpenTable
  <1>4. told[v] = {}
    BY <1>1 DEF KInv, Backed
  <1>5. drv' # "REBOOT" /\ again'[v] # "add" /\ \A w \in All : w # v => again'[w] = again[w]
    BY <1>1, <1>2
  <1> QED BY <1>1, <1>2, <1>3, <1>4, <1>5, AddKnows

\* An interface that is not opened leaves the others as they were.
LEMMA OpenFailsKnows ==
    ASSUME IInv, TInv, KInv, ~misled', NEW v \in Vifs, OpenFails(v)
    PROVE  KInv'
  <1> USE Names
  <1>1. /\ Quiet /\ v \notin up /\ drv' \in {drv, "STOP"}
        /\ UNCHANGED <<up, type, bcn, irq, again, tgt, tgtUp, told, buf, backup, byWdt,
                       reinstall, remote, ies, home>>
    BY DEF OpenFails, MayOpen, mac, target, vendor
  <1>2. irq.pc = "idle" /\ drv # "REBOOT" /\ \A w \in All : again[w] = "no"
    BY <1>1, QuietTable
  <1>3. \A w \in All : w # v => index'[w] = index[w]
    <2>1. CASE \E i \in Candidates(v) : Alloc(v, i)
      BY <2>1, AllocTakes DEF Takes
    <2>2. CASE index' = [index EXCEPT ![v] = 0]
      BY <2>2 DEF TInv, TableTypes
    <2> QED BY <2>1, <2>2 DEF OpenFails
  <1>4. \A w \in up : index'[w] = index[w]
    BY <1>1, <1>3 DEF IInv, MacTypes
  <1>5. ElemTypes' /\ TypesKnown' /\ Homes'
    BY <1>1, <1>2, <1>4 DEF KInv, ElemTypes, TypesKnown, Homes
  <1>6. Backed'
    BY <1>1, <1>2 DEF KInv, Backed
  <1>7. InAir'
    BY <1>1, <1>4 DEF KInv, InAir
  <1> QED BY <1>5, <1>6, <1>7 DEF KInv

LEMMA OpenMonitorKnows ==
    ASSUME IInv, TInv, KInv, ~misled', OpenMonitor
    PROVE  KInv'
  <1> USE Names
  <1>1. /\ Quiet /\ up' = up \cup {Monitor} /\ drv' = "RUNNING" /\ Add(Monitor)
        /\ UNCHANGED <<irq, again, tgtUp, bcn, type, backup, remote>>
    BY DEF OpenMonitor
  <1>2. irq.pc = "idle" /\ tgtUp /\ \A w \in All : again[w] = "no"
    BY <1>1, QuietTable
  <1>3. IInv' /\ TInv'
    BY MonitorKeeps, OpenMonitorTable
  <1>4. /\ drv' # "REBOOT" /\ again'[Monitor] # "add"
        /\ \A w \in All : w # Monitor => again'[w] = again[w]
    BY <1>1, <1>2
  <1> QED BY <1>1, <1>2, <1>3, <1>4, AddKnows

LEMMA ReaddKnows ==
    ASSUME IInv, TInv, KInv, ~misled', NEW v \in All, Readd(v)
    PROVE  KInv'
  <1> USE Names
  <1>1. /\ irq.pc = "idle" /\ again[v] = "add" /\ Add(v)
        /\ again' = [again EXCEPT ![v] = IF v = Monitor THEN "no" ELSE "bss"]
        /\ UNCHANGED <<drv, up, irq, tgtUp, bcn, type, backup, remote>>
    BY DEF Readd, mac
  <1>2. /\ \A w \in All : w # v => again'[w] = again[w]
        /\ again'[v] = IF v = Monitor THEN "no" ELSE "bss"
    BY <1>1 DEF TInv, TableTypes
  <1>3. tgtUp /\ v \in up /\ drv # "REBOOT"
    BY <1>1 DEF TInv, Again, Restarting, Settled
  <1>4. IInv' /\ TInv'
    <2>1. UNCHANGED <<up, type, bcn, twt, dropped>>
      BY DEF Readd, mac
    <2> QED BY <2>1, OthersKeep, ReaddTable
  <1>5. up' = up \cup {v} /\ again'[v] # "add" /\ drv' # "REBOOT"
        /\ (v \in Vifs => again'[v] = "bss")
    BY <1>1, <1>2, <1>3
  <1> QED BY <1>1, <1>2, <1>3, <1>4, <1>5, AddKnows

LEMMA StepKnows ==
    ASSUME IInv, TInv, KInv, ~misled', [Next]_vars
    PROVE  KInv'
  <1>1. CASE \E v \in Vifs : Open(v) \/ OpenFails(v) \/ Close(v)
    BY <1>1, OpenKnows, OpenFailsKnows, CloseKnows
  <1>2. CASE \E v \in Vifs : Beacon(v) \/ \E t \in {"STA", "AP"} : Change(v, t)
    BY <1>2, BeaconKnows, ChangeKnows
  <1>3. CASE \E v \in Vifs : \E e \in Elems : SetElem(v, e) \/ RemoveElem(v, e)
    BY <1>3, SetElemKnows, RemoveElemKnows
  <1>4. CASE \E v \in Vifs : StaJoins(v) \/ StaLeaves(v)
    BY <1>4, KnowsKept DEF StaJoins, StaLeaves, table, mac, target, vendor, marks
  <1>5. CASE RemoteOff \/ \E i \in Slots : Reinstall(i)
    BY <1>5, RemoteOffKnows, ReinstallKnows
  <1>6. CASE OpenMonitor \/ CloseMonitor
    BY <1>6, OpenMonitorKnows, CloseMonitorKnows
  <1>7. CASE WdtExpired \/ FwReady \/ UserRestart
    BY <1>7, WdtExpiredKnows, FwReadyKnows, UserRestartKnows
  <1>8. CASE NextSlot \/ RestartSta \/ RestartAp \/ WaitForStas \/ ReleaseAp \/ RestartDone
    BY <1>8, WaitKnows, RestartStaKnows, ReleaseApKnows, RestartDoneKnows
  <1>9. ~RestartFreed
    BY DEF RestartFreed
  <1>10. CASE ReaddFails \/ \E v \in All : Readd(v) \/ Reconfigure(v)
    BY <1>10, ReaddFailsKnows, ReaddKnows, ReconfigureKnows
  <1>11. CASE UNCHANGED vars
    BY <1>11, KnowsKept DEF vars, table, mac, target, vendor, marks
  <1> QED BY <1>1, <1>2, <1>3, <1>4, <1>5, <1>6, <1>7, <1>8, <1>9, <1>10, <1>11 DEF Next

\* Outside a restart the target has every open interface under its index with its
\* type, and, once the reinstallation has run, the elements given through it
\* since it came under that index (WIM_CMD_SET, nrc_vendor_update_*,
\* nrc_mac_restart), until one is misled, for any set of interfaces and elements
\* and any number of commands, monitors and restarts, whatever fails of them.
THEOREM SpecTargetKnows == Spec => []TargetKnows
  <1> DEFINE Inv == IInv /\ (~misled => TInv /\ KInv)
  <1>1. Init => Inv
    BY Initially, TInitially, KInitially
  <1>2. Inv /\ [Next]_vars => Inv'
    BY StepKeeps, StepTable, StepKnows, Misled
  <1>3. Inv => TargetKnows
    <2> SUFFICES ASSUME IInv, TInv, KInv, Quiet, NEW v \in up
                 PROVE  /\ tgt[index[v]] = type[v]
                        /\ v # Monitor /\ index[v] \notin reinstall => told[v] \subseteq ies[index[v]]
      BY DEF TargetKnows
    <2>1. irq.pc = "idle" /\ tgtUp /\ again[v] = "no" /\ v \in Vifs \cup {Monitor}
      BY QuietTable DEF Quiet, IInv, MacTypes, All
    <2>2. tgt[index[v]] = type[v]
      BY <2>1 DEF KInv, TypesKnown
    <2>3. ASSUME v # Monitor, index[v] \notin reinstall PROVE told[v] \subseteq ies[index[v]]
      BY <2>1, <2>3 DEF KInv, InAir
    <2> QED BY <2>2, <2>3
  <1> QED BY <1>1, <1>2, <1>3, PTL DEF Spec
=============================================================================
