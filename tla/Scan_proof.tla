------------------------------ MODULE Scan_proof ------------------------------
(* The driver and mac80211 agree whether a scan is on (Scan!ModeAgrees), for  *)
(* any number of scans, associations and resets, whatever the threads that    *)
(* cancel a scan do between each other's steps.                               *)
EXTENDS Scan, TLAPS

Places == {"idle", "stop", "complete", "again", "mode", "after", "off"}

ModeTypes == /\ scan_mode \in {"IDLE", "SCANNING"}
             /\ asked \in BOOLEAN /\ over \in BOOLEAN
             /\ set \in BOOLEAN /\ cut \in BOOLEAN /\ missed \in BOOLEAN
             /\ own \in [Threads -> BOOLEAN]
             /\ pc \in [Threads -> Places] /\ then \in [Threads -> Places]
             /\ then["mac"] \in {"idle", "again"}

\* mac80211's call that starts a scan, the cancellation of the last one included.
Asking == \/ pc["mac"] \in {"again", "mode"}
          \/ pc["mac"] \in {"stop", "complete"} /\ then["mac"] = "again"

\* A scan that is being started has not set scan_mode; if it is completed
\* already, that was meant for another.
Young == Asking => asked /\ ~set /\ (over => cut)

\* A thread that cancels the present scan does it after the scan has set
\* scan_mode, which stays back between the thread's reset and its completion.
Owned == \A t \in Threads : own[t] => set /\ (pc[t] = "complete" => scan_mode = "IDLE")

\* mac80211 waits: the driver takes the scan to be on, or is starting it, or is
\* about to complete it.
Served == Waiting /\ ~Asking /\ scan_mode = "IDLE" => \E t \in Threads : pc[t] = "complete"

\* The driver takes a scan to be on: mac80211 waits, or the scan was cut short.
Known == scan_mode = "SCANNING" => Waiting \/ cut \/ Asking

IInv == ModeTypes /\ Young /\ Owned /\ Served /\ Known

-----------------------------------------------------------------------------
LEMMA Initially == Init => IInv
  BY DEF Init, Threads, Places, IInv, ModeTypes, Asking, Young, Owned, Served, Known, Waiting

\* What the invariant says of the threads' places.
LEMMA Placed ==
    ASSUME IInv
    PROVE  /\ pc \in [Threads -> Places] /\ then \in [Threads -> Places]
           /\ own \in [Threads -> BOOLEAN]
           /\ "mac" \in Threads /\ "rx" \in Threads /\ "irq" \in Threads
  BY DEF IInv, ModeTypes, Threads

\* A thread moves from one place to another that has no part in the cancelling.
LEMMA MoveKeeps ==
    ASSUME IInv, NEW t \in Threads, NEW p \in Places,
           pc[t] # "complete", p # "complete", pc' = [pc EXCEPT ![t] = p],
           Asking' <=> Asking, missed' \in BOOLEAN, UNCHANGED <<then, scan_mode, scan, set, own, cut>>
    PROVE  IInv'
  <1>1. \A u \in Threads : pc'[u] = "complete" <=> pc[u] = "complete"
    BY Placed
  <1>2. UNCHANGED <<then, scan_mode, asked, over, set, own, cut>>
    BY DEF scan
  <1>3. ModeTypes'
    BY <1>2, Placed DEF IInv, ModeTypes
  <1>4. Young' /\ Owned'
    BY <1>1, <1>2 DEF IInv, Young, Owned
  <1>5. Served' /\ Known'
    BY <1>1, <1>2 DEF IInv, Served, Known, Waiting
  <1> QED BY <1>3, <1>4, <1>5 DEF IInv

\* A thread wants a scan cancelled that it takes to be over.
LEMMA EndedKeeps ==
    ASSUME IInv, NEW t \in Threads, NEW next \in Places, Ended(t, next),
           pc[t] \in {"idle", "off"}, next \notin {"stop", "complete"},
           t = "mac" => next = "idle", UNCHANGED <<scan_mode, scan>>
    PROVE  IInv'
  <1> DEFINE p == IF scan_mode = "IDLE" THEN next ELSE "stop"
             n == IF scan_mode = "IDLE" THEN then[t] ELSE next
             o == set /\ scan_mode # "IDLE"
  <1>1. /\ pc' = [pc EXCEPT ![t] = p] /\ own' = [own EXCEPT ![t] = o]
        /\ UNCHANGED <<scan_mode, asked, over, set, cut>>
    BY DEF Ended, Cancel, Goto, scan
  <1>2. then' = [then EXCEPT ![t] = n]
    BY Placed DEF Ended, Cancel
  <1>3. p \in Places /\ p # "complete" /\ n \in Places
    BY Placed DEF Places
  <1>4. o \in BOOLEAN /\ missed' \in BOOLEAN
    BY DEF IInv, ModeTypes, Ended
  <1>5. /\ \A u \in Threads : pc'[u] = IF u = t THEN p ELSE pc[u]
        /\ \A u \in Threads : then'[u] = IF u = t THEN n ELSE then[u]
        /\ \A u \in Threads : own'[u] = IF u = t THEN o ELSE own[u]
    BY <1>1, <1>2, Placed
  <1>6. ModeTypes'
    <2>1. then'["mac"] \in {"idle", "again"}
      BY <1>5, Placed DEF IInv, ModeTypes
    <2> QED BY <1>1, <1>2, <1>3, <1>4, <2>1, Placed DEF IInv, ModeTypes
  <1>7. Asking' <=> Asking
    <2>1. CASE t # "mac"
      BY <2>1, <1>5, Placed DEF Asking
    <2>2. CASE t = "mac"
      <3>1. ~Asking
        BY <2>2 DEF Asking
      <3>2. pc'["mac"] = "idle" \/ (pc'["mac"] = "stop" /\ then'["mac"] = "idle")
        BY <2>2, <1>5
      <3> QED BY <3>1, <3>2 DEF Asking
    <2> QED BY <2>1, <2>2
  <1>8. \A u \in Threads : pc'[u] = "complete" <=> pc[u] = "complete"
    BY <1>3, <1>5
  <1>9. Owned'
    <2> SUFFICES ASSUME NEW u \in Threads, own'[u]
                 PROVE  set /\ (pc'[u] = "complete" => scan_mode = "IDLE")
      BY <1>1 DEF Owned
    <2>1. CASE u = t
      BY <2>1, <1>3, <1>5
    <2>2. CASE u # t
      BY <2>2, <1>5 DEF IInv, Owned
    <2> QED BY <2>1, <2>2
  <1>10. Young' /\ Served' /\ Known'
    <2>1. Waiting' <=> Waiting
      BY <1>1 DEF Waiting
    <2>2. Young' /\ Known'
      BY <1>1, <1>7, <2>1 DEF IInv, Young, Known
    <2>3. Served'
      BY <1>1, <1>7, <1>8, <2>1 DEF IInv, Served
    <2> QED BY <2>2, <2>3
  <1> QED BY <1>6, <1>9, <1>10 DEF IInv

LEMMA StopKeeps ==
    ASSUME IInv, NEW t \in Threads, Stop(t)
    PROVE  IInv'
  <1>1. /\ pc[t] = "stop" /\ scan_mode' = "IDLE" /\ pc' = [pc EXCEPT ![t] = "complete"]
        /\ UNCHANGED <<then, asked, over, set, own, cut, missed>>
    BY DEF Stop, At, Goto, scan, history
  <1>2. \A u \in Threads : pc'[u] = IF u = t THEN "complete" ELSE pc[u]
    BY <1>1, Placed
  <1>3. Asking' <=> Asking
    BY <1>1, <1>2, Placed DEF Asking
  <1>4. ModeTypes'
    BY <1>1, Placed DEF IInv, ModeTypes, Places
  <1>5. Young' /\ Owned'
    BY <1>1, <1>3 DEF IInv, Young, Owned
  <1>6. Served' /\ Known'
    BY <1>1, <1>2 DEF Served, Known
  <1> QED BY <1>4, <1>5, <1>6 DEF IInv

LEMMA CompleteKeeps ==
    ASSUME IInv, NEW t \in Threads, Complete(t)
    PROVE  IInv'
  <1>1. /\ pc[t] = "complete" /\ pc' = [pc EXCEPT ![t] = then[t]]
        /\ then' = [then EXCEPT ![t] = "idle"] /\ own' = [own EXCEPT ![t] = FALSE]
        /\ over' = TRUE /\ cut' = (cut \/ (asked /\ ~over /\ ~own[t]))
        /\ UNCHANGED <<scan_mode, asked, set, missed>>
    BY DEF Complete, At, Goto
  <1>2. /\ \A u \in Threads : pc'[u] = IF u = t THEN then[t] ELSE pc[u]
        /\ \A u \in Threads : then'[u] = IF u = t THEN "idle" ELSE then[u]
        /\ \A u \in Threads : own'[u] = IF u = t THEN FALSE ELSE own[u]
    BY <1>1, Placed
  <1>3. ModeTypes'
    <2>1. then[t] \in Places /\ "idle" \in Places
      BY Placed DEF Places
    <2>2. cut' \in BOOLEAN
      BY <1>1
    <2>3. then'["mac"] \in {"idle", "again"}
      BY <1>2, Placed DEF IInv, ModeTypes
    <2> QED BY <1>1, <2>1, <2>2, <2>3, Placed DEF IInv, ModeTypes
  <1>4. Asking => Asking'
    BY <1>1, <1>2, Placed DEF Asking
  <1>5. Asking' => Asking
    <2>1. CASE t # "mac"
      BY <2>1, <1>2, Placed DEF Asking
    <2>2. CASE t = "mac" /\ then[t] = "again"
      BY <2>2, <1>1 DEF Asking
    <2>3. CASE t = "mac" /\ then[t] = "idle"
      BY <2>3, <1>2 DEF Asking
    <2> QED BY <2>1, <2>2, <2>3 DEF IInv, ModeTypes
  <1>6. Owned'
    BY <1>1, <1>2 DEF IInv, Owned
  <1>7. Young'
    <2>1. Asking => cut'
      BY <1>1 DEF IInv, Young, Owned
    <2> QED BY <1>1, <1>5, <2>1 DEF IInv, Young
  <1>8. Served'
    BY <1>1 DEF Served, Waiting
  <1>9. Known'
    BY <1>1, <1>4 DEF IInv, Known, Owned, Waiting
  <1> QED BY <1>3, <1>6, <1>7, <1>8, <1>9 DEF IInv

\* A scan is asked for when the last one is over, as mac80211 sees it.
LEMMA HwScanKeeps ==
    ASSUME IInv, HwScan
    PROVE  IInv'
  <1>1. CASE UNCHANGED <<asked, pc, then, history>>
    <2>1. UNCHANGED <<asked, over, scan_mode, pc, then, set, own, cut, missed>>
      BY <1>1 DEF HwScan, history
    <2> QED BY <2>1 DEF IInv, ModeTypes, Asking, Young, Owned, Served, Known, Waiting
  <1>2. CASE /\ asked' = TRUE /\ Cancel("mac", "again") /\ set' = FALSE
             /\ own' = [t \in Threads |-> FALSE] /\ cut' = over /\ missed' = FALSE
    <2> DEFINE p == IF scan_mode = "IDLE" THEN "again" ELSE "stop"
               n == IF scan_mode = "IDLE" THEN then["mac"] ELSE "again"
    <2>1. pc["mac"] = "idle" /\ UNCHANGED <<scan_mode, over>>
      BY DEF HwScan, At
    <2>2. pc' = [pc EXCEPT !["mac"] = p] /\ then' = [then EXCEPT !["mac"] = n]
      BY <1>2, Placed DEF Cancel, Goto
    <2>3. /\ \A u \in Threads : pc'[u] = IF u = "mac" THEN p ELSE pc[u]
          /\ then'["mac"] = n
      BY <2>2, Placed
    <2>4. p \in Places /\ n \in Places /\ n \in {"idle", "again"}
      BY Placed DEF Places, IInv, ModeTypes
    <2>5. ModeTypes'
      BY <1>2, <2>1, <2>2, <2>3, <2>4, Placed DEF IInv, ModeTypes
    <2>6. Asking'
      BY <2>3, Placed DEF Asking
    <2>7. Owned'
      BY <1>2 DEF Owned
    <2> QED BY <1>2, <2>1, <2>5, <2>6, <2>7 DEF IInv, Young, Served, Known
  <1> QED BY <1>1, <1>2 DEF HwScan

LEMMA SetModeKeeps ==
    ASSUME IInv, SetMode
    PROVE  IInv'
  <1>1. /\ pc["mac"] = "mode" /\ scan_mode' = "SCANNING" /\ set' = TRUE
        /\ pc' = [pc EXCEPT !["mac"] = "idle"]
        /\ UNCHANGED <<then, asked, over, own, cut, missed>>
    BY DEF SetMode, At, Goto, scan
  <1>2. \A u \in Threads : pc'[u] = IF u = "mac" THEN "idle" ELSE pc[u]
    BY <1>1, Placed
  <1>3. asked /\ ~set /\ (over => cut)
    BY <1>1 DEF IInv, Young, Asking
  <1>4. \A u \in Threads : ~own[u]
    BY <1>3 DEF IInv, Owned
  <1>5. ModeTypes'
    BY <1>1, Placed DEF IInv, ModeTypes, Places
  <1>6. ~Asking'
    BY <1>2, Placed DEF Asking
  <1>7. Owned'
    BY <1>1, <1>4 DEF Owned
  <1> QED BY <1>1, <1>3, <1>5, <1>6, <1>7 DEF IInv, Young, Served, Known, Waiting

LEMMA StepKeeps ==
    ASSUME IInv, [Next]_vars
    PROVE  IInv'
  <1>0. missed \in BOOLEAN
    BY DEF IInv, ModeTypes
  <1>1. ASSUME UNCHANGED <<scan_mode, scan, pc, then, history>> PROVE IInv'
    BY <1>1 DEF scan, history, IInv, ModeTypes, Asking, Young, Owned, Served, Known, Waiting
  <1>2. CASE HwScan
    BY <1>2, HwScanKeeps
  <1>3. CASE Request
    <2>1. /\ pc["mac"] = "again" /\ pc' = [pc EXCEPT !["mac"] = "mode"]
          /\ UNCHANGED <<then, scan_mode, scan, set, own, cut, missed>>
      BY <1>3 DEF Request, At, Goto, history
    <2>2. Asking /\ Asking'
      BY <2>1, Placed DEF Asking
    <2> QED BY <1>0, <2>1, <2>2, Placed, MoveKeeps DEF Places
  <1>4. CASE SetMode
    BY <1>4, SetModeKeeps
  <1>5. CASE CancelHwScan
    <2>1. Ended("mac", "idle") /\ pc["mac"] = "idle" /\ UNCHANGED <<scan_mode, scan>>
      BY <1>5 DEF CancelHwScan, At
    <2> QED BY <2>1, Placed, EndedKeeps DEF Places
  <1>6. CASE ScanWork
    <2>1. /\ pc["mac"] = "idle" /\ over /\ ~over' /\ ~asked' /\ over' \in BOOLEAN /\ asked' \in BOOLEAN
          /\ UNCHANGED <<scan_mode, pc, then, set, own, cut, missed>>
      BY <1>6 DEF ScanWork, At, history
    <2>2. ~Asking /\ ~Asking'
      BY <2>1 DEF Asking
    <2> QED BY <2>1, <2>2 DEF IInv, ModeTypes, Young, Owned, Served, Known, Waiting
  <1>7. CASE ScanCompleted
    <2>1. Ended("rx", "after") /\ pc["rx"] = "idle" /\ UNCHANGED <<scan_mode, scan>>
      BY <1>7 DEF ScanCompleted, At
    <2> QED BY <2>1, Placed, EndedKeeps DEF Places
  <1>8. ASSUME NEW t \in Threads, NEW p \in {"idle", "off"}, t # "mac", pc[t] # "complete",
               pc' = [pc EXCEPT ![t] = p], UNCHANGED <<then, scan_mode, scan, history>>
        PROVE  IInv'
    <2>1. Asking' <=> Asking
      BY <1>8, Placed DEF Asking
    <2>2. UNCHANGED <<set, own, cut, missed>>
      BY <1>8 DEF history
    <2> QED BY <1>0, <1>8, <2>1, <2>2, MoveKeeps DEF Places
  <1>9. CASE DelayedLoss
    BY <1>8, <1>9, Placed DEF DelayedLoss, At, Goto
  <1>10. CASE Restart
    <2>1. Ended("irq", "again") /\ pc["irq"] = "idle" /\ UNCHANGED <<scan_mode, scan>>
      BY <1>10 DEF Restart, At
    <2> QED BY <2>1, Placed, EndedKeeps DEF Places
  <1>11. CASE Restarted
    BY <1>8, <1>11, Placed DEF Restarted, At, Goto
  <1>12. CASE WDisable
    BY <1>8, <1>12, Placed DEF WDisable, At, Goto
  <1>13. CASE Disabled
    <2>1. Ended("irq", "idle") /\ pc["irq"] = "off" /\ UNCHANGED <<scan_mode, scan>>
      BY <1>13 DEF Disabled, At
    <2> QED BY <2>1, Placed, EndedKeeps DEF Places
  <1>14. CASE \E t \in Threads : Stop(t)
    BY <1>14, StopKeeps
  <1>15. CASE \E t \in Threads : Complete(t)
    BY <1>15, CompleteKeeps
  <1>16. CASE Associate \/ Disassociate \/ Polled \/ Beacon \/ WdtExpired \/ BcnMonTimer \/ Tgt
    <2>1. UNCHANGED <<scan_mode, scan, pc, then, history>>
      BY <1>16 DEF Associate, Disassociate, Polled, Beacon, WdtExpired, BcnMonTimer, Tgt,
                   TgtTakes, TgtScanned, TgtCrashes, TgtBoots, ApGone
    <2> QED BY <1>1, <2>1
  <1>17. CASE UNCHANGED vars
    BY <1>1, <1>17 DEF vars, scan, history
  <1> QED BY <1>2, <1>3, <1>4, <1>5, <1>6, <1>7, <1>9, <1>10, <1>11, <1>12, <1>13,
             <1>14, <1>15, <1>16, <1>17 DEF Next, Mac, Rx, Irq

\* Types of the scan mode, of the threads and of mac80211's scan.
THEOREM SpecModeTypes == Spec => []ModeTypes
  <1>1. IInv /\ [Next]_vars => IInv'
    BY StepKeeps
  <1>2. IInv => ModeTypes
    BY DEF IInv
  <1> QED BY Initially, <1>1, <1>2, PTL DEF Spec

\* Between the calls, the driver takes a scan to be on if mac80211 waits for one,
\* and only then unless the scan was completed in place of another.
THEOREM SpecModeAgrees == Spec => []ModeAgrees
  <1>1. IInv /\ [Next]_vars => IInv'
    BY StepKeeps
  <1>2. IInv => ModeAgrees
    BY DEF IInv, ModeTypes, Served, Known, Rest, ModeAgrees, Asking, At, Threads
  <1> QED BY Initially, <1>1, <1>2, PTL DEF Spec
=============================================================================
