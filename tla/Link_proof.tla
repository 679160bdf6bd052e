----------------------------- MODULE Link_proof -----------------------------
(***************************************************************************)
(* Proofs about the link to the target.                                    *)
(*                                                                         *)
(* Of SpiLink, for every width of the counters and every length of the     *)
(* queues: neither side miscounts, and packets arrive whole and in order.  *)
(*                                                                         *)
(* Of WimRequest, for every number of callers, commands, requests and      *)
(* time-outs: its types, that a response skb has one owner, and that a     *)
(* caller is woken by the response of its own request.                     *)
(***************************************************************************)
EXTENDS SpiLink, WimRequest, TLAPS

-----------------------------------------------------------------------------
(* SpiLink.                                                                *)

\* The u16 arithmetic of the counters.
LEMMA Round ==
    /\ Mod \in Nat \ {0}
    /\ \A k \in 0 .. Mod - 1 : k % Mod = k
    /\ \A k \in Mod .. 2 * Mod - 1 : k % Mod = k - Mod
    /\ \A k \in -Mod .. -1 : k % Mod = k + Mod
  <1>1. Mod \in Nat \ {0}
    BY LinkAssumption
  <1>2. ASSUME NEW k \in 0 .. Mod - 1 PROVE k % Mod = k
    BY <1>1
  <1>3. ASSUME NEW k \in Mod .. 2 * Mod - 1 PROVE k % Mod = k - Mod
    BY <1>1
  <1>4. ASSUME NEW k \in -Mod .. -1 PROVE k % Mod = k + Mod
    BY <1>1
  <1> QED BY <1>1, <1>2, <1>3, <1>4

Counter == 0 .. Mod - 1

\* Counter y is n slots further than x.
Further(x, y, n) == y = IF x + n < Mod THEN x + n ELSE (x + n) - Mod

LEMMA Moved ==
    ASSUME NEW x \in Counter, NEW n \in Counter
    PROVE  (x + n) % Mod \in Counter /\ Further(x, (x + n) % Mod, n)
  <1>1. Mod \in Nat \ {0}
    BY Round
  <1>2. CASE x + n < Mod
    <2>1. x + n \in 0 .. Mod - 1
      BY <1>1, <1>2 DEF Counter
    <2>2. (x + n) % Mod = x + n
      BY <2>1, Round, Zenon
    <2> QED BY <1>2, <2>1, <2>2, Zenon DEF Counter, Further
  <1>3. CASE ~ (x + n < Mod)
    <2>1. x + n \in Mod .. 2 * Mod - 1 /\ (x + n) - Mod \in 0 .. Mod - 1
      BY <1>1, <1>3 DEF Counter
    <2>2. (x + n) % Mod = (x + n) - Mod
      BY <2>1, Round, Zenon
    <2> QED BY <1>3, <2>1, <2>2, Zenon DEF Counter, Further
  <1> QED BY <1>2, <1>3

LEMMA GapOf ==
    ASSUME NEW x \in Counter, NEW n \in Counter, NEW y, Further(x, y, n)
    PROVE  NumSlots(y, x) = n
  <1>1. Mod \in Nat \ {0}
    BY Round
  <1>2. CASE x + n < Mod
    <2>1. y - x = n
      BY <1>1, <1>2 DEF Counter, Further
    <2>2. n % Mod = n
      BY Round, Zenon DEF Counter
    <2> QED BY <2>1, <2>2, Zenon DEF NumSlots
  <1>3. CASE ~ (x + n < Mod)
    <2>1. y - x = n - Mod /\ n - Mod \in -Mod .. -1 /\ n - Mod + Mod = n
      BY <1>1, <1>3 DEF Counter, Further
    <2>2. (n - Mod) % Mod = n - Mod + Mod
      BY <2>1, Round, Zenon
    <2> QED BY <2>1, <2>2, Zenon DEF NumSlots
  <1> QED BY <1>2, <1>3

\* The four counters of a queue: what the host has used, where it has seen the
\* target, what the shared buffer says, and where the target is, n slots on.
Line(t, h, s, g, n) == \E a, b, c \in Nat :
    a + b + c = n /\ Further(t, h, a) /\ Further(t, s, a + b) /\ Further(t, g, n)

LEMMA LineGaps ==
    ASSUME NEW t \in Counter, NEW h, NEW s, NEW g, NEW n \in Counter, Line(t, h, s, g, n)
    PROVE  /\ NumSlots(g, t) = n
           /\ NumSlots(h, t) \in 0 .. n
           /\ NumSlots(s, t) \in NumSlots(h, t) .. n
           /\ Further(t, h, NumSlots(h, t)) /\ Further(t, s, NumSlots(s, t)) /\ Further(t, g, n)
  <1>1. PICK a, b, c \in Nat : a + b + c = n /\ Further(t, h, a) /\ Further(t, s, a + b) /\ Further(t, g, n)
    BY Zenon DEF Line
  <1>2. a \in Counter /\ a + b \in Counter /\ a \in 0 .. n /\ a + b \in a .. n
    BY <1>1, Round DEF Counter
  <1>3. NumSlots(h, t) = a /\ NumSlots(s, t) = a + b /\ NumSlots(g, t) = n
    BY <1>1, <1>2, GapOf, Zenon
  <1> QED BY <1>1, <1>2, <1>3, Zenon

LEMMA LineOf ==
    ASSUME NEW t, NEW h, NEW s, NEW g, NEW n \in Nat, NEW a \in 0 .. n, NEW e \in a .. n,
           Further(t, h, a), Further(t, s, e), Further(t, g, n)
    PROVE  Line(t, h, s, g, n)
  <1>1. a \in Nat /\ e - a \in Nat /\ n - e \in Nat /\ a + (e - a) + (n - e) = n /\ a + (e - a) = e
    OBVIOUS
  <1> QED BY <1>1, Zenon DEF Line

\* The registers are read into the buffer, and used.
LEMMA LineSeen ==
    ASSUME NEW t \in Counter, NEW h, NEW s, NEW g, NEW n \in Counter, Line(t, h, s, g, n)
    PROVE  Line(t, h, g, g, n) /\ Line(t, s, s, g, n)
  <1>1. n \in Nat /\ n \in 0 .. n /\ n \in NumSlots(h, t) .. n /\ NumSlots(h, t) \in 0 .. n
        /\ NumSlots(s, t) \in 0 .. n /\ NumSlots(s, t) \in NumSlots(s, t) .. n
    <2> DEFINE a == NumSlots(h, t)
               e == NumSlots(s, t)
    <2>1. a \in 0 .. n /\ e \in a .. n
      BY LineGaps, Zenon
    <2> HIDE DEF a, e
    <2>2. n \in Nat /\ n \in 0 .. n /\ n \in a .. n /\ a \in 0 .. n /\ e \in 0 .. n /\ e \in e .. n
      BY <2>1 DEF Counter
    <2> QED BY <2>2, Zenon DEF a, e
  <1>2. Further(t, h, NumSlots(h, t)) /\ Further(t, s, NumSlots(s, t)) /\ Further(t, g, n)
    BY LineGaps, Zenon
  <1>3. Line(t, h, g, g, n)
    BY <1>1, <1>2, LineOf, Zenon
  <1>4. Line(t, s, s, g, n)
    BY <1>1, <1>2, LineOf, Zenon
  <1> QED BY <1>3, <1>4

\* The target moves on by a slot.
LEMMA LineGrows ==
    ASSUME NEW t \in Counter, NEW h, NEW s, NEW g \in Counter, NEW n \in Nat, n + 1 < Mod, Line(t, h, s, g, n)
    PROVE  Line(t, h, s, (g + 1) % Mod, n + 1)
  <1>1. Mod \in Nat /\ n \in Counter /\ 1 \in Counter /\ n + 1 \in Nat
    BY Round DEF Counter
  <1>2. PICK a, e : a \in 0 .. n /\ e \in a .. n /\ Further(t, h, a) /\ Further(t, s, e) /\ Further(t, g, n)
    BY <1>1, LineGaps, Zenon
  <1>3. a \in 0 .. n + 1 /\ e \in a .. n + 1
    BY <1>1, <1>2
  <1>4. PICK f \in Counter : f = (g + 1) % Mod /\ Further(g, f, 1)
    BY <1>1, Moved, Zenon
  <1>5. Further(t, f, n + 1)
    BY <1>1, <1>2, <1>4 DEF Further, Counter
  <1> QED BY <1>1, <1>2, <1>3, <1>4, <1>5, LineOf, Zenon

\* The host uses slots it has seen.
LEMMA LineTaken ==
    ASSUME NEW t \in Counter, NEW h, NEW s, NEW g, NEW n \in Counter, Line(t, h, s, g, n),
           NEW m \in Nat, m <= NumSlots(h, t)
    PROVE  Line((t + m) % Mod, h, s, g, n - m) /\ (t + m) % Mod \in Counter
  <1>1. Mod \in Nat
    BY Round
  <1>2. PICK a, e : a \in 0 .. n /\ e \in a .. n /\ a = NumSlots(h, t) /\ Further(t, h, a) /\ Further(t, s, e) /\ Further(t, g, n)
    BY LineGaps, Zenon
  <1>3. m <= a
    BY <1>2, Zenon
  <1>4. m \in Counter /\ n - m \in Nat /\ a - m \in 0 .. n - m /\ e - m \in a - m .. n - m
    BY <1>1, <1>2, <1>3 DEF Counter
  <1>5. PICK u \in Counter : u = (t + m) % Mod /\ Further(t, u, m)
    BY <1>4, Moved, Zenon
  <1>6. u \in Counter /\ Further(t, u, m)
    BY <1>5, Zenon
  <1>7. Further(u, h, a - m)
    BY <1>1, <1>2, <1>3, <1>4, <1>6 DEF Further, Counter
  <1>8. Further(u, s, e - m)
    BY <1>1, <1>2, <1>3, <1>4, <1>6 DEF Further, Counter
  <1>9. Further(u, g, n - m)
    BY <1>1, <1>2, <1>3, <1>4, <1>6 DEF Further, Counter
  <1>10. Line(u, h, s, g, n - m)
    BY <1>4, <1>7, <1>8, <1>9, LineOf, Zenon
  <1> QED BY <1>5, <1>10, Zenon

-----------------------------------------------------------------------------
(* The slots in the queue.                                                 *)

Slots == [p : Nat, k : Nat, n : Nat \ {0}]
Slot(p, k, n) == [p |-> p, k |-> k, n |-> n]

\* From slot i on, the queue holds the rest of that packet, slot by slot, and
\* then the first slot of the next one.
Within(q) == \A i, j \in DOMAIN q :
    i <= j /\ q[i].k + (j - i) <= q[i].n => q[j] = Slot(q[i].p, q[i].k + (j - i), q[i].n)
Across(q) == \A i \in DOMAIN q :
    i + 1 \in DOMAIN q /\ q[i].k = q[i].n => q[i + 1].p = q[i].p + 1 /\ q[i + 1].k = 1
Chain(q) == Within(q) /\ Across(q) /\ \A i \in DOMAIN q : q[i].k \in 1 .. q[i].n

\* Slots are read off the front.
LEMMA ChainTail ==
    ASSUME NEW q \in Seq(Slots), Chain(q), NEW m \in 0 .. Len(q), NEW r \in Seq(Slots),
           Len(r) = Len(q) - m, \A i \in 1 .. Len(r) : r[i] = q[i + m]
    PROVE  Chain(r)
  <1>1. \A i \in DOMAIN r : i \in Nat /\ i + m \in DOMAIN q /\ r[i] = q[i + m] /\ r[i] \in Slots
    OBVIOUS
  <1>2. Within(r)
    <2> SUFFICES ASSUME NEW i \in DOMAIN r, NEW j \in DOMAIN r, i <= j, r[i].k + (j - i) <= r[i].n
                 PROVE  r[j] = Slot(r[i].p, r[i].k + (j - i), r[i].n)
      BY Zenon DEF Within
    <2>1. i + m <= j + m /\ (j + m) - (i + m) = j - i
      BY <1>1
    <2>2. q[i + m].k + ((j + m) - (i + m)) <= q[i + m].n
      BY <1>1, <2>1, Zenon
    <2>3. q[j + m] = Slot(q[i + m].p, q[i + m].k + ((j + m) - (i + m)), q[i + m].n)
      BY <1>1, <2>1, <2>2, Zenon DEF Chain, Within
    <2> QED BY <1>1, <2>1, <2>3, Zenon
  <1>3. Across(r)
    <2> SUFFICES ASSUME NEW i \in DOMAIN r, i + 1 \in DOMAIN r, r[i].k = r[i].n
                 PROVE  r[i + 1].p = r[i].p + 1 /\ r[i + 1].k = 1
      BY Zenon DEF Across
    <2>1. (i + 1) + m = (i + m) + 1
      BY <1>1
    <2> QED BY <1>1, <2>1, Zenon DEF Chain, Across
  <1>4. \A i \in DOMAIN r : r[i].k \in 1 .. r[i].n
    BY <1>1, Zenon DEF Chain
  <1> QED BY <1>2, <1>3, <1>4, Zenon DEF Chain

\* Slot s may come after slot l.
Follows(l, s) ==
    \/ l.k < l.n /\ s = Slot(l.p, l.k + 1, l.n)
    \/ l.k = l.n /\ s.p = l.p + 1 /\ s.k = 1

\* Slots are put at the back.
LEMMA ChainAppend ==
    ASSUME NEW q \in Seq(Slots), Chain(q), NEW s \in Slots, s.k \in 1 .. s.n,
           q # << >> => Follows(q[Len(q)], s), NEW r \in Seq(Slots), r = Append(q, s)
    PROVE  Chain(r)
  <1> DEFINE l == Len(q)
  <1>1. /\ l \in Nat /\ DOMAIN q = 1 .. l /\ DOMAIN r = 1 .. l + 1 /\ r[l + 1] = s
        /\ \A i \in 1 .. l : i \in DOMAIN r /\ r[i] = q[i] /\ q[i] \in Slots
        /\ l # 0 => q # << >>
    OBVIOUS
  <1> HIDE DEF l
  <1>2. ASSUME NEW i \in 1 .. l PROVE Follows(q[l], s) /\ q[l] \in Slots /\ l \in 1 .. l
    BY <1>1 DEF l
  <1>3. Within(r)
    <2> SUFFICES ASSUME NEW i \in 1 .. l + 1, NEW j \in 1 .. l + 1, i <= j, r[i].k + (j - i) <= r[i].n
                 PROVE  r[j] = Slot(r[i].p, r[i].k + (j - i), r[i].n)
      BY <1>1, Zenon DEF Within
    <2>1. CASE j \in 1 .. l
      <3>1. i \in 1 .. l
        BY <1>1, <2>1
      <3> QED BY <1>1, <2>1, <3>1, Zenon DEF Chain, Within
    <2>2. CASE i = l + 1
      <3>1. j = l + 1 /\ j - i = 0 /\ s.k + 0 = s.k
        BY <1>1, <2>2 DEF Slots
      <3>2. s = Slot(s.p, s.k, s.n)
        BY DEF Slots, Slot
      <3> QED BY <1>1, <2>2, <3>1, <3>2, Zenon
    <2>3. CASE i \in 1 .. l /\ j = l + 1
      <3>1. r[i] = q[i] /\ q[i] \in Slots /\ i \in DOMAIN q /\ l \in DOMAIN q
        BY <1>1, <1>2, <2>3, Zenon
      <3>2. PICK k, n : k = q[i].k /\ n = q[i].n /\ k \in Nat /\ n \in Nat
        BY <3>1 DEF Slots
      <3>3. k + (j - i) <= n
        BY <3>1, <3>2, Zenon
      <3>4. i <= l /\ k + (l - i) <= n /\ k + (l - i) < n /\ (k + (l - i)) + 1 = k + (j - i) /\ k + (l - i) \in Nat
        <4>1. l \in Nat /\ i \in 1 .. l /\ j = l + 1
          BY <1>1, <2>3, Zenon
        <4>2. k \in Nat /\ n \in Nat
          BY <3>2, Zenon
        <4>3. l - i \in Nat /\ j - i = (l - i) + 1
          BY <4>1
        <4> QED BY <3>3, <4>1, <4>2, <4>3
      <3>5. q[l] = Slot(q[i].p, k + (l - i), n)
        BY <3>1, <3>2, <3>4, Zenon DEF Chain, Within
      <3>6. q[l].k = k + (l - i) /\ q[l].p = q[i].p /\ q[l].n = n
        BY <3>5 DEF Slot
      <3>7. q[l].k < q[l].n /\ q[l].k # q[l].n
        BY <3>2, <3>4, <3>6
      <3>8. s = Slot(q[l].p, q[l].k + 1, q[l].n)
        BY <1>2, <2>3, <3>7, Zenon DEF Follows
      <3> QED BY <1>1, <2>3, <3>1, <3>2, <3>4, <3>6, <3>8, Zenon
    <2>4. j \in 1 .. l \/ i = l + 1 \/ (i \in 1 .. l /\ j = l + 1)
      BY <1>1
    <2> QED BY <2>1, <2>2, <2>3, <2>4, Zenon
  <1>4. Across(r)
    <2> SUFFICES ASSUME NEW i \in 1 .. l + 1, i + 1 \in 1 .. l + 1, r[i].k = r[i].n
                 PROVE  r[i + 1].p = r[i].p + 1 /\ r[i + 1].k = 1
      BY <1>1, Zenon DEF Across
    <2>1. i \in 1 .. l /\ r[i] = q[i]
      BY <1>1
    <2>2. CASE i + 1 \in 1 .. l
      BY <1>1, <2>1, <2>2, Zenon DEF Chain, Across
    <2>3. CASE i = l
      BY <1>1, <1>2, <2>1, <2>3 DEF Follows, Slots
    <2> QED BY <1>1, <2>1, <2>2, <2>3
  <1>5. \A i \in 1 .. l + 1 : r[i].k \in 1 .. r[i].n
    <2> TAKE i \in 1 .. l + 1
    <2>1. CASE i \in 1 .. l
      BY <1>1, <2>1, Zenon DEF Chain
    <2>2. CASE i = l + 1
      BY <1>1, <2>2, Zenon
    <2> QED BY <1>1, <2>1, <2>2
  <1> QED BY <1>1, <1>3, <1>4, <1>5, Zenon DEF Chain

-----------------------------------------------------------------------------
(* Types.  They hold whether the link is intact or not.                    *)

Steps == {"none", "read", "use", "tail", "check", "mask"}
Items == {"frame"} \cup Wim
TargetType == [fifo : Seq(Slots), size : Nat, more : Nat, head : Counter, in : Seq(Items),
               free : Counter, news : BOOLEAN]
BudgetType == [packets : 0 .. Packets, faults : Nat, intact : BOOLEAN, resets : Nat]

LinkTypes ==
    /\ rxHead \in Counter /\ rxTail \in Counter /\ txHead \in Counter /\ txTail \in Counter
    /\ status \in [rx : Counter, tx : Counter]
    /\ upd \in [Threads -> Steps]
    /\ rx \in [pc : {"top", "arm", "wait", "first", "rest", "body"}, pkt : Nat, need : Nat]
    /\ txq \in Seq(Items) /\ fetched \in Seq(Nat)
    /\ tgt \in TargetType /\ tgt.more <= tgt.size
    /\ budget \in BudgetType

LEMMA Constants ==
    /\ Depth \in Nat \ {0} /\ TxDepth \in Nat \ {0} /\ MaxSlot \in 1 .. Depth
    /\ Depth + TxDepth + 1 \in Counter /\ Depth + 1 \in Counter /\ TxDepth + 1 \in Counter
    /\ Depth \in Counter /\ TxDepth \in Counter /\ 0 \in Counter /\ 1 \in Counter /\ Mod - 1 \in Counter
    /\ Starts \subseteq Counter /\ Sizes \subseteq 1 .. Depth /\ Packets \in Nat /\ Frames \in Nat
    /\ Faults \in Nat /\ Resets \in Nat
  BY LinkAssumption DEF Counter

\* A counter stays a counter.
LEMMA Wraps == ASSUME NEW k \in Int PROVE k % Mod \in Counter
  <1>1. Mod \in Nat \ {0}
    BY Round
  <1> QED BY <1>1 DEF Counter

LEMMA InitTypes == LinkInit => LinkTypes
  <1> SUFFICES ASSUME LinkInit PROVE LinkTypes
    OBVIOUS
  <1>1. PICK h \in Starts :
            /\ rxHead = h /\ rxTail = h
            /\ txHead = (h + TxDepth) % Mod /\ txTail = h
            /\ status = [rx |-> h, tx |-> (h + TxDepth) % Mod]
            /\ tgt = [fifo |-> << >>, size |-> 0, more |-> 0, head |-> h, in |-> << >>,
                      free |-> (h + TxDepth) % Mod, news |-> FALSE]
    BY Zenon DEF LinkInit
  <1>2. h \in Counter /\ h + TxDepth \in Int
    BY Constants DEF Counter
  <1>3. PICK f \in Counter : f = (h + TxDepth) % Mod
    BY <1>2, Wraps, Zenon
  <1>4. rxHead \in Counter /\ rxTail \in Counter /\ txHead \in Counter /\ txTail \in Counter
    BY <1>1, <1>2, <1>3, Zenon
  <1>5. status = [rx |-> h, tx |-> f]
    BY <1>1, <1>3, Zenon
  <1>6. tgt = [fifo |-> << >>, size |-> 0, more |-> 0, head |-> h, in |-> << >>,
               free |-> f, news |-> FALSE]
    BY <1>1, <1>3, Zenon
  <1>7. status \in [rx : Counter, tx : Counter]
    BY <1>2, <1>3, <1>5
  <1>8. tgt \in TargetType /\ tgt.more <= tgt.size
    BY <1>2, <1>3, <1>6 DEF TargetType
  <1>9. /\ upd \in [Threads -> Steps]
        /\ rx \in [pc : {"top", "arm", "wait", "first", "rest", "body"}, pkt : Nat, need : Nat]
        /\ fetched \in Seq(Nat) /\ budget \in BudgetType
    BY Constants DEF LinkInit, Steps, BudgetType
  <1>10. txq \in Seq(Items)
    BY Constants DEF LinkInit, Items
  <1> QED BY <1>4, <1>7, <1>8, <1>9, <1>10, Zenon DEF LinkTypes

\* What a reset of the RX counters and a spent bound leave.
LEMMA ResetTypes ==
    ASSUME LinkTypes, NEW wim \in Wim, Reset(wim)
    PROVE  txq' \in Seq(Items) /\ budget' \in BudgetType /\ budget'.packets = budget.packets
           /\ budget'.intact = budget.intact
  <1>1. budget \in BudgetType /\ txq \in Seq(Items) /\ wim \in Items
    BY DEF LinkTypes, Items
  <1>2. budget' = [budget EXCEPT !.resets = budget.resets - 1] /\ txq' = Append(txq, wim) /\ budget.resets > 0
    BY DEF Reset
  <1>3. txq' \in Seq(Items)
    BY <1>1, <1>2
  <1>4. budget.resets - 1 \in Nat
    BY <1>1, <1>2 DEF BudgetType
  <1>5. budget' \in BudgetType /\ budget'.packets = budget.packets /\ budget'.intact = budget.intact
    BY <1>1, <1>2, <1>4 DEF BudgetType
  <1> QED BY <1>3, <1>5

LEMMA FaultTypes ==
    ASSUME LinkTypes, NEW harmless \in BOOLEAN, Fault(harmless)
    PROVE  budget' \in BudgetType /\ budget'.packets = budget.packets
           /\ budget'.intact = (budget.intact /\ harmless)
  <1>1. budget \in BudgetType
    BY DEF LinkTypes
  <1>2. /\ budget' = [budget EXCEPT !.faults = budget.faults - 1, !.intact = budget.intact /\ harmless]
        /\ budget.faults > 0
    BY DEF Fault
  <1>3. budget.faults - 1 \in Nat /\ (budget.intact /\ harmless) \in BOOLEAN
    BY <1>1, <1>2 DEF BudgetType
  <1> QED BY <1>1, <1>2, <1>3 DEF BudgetType

LEMMA ResetRxTypes ==
    ASSUME LinkTypes, ResetRx
    PROVE  rxHead' \in Counter /\ rxTail' \in Counter /\ txq' \in Seq(Items) /\ budget' \in BudgetType
           /\ budget'.intact = budget.intact
  <1>1. Reset("reset_hif_tx") /\ rxHead' = 0 /\ rxTail' = 0 /\ "reset_hif_tx" \in Wim
    BY Zenon DEF ResetRx, Wim
  <1> QED BY <1>1, ResetTypes, Constants, Zenon

LEMMA UpdateTypes ==
    ASSUME LinkTypes, NEW t \in Threads, Update(t)
    PROVE  LinkTypes'
  <1> USE DEF LinkTypes, Steps
  <1>1. CASE StatusRead(t)
    <2>1. tgt' = [tgt EXCEPT !.news = FALSE] /\ status' = [rx |-> tgt.head, tx |-> tgt.free]
      BY <1>1 DEF StatusRead
    <2>2. tgt' \in TargetType /\ tgt'.more <= tgt'.size /\ status' \in [rx : Counter, tx : Counter]
      BY <2>1 DEF TargetType
    <2>3. upd' \in [Threads -> Steps]
      BY <1>1 DEF StatusRead
    <2> QED BY <1>1, <2>2, <2>3 DEF StatusRead, host
  <1>2. CASE StatusGarbled(t)
    <2>1. Fault(FALSE) /\ status' = [rx |-> tgt.head, tx |-> (tgt.free + TxDepth + 1) % Mod]
          /\ tgt.head \in Counter
      BY <1>2 DEF StatusGarbled, TargetType
    <2>2. budget' \in BudgetType
      BY <2>1, FaultTypes
    <2>3. tgt.free + TxDepth + 1 \in Int
      <3>1. tgt.free \in 0 .. Mod - 1
        BY DEF TargetType, Counter
      <3>2. TxDepth \in Nat
        BY LinkAssumption
      <3> QED BY <3>1, <3>2
    <2>4. PICK f \in Counter : f = (tgt.free + TxDepth + 1) % Mod
      BY <2>3, Wraps, Zenon
    <2>5. status' = [rx |-> tgt.head, tx |-> f]
      BY <2>1, <2>4, Zenon
    <2>6. status' \in [rx : Counter, tx : Counter]
      BY <2>1, <2>5
    <2>7. upd' \in [Threads -> Steps]
      BY <1>2 DEF StatusGarbled
    <2> QED BY <1>2, <2>2, <2>6, <2>7 DEF StatusGarbled, host
  <1>3. CASE StatusUse(t)
    <2>1. rxHead' \in Counter /\ txHead' \in Counter
      BY <1>3 DEF StatusUse
    <2>2. upd' \in [Threads -> Steps]
      <3>1. upd' = [upd EXCEPT ![t] = "tail"] \/ upd' = [upd EXCEPT ![t] = "check"]
        BY <1>3, Zenon DEF StatusUse
      <3> QED BY <3>1
    <2>3. txq' \in Seq(Items) /\ budget' \in BudgetType
      <3>1. CASE Reset("reset_hif_rx")
        BY <3>1, ResetTypes, Zenon DEF Wim
      <3>2. CASE UNCHANGED <<txq, budget>>
        BY <3>2
      <3> QED BY <1>3, <3>1, <3>2, Zenon DEF StatusUse
    <2> QED BY <1>3, <2>1, <2>2, <2>3 DEF StatusUse
  <1>4. CASE ResetTxTail(t)
    BY <1>4, Constants DEF ResetTxTail
  <1>5. CASE StatusCheck(t)
    <2>1. upd' \in [Threads -> Steps]
      <3>1. PICK u \in Steps : upd' = [upd EXCEPT ![t] = u]
        BY <1>5, Zenon DEF StatusCheck
      <3> QED BY <3>1
    <2>2. rxHead' \in Counter /\ rxTail' \in Counter /\ txq' \in Seq(Items) /\ budget' \in BudgetType
      <3>1. CASE ResetRx
        BY <3>1, ResetRxTypes, Zenon
      <3>2. CASE UNCHANGED <<rxHead, rxTail, txq, eirq, budget>>
        BY <3>2
      <3> QED BY <1>5, <3>1, <3>2, Zenon DEF StatusCheck
    <2> QED BY <1>5, <2>1, <2>2 DEF StatusCheck
  <1>6. CASE StatusMask(t)
    BY <1>6 DEF StatusMask, host
  <1> QED BY <1>1, <1>2, <1>3, <1>4, <1>5, <1>6, Zenon DEF Update

LEMMA RxTypes ==
    ASSUME LinkTypes, RxThread
    PROVE  LinkTypes'
  <1> USE DEF LinkTypes
  <1> DEFINE RxType == [pc : {"top", "arm", "wait", "first", "rest", "body"}, pkt : Nat, need : Nat]
  <1>0. Top \in RxType
    BY DEF Top
  <1>1. CASE RxTop
    BY <1>1 DEF RxTop, host, Steps
  <1>2. CASE RxArm
    BY <1>2 DEF RxArm, host
  <1>3. CASE RxWait
    BY <1>3 DEF RxWait, host
  <1>4. CASE RxGarbage
    <2>1. ResetRx
      BY <1>4, Zenon DEF RxGarbage
    <2> QED BY <1>0, <1>4, <2>1, ResetRxTypes DEF RxGarbage
  <1>5. CASE RxFirst
    <2> DEFINE q == tgt.fifo
    <2>1. q \in Seq(Slots) /\ tgt \in TargetType /\ tgt.more <= tgt.size
      BY DEF TargetType
    <2>2. PICK f \in Seq(Slots) : tgt' = [tgt EXCEPT !.fifo = f]
      <3>1. tgt' = [tgt EXCEPT !.fifo = IF q = << >> THEN q ELSE Tail(q)]
        BY <1>5, Zenon DEF RxFirst
      <3>2. (IF q = << >> THEN q ELSE Tail(q)) \in Seq(Slots)
        BY <2>1
      <3> QED BY <3>1, <3>2, Zenon
    <2>3. tgt' \in TargetType /\ tgt'.more <= tgt'.size
      BY <2>1, <2>2 DEF TargetType
    <2>4. CASE ResetRx /\ rx' = Top /\ UNCHANGED <<upd, fetched>>
      BY <1>0, <1>5, <2>3, <2>4, ResetRxTypes DEF RxFirst
    <2>5. CASE /\ q # << >> /\ rxTail' = (rxTail + 1) % Mod /\ UNCHANGED <<rxHead, txq, eirq, budget>>
               /\ \/ rx' = Top /\ Receive(q[1].p) /\ UNCHANGED upd
                  \/ /\ rx' = [pc |-> "rest", pkt |-> q[1].p, need |-> q[1].n - 1]
                     /\ upd' = [upd EXCEPT !["rx"] =
                          IF NumSlots(rxHead, rxTail + 1) < q[1].n - 1 THEN "read" ELSE "none"]
                     /\ UNCHANGED fetched
      <3>1. rxTail + 1 \in Int
        BY DEF Counter
      <3>2. rxTail' \in Counter
        BY <2>5, <3>1, Wraps, Zenon
      <3>3. q[1] \in Slots /\ q[1].p \in Nat /\ q[1].n - 1 \in Nat
        <4> HIDE DEF q
        <4>1. q[1] \in Slots
          BY <2>1, <2>5
        <4> QED BY <4>1 DEF Slots
      <3>4. CASE rx' = Top /\ Receive(q[1].p) /\ UNCHANGED upd
        <4>1. fetched' \in Seq(Nat)
          <5> HIDE DEF q
          <5> QED BY <3>3, <3>4 DEF Receive
        <4> QED BY <1>0, <1>5, <2>3, <2>5, <3>2, <3>4, <4>1 DEF RxFirst
      <3>5. CASE /\ rx' = [pc |-> "rest", pkt |-> q[1].p, need |-> q[1].n - 1]
                 /\ upd' = [upd EXCEPT !["rx"] =
                      IF NumSlots(rxHead, rxTail + 1) < q[1].n - 1 THEN "read" ELSE "none"]
                 /\ UNCHANGED fetched
        <4>1. PICK u \in Steps : upd' = [upd EXCEPT !["rx"] = u]
          BY <3>5, Zenon DEF Steps
        <4>2. upd' \in [Threads -> Steps]
          BY <4>1
        <4>3. rx' \in RxType
          <5> HIDE DEF q
          <5> QED BY <3>3, <3>5
        <4> QED BY <1>5, <2>3, <2>5, <3>2, <3>5, <4>2, <4>3 DEF RxFirst
      <3> QED BY <2>5, <3>4, <3>5, Zenon
    <2> QED BY <1>5, <2>4, <2>5, Zenon DEF RxFirst
  <1>6. CASE RxFirstFails
    <2>1. Fault(TRUE)
      BY <1>6, Zenon DEF RxFirstFails
    <2> QED BY <1>0, <1>6, <2>1, FaultTypes DEF RxFirstFails, host
  <1>7. CASE RxRest
    <2>1. rxTail + rx.need \in Int
      BY DEF Counter
    <2>2. rxTail' \in Counter
      BY <1>7, <2>1, Wraps, Zenon DEF RxRest
    <2>3. rx' \in RxType
      BY <1>7 DEF RxRest
    <2> QED BY <1>7, <2>2, <2>3 DEF RxRest
  <1>8. CASE RxRestTimeout
    <2>1. Fault(FALSE)
      BY <1>8, Zenon DEF RxRestTimeout
    <2> QED BY <1>0, <1>8, <2>1, FaultTypes DEF RxRestTimeout, host
  <1>9. CASE RxBody
    <2>1. CASE ResetRx /\ UNCHANGED <<fetched, tgt>>
      BY <1>0, <1>9, <2>1, ResetRxTypes DEF RxBody
    <2>2. CASE /\ Receive(IF AllOfIt THEN rx.pkt ELSE 0)
               /\ tgt' = [tgt EXCEPT !.fifo = SubSeq(@, rx.need + 1, Len(@))]
               /\ UNCHANGED <<rxHead, rxTail, txq, eirq, budget>>
      <3>1. PICK p \in Nat : fetched' = Append(fetched, p)
        BY <2>2 DEF Receive
      <3>2. fetched' \in Seq(Nat)
        BY <3>1
      <3>3. SubSeq(tgt.fifo, rx.need + 1, Len(tgt.fifo)) \in Seq(Slots)
        BY DEF TargetType
      <3>4. tgt' = [tgt EXCEPT !.fifo = SubSeq(tgt.fifo, rx.need + 1, Len(tgt.fifo))]
        BY <2>2
      <3>5. tgt' \in TargetType /\ tgt'.more <= tgt'.size
        BY <3>3, <3>4 DEF TargetType
      <3> QED BY <1>0, <1>9, <2>2, <3>2, <3>5 DEF RxBody
    <2> QED BY <1>9, <2>1, <2>2, Zenon DEF RxBody
  <1>10. CASE RxBodyFails
    <2>1. Fault(FALSE)
      BY <1>10, Zenon DEF RxBodyFails
    <2> QED BY <1>0, <1>10, <2>1, FaultTypes DEF RxBodyFails, host
  <1> QED BY <1>1, <1>2, <1>3, <1>4, <1>5, <1>6, <1>7, <1>8, <1>9, <1>10, Zenon DEF RxThread

LEMMA WorkerTypes ==
    ASSUME LinkTypes, Worker
    PROVE  LinkTypes'
  <1> USE DEF LinkTypes
  <1>1. CASE Xmit
    <2>1. txq # << >> /\ txq \in Seq(Items) /\ tgt.in \in Seq(Items)
      BY <1>1 DEF Xmit, WorkerAt, TargetType
    <2>2. Append(tgt.in, Head(txq)) \in Seq(Items) /\ Tail(txq) \in Seq(Items)
      BY <2>1
    <2>3. tgt' = [tgt EXCEPT !.in = Append(tgt.in, Head(txq))]
      BY <1>1 DEF Xmit
    <2>4. tgt' \in TargetType /\ tgt'.more <= tgt'.size
      BY <2>2, <2>3 DEF TargetType
    <2>5. txTail + 1 \in Int
      BY DEF Counter
    <2>6. txTail' \in Counter
      BY <1>1, <2>5, Wraps, Zenon DEF Xmit
    <2> QED BY <1>1, <2>2, <2>4, <2>6 DEF Xmit
  <1>2. CASE XmitRefresh
    BY <1>2 DEF XmitRefresh, host, Steps
  <1>3. CASE XmitArm
    BY <1>3 DEF XmitArm, host
  <1>4. CASE XmitTimeout
    <2>1. txq' \in Seq(Items)
      BY <1>4 DEF XmitTimeout, WorkerAt
    <2> QED BY <1>4, <2>1 DEF XmitTimeout, host
  <1> QED BY <1>1, <1>2, <1>3, <1>4, Zenon DEF Worker

\* What a packet put into the queue leaves of the target.
LEMMA PutTypes ==
    ASSUME LinkTypes, NEW p \in Nat, NEW n \in Nat \ {0}, NEW k \in 1 .. n, Put(p, k, n)
    PROVE  /\ tgt' \in TargetType /\ tgt'.more <= tgt'.size
           /\ tgt'.fifo = Append(tgt.fifo, Slot(p, k, n)) /\ tgt'.head = (tgt.head + 1) % Mod
           /\ tgt'.size = n /\ tgt'.more = n - k /\ tgt'.in = tgt.in /\ tgt'.free = tgt.free
           /\ Slot(p, k, n) \in Slots
  <1>1. tgt \in TargetType
    BY DEF LinkTypes
  <1>2. Slot(p, k, n) \in Slots
    BY DEF Slot, Slots
  <1>3. tgt.head + 1 \in Int
    BY <1>1 DEF TargetType, Counter
  <1>4. PICK h \in Counter : h = (tgt.head + 1) % Mod
    BY <1>3, Wraps, Zenon
  <1>5. PICK f \in Seq(Slots) : f = Append(tgt.fifo, Slot(p, k, n))
    <2>1. tgt.fifo \in Seq(Slots)
      BY <1>1 DEF TargetType
    <2>2. Append(tgt.fifo, Slot(p, k, n)) \in Seq(Slots)
      BY <1>2, <2>1
    <2> QED BY <2>2, Zenon
  <1>6. tgt' = [tgt EXCEPT !.fifo = Append(tgt.fifo, Slot(p, k, n)), !.head = (tgt.head + 1) % Mod,
                           !.news = TRUE, !.size = n, !.more = n - k]
    BY DEF Put, Slot
  <1>7. tgt' = [tgt EXCEPT !.fifo = f, !.head = h, !.news = TRUE, !.size = n, !.more = n - k]
    BY <1>4, <1>5, <1>6, Zenon
  <1>8. n - k \in Nat /\ n - k <= n
    OBVIOUS
  <1>9. /\ tgt' \in TargetType /\ tgt'.size = n /\ tgt'.more = n - k /\ tgt'.fifo = f /\ tgt'.head = h
        /\ tgt'.in = tgt.in /\ tgt'.free = tgt.free
    BY <1>1, <1>7, <1>8 DEF TargetType
  <1> QED BY <1>2, <1>4, <1>5, <1>8, <1>9, Zenon

\* How many packets the target has started.
LEMMA SentMany == ASSUME LinkTypes PROVE Packets - budget.packets \in Nat
  <1>1. budget.packets \in 0 .. Packets
    BY DEF LinkTypes, BudgetType
  <1>2. Packets \in Nat
    BY LinkAssumption
  <1> QED BY <1>1, <1>2

LEMMA FirstPut ==
    ASSUME LinkTypes, TgtFirst
    PROVE  \E n \in Sizes : /\ Put((Packets - budget.packets) + 1, 1, n)
                            /\ (Packets - budget.packets) + 1 \in Nat /\ n \in Nat \ {0} /\ 1 \in 1 .. n
  <1>1. PICK n \in Sizes : Put((Packets - budget.packets) + 1, 1, n)
    BY Zenon DEF TgtFirst
  <1>2. (Packets - budget.packets) + 1 \in Nat
    BY SentMany
  <1>3. n \in Nat \ {0} /\ 1 \in 1 .. n
    BY Constants
  <1> QED BY <1>1, <1>2, <1>3, Zenon

LEMMA NextPut ==
    ASSUME LinkTypes, TgtNext
    PROVE  /\ Put(Packets - budget.packets, (tgt.size - tgt.more) + 1, tgt.size)
           /\ Packets - budget.packets \in Nat /\ tgt.size \in Nat \ {0}
           /\ (tgt.size - tgt.more) + 1 \in 1 .. tgt.size /\ tgt.more \in Nat \ {0}
  <1>1. tgt.size \in Nat /\ tgt.more \in Nat /\ tgt.more <= tgt.size /\ tgt.more > 0
    BY DEF LinkTypes, TargetType, TgtNext
  <1>2. Packets - budget.packets \in Nat
    BY SentMany, Zenon
  <1>3. (tgt.size - tgt.more) + 1 \in 1 .. tgt.size /\ tgt.size \in Nat \ {0} /\ tgt.more \in Nat \ {0}
    BY <1>1
  <1> QED BY <1>2, <1>3, Zenon DEF TgtNext

LEMMA TargetTypes ==
    ASSUME LinkTypes, Target
    PROVE  LinkTypes'
  <1>1. CASE TgtFirst
    <2>1. tgt' \in TargetType /\ tgt'.more <= tgt'.size
      BY <1>1, FirstPut, PutTypes, Zenon
    <2>2. budget' \in BudgetType
      <3>1. budget \in BudgetType /\ budget.packets > 0
            /\ budget' = [budget EXCEPT !.packets = budget.packets - 1]
        BY <1>1 DEF TgtFirst, LinkTypes
      <3>2. budget.packets - 1 \in 0 .. Packets
        BY <3>1, Constants DEF BudgetType
      <3> QED BY <3>1, <3>2 DEF BudgetType
    <2> QED BY <1>1, <2>1, <2>2 DEF TgtFirst, LinkTypes, host
  <1>2. CASE TgtNext
    <2>1. tgt' \in TargetType /\ tgt'.more <= tgt'.size
      BY <1>2, NextPut, PutTypes, Zenon
    <2> QED BY <1>2, <2>1 DEF TgtNext, LinkTypes, host
  <1>3. CASE TgtTake
    <2> DEFINE emptied(f) == [tgt EXCEPT !.in = Tail(tgt.in), !.free = f, !.news = TRUE]
    <2>1. tgt \in TargetType /\ tgt.in # << >> /\ tgt.more <= tgt.size
      BY <1>3 DEF TgtTake, LinkTypes
    <2>2. tgt.free + 1 \in Int
      BY <2>1 DEF TargetType, Counter
    <2>3. PICK f \in Counter : f = (tgt.free + 1) % Mod
      BY <2>2, Wraps, Zenon
    <2>4. \/ tgt' = emptied(f)
          \/ tgt' = [emptied(f) EXCEPT !.fifo = << >>, !.head = 0, !.more = 0]
          \/ tgt' = [emptied(f) EXCEPT !.free = TxDepth]
      <3>1. tgt' = CASE Head(tgt.in) = "frame" -> emptied(f)
                     [] Head(tgt.in) = "reset_hif_tx" ->
                          [emptied(f) EXCEPT !.fifo = << >>, !.head = 0, !.more = 0]
                     [] OTHER -> [emptied(f) EXCEPT !.free = TxDepth]
        BY <1>3, <2>3, Zenon DEF TgtTake
      <3> HIDE DEF emptied
      <3> QED BY <3>1, Zenon
    <2>5. emptied(f) \in TargetType /\ emptied(f).more = tgt.more /\ emptied(f).size = tgt.size
      <3>1. Tail(tgt.in) \in Seq(Items)
        BY <2>1 DEF TargetType
      <3> QED BY <2>1, <3>1 DEF TargetType
    <2>6. tgt' \in TargetType /\ tgt'.more <= tgt'.size
      <3>1. PICK u \in TargetType : u = emptied(f) /\ u.more = tgt.more /\ u.size = tgt.size
        BY <2>5, Zenon
      <3> HIDE DEF emptied
      <3>2. tgt' = u \/ tgt' = [u EXCEPT !.fifo = << >>, !.head = 0, !.more = 0] \/ tgt' = [u EXCEPT !.free = TxDepth]
        BY <2>4, <3>1, Zenon
      <3>3. CASE tgt' = u
        BY <2>1, <3>1, <3>3
      <3>4. CASE tgt' = [u EXCEPT !.fifo = << >>, !.head = 0, !.more = 0]
        <4>1. 0 \in Counter
          BY Constants
        <4>2. << >> \in Seq(Slots)
          OBVIOUS
        <4>3. PICK e \in Seq(Slots) : e = << >>
          BY <4>2, Zenon
        <4>4. tgt' = [u EXCEPT !.fifo = e, !.head = 0, !.more = 0]
          BY <3>4, <4>3, Zenon
        <4>5. tgt' \in TargetType /\ tgt'.more = 0 /\ tgt'.size = u.size /\ u.size \in Nat
          BY <4>1, <4>4 DEF TargetType
        <4> QED BY <4>5
      <3>5. CASE tgt' = [u EXCEPT !.free = TxDepth]
        <4>1. TxDepth \in Counter
          BY Constants
        <4> QED BY <2>1, <3>1, <3>5, <4>1 DEF TargetType
      <3> QED BY <3>2, <3>3, <3>4, <3>5, Zenon
    <2> QED BY <1>3, <2>6 DEF TgtTake, LinkTypes, host
  <1> QED BY <1>1, <1>2, <1>3, Zenon DEF Target

LEMMA TypesStep == LinkTypes /\ [LinkNext]_linkVars => LinkTypes'
  <1> SUFFICES ASSUME LinkTypes, [LinkNext]_linkVars PROVE LinkTypes'
    OBVIOUS
  <1>1. CASE UNCHANGED linkVars
    BY <1>1 DEF LinkTypes, linkVars, host
  <1>2. CASE Irq
    BY <1>2 DEF LinkTypes, Irq, host, Steps
  <1> QED BY <1>1, <1>2, UpdateTypes, RxTypes, WorkerTypes, TargetTypes, Zenon DEF LinkNext

-----------------------------------------------------------------------------
(* The stream of packets.  q is the target's queue, in which the last slot *)
(* belongs to packet sent, of which more slots of size are still to come;  *)
(* got packets have been fetched, and RX is at step at, with need slots of pkt  *)
(* outstanding.                                                            *)

Resting == {"rest", "body"}
Back(q, size, more, sent) == q # << >> => q[Len(q)] = Slot(sent, size - more, size)
FrontInside(q, size, more, sent, got, pkt, need) ==
    /\ pkt = got + 1 /\ need > 0
    /\ q # << >> => q[1] = Slot(pkt, 2, need + 1)
    /\ q = << >> => more = need /\ sent = pkt /\ size = need + 1
FrontBetween(q, more, sent, got) ==
    /\ q # << >> => q[1].p = got + 1 /\ q[1].k = 1
    /\ q = << >> => more = 0 /\ sent = got
StreamOf(q, size, more, sent, got, at, pkt, need) ==
    /\ Len(q) <= Depth /\ Chain(q) /\ Back(q, size, more, sent)
    /\ at \in Resting => FrontInside(q, size, more, sent, got, pkt, need)
    /\ at \notin Resting => FrontBetween(q, more, sent, got)
    /\ at = "body" => Len(q) >= need
StreamTypes(q, size, more, sent, got, pkt, need) ==
    /\ q \in Seq(Slots) /\ size \in Nat /\ more \in Nat /\ sent \in Nat /\ got \in Nat
    /\ pkt \in Nat /\ need \in Nat /\ more <= size

\* r is what is left of the queue when its first m slots are read.
RearOf(r, q, m) == r \in Seq(Slots) /\ Len(r) = Len(q) - m /\ \A i \in 1 .. Len(r) : r[i] = q[i + m]

LEMMA Rears ==
    ASSUME NEW q \in Seq(Slots), NEW m \in 0 .. Len(q)
    PROVE  RearOf(SubSeq(q, m + 1, Len(q)), q, m) /\ (q # << >> => RearOf(Tail(q), q, 1))
  BY DEF RearOf

LEMMA Dropped ==
    ASSUME NEW q \in Seq(Slots), NEW m \in 0 .. Len(q), Chain(q), Len(q) <= Depth,
           NEW r, RearOf(r, q, m)
    PROVE  /\ r \in Seq(Slots) /\ Len(r) = Len(q) - m /\ Chain(r) /\ Len(r) <= Depth
           /\ r # << >> => m + 1 \in DOMAIN q /\ r[1] = q[m + 1] /\ r[Len(r)] = q[Len(q)]
           /\ r = << >> => Len(q) = m
  <1>1. r \in Seq(Slots) /\ Len(r) = Len(q) - m
    BY Zenon DEF RearOf
  <1>2. Chain(r)
    BY <1>1, ChainTail, Zenon DEF RearOf
  <1>3. Len(r) <= Depth
    BY <1>1, Constants
  <1>4. ASSUME r # << >>
        PROVE  m + 1 \in DOMAIN q /\ r[1] = q[m + 1] /\ r[Len(r)] = q[Len(q)]
    <2>1. Len(r) \in Nat \ {0} /\ DOMAIN q = 1 .. Len(q) /\ Len(q) \in Nat
      BY <1>1, <1>4
    <2>2. 1 \in 1 .. Len(r) /\ Len(r) \in 1 .. Len(r) /\ Len(r) + m = Len(q) /\ m + 1 \in 1 .. Len(q) /\ 1 + m = m + 1
      BY <1>1, <2>1
    <2>3. r[1] = q[1 + m] /\ r[Len(r)] = q[Len(r) + m]
      BY <2>2, Zenon DEF RearOf
    <2> QED BY <2>1, <2>2, <2>3, Zenon
  <1>5. ASSUME r = << >> PROVE Len(q) = m
    BY <1>1, <1>5
  <1> QED BY <1>1, <1>2, <1>3, <1>4, <1>5, Zenon

\* The first slot of the packet is read.
LEMMA StreamFirst ==
    ASSUME NEW q, NEW size, NEW more, NEW sent, NEW got, NEW pkt, NEW need,
           StreamTypes(q, size, more, sent, got, pkt, need), q # << >>,
           StreamOf(q, size, more, sent, got, "first", pkt, need), NEW r, RearOf(r, q, 1)
    PROVE  /\ q[1].k = 1 /\ q[1].p = got + 1 /\ q[1] \in Slots
           /\ q[1].n = 1 => StreamOf(r, size, more, sent, got + 1, "top", 0, 0)
           /\ q[1].n # 1 => StreamOf(r, size, more, sent, got, "rest", q[1].p, q[1].n - 1)
  <1>1. /\ q \in Seq(Slots) /\ size \in Nat /\ more \in Nat /\ sent \in Nat /\ got \in Nat /\ more <= size
        /\ Chain(q) /\ Len(q) <= Depth /\ q[Len(q)] = Slot(sent, size - more, size)
        /\ q[1].p = got + 1 /\ q[1].k = 1
    BY DEF StreamOf, StreamTypes, Back, FrontBetween, Resting
  <1>2. 1 \in 0 .. Len(q) /\ 1 \in DOMAIN q /\ q[1] \in Slots
    BY <1>1
  <1>4. /\ r \in Seq(Slots) /\ Len(r) = Len(q) - 1 /\ Chain(r) /\ Len(r) <= Depth
        /\ r # << >> => 1 + 1 \in DOMAIN q /\ r[1] = q[1 + 1] /\ r[Len(r)] = q[Len(q)]
        /\ r = << >> => Len(q) = 1
    <2>1. q \in Seq(Slots) /\ Chain(q) /\ Len(q) <= Depth
      BY <1>1, Zenon
    <2> QED BY <1>2, <2>1, Dropped, Zenon
  <1>5. Back(r, size, more, sent)
    BY <1>1, <1>4, Zenon DEF Back
  <1>6. q[1].n \in Nat \ {0}
    BY <1>2 DEF Slots
  <1>7. ASSUME r = << >> PROVE sent = got + 1 /\ size - more = 1 /\ size = q[1].n
    <2>1. q[1] = Slot(sent, size - more, size)
      BY <1>1, <1>4, <1>7, Zenon
    <2> QED BY <1>1, <2>1 DEF Slot
  <1>8. ASSUME q[1].n = 1 PROVE FrontBetween(r, more, sent, got + 1)
    <2>1. ASSUME r # << >> PROVE r[1].p = (got + 1) + 1 /\ r[1].k = 1
      BY <1>1, <1>2, <1>4, <1>8, <2>1, Zenon DEF Chain, Across
    <2>2. ASSUME r = << >> PROVE more = 0 /\ sent = got + 1
      BY <1>1, <1>7, <1>8, <2>2
    <2> QED BY <2>1, <2>2, Zenon DEF FrontBetween
  <1>9. ASSUME q[1].n # 1 PROVE FrontInside(r, size, more, sent, got, q[1].p, q[1].n - 1)
    <2>1. q[1].n - 1 > 0 /\ (q[1].n - 1) + 1 = q[1].n
      BY <1>6, <1>9
    <2>2. ASSUME r # << >> PROVE r[1] = Slot(q[1].p, 2, q[1].n)
      <3>1. 1 <= 2 /\ 1 + (2 - 1) <= q[1].n /\ 1 + (2 - 1) = 2 /\ 1 + 1 = 2
        BY <1>6, <1>9
      <3>2. 2 \in DOMAIN q /\ r[1] = q[2]
        BY <1>4, <2>2, <3>1, Zenon
      <3> QED BY <1>1, <1>2, <3>1, <3>2, Zenon DEF Chain, Within
    <2>3. ASSUME r = << >> PROVE more = q[1].n - 1 /\ sent = q[1].p /\ size = (q[1].n - 1) + 1
      <3>1. sent = got + 1 /\ size - more = 1 /\ size = q[1].n /\ q[1].p = got + 1
        BY <1>1, <1>7, <2>3, ZenonT(60)
      <3>2. size \in Nat /\ more \in Nat
        BY <1>1, Zenon
      <3>3. more = size - 1 /\ (size - 1) + 1 = size
        BY <3>1, <3>2
      <3> QED BY <3>1, <3>3, Zenon
    <2> QED BY <1>1, <2>1, <2>2, <2>3, Zenon DEF FrontInside
  <1>10. "top" \notin Resting /\ "rest" \in Resting /\ "top" # "body" /\ "rest" # "body"
    BY DEF Resting
  <1> QED BY <1>1, <1>2, <1>4, <1>5, <1>8, <1>9, <1>10, Zenon DEF StreamOf

\* The rest of the packet is read: it is there, and nothing else is taken.
LEMMA StreamBody ==
    ASSUME NEW q, NEW size, NEW more, NEW sent, NEW got, NEW pkt, NEW need,
           StreamTypes(q, size, more, sent, got, pkt, need),
           StreamOf(q, size, more, sent, got, "body", pkt, need), NEW r, RearOf(r, q, need)
    PROVE  /\ pkt = got + 1 /\ Len(q) >= need /\ \A i \in 1 .. need : q[i].p = pkt
           /\ Len(r) = Len(q) - need /\ need \in 0 .. Len(q)
           /\ StreamOf(r, size, more, sent, got + 1, "top", 0, 0)
  <1>1. /\ q \in Seq(Slots) /\ size \in Nat /\ more \in Nat /\ sent \in Nat /\ got \in Nat /\ more <= size
        /\ need \in Nat /\ Chain(q) /\ Len(q) <= Depth /\ Back(q, size, more, sent)
        /\ FrontInside(q, size, more, sent, got, pkt, need) /\ Len(q) >= need
    BY DEF StreamOf, StreamTypes, Resting
  <1>2. /\ pkt = got + 1 /\ need > 0
    BY <1>1 DEF FrontInside
  <1>3. q # << >> /\ need \in 1 .. Len(q) /\ need \in 0 .. Len(q) /\ 1 \in DOMAIN q /\ need \in DOMAIN q
    BY <1>1, <1>2
  <1>4. q[1] = Slot(pkt, 2, need + 1) /\ q[Len(q)] = Slot(sent, size - more, size)
    BY <1>1, <1>3, Zenon DEF FrontInside, Back
  <1>5. q[1].p = pkt /\ q[1].k = 2 /\ q[1].n = need + 1
    BY <1>4 DEF Slot
  <1>6. ASSUME NEW i \in 1 .. need PROVE q[i] = Slot(pkt, 2 + (i - 1), need + 1)
    <2>1. i \in DOMAIN q /\ 1 <= i /\ 2 + (i - 1) <= need + 1
      BY <1>1, <1>3
    <2> QED BY <1>1, <1>3, <1>5, <2>1, Zenon DEF Chain, Within
  <1>7. \A i \in 1 .. need : q[i].p = pkt
    <2> TAKE i \in 1 .. need
    <2>1. q[i] = Slot(pkt, 2 + (i - 1), need + 1)
      BY <1>6, Zenon
    <2> QED BY <2>1 DEF Slot
  <1>8. q[need].p = pkt /\ q[need].k = q[need].n /\ q[need].k = need + 1
    <2>1. need \in 1 .. need /\ 2 + (need - 1) = need + 1
      BY <1>3
    <2>2. q[need] = Slot(pkt, need + 1, need + 1)
      BY <1>6, <2>1, Zenon
    <2> QED BY <2>2 DEF Slot
  <1>9. /\ r \in Seq(Slots) /\ Len(r) = Len(q) - need /\ Chain(r) /\ Len(r) <= Depth
        /\ r # << >> => need + 1 \in DOMAIN q /\ r[1] = q[need + 1] /\ r[Len(r)] = q[Len(q)]
        /\ r = << >> => Len(q) = need
    BY <1>1, <1>3, Dropped, Zenon
  <1>10. Back(r, size, more, sent)
    BY <1>4, <1>9, Zenon DEF Back
  <1>11. ASSUME r # << >> PROVE r[1].p = (got + 1) + 1 /\ r[1].k = 1
    BY <1>1, <1>2, <1>3, <1>8, <1>9, <1>11, Zenon DEF Chain, Across
  <1>12. ASSUME r = << >> PROVE more = 0 /\ sent = got + 1
    <2>1. q[need] = Slot(sent, size - more, size)
      BY <1>4, <1>9, <1>12, Zenon
    <2>2. q[need].p = sent /\ q[need].k = size - more /\ q[need].n = size
      BY <2>1 DEF Slot
    <2>3. size - more = size /\ sent = got + 1
      BY <1>2, <1>8, <2>2, Zenon
    <2> QED BY <1>1, <2>3
  <1>13. "top" \notin Resting /\ "top" # "body"
    BY DEF Resting
  <1>14. FrontBetween(r, more, sent, got + 1)
    BY <1>11, <1>12, Zenon DEF FrontBetween
  <1> QED BY <1>1, <1>2, <1>3, <1>7, <1>9, <1>10, <1>13, <1>14, Zenon DEF StreamOf

\* What is in the queue when a slot is put at its back.
LEMMA Put1 ==
    ASSUME NEW q \in Seq(Slots), NEW s \in Slots, NEW r, r = Append(q, s)
    PROVE  /\ r \in Seq(Slots) /\ Len(r) = Len(q) + 1 /\ r # << >> /\ r[Len(r)] = s
           /\ q # << >> => r[1] = q[1] /\ q[Len(q)] \in Slots /\ Len(q) \in DOMAIN q
           /\ q = << >> => r[1] = s
           /\ Len(q) \in Nat
  <1>1. r \in Seq(Slots) /\ Len(r) = Len(q) + 1 /\ r # << >> /\ r[Len(r)] = s /\ Len(q) \in Nat
    OBVIOUS
  <1>2. ASSUME q # << >> PROVE r[1] = q[1] /\ q[Len(q)] \in Slots /\ Len(q) \in DOMAIN q
    BY <1>2
  <1>3. ASSUME q = << >> PROVE r[1] = s
    BY <1>3
  <1> QED BY <1>1, <1>2, <1>3, Zenon

LEMMA StreamPut ==
    ASSUME NEW q, NEW size, NEW more, NEW sent, NEW got, NEW pkt, NEW need, NEW at,
           StreamTypes(q, size, more, sent, got, pkt, need), Len(q) < Depth,
           StreamOf(q, size, more, sent, got, at, pkt, need),
           NEW p \in Nat, NEW n \in Nat \ {0}, NEW k \in 1 .. n,
           \/ more = 0 /\ p = sent + 1 /\ k = 1
           \/ more > 0 /\ p = sent /\ k = (size - more) + 1 /\ n = size,
           NEW r, r = Append(q, Slot(p, k, n))
    PROVE  StreamOf(r, n, n - k, p, got, at, pkt, need)
  <1> DEFINE s == Slot(p, k, n)
  <1>1. /\ q \in Seq(Slots) /\ size \in Nat /\ more \in Nat /\ sent \in Nat /\ got \in Nat /\ more <= size
        /\ need \in Nat /\ pkt \in Nat /\ Len(q) <= Depth /\ Chain(q) /\ Back(q, size, more, sent)
    BY DEF StreamOf, StreamTypes
  <1>2. s \in Slots /\ s.p = p /\ s.k = k /\ s.n = n
    BY DEF Slots, Slot
  <1> HIDE DEF s
  <1>3. /\ r \in Seq(Slots) /\ Len(r) = Len(q) + 1 /\ r # << >> /\ r[Len(r)] = s
        /\ q # << >> => r[1] = q[1] /\ q[Len(q)] \in Slots /\ Len(q) \in DOMAIN q
        /\ q = << >> => r[1] = s
        /\ Len(q) \in Nat
    <2>1. r = Append(q, s) /\ q \in Seq(Slots) /\ s \in Slots
      BY <1>1, <1>2, Zenon DEF s
    <2> QED BY <2>1, Put1, Zenon
  <1>4. Len(r) <= Depth
    BY <1>3, Constants
  <1>5. ASSUME q # << >> PROVE Follows(q[Len(q)], s)
    <2>1. q[Len(q)] = Slot(sent, size - more, size)
      BY <1>1, <1>5, Zenon DEF Back
    <2>2. PICK l : l = q[Len(q)] /\ l.p = sent /\ l.k = size - more /\ l.n = size
      <3>1. Slot(sent, size - more, size).p = sent /\ Slot(sent, size - more, size).k = size - more
            /\ Slot(sent, size - more, size).n = size
        BY DEF Slot
      <3> QED BY <2>1, <3>1, Zenon
    <2>3. CASE more = 0 /\ p = sent + 1 /\ k = 1
      <3>1. size - more = size
        BY <1>1, <2>3
      <3> QED BY <1>2, <2>2, <2>3, <3>1, Zenon DEF Follows
    <2>4. CASE more > 0 /\ p = sent /\ k = (size - more) + 1 /\ n = size
      <3>1. size - more < size
        BY <1>1, <2>4
      <3>2. s = Slot(l.p, l.k + 1, l.n)
        BY <2>2, <2>4, Zenon DEF s
      <3> QED BY <2>2, <3>1, <3>2, Zenon DEF Follows
    <2> QED BY <2>3, <2>4, Zenon
  <1>6. Chain(r)
    <2>1. r = Append(q, s) /\ s.k \in 1 .. s.n
      BY <1>2, Zenon DEF s
    <2> QED BY <1>1, <1>2, <1>3, <1>5, <2>1, ChainAppend, Zenon
  <1>7. Back(r, n, n - k, p)
    <2>1. n - (n - k) = k
      OBVIOUS
    <2> QED BY <1>3, <2>1, Zenon DEF Back, s
  <1>8. ASSUME at \in Resting PROVE FrontInside(r, n, n - k, p, got, pkt, need)
    <2>1. FrontInside(q, size, more, sent, got, pkt, need)
      BY <1>8, Zenon DEF StreamOf
    <2>2. CASE q # << >>
      BY <1>3, <2>1, <2>2, Zenon DEF FrontInside
    <2>3. CASE q = << >>
      <3>1. more = need /\ sent = pkt /\ size = need + 1 /\ need > 0
        BY <2>1, <2>3, Zenon DEF FrontInside
      <3>2. p = pkt /\ k = 2 /\ n = need + 1
        BY <1>1, <3>1
      <3>3. r[1] = Slot(pkt, 2, need + 1)
        BY <1>3, <2>3, <3>2, Zenon DEF s
      <3> QED BY <1>3, <2>1, <3>3, Zenon DEF FrontInside
    <2> QED BY <2>2, <2>3, Zenon
  <1>9. ASSUME at \notin Resting PROVE FrontBetween(r, n - k, p, got)
    <2>1. FrontBetween(q, more, sent, got)
      BY <1>9, Zenon DEF StreamOf
    <2>2. CASE q # << >>
      BY <1>3, <2>1, <2>2, Zenon DEF FrontBetween
    <2>3. CASE q = << >>
      <3>1. more = 0 /\ sent = got
        BY <2>1, <2>3, Zenon DEF FrontBetween
      <3>2. p = got + 1 /\ k = 1
        BY <3>1
      <3>3. r[1].p = got + 1 /\ r[1].k = 1
        BY <1>2, <1>3, <2>3, <3>2, Zenon
      <3> QED BY <1>3, <3>3, Zenon DEF FrontBetween
    <2> QED BY <2>2, <2>3, Zenon
  <1>10. at = "body" => Len(r) >= need
    <2>1. at = "body" => Len(q) >= need
      BY Zenon DEF StreamOf
    <2>2. Len(q) >= need => Len(q) + 1 >= need
      BY <1>1, <1>3
    <2> QED BY <1>3, <2>1, <2>2, Zenon
  <1> QED BY <1>4, <1>6, <1>7, <1>8, <1>9, <1>10, Zenon DEF StreamOf

-----------------------------------------------------------------------------
(* The invariant of a link that is intact.                                 *)

Unread == Len(tgt.fifo) - (IF rx.pc = "body" THEN rx.need ELSE 0)
PacketsSent == Packets - budget.packets

RxLine == /\ Unread \in 0 .. Depth
          /\ Line(rxTail, rxHead, status.rx, tgt.head, Unread)
          /\ rx.pc = "first" => RxSlots > 0
TxLine == /\ TxDepth - Len(tgt.in) \in 0 .. TxDepth
          /\ Line(txTail, txHead, status.tx, tgt.free, TxDepth - Len(tgt.in))
Calm == /\ \A t \in Threads : upd[t] # "tail"
        /\ txq \in Seq({"frame"}) /\ tgt.in \in Seq({"frame"})
Stream == StreamOf(tgt.fifo, tgt.size, tgt.more, PacketsSent, Len(fetched), rx.pc, rx.pkt, rx.need)
InOrder == \A i \in DOMAIN fetched : fetched[i] = i

Sound == RxLine /\ TxLine /\ Calm /\ Stream /\ InOrder
LinkInv == LinkTypes /\ (Intact => Sound)

\* No gap the host computes is one that resets the link.
LEMMA Gaps ==
    ASSUME LinkTypes, RxLine, TxLine
    PROVE  /\ Unread \in Counter /\ Unread <= Depth /\ NumSlots(tgt.head, rxTail) = Unread
           /\ RxSlots \in 0 .. Unread /\ NumSlots(status.rx, rxTail) \in RxSlots .. Unread
           /\ ~ (RxSlots > Depth) /\ ~ (RxSlots > Depth + 1)
           /\ TxDepth - Len(tgt.in) \in Counter
           /\ NumSlots(tgt.free, txTail) = TxDepth - Len(tgt.in)
           /\ TxSlots \in 0 .. TxDepth - Len(tgt.in)
           /\ NumSlots(status.tx, txTail) \in TxSlots .. TxDepth - Len(tgt.in)
           /\ ~ (NumSlots(status.tx, txTail) > TxDepth)
  <1>1. Unread \in 0 .. Depth /\ Line(rxTail, rxHead, status.rx, tgt.head, Unread)
        /\ TxDepth - Len(tgt.in) \in 0 .. TxDepth
        /\ Line(txTail, txHead, status.tx, tgt.free, TxDepth - Len(tgt.in))
        /\ rxTail \in Counter /\ txTail \in Counter
    BY Zenon DEF RxLine, TxLine, LinkTypes
  <1> DEFINE u == Unread
             v == TxDepth - Len(tgt.in)
             a == NumSlots(status.rx, rxTail)
             b == NumSlots(status.tx, txTail)
  <1> HIDE DEF u, v, a, b
  <1>2. u \in 0 .. Depth /\ v \in 0 .. TxDepth
    BY <1>1, Zenon DEF u, v
  <1>3. u \in Counter /\ u <= Depth /\ v \in Counter
    BY <1>2, Constants DEF Counter
  <1>4. /\ NumSlots(tgt.head, rxTail) = u /\ RxSlots \in 0 .. u /\ a \in RxSlots .. u
        /\ NumSlots(tgt.free, txTail) = v /\ TxSlots \in 0 .. v /\ b \in TxSlots .. v
    BY <1>1, <1>3, LineGaps, Zenon DEF RxSlots, TxSlots, u, v, a, b
  <1>5. ~ (RxSlots > Depth) /\ ~ (RxSlots > Depth + 1) /\ ~ (b > TxDepth)
    <2> DEFINE x == RxSlots
               y == TxSlots
    <2> HIDE DEF x, y
    <2>1. x \in 0 .. u /\ y \in 0 .. v /\ b \in y .. v
      BY <1>4, Zenon DEF x, y
    <2>2. ~ (x > Depth) /\ ~ (x > Depth + 1) /\ ~ (b > TxDepth)
      BY <1>2, <2>1, Constants
    <2> QED BY <2>2, Zenon DEF x
  <1> QED BY <1>3, <1>4, <1>5, Zenon DEF u, v, a, b

-----------------------------------------------------------------------------
(* Every step of an intact link keeps it sound.                            *)

\* Nothing the counters stand for has changed.
LEMMA LinesQuiet ==
    ASSUME RxLine, TxLine, UNCHANGED <<host, status>>,
           tgt'.fifo = tgt.fifo, tgt'.head = tgt.head, tgt'.in = tgt.in, tgt'.free = tgt.free,
           \/ rx' = rx
           \/ rx.pc # "body" /\ rx'.pc # "body" /\ (rx'.pc = "first" => RxSlots > 0)
    PROVE  RxLine' /\ TxLine'
  <1>1. rxTail' = rxTail /\ rxHead' = rxHead /\ txTail' = txTail /\ txHead' = txHead /\ status' = status
    BY Zenon DEF host
  <1>2. Unread' = Unread
    BY Zenon DEF Unread
  <1>3. RxSlots' = RxSlots
    BY <1>1, Zenon DEF RxSlots
  <1>4. rx'.pc = "first" => RxSlots > 0
    BY Zenon DEF RxLine
  <1> QED BY <1>1, <1>2, <1>3, <1>4, Zenon DEF RxLine, TxLine

LEMMA StreamNow ==
    Stream' <=> StreamOf(tgt'.fifo, tgt'.size, tgt'.more, PacketsSent', Len(fetched'), rx'.pc, rx'.pkt, rx'.need)
  BY DEF Stream, StreamOf, Chain, Within, Across, Back, FrontInside, FrontBetween

\* Nothing the stream stands for has changed.
LEMMA StreamQuiet ==
    ASSUME Stream, InOrder, tgt'.fifo = tgt.fifo, tgt'.size = tgt.size, tgt'.more = tgt.more,
           fetched' = fetched, budget'.packets = budget.packets,
           rx' = rx \/ (rx.pc \notin Resting /\ rx'.pc \notin Resting)
    PROVE  Stream' /\ InOrder'
  <1>1. PacketsSent' = PacketsSent
    BY Zenon DEF PacketsSent
  <1>2. InOrder'
    BY Zenon DEF InOrder
  <1>3. CASE rx' = rx
    BY <1>1, <1>2, <1>3, StreamNow, Zenon DEF Stream
  <1>4. CASE rx.pc \notin Resting /\ rx'.pc \notin Resting
    <2>1. rx'.pc # "body"
      BY <1>4, Zenon DEF Resting
    <2>2. StreamOf(tgt.fifo, tgt.size, tgt.more, PacketsSent, Len(fetched), rx'.pc, rx'.pkt, rx'.need)
      BY <1>4, <2>1, Zenon DEF Stream, StreamOf
    <2> QED BY <1>1, <1>2, <2>2, StreamNow, Zenon
  <1> QED BY <1>2, <1>3, <1>4, Zenon

\* A step that leaves the target, the counters and the packets alone.
LEMMA SoundQuiet ==
    ASSUME Sound, UNCHANGED <<host, status, tgt, fetched>>, budget'.packets = budget.packets,
           \/ rx' = rx
           \/ rx.pc \notin Resting /\ rx'.pc \notin Resting /\ (rx'.pc = "first" => RxSlots > 0),
           Calm'
    PROVE  Sound'
  <1>1. rx.pc \notin Resting /\ rx'.pc \notin Resting => rx.pc # "body" /\ rx'.pc # "body"
    BY Zenon DEF Resting
  <1>2. RxLine' /\ TxLine'
    BY <1>1, LinesQuiet, Zenon DEF Sound
  <1>3. Stream' /\ InOrder'
    BY StreamQuiet, Zenon DEF Sound
  <1> QED BY <1>2, <1>3, Zenon DEF Sound

LEMMA CalmUpd ==
    ASSUME LinkTypes, Calm, NEW t \in Threads, NEW u, u # "tail", upd' = [upd EXCEPT ![t] = u],
           txq' \in Seq({"frame"}), tgt'.in \in Seq({"frame"})
    PROVE  Calm'
  <1>1. \A s \in Threads : upd'[s] # "tail"
    BY DEF Calm, LinkTypes
  <1> QED BY <1>1, Zenon DEF Calm

\* What a step that changes some fields of the target leaves of the others.
LEMMA TgtFields ==
    ASSUME LinkTypes
    PROVE  /\ \A f : LET g == [tgt EXCEPT !.fifo = f] IN
                g.fifo = f /\ g.size = tgt.size /\ g.more = tgt.more /\ g.head = tgt.head
                /\ g.in = tgt.in /\ g.free = tgt.free
           /\ \A b : LET g == [tgt EXCEPT !.news = b] IN
                g.fifo = tgt.fifo /\ g.size = tgt.size /\ g.more = tgt.more /\ g.head = tgt.head
                /\ g.in = tgt.in /\ g.free = tgt.free
           /\ \A i : LET g == [tgt EXCEPT !.in = i] IN
                g.fifo = tgt.fifo /\ g.size = tgt.size /\ g.more = tgt.more /\ g.head = tgt.head
                /\ g.in = i /\ g.free = tgt.free
           /\ \A i, h, b : LET g == [tgt EXCEPT !.in = i, !.free = h, !.news = b] IN
                g.fifo = tgt.fifo /\ g.size = tgt.size /\ g.more = tgt.more /\ g.head = tgt.head
                /\ g.in = i /\ g.free = h
  BY DEF LinkTypes, TargetType

LEMMA UpdateSound ==
    ASSUME LinkTypes, Sound, Intact', NEW t \in Threads, Update(t)
    PROVE  Sound'
  <1> DEFINE room == TxDepth - Len(tgt.in)
  <1>0. /\ Unread \in Counter /\ room \in Counter /\ rxTail \in Counter /\ txTail \in Counter
        /\ RxLine /\ TxLine /\ Calm /\ Stream /\ InOrder
        /\ txq \in Seq({"frame"}) /\ tgt.in \in Seq({"frame"})
    BY Gaps, Zenon DEF Sound, LinkTypes, Calm
  <1>01. Line(rxTail, rxHead, status.rx, tgt.head, Unread) /\ Line(txTail, txHead, status.tx, tgt.free, room)
    BY <1>0, Zenon DEF RxLine, TxLine
  <1>02. /\ Line(rxTail, rxHead, tgt.head, tgt.head, Unread) /\ Line(txTail, txHead, tgt.free, tgt.free, room)
         /\ Line(rxTail, status.rx, status.rx, tgt.head, Unread) /\ Line(txTail, status.tx, status.tx, tgt.free, room)
    <2> HIDE DEF room
    <2> QED BY <1>0, <1>01, LineSeen, Zenon
  <1>1. CASE StatusRead(t)
    <2>1. status'.rx = tgt.head /\ status'.tx = tgt.free /\ tgt' = [tgt EXCEPT !.news = FALSE]
      BY <1>1 DEF StatusRead
    <2>2. /\ tgt'.fifo = tgt.fifo /\ tgt'.size = tgt.size /\ tgt'.more = tgt.more /\ tgt'.head = tgt.head
          /\ tgt'.in = tgt.in /\ tgt'.free = tgt.free
      BY <2>1, TgtFields
    <2>3. /\ rxTail' = rxTail /\ rxHead' = rxHead /\ txTail' = txTail /\ txHead' = txHead /\ rx' = rx
          /\ txq' = txq /\ fetched' = fetched /\ budget' = budget /\ upd' = [upd EXCEPT ![t] = "use"]
      BY <1>1, Zenon DEF StatusRead, host
    <2>4. Unread' = Unread /\ RxSlots' = RxSlots
      BY <2>2, <2>3, Zenon DEF Unread, RxSlots
    <2>5. RxLine' /\ TxLine'
      BY <1>0, <1>02, <2>1, <2>2, <2>3, <2>4, Zenon DEF RxLine, TxLine
    <2>6. Calm'
      BY <1>0, <2>2, <2>3, CalmUpd, Zenon
    <2>7. Stream' /\ InOrder'
      BY <1>0, <2>2, <2>3, StreamQuiet, Zenon
    <2> QED BY <2>5, <2>6, <2>7, Zenon DEF Sound
  <1>2. CASE StatusGarbled(t)
    <2>1. budget'.intact = (budget.intact /\ FALSE)
      BY <1>2, FaultTypes, Zenon DEF StatusGarbled
    <2> QED BY <2>1, Zenon DEF Intact
  <1>3. CASE StatusUse(t)
    <2>1. /\ rxHead' = status.rx /\ txHead' = status.tx /\ UNCHANGED <<txq, budget>>
          /\ upd' = [upd EXCEPT ![t] = "check"]
          /\ UNCHANGED <<rxTail, txTail, status, rx, wrk, eirq, fetched, tgt>>
      BY <1>0, <1>3, Gaps, Zenon DEF StatusUse
    <2>2. Unread' = Unread
      BY <2>1, Zenon DEF Unread
    <2>3. rx'.pc = "first" => RxSlots' > 0
      <3> DEFINE a == RxSlots
                 b == NumSlots(status.rx, rxTail)
      <3>1. RxSlots' = b /\ b \in a .. Unread /\ a \in 0 .. Unread
        BY <1>0, <2>1, Gaps, Zenon DEF RxSlots
      <3>2. rx.pc = "first" => a > 0
        BY <1>0, Zenon DEF RxLine
      <3>3. ASSUME NEW x, NEW y, x \in 0 .. Unread, y \in x .. Unread, x > 0 PROVE y > 0
        BY <3>3, <1>0 DEF Counter
      <3> HIDE DEF a, b
      <3> QED BY <2>1, <3>1, <3>2, <3>3, Zenon
    <2>4. RxLine' /\ TxLine'
      BY <1>0, <1>02, <2>1, <2>2, <2>3, Zenon DEF RxLine, TxLine
    <2>5. Calm'
      BY <1>0, <2>1, CalmUpd, Zenon
    <2>6. Stream' /\ InOrder'
      BY <1>0, <2>1, StreamQuiet, Zenon
    <2> QED BY <2>4, <2>5, <2>6, Zenon DEF Sound
  <1>4. CASE ResetTxTail(t)
    BY <1>0, <1>4, Zenon DEF ResetTxTail, Calm
  <1>5. CASE StatusCheck(t)
    <2>1. /\ \E u \in {"mask", "none"} : upd' = [upd EXCEPT ![t] = u]
          /\ UNCHANGED <<rxHead, rxTail, txq, eirq, budget>>
          /\ UNCHANGED <<txHead, txTail, status, rx, wrk, fetched, tgt>>
      BY <1>0, <1>5, Gaps, Zenon DEF StatusCheck
    <2>2. PICK u \in {"mask", "none"} : upd' = [upd EXCEPT ![t] = u]
      BY <2>1, Zenon
    <2>3. u # "tail"
      BY <2>2
    <2>4. Calm'
      BY <1>0, <2>1, <2>2, <2>3, CalmUpd, Zenon
    <2> QED BY <2>1, <2>4, SoundQuiet, Zenon DEF host
  <1>6. CASE StatusMask(t)
    <2>1. upd' = [upd EXCEPT ![t] = "none"]
          /\ UNCHANGED <<host, status, rx, wrk, txq, fetched, tgt, budget>>
      BY <1>6, Zenon DEF StatusMask
    <2>2. Calm'
      BY <1>0, <2>1, CalmUpd, Zenon
    <2> QED BY <2>1, <2>2, SoundQuiet, Zenon
  <1> QED BY <1>1, <1>2, <1>3, <1>4, <1>5, <1>6, Zenon DEF Update

LEMMA CalmKept ==
    ASSUME Calm, UNCHANGED upd, txq' \in Seq({"frame"}), tgt'.in \in Seq({"frame"})
    PROVE  Calm'
  BY Zenon DEF Calm

\* The host has read m slots that it has seen; the rest are in the queue.
LEMMA RxTaken ==
    ASSUME LinkTypes, RxLine, TxLine, NEW m \in Nat, m <= RxSlots, rxTail' = (rxTail + m) % Mod,
           UNCHANGED <<rxHead, txHead, txTail, status>>,
           tgt'.head = tgt.head, tgt'.in = tgt.in, tgt'.free = tgt.free,
           Unread' = Unread - m, rx'.pc # "first"
    PROVE  RxLine' /\ TxLine'
  <1>1. /\ rxTail \in Counter /\ Unread \in Counter /\ m <= NumSlots(rxHead, rxTail)
        /\ Line(rxTail, rxHead, status.rx, tgt.head, Unread)
    BY Gaps, Zenon DEF LinkTypes, RxLine, RxSlots
  <1>2. Line((rxTail + m) % Mod, rxHead, status.rx, tgt.head, Unread - m)
    BY <1>1, LineTaken, Zenon
  <1>3. Unread - m \in 0 .. Depth
    <2> DEFINE u == Unread
               a == RxSlots
    <2>1. a \in 0 .. u /\ m <= a /\ u \in 0 .. Depth
      BY Gaps, Zenon DEF RxLine
    <2> HIDE DEF u, a
    <2>2. u - m \in 0 .. Depth
      BY <2>1, Constants
    <2> QED BY <2>2, Zenon DEF u
  <1>4. Line(rxTail', rxHead', status'.rx, tgt'.head, Unread')
    BY <1>2, Zenon
  <1>5. RxLine'
    BY <1>3, <1>4, Zenon DEF RxLine
  <1>6. TxLine'
    BY Zenon DEF TxLine
  <1> QED BY <1>5, <1>6

LEMMA StreamTyped ==
    ASSUME LinkTypes
    PROVE  StreamTypes(tgt.fifo, tgt.size, tgt.more, PacketsSent, Len(fetched), rx.pkt, rx.need)
  <1>1. /\ tgt.fifo \in Seq(Slots) /\ tgt.size \in Nat /\ tgt.more \in Nat /\ tgt.more <= tgt.size
        /\ rx.pkt \in Nat /\ rx.need \in Nat
    BY DEF LinkTypes, TargetType
  <1>2. Len(fetched) \in Nat
    BY DEF LinkTypes
  <1>3. PacketsSent \in Nat
    BY SentMany, Zenon DEF PacketsSent
  <1> QED BY <1>1, <1>2, <1>3, Zenon DEF StreamTypes

LEMMA RxFirstSound ==
    ASSUME LinkTypes, Sound, RxFirst
    PROVE  Sound'
  <1> DEFINE q == tgt.fifo
             n == q[1].n
  <1>1. /\ RxLine /\ TxLine /\ Calm /\ Stream /\ InOrder /\ rx.pc = "first" /\ rxTail \in Counter
        /\ txq \in Seq({"frame"}) /\ tgt.in \in Seq({"frame"})
    BY Zenon DEF Sound, LinkTypes, Calm, RxFirst, RxAt
  <1>2. RxSlots > 0 /\ Unread = Len(q) /\ q \in Seq(Slots)
    <2>1. q \in Seq(Slots)
      BY DEF LinkTypes, TargetType
    <2>2. RxSlots > 0
      BY <1>1, Zenon DEF RxLine
    <2>3. Unread = Len(q) - 0
      BY <1>1, Zenon DEF Unread
    <2>4. Len(q) - 0 = Len(q)
      BY <2>1
    <2> QED BY <2>1, <2>2, <2>3, <2>4, Zenon
  <1>3. RxSlots \in 0 .. Len(q) /\ 1 <= RxSlots /\ q # << >>
    <2> DEFINE a == RxSlots
    <2>1. a \in 0 .. Len(q) /\ a > 0
      BY <1>1, <1>2, Gaps, Zenon
    <2> HIDE DEF a
    <2>2. 1 <= a /\ Len(q) # 0
      BY <1>2, <2>1
    <2>3. q # << >>
      <3> HIDE DEF q
      <3> QED BY <2>2
    <2> QED BY <2>1, <2>2, <2>3, Zenon DEF a
  <1>4. StreamTypes(q, tgt.size, tgt.more, PacketsSent, Len(fetched), rx.pkt, rx.need)
    BY StreamTyped, Zenon
  <1>5. StreamOf(q, tgt.size, tgt.more, PacketsSent, Len(fetched), "first", rx.pkt, rx.need)
    BY <1>1, Zenon DEF Stream
  <1>6. RearOf(Tail(q), q, 1)
    <2> HIDE DEF q
    <2>1. 0 \in 0 .. Len(q)
      BY <1>2
    <2> QED BY <1>2, <1>3, <2>1, Rears, Zenon
  <1>7. /\ q[1].k = 1 /\ q[1].p = Len(fetched) + 1 /\ q[1] \in Slots
        /\ n = 1 => StreamOf(Tail(q), tgt.size, tgt.more, PacketsSent, Len(fetched) + 1, "top", 0, 0)
        /\ n # 1 => StreamOf(Tail(q), tgt.size, tgt.more, PacketsSent, Len(fetched), "rest", q[1].p, n - 1)
    <2> HIDE DEF q
    <2> QED BY <1>3, <1>4, <1>5, <1>6, StreamFirst, Zenon
  <1>8. /\ tgt' = [tgt EXCEPT !.fifo = Tail(q)]
        /\ rxTail' = (rxTail + 1) % Mod
        /\ UNCHANGED <<rxHead, txq, eirq, budget, txHead, txTail, status, wrk>>
        /\ IF n - 1 = 0
             THEN rx' = Top /\ Receive(q[1].p) /\ UNCHANGED upd
             ELSE /\ rx' = [pc |-> "rest", pkt |-> q[1].p, need |-> n - 1]
                  /\ upd' = [upd EXCEPT !["rx"] =
                       IF NumSlots(rxHead, rxTail + 1) < n - 1 THEN "read" ELSE "none"]
                  /\ UNCHANGED fetched
    BY <1>3, <1>7, Zenon DEF RxFirst
  <1>9. /\ tgt'.fifo = Tail(q) /\ tgt'.size = tgt.size /\ tgt'.more = tgt.more /\ tgt'.head = tgt.head
        /\ tgt'.in = tgt.in /\ tgt'.free = tgt.free
    BY <1>8, TgtFields
  <1>10. /\ rx'.pc # "body" /\ rx'.pc # "first"
         /\ n = 1 => rx'.pc = "top" /\ rx'.pkt = 0 /\ rx'.need = 0
         /\ n # 1 => rx'.pc = "rest" /\ rx'.pkt = q[1].p /\ rx'.need = n - 1
    <2>1. n \in Nat
      <3> HIDE DEF q
      <3> QED BY <1>7 DEF Slots
    <2>2. n - 1 = 0 <=> n = 1
      <3> HIDE DEF n
      <3> QED BY <2>1
    <2>3. CASE n = 1
      <3>1. rx' = [pc |-> "top", pkt |-> 0, need |-> 0]
        BY <1>8, <2>2, <2>3, Zenon DEF Top
      <3> QED BY <2>3, <3>1
    <2>4. CASE n # 1
      <3>1. rx' = [pc |-> "rest", pkt |-> q[1].p, need |-> n - 1]
        BY <1>8, <2>2, <2>4, Zenon
      <3> QED BY <2>4, <3>1
    <2> QED BY <2>3, <2>4
  <1>11. RxLine' /\ TxLine'
    <2>1. Unread' = Unread - 1
      <3>1. Unread' = Len(Tail(q)) - 0
        BY <1>9, <1>10, Zenon DEF Unread
      <3>2. Len(Tail(q)) - 0 = Len(q) - 1
        <4> HIDE DEF q
        <4> QED BY <1>2, <1>3
      <3> QED BY <1>2, <3>1, <3>2, Zenon
    <2> QED BY <1>1, <1>3, <1>8, <1>9, <1>10, <2>1, RxTaken, Zenon
  <1>12. PacketsSent' = PacketsSent
    BY <1>8, Zenon DEF PacketsSent
  <1>13. CASE n = 1
    <2>1. fetched' = Append(fetched, Len(fetched) + 1) /\ UNCHANGED upd
      BY <1>7, <1>8, <1>13 DEF Receive
    <2>2. fetched \in Seq(Nat)
      BY DEF LinkTypes
    <2>3. Len(fetched') = Len(fetched) + 1 /\ \A i \in DOMAIN fetched' : i \in DOMAIN fetched \/ i = Len(fetched) + 1
      BY <2>1, <2>2
    <2>4. InOrder'
      <3> SUFFICES ASSUME NEW i \in DOMAIN fetched' PROVE fetched'[i] = i
        BY Zenon DEF InOrder
      <3>1. fetched'[Len(fetched) + 1] = Len(fetched) + 1 /\ \A j \in DOMAIN fetched : fetched'[j] = fetched[j]
        BY <2>1, <2>2
      <3> QED BY <1>1, <2>3, <3>1, Zenon DEF InOrder
    <2>5. Stream'
      BY <1>7, <1>9, <1>10, <1>12, <1>13, <2>3, StreamNow, Zenon
    <2>6. Calm'
      BY <1>1, <1>8, <1>9, <2>1, CalmKept, Zenon
    <2> QED BY <1>11, <2>4, <2>5, <2>6, Zenon DEF Sound
  <1>14. CASE n # 1
    <2>1. n \in Nat /\ n - 1 # 0
      <3>1. n \in Nat
        <4> HIDE DEF q
        <4> QED BY <1>7 DEF Slots
      <3> HIDE DEF n
      <3> QED BY <1>14, <3>1
    <2>2. fetched' = fetched /\ \E u \in {"read", "none"} : upd' = [upd EXCEPT !["rx"] = u]
      BY <1>8, <2>1, Zenon
    <2>3. PICK u \in {"read", "none"} : upd' = [upd EXCEPT !["rx"] = u]
      BY <2>2, Zenon
    <2>4. u # "tail" /\ "rx" \in Threads
      BY <2>3 DEF Threads
    <2>5. Calm'
      BY <1>1, <1>8, <1>9, <2>3, <2>4, CalmUpd, Zenon
    <2>6. InOrder'
      BY <1>1, <2>2, Zenon DEF InOrder
    <2>7. Stream'
      BY <1>7, <1>9, <1>10, <1>12, <1>14, <2>2, StreamNow, Zenon
    <2> QED BY <1>11, <2>5, <2>6, <2>7, Zenon DEF Sound
  <1> QED BY <1>13, <1>14

LEMMA RxRestSound ==
    ASSUME LinkTypes, Sound, RxRest
    PROVE  Sound'
  <1>1. /\ RxLine /\ TxLine /\ Calm /\ Stream /\ InOrder /\ rx.pc = "rest" /\ RxSlots >= rx.need
        /\ rxTail' = (rxTail + rx.need) % Mod /\ rx' = [rx EXCEPT !.pc = "body"]
        /\ UNCHANGED <<rxHead, txHead, txTail, status, upd, wrk, txq, eirq, fetched, tgt, budget>>
    BY Zenon DEF Sound, RxRest, RxAt
  <1>2. /\ rx'.pc = "body" /\ rx'.pkt = rx.pkt /\ rx'.need = rx.need /\ rx.need \in Nat /\ rx'.pc # "first"
        /\ tgt.fifo \in Seq(Slots) /\ txq \in Seq({"frame"}) /\ tgt.in \in Seq({"frame"})
    BY <1>1 DEF LinkTypes, TargetType, Calm
  <1> DEFINE l == Len(tgt.fifo)
             a == RxSlots
             d == rx.need
  <1>3. Unread = l - 0 /\ Unread' = l - d /\ a \in 0 .. Unread /\ a >= d /\ l \in Nat /\ d \in Nat
    <2>1. Unread = l - 0 /\ Unread' = l - d
      BY <1>1, <1>2, Zenon DEF Unread
    <2>2. l \in Nat
      BY <1>2
    <2>3. a \in 0 .. Unread
      BY <1>1, Gaps, Zenon
    <2> QED BY <1>1, <1>2, <2>1, <2>2, <2>3, Zenon
  <1> HIDE DEF l, a, d
  <1>4. Unread' = Unread - d /\ d <= a /\ l >= d
    BY <1>3
  <1>5. RxLine' /\ TxLine'
    BY <1>1, <1>2, <1>4, RxTaken, Zenon DEF a, d
  <1>6. StreamOf(tgt.fifo, tgt.size, tgt.more, PacketsSent, Len(fetched), "body", rx.pkt, rx.need)
    <2>1. "rest" \in Resting /\ "body" \in Resting
      BY Zenon DEF Resting
    <2> QED BY <1>1, <1>4, <2>1, Zenon DEF Stream, StreamOf, l, d
  <1>7. Stream'
    <2>1. PacketsSent' = PacketsSent
      BY <1>1, Zenon DEF PacketsSent
    <2> QED BY <1>1, <1>2, <1>6, <2>1, StreamNow, Zenon
  <1>8. Calm' /\ InOrder'
    BY <1>1, <1>2, CalmKept, Zenon DEF InOrder
  <1> QED BY <1>5, <1>7, <1>8, Zenon DEF Sound

LEMMA RxBodySound ==
    ASSUME LinkTypes, Sound, RxBody
    PROVE  Sound'
  <1> DEFINE q == tgt.fifo
             need == rx.need
             r == SubSeq(q, need + 1, Len(q))
  <1>1. /\ RxLine /\ TxLine /\ Calm /\ Stream /\ InOrder /\ rx.pc = "body"
        /\ txq \in Seq({"frame"}) /\ tgt.in \in Seq({"frame"})
    BY Zenon DEF Sound, Calm, RxBody, RxAt
  <1>2. q \in Seq(Slots) /\ need \in Nat /\ fetched \in Seq(Nat)
    BY DEF LinkTypes, TargetType
  <1>3. StreamTypes(q, tgt.size, tgt.more, PacketsSent, Len(fetched), rx.pkt, need)
    BY StreamTyped, Zenon
  <1>4. StreamOf(q, tgt.size, tgt.more, PacketsSent, Len(fetched), "body", rx.pkt, need)
    BY <1>1, Zenon DEF Stream
  <1>5. need \in 0 .. Len(q)
    <2>1. Len(q) >= need
      BY <1>4, Zenon DEF StreamOf
    <2> HIDE DEF q, need
    <2> QED BY <1>2, <2>1
  <1>6. RearOf(r, q, need)
    <2> HIDE DEF q, need
    <2> QED BY <1>2, <1>5, Rears, Zenon
  <1>7. /\ rx.pkt = Len(fetched) + 1 /\ Len(q) >= need /\ \A i \in 1 .. need : q[i].p = rx.pkt
        /\ Len(r) = Len(q) - need
        /\ StreamOf(r, tgt.size, tgt.more, PacketsSent, Len(fetched) + 1, "top", 0, 0)
    <2> HIDE DEF q, need, r
    <2>1. /\ rx.pkt = Len(fetched) + 1 /\ Len(q) >= need
          /\ StreamOf(r, tgt.size, tgt.more, PacketsSent, Len(fetched) + 1, "top", 0, 0)
      BY <1>3, <1>4, <1>6, StreamBody
    <2>2. \A i \in 1 .. need : q[i].p = rx.pkt
      BY <1>3, <1>4, <1>6, StreamBody
    <2>3. Len(r) = Len(q) - need
      BY <1>6, Zenon DEF RearOf
    <2> QED BY <2>1, <2>2, <2>3, Zenon
  <1>8. /\ fetched' = Append(fetched, Len(fetched) + 1) /\ rx' = Top
        /\ tgt' = [tgt EXCEPT !.fifo = r]
        /\ UNCHANGED <<rxHead, rxTail, txq, eirq, budget, txHead, txTail, status, upd, wrk>>
    <2>1. AllOfIt
      BY <1>7, Zenon DEF AllOfIt
    <2>2. ~ (RxSlots > Depth)
      BY <1>1, Gaps, Zenon
    <2>3. tgt' = [tgt EXCEPT !.fifo = SubSeq(@, rx.need + 1, Len(@))]
      BY <2>2, Zenon DEF RxBody
    <2> QED BY <1>7, <2>1, <2>2, <2>3, Zenon DEF RxBody, Receive
  <1>9. /\ tgt'.fifo = r /\ tgt'.size = tgt.size /\ tgt'.more = tgt.more /\ tgt'.head = tgt.head
        /\ tgt'.in = tgt.in /\ tgt'.free = tgt.free
    <2> HIDE DEF r
    <2> QED BY <1>8, TgtFields
  <1>10. rx'.pc = "top" /\ rx'.pkt = 0 /\ rx'.need = 0 /\ rx'.pc # "body" /\ rx'.pc # "first"
    <2>1. rx' = [pc |-> "top", pkt |-> 0, need |-> 0]
      BY <1>8, Zenon DEF Top
    <2> QED BY <2>1
  <1>11. Len(fetched') = Len(fetched) + 1
    BY <1>2, <1>8
  <1>12. PacketsSent' = PacketsSent
    BY <1>8, Zenon DEF PacketsSent
  <1>13. RxLine' /\ TxLine'
    <2>1. Unread = Len(q) - need /\ Unread' = Len(r) - 0 /\ (Len(q) - need) - 0 = Len(q) - need
      <3>1. Unread = Len(q) - need /\ Unread' = Len(r) - 0
        BY <1>1, <1>9, <1>10, Zenon DEF Unread
      <3>2. (Len(q) - need) - 0 = Len(q) - need
        <4> HIDE DEF q, need
        <4> QED BY <1>2
      <3> QED BY <3>1, <3>2
    <2>2. Unread' = Unread
      BY <1>7, <2>1, Zenon
    <2> QED BY <1>1, <1>8, <1>9, <1>10, <2>2, Zenon DEF RxLine, TxLine
  <1>14. Stream'
    BY <1>7, <1>9, <1>10, <1>11, <1>12, StreamNow, Zenon
  <1>15. InOrder'
    <2> SUFFICES ASSUME NEW i \in DOMAIN fetched' PROVE fetched'[i] = i
      BY Zenon DEF InOrder
    <2>1. i \in DOMAIN fetched \/ i = Len(fetched) + 1
      BY <1>2, <1>8
    <2>2. fetched'[Len(fetched) + 1] = Len(fetched) + 1 /\ \A j \in DOMAIN fetched : fetched'[j] = fetched[j]
      BY <1>2, <1>8
    <2> QED BY <1>1, <2>1, <2>2, Zenon DEF InOrder
  <1>16. Calm'
    BY <1>1, <1>8, <1>9, CalmKept, Zenon
  <1> QED BY <1>13, <1>14, <1>15, <1>16, Zenon DEF Sound

LEMMA RxSound ==
    ASSUME LinkTypes, Sound, Intact', RxThread
    PROVE  Sound'
  <1>1. /\ RxLine /\ TxLine /\ Calm /\ Stream /\ InOrder
        /\ txq \in Seq({"frame"}) /\ tgt.in \in Seq({"frame"})
    BY Zenon DEF Sound, Calm
  <1>2. \A at \in {"top", "arm", "wait", "first"} : at \notin Resting
    BY Zenon DEF Resting
  <1>3. rx \in [pc : {"top", "arm", "wait", "first", "rest", "body"}, pkt : Nat, need : Nat]
    BY Zenon DEF LinkTypes
  <1>4. CASE RxTop
    <2>1. /\ rx.pc = "top" /\ rx' = [rx EXCEPT !.pc = "arm"] /\ upd' = [upd EXCEPT !["rx"] = "read"]
          /\ UNCHANGED <<host, status, tgt, fetched, budget, txq>>
      BY <1>4, Zenon DEF RxTop, RxAt
    <2>2. rx'.pc = "arm" /\ "rx" \in Threads /\ "read" # "tail" /\ rx'.pc # "first"
      BY <1>3, <2>1 DEF Threads
    <2>3. Calm'
      BY <1>1, <2>1, <2>2, CalmUpd, Zenon
    <2> QED BY <1>2, <2>1, <2>2, <2>3, SoundQuiet, Zenon
  <1>5. CASE RxArm
    <2>1. /\ rx.pc \in {"top", "arm"} /\ rx' = [rx EXCEPT !.pc = "wait"]
          /\ UNCHANGED <<host, status, upd, tgt, fetched, budget, txq>>
      BY <1>5, Zenon DEF RxArm, RxAt
    <2>2. rx'.pc = "wait" /\ rx'.pc # "first" /\ rx.pc \in {"top", "arm", "wait", "first"}
      BY <1>3, <2>1
    <2>3. Calm'
      BY <1>1, <2>1, CalmKept, Zenon
    <2> QED BY <1>2, <2>1, <2>2, <2>3, SoundQuiet, Zenon
  <1>6. CASE RxWait
    <2>1. /\ rx.pc = "wait" /\ rx' = [rx EXCEPT !.pc = "first"] /\ RxSlots > 0
          /\ UNCHANGED <<host, status, upd, tgt, fetched, budget, txq>>
      BY <1>6, Zenon DEF RxWait, RxAt
    <2>2. rx'.pc = "first"
      BY <1>3, <2>1
    <2>3. Calm'
      BY <1>1, <2>1, CalmKept, Zenon
    <2> QED BY <1>2, <2>1, <2>2, <2>3, SoundQuiet, Zenon
  <1>7. CASE RxGarbage
    BY <1>1, <1>7, Gaps, Zenon DEF RxGarbage
  <1>8. CASE RxFirst
    BY <1>8, RxFirstSound, Zenon
  <1>9. CASE RxFirstFails
    <2>1. /\ rx.pc = "first" /\ rx' = Top /\ Fault(TRUE)
          /\ UNCHANGED <<host, status, upd, tgt, fetched, txq>>
      BY <1>9, Zenon DEF RxFirstFails, RxAt
    <2>2. rx'.pc = "top" /\ rx'.pc # "first"
      BY <2>1 DEF Top
    <2>3. budget'.packets = budget.packets
      BY <2>1, FaultTypes, Zenon
    <2>4. Calm'
      BY <1>1, <2>1, CalmKept, Zenon
    <2> QED BY <1>2, <2>1, <2>2, <2>3, <2>4, SoundQuiet, Zenon
  <1>10. CASE RxRest
    BY <1>10, RxRestSound, Zenon
  <1>11. CASE RxRestTimeout \/ RxBodyFails
    <2>1. Fault(FALSE)
      BY <1>11, Zenon DEF RxRestTimeout, RxBodyFails
    <2>2. budget'.intact = (budget.intact /\ FALSE)
      BY <2>1, FaultTypes, Zenon
    <2> QED BY <2>2, Zenon DEF Intact
  <1>12. CASE RxBody
    BY <1>12, RxBodySound, Zenon
  <1> QED BY <1>4, <1>5, <1>6, <1>7, <1>8, <1>9, <1>10, <1>11, <1>12, Zenon DEF RxThread

\* A slot is emptied or filled on the far side of one of the queues.
LEMMA OneFurther ==
    ASSUME LinkTypes, NEW t \in Counter, NEW h, NEW s, NEW g \in Counter, NEW n \in Nat,
           n < Depth \/ n < TxDepth, Line(t, h, s, g, n)
    PROVE  Line(t, h, s, (g + 1) % Mod, n + 1)
  <1>1. n + 1 < Mod
    <2>1. Depth \in 0 .. Mod - 1 /\ TxDepth \in 0 .. Mod - 1 /\ Mod \in Nat
      BY Constants, Round, Zenon DEF Counter
    <2>2. n \in Nat /\ (n < Depth \/ n < TxDepth)
      OBVIOUS
    <2> QED BY <2>1, <2>2
  <1> QED BY <1>1, LineGrows, Zenon

LEMMA WorkerSound ==
    ASSUME LinkTypes, Sound, Worker
    PROVE  Sound'
  <1>1. /\ RxLine /\ TxLine /\ Calm /\ Stream /\ InOrder
        /\ txq \in Seq({"frame"}) /\ tgt.in \in Seq({"frame"})
    BY Zenon DEF Sound, Calm
  <1>2. CASE Xmit
    <2>1. /\ txq # << >> /\ TxSlots >= 1 /\ txTail' = (txTail + 1) % Mod
          /\ tgt' = [tgt EXCEPT !.in = Append(tgt.in, Head(txq))] /\ txq' = Tail(txq)
          /\ UNCHANGED <<rxHead, rxTail, txHead, status, upd, rx, fetched, budget>>
      BY <1>2 DEF Xmit, WorkerAt
    <2>2. /\ tgt'.fifo = tgt.fifo /\ tgt'.size = tgt.size /\ tgt'.more = tgt.more /\ tgt'.head = tgt.head
          /\ tgt'.in = Append(tgt.in, Head(txq)) /\ tgt'.free = tgt.free
      BY <2>1, TgtFields
    <2>3. /\ Append(tgt.in, Head(txq)) \in Seq({"frame"}) /\ Tail(txq) \in Seq({"frame"})
          /\ Len(Append(tgt.in, Head(txq))) = Len(tgt.in) + 1 /\ Len(tgt.in) \in Nat
      BY <1>1, <2>1
    <2> DEFINE v == TxDepth - Len(tgt.in)
               a == TxSlots
    <2>4. a \in 0 .. v /\ a >= 1 /\ v \in Counter /\ v \in 0 .. TxDepth /\ txTail \in Counter
          /\ Line(txTail, txHead, status.tx, tgt.free, v)
      BY <1>1, <2>1, Gaps, Zenon DEF TxLine, LinkTypes
    <2>5. 1 <= a /\ v - 1 = TxDepth - (Len(tgt.in) + 1) /\ v - 1 \in 0 .. TxDepth /\ 1 \in Nat
      <3>1. v - 1 = TxDepth - (Len(tgt.in) + 1)
        BY <2>3, Constants
      <3> HIDE DEF v, a
      <3> QED BY <2>4, <3>1, Constants
    <2>6. Line((txTail + 1) % Mod, txHead, status.tx, tgt.free, v - 1)
      <3>1. 1 <= NumSlots(txHead, txTail)
        BY <2>5, Zenon DEF TxSlots
      <3> HIDE DEF v
      <3> QED BY <2>4, <2>5, <3>1, LineTaken, Zenon
    <2>7. TxLine'
      <3>1. TxDepth - Len(tgt'.in) = v - 1
        BY <2>2, <2>3, <2>5, Zenon
      <3> HIDE DEF v
      <3> QED BY <2>1, <2>2, <2>5, <2>6, <3>1, Zenon DEF TxLine
    <2>8. RxLine'
      <3>1. Unread' = Unread /\ RxSlots' = RxSlots
        BY <2>1, <2>2, Zenon DEF Unread, RxSlots
      <3> QED BY <1>1, <2>1, <2>2, <3>1, Zenon DEF RxLine
    <2>9. Stream' /\ InOrder'
      BY <1>1, <2>1, <2>2, StreamQuiet, Zenon
    <2>10. Calm'
      BY <1>1, <2>1, <2>2, <2>3, CalmKept, Zenon
    <2> QED BY <2>7, <2>8, <2>9, <2>10, Zenon DEF Sound
  <1>3. CASE XmitRefresh
    <2>1. /\ upd' = [upd EXCEPT !["worker"] = "read"] /\ "worker" \in Threads /\ "read" # "tail"
          /\ UNCHANGED <<host, status, rx, txq, fetched, tgt, budget>>
      BY <1>3 DEF XmitRefresh, Threads
    <2>2. Calm'
      BY <1>1, <2>1, CalmUpd, Zenon
    <2> QED BY <2>1, <2>2, SoundQuiet, Zenon
  <1>4. CASE XmitArm
    <2>1. UNCHANGED <<host, status, upd, rx, txq, fetched, tgt, budget>>
      BY <1>4, Zenon DEF XmitArm
    <2>2. Calm'
      BY <1>1, <2>1, CalmKept, Zenon
    <2> QED BY <2>1, <2>2, SoundQuiet, Zenon
  <1>5. CASE XmitTimeout
    <2>1. /\ UNCHANGED <<host, status, upd, rx, fetched, tgt, budget>>
          /\ txq # << >> /\ txq' = Tail(txq)
      BY <1>5, Zenon DEF XmitTimeout, WorkerAt
    <2>2. txq' \in Seq({"frame"})
      BY <1>1, <2>1
    <2>3. Calm'
      BY <1>1, <2>1, <2>2, CalmKept, Zenon
    <2> QED BY <2>1, <2>3, SoundQuiet, Zenon
  <1> QED BY <1>2, <1>3, <1>4, <1>5, Zenon DEF Worker

\* A slot is put at the back of the queue: it continues the packet that is
\* not whole yet, or starts the next one.
LEMMA PutSound ==
    ASSUME LinkTypes, Sound, UNCHANGED <<host, status, upd, rx, txq, fetched>>, Len(tgt.fifo) < Depth,
           NEW p \in Nat, NEW n \in Nat \ {0}, NEW k \in 1 .. n, Put(p, k, n), PacketsSent' = p,
           \/ tgt.more = 0 /\ p = PacketsSent + 1 /\ k = 1
           \/ tgt.more > 0 /\ p = PacketsSent /\ k = (tgt.size - tgt.more) + 1 /\ n = tgt.size
    PROVE  Sound'
  <1>1. /\ RxLine /\ TxLine /\ Calm /\ Stream /\ InOrder
        /\ txq \in Seq({"frame"}) /\ tgt.in \in Seq({"frame"})
    BY Zenon DEF Sound, Calm
  <1>2. /\ tgt'.fifo = Append(tgt.fifo, Slot(p, k, n)) /\ tgt'.head = (tgt.head + 1) % Mod
        /\ tgt'.size = n /\ tgt'.more = n - k /\ tgt'.in = tgt.in /\ tgt'.free = tgt.free
        /\ Slot(p, k, n) \in Slots
    BY PutTypes, Zenon
  <1>3. rxTail \in Counter /\ rxTail' = rxTail /\ rxHead' = rxHead /\ txTail' = txTail /\ txHead' = txHead
    BY Zenon DEF LinkTypes, host
  <1>4. tgt.fifo \in Seq(Slots) /\ tgt.head \in Counter /\ rx.need \in Nat
    BY DEF LinkTypes, TargetType
  <1> DEFINE l == Len(tgt.fifo)
             d == IF rx.pc = "body" THEN rx.need ELSE 0
             u == Unread
  <1>5. u = l - d /\ Unread' = Len(Append(tgt.fifo, Slot(p, k, n))) - d /\ u \in 0 .. Depth
    BY <1>1, <1>2, Zenon DEF Unread, RxLine
  <1>6. l \in Nat /\ l < Depth /\ d \in Nat /\ Len(Append(tgt.fifo, Slot(p, k, n))) = l + 1
    BY <1>2, <1>4
  <1> HIDE DEF l, d, u
  <1>7. Unread' = u + 1 /\ u \in Nat /\ u < Depth /\ u + 1 \in 0 .. Depth
    BY <1>5, <1>6, Constants
  <1>8. Line(rxTail, rxHead, status.rx, (tgt.head + 1) % Mod, u + 1)
    <2>1. Line(rxTail, rxHead, status.rx, tgt.head, u)
      BY <1>1, Zenon DEF RxLine, u
    <2> QED BY <1>3, <1>4, <1>7, <2>1, OneFurther, Zenon
  <1>9. RxLine'
    <2>1. RxSlots' = RxSlots
      BY <1>3, Zenon DEF RxSlots
    <2> QED BY <1>1, <1>2, <1>3, <1>7, <1>8, <2>1, Zenon DEF RxLine
  <1>10. TxLine'
    BY <1>1, <1>2, <1>3, Zenon DEF TxLine
  <1>11. StreamOf(tgt'.fifo, n, n - k, p, Len(fetched), rx.pc, rx.pkt, rx.need)
    <2>1. StreamTypes(tgt.fifo, tgt.size, tgt.more, PacketsSent, Len(fetched), rx.pkt, rx.need)
      BY StreamTyped, Zenon
    <2>2. StreamOf(tgt.fifo, tgt.size, tgt.more, PacketsSent, Len(fetched), rx.pc, rx.pkt, rx.need)
      BY <1>1, Zenon DEF Stream
    <2>3. tgt'.fifo = Append(tgt.fifo, Slot(p, k, n))
      BY <1>2, Zenon
    <2> QED BY <2>1, <2>2, <2>3, StreamPut, ZenonT(30)
  <1>12. Stream'
    BY <1>2, <1>11, StreamNow, Zenon
  <1>13. Calm' /\ InOrder'
    BY <1>1, <1>2, CalmKept, Zenon DEF InOrder
  <1> QED BY <1>9, <1>10, <1>12, <1>13, Zenon DEF Sound

LEMMA TargetSound ==
    ASSUME LinkTypes, Sound, Target
    PROVE  Sound'
  <1>1. CASE TgtFirst
    <2>1. PICK n \in Sizes : /\ Put((Packets - budget.packets) + 1, 1, n)
                             /\ (Packets - budget.packets) + 1 \in Nat /\ n \in Nat \ {0} /\ 1 \in 1 .. n
      BY <1>1, FirstPut, Zenon
    <2>2. /\ UNCHANGED <<host, status, upd, rx, txq, fetched>> /\ Len(tgt.fifo) < Depth /\ tgt.more = 0
          /\ budget' = [budget EXCEPT !.packets = budget.packets - 1] /\ budget.packets > 0
      BY <1>1 DEF TgtFirst
    <2>3. PacketsSent' = PacketsSent + 1
      <3>1. budget'.packets = budget.packets - 1 /\ budget.packets \in Nat
        BY <2>2, Constants DEF LinkTypes, BudgetType
      <3>2. Packets - (budget.packets - 1) = (Packets - budget.packets) + 1
        BY <3>1, Constants
      <3> QED BY <3>1, <3>2, Zenon DEF PacketsSent
    <2> QED BY <2>1, <2>2, <2>3, PutSound, Zenon DEF PacketsSent
  <1>2. CASE TgtNext
    <2>1. /\ Put(PacketsSent, (tgt.size - tgt.more) + 1, tgt.size) /\ PacketsSent \in Nat /\ tgt.size \in Nat \ {0}
          /\ (tgt.size - tgt.more) + 1 \in 1 .. tgt.size
      BY <1>2, NextPut, Zenon DEF PacketsSent
    <2>2. /\ UNCHANGED <<host, status, upd, rx, txq, fetched, budget>> /\ Len(tgt.fifo) < Depth /\ tgt.more > 0
      BY <1>2, Zenon DEF TgtNext
    <2>3. PacketsSent' = PacketsSent
      BY <2>2, Zenon DEF PacketsSent
    <2> QED BY <2>1, <2>2, <2>3, PutSound, Zenon
  <1>3. CASE TgtTake
    <2>1. /\ RxLine /\ TxLine /\ Calm /\ Stream /\ InOrder
          /\ txq \in Seq({"frame"}) /\ tgt.in \in Seq({"frame"}) /\ tgt.in # << >>
          /\ UNCHANGED <<host, status, upd, rx, txq, fetched, budget>>
      BY <1>3, Zenon DEF Sound, Calm, TgtTake
    <2>2. Head(tgt.in) = "frame" /\ Tail(tgt.in) \in Seq({"frame"}) /\ Len(tgt.in) \in Nat \ {0}
          /\ Len(Tail(tgt.in)) = Len(tgt.in) - 1
      BY <2>1
    <2>3. tgt' = [tgt EXCEPT !.in = Tail(tgt.in), !.free = (tgt.free + 1) % Mod, !.news = TRUE]
      BY <1>3, <2>2, Zenon DEF TgtTake
    <2>4. /\ tgt'.fifo = tgt.fifo /\ tgt'.size = tgt.size /\ tgt'.more = tgt.more /\ tgt'.head = tgt.head
          /\ tgt'.in = Tail(tgt.in) /\ tgt'.free = (tgt.free + 1) % Mod
      <3> DEFINE f == (tgt.free + 1) % Mod
      <3>1. tgt' = [tgt EXCEPT !.in = Tail(tgt.in), !.free = f, !.news = TRUE]
        BY <2>3, Zenon
      <3> HIDE DEF f
      <3>2. /\ tgt'.fifo = tgt.fifo /\ tgt'.size = tgt.size /\ tgt'.more = tgt.more /\ tgt'.head = tgt.head
            /\ tgt'.in = Tail(tgt.in) /\ tgt'.free = f
        BY <3>1, TgtFields
      <3> QED BY <3>2, Zenon DEF f
    <2> DEFINE v == TxDepth - Len(tgt.in)
    <2>5. v \in 0 .. TxDepth /\ txTail \in Counter /\ tgt.free \in Counter
          /\ Line(txTail, txHead, status.tx, tgt.free, v)
      <3>1. tgt.free \in Counter
        BY DEF LinkTypes, TargetType
      <3> QED BY <2>1, <3>1, Zenon DEF TxLine, LinkTypes
    <2>6. v < TxDepth /\ v + 1 = TxDepth - (Len(tgt.in) - 1) /\ v + 1 \in 0 .. TxDepth /\ v \in Nat
      <3>1. v < TxDepth /\ v + 1 = TxDepth - (Len(tgt.in) - 1)
        BY <2>2, Constants
      <3>2. v \in 0 .. TxDepth /\ TxDepth \in Nat
        BY <2>5, Constants, Zenon
      <3> HIDE DEF v
      <3>3. v + 1 \in 0 .. TxDepth /\ v \in Nat
        BY <3>1, <3>2
      <3> QED BY <3>1, <3>3
    <2>7. Line(txTail, txHead, status.tx, (tgt.free + 1) % Mod, v + 1)
      <3> HIDE DEF v
      <3> QED BY <2>5, <2>6, OneFurther, Zenon
    <2>8. TxLine'
      <3>1. TxDepth - Len(tgt'.in) = v + 1
        BY <2>2, <2>4, <2>6, Zenon
      <3> HIDE DEF v
      <3>2. txTail' = txTail /\ txHead' = txHead /\ status' = status
        BY <2>1, Zenon DEF host
      <3> QED BY <2>4, <2>6, <2>7, <3>1, <3>2, Zenon DEF TxLine
    <2>9. RxLine'
      <3>1. rxTail' = rxTail /\ rxHead' = rxHead /\ status' = status /\ rx' = rx
        BY <2>1, Zenon DEF host
      <3>2. Unread' = Unread /\ RxSlots' = RxSlots
        BY <2>4, <3>1, Zenon DEF Unread, RxSlots
      <3> QED BY <2>1, <2>4, <3>1, <3>2, Zenon DEF RxLine
    <2>10. Stream' /\ InOrder'
      BY <2>1, <2>4, StreamQuiet, Zenon
    <2>11. Calm'
      BY <2>1, <2>2, <2>4, CalmKept, Zenon
    <2> QED BY <2>8, <2>9, <2>10, <2>11, Zenon DEF Sound
  <1> QED BY <1>1, <1>2, <1>3, Zenon DEF Target

LEMMA InitSound == LinkInit => Sound
  <1> SUFFICES ASSUME LinkInit PROVE Sound
    OBVIOUS
  <1>1. PICK h \in Starts :
            /\ rxHead = h /\ rxTail = h
            /\ txHead = (h + TxDepth) % Mod /\ txTail = h
            /\ status = [rx |-> h, tx |-> (h + TxDepth) % Mod]
            /\ tgt = [fifo |-> << >>, size |-> 0, more |-> 0, head |-> h, in |-> << >>,
                      free |-> (h + TxDepth) % Mod, news |-> FALSE]
    BY Zenon DEF LinkInit
  <1>2. h \in Counter /\ TxDepth \in Counter
    BY Constants
  <1>3. PICK f \in Counter : f = (h + TxDepth) % Mod /\ Further(h, f, TxDepth)
    BY <1>2, Moved, Zenon
  <1>4. /\ status = [rx |-> h, tx |-> f] /\ txHead = f
        /\ tgt = [fifo |-> << >>, size |-> 0, more |-> 0, head |-> h, in |-> << >>, free |-> f, news |-> FALSE]
    BY <1>1, <1>3, Zenon
  <1>5. /\ status.rx = h /\ status.tx = f /\ tgt.fifo = << >> /\ tgt.more = 0 /\ tgt.head = h
        /\ tgt.in = << >> /\ tgt.free = f
    BY <1>4
  <1>6. /\ rx.pc = "top" /\ fetched = << >> /\ budget.packets = Packets
        /\ upd = [t \in Threads |-> "none"] /\ txq = [i \in 1 .. Frames |-> "frame"]
    BY DEF LinkInit
  <1>7. RxLine
    <2>1. Further(h, h, 0) /\ 0 \in Nat /\ 0 \in 0 .. 0 /\ 0 \in 0 .. Depth
      BY <1>2, Round, Constants DEF Further, Counter
    <2>2. Line(h, h, h, h, 0)
      BY <2>1, LineOf, Zenon
    <2>3. Unread = 0 - 0 /\ 0 - 0 = 0
      BY <1>5, <1>6 DEF Unread
    <2> QED BY <1>1, <1>5, <1>6, <2>1, <2>2, <2>3, Zenon DEF RxLine
  <1>8. TxLine
    <2>1. TxDepth \in Nat /\ TxDepth \in 0 .. TxDepth /\ TxDepth \in TxDepth .. TxDepth /\ TxDepth - 0 = TxDepth
      BY Constants
    <2>2. Line(h, f, f, f, TxDepth)
      BY <1>3, <2>1, LineOf, Zenon
    <2>3. Len(tgt.in) = 0
      BY <1>5
    <2>4. TxDepth - Len(tgt.in) = TxDepth
      BY <2>1, <2>3, Zenon
    <2> QED BY <1>1, <1>4, <1>5, <2>1, <2>2, <2>4, Zenon DEF TxLine
  <1>9. Calm
    <2>1. txq \in Seq({"frame"})
      BY <1>6, Constants
    <2>2. tgt.in \in Seq({"frame"})
      BY <1>5
    <2>3. \A t \in Threads : upd[t] # "tail"
      BY <1>6
    <2> QED BY <2>1, <2>2, <2>3, Zenon DEF Calm
  <1>10. Stream
    <2>1. Len(tgt.fifo) <= Depth /\ DOMAIN tgt.fifo = {} /\ Len(fetched) = 0
      BY <1>5, <1>6, Constants
    <2>2. Chain(tgt.fifo)
      BY <2>1, Zenon DEF Chain, Within, Across
    <2>3. PacketsSent = 0
      BY <1>6, Constants DEF PacketsSent
    <2>4. rx.pc \notin Resting /\ rx.pc # "body"
      BY <1>6 DEF Resting
    <2>5. FrontBetween(tgt.fifo, tgt.more, PacketsSent, Len(fetched)) /\ Back(tgt.fifo, tgt.size, tgt.more, PacketsSent)
      BY <1>5, <2>1, <2>3, Zenon DEF FrontBetween, Back
    <2> QED BY <2>1, <2>2, <2>4, <2>5, Zenon DEF Stream, StreamOf
  <1>11. InOrder
    BY <1>6 DEF InOrder
  <1> QED BY <1>7, <1>8, <1>9, <1>10, <1>11, Zenon DEF Sound

\* Once the link is not intact, it stays so.
LEMMA IntactBefore ==
    ASSUME LinkTypes, [LinkNext]_linkVars, Intact'
    PROVE  Intact
  <1>1. budget \in BudgetType
    BY Zenon DEF LinkTypes
  <1>2. ASSUME NEW wim \in Wim, Reset(wim) PROVE budget'.intact = budget.intact
    BY <1>2, ResetTypes, Zenon
  <1>3. ASSUME NEW harmless \in BOOLEAN, Fault(harmless) PROVE budget'.intact = (budget.intact /\ harmless)
    BY <1>3, FaultTypes, Zenon
  <1>4. ASSUME ResetRx PROVE budget'.intact = budget.intact
    BY <1>4, ResetRxTypes, Zenon
  <1>5. CASE budget' = budget
    BY <1>5, Zenon DEF Intact
  <1>6. ASSUME NEW t \in Threads, Update(t) PROVE Intact
    <2>1. "reset_hif_rx" \in Wim
      BY Zenon DEF Wim
    <2>2. budget' = budget \/ Fault(FALSE) \/ Reset("reset_hif_rx") \/ ResetRx
      BY <1>6, Zenon DEF Update, StatusRead, StatusGarbled, StatusUse, ResetTxTail, StatusCheck, StatusMask
    <2> QED BY <1>2, <1>3, <1>4, <1>5, <2>1, <2>2, Zenon DEF Intact
  <1>7. CASE RxThread
    <2>1. \/ budget' = budget \/ Fault(FALSE) \/ Fault(TRUE) \/ ResetRx
      BY <1>7, Zenon DEF RxThread, RxTop, RxArm, RxWait, RxGarbage, RxFirst, RxFirstFails, RxRest, RxRestTimeout,
         RxBody, RxBodyFails
    <2> QED BY <1>3, <1>4, <1>5, <2>1, Zenon DEF Intact
  <1>8. CASE Irq \/ Worker \/ TgtNext \/ TgtTake \/ UNCHANGED linkVars
    <2>1. budget' = budget
      BY <1>8, Zenon DEF Irq, Worker, Xmit, XmitRefresh, XmitArm, XmitTimeout, TgtNext, TgtTake, linkVars
    <2> QED BY <1>5, <2>1
  <1>9. CASE TgtFirst
    <2>1. budget' = [budget EXCEPT !.packets = budget.packets - 1]
      BY <1>9 DEF TgtFirst
    <2>2. budget'.intact = budget.intact
      BY <1>1, <2>1 DEF BudgetType
    <2> QED BY <2>2, Zenon DEF Intact
  <1> QED BY <1>6, <1>7, <1>8, <1>9, Zenon DEF LinkNext, Target

LEMMA LinkStep == LinkInv /\ [LinkNext]_linkVars => LinkInv'
  <1> SUFFICES ASSUME LinkInv, [LinkNext]_linkVars PROVE LinkInv'
    OBVIOUS
  <1>1. LinkTypes
    BY Zenon DEF LinkInv
  <1>2. LinkTypes'
    BY <1>1, TypesStep, Zenon
  <1>3. ASSUME Intact' PROVE Sound'
    <2>1. Intact
      BY <1>1, <1>3, IntactBefore, Zenon
    <2>2. Sound
      BY <2>1, Zenon DEF LinkInv
    <2>3. CASE UNCHANGED linkVars
      <3>1. UNCHANGED <<host, status, tgt, fetched, rx, upd, txq, budget>>
        BY <2>3, Zenon DEF linkVars
      <3>2. txq' \in Seq({"frame"}) /\ tgt'.in \in Seq({"frame"}) /\ Calm
        BY <2>2, <3>1, Zenon DEF Sound, Calm
      <3>3. Calm'
        BY <3>1, <3>2, CalmKept, Zenon
      <3> QED BY <2>2, <3>1, <3>3, SoundQuiet, Zenon
    <2>4. CASE Irq
      <3>1. /\ upd' = [upd EXCEPT !["irq"] = "read"] /\ "irq" \in Threads /\ "read" # "tail"
            /\ UNCHANGED <<host, status, rx, txq, fetched, tgt, budget>>
        BY <2>4 DEF Irq, Threads
      <3>2. txq' \in Seq({"frame"}) /\ tgt'.in \in Seq({"frame"}) /\ Calm
        BY <2>2, <3>1, Zenon DEF Sound, Calm
      <3>3. Calm'
        BY <1>1, <3>1, <3>2, CalmUpd, Zenon
      <3> QED BY <2>2, <3>1, <3>3, SoundQuiet, Zenon
    <2> QED BY <1>1, <1>3, <2>2, <2>3, <2>4, UpdateSound, RxSound, WorkerSound, TargetSound, Zenon DEF LinkNext
  <1> QED BY <1>2, <1>3, Zenon DEF LinkInv

\* The inductive invariant: the types, and the soundness of a link that no
\* fault has hit.
THEOREM SpecLinkInv == LinkSpec => []LinkInv
  <1>1. LinkInit => LinkInv
    BY InitTypes, InitSound, Zenon DEF LinkInv
  <1> QED BY <1>1, LinkStep, PTL DEF LinkSpec

\* Neither side of the link ever miscounts, whatever the size of the counters
\* and of the queues, as long as no transfer has lost a packet or garbled the
\* registers.
THEOREM SpecCounted == LinkSpec => []Counted
  <1>1. LinkInv => Counted
    <2> SUFFICES ASSUME LinkInv, Intact PROVE Counted
      BY Zenon DEF Counted
    <2>1. LinkTypes /\ RxLine /\ TxLine
      BY Zenon DEF LinkInv, Sound
    <2>2. NumSlots(tgt.head, rxTail) = Unread /\ NumSlots(tgt.free, txTail) = TxDepth - Len(tgt.in)
      BY <2>1, Gaps, Zenon
    <2> QED BY <2>2, Zenon DEF Counted, Unread
  <1> QED BY <1>1, SpecLinkInv, PTL

\* Every packet the target sends is fetched once, whole and in order.
THEOREM SpecWhole == LinkSpec => []Whole
  <1>1. LinkInv => Whole
    BY Zenon DEF LinkInv, Sound, Whole, InOrder
  <1> QED BY <1>1, SpecLinkInv, PTL

-----------------------------------------------------------------------------
(* WimRequest.                                                             *)


(* The numbers in use are at most made, so a new request gets a fresh one;  *)
(* the numbers of outstanding requests differ; while the RX thread is about *)
(* to complete a command its completion is at zero.                         *)
Numbered ==
  /\ \A r \in outstanding : r.id <= made
  /\ \A r, s \in outstanding : r.id = s.id => r = s
  /\ \A i \in returned \cup freed : i <= made
  /\ \A k \in Cmd : resp[k] # NoResp => resp[k] <= made
  /\ \A c \in Caller : req[c].id <= made
  /\ rxDone # Free => done[rxDone] = 0

Inv == TypeOK /\ OneOwner /\ Numbered

(* The numbers in use, whatever owns them.                                  *)
InUse == returned \cup freed \cup Stored \cup Ids(outstanding)

LEMMA InUseMade == Inv => \A i \in InUse : i \in Nat /\ i <= made
<1> SUFFICES ASSUME Inv, NEW i \in InUse PROVE i \in Nat /\ i <= made
  OBVIOUS
<1> USE WimAssumption
<1>1. CASE i \in returned \cup freed
  BY <1>1 DEF Inv, Numbered, TypeOK
<1>2. CASE i \in Stored
  BY <1>2 DEF Inv, Numbered, TypeOK, Stored
<1>3. CASE i \in Ids(outstanding)
  BY <1>3 DEF Inv, Numbered, TypeOK, Ids, Request
<1> QED
  BY <1>1, <1>2, <1>3 DEF InUse

LEMMA InitInv == Init => Inv
<1> SUFFICES ASSUME Init PROVE Inv
  OBVIOUS
<1> USE WimAssumption
<1>0. (CHOOSE k \in Cmd : TRUE) \in Cmd
  OBVIOUS
<1>1. TypeOK
  <2>1. req \in [Caller -> [id : 0 .. MaxReq, cmd : Cmd]]
    BY <1>0 DEF Init
  <2> QED
    BY <2>1 DEF Init, TypeOK
<1>2. Stored = {}
  BY DEF Init, Stored
<1>3. OneOwner
  BY <1>2 DEF Init, OneOwner, Ids
<1>4. Numbered
  BY DEF Init, Numbered
<1> QED
  BY <1>1, <1>3, <1>4 DEF Inv

(* A caller that only moves on disturbs nothing but the types.              *)
LEMMA OwnersKept ==
  ASSUME Inv, TypeOK', UNCHANGED <<resp, rxDone, outstanding, returned, freed, made>>,
         \A c \in Caller : req'[c].id <= made,
         rxDone # Free => done'[rxDone] = 0
  PROVE  Inv'
<1>1. Stored' = Stored /\ Ids(outstanding)' = Ids(outstanding)
  BY DEF Stored, Ids
<1>2. OneOwner'
  BY <1>1 DEF Inv, OneOwner
<1>3. Numbered'
  BY DEF Inv, TypeOK, Request, Numbered
<1> QED
  BY <1>2, <1>3 DEF Inv

LEMMA ReqSendInv ==
  ASSUME Inv, NEW c \in Caller, NEW k \in Uses[c], ReqSend(c, k)
  PROVE  Inv'
<1> USE WimAssumption
<1> DEFINE r == [id |-> made + 1, cmd |-> k]
<1>0. k \in Cmd /\ r \in Request /\ made + 1 \in 1 .. MaxReq /\ made' = made + 1
  <2>1. made' = made + 1 /\ made < MaxReq
    BY DEF ReqSend
  <2> QED
    BY <2>1 DEF Inv, TypeOK, Request
<1>1. outstanding' \subseteq outstanding \cup {r}
  BY DEF ReqSend, Sent, Refused
<1>2. \/ resp' = resp /\ freed' = freed
      \/ /\ resp' = [resp EXCEPT ![k] = NoResp]
         /\ freed' = freed \cup ({resp[k]} \ {NoResp})
  BY DEF ReqSend
<1>3. UNCHANGED <<done, rxDone, returned>> /\ req' = [req EXCEPT ![c] = r]
  BY DEF ReqSend
<1>4. TypeOK'
  <2>1. resp' \in [Cmd -> (1 .. MaxReq) \cup {NoResp}] /\ freed' \subseteq 1 .. MaxReq
    BY <1>0, <1>2 DEF Inv, TypeOK, Request
  <2>2. outstanding' \subseteq Request
    BY <1>0, <1>1 DEF Inv, TypeOK, Request
  <2>3. req' \in [Caller -> [id : 0 .. MaxReq, cmd : Cmd]]
    BY <1>0, <1>3 DEF Inv, TypeOK, Request
  <2>4. quiet' \in [Caller -> BOOLEAN]
    <3>1. Quiet(k) \in BOOLEAN
      BY DEF Quiet
    <3> QED
      BY <3>1 DEF Inv, TypeOK, Request, ReqSend
  <2>5. /\ pc' \in [Caller -> {"idle", "arm", "wait", "take", "dead"}]
        /\ answer' \in [Caller -> (1 .. MaxReq) \cup {NoResp}]
        /\ mtx' \in Caller \cup {Free}
        /\ late' \in 0 .. MaxLate /\ lost' \in 0 .. MaxLost
    BY DEF Inv, TypeOK, Request, ReqSend, Sent, Refused, Lose
  <2> QED
    BY <2>1, <2>2, <2>3, <2>4, <2>5, <1>0, <1>3 DEF Inv, TypeOK, Request
<1>5. \A i \in InUse : i \in Nat /\ i <= made
  BY InUseMade
<1>6. Stored' \subseteq Stored /\ freed' \subseteq freed \cup (Stored \ Stored')
  <2>1. CASE resp' = resp /\ freed' = freed
    BY <2>1 DEF Stored
  <2>2. CASE /\ resp' = [resp EXCEPT ![k] = NoResp]
             /\ freed' = freed \cup ({resp[k]} \ {NoResp})
    <3>1. \A l \in Cmd : resp'[l] = IF l = k THEN NoResp ELSE resp[l]
      BY <2>2, <1>0 DEF Inv, TypeOK, Request
    <3>2. Stored' \subseteq Stored
      BY <3>1 DEF Stored
    <3>3. resp[k] # NoResp => resp[k] \in Stored /\ resp[k] \notin Stored'
      BY <3>1, <1>0 DEF Inv, OneOwner, Stored
    <3> QED
      BY <2>2, <3>2, <3>3
  <2> QED
    BY <1>2, <2>1, <2>2
<1>7. OneOwner'
  <2>1. \A i \in Ids(outstanding)' : i \in Ids(outstanding) \/ i = made + 1
    BY <1>1 DEF Ids
  <2>2. \A i, j \in Cmd : resp'[i] = resp'[j] => i = j \/ resp'[i] = NoResp
    <3>1. \A l \in Cmd : resp'[l] = resp[l] \/ (l = k /\ resp'[l] = NoResp)
      BY <1>2, <1>0 DEF Inv, TypeOK
    <3> QED
      BY <3>1 DEF Inv, OneOwner
  <2>3. /\ returned' \cap freed' = {} /\ returned' \cap Stored' = {}
        /\ freed' \cap Stored' = {}
    BY <1>3, <1>6 DEF Inv, OneOwner
  <2>4. Ids(outstanding)' \cap (returned' \cup freed' \cup Stored') = {}
    <3>1. returned' \cup freed' \cup Stored' \subseteq returned \cup freed \cup Stored
      BY <1>3, <1>6
    <3>2. made + 1 \notin returned \cup freed \cup Stored
      BY <1>0, <1>5 DEF Inv, TypeOK, InUse
    <3> QED
      BY <2>1, <3>1, <3>2 DEF Inv, OneOwner
  <2> QED
    BY <2>2, <2>3, <2>4 DEF OneOwner
<1>8. Numbered'
  <2>1. \A q \in outstanding' : q.id <= made'
    BY <1>0, <1>1 DEF Inv, TypeOK, Request, Numbered
  <2>2. \A q, s \in outstanding' : q.id = s.id => q = s
    <3>1. \A q \in outstanding : q.id # made + 1
      BY <1>0 DEF Inv, TypeOK, Request, Numbered
    <3> QED
      BY <1>1, <3>1 DEF Inv, TypeOK, Request, Numbered
  <2>3. \A i \in returned' \cup freed' : i <= made'
    BY <1>0, <1>3, <1>5, <1>6 DEF Inv, TypeOK, Request, InUse
  <2>4. \A l \in Cmd : resp'[l] # NoResp => resp'[l] <= made'
    <3>1. \A l \in Cmd : resp'[l] = resp[l] \/ resp'[l] = NoResp
      BY <1>2, <1>0 DEF Inv, TypeOK, Request
    <3> QED
      BY <3>1, <1>0 DEF Inv, TypeOK, Request, Numbered
  <2>5. \A d \in Caller : req'[d].id <= made'
    BY <1>0, <1>3 DEF Inv, TypeOK, Request, Numbered
  <2> QED
    BY <2>1, <2>2, <2>3, <2>4, <2>5, <1>3 DEF Inv, TypeOK, Request, Numbered
<1> QED
  BY <1>4, <1>7, <1>8 DEF Inv

LEMMA ReqArmInv ==
  ASSUME Inv, NEW c \in Caller, ReqArm(c)
  PROVE  Inv'
<1>1. TypeOK'
  BY WimAssumption DEF Inv, TypeOK, Request, ReqArm, Rearm, bounds
<1>2. rxDone # Free => done'[rxDone] = 0
  BY DEF Inv, TypeOK, Request, Numbered, ReqArm, Rearm
<1> QED
  BY <1>1, <1>2, OwnersKept DEF Inv, TypeOK, Request, Numbered, ReqArm, bounds

LEMMA WaitOkInv ==
  ASSUME Inv, NEW c \in Caller, WaitOk(c)
  PROVE  Inv'
<1>1. TypeOK'
  BY WimAssumption DEF Inv, TypeOK, Request, WaitOk, bounds
<1>2. rxDone # Free => done'[rxDone] = 0
  BY DEF Inv, TypeOK, Request, Numbered, WaitOk
<1> QED
  BY <1>1, <1>2, OwnersKept DEF Inv, TypeOK, Request, Numbered, WaitOk, bounds

LEMMA WaitTimeoutInv ==
  ASSUME Inv, NEW c \in Caller, WaitTimeout(c)
  PROVE  Inv'
<1>1. TypeOK'
  BY WimAssumption DEF Inv, TypeOK, Request, WaitTimeout, slotVars
<1> QED
  BY <1>1, OwnersKept DEF Inv, TypeOK, Request, Numbered, WaitTimeout, slotVars

LEMMA TakeNullInv ==
  ASSUME Inv, NEW c \in Caller, TakeNull(c)
  PROVE  Inv'
<1>1. TypeOK'
  BY WimAssumption DEF Inv, TypeOK, Request, TakeNull, slotVars, bounds
<1> QED
  BY <1>1, OwnersKept DEF Inv, TypeOK, Request, Numbered, TakeNull, slotVars, bounds

LEMMA TakeInv ==
  ASSUME Inv, NEW c \in Caller, Take(c)
  PROVE  Inv'
<1> DEFINE k == req[c].cmd
<1>0. k \in Cmd /\ resp[k] \in 1 .. MaxReq /\ resp[k] \in Stored
  BY DEF Inv, TypeOK, Request, Take, Stored
<1>1. /\ resp' = [resp EXCEPT ![k] = NoResp]
      /\ returned' = returned \cup {resp[k]}
      /\ UNCHANGED <<rxDone, done, freed, outstanding, made, req>>
  BY DEF Take, Cleared, bounds
<1>2. TypeOK'
  <2>1. /\ resp' \in [Cmd -> (1 .. MaxReq) \cup {NoResp}]
        /\ returned' \subseteq 1 .. MaxReq
    BY <1>0, <1>1 DEF Inv, TypeOK
  <2>2. /\ answer' \in [Caller -> (1 .. MaxReq) \cup {NoResp}]
        /\ pc' \in [Caller -> {"idle", "arm", "wait", "take", "dead"}]
    BY <1>0 DEF Inv, TypeOK, Take
  <2>3. UNCHANGED <<mtx, quiet, late, lost>>
    BY DEF Take, bounds
  <2> QED
    BY <1>1, <2>1, <2>2, <2>3 DEF Inv, TypeOK
<1>3. \A l \in Cmd : resp'[l] = IF l = k THEN NoResp ELSE resp[l]
  BY <1>0, <1>1 DEF Inv, TypeOK, Request
<1>4. Stored' \subseteq Stored /\ resp[k] \notin Stored'
  BY <1>0, <1>3 DEF Inv, OneOwner, Stored
<1>5. OneOwner'
  <2>1. \A i, j \in Cmd : resp'[i] = resp'[j] => i = j \/ resp'[i] = NoResp
    BY <1>3 DEF Inv, OneOwner
  <2>2. Ids(outstanding)' = Ids(outstanding)
    BY <1>1 DEF Ids
  <2> QED
    BY <1>0, <1>1, <1>4, <2>1, <2>2 DEF Inv, OneOwner
<1>6. Numbered'
  <2>1. \A i \in returned' \cup freed' : i <= made'
    <3>1. resp[k] <= made
      BY <1>0 DEF Inv, Numbered, Take
    <3> QED
      BY <1>1, <3>1 DEF Inv, Numbered
  <2>2. \A l \in Cmd : resp'[l] # NoResp => resp'[l] <= made'
    BY <1>1, <1>3 DEF Inv, Numbered
  <2> QED
    BY <1>1, <2>1, <2>2 DEF Inv, Numbered
<1> QED
  BY <1>2, <1>5, <1>6 DEF Inv

LEMMA NotifyInv ==
  ASSUME Inv, NEW k \in Cmd, Notify(k)
  PROVE  Inv'
<1> USE WimAssumption
<1> DEFINE r == [id |-> made + 1, cmd |-> k]
<1>0. /\ made' = made + 1 /\ made + 1 \in 1 .. MaxReq /\ r \in Request
      /\ outstanding' = outstanding \cup {r}
      /\ UNCHANGED <<mtx, resp, done, rxDone, pc, req, answer, quiet, returned,
                     freed, late, lost>>
  BY DEF Inv, TypeOK, Request, Notify, slotVars, callerVars
<1>1. TypeOK'
  BY <1>0 DEF Inv, TypeOK, Request
<1>2. \A i \in InUse : i \in Nat /\ i <= made
  BY InUseMade
<1>3. OneOwner'
  <2>1. Ids(outstanding)' = Ids(outstanding) \cup {made + 1}
    BY <1>0 DEF Ids
  <2>2. Stored' = Stored
    BY <1>0 DEF Stored
  <2>3. made + 1 \notin returned \cup freed \cup Stored
    BY <1>0, <1>2 DEF Inv, TypeOK, InUse
  <2>4. UNCHANGED <<returned, freed>>
    BY <1>0
  <2> QED
    <3>1. \A i, j \in Cmd : resp'[i] = resp'[j] => i = j \/ resp'[i] = NoResp
      BY <1>0 DEF Inv, OneOwner
    <3>2. Ids(outstanding)' \cap (returned' \cup freed' \cup Stored') = {}
      BY <2>1, <2>2, <2>3, <2>4 DEF Inv, OneOwner
    <3> QED
      BY <2>2, <2>4, <3>1, <3>2 DEF Inv, OneOwner
<1>4. Numbered'
  <2>1. \A q \in outstanding : q.id # made + 1
    BY <1>0 DEF Inv, TypeOK, Request, Numbered
  <2>2. \A q, s \in outstanding' : q.id = s.id => q = s
    BY <1>0, <2>1 DEF Inv, TypeOK, Request, Numbered
  <2> QED
    BY <1>0, <2>2 DEF Inv, TypeOK, Request, Numbered
<1> QED
  BY <1>1, <1>3, <1>4 DEF Inv

LEMMA RxResponseInv ==
  ASSUME Inv, NEW r \in outstanding, RxResponse(r)
  PROVE  Inv'
<1> USE WimAssumption
<1>0. /\ r.id \in 1 .. MaxReq /\ r.cmd \in Cmd /\ r.id <= made
      /\ r.id \in Ids(outstanding)
      /\ outstanding' = outstanding \ {r}
      /\ UNCHANGED <<mtx, done, pc, req, answer, quiet, returned, made, late, lost>>
  BY DEF Inv, TypeOK, Request, Numbered, RxResponse, callerVars, bounds, Ids
<1>1. Ids(outstanding)' = Ids(outstanding) \ {r.id}
  BY <1>0 DEF Inv, TypeOK, Request, Numbered, Ids
<1>2. CASE done[r.cmd] = 0
  <2>1. /\ resp' = [resp EXCEPT ![r.cmd] = r.id]
        /\ rxDone' = r.cmd /\ freed' = freed
    BY <1>2 DEF RxResponse, Wanted
  <2>2. TypeOK'
    BY <1>0, <2>1 DEF Inv, TypeOK, Request
  <2>3. \A l \in Cmd : resp'[l] = IF l = r.cmd THEN r.id ELSE resp[l]
    BY <2>1, <1>0 DEF Inv, TypeOK, Request
  <2>4. \A l \in Cmd : resp[l] # r.id
    BY <1>0 DEF Inv, OneOwner, Stored
  <2>5. Stored' \subseteq Stored \cup {r.id}
    BY <2>3 DEF Stored
  <2>6. OneOwner'
    <3>1. \A i, j \in Cmd : resp'[i] = resp'[j] => i = j \/ resp'[i] = NoResp
      BY <2>3, <2>4 DEF Inv, OneOwner
    <3>2. r.id \notin returned /\ r.id \notin freed
      BY <1>0 DEF Inv, OneOwner
    <3> QED
      BY <1>0, <1>1, <2>1, <2>5, <3>1, <3>2 DEF Inv, OneOwner
  <2>7. Numbered'
    BY <1>0, <1>2, <2>1, <2>3 DEF Inv, TypeOK, Request, Numbered
  <2> QED
    BY <2>2, <2>6, <2>7 DEF Inv
<1>3. CASE done[r.cmd] # 0
  <2>1. freed' = freed \cup {r.id} /\ UNCHANGED <<resp, rxDone>>
    BY <1>3 DEF RxResponse, Wanted
  <2>2. TypeOK'
    BY <1>0, <2>1 DEF Inv, TypeOK, Request
  <2>3. OneOwner'
    <3>1. Stored' = Stored
      BY <2>1 DEF Stored
    <3>2. r.id \notin returned /\ r.id \notin Stored
      BY <1>0 DEF Inv, OneOwner
    <3> QED
      BY <1>0, <1>1, <2>1, <3>1, <3>2 DEF Inv, OneOwner
  <2>4. Numbered'
    BY <1>0, <2>1 DEF Inv, TypeOK, Request, Numbered
  <2> QED
    BY <2>2, <2>3, <2>4 DEF Inv
<1> QED
  BY <1>2, <1>3

LEMMA RxCompleteInv == ASSUME Inv, RxComplete PROVE Inv'
<1> USE WimAssumption
<1>0. rxDone \in Cmd /\ done[rxDone] = 0
  BY DEF Inv, TypeOK, Request, Numbered, RxComplete
<1>1. /\ done' = [done EXCEPT ![rxDone] = 1] /\ rxDone' = Free
      /\ UNCHANGED <<mtx, resp, pc, req, answer, quiet, outstanding, returned,
                     freed, made, late, lost>>
  BY <1>0 DEF RxComplete, callerVars, bounds
<1>2. TypeOK'
  BY <1>0, <1>1 DEF Inv, TypeOK, Request
<1>3. OneOwner'
  BY <1>1 DEF Inv, OneOwner, Stored, Ids
<1>4. Numbered'
  BY <1>1 DEF Inv, TypeOK, Request, Numbered
<1> QED
  BY <1>2, <1>3, <1>4 DEF Inv

LEMMA NextInv == Inv /\ [Next]_vars => Inv'
<1> SUFFICES ASSUME Inv, [Next]_vars PROVE Inv'
  OBVIOUS
<1>1. ASSUME NEW c \in Caller, Locking(c) \/ Waiting(c) PROVE Inv'
  BY <1>1, TakeInv, TakeNullInv, ReqArmInv, WaitOkInv, WaitTimeoutInv
     DEF Locking, Waiting
<1>2. ASSUME NEW c \in Caller, NEW k \in Uses[c], ReqSend(c, k) PROVE Inv'
  BY <1>2, ReqSendInv
<1>3. ASSUME NEW k \in Cmd, Notify(k) PROVE Inv'
  BY <1>3, NotifyInv
<1>4. CASE Rx
  BY <1>4, RxCompleteInv, RxResponseInv DEF Rx
<1>5. CASE UNCHANGED vars
  <2>1. TypeOK'
    BY <1>5 DEF Inv, TypeOK, Request, vars, slotVars, callerVars, bounds
  <2>2. OneOwner' /\ Numbered'
    BY <1>5 DEF Inv, OneOwner, Numbered, Stored, Ids, vars, slotVars,
                callerVars, bounds
  <2> QED
    BY <2>1, <2>2 DEF Inv
<1> QED
  BY <1>1, <1>2, <1>3, <1>4, <1>5 DEF Next

(* The inductive invariant of the rendezvous.                               *)
THEOREM SpecInv == Spec => []Inv
<1> QED
  BY InitInv, NextInv, PTL DEF Spec

(* Every variable keeps its type; in particular a completion is never       *)
(* counted twice (complete in nrc_wim_response_handler).                    *)
THEOREM SpecTypeOK == Spec => []TypeOK
<1>1. Inv => TypeOK
  BY DEF Inv
<1> QED
  BY <1>1, SpecInv, PTL

(* A response skb is handed to one caller or freed, never both and never    *)
(* twice (wim_resp of nrc_xmit_wim_request_wait and its RX handler).        *)
THEOREM SpecOneOwner == Spec => []OneOwner
<1>1. Inv => OneOwner
  BY DEF Inv
<1> QED
  BY <1>1, SpecInv, PTL

(* What holds of a caller between sending and taking: it has issued one of   *)
(* its commands; and when its request was sent in the quiet and nobody else  *)
(* issues the command, nothing but that request and its response is on its   *)
(* way.  No response comes while it holds the mutex to arm the completion,   *)
(* and what the RX thread completes afterwards is the caller's own.          *)
Alone(c) == quiet[c] /\ Exclusive(c)
OnWay(c) ==
  /\ pc[c] # "idle" => req[c].cmd \in Uses[c]
  /\ pc[c] \in {"arm", "wait", "take"} /\ Alone(c) =>
       \A r \in outstanding : r.cmd = req[c].cmd => r.id = req[c].id
  /\ pc[c] = "arm" => mtx = c
  /\ pc[c] = "arm" /\ Alone(c) => rxDone # req[c].cmd /\ resp[req[c].cmd] = NoResp
  /\ pc[c] = "wait" /\ Alone(c) =>
       \/ resp[req[c].cmd] = req[c].id
       \/ rxDone # req[c].cmd /\ done[req[c].cmd] = 0
  /\ pc[c] = "take" /\ Alone(c) => resp[req[c].cmd] = req[c].id
OwnOnly == \A c \in Caller : OnWay(c)

LEMMA InitOwnOnly == Init => OwnOnly
BY DEF Init, OwnOnly, OnWay

(* A step that is not the caller's own and does not touch its command.       *)
LEMMA OnWayKept ==
  ASSUME NEW c \in Caller, OnWay(c),
         pc'[c] = pc[c], req'[c] = req[c], quiet'[c] = quiet[c],
         pc[c] = "arm" => mtx' = mtx,
         Alone(c) /\ pc[c] # "idle" =>
           /\ \A r \in outstanding' : r.cmd = req[c].cmd => r \in outstanding
           /\ resp'[req[c].cmd] = resp[req[c].cmd]
           /\ rxDone' = req[c].cmd => rxDone = req[c].cmd
           /\ done'[req[c].cmd] = done[req[c].cmd] \/ rxDone = req[c].cmd
  PROVE  OnWay(c)'
<1>1. Alone(c)' <=> Alone(c)
  BY DEF Alone, Exclusive
<1> QED
  BY <1>1 DEF OnWay

(* Nobody else works on the command of a caller that is alone with it.       *)
LEMMA Apart ==
  ASSUME NEW c \in Caller, Alone(c), NEW d \in Caller \ {c}
  PROVE  /\ req[c].cmd \notin Uses[d]
         /\ OwnOnly /\ pc[d] # "idle" => req[d].cmd # req[c].cmd
BY DEF Alone, Exclusive, OwnOnly, OnWay

LEMMA ReqSendOwn ==
  ASSUME Inv, OwnOnly, NEW c \in Caller, NEW k \in Uses[c], ReqSend(c, k)
  PROVE  OwnOnly'
<1> USE WimAssumption
<1> DEFINE r == [id |-> made + 1, cmd |-> k]
<1>0. /\ k \in Cmd /\ req' = [req EXCEPT ![c] = r]
      /\ quiet' = [quiet EXCEPT ![c] = Quiet(k)]
      /\ outstanding' \subseteq outstanding \cup {r}
      /\ UNCHANGED <<done, rxDone>>
      /\ pc[c] = "idle" /\ mtx = Free
  BY DEF ReqSend, Sent, Refused
<1>1. \A l \in Cmd : l # k => resp'[l] = resp[l]
  BY DEF ReqSend, Inv, TypeOK
<1>2. \/ pc' = pc
      \/ pc' = [pc EXCEPT ![c] = "arm"] /\ mtx' = c /\ resp'[k] = NoResp
  <2>1. CASE resp[k] # NoResp /\ done[k] = 0
    BY <2>1 DEF ReqSend, Refused
  <2>2. CASE ~(resp[k] # NoResp /\ done[k] = 0)
    <3>1. resp' = [resp EXCEPT ![k] = NoResp]
      BY <2>2 DEF ReqSend
    <3>2. Sent(c, {r}) \/ Sent(c, {}) \/ Refused(c)
      BY <2>2 DEF ReqSend
    <3> QED
      BY <1>0, <3>1, <3>2 DEF Sent, Refused, Inv, TypeOK
  <2> QED
    BY <2>1, <2>2
<1>3. SUFFICES ASSUME NEW d \in Caller PROVE OnWay(d)'
  BY DEF OwnOnly
<1>4. CASE d = c
  <2>1. req'[c] = r /\ quiet'[c] = Quiet(k) /\ pc'[c] \in {"idle", "arm"}
    BY <1>0, <1>2 DEF Inv, TypeOK
  <2>2. pc'[c] = "arm" => mtx' = c /\ resp'[k] = NoResp
    BY <1>0, <1>2 DEF Inv, TypeOK
  <2>3. Quiet(k) => rxDone' # k /\ \A s \in outstanding' : s.cmd = k => s.id = r.id
    BY <1>0 DEF Quiet
  <2> QED
    BY <1>4, <2>1, <2>2, <2>3 DEF OnWay, Alone
<1>5. CASE d # c
  <2>1. /\ pc'[d] = pc[d] /\ req'[d] = req[d] /\ quiet'[d] = quiet[d]
        /\ mtx # d
    BY <1>0, <1>2, <1>5 DEF Inv, TypeOK
  <2>2. Alone(d) => req[d].cmd # k /\ req[d].cmd \in Cmd
    BY <1>5, Apart DEF Inv, TypeOK
  <2> HIDE DEF r
  <2>3. r.cmd = k
    BY DEF r
  <2>4. pc[d] = "arm" => FALSE
    BY <1>0, <2>1 DEF OwnOnly, OnWay
  <2>5. Alone(d) =>
          /\ \A s \in outstanding' : s.cmd = req[d].cmd => s \in outstanding
          /\ resp'[req[d].cmd] = resp[req[d].cmd]
    BY <1>0, <1>1, <2>2, <2>3
  <2> QED
    BY <1>0, <2>1, <2>4, <2>5, OnWayKept DEF OwnOnly
<1> QED
  BY <1>4, <1>5

LEMMA WaitingOwn ==
  ASSUME Inv, OwnOnly, NEW c \in Caller, Waiting(c)
  PROVE  OwnOnly'
<1> DEFINE k == req[c].cmd
<1>0. k \in Cmd /\ UNCHANGED <<resp, rxDone, req, quiet, outstanding>>
  BY DEF Waiting, ReqArm, WaitOk, WaitTimeout, slotVars, Inv, TypeOK
<1>1. /\ pc[c] # "idle"
      /\ \A d \in Caller : d # c => pc'[d] = pc[d]
      /\ \A l \in Cmd : l # k => done'[l] = done[l]
  BY DEF Waiting, ReqArm, Rearm, WaitOk, WaitTimeout, slotVars, Inv, TypeOK
<1>2. mtx' = mtx \/ pc[c] = "arm"
  <2>1. CASE ReqArm(c)
    BY <2>1 DEF ReqArm
  <2>2. CASE WaitOk(c) \/ WaitTimeout(c)
    BY <2>2 DEF WaitOk, WaitTimeout
  <2> QED
    BY <2>1, <2>2 DEF Waiting
<1>3. SUFFICES ASSUME NEW d \in Caller PROVE OnWay(d)'
  BY DEF OwnOnly
<1>4. CASE d = c
  <2>1. Alone(c)' <=> Alone(c)
    BY <1>0 DEF Alone, Exclusive
  <2>2. CASE ReqArm(c)
    <3>1. pc[c] = "arm" /\ pc'[c] = "wait" /\ done'[k] = 0
      BY <2>2, <1>0 DEF ReqArm, Rearm, Inv, TypeOK
    <3> QED
      BY <1>0, <1>4, <2>1, <3>1 DEF OwnOnly, OnWay
  <2>3. CASE WaitOk(c)
    <3>1. pc[c] = "wait" /\ pc'[c] = "take" /\ done[k] # 0
      BY <2>3, <1>0 DEF WaitOk, Inv, TypeOK
    <3> QED
      BY <1>0, <1>4, <2>1, <3>1 DEF OwnOnly, OnWay
  <2>4. CASE WaitTimeout(c)
    <3>1. pc'[c] = "idle"
      BY <2>4 DEF WaitTimeout, Inv, TypeOK
    <3> QED
      BY <1>4, <3>1 DEF OnWay
  <2> QED
    BY <2>2, <2>3, <2>4 DEF Waiting
<1>5. CASE d # c
  <2>1. Alone(d) => req[d].cmd # k /\ req[d].cmd \in Cmd
    BY <1>1, <1>5, Apart DEF Inv, TypeOK
  <2>2. pc[d] = "arm" => mtx' = mtx
    BY <1>2, <1>5 DEF OwnOnly, OnWay
  <2> QED
    BY <1>0, <1>1, <1>5, <2>1, <2>2, OnWayKept DEF OwnOnly
<1> QED
  BY <1>4, <1>5

LEMMA LockingOwn ==
  ASSUME Inv, OwnOnly, NEW c \in Caller, Locking(c)
  PROVE  OwnOnly'
<1> USE WimAssumption
<1> DEFINE k == req[c].cmd
<1>0. /\ k \in Cmd /\ UNCHANGED <<done, rxDone, req, quiet, outstanding>>
      /\ pc[c] = "take" /\ mtx = Free
  BY DEF Locking, Take, TakeNull, slotVars, Inv, TypeOK
<1>1. /\ \A d \in Caller : d # c => pc'[d] = pc[d]
      /\ pc'[c] \in {"idle", "dead"}
      /\ \A l \in Cmd : l # k => resp'[l] = resp[l]
  BY DEF Locking, Take, Cleared, TakeNull, slotVars, Inv, TypeOK
<1>2. SUFFICES ASSUME NEW d \in Caller PROVE OnWay(d)'
  BY DEF OwnOnly
<1>3. CASE d = c
  BY <1>0, <1>1, <1>3 DEF OwnOnly, OnWay
<1>4. CASE d # c
  <2>1. Alone(d) => req[d].cmd # k /\ req[d].cmd \in Cmd
    BY <1>0, <1>4, Apart DEF Inv, TypeOK
  <2>2. pc[d] # "arm"
    BY <1>0 DEF OwnOnly, OnWay
  <2> QED
    BY <1>0, <1>1, <1>4, <2>1, <2>2, OnWayKept DEF OwnOnly
<1> QED
  BY <1>3, <1>4

LEMMA NotifyOwn ==
  ASSUME Inv, OwnOnly, NEW k \in Cmd, Notify(k)
  PROVE  OwnOnly'
<1> DEFINE r == [id |-> made + 1, cmd |-> k]
<1>0. /\ k \in Notified /\ outstanding' = outstanding \cup {r}
      /\ UNCHANGED <<mtx, resp, done, rxDone, pc, req, quiet>>
  BY DEF Notify, slotVars, callerVars
<1>1. SUFFICES ASSUME NEW d \in Caller PROVE OnWay(d)'
  BY DEF OwnOnly
<1>2. Alone(d) => req[d].cmd # r.cmd
  BY <1>0 DEF Alone, Exclusive
<1> HIDE DEF r
<1> QED
  BY <1>0, <1>2, OnWayKept DEF OwnOnly

LEMMA RxResponseOwn ==
  ASSUME Inv, OwnOnly, NEW r \in outstanding, RxResponse(r)
  PROVE  OwnOnly'
<1> USE WimAssumption
<1>0. /\ outstanding' = outstanding \ {r} /\ mtx = Free /\ rxDone = Free
      /\ UNCHANGED <<mtx, done, pc, req, quiet>>
      /\ r.cmd \in Cmd /\ r.id \in 1 .. MaxReq
  BY DEF RxResponse, callerVars, Inv, TypeOK, Request
<1>1. /\ \A l \in Cmd : l # r.cmd => resp'[l] = resp[l] /\ rxDone' # l
      /\ \/ resp'[r.cmd] = r.id
         \/ done[r.cmd] # 0 /\ UNCHANGED <<resp, rxDone>>
  <2>1. CASE Wanted(r.cmd)
    <3>1. resp' = [resp EXCEPT ![r.cmd] = r.id] /\ rxDone' = r.cmd
      BY <2>1 DEF RxResponse
    <3> QED
      BY <1>0, <3>1 DEF Inv, TypeOK
  <2>2. CASE ~Wanted(r.cmd)
    <3>1. UNCHANGED <<resp, rxDone>>
      BY <2>2 DEF RxResponse
    <3> QED
      BY <1>0, <2>2, <3>1 DEF Wanted
  <2> QED
    BY <2>1, <2>2
<1>2. SUFFICES ASSUME NEW d \in Caller PROVE OnWay(d)'
  BY DEF OwnOnly
<1> DEFINE k == req[d].cmd
<1>3. pc[d] # "arm" /\ OnWay(d) /\ k \in Cmd
  BY <1>0 DEF OwnOnly, OnWay, Inv, TypeOK
<1>4. Alone(d)' <=> Alone(d)
  BY <1>0 DEF Alone, Exclusive
<1>5. CASE ~Alone(d) \/ pc[d] \notin {"wait", "take"}
  BY <1>0, <1>3, <1>4, <1>5 DEF OnWay
<1>6. CASE Alone(d) /\ pc[d] \in {"wait", "take"} /\ r.cmd # k
  BY <1>0, <1>1, <1>3, <1>6, OnWayKept
<1>7. CASE Alone(d) /\ pc[d] \in {"wait", "take"} /\ r.cmd = k
  <2>1. r.id = req[d].id
    BY <1>3, <1>7 DEF OnWay
  <2>2. resp[k] # req[d].id
    BY <1>0, <1>3, <2>1 DEF Inv, OneOwner, Ids, Stored
  <2>3. pc[d] = "wait" /\ done[k] = 0
    BY <1>3, <1>7, <2>2 DEF OnWay
  <2>4. resp'[k] = req[d].id
    BY <1>1, <1>7, <2>1, <2>3
  <2> QED
    BY <1>0, <1>3, <1>4, <2>3, <2>4 DEF OnWay
<1> QED
  BY <1>5, <1>6, <1>7

LEMMA RxCompleteOwn == ASSUME Inv, OwnOnly, RxComplete PROVE OwnOnly'
<1>0. /\ rxDone \in Cmd /\ rxDone' = Free
      /\ \A l \in Cmd : l # rxDone => done'[l] = done[l]
      /\ UNCHANGED <<mtx, resp, pc, req, quiet, outstanding>>
  BY DEF RxComplete, callerVars, Inv, TypeOK
<1>1. SUFFICES ASSUME NEW d \in Caller PROVE OnWay(d)'
  BY DEF OwnOnly
<1>2. req[d].cmd \in Cmd /\ Free \notin Cmd
  BY WimAssumption DEF Inv, TypeOK
<1> QED
  BY <1>0, <1>2, OnWayKept DEF OwnOnly

LEMMA NextOwn == Inv /\ OwnOnly /\ [Next]_vars => OwnOnly'
<1> SUFFICES ASSUME Inv, OwnOnly, [Next]_vars PROVE OwnOnly'
  OBVIOUS
<1>1. ASSUME NEW c \in Caller, Locking(c) \/ Waiting(c) PROVE OwnOnly'
  BY <1>1, LockingOwn, WaitingOwn
<1>2. ASSUME NEW c \in Caller, NEW k \in Uses[c], ReqSend(c, k) PROVE OwnOnly'
  BY <1>2, ReqSendOwn
<1>3. ASSUME NEW k \in Cmd, Notify(k) PROVE OwnOnly'
  BY <1>3, NotifyOwn
<1>4. CASE Rx
  BY <1>4, RxCompleteOwn, RxResponseOwn DEF Rx
<1>5. CASE UNCHANGED vars
  BY <1>5 DEF OwnOnly, OnWay, Alone, Exclusive, vars, slotVars, callerVars
<1> QED
  BY <1>1, <1>2, <1>3, <1>4, <1>5 DEF Next

(* Once nothing of a command is on its way, a caller that alone issues it is *)
(* woken by its own response, whatever was late before                       *)
(* (nrc_xmit_wim_request_wait after its reinit_completion).                  *)
THEOREM SpecWokenByOwn == Spec => []WokenByOwn
<1>1. Init => OwnOnly
  BY InitOwnOnly
<1>2. Inv /\ OwnOnly /\ [Next]_vars => OwnOnly'
  BY NextOwn
<1>3. OwnOnly => WokenByOwn
  BY DEF OwnOnly, OnWay, Alone, WokenByOwn
<1> QED
  BY <1>1, <1>2, <1>3, SpecInv, PTL DEF Spec
=============================================================================
