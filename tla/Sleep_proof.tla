---------------------------- MODULE Sleep_proof ----------------------------
(***************************************************************************)
(* Proofs about who sleeps, and when.                                      *)
(*                                                                         *)
(* Of TwtSched, for every number of stations, interfaces, entries and      *)
(* requests, and every group size: the counters of the table agree with    *)
(* its lists, an entry with room is found, no group of the first-come      *)
(* algorithm is overfilled, agreements and lists agree, and the worker     *)
(* finds its interface.                                                    *)
(*                                                                         *)
(* Of PowerSave, for every number of calls, frames, wake-ups, refusals and *)
(* crashes, and every way to load the module that has one sleeper: at rest *)
(* the driver believes the target asleep exactly when it is.               *)
(***************************************************************************)
EXTENDS TwtSched, PowerSave, FiniteSetTheorems, WellFoundedInduction, TLAPS

-----------------------------------------------------------------------------
(* TwtSched.                                                               *)

(* min_num_in_group is a lower bound of the groups of BALANCED.             *)
LowerBound == algo = "BALANCED" => \A e \in Entry : minNum <= sub[e]

(* A station with an agreement is known.                                    *)
KnownAgree == \A s \in Sta : mask[s] => on[s] # None

(* The timer, the work and the mutex belong to a started scheduler, whose   *)
(* interface is up unless it is being stopped.                              *)
Scheduled ==
  /\ started <=> vif # None
  /\ timerOn \/ pend \/ running => started
  /\ stopping # None => started /\ ~timerOn /\ ~pend
  /\ started /\ stopping = None => vif \in up
  /\ freed => ~started

TableInv == Counted /\ LowerBound /\ GroupCapSafe
Inv == TypeOK /\ TableInv /\ Agreements /\ KnownAgree /\ Scheduled

-----------------------------------------------------------------------------
(* A set of naturals has a least element, and one below n a largest.        *)
LEMMA Least ==
  ASSUME NEW T, T \subseteq Nat, T # {}
  PROVE  \E x \in T : \A y \in T : x <= y
<1> DEFINE R == StrictSubsetOrdering(Nat)
           U == {0 .. x : x \in T}
<1>1. IsWellFoundedOn(R, FiniteSubsetsOf(Nat))
  BY FS_StrictSubsetOrderingWellFounded, Zenon
<1>2. U \subseteq FiniteSubsetsOf(Nat) /\ U # {}
  <2>1. ASSUME NEW x \in T PROVE 0 .. x \in FiniteSubsetsOf(Nat)
    <3>1. 0 \in Int /\ x \in Int /\ 0 .. x \in SUBSET Nat
      OBVIOUS
    <3>2. IsFiniteSet(0 .. x)
      BY <3>1, FS_Interval
    <3> DEFINE X == 0 .. x
    <3> HIDE DEF X
    <3>3. X \in SUBSET Nat /\ IsFiniteSet(X)
      BY <3>1, <3>2 DEF X
    <3>4. X \in FiniteSubsetsOf(Nat)
      BY <3>3, Zenon DEF FiniteSubsetsOf
    <3> QED
      BY <3>4 DEF X
  <2> QED
    BY <2>1
<1>3. PICK u \in U : \A v \in U : ~ (<<v, u>> \in R)
  <2> HIDE DEF R, U
  <2> QED
    BY <1>1, <1>2, WFMin
<1>4. PICK x \in T : u = 0 .. x
  OBVIOUS
<1>5. ASSUME NEW y \in T, y < x PROVE FALSE
  <2> DEFINE Y == 0 .. y  X == 0 .. x
  <2>1. <<Y, u>> \notin R
    BY <1>3
  <2>2. Y \subseteq X /\ Y # X
    BY <1>5
  <2>3. Y \in SUBSET Nat /\ X \in SUBSET Nat
    OBVIOUS
  <2> HIDE DEF X, Y
  <2>4. <<Y, X>> \in R
    BY <2>3, <2>2 DEF StrictSubsetOrdering
  <2> QED
    BY <2>1, <2>4, <1>4 DEF X, Y
<1> QED
  BY <1>5

LEMMA Largest ==
  ASSUME NEW n \in Nat, NEW T, T \subseteq 0 .. n, T # {}
  PROVE  \E x \in T : \A y \in T : y <= x
<1> DEFINE D == {n - x : x \in T}
<1>0. \A x \in T : x \in Nat /\ n - x \in Nat
  OBVIOUS
<1>1. D \subseteq Nat /\ D # {}
  BY <1>0
<1>2. PICK d \in D : \A c \in D : d <= c
  <2> HIDE DEF D
  <2> QED
    BY <1>1, Least
<1>3. PICK x \in T : d = n - x
  OBVIOUS
<1>4. \A y \in T : n - x <= n - y
  BY <1>2, <1>3
<1> QED
  BY <1>0, <1>4

-----------------------------------------------------------------------------
(* The answer of the scheduler is an interval.                              *)
LEMMA CutType ==
  ASSUME NEW q \in Wake, NEW limit \in Nat
  PROVE  Cut(q, limit) \in Nat
<1> USE TwtAssumption
<1> DEFINE k == q.len \div Interval
           short == {n \in 1 .. k - 1 : q.len - (k - n) * Interval <= limit}
<1>1. k \in Nat
  BY DEF Wake
<1>2. CASE limit = 0 \/ q.len <= limit
  BY <1>1, <1>2 DEF Cut
<1>3. CASE ~(limit = 0 \/ q.len <= limit) /\ short = {}
  BY <1>3 DEF Cut
<1>4. CASE ~(limit = 0 \/ q.len <= limit) /\ short # {}
  <2>1. short \subseteq 0 .. k
    BY <1>1
  <2> DEFINE big == CHOOSE n \in short : \A o \in short : o <= n
  <2>2. big \in Nat
    <3> HIDE DEF short, k
    <3>1. \E n \in short : \A o \in short : o <= n
      BY <1>1, <1>4, <2>1, Largest
    <3>2. big \in short
      BY <3>1
    <3> HIDE DEF big
    <3> QED
      BY <3>2, <2>1, <1>1
  <2>3. Cut(q, limit) = big
    BY <1>4 DEF Cut
  <2> QED
    BY <2>2, <2>3
<1> QED
  BY <1>2, <1>3, <1>4

LEMMA RoundedType ==
  ASSUME NEW k \in Nat
  PROVE  Rounded(k) \in Powers /\ (Rounded(k) = 1 \/ Rounded(k) <= k)
<1> DEFINE Good(p) == /\ p = 1 \/ p <= k
                      /\ \A o \in Powers : o <= k => o <= p
<1>1. \E p \in Powers : Good(p)
  <2>1. CASE k < 2
    <3>1. Good(1)
      BY <2>1 DEF Powers
    <3> QED
      BY <3>1 DEF Powers
  <2>2. CASE 2 <= k /\ k < 4
    <3>1. Good(2)
      BY <2>2 DEF Powers
    <3> QED
      BY <3>1 DEF Powers
  <2>3. CASE 4 <= k /\ k < 8
    <3>1. Good(4)
      BY <2>3 DEF Powers
    <3> QED
      BY <3>1 DEF Powers
  <2>4. CASE 8 <= k
    <3>1. Good(8)
      BY <2>4 DEF Powers
    <3> QED
      BY <3>1 DEF Powers
  <2> QED
    BY <2>1, <2>2, <2>3, <2>4
<1> QED
  BY <1>1 DEF Rounded

LEMMA RoundedPower ==
  ASSUME NEW r \in Powers
  PROVE  Rounded(r) = r
<1>1. r = 1 \/ r = 2 \/ r = 4 \/ r = 8
  BY DEF Powers
<1>2. \E p \in Powers : /\ p = 1 \/ p <= r
                        /\ \A o \in Powers : o <= r => o <= p
  BY <1>1 DEF Powers
<1>3. /\ Rounded(r) \in Powers
      /\ Rounded(r) = 1 \/ Rounded(r) <= r
      /\ \A o \in Powers : o <= r => o <= Rounded(r)
  BY <1>2 DEF Rounded
<1> QED
  BY <1>1, <1>3 DEF Powers

LEMMA AgreedType ==
  ASSUME NEW q \in Wake, NEW limit \in Nat
  PROVE  Agreed(q, limit) \in Wake
<1>1. Rounded(Cut(q, limit)) \in Nat \ {0}
  BY CutType, RoundedType DEF Powers
<1>2. \A r \in Nat \ {0} : Interval * r \in Nat \ {0}
  BY TwtAssumption
<1> QED
  BY <1>1, <1>2 DEF Agreed, Wake
-----------------------------------------------------------------------------
(* Taking and giving back a place.                                          *)

(* Place p is added to, or removed from, the table.                         *)
Put(p) ==
  /\ p \in Node /\ p \notin held /\ held' = held \cup {p}
  /\ sub' = [sub EXCEPT ![p.entry] = @ + 1]
  /\ allocNum' = allocNum + 1
Dropped(p) ==
  /\ p \in held /\ held' = held \ {p}
  /\ sub' = [sub EXCEPT ![p.entry] = @ - 1]
  /\ allocNum' = allocNum - 1

LEMMA TakePuts ==
  ASSUME TypeOK, NEW e \in Entry, NEW s \in Sta \cup {None}, Take(e, s)
  PROVE  \E p \in Node : p.entry = e /\ p.sta = s /\ Put(p)
<1>1. PICK n \in 1 .. Cardinality(held) + 1 :
        LET p == [entry |-> e, sta |-> s, n |-> n]
        IN  p \notin held /\ held' = held \cup {p}
  BY DEF Take
<1>2. Cardinality(held) \in Nat
  BY FS_CardinalityType DEF TypeOK
<1>3. n \in Nat \ {0}
  BY <1>2
<1> DEFINE p == [entry |-> e, sta |-> s, n |-> n]
<1>4. p \in Node /\ p.entry = e /\ p.sta = s
  BY <1>3 DEF Node
<1>5. Put(p)
  <2>1. sub' = [sub EXCEPT ![e] = @ + 1] /\ allocNum' = allocNum + 1
    BY DEF Take
  <2> QED
    BY <1>1, <1>4, <2>1 DEF Put
<1> QED
  BY <1>4, <1>5

LEMMA DeleteDrops ==
  ASSUME TypeOK, Agreements, NEW s \in Sta, Delete(s), started, mask[s]
  PROVE  /\ entry[s] \in Entry
         /\ \E p \in NodesAt(entry[s], s) :
              Dropped(p) /\ minNum' = MinAfter(p.entry)
<1> DEFINE p == CHOOSE p \in NodesAt(entry[s], s) : TRUE
<1>1. NodesAt(entry[s], s) # {}
  BY DEF Agreements
<1>2. p \in NodesAt(entry[s], s)
  BY <1>1
<1>3. p \in held /\ p.entry = entry[s] /\ p.sta = s
  BY <1>2 DEF NodesAt
<1>4. entry[s] \in Entry
  BY <1>3 DEF TypeOK, Node
<1>5. /\ held' = held \ {p}
      /\ sub' = [sub EXCEPT ![entry[s]] = @ - 1]
      /\ allocNum' = allocNum - 1
      /\ minNum' = MinAfter(entry[s])
  BY <1>1, Zenon DEF Delete, Unlist
<1> HIDE DEF p
<1>6. Dropped(p) /\ minNum' = MinAfter(p.entry)
  BY <1>3, <1>5 DEF Dropped
<1> QED
  BY <1>2, <1>4, <1>6

LEMMA FiniteParts ==
  ASSUME TypeOK
  PROVE  /\ IsFiniteSet(held) /\ Cardinality(held) \in Nat
         /\ \A e : IsFiniteSet(At(e)) /\ Cardinality(At(e)) \in Nat
         /\ \A s : IsFiniteSet(Nodes(s)) /\ Cardinality(Nodes(s)) \in Nat
<1>1. IsFiniteSet(held)
  BY DEF TypeOK
<1>2. ASSUME NEW S, S \in SUBSET held
      PROVE  IsFiniteSet(S) /\ Cardinality(S) \in Nat
  BY <1>1, <1>2, FS_Subset, FS_CardinalityType
<1>3. Cardinality(held) \in Nat
  BY <1>1, FS_CardinalityType
<1>4. \A e : At(e) \in SUBSET held
  BY DEF At
<1>5. \A s : Nodes(s) \in SUBSET held
  BY DEF Nodes
<1> QED
  BY <1>1, <1>2, <1>3, <1>4, <1>5

LEMMA PutKeeps ==
  ASSUME TypeOK, Counted, NEW p, Put(p)
  PROVE  /\ held' \subseteq Node /\ IsFiniteSet(held')
         /\ sub' \in [Entry -> Nat] /\ allocNum' \in Nat
         /\ Counted'
         /\ sub'[p.entry] = sub[p.entry] + 1
         /\ \A e \in Entry : e # p.entry => sub'[e] = sub[e]
<1> USE DEF Put
<1>1. held' \subseteq Node
  BY DEF TypeOK
<1>2. IsFiniteSet(held') /\ Cardinality(held') = Cardinality(held) + 1
  BY FiniteParts, FS_AddElement
<1>3. p.entry \in Entry
  BY DEF Node
<1>4. sub'[p.entry] = sub[p.entry] + 1
      /\ \A e \in Entry : e # p.entry => sub'[e] = sub[e]
  BY <1>3 DEF TypeOK
<1>5. sub' \in [Entry -> Nat] /\ allocNum' \in Nat
  BY <1>3 DEF TypeOK
<1>6. ASSUME NEW e \in Entry PROVE sub'[e] = Cardinality(At(e)')
  <2>1. CASE e = p.entry
    <3>1. At(e)' = At(e) \cup {p} /\ p \notin At(e)
      BY <2>1 DEF At
    <3>2. Cardinality(At(e) \cup {p}) = Cardinality(At(e)) + 1
      BY <3>1, FiniteParts, FS_AddElement
    <3>3. Cardinality(At(e)') = Cardinality(At(e)) + 1
      BY <3>1, <3>2, Zenon
    <3> QED
      BY <2>1, <1>4, <3>3 DEF Counted
  <2>2. CASE e # p.entry
    <3>1. At(e)' = At(e)
      BY <2>2 DEF At
    <3>2. Cardinality(At(e)') = Cardinality(At(e))
      BY <3>1, Zenon
    <3> QED
      BY <2>2, <1>4, <3>2 DEF Counted
  <2> QED
    BY <2>1, <2>2
<1>7. allocNum' = Cardinality(held')
  BY <1>2, FiniteParts DEF Counted
<1>8. Counted'
  BY <1>6, <1>7 DEF Counted
<1> QED
  BY <1>1, <1>2, <1>4, <1>5, <1>8

LEMMA DroppedKeeps ==
  ASSUME TypeOK, Counted, NEW p, Dropped(p)
  PROVE  /\ held' \subseteq Node /\ IsFiniteSet(held')
         /\ p.entry \in Entry /\ sub[p.entry] # 0
         /\ sub' \in [Entry -> Nat] /\ allocNum' \in Nat
         /\ Counted'
         /\ sub'[p.entry] = sub[p.entry] - 1
         /\ \A e \in Entry : e # p.entry => sub'[e] = sub[e]
<1> USE DEF Dropped
<1>1. held' \subseteq Node
  BY DEF TypeOK
<1>2. IsFiniteSet(held') /\ Cardinality(held') = Cardinality(held) - 1
  BY FiniteParts, FS_RemoveElement
<1>3. p.entry \in Entry
  BY DEF TypeOK, Node
<1>4. sub[p.entry] # 0 /\ allocNum # 0
  <2>1. p \in At(p.entry)
    BY DEF At
  <2>2. Cardinality(At(p.entry)) # 0 /\ Cardinality(held) # 0
    BY <2>1, FiniteParts, FS_EmptySet
  <2> QED
    BY <1>3, <2>2 DEF Counted
<1>5. sub'[p.entry] = sub[p.entry] - 1
      /\ \A e \in Entry : e # p.entry => sub'[e] = sub[e]
  BY <1>3 DEF TypeOK
<1>6. sub' \in [Entry -> Nat] /\ allocNum' \in Nat
  BY <1>3, <1>4 DEF TypeOK
<1>7. ASSUME NEW e \in Entry PROVE sub'[e] = Cardinality(At(e)')
  <2>1. CASE e = p.entry
    <3>1. At(e)' = At(e) \ {p} /\ p \in At(e)
      BY <2>1 DEF At
    <3>2. Cardinality(At(e) \ {p}) = Cardinality(At(e)) - 1
      BY <3>1, FiniteParts, FS_RemoveElement
    <3>3. Cardinality(At(e)') = Cardinality(At(e)) - 1
      BY <3>1, <3>2, Zenon
    <3> QED
      BY <2>1, <1>5, <3>3 DEF Counted
  <2>2. CASE e # p.entry
    <3>1. At(e)' = At(e)
      BY <2>2 DEF At
    <3>2. Cardinality(At(e)') = Cardinality(At(e))
      BY <3>1, Zenon
    <3> QED
      BY <2>2, <1>5, <3>2 DEF Counted
  <2> QED
    BY <2>1, <2>2
<1>8. allocNum' = Cardinality(held')
  BY <1>2, FiniteParts DEF Counted
<1>9. Counted'
  BY <1>7, <1>8 DEF Counted
<1> QED
  BY <1>1, <1>2, <1>3, <1>4, <1>5, <1>6, <1>9
-----------------------------------------------------------------------------
(* The table as a whole.                                                    *)
TableType ==
  /\ algo \in Algos
  /\ sub \in [Entry -> Nat] /\ allocNum \in Nat /\ minNum \in 0 .. MaxGroup
  /\ held \subseteq Node /\ IsFiniteSet(held)

LEMMA TableSame ==
  ASSUME TypeOK, TableInv, UNCHANGED <<algo, table>>
  PROVE  TableType' /\ TableInv'
<1>1. TableType'
  BY DEF table, TypeOK, TableType
<1>2. Counted'
  BY DEF table, TableInv, Counted, At
<1>3. LowerBound' /\ GroupCapSafe'
  BY DEF table, TableInv, LowerBound, GroupCapSafe
<1> QED
  BY <1>1, <1>2, <1>3 DEF TableInv

LEMMA PlaceType ==
  ASSUME TypeOK
  PROVE  Place \in Entry /\ (Candidates # {} => Place \in Candidates)
<1>1. Candidates \subseteq Entry
  BY DEF Candidates
<1>2. CASE Candidates = {}
  BY <1>2, TwtAssumption DEF Place, Entry
<1>3. CASE Candidates # {}
  <2>1. Candidates \subseteq Nat
    BY <1>1 DEF Entry
  <2>2. \E e \in Candidates : \A o \in Candidates : e <= o
    BY <1>3, <2>1, Least
  <2>3. Place \in Candidates
    BY <1>3, <2>2 DEF Place
  <2> QED
    BY <1>1, <2>3
<1> QED
  BY <1>2, <1>3

(* The search raises the minimum only when every group is above it.         *)
LEMMA NewMinBound ==
  ASSUME TypeOK, LowerBound
  PROVE  /\ NewMin \in 0 .. MaxGroup
         /\ algo = "BALANCED" => \A e \in Entry : NewMin <= sub[e]
<1> USE TwtAssumption
<1>1. NewMin \in 0 .. MaxGroup
  BY DEF NewMin, Raises, TypeOK
<1>2. ASSUME algo = "BALANCED", NEW e \in Entry PROVE NewMin <= sub[e]
  <2>1. minNum <= sub[e] /\ minNum \in Nat /\ sub[e] \in Nat
    BY <1>2 DEF LowerBound, TypeOK
  <2>2. CASE Raises
    <3>1. e \notin Candidates
      BY <2>2 DEF Raises
    <3>2. sub[e] # minNum
      BY <1>2, <2>2, <3>1 DEF Candidates, Raises
    <3> QED
      BY <2>1, <2>2, <3>2 DEF NewMin
  <2> QED
    BY <2>1, <2>2 DEF NewMin
<1> QED
  BY <1>1, <1>2

LEMMA TablePut ==
  ASSUME TypeOK, TableInv, Found, NEW p, Put(p), p.entry = Place,
         minNum' = NewMin, UNCHANGED algo
  PROVE  TableType' /\ TableInv'
<1> USE TwtAssumption
<1>0. Counted /\ LowerBound /\ GroupCapSafe
  BY DEF TableInv
<1>1. TableType' /\ Counted'
  BY <1>0, PutKeeps, NewMinBound DEF TypeOK, TableType
<1>2. /\ sub'[Place] = sub[Place] + 1
      /\ \A e \in Entry : e # Place => sub'[e] = sub[e]
  BY <1>0, PutKeeps
<1>3. \A e \in Entry : sub[e] \in Nat /\ sub[e] <= sub'[e]
  BY <1>2 DEF TypeOK
<1>4. LowerBound'
  <2> SUFFICES ASSUME algo = "BALANCED", NEW e \in Entry
               PROVE  NewMin <= sub'[e]
    BY DEF LowerBound
  <2>1. NewMin <= sub[e] /\ NewMin \in Nat /\ sub'[e] \in Nat
    BY <1>0, <1>1, NewMinBound DEF TableType
  <2> QED
    BY <2>1, <1>3
<1>5. GroupCapSafe'
  <2> SUFFICES ASSUME algo = "FCFS" \/ MaxGroup = 1, NEW e \in Entry
               PROVE  sub'[e] <= MaxGroup
    BY DEF GroupCapSafe
  <2>1. sub[e] <= MaxGroup
    BY <1>0 DEF GroupCapSafe
  <2>2. CASE e # Place
    BY <1>2, <2>1, <2>2
  <2>3. CASE e = Place
    <3>1. ~Again
      BY DEF Again, Raises, TypeOK
    <3>2. Place \in Candidates
      BY <3>1, PlaceType DEF Found
    <3>3. sub[Place] < MaxGroup
      BY <3>2 DEF Candidates, TypeOK
    <3> QED
      BY <1>2, <1>3, <2>3, <3>3
  <2> QED
    BY <2>2, <2>3
<1> QED
  BY <1>1, <1>4, <1>5 DEF TableInv

LEMMA TableDropped ==
  ASSUME TypeOK, TableInv, NEW p, Dropped(p), minNum' = MinAfter(p.entry),
         UNCHANGED algo
  PROVE  TableType' /\ TableInv'
<1>0. Counted /\ LowerBound /\ GroupCapSafe
  BY DEF TableInv
<1> DEFINE e == p.entry
<1>1. /\ held' \subseteq Node /\ IsFiniteSet(held')
      /\ e \in Entry /\ sub[e] # 0
      /\ sub' \in [Entry -> Nat] /\ allocNum' \in Nat
      /\ Counted'
      /\ sub'[e] = sub[e] - 1
      /\ \A f \in Entry : f # e => sub'[f] = sub[f]
  BY <1>0, DroppedKeeps
<1> HIDE DEF e
<1>2. \A f \in Entry : sub[f] \in Nat /\ sub'[f] \in Nat
  BY <1>1 DEF TypeOK
<1>3. minNum' = IF sub'[e] < minNum THEN sub'[e] ELSE minNum
  BY <1>1 DEF MinAfter, e
<1>4. minNum' \in 0 .. MaxGroup /\ minNum' <= minNum /\ minNum' <= sub'[e]
  <2>1. minNum \in 0 .. MaxGroup /\ MaxGroup \in Nat /\ sub'[e] \in Nat
    BY <1>1, <1>2, TwtAssumption DEF TypeOK
  <2> QED
    BY <1>3, <2>1
<1>5. LowerBound'
  <2> SUFFICES ASSUME algo = "BALANCED", NEW f \in Entry
               PROVE  minNum' <= sub'[f]
    BY DEF LowerBound
  <2>1. minNum <= sub[f]
    BY <1>0 DEF LowerBound
  <2>2. CASE f = e
    BY <1>4, <2>2
  <2>3. CASE f # e
    <3>1. minNum' \in Nat /\ minNum \in Nat
      BY <1>4 DEF TypeOK
    <3> QED
      BY <1>1, <1>2, <1>4, <2>1, <2>3, <3>1
  <2> QED
    BY <2>2, <2>3
<1>6. GroupCapSafe'
  <2> SUFFICES ASSUME algo = "FCFS" \/ MaxGroup = 1, NEW f \in Entry
               PROVE  sub'[f] <= MaxGroup
    BY DEF GroupCapSafe
  <2>1. sub[f] <= MaxGroup
    BY <1>0 DEF GroupCapSafe
  <2>2. sub'[f] <= sub[f]
    <3>1. CASE f = e
      BY <1>1, <1>2, <3>1
    <3>2. CASE f # e
      BY <1>1, <1>2, <3>2
    <3> QED
      BY <3>1, <3>2
  <2> QED
    BY <1>2, <2>1, <2>2, TwtAssumption
<1>7. TableType'
  BY <1>1, <1>4 DEF TypeOK, TableType
<1> QED
  BY <1>1, <1>5, <1>6, <1>7 DEF TableInv

LEMMA TableDelete ==
  ASSUME TypeOK, TableInv, Agreements, NEW s \in Sta, Delete(s), UNCHANGED algo
  PROVE  TableType' /\ TableInv'
<1>1. CASE started /\ mask[s]
  BY <1>1, DeleteDrops, TableDropped
<1>2. CASE ~(started /\ mask[s])
  BY <1>2, TableSame DEF Delete
<1> QED
  BY <1>1, <1>2
-----------------------------------------------------------------------------
(* Agreements and lists.                                                    *)

(* Stations keep their agreement, or lose one that had no node or is        *)
(* recorded as dropped.                                                     *)
LEMMA AgreeSame ==
  ASSUME Agreements, UNCHANGED held, missed \subseteq missed',
         \A t \in Sta : \/ mask'[t] = mask[t] /\ entry'[t] = entry[t]
                        \/ ~mask'[t] /\ (t \in missed' \/ ~mask[t])
  PROVE  Agreements'
<1> SUFFICES ASSUME NEW t \in Sta
             PROVE  /\ mask'[t] => NodesAt(entry[t], t)' # {}
                    /\ \/ t \in missed'
                       \/ Cardinality(Nodes(t)') = IF mask'[t] THEN 1 ELSE 0
  BY DEF Agreements
<1>1. Nodes(t)' = Nodes(t)
  BY DEF Nodes
<1>2. Cardinality(Nodes(t)') = Cardinality(Nodes(t))
  BY <1>1, Zenon
<1>3. \/ t \in missed
      \/ Cardinality(Nodes(t)) = IF mask[t] THEN 1 ELSE 0
  BY DEF Agreements
<1>4. CASE mask'[t] = mask[t] /\ entry'[t] = entry[t]
  <2>1. NodesAt(entry[t], t)' = NodesAt(entry[t], t)
    BY <1>4 DEF NodesAt
  <2>2. mask[t] => NodesAt(entry[t], t) # {}
    BY DEF Agreements
  <2> QED
    BY <1>2, <1>3, <1>4, <2>1, <2>2
<1>5. CASE ~mask'[t] /\ (t \in missed' \/ ~mask[t])
  BY <1>2, <1>3, <1>5
<1> QED
  BY <1>4, <1>5

LEMMA AgreePut ==
  ASSUME TypeOK, Agreements, NEW s \in Sta, ~mask[s], NEW p, Put(p),
         p.sta = s,
         mask' = [mask EXCEPT ![s] = TRUE],
         entry' = [entry EXCEPT ![s] = p.entry], UNCHANGED missed
  PROVE  Agreements'
<1>0. p \notin held /\ held' = held \cup {p}
  BY DEF Put
<1> SUFFICES ASSUME NEW t \in Sta
             PROVE  /\ mask'[t] => NodesAt(entry[t], t)' # {}
                    /\ \/ t \in missed
                       \/ Cardinality(Nodes(t)') = IF mask'[t] THEN 1 ELSE 0
  BY DEF Agreements
<1>1. CASE t = s
  <2>1. mask'[s] /\ entry'[s] = p.entry
    BY DEF TypeOK
  <2>2. p \in NodesAt(entry[s], s)'
    BY <1>0, <2>1 DEF NodesAt
  <2>3. Nodes(s)' = Nodes(s) \cup {p} /\ p \notin Nodes(s)
    BY <1>0 DEF Nodes
  <2>4. Cardinality(Nodes(s) \cup {p}) = Cardinality(Nodes(s)) + 1
    BY <2>3, FiniteParts, FS_AddElement
  <2>5. Cardinality(Nodes(s)') = Cardinality(Nodes(s)) + 1
    BY <2>3, <2>4, Zenon
  <2>6. s \in missed \/ Cardinality(Nodes(s)) = 0
    BY DEF Agreements
  <2> QED
    BY <1>1, <2>1, <2>2, <2>5, <2>6
<1>2. CASE t # s
  <2>1. mask'[t] = mask[t] /\ entry'[t] = entry[t]
    BY <1>2 DEF TypeOK
  <2>2. Nodes(t)' = Nodes(t) /\ NodesAt(entry[t], t)' = NodesAt(entry[t], t)
    BY <1>0, <1>2, <2>1 DEF Nodes, NodesAt
  <2>3. Cardinality(Nodes(t)') = Cardinality(Nodes(t))
    BY <2>2, Zenon
  <2>4. /\ mask[t] => NodesAt(entry[t], t) # {}
        /\ t \in missed \/ Cardinality(Nodes(t)) = IF mask[t] THEN 1 ELSE 0
    BY DEF Agreements
  <2> QED
    BY <2>1, <2>2, <2>3, <2>4
<1> QED
  BY <1>1, <1>2

(* A place charged to nobody.                                               *)
LEMMA AgreeNobody ==
  ASSUME TypeOK, Agreements, NEW p, Put(p), p.sta = None,
         UNCHANGED <<mask, entry, missed>>
  PROVE  Agreements'
<1>0. held' = held \cup {p}
  BY DEF Put
<1> SUFFICES ASSUME NEW t \in Sta
             PROVE  /\ mask[t] => NodesAt(entry[t], t)' # {}
                    /\ \/ t \in missed
                       \/ Cardinality(Nodes(t)') = IF mask[t] THEN 1 ELSE 0
  BY DEF Agreements
<1>1. t # None
  BY TwtAssumption
<1>2. Nodes(t)' = Nodes(t) /\ NodesAt(entry[t], t)' = NodesAt(entry[t], t)
  BY <1>0, <1>1 DEF Nodes, NodesAt
<1>3. Cardinality(Nodes(t)') = Cardinality(Nodes(t))
  BY <1>2, Zenon
<1>4. /\ mask[t] => NodesAt(entry[t], t) # {}
      /\ t \in missed \/ Cardinality(Nodes(t)) = IF mask[t] THEN 1 ELSE 0
  BY DEF Agreements
<1> QED
  BY <1>2, <1>3, <1>4

LEMMA AgreeDropped ==
  ASSUME TypeOK, Agreements, NEW s \in Sta, mask[s],
         NEW p \in NodesAt(entry[s], s), Dropped(p),
         ~mask'[s], missed \subseteq missed',
         \A t \in Sta : t # s => mask'[t] = mask[t] /\ entry'[t] = entry[t]
  PROVE  Agreements'
<1>0. p \in held /\ held' = held \ {p} /\ p.sta = s
  BY DEF Dropped, NodesAt
<1> SUFFICES ASSUME NEW t \in Sta
             PROVE  /\ mask'[t] => NodesAt(entry[t], t)' # {}
                    /\ \/ t \in missed'
                       \/ Cardinality(Nodes(t)') = IF mask'[t] THEN 1 ELSE 0
  BY DEF Agreements
<1>1. CASE t = s
  <2>1. Nodes(s)' = Nodes(s) \ {p} /\ p \in Nodes(s)
    BY <1>0 DEF Nodes
  <2>2. Cardinality(Nodes(s) \ {p}) = Cardinality(Nodes(s)) - 1
    BY <2>1, FiniteParts, FS_RemoveElement
  <2>3. Cardinality(Nodes(s)') = Cardinality(Nodes(s)) - 1
    BY <2>1, <2>2, Zenon
  <2>4. s \in missed \/ Cardinality(Nodes(s)) = 1
    BY DEF Agreements
  <2> QED
    BY <1>1, <2>3, <2>4
<1>2. CASE t # s
  <2>1. mask'[t] = mask[t] /\ entry'[t] = entry[t]
    BY <1>2
  <2>2. Nodes(t)' = Nodes(t) /\ NodesAt(entry[t], t)' = NodesAt(entry[t], t)
    BY <1>0, <1>2, <2>1 DEF Nodes, NodesAt
  <2>3. Cardinality(Nodes(t)') = Cardinality(Nodes(t))
    BY <2>2, Zenon
  <2>4. /\ mask[t] => NodesAt(entry[t], t) # {}
        /\ t \in missed \/ Cardinality(Nodes(t)) = IF mask[t] THEN 1 ELSE 0
    BY DEF Agreements
  <2> QED
    BY <2>1, <2>2, <2>3, <2>4
<1> QED
  BY <1>1, <1>2

LEMMA AgreeDelete ==
  ASSUME TypeOK, Agreements, NEW s \in Sta, Delete(s),
         missed \subseteq missed',
         \/ ~mask'[s] /\ (~mask[s] \/ started \/ s \in missed')
         \/ ~started /\ mask'[s] = mask[s] /\ entry'[s] = entry[s],
         \A t \in Sta : t # s => mask'[t] = mask[t] /\ entry'[t] = entry[t]
  PROVE  Agreements'
<1>1. CASE started /\ mask[s]
  <2>1. PICK p \in NodesAt(entry[s], s) : Dropped(p)
    BY <1>1, DeleteDrops
  <2>2. ~mask'[s]
    BY <1>1
  <2> QED
    BY <1>1, <2>1, <2>2, AgreeDropped
<1>2. CASE ~(started /\ mask[s])
  <2>1. UNCHANGED held
    BY <1>2 DEF Delete, table
  <2>2. \A t \in Sta : \/ mask'[t] = mask[t] /\ entry'[t] = entry[t]
                       \/ ~mask'[t] /\ (t \in missed' \/ ~mask[t])
    BY <1>2
  <2> QED
    BY <2>1, <2>2, AgreeSame
<1> QED
  BY <1>1, <1>2
-----------------------------------------------------------------------------
(* The steps.                                                               *)
RestType ==
  /\ started \in BOOLEAN /\ vif \in Vif \cup {None}
  /\ mask \in [Sta -> BOOLEAN]
  /\ flow \in [Sta -> Wake \cup {None}]
  /\ entry \in [Sta -> Entry \cup {None}]
  /\ reply \in [Sta -> [cmd : {"ACCEPT", "DICTATE"}, q : Wake] \cup {None}]
  /\ on \in [Sta -> Vif \cup {None}] /\ idle \in [Sta -> Nat]
  /\ up \subseteq Vif /\ stopping \in Vif \cup {None}
  /\ timerOn \in BOOLEAN /\ pend \in BOOLEAN /\ running \in BOOLEAN
  /\ freed \in BOOLEAN /\ missed \subseteq Sta
  /\ setups \in 0 .. MaxSetup /\ fails \in 0 .. MaxFail
  /\ restarts \in 0 .. MaxRestart

LEMMA TypeParts == TypeOK <=> TableType /\ RestType
  BY DEF TypeOK, TableType, RestType

LEMMA TypePartsNext == TypeOK' <=> TableType' /\ RestType'
  BY DEF TypeOK, TableType, RestType

LEMMA InitInv == Init => Inv
<1> SUFFICES ASSUME Init PROVE Inv
  OBVIOUS
<1> USE TwtAssumption DEF Init
<1>1. TypeOK
  <2>1. IsFiniteSet(held) /\ held \subseteq Node
    BY FS_EmptySet
  <2>2. minNum \in 0 .. MaxGroup
    OBVIOUS
  <2>3. TableType
    BY <2>1, <2>2 DEF TableType
  <2>4. RestType
    <3>1. mask \in [Sta -> BOOLEAN] /\ started \in BOOLEAN /\ timerOn \in BOOLEAN
          /\ pend \in BOOLEAN /\ running \in BOOLEAN /\ freed \in BOOLEAN
      OBVIOUS
    <3>2. /\ flow \in [Sta -> Wake \cup {None}]
          /\ entry \in [Sta -> Entry \cup {None}]
          /\ reply \in [Sta -> [cmd : {"ACCEPT", "DICTATE"}, q : Wake]
                              \cup {None}]
      OBVIOUS
    <3>3. on \in [Sta -> Vif \cup {None}] /\ idle \in [Sta -> Nat]
      OBVIOUS
    <3> QED
      BY <3>1, <3>2, <3>3 DEF RestType
  <2> QED
    BY <2>3, <2>4, TypeParts
<1>2. \A e : At(e) = {}
  BY DEF At
<1>3. \A s : Nodes(s) = {}
  BY DEF Nodes
<1>4. Counted
  <2>1. \A e \in Entry : Cardinality(At(e)) = 0
    BY <1>2, FS_EmptySet
  <2>2. Cardinality(held) = 0
    BY FS_EmptySet
  <2> QED
    BY <2>1, <2>2 DEF Counted
<1>5. LowerBound /\ GroupCapSafe
  BY DEF LowerBound, GroupCapSafe
<1>6. Agreements
  <2>1. \A s \in Sta : Cardinality(Nodes(s)) = 0
    BY <1>3, FS_EmptySet
  <2>2. \A s \in Sta : mask[s] = FALSE
    OBVIOUS
  <2> QED
    BY <2>1, <2>2 DEF Agreements
<1>7. KnownAgree /\ Scheduled
  BY DEF KnownAgree, Scheduled
<1> QED
  BY <1>1, <1>4, <1>5, <1>6, <1>7 DEF Inv, TableInv

(* What a step leaves alone beside the table and the stations.              *)
LEMMA ScheduledSame ==
  ASSUME Scheduled, UNCHANGED <<started, vif, up, stopping, work, freed>>
  PROVE  Scheduled'
  BY DEF Scheduled, work

LEMMA SetupInv ==
  ASSUME Inv, NEW s \in Sta, NEW q \in Requests, Setup(s, q)
  PROVE  Inv'
<1> USE TwtAssumption
<1>0. TypeOK /\ TableInv /\ Agreements /\ KnownAgree /\ Scheduled
  BY DEF Inv
<1>1. /\ UNCHANGED <<algo, started, vif, env, stopping, work, freed, missed,
                     restarts>>
      /\ on[s] \in up
      /\ setups' \in 0 .. MaxSetup
  <2>1. setups < MaxSetup /\ setups' = setups + 1
    BY DEF Setup
  <2> QED
    BY <1>0, <2>1 DEF Setup, TypeOK
<1>2. Scheduled'
  BY <1>0, <1>1, ScheduledSame DEF env
<1>3. q \in Wake /\ idle[s] \in Nat
  BY <1>0 DEF TypeOK
<1>4. Agreed(q, idle[s]) \in Wake
  BY <1>3, AgreedType
<1>5. on[s] # None
  BY <1>0, <1>1 DEF TypeOK
<1>6. ASSUME UNCHANGED <<mask, flow, entry, fails>>,
             \/ reply' = [reply EXCEPT ![s] = None]
             \/ Answer(s, "ACCEPT", q) \/ Answer(s, "DICTATE", Agreed(q, idle[s]))
      PROVE  RestType' /\ KnownAgree'
  <2>1. reply' \in [Sta -> [cmd : {"ACCEPT", "DICTATE"}, q : Wake] \cup {None}]
    BY <1>0, <1>3, <1>4, <1>6 DEF Answer, TypeOK
  <2>2. RestType'
    BY <1>0, <1>1, <1>6, <2>1 DEF TypeOK, RestType, env, work
  <2>3. KnownAgree'
    BY <1>0, <1>1, <1>6 DEF KnownAgree, env
  <2> QED
    BY <2>2, <2>3
<1>7. CASE \/ Repeat(s, q) \/ Dictate(s, q) \/ NotStarted(s)
  <2>1. UNCHANGED <<table, mask, flow, entry, fails>>
    BY <1>7 DEF Repeat, Dictate, NotStarted
  <2>2. \/ reply' = [reply EXCEPT ![s] = None]
        \/ Answer(s, "ACCEPT", q) \/ Answer(s, "DICTATE", Agreed(q, idle[s]))
    BY <1>7 DEF Repeat, Dictate, NotStarted, Reject
  <2>3. RestType' /\ KnownAgree'
    BY <1>6, <2>1, <2>2
  <2>4. TableType' /\ TableInv'
    BY <1>0, <1>1, <2>1, TableSame
  <2>5. Agreements'
    BY <1>0, <1>1, <2>1, AgreeSame DEF table
  <2> QED
    BY <1>2, <2>3, <2>4, <2>5, TypePartsNext DEF Inv
<1>8. CASE NoPlace(s)
  <2>1. minNum' = NewMin /\ UNCHANGED <<sub, allocNum, held, mask, flow, entry, fails>>
    BY <1>8 DEF NoPlace
  <2>2. RestType' /\ KnownAgree'
    BY <1>6, <1>8, <2>1 DEF NoPlace, Reject
  <2>3. NewMin \in 0 .. MaxGroup
        /\ (algo = "BALANCED" => \A e \in Entry : NewMin <= sub[e])
    BY <1>0, NewMinBound DEF TableInv
  <2>4. TableType' /\ LowerBound'
    BY <1>0, <1>1, <2>1, <2>3 DEF TypeOK, TableType, LowerBound
  <2>5. Counted' /\ GroupCapSafe'
    BY <1>0, <1>1, <2>1 DEF TableInv, Counted, GroupCapSafe, At
  <2>6. Agreements'
    BY <1>0, <1>1, <2>1, AgreeSame
  <2> QED
    BY <1>2, <2>2, <2>4, <2>5, <2>6, TypePartsNext DEF Inv, TableInv
<1>9. CASE Found /\ NoMemory(s)
  <2>1. /\ minNum' = NewMin /\ Take(Place, None)
        /\ UNCHANGED <<mask, flow, entry>>
        /\ reply' = [reply EXCEPT ![s] = None]
        /\ fails < MaxFail /\ fails' = fails + 1
    BY <1>9 DEF NoMemory, Reject
  <2>2. PICK p \in Node : p.entry = Place /\ p.sta = None /\ Put(p)
    BY <1>0, <2>1, PlaceType, TakePuts
  <2>3. TableType' /\ TableInv'
    BY <1>0, <1>1, <1>9, <2>1, <2>2, TablePut
  <2>4. Agreements'
    BY <1>0, <1>1, <2>1, <2>2, AgreeNobody
  <2>5. fails' \in 0 .. MaxFail
    BY <1>0, <2>1 DEF TypeOK
  <2>6. reply' \in [Sta -> [cmd : {"ACCEPT", "DICTATE"}, q : Wake] \cup {None}]
    BY <1>0, <2>1 DEF TypeOK
  <2>7. RestType' /\ KnownAgree'
    BY <1>0, <1>1, <2>1, <2>5, <2>6
       DEF TypeOK, RestType, KnownAgree, env, work
  <2> QED
    BY <1>2, <2>3, <2>4, <2>7, TypePartsNext DEF Inv
<1>10. CASE Found /\ ~mask[s] /\ Accept(s, q)
  <2>1. /\ minNum' = NewMin /\ Take(Place, s)
        /\ mask' = [mask EXCEPT ![s] = TRUE]
        /\ entry' = [entry EXCEPT ![s] = Place]
        /\ flow' = [flow EXCEPT ![s] = Agreed(q, idle[s])]
        /\ Answer(s, "ACCEPT", q)
        /\ UNCHANGED fails
    BY <1>10 DEF Accept
  <2>2. Place \in Entry
    BY <1>0, PlaceType
  <2>3. PICK p \in Node : p.entry = Place /\ p.sta = s /\ Put(p)
    BY <1>0, <2>1, <2>2, TakePuts
  <2>4. TableType' /\ TableInv'
    BY <1>0, <1>1, <1>10, <2>1, <2>3, TablePut
  <2>5. Agreements'
    <3>1. entry' = [entry EXCEPT ![s] = p.entry]
      BY <2>1, <2>3
    <3> QED
      BY <1>0, <1>1, <1>10, <2>1, <2>3, <3>1, AgreePut
  <2>6. reply' \in [Sta -> [cmd : {"ACCEPT", "DICTATE"}, q : Wake] \cup {None}]
    BY <1>0, <1>3, <2>1 DEF TypeOK, Answer
  <2>7. flow' \in [Sta -> Wake \cup {None}] /\ mask' \in [Sta -> BOOLEAN]
        /\ entry' \in [Sta -> Entry \cup {None}]
    BY <1>0, <1>4, <2>1, <2>2 DEF TypeOK
  <2>8. RestType'
    BY <1>0, <1>1, <2>1, <2>6, <2>7 DEF TypeOK, RestType, env, work
  <2>9. KnownAgree'
    BY <1>0, <1>1, <1>5, <2>1 DEF TypeOK, KnownAgree, env
  <2> QED
    BY <1>2, <2>4, <2>5, <2>8, <2>9, TypePartsNext DEF Inv
<1> QED
  BY <1>7, <1>8, <1>9, <1>10 DEF Setup

LEMMA ZeroedTypes ==
  ASSUME TypeOK, NEW S, Zeroed(S)
  PROVE  /\ mask' \in [Sta -> BOOLEAN] /\ flow' \in [Sta -> Wake \cup {None}]
         /\ entry' \in [Sta -> Entry \cup {None}]
         /\ reply' \in [Sta -> [cmd : {"ACCEPT", "DICTATE"}, q : Wake] \cup {None}]
         /\ \A t \in S : t \in Sta => ~mask'[t]
         /\ \A t \in Sta : t \notin S => mask'[t] = mask[t] /\ entry'[t] = entry[t]
<1>1. mask' \in [Sta -> BOOLEAN]
  BY DEF Zeroed, TypeOK
<1>2. flow' \in [Sta -> Wake \cup {None}]
  BY DEF Zeroed, TypeOK
<1>3. entry' \in [Sta -> Entry \cup {None}]
  BY DEF Zeroed, TypeOK
<1>4. reply' \in [Sta -> [cmd : {"ACCEPT", "DICTATE"}, q : Wake] \cup {None}]
  BY DEF Zeroed, TypeOK
<1>5. \A t \in Sta : mask'[t] = (mask[t] /\ t \notin S)
                    /\ entry'[t] = IF t \in S THEN None ELSE entry[t]
  BY DEF Zeroed
<1>6. \A t \in Sta : mask[t] \in BOOLEAN
  BY DEF TypeOK
<1> QED
  BY <1>1, <1>2, <1>3, <1>4, <1>5, <1>6

LEMMA TeardownInv ==
  ASSUME Inv, NEW s \in Sta, Teardown(s)
  PROVE  Inv'
<1>0. TypeOK /\ TableInv /\ Agreements /\ KnownAgree /\ Scheduled
  BY DEF Inv
<1>1. /\ Delete(s)
      /\ mask' = [mask EXCEPT ![s] = @ /\ ~started]
      /\ reply' = [reply EXCEPT ![s] = None]
      /\ UNCHANGED <<algo, started, vif, flow, entry, env, stopping, work, freed,
                     missed, bounds>>
  BY DEF Teardown
<1>2. /\ mask' \in [Sta -> BOOLEAN]
      /\ mask'[s] = (mask[s] /\ ~started)
      /\ \A t \in Sta : t # s => mask'[t] = mask[t]
  BY <1>0, <1>1 DEF TypeOK
<1>3. TableType' /\ TableInv'
  BY <1>0, <1>1, TableDelete
<1>4. Agreements'
  <2>1. \/ ~mask'[s] /\ (~mask[s] \/ started)
        \/ ~started /\ mask'[s] = mask[s] /\ entry'[s] = entry[s]
    <3>1. started \in BOOLEAN /\ mask[s] \in BOOLEAN
      BY <1>0 DEF TypeOK
    <3> QED
      BY <1>1, <1>2, <3>1
  <2> QED
    BY <1>0, <1>1, <1>2, <2>1, AgreeDelete
<1>5. RestType'
  <2>1. reply' \in [Sta -> [cmd : {"ACCEPT", "DICTATE"}, q : Wake] \cup {None}]
    BY <1>0, <1>1 DEF TypeOK
  <2> QED
    BY <1>0, <1>1, <1>2, <2>1 DEF TypeOK, RestType, env, work, bounds
<1>6. KnownAgree'
  BY <1>0, <1>1, <1>2 DEF KnownAgree, env
<1>7. Scheduled'
  BY <1>0, <1>1, ScheduledSame DEF env
<1> QED
  BY <1>3, <1>4, <1>5, <1>6, <1>7, TypePartsNext DEF Inv

LEMMA StaAddInv ==
  ASSUME Inv, NEW s \in Sta, NEW v \in Vif, NEW i \in Idles, StaAdd(s, v, i)
  PROVE  Inv'
<1> USE TwtAssumption
<1>0. TypeOK /\ TableInv /\ Agreements /\ KnownAgree /\ Scheduled
  BY DEF Inv
<1>1. /\ on[s] = None /\ Zeroed({s})
      /\ on' = [on EXCEPT ![s] = v] /\ idle' = [idle EXCEPT ![s] = i]
      /\ UNCHANGED <<algo, started, vif, table, up, stopping, work, freed,
                     missed, bounds>>
  BY DEF StaAdd
<1>2. /\ mask' \in [Sta -> BOOLEAN] /\ flow' \in [Sta -> Wake \cup {None}]
      /\ entry' \in [Sta -> Entry \cup {None}]
      /\ reply' \in [Sta -> [cmd : {"ACCEPT", "DICTATE"}, q : Wake] \cup {None}]
      /\ ~mask'[s]
      /\ \A t \in Sta : t # s => mask'[t] = mask[t] /\ entry'[t] = entry[t]
  BY <1>0, <1>1, ZeroedTypes
<1>3. TableType' /\ TableInv'
  BY <1>0, <1>1, TableSame
<1>4. ~mask[s]
  BY <1>0, <1>1 DEF KnownAgree
<1>5. Agreements'
  BY <1>0, <1>1, <1>2, <1>4, AgreeSame DEF table
<1>6. on' \in [Sta -> Vif \cup {None}] /\ idle' \in [Sta -> Nat]
  BY <1>0, <1>1 DEF TypeOK
<1>7. RestType'
  BY <1>0, <1>1, <1>2, <1>6 DEF TypeOK, RestType, work, bounds
<1>8. KnownAgree'
  BY <1>0, <1>1, <1>2 DEF KnownAgree, TypeOK
<1>9. Scheduled'
  BY <1>0, <1>1, ScheduledSame
<1> QED
  BY <1>3, <1>5, <1>7, <1>8, <1>9, TypePartsNext DEF Inv

LEMMA StaRemoveInv ==
  ASSUME Inv, NEW s \in Sta, StaRemove(s)
  PROVE  Inv'
<1>0. TypeOK /\ TableInv /\ Agreements /\ KnownAgree /\ Scheduled
  BY DEF Inv
<1>1. /\ Delete(s) /\ Zeroed({s})
      /\ on' = [on EXCEPT ![s] = None] /\ idle' = [idle EXCEPT ![s] = 0]
      /\ missed' = missed \cup {o \in {s} : mask[o] /\ ~started}
      /\ UNCHANGED <<algo, started, vif, up, stopping, work, freed, bounds>>
  BY DEF StaRemove
<1>2. /\ mask' \in [Sta -> BOOLEAN] /\ flow' \in [Sta -> Wake \cup {None}]
      /\ entry' \in [Sta -> Entry \cup {None}]
      /\ reply' \in [Sta -> [cmd : {"ACCEPT", "DICTATE"}, q : Wake] \cup {None}]
      /\ ~mask'[s]
      /\ \A t \in Sta : t # s => mask'[t] = mask[t] /\ entry'[t] = entry[t]
  BY <1>0, <1>1, ZeroedTypes
<1>3. TableType' /\ TableInv'
  BY <1>0, <1>1, TableDelete
<1>4. missed \subseteq missed' /\ (~mask[s] \/ started \/ s \in missed')
      /\ missed' \subseteq Sta
  BY <1>0, <1>1 DEF TypeOK
<1>5. Agreements'
  BY <1>0, <1>1, <1>2, <1>4, AgreeDelete
<1>6. on' \in [Sta -> Vif \cup {None}] /\ idle' \in [Sta -> Nat]
  BY <1>0, <1>1 DEF TypeOK
<1>7. RestType'
  BY <1>0, <1>1, <1>2, <1>4, <1>6 DEF TypeOK, RestType, work, bounds
<1>8. KnownAgree'
  BY <1>0, <1>1, <1>2 DEF KnownAgree, TypeOK
<1>9. Scheduled'
  BY <1>0, <1>1, ScheduledSame
<1> QED
  BY <1>3, <1>5, <1>7, <1>8, <1>9, TypePartsNext DEF Inv

LEMMA RestartInv ==
  ASSUME Inv, Restart
  PROVE  Inv'
<1>0. TypeOK /\ TableInv /\ Agreements /\ KnownAgree /\ Scheduled
  BY DEF Inv
<1>1. /\ restarts < MaxRestart /\ restarts' = restarts + 1
      /\ Zeroed(Known) /\ missed' = missed \cup {s \in Known : mask[s]}
      /\ UNCHANGED <<algo, started, vif, table, env, stopping, work, freed,
                     setups, fails>>
  BY DEF Restart
<1>2. /\ mask' \in [Sta -> BOOLEAN] /\ flow' \in [Sta -> Wake \cup {None}]
      /\ entry' \in [Sta -> Entry \cup {None}]
      /\ reply' \in [Sta -> [cmd : {"ACCEPT", "DICTATE"}, q : Wake] \cup {None}]
      /\ \A t \in Known : t \in Sta => ~mask'[t]
      /\ \A t \in Sta : t \notin Known =>
           mask'[t] = mask[t] /\ entry'[t] = entry[t]
  <2> HIDE DEF Known
  <2> QED
    BY <1>0, <1>1, ZeroedTypes
<1>3. TableType' /\ TableInv'
  BY <1>0, <1>1, TableSame
<1>4. missed \subseteq missed' /\ missed' \subseteq Sta
      /\ \A t \in Known : t \in missed' \/ ~mask[t]
  BY <1>0, <1>1 DEF TypeOK, Known
<1>5. Agreements'
  <2>1. \A t \in Sta : \/ mask'[t] = mask[t] /\ entry'[t] = entry[t]
                       \/ ~mask'[t] /\ (t \in missed' \/ ~mask[t])
    BY <1>2, <1>4
  <2> QED
    BY <1>0, <1>1, <1>4, <2>1, AgreeSame DEF table
<1>6. restarts' \in 0 .. MaxRestart
  BY <1>0, <1>1, TwtAssumption DEF TypeOK
<1>7. RestType'
  BY <1>0, <1>1, <1>2, <1>4, <1>6 DEF TypeOK, RestType, work, env
<1>8. KnownAgree'
  BY <1>0, <1>1, <1>2 DEF KnownAgree, env
<1>9. Scheduled'
  BY <1>0, <1>1, ScheduledSame DEF env
<1> QED
  BY <1>3, <1>5, <1>7, <1>8, <1>9, TypePartsNext DEF Inv

(* The scheduler is started, stopped or ticks: no agreement changes.        *)
LEMMA SchedulerInv ==
  ASSUME Inv, Scheduled',
         UNCHANGED <<algo, table, staVars, on, idle, missed, bounds>>,
         started' \in BOOLEAN, vif' \in Vif \cup {None}, up' \subseteq Vif,
         stopping' \in Vif \cup {None}, timerOn' \in BOOLEAN,
         pend' \in BOOLEAN, running' \in BOOLEAN, freed' \in BOOLEAN
  PROVE  Inv'
<1>0. TypeOK /\ TableInv /\ Agreements /\ KnownAgree
  BY DEF Inv
<1>1. TableType' /\ TableInv'
  BY <1>0, TableSame
<1>2. Agreements'
  BY <1>0, AgreeSame DEF table, staVars
<1>3. RestType'
  BY <1>0 DEF TypeOK, RestType, staVars, bounds
<1>4. KnownAgree'
  BY <1>0 DEF KnownAgree, staVars
<1> QED
  BY <1>1, <1>2, <1>3, <1>4, TypePartsNext DEF Inv

LEMMA SchedulerSteps ==
  ASSUME Inv,
         \/ \E v \in Vif : Start(v) \/ StopBegin(v)
         \/ StopEnd \/ Tick \/ WorkerCalled \/ WorkerRun \/ Deinit
  PROVE  Inv'
<1> USE TwtAssumption
<1>0. TypeOK /\ Scheduled
  BY DEF Inv
<1>1. ASSUME NEW v \in Vif, Start(v) PROVE Inv'
  <2>1. /\ Unlocked /\ up' = up \cup {v}
        /\ \/ started' = TRUE /\ vif' = v /\ timerOn' = TRUE
           \/ UNCHANGED <<started, vif, timerOn>>
        /\ UNCHANGED <<stopping, pend, running, freed>>
    BY <1>1 DEF Start
  <2>2. Scheduled'
    BY <1>0, <2>1 DEF Unlocked, Scheduled
  <2>3. /\ started' \in BOOLEAN /\ vif' \in Vif \cup {None}
        /\ up' \subseteq Vif /\ timerOn' \in BOOLEAN
    BY <1>0, <2>1 DEF TypeOK
  <2> QED
    BY <1>0, <1>1, <2>2, <2>3, SchedulerInv DEF Start, TypeOK
<1>2. ASSUME NEW v \in Vif, StopBegin(v) PROVE Inv'
  BY <1>0, <1>2, SchedulerInv DEF StopBegin, Unlocked, TypeOK, Scheduled
<1>3. CASE StopEnd
  BY <1>0, <1>3, SchedulerInv DEF StopEnd, Idle, TypeOK, Scheduled, env, work
<1>4. CASE Tick
  BY <1>0, <1>4, SchedulerInv DEF Tick, TypeOK, Scheduled, env
<1>5. CASE WorkerCalled
  BY <1>0, <1>5, SchedulerInv DEF WorkerCalled, TypeOK, Scheduled, env
<1>6. CASE WorkerRun
  BY <1>0, <1>6, SchedulerInv DEF WorkerRun, TypeOK, Scheduled, env
<1>7. CASE Deinit
  BY <1>0, <1>7, SchedulerInv
     DEF Deinit, Unlocked, TypeOK, Scheduled, env, work
<1> QED
  BY <1>1, <1>2, <1>3, <1>4, <1>5, <1>6, <1>7

LEMMA StutterInv == Inv /\ UNCHANGED vars => Inv'
<1> SUFFICES ASSUME Inv, UNCHANGED vars PROVE Inv'
  OBVIOUS
<1>1. TypeOK /\ Scheduled
  BY DEF Inv
<1>2. Scheduled'
  BY <1>1, ScheduledSame DEF vars, env
<1> QED
  BY <1>1, <1>2, SchedulerInv DEF vars, env, work, TypeOK

LEMMA NextInv == Inv /\ [Next]_vars => Inv'
  BY SetupInv, TeardownInv, StaAddInv, StaRemoveInv, RestartInv,
     SchedulerSteps, StutterInv DEF Next, StaStep

(* The inductive invariant.                                                *)
THEOREM SpecInv == Spec => []Inv
  BY InitInv, NextInv, PTL DEF Spec

(* Types: among them that the counters never fall below zero.               *)
THEOREM SpecTypeOK == Spec => []TypeOK
<1>1. Inv => TypeOK
  BY DEF Inv
<1> QED
  BY <1>1, SpecInv, PTL

(* sub_num and alloc_num agree with the lists.                              *)
THEOREM SpecCounted == Spec => []Counted
<1>1. Inv => Counted
  BY DEF Inv, TableInv
<1> QED
  BY <1>1, SpecInv, PTL

(* First come, first served, and groups of one, overfill no entry.          *)
THEOREM SpecGroupCapSafe == Spec => []GroupCapSafe
<1>1. Inv => GroupCapSafe
  BY DEF Inv, TableInv
<1> QED
  BY <1>1, SpecInv, PTL

(* A request finds room when some entry has it.                             *)
THEOREM SpecRoomIsFound == Spec => []RoomIsFound
<1>1. Inv => RoomIsFound
  <2> SUFFICES ASSUME Inv, ~Found, NEW e \in Entry PROVE sub[e] >= MaxGroup
    BY DEF RoomIsFound
  <2> USE TwtAssumption
  <2>1. /\ algo \in {"BALANCED", "FCFS"} /\ minNum \in Nat /\ sub[e] \in Nat
        /\ LowerBound
    BY DEF Inv, TypeOK, TableInv
  <2>2. e \notin Candidates /\ Candidates = {} /\ ~Again
    BY DEF Found
  <2>3. CASE algo = "FCFS"
    BY <2>1, <2>2, <2>3 DEF Candidates
  <2>4. CASE algo = "BALANCED"
    <3>1. minNum <= sub[e]
      BY <2>1, <2>4 DEF LowerBound
    <3>2. minNum < MaxGroup => sub[e] # minNum /\ minNum + 1 >= MaxGroup
      BY <2>1, <2>2, <2>4 DEF Candidates, Again, Raises
    <3> QED
      BY <2>1, <3>1, <3>2
  <2> QED
    BY <2>1, <2>3, <2>4
<1> QED
  BY <1>1, SpecInv, PTL

(* Bits, entry pointers and lists agree.                                    *)
THEOREM SpecAgreements == Spec => []Agreements
<1>1. Inv => Agreements
  BY DEF Inv
<1> QED
  BY <1>1, SpecInv, PTL

(* The worker finds an interface, and is idle once the scheduler is freed.  *)
THEOREM SpecWorkerSafe == Spec => []WorkerSafe
<1>1. Inv => WorkerSafe
  BY DEF Inv, Scheduled, WorkerSafe
<1> QED
  BY <1>1, SpecInv, PTL

-----------------------------------------------------------------------------
(* What the scheduler dictates it accepts.                                  *)

LEMMA AgreedWithin ==
  ASSUME NEW q \in Wake, NEW limit \in Nat, limit = 0 \/ limit >= Interval
  PROVE  limit = 0 \/ Agreed(q, limit).len <= limit
<1> SUFFICES ASSUME limit >= Interval, limit # 0
             PROVE  Interval * Rounded(Cut(q, limit)) <= limit
  BY DEF Agreed
<1> DEFINE k == q.len \div Interval
           short == {n \in 1 .. k - 1 : q.len - (k - n) * Interval <= limit}
           c == Cut(q, limit)
           r == Rounded(c)
<1>1. Interval \in Nat \ {0} /\ q.len \in Nat
  BY TwtAssumption DEF Wake
<1>2. c \in Nat /\ r \in Nat
  BY CutType, RoundedType DEF Powers
<1>3. k \in Nat /\ Interval * k <= q.len
  BY <1>1
<1>4. c = 1 \/ Interval * c <= limit
  <2>1. CASE q.len <= limit
    <3>1. c = k
      BY <2>1 DEF Cut
    <3> HIDE DEF c, k
    <3>2. Interval * c = Interval * k /\ Interval * k \in Nat
      BY <1>1, <1>3, <3>1
    <3> QED
      BY <1>1, <1>3, <2>1, <3>2
  <2>2. CASE q.len > limit /\ short = {}
    <3>1. ~(limit = 0 \/ q.len <= limit)
      BY <1>1, <2>2
    <3> QED
      BY <2>2, <3>1 DEF Cut
  <2>3. CASE q.len > limit /\ short # {}
    <3>1. ~(limit = 0 \/ q.len <= limit)
      BY <1>1, <2>3
    <3>2. c = CHOOSE n \in short : \A o \in short : o <= n
      BY <2>3, <3>1 DEF Cut
    <3>3. short \subseteq 0 .. k
      BY <1>3
    <3>4. c \in short
      <4> HIDE DEF short, c, k
      <4>1. \E n \in short : \A o \in short : o <= n
        BY <1>3, <2>3, <3>3, Largest
      <4> QED
        BY <3>2, <4>1
    <3>5. c \in 1 .. k - 1 /\ q.len - (k - c) * Interval <= limit
      <4> HIDE DEF c, k
      <4> QED
        BY <3>4
    <3> HIDE DEF c, k
    <3>6. (k - c) * Interval = k * Interval - c * Interval
          /\ k * Interval \in Nat /\ c * Interval \in Nat
      BY <1>1, <1>2, <1>3
    <3> QED
      BY <1>1, <1>2, <1>3, <3>5, <3>6
  <2> QED
    BY <1>1, <2>1, <2>2, <2>3
<1>5. r = 1 \/ r <= c
  <2> HIDE DEF c
  <2>1. c \in Nat => r = 1 \/ r <= c
    <3> SUFFICES ASSUME c \in Nat PROVE r = 1 \/ r <= c
      OBVIOUS
    <3> QED
      BY RoundedType
  <2> QED
    BY <1>2, <2>1
<1> HIDE DEF c, r
<1>6. CASE r = 1
  <2>1. Interval * r = Interval
    BY <1>1, <1>6
  <2> QED
    BY <2>1 DEF r, c
<1>7. CASE r <= c /\ c = 1
  <2>1. Interval * r <= Interval
    BY <1>1, <1>2, <1>7
  <2>2. Interval * r \in Nat
    BY <1>1, <1>2
  <2> QED
    BY <1>1, <2>1, <2>2 DEF r, c
<1>8. CASE r <= c /\ Interval * c <= limit
  <2>1. Interval * r <= Interval * c /\ Interval * r \in Nat
        /\ Interval * c \in Nat
    BY <1>1, <1>2, <1>8
  <2> QED
    BY <1>8, <2>1 DEF r, c
<1> QED
  BY <1>4, <1>5, <1>6, <1>7, <1>8

LEMMA AgreedFits ==
  ASSUME NEW q \in Wake, NEW limit \in Nat, limit = 0 \/ limit >= Interval
  PROVE  Fits(Agreed(q, limit), limit)
<1> DEFINE a == Agreed(q, limit)
           r == Rounded(Cut(q, limit))
<1>1. limit = 0 \/ a.len <= limit
  BY AgreedWithin
<1>2. r \in Powers /\ r \in Nat /\ Interval \in Nat \ {0}
  BY CutType, RoundedType, TwtAssumption DEF Powers
<1>3. a.len = Interval * r
  BY DEF Agreed
<1>4. Cut(a, limit) = a.len \div Interval
  BY <1>1 DEF Cut
<1> HIDE DEF r
<1>5. (Interval * r) \div Interval = r
  BY <1>2
<1>6. Cut(a, limit) = r
  BY <1>3, <1>4, <1>5
<1>7. Rounded(r) = r
  BY <1>2, RoundedPower
<1>8. Agreed(a, limit).len = a.len
  BY <1>3, <1>6, <1>7 DEF Agreed
<1> QED
  BY <1>1, <1>8 DEF Fits

(* An idle period is nought or at least the interval.                       *)
IdleKept == \A s \in Sta : idle[s] = 0 \/ idle[s] >= Interval
Settled == DictateSettles /\ IdleKept

LEMMA InitSettled == Init => Settled
  BY DEF Init, Settled, DictateSettles, IdleKept

(* Each station keeps its answer, or gets one, or loses it.                 *)
LEMMA SettledSame ==
  ASSUME Settled, Inv,
         \A t \in Sta :
           \/ idle'[t] = idle[t] /\ reply'[t] = reply[t]
           \/ /\ idle'[t] = 0 \/ idle'[t] >= Interval
              /\ reply'[t] = None
           \/ /\ idle'[t] = idle[t]
              /\ \/ reply'[t] = None
                 \/ reply'[t] # None /\ reply'[t].cmd = "ACCEPT"
                 \/ \E q \in Wake : reply'[t].q = Agreed(q, idle[t])
  PROVE  Settled'
<1>1. IdleKept'
  BY DEF Settled, IdleKept
<1>2. DictateSettles'
  <2> SUFFICES ASSUME NEW t \in Sta, reply'[t] # None, reply'[t].cmd = "DICTATE"
               PROVE  Fits(reply'[t].q, idle'[t])
    BY DEF DictateSettles
  <2>1. CASE idle'[t] = idle[t] /\ reply'[t] = reply[t]
    BY <2>1 DEF Settled, DictateSettles
  <2>2. ASSUME idle'[t] = idle[t], NEW q \in Wake,
               reply'[t].q = Agreed(q, idle[t])
        PROVE  Fits(reply'[t].q, idle'[t])
    <3>1. idle[t] \in Nat /\ (idle[t] = 0 \/ idle[t] >= Interval)
      BY DEF Inv, TypeOK, Settled, IdleKept
    <3>2. Fits(Agreed(q, idle[t]), idle[t])
      BY <3>1, AgreedFits
    <3> QED
      BY <2>2, <3>2
  <2> QED
    BY <2>1, <2>2
<1> QED
  BY <1>1, <1>2 DEF Settled

LEMMA SetupSettled ==
  ASSUME Inv, Settled, NEW s \in Sta, NEW q \in Requests, Setup(s, q)
  PROVE  Settled'
<1>1. TypeOK /\ q \in Wake
  BY TwtAssumption DEF Inv
<1>2. UNCHANGED idle
  BY DEF Setup, env
<1>3. \/ reply' = [reply EXCEPT ![s] = None]
      \/ Answer(s, "ACCEPT", q) \/ Answer(s, "DICTATE", Agreed(q, idle[s]))
  BY DEF Setup, Repeat, Dictate, NotStarted, NoPlace, NoMemory, Accept, Reject
<1>4. ASSUME NEW t \in Sta
      PROVE  \/ reply'[t] = reply[t]
             \/ reply'[t] = None
             \/ reply'[t] # None /\ reply'[t].cmd = "ACCEPT"
             \/ \E o \in Wake : reply'[t].q = Agreed(o, idle[t])
  <2>1. CASE t # s
    BY <1>1, <1>3, <2>1 DEF TypeOK, Answer
  <2>2. CASE t = s
    BY <1>1, <1>3, <2>2 DEF TypeOK, Answer
  <2> QED
    BY <2>1, <2>2
<1> QED
  BY <1>2, <1>4, SettledSame

LEMMA NextSettled == Inv /\ Settled /\ [Next]_vars => Settled'
<1> SUFFICES ASSUME Inv, Settled, [Next]_vars PROVE Settled'
  OBVIOUS
<1>0. TypeOK
  BY DEF Inv
<1>1. ASSUME NEW s \in Sta, NEW q \in Requests, Setup(s, q) PROVE Settled'
  BY <1>1, SetupSettled
<1>2. ASSUME NEW s \in Sta, Teardown(s) PROVE Settled'
  <2>1. reply' = [reply EXCEPT ![s] = None] /\ idle' = idle
    BY <1>2 DEF Teardown, env
  <2>2. \A t \in Sta : reply'[t] = reply[t] \/ reply'[t] = None
    BY <1>0, <2>1 DEF TypeOK
  <2> QED
    BY <2>1, <2>2, SettledSame
<1>3. ASSUME NEW s \in Sta, StaRemove(s) PROVE Settled'
  <2>1. Zeroed({s}) /\ idle' = [idle EXCEPT ![s] = 0]
    BY <1>3 DEF StaRemove
  <2>2. \A t \in Sta : \/ idle'[t] = idle[t] /\ reply'[t] = reply[t]
                       \/ idle'[t] = 0 /\ reply'[t] = None
    BY <1>0, <2>1 DEF TypeOK, Zeroed
  <2> QED
    BY <2>2, SettledSame
<1>4. ASSUME NEW s \in Sta, NEW v \in Vif, NEW i \in Idles, StaAdd(s, v, i)
      PROVE  Settled'
  <2>1. Zeroed({s}) /\ idle' = [idle EXCEPT ![s] = i]
    BY <1>4 DEF StaAdd
  <2>2. i = 0 \/ i >= Interval
    BY IdleAssumption
  <2>3. \A t \in Sta : \/ idle'[t] = idle[t] /\ reply'[t] = reply[t]
                       \/ idle'[t] = i /\ reply'[t] = None
    BY <1>0, <2>1 DEF TypeOK, Zeroed
  <2> QED
    BY <2>2, <2>3, SettledSame
<1>5. CASE Restart
  <2>1. Zeroed(Known) /\ idle' = idle
    BY <1>5 DEF Restart, env
  <2>2. \A t \in Sta : reply'[t] = reply[t] \/ reply'[t] = None
    BY <1>0, <2>1 DEF TypeOK, Zeroed
  <2> QED
    BY <2>1, <2>2, SettledSame
<1>6. CASE UNCHANGED <<reply, idle>>
  BY <1>6, SettledSame
<1>7. \/ \E s \in Sta : StaStep(s)
      \/ Restart
      \/ UNCHANGED <<reply, idle>>
  BY DEF Next, Start, StopBegin, StopEnd, Tick, WorkerCalled, WorkerRun, Deinit,
         vars, staVars, env
<1> QED
  BY <1>1, <1>2, <1>3, <1>4, <1>5, <1>6, <1>7 DEF StaStep

(* A station that asks for what it was dictated gets it.                    *)
THEOREM SpecDictateSettles == Spec => []DictateSettles
<1>1. Settled => DictateSettles
  BY DEF Settled
<1> QED
  BY <1>1, InitSettled, NextSettled, SpecInv, PTL DEF Spec

-----------------------------------------------------------------------------
(* PowerSave.                                                              *)

\* One thread puts the target to sleep: idle mode is not combined with another
\* way to sleep.
OneWay == \A c \in Confs : c.idle => c.mode = "none" \/ (c.mode = "modem" /\ ~c.dyn)

\* The thread that puts the target to sleep, and where it is.
Sleeper == IF conf.dyn /\ conf.mode # "none" THEN "work" ELSE "mac"
Stage == pc[Sleeper]
ByModem == ~Deep /\ op[Sleeper] \in {"ps_work", "config"}

Falling == {"begin", "wim", "suspend", "flush", "end"}
Doings == {"none", "ps_work", "config", "idle", "suspend", "command"}
Wims == {"deep", "modem", "off"}
Bounds == [sleeps : Nat, ops : Nat, frames : Nat, tims : Nat, refusals : Nat, missing : Nat, crashes : Nat]

PsTypes ==
    /\ conf \in Confs
    /\ pc \in [Threads -> {"idle", "wait"} \cup Falling]
    /\ op \in [Threads -> Doings]
    /\ ps \in [on : BOOLEAN, modem : BOOLEAN]
    /\ hifq \in Seq(Wims)
    /\ done \in Nat
    /\ susp \in BOOLEAN /\ deaf \in BOOLEAN /\ hostOff \in BOOLEAN /\ high \in BOOLEAN
    /\ idling \in BOOLEAN /\ timer \in BOOLEAN /\ queued \in BOOLEAN
    /\ left \in Bounds /\ left.sleeps <= conf.sleeps /\ left.crashes <= Crashes /\ left.missing <= Missing

\* The order to sleep is not in the queue q, or it is there once.
TellsNot(q) == \A i \in DOMAIN q : q[i] # "deep"
TellsOnce(q) == \E i \in DOMAIN q : q[i] = "deep" /\ \A j \in DOMAIN q : q[j] = "deep" => j = i

\* The order to sleep is on its way; it has been carried out, and perhaps the
\* target wakes already; it has been refused.
Ordered == TellsOnce(hifq) /\ tgt = "awake" /\ ev = "none"
Asleep == tgt = "asleep" /\ ev = "none"
Waking == tgt = "loading" /\ ev = "fw_download"
Refused == tgt = "awake" /\ ev = "failed_ps"
Obeyed == TellsNot(hifq) /\ (Asleep \/ Waking \/ Refused)

Quiet == irq \in {"idle", "woken"} /\ fw = "ACTIVE"
Awake == drv = "RUNNING" /\ ~susp /\ Quiet /\ TellsNot(hifq) /\ tgt = "awake" /\ ev = "none"
\* The host has gone to sleep, and the target is on its way out of it or not.
Away ==
    /\ drv = "PS" /\ susp /\ TellsNot(hifq)
    /\ \/ Quiet /\ (Asleep \/ Waking \/ Refused)
       \/ fw = "ACTIVE" /\ irq = "checked" /\ (Waking \/ Refused)
       \/ fw = "ACTIVE" /\ irq = "fw_download" /\ tgt = "loading" /\ ev = "none"
       \/ fw = "ACTIVE" /\ irq = "failed_ps" /\ tgt = "awake" /\ ev = "none"
       \/ fw = "LOADING" /\ irq \in {"idle", "checked"} /\ tgt = "awake" /\ ev = "ready_ps"
       \/ fw = "LOADING" /\ irq = "ready_ps" /\ tgt = "awake" /\ ev = "none"

\* How far host and target are, by where the sleeper is.
Course ==
    \/ Stage \in {"idle", "wait"} /\ (Awake \/ Away)
    \/ Stage \in {"begin", "wim"} /\ Awake
    \/ Stage = "suspend" /\ drv = "RUNNING" /\ ~susp /\ deaf /\ Quiet /\ (Ordered \/ Obeyed)
    \/ Stage = "flush" /\ drv = "PS" /\ susp /\ deaf /\ Quiet /\ (Ordered \/ Obeyed)
    \/ Stage = "end" /\ ByModem /\ Awake
    \/ Stage = "end" /\ ~ByModem /\ drv = "PS" /\ susp /\ deaf /\ Quiet /\ Obeyed

Down == drv = "PS" \/ Stage = "suspend"

\* What each thread may be doing, and why.
Roles ==
    /\ ~hostOff
    /\ Sleeper = "mac" => pc["work"] = "idle"
    /\ Sleeper = "work" => pc["mac"] \in {"idle", "wait"}
    /\ pc["work"] # "wait"
    /\ ~conf.dyn => ~timer /\ ~queued
    /\ conf.mode = "none" => ~ps.on
    /\ pc["work"] \in Falling => op["work"] = "ps_work"
    /\ pc["mac"] \in Falling => \/ op["mac"] = "config" /\ conf.mode # "none"
                                \/ op["mac"] \in {"idle", "command"} /\ conf.idle /\ idling
    /\ pc["mac"] = "wait" => op["mac"] \in {"config", "idle", "command"}
    /\ Stage \in {"suspend", "flush"} => ~ByModem
    /\ Stage = "wim" => deaf
    /\ Down => Deep \/ conf.idle

\* In idle mode mac80211 is the sleeper: it waits for the completion that the
\* return from power save makes, and nothing else makes one.
Waits ==
    conf.idle =>
        /\ irq = "woken" => pc["mac"] = "wait" /\ done = 0 /\ drv = "RUNNING"
        /\ Down \/ (pc["mac"] = "wim" /\ ~ByModem) => done = 0
        /\ pc["mac"] = "wim" /\ ~ByModem => ~high
        /\ Down /\ pc["mac"] # "wait" =>
               /\ idling /\ ~high /\ fw = "ACTIVE" /\ tgt # "loading" /\ ev # "ready_ps"
               /\ irq \notin {"fw_download", "ready_ps"}
        /\ Down /\ pc["mac"] = "wait" => high

InStepPs == Course /\ Roles /\ Waits

\* No frame meets the order to deep sleep on its way.
Closed == Deep /\ Stage \in {"wim", "suspend", "flush"} => stopped

PsInv == PsTypes /\ (Unharmed => InStepPs /\ Closed)

-----------------------------------------------------------------------------
(* Types.                                                                  *)

LEMMA ConfType ==
    ASSUME PsTypes
    PROVE  /\ conf \in [mode : {"none", "modem", "deep"}, dyn : BOOLEAN, idle : BOOLEAN, sleeps : Nat]
           /\ Crashes \in Nat /\ Missing \in Nat
  BY PowerSaveAssumption DEF PsTypes

LEMMA PsInitTypes == PsInit => PsTypes
  <1> SUFFICES ASSUME PsInit PROVE PsTypes
    OBVIOUS
  <1>1. conf \in [mode : {"none", "modem", "deep"}, dyn : BOOLEAN, idle : BOOLEAN, sleeps : Nat]
    BY PowerSaveAssumption DEF PsInit
  <1>2. left \in Bounds /\ left.sleeps <= conf.sleeps /\ left.crashes <= Crashes /\ left.missing <= Missing
    BY <1>1, PowerSaveAssumption DEF PsInit, Bounds
  <1>3. <<>> \in Seq(Wims)
    OBVIOUS
  <1>4. pc \in [Threads -> {"idle", "wait"} \cup Falling] /\ op \in [Threads -> Doings]
    BY DEF PsInit, Falling, Doings
  <1>5. ps \in [on : BOOLEAN, modem : BOOLEAN]
    BY DEF PsInit
  <1> QED BY <1>2, <1>3, <1>4, <1>5, Zenon DEF PsInit, PsTypes

\* What is left stays within the bounds.
Within(l) == /\ l \in Bounds /\ l.sleeps <= conf.sleeps
             /\ l.crashes <= Crashes /\ l.missing <= Missing

\* A bound that is spent goes down by one.
LEMMA SpendTypes ==
    ASSUME PsTypes, NEW b \in {"sleeps", "ops", "frames", "tims", "refusals", "missing", "crashes"}, Spend(b)
    PROVE  /\ Within(left')
           /\ left'.sleeps <= left.sleeps /\ left'.crashes <= left.crashes /\ left'.missing <= left.missing
           /\ b = "sleeps" => left'.sleeps < left.sleeps
           /\ b = "crashes" => left'.crashes < left.crashes
           /\ b = "missing" => left'.missing < left.missing
  <1>1. left \in Bounds /\ left.sleeps <= conf.sleeps /\ left.crashes <= Crashes /\ left.missing <= Missing
        /\ conf.sleeps \in Nat /\ Crashes \in Nat /\ Missing \in Nat
    BY ConfType DEF PsTypes
  <1>2. b \in DOMAIN left /\ left[b] \in Nat /\ left[b] > 0 /\ left' = [left EXCEPT ![b] = left[b] - 1]
    BY <1>1 DEF Bounds, Spend
  <1>3. left' \in Bounds
    BY <1>1, <1>2 DEF Bounds
  <1>4. /\ left'.sleeps = IF b = "sleeps" THEN left.sleeps - 1 ELSE left.sleeps
        /\ left'.crashes = IF b = "crashes" THEN left.crashes - 1 ELSE left.crashes
        /\ left'.missing = IF b = "missing" THEN left.missing - 1 ELSE left.missing
    BY <1>1, <1>2 DEF Bounds
  <1>5. left.sleeps \in Nat /\ left.crashes \in Nat /\ left.missing \in Nat
    BY <1>1 DEF Bounds
  <1> QED BY <1>1, <1>3, <1>4, <1>5 DEF Within

\* A thread goes on, and the WIMs stay WIMs.
LEMMA GotoTypes ==
    ASSUME PsTypes, NEW t \in Threads, NEW p \in {"idle", "wait"} \cup Falling, Goto(t, p)
    PROVE  /\ pc' \in [Threads -> {"idle", "wait"} \cup Falling] /\ pc'[t] = p
           /\ \A s \in Threads : s # t => pc'[s] = pc[s]
  BY DEF PsTypes, Goto

LEMMA EnterTypes ==
    ASSUME PsTypes, NEW t \in Threads, NEW o \in Doings, NEW p \in {"idle", "wait"} \cup Falling, Enter(t, o, p)
    PROVE  /\ pc' \in [Threads -> {"idle", "wait"} \cup Falling] /\ op' \in [Threads -> Doings]
           /\ pc'[t] = p /\ op'[t] = o
           /\ \A s \in Threads : s # t => pc'[s] = pc[s] /\ op'[s] = op[s]
  BY DEF PsTypes, Goto, Enter

LEMMA WimTypes ==
    ASSUME PsTypes, NEW w \in Wims, Wim(w)
    PROVE  hifq' \in Seq(Wims)
  BY DEF PsTypes, Wim
LEMMA FallTypes ==
    ASSUME PsTypes, NEW t \in Threads, Fall(t)
    PROVE  PsTypes'
  <1>1. CASE Begin(t)
    <2>1. pc' \in [Threads -> {"idle", "wait"} \cup Falling]
      BY <1>1, GotoTypes DEF Begin, Falling
    <2> QED BY <1>1, <2>1 DEF Begin, PsTypes
  <1>2. CASE SendPs(t)
    <2> DEFINE modem == ~Deep /\ op[t] \in {"ps_work", "config"}
               p == IF modem \/ (op[t] = "suspend" /\ conf.dyn) THEN "end" ELSE "suspend"
               w == IF modem THEN "modem" ELSE "deep"
    <2>1. p \in {"idle", "wait"} \cup Falling /\ w \in Wims
      BY DEF Falling, Wims
    <2>2. Goto(t, p) /\ Wim(w) /\ ps' = [ps EXCEPT !.modem = @ \/ modem]
          /\ UNCHANGED <<flags, conf, idling, timer, queued, want, op, irq, tgt, ev, left>>
      BY <1>2, Zenon DEF SendPs
    <2> HIDE DEF p, w, modem
    <2>3. pc' \in [Threads -> {"idle", "wait"} \cup Falling] /\ hifq' \in Seq(Wims)
      BY <2>1, <2>2, GotoTypes, WimTypes, Zenon
    <2>4. ps' \in [on : BOOLEAN, modem : BOOLEAN]
      BY <2>2 DEF PsTypes, modem
    <2> QED BY <2>2, <2>3, <2>4, Zenon DEF PsTypes, flags
  <1>3. CASE Suspend(t)
    <2>1. pc' \in [Threads -> {"idle", "wait"} \cup Falling]
      BY <1>3, GotoTypes DEF Suspend, Falling
    <2> QED BY <1>3, <2>1 DEF Suspend, PsTypes, mac
  <1>4. CASE Flush(t)
    <2>1. pc' \in [Threads -> {"idle", "wait"} \cup Falling]
      BY <1>4, GotoTypes DEF Flush, Falling
    <2>2. hifq' \in Seq(Wims)
      BY <1>4 DEF Flush
    <2> QED BY <1>4, <2>1, <2>2, Zenon DEF Flush, PsTypes, mac, flags
  <1>5. CASE End(t)
    <2>1. pc' \in [Threads -> {"idle", "wait"} \cup Falling] /\ op' \in [Threads -> Doings]
      BY <1>5, EnterTypes DEF End, Falling, Doings
    <2> QED BY <1>5, <2>1 DEF End, PsTypes, mac
  <1> QED BY <1>1, <1>2, <1>3, <1>4, <1>5, Zenon DEF Fall

\* What a call of mac80211 leaves of the types.
LEMMA CallTypes ==
    ASSUME PsTypes, NEW b \in {"ops", "sleeps"}, Called(b),
           UNCHANGED <<conf, susp, deaf, hostOff, done, queued, hifq>>,
           timer' \in BOOLEAN, idling' \in BOOLEAN, high' \in BOOLEAN, ps' \in [on : BOOLEAN, modem : BOOLEAN],
           \/ UNCHANGED thr
           \/ \E o \in Doings, p \in {"idle", "wait"} \cup Falling : Enter("mac", o, p)
    PROVE  PsTypes'
  <1>1. Within(left')
    BY SpendTypes, Zenon DEF Called
  <1>2. pc' \in [Threads -> {"idle", "wait"} \cup Falling] /\ op' \in [Threads -> Doings]
    <2>1. CASE UNCHANGED thr
      BY <2>1 DEF thr, PsTypes
    <2>2. "mac" \in Threads
      BY DEF Threads
    <2> QED BY <2>1, <2>2, EnterTypes
  <1> QED BY <1>1, <1>2, Zenon DEF PsTypes, Within

LEMMA ThenPlace == ASSUME NEW o PROVE Then(o) \in {"idle", "wait"} \cup Falling
  BY DEF Then, Falling

LEMMA WakeForTypes ==
    ASSUME PsTypes, NEW o \in Doings, WakeFor(o)
    PROVE  high' \in BOOLEAN /\ \E d \in Doings, p \in {"idle", "wait"} \cup Falling : Enter("mac", d, p)
  <1>1. (IF fw = "LOADING" THEN Then(o) ELSE "wait") \in {"idle", "wait"} \cup Falling
    BY ThenPlace
  <1>2. Enter("mac", o, IF fw = "LOADING" THEN Then(o) ELSE "wait")
    BY Zenon DEF WakeFor
  <1>3. high' \in BOOLEAN
    BY DEF WakeFor, WakeUp
  <1> QED BY <1>1, <1>2, <1>3, Zenon

LEMMA ConfigPsTypes ==
    ASSUME PsTypes, NEW turn \in BOOLEAN, ConfigPs(turn)
    PROVE  PsTypes'
  <1>1. UNCHANGED <<conf, susp, deaf, hostOff, done, queued, hifq, idling>> /\ Called("ops")
    BY DEF ConfigPs, Call
  <1>2. idling' \in BOOLEAN /\ ps' \in [on : BOOLEAN, modem : BOOLEAN]
    BY <1>1 DEF ConfigPs, PsTypes
  <1>3. CASE drv = "PS" \/ ps.modem
    <2>1. (UNCHANGED <<high, timer, thr>>) \/ (WakeFor("config") /\ UNCHANGED timer)
      BY <1>3 DEF ConfigPs
    <2>2. "config" \in Doings /\ "ops" \in {"ops", "sleeps"}
      BY DEF Doings
    <2>3. timer' \in BOOLEAN /\ high' \in BOOLEAN
      BY <2>1, <2>2, WakeForTypes DEF PsTypes
    <2> QED BY <1>1, <1>2, <2>1, <2>2, <2>3, WakeForTypes, CallTypes, Zenon
  <1>4. CASE ~(drv = "PS" \/ ps.modem)
    <2>1. /\ timer' = (timer \/ (conf.dyn /\ turn)) /\ UNCHANGED high
          /\ (UNCHANGED thr \/ Enter("mac", "config", "begin"))
      BY <1>4 DEF ConfigPs
    <2>2. "config" \in Doings /\ "begin" \in {"idle", "wait"} \cup Falling /\ "ops" \in {"ops", "sleeps"}
      BY DEF Doings, Falling
    <2>3. timer' \in BOOLEAN /\ high' \in BOOLEAN
      BY <2>1, ConfType DEF PsTypes
    <2> QED BY <1>1, <1>2, <2>1, <2>2, <2>3, CallTypes, Zenon
  <1> QED BY <1>3, <1>4

LEMMA OtherCallTypes ==
    ASSUME PsTypes, (\E turn \in BOOLEAN : ConfigIdle(turn)) \/ HostSuspend \/ Command
    PROVE  PsTypes'
  <1>1. \E b \in {"ops", "sleeps"} :
           /\ Called(b) /\ UNCHANGED <<conf, susp, deaf, hostOff, done, queued, hifq, timer, ps>>
           /\ idling' \in BOOLEAN
    BY DEF ConfigIdle, HostSuspend, Command, Call, mac, PsTypes
  <1>2. timer' \in BOOLEAN /\ ps' \in [on : BOOLEAN, modem : BOOLEAN]
    BY <1>1 DEF PsTypes
  <1>3. \/ UNCHANGED <<high, thr>>
        \/ \E o \in {"idle", "suspend", "command"} : WakeFor(o) \/ (Enter("mac", o, "begin") /\ UNCHANGED high)
    BY DEF ConfigIdle, HostSuspend, Command
  <1>4. {"idle", "suspend", "command"} \subseteq Doings /\ "begin" \in {"idle", "wait"} \cup Falling
    BY DEF Doings, Falling
  <1>5. high' \in BOOLEAN
        /\ (UNCHANGED thr \/ \E o \in Doings, p \in {"idle", "wait"} \cup Falling : Enter("mac", o, p))
    <2>1. CASE UNCHANGED <<high, thr>>
      BY <2>1 DEF PsTypes
    <2>2. ASSUME NEW o \in {"idle", "suspend", "command"}, WakeFor(o)
          PROVE  high' \in BOOLEAN /\ \E d \in Doings, p \in {"idle", "wait"} \cup Falling : Enter("mac", d, p)
      BY <1>4, <2>2, WakeForTypes
    <2>3. ASSUME NEW o \in {"idle", "suspend", "command"}, Enter("mac", o, "begin"), UNCHANGED high
          PROVE  high' \in BOOLEAN
      BY <2>3 DEF PsTypes
    <2> QED BY <1>3, <1>4, <2>1, <2>2, <2>3, Zenon
  <1> QED BY <1>1, <1>2, <1>5, CallTypes, Zenon

LEMMA MacTxTypes ==
    ASSUME PsTypes, MacTx
    PROVE  hifq' \in Seq(Wims) /\ ps' \in [on : BOOLEAN, modem : BOOLEAN] /\ timer' \in BOOLEAN
  <1>1. hifq' \in Seq(Wims)
    <2>1. "off" \in Wims
      BY DEF Wims
    <2> QED BY <2>1, WimTypes DEF MacTx, PsTypes
  <1>2. ps' \in [on : BOOLEAN, modem : BOOLEAN] /\ timer' \in BOOLEAN
    BY ConfType DEF MacTx, PsTypes
  <1> QED BY <1>1, <1>2

LEMMA MacTypes ==
    ASSUME PsTypes, Mac
    PROVE  PsTypes'
  <1>1. CASE Woken
    <2>1. "mac" \in Threads /\ Goto("mac", Then(op["mac"]))
      BY <1>1 DEF Threads, Woken
    <2>2. pc' \in [Threads -> {"idle", "wait"} \cup Falling]
      BY <2>1, ThenPlace, GotoTypes
    <2>3. done' \in Nat
      BY <1>1 DEF Woken, PsTypes
    <2> QED BY <1>1, <2>2, <2>3, Zenon DEF Woken, PsTypes, mac
  <1>2. CASE WakeTimeout
    <2>1. "mac" \in Threads /\ Goto("mac", Then(op["mac"]))
      BY <1>2 DEF Threads, WakeTimeout
    <2>2. pc' \in [Threads -> {"idle", "wait"} \cup Falling]
      BY <2>1, ThenPlace, GotoTypes
    <2> QED BY <1>2, <2>2, Zenon DEF WakeTimeout, PsTypes, mac, flags
  <1>3. CASE HostResume
    BY <1>3 DEF HostResume, PsTypes, mac, thr
  <1>4. CASE Transmit
    <2>1. Within(left')
      BY <1>4, SpendTypes, Zenon DEF Transmit, MaySend
    <2>2. CASE drv = "RUNNING"
      BY <1>4, <2>1, <2>2, MacTxTypes, Zenon DEF Transmit, PsTypes, thr, Within
    <2>3. CASE drv # "RUNNING"
      <3>1. high' \in BOOLEAN
        BY <1>4 DEF Transmit, WakeUp, PsTypes
      <3> QED BY <1>4, <2>1, <2>3, <3>1, Zenon DEF Transmit, PsTypes, thr, Within
    <2> QED BY <2>2, <2>3
  <1>5. CASE Sent
    BY <1>5, MacTxTypes, Zenon DEF Sent, PsTypes, flags, thr
  <1>6. ASSUME NEW deauth \in BOOLEAN, TransmitNow(deauth) PROVE PsTypes'
    <2>1. Within(left')
      BY <1>6, SpendTypes, Zenon DEF TransmitNow, MaySend
    <2>2. high' \in BOOLEAN
      BY <1>6 DEF TransmitNow, WakeUp, PsTypes
    <2>3. hifq' \in Seq(Wims)
      BY <1>6 DEF TransmitNow, PsTypes
    <2> QED BY <1>6, <2>1, <2>2, <2>3, Zenon DEF TransmitNow, PsTypes, thr, Within
  <1> QED BY <1>1, <1>2, <1>3, <1>4, <1>5, <1>6, ConfigPsTypes, OtherCallTypes, Zenon DEF Mac

LEMMA IrqTypes ==
    ASSUME PsTypes, Irq
    PROVE  PsTypes'
  <1>1. CASE IrqCheck
    BY <1>1, Zenon DEF IrqCheck, PsTypes, flags, mac, thr
  <1>2. CASE IrqRead
    <2>1. timer' \in BOOLEAN
      BY <1>2, ConfType DEF IrqRead, Arm, PsTypes
    <2> QED BY <1>2, <2>1, Zenon DEF IrqRead, PsTypes, flags, thr
  <1>3. CASE FwDownload
    <2>1. left' = left \/ Spend("missing")
      BY <1>3 DEF FwDownload
    <2>2. Within(left')
      BY <2>1, SpendTypes, Zenon DEF PsTypes, Within
    <2> QED BY <1>3, <2>2, Zenon DEF FwDownload, PsTypes, mac, thr, Within
  <1>4. CASE ReadyFromPs
    <2>1. timer' \in BOOLEAN /\ high' \in BOOLEAN /\ susp' \in BOOLEAN
      BY <1>4, ConfType DEF ReadyFromPs, Resume, PsTypes
    <2> QED BY <1>4, <2>1, Zenon DEF ReadyFromPs, PsTypes, thr
  <1>5. CASE WakeDone
    <2>1. done' \in Nat
      BY <1>5 DEF WakeDone, PsTypes
    <2> QED BY <1>5, <2>1, Zenon DEF WakeDone, PsTypes, mac, thr
  <1>6. CASE FailedToEnterPs
    <2>1. high' \in BOOLEAN /\ susp' \in BOOLEAN
      BY <1>6, ConfType DEF FailedToEnterPs, Resume, PsTypes
    <2> QED BY <1>6, <2>1, Zenon DEF FailedToEnterPs, PsTypes, mac, thr
  <1>7. CASE WdtExpired
    <2>1. high' \in BOOLEAN /\ susp' \in BOOLEAN
      BY <1>7 DEF WdtExpired, PsTypes
    <2>2. <<>> \in Seq(Wims)
      OBVIOUS
    <2>3. hifq' \in Seq(Wims)
      BY <1>7, <2>2, Zenon DEF WdtExpired
    <2> QED BY <1>7, <2>1, <2>3, Zenon DEF WdtExpired, PsTypes, mac, thr
  <1>8. CASE ReadyFromWdt
    <2>1. susp' \in BOOLEAN
      BY <1>8 DEF ReadyFromWdt, PsTypes
    <2> QED BY <1>8, <2>1, Zenon DEF ReadyFromWdt, PsTypes, mac, thr
  <1> QED BY <1>1, <1>2, <1>3, <1>4, <1>5, <1>6, <1>7, <1>8, Zenon DEF Irq

LEMMA TargetTypes ==
    ASSUME PsTypes, Target
    PROVE  PsTypes'
  <1>1. hifq' \in Seq(Wims)
    <2>1. hifq \in Seq(Wims) /\ (hifq' = hifq \/ (hifq # <<>> /\ hifq' = Tail(hifq)))
      BY DEF Target, Deliver, Refuse, TgtWakes, TgtCrashes, TgtReboots, PsTypes
    <2> QED BY <2>1
  <1>2. left' = left \/ \E b \in {"refusals", "tims", "crashes"} : Spend(b)
    BY Zenon DEF Target, Deliver, Refuse, TgtWakes, TgtCrashes, TgtReboots
  <1>3. Within(left')
    <2>1. CASE left' = left
      BY <2>1, Zenon DEF PsTypes, Within
    <2>2. ASSUME NEW b \in {"refusals", "tims", "crashes"}, Spend(b)
          PROVE  Within(left')
      BY <2>2, SpendTypes
    <2> QED BY <1>2, <2>1, <2>2, Zenon
  <1>4. UNCHANGED <<flags, mac, thr>>
    BY Zenon DEF Target, Deliver, Refuse, TgtWakes, TgtCrashes, TgtReboots
  <1> QED BY <1>1, <1>3, <1>4, Zenon DEF PsTypes, flags, mac, thr, Within

LEMMA PsTypesStep == PsTypes /\ [PsNext]_psVars => PsTypes'
  <1> SUFFICES ASSUME PsTypes, [PsNext]_psVars PROVE PsTypes'
    OBVIOUS
  <1>1. CASE UNCHANGED psVars
    BY <1>1, Zenon DEF psVars, PsTypes
  <1>2. CASE TimerFires
    <2>1. timer' \in BOOLEAN /\ queued' \in BOOLEAN
      BY <1>2 DEF TimerFires, PsTypes
    <2> QED BY <1>2, <2>1, Zenon DEF TimerFires, PsTypes, flags, thr
  <1>3. CASE PsWork
    <2>1. "work" \in Threads /\ "ps_work" \in Doings /\ "begin" \in {"idle", "wait"} \cup Falling
      BY DEF Threads, Doings, Falling
    <2>2. pc' \in [Threads -> {"idle", "wait"} \cup Falling] /\ op' \in [Threads -> Doings]
      BY <1>3, <2>1, EnterTypes DEF PsWork, PsTypes, thr
    <2>3. queued' \in BOOLEAN
      BY <1>3 DEF PsWork
    <2> QED BY <1>3, <2>2, <2>3, Zenon DEF PsWork, PsTypes, flags
  <1> QED BY <1>1, <1>2, <1>3, FallTypes, MacTypes, IrqTypes, TargetTypes, Zenon DEF PsNext

-----------------------------------------------------------------------------
(* The order to sleep in the queue.                                        *)

LEMMA TellsEmpty == TellsNot(<<>>) /\ ~TellsOnce(<<>>)
  BY DEF TellsNot, TellsOnce

LEMMA TellsAppend ==
    ASSUME NEW q \in Seq(Wims), NEW w \in Wims
    PROVE  /\ TellsNot(q) /\ w # "deep" => TellsNot(Append(q, w))
           /\ TellsNot(q) /\ w = "deep" => TellsOnce(Append(q, w))
           /\ TellsOnce(q) /\ w # "deep" => TellsOnce(Append(q, w))
  <1> DEFINE r == Append(q, w)
             n == Len(q) + 1
  <1>1. DOMAIN r = 1 .. n /\ DOMAIN q = 1 .. Len(q) /\ r[n] = w /\ n \in DOMAIN r
        /\ \A i \in DOMAIN q : r[i] = q[i] /\ i \in DOMAIN r
    OBVIOUS
  <1>2. \A i \in DOMAIN r : i \in DOMAIN q \/ i = n
    BY <1>1
  <1>3. n \notin DOMAIN q
    OBVIOUS
  <1> HIDE DEF r, n
  <1>4. TellsNot(q) /\ w # "deep" => TellsNot(r)
    BY <1>1, <1>2, Zenon DEF TellsNot
  <1>5. TellsNot(q) /\ w = "deep" => TellsOnce(r)
    BY <1>1, <1>2, Zenon DEF TellsNot, TellsOnce
  <1>6. TellsOnce(q) /\ w # "deep" => TellsOnce(r)
    BY <1>1, <1>2, ZenonT(30) DEF TellsOnce
  <1> QED BY <1>4, <1>5, <1>6 DEF r

LEMMA TellsTail ==
    ASSUME NEW q \in Seq(Wims), q # <<>>
    PROVE  /\ TellsNot(q) => TellsNot(Tail(q)) /\ Head(q) # "deep"
           /\ TellsOnce(q) /\ Head(q) = "deep" => TellsNot(Tail(q))
           /\ TellsOnce(q) /\ Head(q) # "deep" => TellsOnce(Tail(q))
  <1> DEFINE r == Tail(q)
  <1>1. Head(q) = q[1] /\ 1 \in DOMAIN q
    OBVIOUS
  <1>2. \A i \in DOMAIN r : i \in Nat \ {0} /\ i + 1 \in DOMAIN q /\ r[i] = q[i + 1] /\ i + 1 # 1
    OBVIOUS
  <1>3. \A i \in DOMAIN q : i # 1 => i - 1 \in DOMAIN r /\ r[i - 1] = q[i]
    OBVIOUS
  <1>4. \A i, j \in DOMAIN r : i + 1 = j + 1 => i = j
    OBVIOUS
  <1> HIDE DEF r
  <1>5. TellsNot(q) => TellsNot(r) /\ Head(q) # "deep"
    BY <1>1, <1>2, Zenon DEF TellsNot
  <1>6. ASSUME TellsOnce(q), Head(q) = "deep" PROVE TellsNot(r)
    BY <1>1, <1>2, <1>6, Zenon DEF TellsOnce, TellsNot
  <1>7. ASSUME TellsOnce(q), Head(q) # "deep" PROVE TellsOnce(r)
    <2>1. PICK k \in DOMAIN q : q[k] = "deep" /\ \A j \in DOMAIN q : q[j] = "deep" => j = k
      BY <1>7, Zenon DEF TellsOnce
    <2>2. k # 1
      BY <1>1, <1>7, <2>1, Zenon
    <2>3. k - 1 \in DOMAIN r /\ r[k - 1] = "deep"
      BY <1>3, <2>1, <2>2, Zenon
    <2>4. ASSUME NEW j \in DOMAIN r, r[j] = "deep" PROVE j = k - 1
      <3>1. j + 1 \in DOMAIN q /\ q[j + 1] = "deep" /\ j \in Nat
        BY <1>2, <2>4, Zenon
      <3>2. j + 1 = k
        BY <2>1, <3>1, Zenon
      <3> QED BY <3>1, <3>2
    <2> QED BY <2>3, <2>4, Zenon DEF TellsOnce
  <1> QED BY <1>5, <1>6, <1>7 DEF r

-----------------------------------------------------------------------------
(* Every step of a station nothing has harmed.                             *)

\* Harm is not undone, and in an unharmed station neither the host has slept
\* nor the watchdog has bitten.
LEMMA Harm ==
    ASSUME PsTypes, [PsNext]_psVars, Unharmed'
    PROVE  Unharmed /\ ~HostSuspend /\ ~TgtCrashes /\ ~Spend("missing")
  <1>1. conf' = conf
    BY Zenon DEF PsNext, psVars, Fall, Begin, SendPs, Suspend, Flush, End, TimerFires, PsWork, Mac, ConfigPs, ConfigIdle,
      HostSuspend, Command, Woken, WakeTimeout, HostResume, Transmit, TransmitNow, MaySend, Sent, Irq, IrqCheck, IrqRead, FwDownload,
      ReadyFromPs, WakeDone, FailedToEnterPs, WdtExpired, ReadyFromWdt, Target, Deliver, Refuse, TgtWakes,
      TgtCrashes, TgtReboots, mac
  <1>2. \/ left' = left
        \/ \E b \in {"sleeps", "ops", "frames", "tims", "refusals", "missing", "crashes"} : Spend(b)
    BY Zenon DEF PsNext, psVars, Fall, Begin, SendPs, Suspend, Flush, End, TimerFires, PsWork, Mac, ConfigPs, ConfigIdle,
      HostSuspend, Command, Woken, WakeTimeout, HostResume, Transmit, TransmitNow, MaySend, Sent, Irq, IrqCheck, IrqRead, FwDownload,
      ReadyFromPs, WakeDone, FailedToEnterPs, WdtExpired, ReadyFromWdt, Target, Deliver, Refuse, TgtWakes,
      TgtCrashes, TgtReboots, Call, Called
  <1>3. left'.sleeps <= left.sleeps /\ left'.crashes <= left.crashes /\ left'.missing <= left.missing
    <2>1. CASE left' = left
      BY <2>1 DEF PsTypes, Bounds
    <2> QED BY <1>2, <2>1, SpendTypes
  <1>4. /\ left.sleeps \in Nat /\ left.crashes \in Nat /\ left.missing \in Nat
        /\ left.sleeps <= conf.sleeps /\ left.crashes <= Crashes /\ left.missing <= Missing
        /\ left'.sleeps \in Nat /\ left'.crashes \in Nat /\ left'.missing \in Nat
        /\ conf.sleeps \in Nat /\ Crashes \in Nat /\ Missing \in Nat
    BY ConfType, PsTypesStep DEF PsTypes, Bounds
  <1>5. left'.sleeps = conf.sleeps /\ left'.crashes = Crashes /\ left'.missing = Missing
    BY <1>1, Zenon DEF Unharmed
  <1>6. Unharmed
    BY <1>3, <1>4, <1>5 DEF Unharmed
  <1>7. ASSUME HostSuspend PROVE FALSE
    <2>1. left'.sleeps < left.sleeps
      BY <1>7, SpendTypes, Zenon DEF HostSuspend, Called
    <2> QED BY <1>4, <1>5, <2>1
  <1>8. ASSUME TgtCrashes PROVE FALSE
    <2>1. left'.crashes < left.crashes
      BY <1>8, SpendTypes, Zenon DEF TgtCrashes
    <2> QED BY <1>4, <1>5, <2>1
  <1>9. ASSUME Spend("missing") PROVE FALSE
    <2>1. left'.missing < left.missing
      BY <1>9, SpendTypes, Zenon
    <2> QED BY <1>4, <1>5, <2>1
  <1> QED BY <1>6, <1>7, <1>8, <1>9

\* Who the sleeper is, and that it stays who it is.
LEMMA Who ==
    ASSUME OneWay, PsTypes
    PROVE  /\ Sleeper \in Threads /\ Threads = {"work", "mac"}
           /\ conf.idle => Sleeper = "mac" /\ (conf.mode = "none" \/ (conf.mode = "modem" /\ ~conf.dyn))
           /\ Sleeper = "work" => conf.dyn /\ conf.mode # "none"
           /\ Sleeper = "mac" => ~conf.dyn \/ conf.mode = "none"
           /\ Deep => conf.mode = "deep"
  BY ConfType DEF OneWay, PsTypes, Sleeper, Threads, Deep

\* A step of the sleeper from p on.
Falls(t) == t = Sleeper /\ conf' = conf /\ Sleeper' = Sleeper /\ (Deep' <=> Deep)

LEMMA FallsBy ==
    ASSUME OneWay, PsTypes, Roles, NEW t \in Threads, pc[t] \in Falling, conf' = conf
    PROVE  Falls(t)
  <1>1. t = Sleeper
    BY Who DEF Roles, Falling
  <1> QED BY <1>1 DEF Falls, Sleeper, Deep

LEMMA BeginStep ==
    ASSUME OneWay, PsTypes, InStepPs, NEW t \in Threads, Begin(t)
    PROVE  InStepPs'
  <1>1. pc[t] = "begin" /\ UNCHANGED <<conf, idling, timer, queued, op, ps, drv, fw, susp, hostOff, irq, hifq, tgt, ev>>
        /\ deaf' = TRUE
    BY DEF Begin, IsAt
  <1>2. Falls(t)
    BY <1>1, FallsBy DEF InStepPs, Falling
  <1>3. pc'[t] = "wim" /\ \A s \in Threads : s # t => pc'[s] = pc[s]
    BY GotoTypes DEF Begin, Falling
  <1>4. Stage = "begin" /\ Stage' = "wim" /\ (ByModem' <=> ByModem)
    BY <1>1, <1>2, <1>3 DEF Falls, Stage, ByModem
  <1>5. Awake /\ Awake'
    <2>1. Awake
      BY <1>4 DEF InStepPs, Course
    <2> QED BY <1>1, <2>1 DEF Awake, Quiet
  <1>6. Course'
    BY <1>4, <1>5 DEF Course
  <1>7. Roles'
    BY <1>1, <1>2, <1>3, <1>4, <1>5, Who DEF InStepPs, Roles, Falling, Falls, Down, Awake
  <1>8. Waits'
    <2> SUFFICES ASSUME conf.idle PROVE Waits'
      BY <1>1 DEF Waits
    <2>1. t = "mac" /\ irq # "woken"
      BY <1>1, <1>2, Who DEF InStepPs, Waits, Falls
    <2>2. ~ByModem => done' = 0 /\ ~high'
      BY <1>2 DEF Begin, ByModem, Falls
    <2> QED BY <1>1, <1>3, <1>4, <1>5, <2>1, <2>2 DEF Waits, Down, Awake
  <1> QED BY <1>6, <1>7, <1>8 DEF InStepPs

LEMMA SendPsStep ==
    ASSUME OneWay, PsTypes, InStepPs, NEW t \in Threads, SendPs(t)
    PROVE  InStepPs'
  <1>1. pc[t] = "wim" /\ UNCHANGED <<conf, idling, timer, queued, op, drv, fw, susp, deaf, hostOff, high, done, irq, tgt, ev>>
        /\ ps' = [ps EXCEPT !.modem = @ \/ (~Deep /\ op[t] \in {"ps_work", "config"})]
    BY DEF SendPs, IsAt, flags
  <1>2. Falls(t)
    BY <1>1, FallsBy DEF InStepPs, Falling
  <1>3. op[t] # "suspend" /\ (ByModem <=> ~Deep /\ op[t] \in {"ps_work", "config"})
    BY <1>1, <1>2, Who DEF InStepPs, Roles, Falling, Falls, ByModem
  <1>4. Goto(t, IF ByModem THEN "end" ELSE "suspend") /\ Wim(IF ByModem THEN "modem" ELSE "deep")
    BY <1>3, Zenon DEF SendPs
  <1>5. pc'[t] = (IF ByModem THEN "end" ELSE "suspend") /\ \A s \in Threads : s # t => pc'[s] = pc[s]
    <2>1. (IF ByModem THEN "end" ELSE "suspend") \in {"idle", "wait"} \cup Falling
      BY DEF Falling
    <2> QED BY <1>4, <2>1, GotoTypes, Zenon
  <1>6. Stage = "wim" /\ Stage' = (IF ByModem THEN "end" ELSE "suspend") /\ (ByModem' <=> ByModem)
    BY <1>1, <1>2, <1>5 DEF Falls, Stage, ByModem
  <1>7. Awake /\ deaf
    BY <1>6 DEF InStepPs, Course, Roles
  <1>8. hifq' = Append(hifq, IF ByModem THEN "modem" ELSE "deep")
    BY <1>4, <1>7 DEF Wim, Awake
  <1>9. IF ByModem THEN TellsNot(hifq') ELSE TellsOnce(hifq')
    BY <1>7, <1>8, TellsAppend DEF Awake, PsTypes, Wims
  <1>10. Course'
    BY <1>1, <1>6, <1>7, <1>9 DEF Course, Awake, Quiet, Ordered
  <1>11. Roles'
    <2>1. ~ByModem => Deep \/ conf.idle
      BY <1>1, <1>2, <1>3, Who DEF InStepPs, Roles, Falling, Falls
    <2>2. ps'.on = ps.on
      BY <1>1 DEF PsTypes
    <2> QED BY <1>1, <1>2, <1>5, <1>6, <1>7, <2>1, <2>2, Who DEF InStepPs, Roles, Falling, Falls, Down, Awake
  <1>12. Waits'
    <2> SUFFICES ASSUME conf.idle PROVE Waits'
      BY <1>1 DEF Waits
    <2>1. t = "mac" /\ irq # "woken"
      BY <1>1, <1>2, Who DEF InStepPs, Waits, Falls
    <2>2. ~ByModem => done = 0 /\ ~high /\ idling
      BY <1>1, <1>3, <2>1, Who DEF InStepPs, Waits, Roles, Falling, ByModem
    <2> QED BY <1>1, <1>5, <1>6, <1>7, <2>1, <2>2 DEF Waits, Down, Awake, Quiet
  <1> QED BY <1>10, <1>11, <1>12 DEF InStepPs

LEMMA SuspendStep ==
    ASSUME OneWay, PsTypes, InStepPs, NEW t \in Threads, Suspend(t)
    PROVE  InStepPs'
  <1>1. pc[t] = "suspend" /\ UNCHANGED <<conf, ps, idling, timer, queued, op, fw, deaf, hostOff, high, done, irq, hifq, tgt, ev>>
        /\ susp'
    BY DEF Suspend, IsAt, mac
  <1>2. Falls(t)
    BY <1>1, FallsBy DEF InStepPs, Falling
  <1>3. Stage = "suspend" /\ (ByModem' <=> ByModem)
    BY <1>1, <1>2 DEF Falls, Stage, ByModem
  <1>4. drv = "RUNNING" /\ ~susp /\ deaf /\ Quiet /\ (Ordered \/ Obeyed) /\ ~ByModem /\ (Deep \/ conf.idle)
    BY <1>3 DEF InStepPs, Course, Roles, Down
  <1>5. drv' = "PS" /\ Goto(t, "flush")
    BY <1>4 DEF Suspend
  <1>6. pc'[t] = "flush" /\ \A s \in Threads : s # t => pc'[s] = pc[s]
    BY <1>5, GotoTypes DEF Falling
  <1>7. Stage' = "flush"
    BY <1>2, <1>6 DEF Falls, Stage
  <1>8. Course'
    BY <1>1, <1>4, <1>5, <1>7 DEF Course, Quiet, Ordered, Obeyed, Asleep, Waking, Refused
  <1>9. Roles'
    BY <1>1, <1>2, <1>3, <1>4, <1>6, <1>7, Who DEF InStepPs, Roles, Falling, Falls, Down
  <1>10. Waits'
    <2> SUFFICES ASSUME conf.idle PROVE Waits'
      BY <1>1 DEF Waits
    <2>1. t = "mac"
      BY <1>2, Who DEF Falls
    <2> QED BY <1>1, <1>3, <1>5, <1>6, <1>7, <2>1 DEF InStepPs, Waits, Down
  <1> QED BY <1>8, <1>9, <1>10 DEF InStepPs

LEMMA FlushStep ==
    ASSUME OneWay, PsTypes, InStepPs, NEW t \in Threads, Flush(t)
    PROVE  InStepPs'
  <1>1. pc[t] = "flush" /\ UNCHANGED <<conf, ps, idling, timer, queued, op, drv, susp, fw, deaf, hostOff, high, done, irq, tgt, ev>>
        /\ hifq' = <<>> /\ (hifq = <<>> \/ tgt # "awake")
    BY DEF Flush, IsAt, mac, flags
  <1>2. Falls(t)
    BY <1>1, FallsBy DEF InStepPs, Falling
  <1>3. Stage = "flush" /\ (ByModem' <=> ByModem)
    BY <1>1, <1>2 DEF Falls, Stage, ByModem
  <1>4. drv = "PS" /\ susp /\ deaf /\ Quiet /\ (Ordered \/ Obeyed) /\ ~ByModem
    BY <1>3 DEF InStepPs, Course, Roles
  <1>5. Obeyed /\ TellsNot(hifq')
    BY <1>1, <1>4, TellsEmpty DEF Ordered
  <1>6. pc'[t] = "end" /\ \A s \in Threads : s # t => pc'[s] = pc[s]
    BY GotoTypes DEF Falling, Flush
  <1>7. Stage' = "end"
    BY <1>2, <1>6 DEF Falls, Stage
  <1>8. Course'
    BY <1>1, <1>3, <1>4, <1>5, <1>7 DEF Course, Quiet, Obeyed, Asleep, Waking, Refused
  <1>9. Roles'
    BY <1>1, <1>2, <1>3, <1>4, <1>6, <1>7, Who DEF InStepPs, Roles, Falling, Falls, Down
  <1>10. Waits'
    <2> SUFFICES ASSUME conf.idle PROVE Waits'
      BY <1>1 DEF Waits
    <2>1. t = "mac"
      BY <1>2, Who DEF Falls
    <2> QED BY <1>1, <1>4, <1>6, <1>7, <2>1 DEF InStepPs, Waits, Down
  <1> QED BY <1>8, <1>9, <1>10 DEF InStepPs

LEMMA EndStep ==
    ASSUME OneWay, PsTypes, InStepPs, NEW t \in Threads, End(t)
    PROVE  InStepPs'
  <1>1. pc[t] = "end" /\ UNCHANGED <<conf, ps, idling, timer, queued, drv, susp, fw, high, done, irq, hifq, tgt, ev>>
        /\ hostOff' = (hostOff \/ op[t] = "suspend")
    BY DEF End, IsAt, mac
  <1>2. Falls(t)
    BY <1>1, FallsBy DEF InStepPs, Falling
  <1>3. Stage = "end" /\ op[t] # "suspend"
    BY <1>1, <1>2, Who DEF Falls, Stage, InStepPs, Roles, Falling
  <1>4. Awake \/ (drv = "PS" /\ susp /\ Quiet /\ Obeyed)
    BY <1>3 DEF InStepPs, Course
  <1>5. pc'[t] = "idle" /\ op'[t] = "none" /\ \A s \in Threads : s # t => pc'[s] = pc[s] /\ op'[s] = op[s]
    BY EnterTypes DEF Falling, Doings, End
  <1>6. Stage' = "idle"
    BY <1>2, <1>5 DEF Falls, Stage
  <1>7. Awake' \/ Away'
    BY <1>1, <1>4 DEF Quiet, Obeyed, Asleep, Waking, Refused, Awake, Away
  <1>8. Course'
    BY <1>6, <1>7 DEF Course
  <1>9. Roles'
    BY <1>1, <1>2, <1>3, <1>4, <1>5, <1>6, Who DEF InStepPs, Roles, Falling, Falls, Down, Awake
  <1>10. Waits'
    <2> SUFFICES ASSUME conf.idle PROVE Waits'
      BY <1>1 DEF Waits
    <2>1. t = "mac"
      BY <1>2, Who DEF Falls
    <2>2. Down' => Down /\ drv = "PS"
      BY <1>1, <1>6 DEF Down
    <2> QED BY <1>1, <1>3, <1>4, <1>5, <1>6, <2>1, <2>2 DEF InStepPs, Waits
  <1> QED BY <1>8, <1>9, <1>10 DEF InStepPs

\* mac80211 goes on, waits, or starts to put the target to sleep.
LEMMA MacMoves ==
    ASSUME OneWay, PsTypes, InStepPs, pc["mac"] \in {"idle", "wait"},
           UNCHANGED <<conf, drv, fw, susp, deaf, hostOff, irq, hifq, tgt, ev, queued>>,
           pc'["work"] = pc["work"], op'["work"] = op["work"],
           timer' => timer \/ conf.dyn, ps'.on => ps.on \/ conf.mode # "none",
           \/ pc'["mac"] = "idle"
           \/ pc'["mac"] = "wait" /\ op'["mac"] \in {"config", "idle", "command"}
           \/ /\ pc'["mac"] = "begin" /\ Sleeper = "mac" /\ Awake
              /\ \/ op'["mac"] = "config" /\ conf.mode # "none"
                 \/ op'["mac"] \in {"idle", "command"} /\ conf.idle /\ idling'
    PROVE  Course' /\ Roles'
  <1>1. Sleeper' = Sleeper /\ (Deep' <=> Deep) /\ (Awake' <=> Awake) /\ (Away' <=> Away)
    BY DEF Sleeper, Deep, Awake, Away, Quiet, Asleep, Waking, Refused
  <1>2. CASE Sleeper = "work"
    <2>1. Stage' = Stage /\ (ByModem' <=> ByModem)
      BY <1>1, <1>2 DEF Stage, ByModem
    <2>2. Course'
      BY <1>1, <2>1 DEF InStepPs, Course, Quiet, Ordered, Obeyed, Asleep, Waking, Refused
    <2>3. Roles'
      BY <1>1, <1>2, <2>1, Who DEF InStepPs, Roles, Falling, Down
    <2> QED BY <2>2, <2>3
  <1>3. CASE Sleeper = "mac"
    <2>1. Stage = pc["mac"] /\ Stage' = pc'["mac"]
      BY <1>1, <1>3 DEF Stage
    <2>2. Course'
      BY <1>1, <2>1 DEF InStepPs, Course
    <2>3. Roles'
      BY <1>1, <1>3, <2>1, Who DEF InStepPs, Roles, Falling, Down
    <2> QED BY <2>2, <2>3
  <1> QED BY <1>2, <1>3, Who

\* What the return to where Then leads may be.
LEMMA Thens ==
    ASSUME NEW o \in {"config", "idle", "command"}
    PROVE  \/ Then(o) = "idle"
           \/ Then(o) = "begin" /\ o = "command" /\ conf.idle /\ idling
  BY DEF Then

\* The GPIO is raised and mac80211 waits; a target that wakes need not be told.
LEMMA WakeForStep ==
    ASSUME OneWay, PsTypes, InStepPs, pc["mac"] = "idle", NEW o \in {"config", "idle", "command"}, WakeFor(o),
           UNCHANGED <<conf, drv, fw, susp, deaf, hostOff, done, irq, hifq, tgt, ev, queued, timer>>,
           ps'.on => ps.on, conf.idle /\ o = "command" => drv = "PS"
    PROVE  InStepPs'
  <1>1. /\ pc'["mac"] = (IF fw = "LOADING" THEN Then(o) ELSE "wait") /\ op'["mac"] = o
        /\ pc'["work"] = pc["work"] /\ op'["work"] = op["work"]
    <2>1. (IF fw = "LOADING" THEN Then(o) ELSE "wait") \in {"idle", "wait"} \cup Falling
      BY ThenPlace
    <2>2. o \in Doings /\ "mac" \in Threads /\ "work" \in Threads /\ "work" # "mac"
      BY DEF Doings, Threads
    <2>3. Enter("mac", o, IF fw = "LOADING" THEN Then(o) ELSE "wait")
      BY Zenon DEF WakeFor
    <2> QED BY <2>1, <2>2, <2>3, EnterTypes, ZenonT(30)
  <1>2. high' = (high \/ fw # "LOADING")
    BY DEF WakeFor, WakeUp
  <1>3. conf.idle => Stage = "idle" /\ (Awake \/ Away) /\ irq # "woken"
    BY Who DEF InStepPs, Course, Waits, Stage
  <1>4. conf.idle => fw # "LOADING"
    BY <1>3 DEF InStepPs, Waits, Down, Away, Awake, Quiet
  <1>5. pc'["mac"] = "wait" \/ (pc'["mac"] = "idle" /\ ~conf.idle)
    BY <1>1, <1>4, Thens
  <1>6. Course' /\ Roles'
    BY <1>1, <1>5, MacMoves
  <1>7. Waits'
    <2> SUFFICES ASSUME conf.idle PROVE Waits'
      BY DEF Waits
    <2>1. Sleeper = "mac" /\ Sleeper' = "mac"
      BY Who DEF Sleeper
    <2>2. pc'["mac"] = "wait" /\ Stage' = "wait" /\ high' /\ irq' # "woken"
      BY <1>2, <1>3, <1>4, <1>5, <2>1 DEF Stage
    <2>3. Down' => Down
      BY <2>2 DEF Down
    <2> QED BY <2>2, <2>3 DEF InStepPs, Waits
  <1> QED BY <1>6, <1>7 DEF InStepPs

\* mac80211 starts to put the target to sleep.
LEMMA EnterStep ==
    ASSUME OneWay, PsTypes, InStepPs, pc["mac"] = "idle", NEW o \in {"config", "idle", "command"}, Enter("mac", o, "begin"),
           Sleeper = "mac", drv # "PS",
           UNCHANGED <<conf, drv, fw, susp, deaf, hostOff, high, done, irq, hifq, tgt, ev, queued>>,
           timer' => timer \/ conf.dyn, ps'.on => ps.on \/ conf.mode # "none",
           \/ o = "config" /\ conf.mode # "none"
           \/ o \in {"idle", "command"} /\ conf.idle /\ idling'
    PROVE  InStepPs'
  <1>1. /\ pc'["mac"] = "begin" /\ op'["mac"] = o
        /\ pc'["work"] = pc["work"] /\ op'["work"] = op["work"]
    BY EnterTypes DEF Doings, Threads, Falling
  <1>2. Awake
    BY DEF InStepPs, Course, Stage, Away
  <1>3. Course' /\ Roles'
    BY <1>1, <1>2, MacMoves
  <1>4. Waits'
    <2>1. conf.idle => irq # "woken"
      BY DEF InStepPs, Waits
    <2>2. Stage' = "begin"
      BY <1>1 DEF Stage, Sleeper
    <2> QED BY <1>1, <1>2, <2>1, <2>2 DEF Waits, Down, Awake
  <1> QED BY <1>3, <1>4 DEF InStepPs

\* Nothing of what the invariant speaks of changes but the timers, and power
\* save may be turned off.
LEMMA QuietStep ==
    ASSUME OneWay, PsTypes, InStepPs,
           UNCHANGED <<conf, thr, drv, fw, susp, deaf, hostOff, high, done, irq, hifq, tgt, ev>>,
           conf.idle => UNCHANGED idling,
           timer' \/ queued' => timer \/ queued \/ conf.dyn, ps'.on => ps.on \/ conf.mode # "none"
    PROVE  InStepPs'
  <1>1. pc' = pc /\ op' = op
    BY DEF thr
  <1>2. Stage' = Stage /\ Sleeper' = Sleeper /\ (ByModem' <=> ByModem) /\ (Deep' <=> Deep)
    BY <1>1 DEF Stage, Sleeper, ByModem, Deep
  <1>3. Course'
    BY <1>1, <1>2, Zenon DEF InStepPs, Course, Awake, Away, Quiet, Ordered, Obeyed, Asleep, Waking, Refused
  <1>4. Roles'
    BY <1>1, <1>2 DEF InStepPs, Roles, Down, Falling
  <1>5. Waits'
    BY <1>1, <1>2 DEF InStepPs, Waits, Down
  <1> QED BY <1>3, <1>4, <1>5 DEF InStepPs

LEMMA ConfigPsStep ==
    ASSUME OneWay, PsTypes, InStepPs, NEW turn \in BOOLEAN, ConfigPs(turn)
    PROVE  InStepPs'
  <1>1. /\ pc["mac"] = "idle" /\ conf.mode # "none" /\ ps'.on = turn
        /\ UNCHANGED <<conf, drv, susp, deaf, hostOff, done, irq, hifq, tgt, ev, idling, queued, fw>>
    BY DEF ConfigPs, Call, Called, IsAt, PsTypes
  <1>2. CASE UNCHANGED thr /\ UNCHANGED high /\ (timer' => timer \/ conf.dyn)
    BY <1>1, <1>2, QuietStep
  <1>3. CASE WakeFor("config") /\ UNCHANGED timer /\ ~turn
    BY <1>1, <1>3, WakeForStep
  <1>4. CASE /\ Enter("mac", "config", "begin") /\ ~conf.dyn /\ UNCHANGED high /\ drv # "PS"
             /\ (timer' => timer \/ conf.dyn)
    <2>1. Sleeper = "mac"
      BY <1>4 DEF Sleeper
    <2> QED BY <1>1, <1>4, <2>1, EnterStep
  <1>5. CASE drv = "PS" \/ ps.modem
    BY <1>2, <1>3, <1>5 DEF ConfigPs
  <1>6. CASE ~(drv = "PS" \/ ps.modem)
    <2>1. /\ timer' = (timer \/ (conf.dyn /\ turn)) /\ UNCHANGED high /\ drv # "PS"
          /\ UNCHANGED thr \/ (Enter("mac", "config", "begin") /\ ~conf.dyn)
      BY <1>6 DEF ConfigPs
    <2> QED BY <1>2, <1>4, <2>1
  <1> QED BY <1>5, <1>6

LEMMA ConfigIdleStep ==
    ASSUME OneWay, PsTypes, InStepPs, NEW turn \in BOOLEAN, ConfigIdle(turn)
    PROVE  InStepPs'
  <1>1. /\ pc["mac"] = "idle" /\ idling # turn /\ idling' = turn
        /\ UNCHANGED <<conf, drv, susp, deaf, hostOff, done, irq, hifq, tgt, ev, queued, fw, ps, timer>>
    BY DEF ConfigIdle, Call, Called, IsAt
  <1>2. CASE ~conf.idle
    <2>1. UNCHANGED <<high, thr>>
      BY <1>2 DEF ConfigIdle
    <2> QED BY <1>1, <1>2, <2>1, QuietStep
  <1>3. CASE conf.idle /\ turn
    <2>1. Enter("mac", "idle", "begin") /\ UNCHANGED high
      BY <1>3 DEF ConfigIdle
    <2>2. Sleeper = "mac" /\ drv # "PS"
      BY <1>1, <1>3, Who DEF InStepPs, Waits, Down
    <2> QED BY <1>1, <1>3, <2>1, <2>2, EnterStep
  <1>4. CASE conf.idle /\ ~turn
    <2>1. WakeFor("idle")
      BY <1>4 DEF ConfigIdle
    <2> QED BY <1>1, <2>1, WakeForStep
  <1> QED BY <1>2, <1>3, <1>4

LEMMA CommandStep ==
    ASSUME OneWay, PsTypes, InStepPs, Command
    PROVE  InStepPs'
  <1>1. /\ pc["mac"] = "idle"
        /\ UNCHANGED <<conf, drv, susp, deaf, hostOff, done, irq, hifq, tgt, ev, queued, fw, ps, timer, idling>>
    BY DEF Command, Call, Called, IsAt, mac
  <1>2. CASE drv = "PS"
    <2>1. WakeFor("command")
      BY <1>2 DEF Command
    <2> QED BY <1>1, <1>2, <2>1, WakeForStep
  <1>3. CASE drv # "PS" /\ conf.idle /\ idling
    <2>1. Enter("mac", "command", "begin") /\ UNCHANGED high
      BY <1>3 DEF Command
    <2>2. Sleeper = "mac"
      BY <1>3, Who
    <2> QED BY <1>1, <1>3, <2>1, <2>2, EnterStep
  <1>4. CASE drv # "PS" /\ ~(conf.idle /\ idling)
    <2>1. UNCHANGED <<high, thr>>
      BY <1>4 DEF Command
    <2> QED BY <1>1, <2>1, QuietStep
  <1> QED BY <1>2, <1>3, <1>4

\* mac80211 has been told that the target is awake, or has waited long enough.
LEMMA WaitEnds ==
    ASSUME OneWay, PsTypes, InStepPs, pc["mac"] = "wait", Goto("mac", Then(op["mac"])),
           conf.idle => Awake /\ irq # "woken",
           UNCHANGED <<conf, op, ps, idling, timer, queued, drv, fw, susp, deaf, hostOff, high, irq, hifq, tgt, ev>>
    PROVE  InStepPs'
  <1>1. op["mac"] \in {"config", "idle", "command"}
    BY DEF InStepPs, Roles
  <1>2. pc'["mac"] = Then(op["mac"]) /\ pc'["work"] = pc["work"]
    <2>1. Then(op["mac"]) \in {"idle", "wait"} \cup Falling /\ "mac" \in Threads /\ "work" \in Threads /\ "work" # "mac"
      BY ThenPlace DEF Threads
    <2> QED BY <2>1, GotoTypes, Zenon
  <1>3. \/ pc'["mac"] = "idle"
        \/ pc'["mac"] = "begin" /\ op["mac"] = "command" /\ conf.idle /\ idling
    BY <1>1, <1>2, Thens, Zenon
  <1>4. conf.idle => Sleeper = "mac"
    BY Who
  <1>5. Course' /\ Roles'
    BY <1>2, <1>3, <1>4, MacMoves
  <1>6. Waits'
    <2> SUFFICES ASSUME conf.idle PROVE Waits'
      BY DEF Waits
    <2>1. Stage' = pc'["mac"]
      BY <1>4 DEF Stage, Sleeper
    <2> QED BY <1>3, <2>1 DEF Waits, Down, Awake
  <1> QED BY <1>5, <1>6 DEF InStepPs

LEMMA WokenStep ==
    ASSUME OneWay, PsTypes, InStepPs, Woken
    PROVE  InStepPs'
  <1>1. /\ pc["mac"] = "wait" /\ done > 0 /\ Goto("mac", Then(op["mac"]))
        /\ UNCHANGED <<conf, op, ps, idling, timer, queued, drv, fw, susp, deaf, hostOff, high, irq, hifq, tgt, ev>>
    BY DEF Woken, IsAt, mac
  <1>2. ASSUME conf.idle PROVE Awake /\ irq # "woken"
    <2>1. drv # "PS" /\ irq # "woken" /\ done # 0
      BY <1>1, <1>2 DEF InStepPs, Waits, Down
    <2>2. Stage = "wait"
      BY <1>1, <1>2, Who DEF Stage
    <2> QED BY <2>1, <2>2 DEF InStepPs, Course, Away
  <1> QED BY <1>1, <1>2, WaitEnds

LEMMA WakeTimeoutStep ==
    ASSUME OneWay, PsTypes, InStepPs, WakeTimeout
    PROVE  InStepPs'
  <1>1. /\ pc["mac"] = "wait" /\ Goto("mac", Then(op["mac"]))
        /\ irq = "idle" /\ ev = "none" /\ tgt # "loading" /\ ~(tgt = "asleep" /\ high)
        /\ UNCHANGED <<conf, op, ps, idling, timer, queued, drv, fw, susp, deaf, hostOff, high, irq, hifq, tgt, ev>>
    BY DEF WakeTimeout, IsAt, mac, flags
  <1>2. ASSUME conf.idle PROVE Awake /\ irq # "woken"
    <2>1. Stage = "wait"
      BY <1>1, <1>2, Who DEF Stage
    <2>2. drv = "PS" => high
      BY <1>1, <1>2 DEF InStepPs, Waits, Down
    <2> QED BY <1>1, <2>1, <2>2 DEF InStepPs, Course, Away, Asleep, Waking, Refused
  <1> QED BY <1>1, <1>2, WaitEnds

\* A step of the irq thread, of the target or of a transmission moves no thread.
LEMMA Still ==
    ASSUME UNCHANGED <<conf, thr>>
    PROVE  /\ pc' = pc /\ op' = op /\ Stage' = Stage /\ Sleeper' = Sleeper
           /\ ByModem' <=> ByModem
           /\ Deep' <=> Deep
  BY DEF thr, Stage, Sleeper, ByModem, Deep

\* ... and leaves the roles alone unless it lets the host sleep.
LEMMA RolesStill ==
    ASSUME InStepPs, UNCHANGED <<conf, thr, deaf, hostOff, idling, queued>>,
           timer' => timer \/ conf.dyn, ps'.on => ps.on, drv' = "PS" => drv = "PS"
    PROVE  Roles'
  BY Still DEF InStepPs, Roles, Down, Falling

\* A frame that is sent, or wakes the target.
LEMMA FrameStep ==
    ASSUME OneWay, PsTypes, InStepPs,
           UNCHANGED <<conf, drv, fw, susp, deaf, hostOff, done, idling, queued, pc, op, irq, tgt, ev>>,
           timer' => timer \/ conf.dyn, ps'.on = ps.on,
           high' = high \/ (high' = (high \/ fw # "LOADING") /\ drv = "PS" /\ ~idling),
           TellsNot(hifq) => TellsNot(hifq'), TellsOnce(hifq) => TellsOnce(hifq')
    PROVE  InStepPs'
  <1>1. Stage' = Stage /\ Sleeper' = Sleeper /\ (ByModem' <=> ByModem) /\ (Deep' <=> Deep)
    BY DEF Stage, Sleeper, ByModem, Deep
  <1>2. Course'
    BY <1>1 DEF InStepPs, Course, Awake, Away, Quiet, Ordered, Obeyed, Asleep, Waking, Refused
  <1>3. Roles'
    BY RolesStill DEF thr
  <1>4. Waits'
    <2> SUFFICES ASSUME conf.idle PROVE Waits'
      BY DEF Waits
    <2>1. Stage = pc["mac"]
      BY Who DEF Stage
    <2>2. pc["mac"] = "wim" => drv # "PS"
      BY <2>1 DEF InStepPs, Course, Awake
    <2> QED BY <1>1, <2>1, <2>2 DEF InStepPs, Waits, Down
  <1> QED BY <1>2, <1>3, <1>4 DEF InStepPs

LEMMA MacTxStep ==
    ASSUME PsTypes, MacTx
    PROVE  /\ timer' => timer \/ conf.dyn
           /\ ps'.on = ps.on
           /\ TellsNot(hifq) => TellsNot(hifq')
           /\ TellsOnce(hifq) => TellsOnce(hifq')
  <1>1. hifq' = hifq \/ hifq' = Append(hifq, "off")
    BY DEF MacTx, Wim
  <1>2. (TellsNot(hifq) => TellsNot(hifq')) /\ (TellsOnce(hifq) => TellsOnce(hifq'))
    BY <1>1, TellsAppend DEF PsTypes, Wims
  <1> QED BY <1>2 DEF MacTx, PsTypes

LEMMA TransmitStep ==
    ASSUME OneWay, PsTypes, InStepPs, Transmit
    PROVE  InStepPs'
  <1>1. /\ ~idling /\ high' = (high \/ (drv = "PS" /\ fw # "LOADING"))
        /\ UNCHANGED <<conf, drv, fw, susp, deaf, hostOff, done, idling, queued, pc, op, irq, tgt, ev>>
    BY DEF Transmit, MaySend, WakeUp, thr, PsTypes
  <1>2. \/ drv = "RUNNING" /\ MacTx
        \/ UNCHANGED <<hifq, ps, timer>>
    BY DEF Transmit
  <1>3. /\ timer' => timer \/ conf.dyn
        /\ ps'.on = ps.on
        /\ TellsNot(hifq) => TellsNot(hifq')
        /\ TellsOnce(hifq) => TellsOnce(hifq')
    BY <1>2, MacTxStep
  <1>4. high' = high \/ (high' = (high \/ fw # "LOADING") /\ drv = "PS" /\ ~idling)
    BY <1>1 DEF PsTypes
  <1> QED BY <1>1, <1>3, <1>4, FrameStep

LEMMA SentStep ==
    ASSUME OneWay, PsTypes, InStepPs, Sent
    PROVE  InStepPs'
  <1>1. UNCHANGED <<conf, drv, fw, susp, deaf, hostOff, high, done, irq, tgt, ev, idling, queued, pc, op>>
    BY DEF Sent, flags, thr
  <1>2. MacTx
    BY DEF Sent
  <1> QED BY <1>1, <1>2, MacTxStep, FrameStep

\* A frame that finds the target in deep sleep finds no order to sleep in the queue.
LEMMA TransmitNowStep ==
    ASSUME OneWay, PsTypes, InStepPs, Closed, NEW deauth \in BOOLEAN, TransmitNow(deauth)
    PROVE  InStepPs'
  <1>1. /\ ~idling /\ ~stopped /\ Deep /\ drv = "PS" /\ high' = (high \/ fw # "LOADING")
        /\ UNCHANGED <<conf, drv, fw, susp, deaf, hostOff, done, idling, queued, pc, op, irq, tgt, ev, ps, timer>>
    BY DEF TransmitNow, MaySend, WakeUp, thr
  <1>2. hifq' = hifq \/ hifq' = <<>>
    BY DEF TransmitNow
  <1>3. TellsNot(hifq)
    <2>1. Stage \notin {"wim", "suspend", "flush"}
      BY <1>1 DEF Closed
    <2> QED BY <1>1, <2>1 DEF InStepPs, Course, Awake, Away, Obeyed
  <1>4. TellsNot(hifq') /\ ~TellsOnce(hifq)
    BY <1>2, <1>3, TellsEmpty, Zenon DEF TellsNot, TellsOnce
  <1> QED BY <1>1, <1>4, FrameStep

LEMMA TimerFiresStep ==
    ASSUME OneWay, PsTypes, InStepPs, TimerFires
    PROVE  InStepPs'
  <1>1. /\ UNCHANGED <<conf, thr, drv, fw, susp, deaf, hostOff, high, done, irq, hifq, tgt, ev, idling, ps>>
        /\ timer
    BY DEF TimerFires, flags
  <1>2. timer' \/ queued' => timer \/ queued \/ conf.dyn
    BY <1>1
  <1> QED BY <1>1, <1>2, QuietStep

LEMMA PsWorkStep ==
    ASSUME OneWay, PsTypes, InStepPs, PsWork
    PROVE  InStepPs'
  <1>1. /\ queued /\ pc["work"] = "idle" /\ queued' = FALSE
        /\ UNCHANGED <<conf, drv, fw, susp, deaf, hostOff, high, done, irq, hifq, tgt, ev, idling, ps, timer>>
    BY DEF PsWork, IsAt, flags
  <1>2. CASE UNCHANGED thr
    BY <1>1, <1>2, QuietStep
  <1>3. CASE ps.on /\ drv # "PS" /\ Enter("work", "ps_work", "begin")
    <2>1. /\ pc'["work"] = "begin" /\ op'["work"] = "ps_work"
          /\ pc'["mac"] = pc["mac"] /\ op'["mac"] = op["mac"]
      BY <1>3, EnterTypes DEF Doings, Threads, Falling
    <2>2. Sleeper = "work" /\ Stage = "idle" /\ ~conf.idle
      <3>1. conf.dyn /\ conf.mode # "none"
        BY <1>1, <1>3 DEF InStepPs, Roles
      <3>2. Sleeper = "work"
        BY <3>1 DEF Sleeper
      <3> QED BY <1>1, <3>2, Who DEF Stage
    <2>3. Awake
      BY <1>3, <2>2 DEF InStepPs, Course, Away
    <2>4. Sleeper' = "work" /\ Stage' = "begin" /\ Awake'
      <3>1. Sleeper' = Sleeper
        BY <1>1 DEF Sleeper
      <3> QED BY <1>1, <2>1, <2>2, <2>3, <3>1 DEF Stage, Awake, Quiet
    <2>5. Course'
      BY <2>4 DEF Course
    <2>6. Roles'
      BY <1>1, <2>1, <2>2, <2>3, <2>4 DEF InStepPs, Roles, Falling, Down, Awake
    <2>7. Waits'
      BY <1>1, <2>2 DEF Waits
    <2> QED BY <2>5, <2>6, <2>7 DEF InStepPs
  <1> QED BY <1>2, <1>3 DEF PsWork

LEMMA IrqCheckStep ==
    ASSUME OneWay, PsTypes, InStepPs, IrqCheck
    PROVE  InStepPs'
  <1>1. /\ irq = "idle" /\ ~deaf /\ ev # "none" /\ irq' = "checked"
        /\ UNCHANGED <<conf, thr, drv, fw, susp, deaf, hostOff, high, done, hifq, tgt, ev, idling, ps, timer, queued>>
    BY DEF IrqCheck, flags, mac
  <1>2. Stage \in {"idle", "wait"} /\ Away
    BY <1>1 DEF InStepPs, Course, Awake
  <1>3. Away'
    BY <1>1, <1>2 DEF Away, Quiet, Asleep, Waking, Refused
  <1>4. Course'
    BY <1>1, <1>2, <1>3, Still DEF Course
  <1>5. Roles'
    BY <1>1, RolesStill
  <1>6. Waits'
    BY <1>1, Still DEF InStepPs, Waits, Down
  <1> QED BY <1>4, <1>5, <1>6 DEF InStepPs

LEMMA IrqReadStep ==
    ASSUME OneWay, PsTypes, InStepPs, IrqRead
    PROVE  InStepPs'
  <1>1. /\ irq = "checked" /\ irq' = (IF ev = "none" THEN "idle" ELSE ev) /\ ev' = "none"
        /\ (timer' => timer \/ conf.dyn)
        /\ UNCHANGED <<conf, thr, drv, fw, susp, deaf, hostOff, high, done, hifq, tgt, idling, ps, queued>>
    BY DEF IrqRead, flags, Arm
  <1>2. Stage \in {"idle", "wait"} /\ Away
    BY <1>1 DEF InStepPs, Course, Awake, Quiet
  <1>3. /\ ev = "ready_ps" \/ Waking \/ Refused
        /\ Away'
    BY <1>1, <1>2 DEF Away, Quiet, Asleep, Waking, Refused
  <1>4. Course'
    BY <1>1, <1>2, <1>3, Still DEF Course
  <1>5. Roles'
    BY <1>1, RolesStill
  <1>6. Waits'
    BY <1>1, <1>3, Still DEF InStepPs, Waits, Down, Waking, Refused
  <1> QED BY <1>4, <1>5, <1>6 DEF InStepPs

LEMMA FwDownloadStep ==
    ASSUME OneWay, PsTypes, InStepPs, FwDownload, ~Spend("missing")
    PROVE  InStepPs'
  <1>1. /\ irq = "fw_download" /\ irq' = "idle" /\ fw' = "LOADING" /\ tgt' = "awake" /\ ev' = "ready_ps"
        /\ UNCHANGED <<conf, thr, drv, susp, deaf, hostOff, high, done, hifq, idling, ps, timer, queued>>
    BY DEF FwDownload, mac
  <1>2. Stage \in {"idle", "wait"} /\ Away
    BY <1>1 DEF InStepPs, Course, Awake, Quiet
  <1>3. Course'
    BY <1>1, <1>2, Still DEF Course, Away
  <1>4. Roles'
    BY <1>1, RolesStill
  <1>5. Waits'
    BY <1>1, <1>2, Still DEF InStepPs, Waits, Down, Away
  <1> QED BY <1>3, <1>4, <1>5 DEF InStepPs

\* The host is brought back: the hif runs and the driver is awake.
LEMMA ResumeAwake ==
    ASSUME InStepPs, Away, Stage \in {"idle", "wait"}, Resume
    PROVE  drv' = "RUNNING" /\ ~susp'
  <1>1. drv = "PS" /\ (Deep \/ conf.idle)
    BY DEF InStepPs, Roles, Down, Away
  <1> QED BY <1>1 DEF Resume

LEMMA ReadyFromPsStep ==
    ASSUME OneWay, PsTypes, InStepPs, ReadyFromPs
    PROVE  InStepPs'
  <1>1. /\ irq = "ready_ps" /\ irq' = "woken" /\ fw' = "ACTIVE" /\ (timer' => timer \/ conf.dyn) /\ Resume
        /\ UNCHANGED <<conf, thr, deaf, hostOff, done, hifq, tgt, ev, idling, ps, queued>>
    BY DEF ReadyFromPs
  <1>2. Stage \in {"idle", "wait"} /\ Away
    BY <1>1 DEF InStepPs, Course, Awake, Quiet
  <1>3. drv' = "RUNNING" /\ ~susp'
    BY <1>1, <1>2, ResumeAwake
  <1>4. Awake'
    BY <1>1, <1>2, <1>3 DEF Away, Awake, Quiet
  <1>5. Course'
    BY <1>1, <1>2, <1>4, Still DEF Course
  <1>6. Roles'
    BY <1>1, <1>3, RolesStill
  <1>7. Waits'
    <2> SUFFICES ASSUME conf.idle PROVE Waits'
      BY <1>1 DEF Waits
    <2>1. Stage = pc["mac"]
      BY Who DEF Stage
    <2>2. pc["mac"] = "wait" /\ done = 0
      BY <1>1, <1>2, <2>1 DEF InStepPs, Waits, Down, Away
    <2> QED BY <1>1, <1>2, <1>3, <2>1, <2>2, Still DEF Waits, Down
  <1> QED BY <1>5, <1>6, <1>7 DEF InStepPs

LEMMA WakeDoneStep ==
    ASSUME OneWay, PsTypes, InStepPs, WakeDone
    PROVE  InStepPs'
  <1>1. /\ irq = "woken" /\ irq' = "idle"
        /\ UNCHANGED <<conf, thr, drv, fw, susp, deaf, hostOff, high, hifq, tgt, ev, idling, ps, timer, queued>>
    BY DEF WakeDone, mac
  <1>2. Course'
    BY <1>1, Still DEF InStepPs, Course, Awake, Away, Quiet, Ordered, Obeyed, Asleep, Waking, Refused
  <1>3. Roles'
    BY <1>1, RolesStill
  <1>4. Waits'
    <2> SUFFICES ASSUME conf.idle PROVE Waits'
      BY <1>1 DEF Waits
    <2>1. Stage = pc["mac"]
      BY Who DEF Stage
    <2>2. pc["mac"] = "wait" /\ drv = "RUNNING"
      BY <1>1 DEF InStepPs, Waits
    <2> QED BY <1>1, <2>1, <2>2, Still DEF Waits, Down
  <1> QED BY <1>2, <1>3, <1>4 DEF InStepPs

LEMMA FailedToEnterPsStep ==
    ASSUME OneWay, PsTypes, InStepPs, FailedToEnterPs
    PROVE  InStepPs'
  <1>1. /\ irq = "failed_ps" /\ irq' = "idle" /\ fw' = "ACTIVE" /\ Resume
        /\ UNCHANGED <<conf, thr, deaf, hostOff, done, hifq, tgt, ev, idling, ps, timer, queued>>
    BY DEF FailedToEnterPs, mac
  <1>2. Stage \in {"idle", "wait"} /\ Away
    BY <1>1 DEF InStepPs, Course, Awake, Quiet
  <1>3. drv' = "RUNNING" /\ ~susp'
    BY <1>1, <1>2, ResumeAwake
  <1>4. Awake'
    BY <1>1, <1>2, <1>3 DEF Away, Awake, Quiet
  <1>5. Course'
    BY <1>1, <1>2, <1>4, Still DEF Course
  <1>6. Roles'
    BY <1>1, <1>3, RolesStill
  <1>7. Waits'
    <2> SUFFICES ASSUME conf.idle PROVE Waits'
      BY <1>1 DEF Waits
    <2>1. Stage = pc["mac"]
      BY Who DEF Stage
    <2> QED BY <1>1, <1>2, <1>3, <2>1, Still DEF Waits, Down
  <1> QED BY <1>5, <1>6, <1>7 DEF InStepPs

\* While nothing has harmed the station, neither the host nor the target
\* restarts.
LEMMA NoRestart ==
    ASSUME InStepPs
    PROVE  ~WdtExpired /\ ~ReadyFromWdt /\ ~TgtReboots /\ ~HostResume
  <1>1. irq # "wdt" /\ irq # "ready_wdt" /\ tgt # "crashed"
    BY DEF InStepPs, Course, Awake, Away, Quiet, Ordered, Obeyed, Asleep, Waking, Refused
  <1> QED BY <1>1 DEF InStepPs, Roles, WdtExpired, ReadyFromWdt, TgtReboots, HostResume

LEMMA IrqStep ==
    ASSUME OneWay, PsTypes, InStepPs, Irq, ~Spend("missing")
    PROVE  InStepPs'
  BY NoRestart, IrqCheckStep, IrqReadStep, FwDownloadStep, ReadyFromPsStep, WakeDoneStep, FailedToEnterPsStep, Zenon DEF Irq

LEMMA DeliverStep ==
    ASSUME OneWay, PsTypes, InStepPs, Deliver
    PROVE  InStepPs'
  <1>1. /\ hifq # <<>> /\ tgt = "awake" /\ hifq' = Tail(hifq)
        /\ tgt' = (IF Head(hifq) = "deep" THEN "asleep" ELSE tgt)
        /\ UNCHANGED <<conf, thr, drv, fw, susp, deaf, hostOff, high, done, irq, ev, idling, ps, timer, queued>>
    BY DEF Deliver, flags, mac
  <1>2. /\ TellsNot(hifq) => TellsNot(hifq') /\ tgt' = tgt
        /\ TellsOnce(hifq) => \/ TellsNot(hifq') /\ tgt' = "asleep"
                              \/ TellsOnce(hifq') /\ tgt' = tgt
    BY <1>1, TellsTail DEF PsTypes
  <1>3. Course'
    BY <1>1, <1>2, Still DEF InStepPs, Course, Awake, Away, Quiet, Ordered, Obeyed, Asleep, Waking, Refused
  <1>4. Roles'
    BY <1>1, RolesStill
  <1>5. Waits'
    BY <1>1, Still DEF InStepPs, Waits, Down
  <1> QED BY <1>3, <1>4, <1>5 DEF InStepPs

LEMMA RefuseStep ==
    ASSUME OneWay, PsTypes, InStepPs, Refuse
    PROVE  InStepPs'
  <1>1. /\ hifq # <<>> /\ Head(hifq) = "deep" /\ tgt = "awake" /\ hifq' = Tail(hifq) /\ ev' = "failed_ps"
        /\ UNCHANGED <<conf, thr, drv, fw, susp, deaf, hostOff, high, done, irq, tgt, idling, ps, timer, queued>>
    BY DEF Refuse, flags, mac
  <1>2. ~TellsNot(hifq) /\ (TellsOnce(hifq) => TellsNot(hifq'))
    BY <1>1, TellsTail DEF PsTypes
  <1>3. Course'
    BY <1>1, <1>2, Still DEF InStepPs, Course, Awake, Away, Quiet, Ordered, Obeyed, Refused
  <1>4. Roles'
    BY <1>1, RolesStill
  <1>5. Waits'
    BY <1>1, Still DEF InStepPs, Waits, Down
  <1> QED BY <1>3, <1>4, <1>5 DEF InStepPs

LEMMA TgtWakesStep ==
    ASSUME OneWay, PsTypes, InStepPs, TgtWakes
    PROVE  InStepPs'
  <1>1. /\ tgt = "asleep" /\ ev = "none" /\ tgt' = "loading" /\ ev' = "fw_download" /\ (high \/ ~(conf.idle /\ idling))
        /\ UNCHANGED <<conf, thr, drv, fw, susp, deaf, hostOff, high, done, irq, hifq, idling, ps, timer, queued>>
    BY DEF TgtWakes, flags, mac
  <1>2. Course'
    BY <1>1, Still DEF InStepPs, Course, Awake, Away, Quiet, Ordered, Obeyed, Asleep, Waking, Refused
  <1>3. Roles'
    BY <1>1, RolesStill
  <1>4. Waits'
    BY <1>1, Still DEF InStepPs, Waits, Down
  <1> QED BY <1>2, <1>3, <1>4 DEF InStepPs

-----------------------------------------------------------------------------
(* The theorems.                                                           *)

LEMMA InStepPsStep ==
    ASSUME OneWay, PsTypes, InStepPs, Closed, [PsNext]_psVars, ~HostSuspend, ~TgtCrashes, ~Spend("missing")
    PROVE  InStepPs'
  <1>1. CASE UNCHANGED psVars
    <2>1. UNCHANGED <<conf, thr, drv, fw, susp, deaf, hostOff, high, done, irq, hifq, tgt, ev, idling, ps, timer, queued>>
      BY <1>1, Zenon DEF psVars, thr
    <2> QED BY <2>1, QuietStep
  <1>2. CASE \E t \in Threads : Fall(t)
    BY <1>2, BeginStep, SendPsStep, SuspendStep, FlushStep, EndStep, Zenon DEF Fall
  <1>3. CASE Mac
    BY <1>3, NoRestart, ConfigPsStep, ConfigIdleStep, CommandStep, WokenStep, WakeTimeoutStep, TransmitStep, SentStep,
       TransmitNowStep, Zenon DEF Mac
  <1>4. CASE Target
    BY <1>4, NoRestart, DeliverStep, RefuseStep, TgtWakesStep, Zenon DEF Target
  <1> QED BY <1>1, <1>2, <1>3, <1>4, IrqStep, TimerFiresStep, PsWorkStep, Zenon DEF PsNext

\* The queues stay closed while the order to sleep is on its way.
LEMMA ClosedMac ==
    ASSUME Closed, UNCHANGED <<conf, stopped>>, pc'["work"] = pc["work"],
           pc'["mac"] = pc["mac"] \/ pc'["mac"] \in {"idle", "wait", "begin"}
    PROVE  Closed'
  BY DEF Closed, Deep, Stage, Sleeper

LEMMA EnterPlace ==
    ASSUME PsTypes, NEW o \in Doings,
           NEW p \in {"idle", "wait"} \cup Falling, Enter("mac", o, p)
    PROVE  pc'["mac"] = p /\ pc'["work"] = pc["work"]
  BY EnterTypes DEF Threads

LEMMA ThenEarly == ASSUME NEW o PROVE Then(o) \in {"idle", "begin"}
  BY DEF Then

LEMMA ClosedCalls ==
    ASSUME PsTypes, Closed, \/ \E turn \in BOOLEAN : ConfigPs(turn) \/ ConfigIdle(turn)
                            \/ Command \/ Woken \/ WakeTimeout
    PROVE  Closed'
  <1>1. UNCHANGED <<conf, stopped>>
    BY Zenon DEF ConfigPs, ConfigIdle, Command, Woken, WakeTimeout, mac, flags
  <1>2. \/ UNCHANGED thr
        \/ \E o \in Doings, p \in {"idle", "wait", "begin"} : Enter("mac", o, p)
        \/ \E p \in {"idle", "wait", "begin"} : Goto("mac", p)
    <2>1. {"config", "idle", "command"} \subseteq Doings
      BY DEF Doings
    <2>2. ASSUME NEW o \in {"config", "idle", "command"}, WakeFor(o)
          PROVE  \E d \in Doings, p \in {"idle", "wait", "begin"} : Enter("mac", d, p)
      <3>1. (IF fw = "LOADING" THEN Then(o) ELSE "wait") \in {"idle", "wait", "begin"}
        BY ThenEarly
      <3>2. Enter("mac", o, IF fw = "LOADING" THEN Then(o) ELSE "wait")
        BY <2>2, Zenon DEF WakeFor
      <3> QED BY <2>1, <3>1, <3>2, Zenon
    <2>3. CASE \E turn \in BOOLEAN : ConfigPs(turn) \/ ConfigIdle(turn)
      <3>1. \/ UNCHANGED thr
            \/ \E o \in {"config", "idle"} : WakeFor(o) \/ Enter("mac", o, "begin")
        BY <2>3 DEF ConfigPs, ConfigIdle
      <3> QED BY <2>1, <2>2, <3>1, Zenon
    <2>4. CASE Command
      <3>1. UNCHANGED thr \/ WakeFor("command") \/ Enter("mac", "command", "begin")
        BY <2>4 DEF Command
      <3> QED BY <2>1, <2>2, <3>1, Zenon
    <2>5. CASE Woken \/ WakeTimeout
      <3>1. Goto("mac", Then(op["mac"])) /\ Then(op["mac"]) \in {"idle", "wait", "begin"}
        BY <2>5, ThenEarly DEF Woken, WakeTimeout
      <3> QED BY <3>1, Zenon
    <2> QED BY <2>3, <2>4, <2>5
  <1>3. {"idle", "wait", "begin"} \subseteq {"idle", "wait"} \cup Falling /\ Threads = {"work", "mac"}
    BY DEF Falling, Threads
  <1>4. pc'["work"] = pc["work"] /\ (pc'["mac"] = pc["mac"] \/ pc'["mac"] \in {"idle", "wait", "begin"})
    <2>1. CASE UNCHANGED thr
      BY <2>1 DEF thr
    <2>2. ASSUME NEW o \in Doings, NEW p \in {"idle", "wait", "begin"}, Enter("mac", o, p)
          PROVE  pc'["mac"] = p /\ pc'["work"] = pc["work"]
      BY <1>3, <2>2, EnterPlace
    <2>3. ASSUME NEW p \in {"idle", "wait", "begin"}, Goto("mac", p)
          PROVE  pc'["mac"] = p /\ pc'["work"] = pc["work"]
      BY <1>3, <2>3, GotoTypes
    <2> QED BY <1>2, <2>1, <2>2, <2>3, Zenon
  <1> QED BY <1>1, <1>4, ClosedMac

LEMMA ClosedFall ==
    ASSUME OneWay, PsTypes, InStepPs, Closed, NEW t \in Threads, Fall(t)
    PROVE  Closed'
  <1>1. conf' = conf /\ pc[t] \in Falling
    BY Zenon DEF Fall, Begin, SendPs, Suspend, Flush, End, IsAt, mac, Falling
  <1>2. Falls(t)
    BY <1>1, FallsBy DEF InStepPs
  <1>3. Stage = pc[t] /\ Stage' = pc'[t]
    BY <1>2 DEF Falls, Stage
  <1>4. CASE Begin(t)
    BY <1>2, <1>4 DEF Begin, Closed, Falls
  <1>5. CASE SendPs(t) \/ Suspend(t) \/ Flush(t)
    <2>1. stopped' = stopped /\ pc[t] \in {"wim", "suspend", "flush"}
      BY <1>5, Zenon DEF SendPs, Suspend, Flush, IsAt, flags
    <2> QED BY <1>2, <1>3, <2>1 DEF Closed, Falls
  <1>6. CASE End(t)
    <2>1. pc'[t] = "idle"
      BY <1>6, EnterTypes DEF End, Doings, Falling
    <2> QED BY <1>3, <2>1 DEF Closed
  <1> QED BY <1>4, <1>5, <1>6, Zenon DEF Fall

LEMMA ClosedStep ==
    ASSUME OneWay, PsTypes, InStepPs, Closed, [PsNext]_psVars, ~HostSuspend, ~TgtCrashes
    PROVE  Closed'
  <1>1. CASE UNCHANGED <<conf, thr, stopped>>
    BY <1>1, ClosedMac DEF thr
  <1>2. CASE ReadyFromPs \/ FailedToEnterPs
    <2>1. irq \in {"ready_ps", "failed_ps"} /\ UNCHANGED <<conf, thr>>
      BY <1>2 DEF ReadyFromPs, FailedToEnterPs, mac
    <2>2. Stage \in {"idle", "wait"}
      BY <2>1 DEF InStepPs, Course, Awake, Quiet
    <2> QED BY <2>1, <2>2, Still DEF Closed
  <1>3. CASE PsWork
    <2>1. stopped' = stopped /\ conf' = conf
      BY <1>3 DEF PsWork, flags
    <2>2. CASE UNCHANGED thr
      BY <1>1, <2>1, <2>2
    <2>3. CASE Enter("work", "ps_work", "begin")
      <3>1. pc'["work"] = "begin" /\ pc'["mac"] = pc["mac"]
        BY <2>3, EnterTypes DEF Doings, Threads, Falling
      <3> QED BY <2>1, <3>1 DEF Closed, Deep, Stage, Sleeper
    <2> QED BY <1>3, <2>2, <2>3 DEF PsWork
  <1>4. CASE Transmit \/ Sent \/ \E deauth \in BOOLEAN : TransmitNow(deauth)
    <2>1. UNCHANGED <<conf, thr, stopped>>
      BY <1>4, Zenon DEF Transmit, Sent, TransmitNow, thr, flags
    <2> QED BY <1>1, <2>1
  <1>5. CASE Irq
    <2>1. \/ ReadyFromPs \/ FailedToEnterPs
          \/ IrqCheck \/ IrqRead \/ FwDownload \/ WakeDone
      BY <1>5, NoRestart, Zenon DEF Irq
    <2>2. CASE IrqCheck \/ IrqRead \/ FwDownload \/ WakeDone
      BY <1>1, <2>2, Zenon DEF IrqCheck, IrqRead, FwDownload, WakeDone, flags, mac
    <2> QED BY <1>2, <2>1, <2>2
  <1>6. CASE Target
    <2>1. UNCHANGED <<conf, thr, stopped>>
      BY <1>6, Zenon DEF Target, Deliver, Refuse, TgtWakes, TgtCrashes, TgtReboots, flags, mac, thr
    <2> QED BY <1>1, <2>1
  <1>7. CASE Mac
    BY <1>4, <1>7, NoRestart, ClosedCalls, Zenon DEF Mac
  <1>8. CASE TimerFires
    BY <1>1, <1>8, Zenon DEF TimerFires, flags
  <1>9. CASE UNCHANGED psVars
    BY <1>1, <1>9, Zenon DEF psVars, thr
  <1>10. CASE \E t \in Threads : Fall(t)
    BY <1>10, ClosedFall
  <1> QED BY <1>3, <1>5, <1>6, <1>7, <1>8, <1>9, <1>10, Zenon DEF PsNext

LEMMA PsInitInStep ==
    ASSUME OneWay, PsInit
    PROVE  InStepPs /\ Closed
  <1>1. PsTypes
    BY PsInitTypes
  <1>2. /\ drv = "RUNNING" /\ fw = "ACTIVE" /\ ~susp /\ ~hostOff /\ ~timer /\ ~queued /\ ~ps.on
        /\ irq = "idle" /\ hifq = <<>> /\ tgt = "awake" /\ ev = "none"
        /\ \A t \in Threads : pc[t] = "idle" /\ op[t] = "none"
    BY DEF PsInit
  <1>3. Stage = "idle" /\ pc["mac"] = "idle" /\ pc["work"] = "idle"
    BY <1>1, <1>2, Who DEF Stage
  <1>4. Awake
    BY <1>2, TellsEmpty DEF Awake, Quiet
  <1>5. Course /\ Roles /\ Waits
    BY <1>2, <1>3, <1>4 DEF Course, Roles, Waits, Falling, Down
  <1> QED BY <1>3, <1>5 DEF InStepPs, Closed

\* Host and target go to sleep and come back in step, at every moment of a
\* sleep and not only at rest.
THEOREM SpecPsInv == ASSUME OneWay PROVE PsSpec => []PsInv
  <1>1. PsInit => PsInv
    BY PsInitTypes, PsInitInStep DEF PsInv
  <1>2. PsInv /\ [PsNext]_psVars => PsInv'
    <2> SUFFICES ASSUME PsInv, [PsNext]_psVars PROVE PsInv'
      OBVIOUS
    <2>1. PsTypes /\ PsTypes'
      BY PsTypesStep DEF PsInv
    <2>2. ASSUME Unharmed' PROVE InStepPs' /\ Closed'
      <3>1. Unharmed /\ ~HostSuspend /\ ~TgtCrashes /\ ~Spend("missing")
        BY <2>1, <2>2, Harm
      <3> QED BY <2>1, <3>1, InStepPsStep, ClosedStep DEF PsInv
    <2> QED BY <2>1, <2>2 DEF PsInv
  <1> QED BY <1>1, <1>2, PTL DEF PsSpec

\* When nothing is under way the driver believes the target asleep exactly when
\* it is, for every way to load the module that has one sleeper, whoever wakes
\* the target and however often it refuses.
THEOREM SpecAgree == ASSUME OneWay PROVE PsSpec => []Agree
  <1>1. ASSUME PsInv PROVE Agree
    <2> SUFFICES ASSUME AtRest, Unharmed PROVE drv = "PS" <=> tgt = "asleep"
      BY DEF Agree
    <2>1. InStepPs /\ Stage = "idle"
      BY <1>1, Who DEF PsInv, AtRest, IsAt, Stage
    <2>2. Awake \/ (Away /\ irq = "idle" /\ ev = "none")
      BY <2>1 DEF InStepPs, Course, AtRest
    <2> QED BY <2>2 DEF Awake, Away, Asleep, Waking, Refused, Quiet
  <1> QED BY <1>1, SpecPsInv, PTL
=============================================================================
