---------------------------- MODULE TxPath_proof ----------------------------
(***************************************************************************)
(* The transmit path, for every number of queues, credits, slots, skbs and *)
(* faults: tx_pend accounts exactly for the frames of the hif layer, the   *)
(* path implements the channel of TxChannel, and the slots fit the ring.   *)
(***************************************************************************)
EXTENDS TxPath, FiniteSetTheorems, SequenceTheorems, TLAPS

-----------------------------------------------------------------------------
(* Queues as sets.                                                         *)

Distinct(q) == \A i, j \in DOMAIN q : q[i] = q[j] => i = j

LEMMA ElemsType ==
  ASSUME NEW S, NEW q \in Seq(S)
  PROVE  Elems(q) \subseteq S
<1>1. \A i \in DOMAIN q : q[i] \in S
  BY LenProperties, ElementOfSeq
<1> QED BY <1>1 DEF Elems

(* Queueing at the tail (skb_queue_tail) adds the element, and only it.     *)
LEMMA ElemsAppend ==
  ASSUME NEW S, NEW q \in Seq(S), NEW e \in S
  PROVE  /\ Append(q, e) \in Seq(S)
         /\ Elems(Append(q, e)) = Elems(q) \cup {e}
         /\ Distinct(q) /\ e \notin Elems(q) => Distinct(Append(q, e))
<1>1. /\ Append(q, e) \in Seq(S)
      /\ Len(Append(q, e)) = Len(q) + 1
      /\ \A i \in 1 .. Len(q) : Append(q, e)[i] = q[i]
      /\ Append(q, e)[Len(q) + 1] = e
  BY AppendProperties
<1>2. /\ DOMAIN q = 1 .. Len(q) /\ Len(q) \in Nat
      /\ DOMAIN Append(q, e) = 1 .. (Len(q) + 1)
  BY <1>1, LenProperties
<1>3. Elems(Append(q, e)) \subseteq Elems(q) \cup {e}
  BY <1>1, <1>2 DEF Elems
<1>4. Elems(q) \cup {e} \subseteq Elems(Append(q, e))
  BY <1>1, <1>2 DEF Elems
<1>5. Distinct(q) /\ e \notin Elems(q) => Distinct(Append(q, e))
  BY <1>1, <1>2 DEF Elems, Distinct
<1> QED BY <1>1, <1>3, <1>4, <1>5

(* Queueing at the head (skb_queue_head) adds the element, and only it.     *)
LEMMA ElemsPush ==
  ASSUME NEW S, NEW q \in Seq(S), NEW e \in S
  PROVE  /\ <<e>> \o q \in Seq(S)
         /\ Elems(<<e>> \o q) = Elems(q) \cup {e}
         /\ Distinct(q) /\ e \notin Elems(q) => Distinct(<<e>> \o q)
<1> DEFINE r == <<e>> \o q
<1>1. <<e>> \in Seq(S) /\ Len(<<e>>) = 1 /\ <<e>>[1] = e
  OBVIOUS
<1>2. /\ r \in Seq(S)
      /\ Len(r) = 1 + Len(q)
      /\ \A i \in 1 .. (1 + Len(q)) : r[i] = IF i <= 1 THEN <<e>>[i] ELSE q[i - 1]
  BY <1>1, ConcatProperties
<1>3. /\ DOMAIN q = 1 .. Len(q) /\ Len(q) \in Nat
      /\ DOMAIN r = 1 .. (1 + Len(q))
  BY <1>2, LenProperties
<1>4. r[1] = e /\ \A i \in 1 .. Len(q) : r[i + 1] = q[i]
  BY <1>1, <1>2, <1>3
<1> HIDE DEF r
<1>5. Elems(r) \subseteq Elems(q) \cup {e}
  <2> SUFFICES ASSUME NEW i \in DOMAIN r PROVE r[i] \in Elems(q) \cup {e}
    BY DEF Elems
  <2>1. CASE i = 1
    BY <2>1, <1>4
  <2>2. CASE i # 1
    <3>1. i - 1 \in 1 .. Len(q) /\ r[(i - 1) + 1] = q[i - 1]
      BY <2>2, <1>3, <1>4
    <3> QED BY <3>1, <1>3 DEF Elems
  <2> QED BY <2>1, <2>2
<1>6. Elems(q) \cup {e} \subseteq Elems(r)
  <2>1. e \in Elems(r)
    BY <1>3, <1>4 DEF Elems
  <2>2. ASSUME NEW i \in DOMAIN q PROVE q[i] \in Elems(r)
    <3>1. i + 1 \in DOMAIN r /\ r[i + 1] = q[i]
      BY <1>3, <1>4
    <3> QED BY <3>1 DEF Elems
  <2> QED BY <2>1, <2>2 DEF Elems
<1>7. ASSUME Distinct(q), e \notin Elems(q) PROVE Distinct(r)
  <2> SUFFICES ASSUME NEW i \in DOMAIN r, NEW j \in DOMAIN r, r[i] = r[j]
               PROVE  i = j
    BY DEF Distinct
  <2>1. \A k \in DOMAIN r : k = 1 \/ (k - 1 \in DOMAIN q /\ r[k] = q[k - 1])
    <3> TAKE k \in DOMAIN r
    <3>1. k # 1 => k - 1 \in 1 .. Len(q) /\ r[(k - 1) + 1] = q[k - 1]
      BY <1>3, <1>4
    <3> QED BY <3>1, <1>3
  <2> QED BY <1>7, <2>1, <1>3, <1>4 DEF Distinct, Elems
<1> QED BY <1>2, <1>5, <1>6, <1>7 DEF r

(* Dequeueing takes the head off and leaves the others.                     *)
LEMMA ElemsTail ==
  ASSUME NEW S, NEW q \in Seq(S), q # <<>>
  PROVE  /\ Head(q) \in S /\ Tail(q) \in Seq(S)
         /\ Elems(q) = Elems(Tail(q)) \cup {Head(q)}
         /\ Distinct(q) => Distinct(Tail(q)) /\ Head(q) \notin Elems(Tail(q))
<1> DEFINE t == Tail(q)
<1>1. /\ Head(q) \in S /\ t \in Seq(S)
      /\ Len(t) = Len(q) - 1
      /\ \A i \in 1 .. Len(t) : t[i] = q[i + 1]
      /\ Head(q) = q[1]
  BY HeadTailProperties
<1>2. /\ DOMAIN q = 1 .. Len(q) /\ Len(q) \in Nat \ {0}
      /\ DOMAIN t = 1 .. Len(t)
  BY <1>1, LenProperties, EmptySeq
<1> HIDE DEF t
<1>3. Elems(t) \cup {Head(q)} \subseteq Elems(q)
  BY <1>1, <1>2 DEF Elems
<1>4. Elems(q) \subseteq Elems(t) \cup {Head(q)}
  <2> SUFFICES ASSUME NEW i \in DOMAIN q PROVE q[i] \in Elems(t) \cup {Head(q)}
    BY DEF Elems
  <2>1. CASE i = 1
    BY <2>1, <1>1
  <2>2. CASE i # 1
    <3>1. i - 1 \in 1 .. Len(t) /\ t[i - 1] = q[(i - 1) + 1]
      BY <2>2, <1>1, <1>2
    <3> QED BY <3>1, <1>2 DEF Elems
  <2> QED BY <2>1, <2>2
<1>5. ASSUME Distinct(q) PROVE Distinct(t) /\ Head(q) \notin Elems(t)
  <2>1. \A i \in DOMAIN t : i + 1 \in DOMAIN q /\ t[i] = q[i + 1] /\ i # 0
    BY <1>1, <1>2
  <2>2. Distinct(t)
    <3> SUFFICES ASSUME NEW i \in DOMAIN t, NEW j \in DOMAIN t, t[i] = t[j]
                 PROVE  i = j
      BY DEF Distinct
    <3>1. i + 1 = j + 1
      BY <1>5, <2>1 DEF Distinct
    <3> QED BY <3>1, <1>2
  <2>3. ASSUME NEW i \in DOMAIN t PROVE t[i] # Head(q)
    <3>1. 1 \in DOMAIN q /\ i + 1 # 1
      BY <1>2, <2>1
    <3> QED BY <3>1, <1>1, <1>5, <2>1 DEF Distinct
  <2> QED BY <2>2, <2>3 DEF Elems
<1> QED BY <1>1, <1>3, <1>4, <1>5 DEF t

-----------------------------------------------------------------------------
(* Accounting: P charges every AC the slots of the skbs of C.              *)

Of(C, a) == {s \in C : s.ac = a}

Accounts(P, C) ==
  /\ P \in [AC -> Int]
  /\ \A a \in AC : /\ IsFiniteSet(Units(Of(C, a)))
                   /\ P[a] = Cardinality(Units(Of(C, a)))

(* A new skb adds as many units as it has slots.                            *)
LEMMA UnitsAdd ==
  ASSUME NEW C, IsFiniteSet(Units(C)), NEW s \in Skb, s \notin C
  PROVE  /\ IsFiniteSet(Units(C \cup {s}))
         /\ Cardinality(Units(C \cup {s})) = Cardinality(Units(C)) + s.n
<1> DEFINE U == {s} \X (1 .. s.n)
<1>1. s.n \in Nat
  BY DEF Skb
<1>2. IsFiniteSet(U) /\ Cardinality(U) = s.n
  <2>1. IsFiniteSet({s}) /\ Cardinality({s}) = 1
    BY FS_Singleton
  <2>2. IsFiniteSet(1 .. s.n) /\ Cardinality(1 .. s.n) = s.n
    BY <1>1, FS_Interval
  <2>3. IsFiniteSet(U) /\ Cardinality(U) = Cardinality({s}) * Cardinality(1 .. s.n)
    BY <2>1, <2>2, FS_Product
  <2> QED BY <1>1, <2>1, <2>2, <2>3
<1>3. Units(C \cup {s}) = Units(C) \cup U
  BY DEF Units
<1>4. Units(C) \cap U = {}
  BY DEF Units
<1>5. Cardinality(Units(C) \cap U) = 0
  BY <1>4, FS_EmptySet
<1>6. Cardinality(Units(C)) \in Nat
  BY FS_CardinalityType
<1> HIDE DEF U
<1>7. /\ IsFiniteSet(Units(C) \cup U)
      /\ Cardinality(Units(C) \cup U) =
           Cardinality(Units(C)) + Cardinality(U) - Cardinality(Units(C) \cap U)
  BY <1>2, FS_Union
<1>8. Cardinality(Units(C) \cup U) = Cardinality(Units(C)) + s.n
  BY <1>1, <1>2, <1>5, <1>6, <1>7
<1> QED BY <1>3, <1>7, <1>8, Zenon

(* Enqueueing: the charge of nrc_xmit_frame keeps the account.              *)
LEMMA AccountAdd ==
  ASSUME NEW P, NEW C, Accounts(P, C), NEW s \in Skb, s \notin C
  PROVE  Accounts([P EXCEPT ![s.ac] = @ + s.n], C \cup {s})
<1> DEFINE Q == [P EXCEPT ![s.ac] = @ + s.n]
<1>1. s.ac \in AC /\ s.n \in Nat
  BY DEF Skb
<1>2. Q \in [AC -> Int]
  BY <1>1 DEF Accounts
<1>3. ASSUME NEW a \in AC
      PROVE  /\ IsFiniteSet(Units(Of(C \cup {s}, a)))
             /\ Q[a] = Cardinality(Units(Of(C \cup {s}, a)))
  <2>1. CASE a = s.ac
    <3>1. Of(C \cup {s}, a) = Of(C, a) \cup {s} /\ s \notin Of(C, a)
      BY <2>1 DEF Of
    <3>2. IsFiniteSet(Units(Of(C, a))) /\ P[a] = Cardinality(Units(Of(C, a)))
      BY DEF Accounts
    <3>3. Q[a] = P[a] + s.n
      BY <2>1 DEF Accounts
    <3> QED BY <3>1, <3>2, <3>3, UnitsAdd
  <2>2. CASE a # s.ac
    <3>1. Of(C \cup {s}, a) = Of(C, a)
      BY <2>2 DEF Of
    <3>2. Q[a] = P[a]
      BY <2>2 DEF Accounts
    <3> QED BY <3>1, <3>2 DEF Accounts
  <2> QED BY <2>1, <2>2
<1> QED BY <1>2, <1>3 DEF Accounts

(* Freeing: the discharge of nrc_hif_free_skb keeps the account.            *)
LEMMA AccountRemove ==
  ASSUME NEW P, NEW C, NEW s \in Skb, s \notin C, Accounts(P, C \cup {s})
  PROVE  Accounts([P EXCEPT ![s.ac] = @ - s.n], C)
<1> DEFINE Q == [P EXCEPT ![s.ac] = @ - s.n]
<1>1. s.ac \in AC /\ s.n \in Nat
  BY DEF Skb
<1>2. Q \in [AC -> Int]
  BY <1>1 DEF Accounts
<1>3. ASSUME NEW a \in AC
      PROVE  /\ IsFiniteSet(Units(Of(C, a)))
             /\ Q[a] = Cardinality(Units(Of(C, a)))
  <2>0. /\ IsFiniteSet(Units(Of(C \cup {s}, a)))
        /\ P[a] = Cardinality(Units(Of(C \cup {s}, a)))
    BY DEF Accounts
  <2>1. IsFiniteSet(Units(Of(C, a)))
    <3>1. Units(Of(C, a)) \subseteq Units(Of(C \cup {s}, a))
      BY DEF Units, Of
    <3> QED BY <2>0, <3>1, FS_Subset
  <2>2. Cardinality(Units(Of(C, a))) \in Nat
    BY <2>1, FS_CardinalityType
  <2>3. CASE a = s.ac
    <3>1. Of(C \cup {s}, a) = Of(C, a) \cup {s} /\ s \notin Of(C, a)
      BY <2>3 DEF Of
    <3>2. Q[a] = P[a] - s.n
      BY <2>3 DEF Accounts
    <3>3. P[a] = Cardinality(Units(Of(C, a))) + s.n
      BY <2>0, <2>1, <3>1, UnitsAdd
    <3> QED BY <1>1, <2>1, <2>2, <3>2, <3>3
  <2>4. CASE a # s.ac
    <3>1. Of(C \cup {s}, a) = Of(C, a)
      BY <2>4 DEF Of
    <3>2. Q[a] = P[a]
      BY <2>4 DEF Accounts
    <3> QED BY <2>0, <3>1, <3>2
  <2> QED BY <2>3, <2>4
<1> QED BY <1>2, <1>3 DEF Accounts

-----------------------------------------------------------------------------
(* The inductive invariant.                                                *)

Charged == InHif \cup leaked

Shape ==
  /\ txq \in [AC -> Seq(Skb)] /\ txqList \in Seq(AC)
  /\ taskRun \in BOOLEAN
  /\ quota > 0 => taskRun /\ txqList # <<>>
  /\ frameQ \in Seq(Skb) /\ wimQ \in Seq(Skb)
  /\ cur \in Skb \cup {NoSkb} /\ held \in Skb \cup {NoSkb}
  /\ pc \in {"idle", "pick", "wait", "sleep", "xmit", "count", "write", "free"}
  /\ pc \in {"idle", "pick"} <=> cur = NoSkb
  /\ made \in Nat /\ made <= MaxSkb
  /\ leaked \subseteq Skb

(* Every frame is in one place only, and no place holds it twice.           *)
Places ==
  /\ Distinct(frameQ)
  /\ \A s \in Elems(frameQ) :
       IsFrame(s) /\ s # cur /\ s # held /\ s \notin leaked /\ s.id <= made
  /\ \A s \in Elems(wimQ) : ~IsFrame(s)
  /\ held # NoSkb =>
       IsFrame(held) /\ held # cur /\ held \notin leaked /\ held.id <= made
  /\ cur # NoSkb => cur \notin leaked /\ (IsFrame(cur) => cur.id <= made)
  /\ \A s \in leaked : IsFrame(s) /\ s.id <= made

Unpushed ==
  \A a \in AC :
    /\ Distinct(txq[a])
    /\ \A s \in Elems(txq[a]) :
         IsFrame(s) /\ s.ac = a /\ s \notin Charged /\ s.id <= made

Account == Accounts(txPend, Charged)

Inv == Shape /\ Places /\ Unpushed /\ Account

(* The frames mac80211 makes are new to every place.                        *)
LEMMA NewSkbFresh ==
  ASSUME Inv, made < MaxSkb, NEW k \in AllKinds, NEW a \in AC,
         NEW n \in 1 .. MaxUnits
  PROVE  /\ NewSkb(k, a, n) \in Skb
         /\ NewSkb(k, a, n).id = made + 1
         /\ NewSkb(k, a, n).kind = k /\ NewSkb(k, a, n).ac = a
         /\ NewSkb(k, a, n) \notin Charged
         /\ \A b \in AC : NewSkb(k, a, n) \notin Elems(txq[b])
<1> DEFINE s == NewSkb(k, a, n)
<1>1. s.id = made + 1 /\ s.kind = k /\ s.ac = a /\ s \in Skb
  <2>1. made + 1 \in 1 .. MaxSkb
    BY TxPathAssumption DEF Inv, Shape
  <2> QED BY <2>1 DEF NewSkb, Skb
<1>2. \A t \in Charged : t.id <= made
  BY DEF Inv, Shape, Places, Charged, InHif, Frames
<1>3. \A b \in AC : \A t \in Elems(txq[b]) : t.id <= made
  BY DEF Inv, Unpushed
<1>4. made \in Nat
  BY DEF Inv, Shape
<1> HIDE DEF s
<1>5. s \notin Charged /\ \A b \in AC : s \notin Elems(txq[b])
  BY <1>1, <1>2, <1>3, <1>4
<1> QED BY <1>1, <1>5 DEF s

LEMMA InitInv == Init => Inv
<1> SUFFICES ASSUME Init PROVE Inv
  OBVIOUS
<1> USE TxPathAssumption DEF Init
<1>1. Shape
  <2>1. <<>> \in Seq(Skb) /\ <<>> \in Seq(AC)
    OBVIOUS
  <2>2. txq \in [AC -> Seq(Skb)]
    BY <2>1
  <2>3. made \in Nat /\ made <= MaxSkb /\ ~(quota > 0)
    OBVIOUS
  <2> QED BY <2>1, <2>2, <2>3 DEF Shape
<1>2. Elems(<<>>) = {} /\ Distinct(<<>>)
  BY DEF Elems, Distinct
<1>3. Places
  BY <1>2 DEF Places
<1>4. Unpushed
  BY <1>2 DEF Unpushed
<1>5. Account
  <2>1. \A a \in AC : Of(Charged, a) = {}
    BY <1>2 DEF Of, Charged, InHif, Frames
  <2>2. Units({}) = {}
    BY DEF Units
  <2>3. IsFiniteSet({}) /\ Cardinality({}) = 0
    BY FS_EmptySet
  <2>4. txPend \in [AC -> Int] /\ \A a \in AC : txPend[a] = 0
    OBVIOUS
  <2> QED BY <2>1, <2>2, <2>3, <2>4 DEF Account, Accounts
<1> QED BY <1>1, <1>3, <1>4, <1>5 DEF Inv

(* What the parts of the invariant say of the types of the places.          *)
LEMMA Typing ==
  ASSUME Inv
  PROVE  /\ made \in Nat /\ \A t \in Skb : t.id \in Nat
         /\ Elems(frameQ) \subseteq Skb /\ Elems(wimQ) \subseteq Skb
         /\ \A a \in AC : txq[a] \in Seq(Skb) /\ Elems(txq[a]) \subseteq Skb
         /\ NoSkb \notin Skb
<1>1. frameQ \in Seq(Skb) /\ wimQ \in Seq(Skb) /\ txq \in [AC -> Seq(Skb)]
  BY DEF Inv, Shape
<1>2. \A a \in AC : txq[a] \in Seq(Skb)
  BY <1>1
<1>3. \A t \in Skb : t.id \in Nat
  BY DEF Skb
<1> QED BY <1>1, <1>2, <1>3, ElemsType, NoSkbAssumption DEF Inv, Shape

(* Frames made meanwhile disturb neither the places nor the txqs.           *)
LEMMA PlacesKept ==
  ASSUME Inv, UNCHANGED <<frameQ, cur, held, leaked>>,
         \A s \in Elems(wimQ)' : ~IsFrame(s),
         made' \in Nat, made <= made'
  PROVE  Places'
<1>1. /\ made \in Nat /\ \A t \in Skb : t.id \in Nat
      /\ Elems(frameQ) \subseteq Skb
  BY Typing
<1>2. Elems(frameQ') = Elems(frameQ) /\ Distinct(frameQ')
  BY DEF Inv, Places
<1>3. \A s \in Elems(frameQ) :
        IsFrame(s) /\ s # cur /\ s # held /\ s \notin leaked /\ s.id <= made'
  BY <1>1 DEF Inv, Places
<1>4. /\ held # NoSkb =>
           IsFrame(held) /\ held # cur /\ held \notin leaked /\ held.id <= made'
      /\ cur # NoSkb => cur \notin leaked /\ (IsFrame(cur) => cur.id <= made')
      /\ \A s \in leaked : IsFrame(s) /\ s.id <= made'
  BY <1>1 DEF Inv, Shape, Places
<1> QED BY <1>2, <1>3, <1>4 DEF Places

LEMMA UnpushedKept ==
  ASSUME Inv, made' \in Nat, made <= made',
         \A a \in AC : txq'[a] = txq[a] \/ txq'[a] = <<>>,
         \A a \in AC : \A t \in Elems(txq[a]) : t \notin Charged'
  PROVE  Unpushed'
<1> SUFFICES ASSUME NEW a \in AC
             PROVE  /\ Distinct(txq'[a])
                    /\ \A t \in Elems(txq'[a]) : IsFrame(t) /\ t.ac = a
                         /\ t \notin Charged' /\ t.id <= made'
  BY DEF Unpushed
<1>1. CASE txq'[a] = txq[a]
  <2>1. \A t \in Elems(txq[a]) : t.id <= made'
    BY Typing DEF Inv, Unpushed
  <2> QED BY <1>1, <2>1 DEF Inv, Unpushed
<1>2. CASE txq'[a] = <<>>
  BY <1>2 DEF Elems, Distinct
<1> QED BY <1>1, <1>2

(* Steps that move skbs between the places and free none.                   *)
LEMMA MovesKeepInv ==
  ASSUME Inv, Shape', Places', Charged' = Charged,
         UNCHANGED <<txPend, made>>,
         \A a \in AC : txq'[a] = txq[a] \/ txq'[a] = <<>>
  PROVE  Inv'
<1>1. made' \in Nat /\ made <= made'
  BY Typing
<1>2. \A a \in AC : \A t \in Elems(txq[a]) : t \notin Charged'
  BY DEF Inv, Unpushed
<1>3. Unpushed'
  BY <1>1, <1>2, UnpushedKept
<1>4. Account'
  BY DEF Inv, Account
<1> QED BY <1>3, <1>4 DEF Inv

(* Steps that move no skb.                                                  *)
LEMMA SamePlaces ==
  ASSUME Inv, Shape',
         UNCHANGED <<txq, txPend, frameQ, wimQ, cur, held, leaked, made>>
  PROVE  Inv'
<1>1. Charged' = Charged
  BY DEF Charged, InHif
<1>2. Places' /\ Unpushed' /\ Account'
  BY <1>1 DEF Inv, Places, Unpushed, Account
<1> QED BY <1>2 DEF Inv

-----------------------------------------------------------------------------
(* The steps that put skbs in.                                              *)

(* Handing a new frame to nrc_xmit_frame, accepted or refused.              *)
LEMMA XmitFrameStep ==
  ASSUME Inv, NEW s \in Skb, IsFrame(s), s \notin Charged,
         XmitFrame(s), UNCHANGED <<cur, held, leaked>>,
         made' \in Nat, made <= made', s.id <= made'
  PROVE  /\ frameQ' \in Seq(Skb) /\ wimQ' = wimQ
         /\ Places' /\ Account'
         /\ Charged' \subseteq Charged \cup {s}
<1>1. /\ made \in Nat /\ \A t \in Skb : t.id \in Nat
      /\ Elems(frameQ) \subseteq Skb /\ leaked \subseteq Skb
  BY Typing DEF Inv, Shape
<1>2. s # cur /\ s # held /\ s \notin leaked /\ s \notin Elems(frameQ)
  BY NoSkbAssumption DEF Charged, InHif, Frames
<1>3. CASE fwActive
  <2>1. /\ frameQ' \in Seq(Skb)
        /\ Elems(frameQ') = Elems(frameQ) \cup {s}
        /\ Distinct(frameQ')
    <3>1. Distinct(frameQ) /\ frameQ \in Seq(Skb)
      BY DEF Inv, Places, Shape
    <3>2. CASE frameQ' = <<s>> \o frameQ
      BY <1>2, <3>1, <3>2, ElemsPush
    <3>3. CASE frameQ' = Append(frameQ, s)
      BY <1>2, <3>1, <3>3, ElemsAppend
    <3> QED BY <1>3, <3>2, <3>3 DEF XmitFrame
  <2>2. Charged' = Charged \cup {s}
    BY <2>1 DEF Charged, InHif, Frames
  <2>3. Account'
    <3>1. txPend' = [txPend EXCEPT ![s.ac] = @ + s.n]
      BY <1>3 DEF XmitFrame
    <3>2. Accounts(txPend, Charged)
      BY DEF Inv, Account
    <3>3. Accounts([txPend EXCEPT ![s.ac] = @ + s.n], Charged \cup {s})
      BY <3>2, AccountAdd
    <3>4. Accounts(txPend', Charged')
      BY <2>2, <3>1, <3>3, Zenon
    <3> QED BY <3>4 DEF Account, Accounts
  <2>4. wimQ' = wimQ
    BY <1>3 DEF XmitFrame
  <2>5. Places'
    <3>1. \A t \in Elems(frameQ') :
            IsFrame(t) /\ t # cur /\ t # held /\ t \notin leaked /\ t.id <= made'
      BY <1>1, <1>2, <2>1 DEF Inv, Places
    <3>2. /\ held # NoSkb =>
               IsFrame(held) /\ held # cur /\ held \notin leaked /\ held.id <= made'
          /\ cur # NoSkb => cur \notin leaked /\ (IsFrame(cur) => cur.id <= made')
          /\ \A t \in leaked : IsFrame(t) /\ t.id <= made'
      BY <1>1 DEF Inv, Shape, Places
    <3>3. \A t \in Elems(wimQ') : ~IsFrame(t)
      BY <2>4 DEF Inv, Places
    <3> QED BY <2>1, <3>1, <3>2, <3>3 DEF Places
  <2> QED BY <2>1, <2>2, <2>3, <2>4, <2>5
<1>4. CASE ~fwActive
  <2>1. UNCHANGED <<txPend, frameQ, wimQ>>
    BY <1>4 DEF XmitFrame, hifVars
  <2>2. Charged' = Charged
    BY <2>1 DEF Charged, InHif
  <2>3. Account'
    BY <2>1, <2>2 DEF Inv, Account
  <2>4. Places'
    <3>1. \A t \in Elems(wimQ)' : ~IsFrame(t)
      BY <2>1 DEF Inv, Places
    <3> QED BY <2>1, <3>1, PlacesKept
  <2> QED BY <2>1, <2>2, <2>3, <2>4 DEF Inv, Shape
<1> QED BY <1>3, <1>4

LEMMA TxDirectInv == Inv /\ TxDirect => Inv'
<1> SUFFICES ASSUME Inv, TxDirect PROVE Inv'
  OBVIOUS
<1>1. PICK k \in Kinds \cap {"mgmt", "deauth", "ctl"}, n \in 1 .. MaxUnits :
        XmitFrame(NewSkb(k, MgmtAC, n))
  BY DEF TxDirect
<1> DEFINE s == NewSkb(k, MgmtAC, n)
<1>2. /\ made < MaxSkb /\ made' = made + 1
      /\ UNCHANGED <<txq, txqList, quota, taskRun, pc, cur, held, leaked>>
  BY DEF TxDirect, macVars, taskVars, workVars
<1>3. k \in AllKinds /\ k # "wim" /\ MgmtAC \in AC
  BY TxPathAssumption
<1>4. /\ s \in Skb /\ s.id = made + 1 /\ IsFrame(s)
      /\ s \notin Charged /\ \A b \in AC : s \notin Elems(txq[b])
  BY <1>2, <1>3, NewSkbFresh DEF IsFrame
<1> HIDE DEF s
<1>5. XmitFrame(s)
  BY <1>1 DEF s
<1>6. made' \in Nat /\ made <= made' /\ s.id <= made' /\ made' <= MaxSkb
  BY <1>2, <1>4, Typing, TxPathAssumption
<1>7. /\ frameQ' \in Seq(Skb) /\ wimQ' = wimQ /\ Places' /\ Account'
      /\ Charged' \subseteq Charged \cup {s}
  BY <1>2, <1>4, <1>5, <1>6, XmitFrameStep
<1>8. Shape'
  BY <1>2, <1>6, <1>7 DEF Inv, Shape
<1>9. \A a \in AC : \A t \in Elems(txq[a]) : t \notin Charged'
  BY <1>4, <1>7 DEF Inv, Unpushed
<1>10. Unpushed'
  BY <1>2, <1>6, <1>9, UnpushedKept
<1> QED BY <1>7, <1>8, <1>10 DEF Inv

LEMMA XmitWimInv == Inv /\ XmitWim => Inv'
<1> SUFFICES ASSUME Inv, XmitWim PROVE Inv'
  OBVIOUS
<1> DEFINE s == NewSkb("wim", MgmtAC, 1)
<1>1. /\ made < MaxSkb /\ made' = made + 1
      /\ UNCHANGED <<txq, txqList, quota, taskRun, txPend, frameQ, pc, cur,
                     held, leaked>>
  BY DEF XmitWim, macVars, taskVars, workVars
<1>2. s \in Skb /\ ~IsFrame(s)
  <2>1. "wim" \in AllKinds /\ MgmtAC \in AC /\ 1 \in 1 .. MaxUnits
    BY TxPathAssumption DEF AllKinds
  <2> QED BY <1>1, <2>1, NewSkbFresh DEF IsFrame
<1>3. wimQ \in Seq(Skb)
  BY DEF Inv, Shape
<1>4. wimQ' = wimQ \/ wimQ' = Append(wimQ, s)
  BY DEF XmitWim
<1> HIDE DEF s
<1>5. wimQ' \in Seq(Skb) /\ Elems(wimQ') \subseteq Elems(wimQ) \cup {s}
  <2>1. CASE wimQ' = wimQ
    BY <1>3, <2>1
  <2>2. CASE wimQ' = Append(wimQ, s)
    BY <1>2, <1>3, <2>2, ElemsAppend
  <2> QED BY <1>4, <2>1, <2>2
<1>6. made' \in Nat /\ made <= made' /\ made' <= MaxSkb
  BY <1>1, Typing, TxPathAssumption
<1>7. Charged' = Charged
  BY <1>1 DEF Charged, InHif
<1>8. Shape'
  BY <1>1, <1>5, <1>6 DEF Inv, Shape
<1>9. Places'
  <2>1. \A t \in Elems(wimQ)' : ~IsFrame(t)
    BY <1>2, <1>5 DEF Inv, Places
  <2> QED BY <1>1, <1>6, <2>1, PlacesKept
<1>10. Unpushed'
  <2>1. \A a \in AC : \A t \in Elems(txq[a]) : t \notin Charged'
    BY <1>7 DEF Inv, Unpushed
  <2> QED BY <1>1, <1>6, <2>1, UnpushedKept
<1>11. Account'
  BY <1>1, <1>7 DEF Inv, Account
<1> QED BY <1>8, <1>9, <1>10, <1>11 DEF Inv

LEMMA Mac80211EnqueueInv == Inv /\ Mac80211Enqueue => Inv'
<1> SUFFICES ASSUME Inv, Mac80211Enqueue PROVE Inv'
  OBVIOUS
<1>1. PICK a \in AC, n \in 1 .. MaxUnits :
        txq' = [txq EXCEPT ![a] = Append(@, NewSkb("data", a, n))]
  BY DEF Mac80211Enqueue
<1> DEFINE s == NewSkb("data", a, n)
<1>2. /\ made < MaxSkb /\ made' = made + 1
      /\ UNCHANGED <<txqList, quota, taskRun, txPend, frameQ, wimQ, pc, cur,
                     held, leaked>>
  BY DEF Mac80211Enqueue, hifVars, taskVars, workVars
<1>3. /\ s \in Skb /\ s.id = made + 1 /\ IsFrame(s) /\ s.ac = a
      /\ s \notin Charged /\ \A b \in AC : s \notin Elems(txq[b])
  BY <1>2, NewSkbFresh DEF IsFrame, AllKinds
<1> HIDE DEF s
<1>4. /\ txq' \in [AC -> Seq(Skb)]
      /\ \A b \in AC : b # a => txq'[b] = txq[b]
      /\ txq'[a] = Append(txq[a], s)
  <2>1. txq[a] \in Seq(Skb) /\ txq \in [AC -> Seq(Skb)]
    BY DEF Inv, Shape
  <2>2. Append(txq[a], s) \in Seq(Skb)
    BY <1>3, <2>1, ElemsAppend
  <2>3. txq' = [txq EXCEPT ![a] = Append(@, s)]
    BY <1>1 DEF s
  <2> QED BY <2>1, <2>2, <2>3
<1>5. made' \in Nat /\ made <= made' /\ made' <= MaxSkb
  BY <1>2, Typing, TxPathAssumption
<1>6. Elems(txq'[a]) = Elems(txq[a]) \cup {s} /\ Distinct(txq'[a])
  <2>1. Distinct(txq[a]) /\ txq[a] \in Seq(Skb)
    BY DEF Inv, Shape, Unpushed
  <2> QED BY <1>3, <1>4, <2>1, ElemsAppend
<1>7. Charged' = Charged
  BY <1>2 DEF Charged, InHif
<1>8. Shape'
  BY <1>2, <1>4, <1>5 DEF Inv, Shape
<1>9. Places'
  <2>1. \A t \in Elems(wimQ)' : ~IsFrame(t)
    BY <1>2 DEF Inv, Places
  <2> QED BY <1>2, <1>5, <2>1, PlacesKept
<1>10. Unpushed'
  <2> SUFFICES ASSUME NEW b \in AC
               PROVE  /\ Distinct(txq'[b])
                      /\ \A t \in Elems(txq'[b]) : IsFrame(t) /\ t.ac = b
                           /\ t \notin Charged /\ t.id <= made'
    BY <1>7 DEF Unpushed
  <2>1. /\ Distinct(txq[b])
        /\ \A t \in Elems(txq[b]) : IsFrame(t) /\ t.ac = b
             /\ t \notin Charged /\ t.id <= made'
    BY <1>5, Typing DEF Inv, Unpushed
  <2>2. s.id <= made'
    BY <1>2, <1>3, <1>5
  <2>3. CASE b = a
    BY <1>3, <1>6, <2>1, <2>2, <2>3
  <2>4. CASE b # a
    BY <1>4, <2>1, <2>4
  <2> QED BY <2>3, <2>4
<1>11. Account'
  BY <1>2, <1>7 DEF Inv, Account
<1> QED BY <1>8, <1>9, <1>10, <1>11 DEF Inv

LEMMA TaskletPushInv == Inv /\ TaskletPush => Inv'
<1> SUFFICES ASSUME Inv, TaskletPush PROVE Inv'
  OBVIOUS
<1> DEFINE a == Head(txqList)
           s == Head(txq[a])
<1>1. /\ quota > 0 /\ taskRun /\ txqList \in Seq(AC)
      /\ txqList # <<>>
      /\ UNCHANGED <<pc, cur, held, leaked, made>>
  BY DEF TaskletPush, Inv, Shape, workVars, ghosts
<1>2. a \in AC /\ Tail(txqList) \in Seq(AC)
  BY <1>1, HeadTailProperties
<1>3. Append(Tail(txqList), a) \in Seq(AC)
  BY <1>2, AppendProperties
<1>4. txq \in [AC -> Seq(Skb)] /\ txq[a] \in Seq(Skb) /\ wimQ \in Seq(Skb)
  BY <1>2 DEF Inv, Shape
<1>5. CASE txq[a] = <<>>
  <2>1. /\ txqList' = Tail(txqList) /\ quota' = 0
        /\ UNCHANGED <<txq, taskRun, txPend, frameQ, wimQ>>
    BY <1>5 DEF TaskletPush, hifVars
  <2>2. Shape'
    BY <1>1, <1>2, <2>1 DEF Inv, Shape
  <2> QED BY <1>1, <2>1, <2>2, SamePlaces
<1>6. CASE txq[a] # <<>>
  <2>1. XmitFrame(s) /\ txq' = [txq EXCEPT ![a] = Tail(@)]
    BY <1>6 DEF TaskletPush
  <2>2. /\ s \in Skb /\ Tail(txq[a]) \in Seq(Skb)
        /\ Elems(txq[a]) = Elems(Tail(txq[a])) \cup {s}
        /\ Distinct(Tail(txq[a])) /\ s \notin Elems(Tail(txq[a]))
    BY <1>2, <1>4, <1>6, ElemsTail DEF Inv, Unpushed
  <2>3. /\ txq' \in [AC -> Seq(Skb)] /\ txq'[a] = Tail(txq[a])
        /\ \A b \in AC : b # a => txq'[b] = txq[b]
    BY <1>2, <1>4, <2>1, <2>2
  <2>4. IsFrame(s) /\ s.ac = a /\ s \notin Charged /\ s.id <= made
    BY <1>2, <2>2 DEF Inv, Unpushed
  <2>5. made' \in Nat /\ made <= made' /\ s.id <= made'
    BY <1>1, <2>4, Typing
  <2> HIDE DEF a, s
  <2>6. /\ frameQ' \in Seq(Skb) /\ wimQ' = wimQ /\ Places' /\ Account'
        /\ Charged' \subseteq Charged \cup {s}
    BY <1>1, <2>1, <2>2, <2>4, <2>5, XmitFrameStep
  <2>7. Shape'
    <3>1. /\ txqList' \in Seq(AC) /\ taskRun' \in BOOLEAN
          /\ quota' > 0 => taskRun' /\ txqList' # <<>>
      <4>1. CASE quota = 1
        <5>1. /\ txqList' = Append(Tail(txqList), a)
              /\ taskRun' = FALSE /\ quota' = 0
          BY <1>6, <4>1 DEF TaskletPush, GiveWay, a
        <5>2. txqList' \in Seq(AC)
          BY <1>3, <5>1
        <5>3. ~(quota' > 0)
          BY <5>1
        <5> QED BY <5>1, <5>2, <5>3
      <4>2. CASE quota # 1
        <5>1. quota' = quota - 1 /\ UNCHANGED <<txqList, taskRun>>
          BY <1>6, <4>2 DEF TaskletPush, a
        <5> QED BY <1>1, <4>2, <5>1
      <4> QED BY <4>1, <4>2
    <3> QED BY <1>1, <1>4, <2>3, <2>6, <3>1 DEF Inv, Shape
  <2>8. Unpushed'
    <3> SUFFICES ASSUME NEW b \in AC
                 PROVE  /\ Distinct(txq'[b])
                        /\ \A t \in Elems(txq'[b]) : IsFrame(t) /\ t.ac = b
                             /\ t \notin Charged' /\ t.id <= made
      BY <1>1 DEF Unpushed
    <3>1. /\ Distinct(txq[b])
          /\ \A t \in Elems(txq[b]) : IsFrame(t) /\ t.ac = b
               /\ t \notin Charged /\ t.id <= made
      BY DEF Inv, Unpushed
    <3>2. CASE b = a
      BY <2>2, <2>3, <2>6, <3>1, <3>2
    <3>3. CASE b # a
      BY <2>3, <2>4, <2>6, <3>1, <3>3
    <3> QED BY <3>2, <3>3
  <2> QED BY <2>6, <2>7, <2>8 DEF Inv
<1> QED BY <1>5, <1>6

-----------------------------------------------------------------------------
(* The steps of nrc_hif_work.                                               *)

LEMMA WorkWimInv == Inv /\ WorkWim => Inv'
<1> SUFFICES ASSUME Inv, WorkWim PROVE Inv'
  OBVIOUS
<1>1. /\ pc = "pick" /\ cur = NoSkb
      /\ UNCHANGED <<txq, txqList, quota, taskRun, txPend, leaked, made>>
  BY DEF WorkWim, Inv, Shape, macVars, taskVars, ghosts
<1>2. CASE wimQ = <<>>
  <2>1. UNCHANGED <<pc, cur, held, wimQ, frameQ>>
    BY <1>2 DEF WorkWim
  <2>2. Shape'
    BY <1>1, <2>1 DEF Inv, Shape
  <2> QED BY <1>1, <2>1, <2>2, SamePlaces
<1>3. CASE wimQ # <<>>
  <2> DEFINE w == Head(wimQ)
             f == Head(frameQ)
  <2>1. /\ w \in Skb /\ Tail(wimQ) \in Seq(Skb)
        /\ Elems(wimQ) = Elems(Tail(wimQ)) \cup {w} /\ ~IsFrame(w)
        /\ pc' = "wait"
    BY <1>3, ElemsTail DEF Inv, Shape, Places, WorkWim
  <2>2. CASE held = NoSkb /\ frameQ # <<>>
    <3>1. /\ f \in Skb /\ Tail(frameQ) \in Seq(Skb)
          /\ Elems(frameQ) = Elems(Tail(frameQ)) \cup {f}
          /\ Distinct(Tail(frameQ)) /\ f \notin Elems(Tail(frameQ))
          /\ frameQ' = Tail(frameQ)
      BY <1>3, <2>2, ElemsTail DEF Inv, Shape, Places, WorkWim
    <3>2. IsFrame(f) /\ f \notin leaked /\ f.id <= made
      BY <3>1 DEF Inv, Places
    <3> HIDE DEF w, f
    <3>3. CASE Head(frameQ).kind = "deauth"
      <4>1. cur' = f /\ held' = NoSkb /\ wimQ' = <<w>> \o Tail(wimQ)
        BY <1>3, <2>2, <3>3 DEF WorkWim, PutBack, w, f
      <4>2. wimQ' \in Seq(Skb) /\ Elems(wimQ') = Elems(wimQ)
        <5>1. /\ <<w>> \o Tail(wimQ) \in Seq(Skb)
              /\ Elems(<<w>> \o Tail(wimQ)) = Elems(Tail(wimQ)) \cup {w}
          <6> DEFINE t == Tail(wimQ)
          <6>1. w \in Skb /\ t \in Seq(Skb)
            BY <2>1
          <6> HIDE DEF t
          <6>2. /\ <<w>> \o t \in Seq(Skb)
                /\ Elems(<<w>> \o t) = Elems(t) \cup {w}
            BY <6>1, ElemsPush
          <6> QED BY <6>2 DEF t
        <5> QED BY <2>1, <4>1, <5>1
      <4>3. Charged' = Charged
        BY NoSkbAssumption, <1>1, <2>2, <3>1, <3>2, <4>1
           DEF Charged, InHif, Frames
      <4>4. Shape'
        BY <1>1, <2>1, <3>1, <4>1, <4>2, NoSkbAssumption DEF Inv, Shape
      <4>5. Places'
        BY <1>1, <2>2, <3>1, <3>2, <4>1, <4>2, Typing DEF Inv, Places
      <4> QED BY <1>1, <4>3, <4>4, <4>5, MovesKeepInv
    <3>4. CASE Head(frameQ).kind # "deauth"
      <4>1. cur' = w /\ held' = f /\ wimQ' = Tail(wimQ)
        BY <1>3, <2>2, <3>4 DEF WorkWim, w, f
      <4>2. Charged' = Charged
        BY NoSkbAssumption, <1>1, <2>1, <2>2, <3>1, <3>2, <4>1
           DEF Charged, InHif, Frames
      <4>3. Shape'
        BY <1>1, <2>1, <3>1, <4>1, NoSkbAssumption DEF Inv, Shape
      <4>4. w \notin leaked /\ w \notin Elems(frameQ)
        BY <2>1 DEF Inv, Places
      <4>5. Places'
        BY <1>1, <2>1, <2>2, <3>1, <3>2, <4>1, <4>4, Typing DEF Inv, Places
      <4> QED BY <1>1, <4>2, <4>3, <4>5, MovesKeepInv
    <3> QED BY <3>3, <3>4
  <2>3. CASE ~(held = NoSkb /\ frameQ # <<>>)
    <3>1. cur' = w /\ wimQ' = Tail(wimQ) /\ UNCHANGED <<frameQ, held>>
      BY <1>3, <2>3 DEF WorkWim
    <3> HIDE DEF w
    <3>2. w \notin leaked /\ w \notin Elems(frameQ) /\ (held # NoSkb => w # held)
      BY <2>1 DEF Inv, Places
    <3>3. Charged' = Charged
      BY <1>1, <2>1, <3>1 DEF Charged, InHif, Frames
    <3>4. Shape'
      BY <1>1, <2>1, <3>1, NoSkbAssumption DEF Inv, Shape
    <3>5. Places'
      BY <1>1, <2>1, <3>1, <3>2, Typing DEF Inv, Places
    <3> QED BY <1>1, <3>3, <3>4, <3>5, MovesKeepInv
  <2> QED BY <2>2, <2>3
<1> QED BY <1>2, <1>3

LEMMA WorkFrameInv == Inv /\ WorkFrame => Inv'
<1> SUFFICES ASSUME Inv, WorkFrame PROVE Inv'
  OBVIOUS
<1>1. /\ pc = "pick" /\ cur = NoSkb
      /\ UNCHANGED <<txq, txqList, quota, taskRun, txPend, wimQ, made>>
  BY DEF WorkFrame, Inv, Shape, macVars, taskVars, ghosts
<1>2. \A s \in Elems(wimQ') : ~IsFrame(s)
  BY <1>1 DEF Inv, Places
<1>3. CASE Return /\ UNCHANGED <<cur, frameQ>>
  <2>1. /\ pc' = "idle" /\ held' = NoSkb /\ UNCHANGED <<cur, frameQ>>
        /\ leaked' = leaked \cup Frames({held})
    BY <1>3 DEF Return
  <2>2. Frames({held}) \subseteq Skb
    BY DEF Frames, Inv, Shape
  <2>3. Charged' = Charged
    BY <1>1, <2>1 DEF Charged, InHif, Frames
  <2>4. Shape'
    BY <1>1, <2>1, <2>2 DEF Inv, Shape
  <2>5. Places'
    BY <1>1, <1>2, <2>1, Typing DEF Inv, Places, Frames
  <2> QED BY <1>1, <2>3, <2>4, <2>5, MovesKeepInv
<1>4. CASE held # NoSkb /\ cur' = held /\ held' = NoSkb /\ pc' = "wait"
           /\ UNCHANGED <<frameQ, leaked>>
  <2>1. Charged' = Charged
    BY <1>1, <1>4 DEF Charged, InHif, Frames
  <2>2. Shape'
    BY <1>1, <1>4 DEF Inv, Shape
  <2>3. Places'
    BY <1>1, <1>2, <1>4, Typing DEF Inv, Places
  <2> QED BY <1>1, <2>1, <2>2, <2>3, MovesKeepInv
<1>5. CASE held = NoSkb /\ frameQ # <<>> /\ cur' = Head(frameQ)
           /\ frameQ' = Tail(frameQ) /\ pc' = "wait" /\ UNCHANGED <<held, leaked>>
  <2> DEFINE f == Head(frameQ)
  <2>1. /\ f \in Skb /\ Tail(frameQ) \in Seq(Skb)
        /\ Elems(frameQ) = Elems(Tail(frameQ)) \cup {f}
        /\ Distinct(Tail(frameQ)) /\ f \notin Elems(Tail(frameQ))
    BY <1>5, ElemsTail DEF Inv, Shape, Places
  <2>2. IsFrame(f) /\ f \notin leaked /\ f.id <= made
    BY <2>1 DEF Inv, Places
  <2>3. cur' = f /\ frameQ' = Tail(frameQ) /\ pc' = "wait"
    BY <1>5
  <2> HIDE DEF f
  <2>4. Charged' = Charged
    BY NoSkbAssumption, <1>1, <1>5, <2>1, <2>2, <2>3 DEF Charged, InHif, Frames
  <2>5. Shape'
    BY <1>1, <1>5, <2>1, <2>3, NoSkbAssumption DEF Inv, Shape
  <2>6. Places'
    BY <1>1, <1>2, <1>5, <2>1, <2>2, <2>3, Typing DEF Inv, Places
  <2> QED BY <1>1, <1>5, <2>4, <2>5, <2>6, MovesKeepInv
<1> QED BY <1>3, <1>4, <1>5 DEF WorkFrame

(* nrc_hif_free_skb takes a frame off tx_pend, and leaves the rest.         *)
LEMMA UnchargeStep ==
  ASSUME Inv, cur # NoSkb, txPend' = Uncharge(cur),
         Charged' = Charged \ {cur}
  PROVE  Account'
<1>1. cur \in Skb /\ Accounts(txPend, Charged)
  BY DEF Inv, Shape, Account
<1>2. CASE IsFrame(cur)
  <2>1. Charged = Charged' \cup {cur} /\ cur \notin Charged'
    BY <1>2 DEF Charged, InHif, Frames
  <2>2. Accounts(txPend, Charged' \cup {cur})
    BY <1>1, <2>1, Zenon
  <2>3. Accounts([txPend EXCEPT ![cur.ac] = @ - cur.n], Charged')
    BY <1>1, <2>1, <2>2, AccountRemove
  <2>4. txPend' = [txPend EXCEPT ![cur.ac] = @ - cur.n]
    BY <1>2 DEF Uncharge
  <2>5. Accounts(txPend', Charged')
    BY <2>3, <2>4, Zenon
  <2> QED BY <2>5 DEF Account, Accounts
<1>3. CASE ~IsFrame(cur)
  <2>1. cur \notin Charged
    BY <1>3 DEF Charged, InHif, Frames, Inv, Places
  <2>2. Charged' = Charged /\ txPend' = txPend
    BY <1>3, <2>1 DEF Uncharge
  <2> QED BY <1>1, <2>2 DEF Account
<1> QED BY <1>2, <1>3

LEMMA FreeSkbInv == Inv /\ FreeSkb => Inv'
<1> SUFFICES ASSUME Inv, FreeSkb PROVE Inv'
  OBVIOUS
<1>1. /\ cur # NoSkb /\ cur' = NoSkb /\ pc' = "pick" /\ txPend' = Uncharge(cur)
      /\ UNCHANGED <<txq, txqList, quota, taskRun, frameQ, wimQ, held, leaked, made>>
  BY DEF FreeSkb, Inv, Shape, macVars, taskVars, ghosts
<1>2. Charged' = Charged \ {cur}
  BY <1>1 DEF Charged, InHif, Frames, Inv, Places
<1>3. Account'
  BY <1>1, <1>2, UnchargeStep
<1>4. Shape'
  BY <1>1 DEF Inv, Shape
<1>5. Places'
  BY <1>1, Typing DEF Inv, Places
<1>6. Unpushed'
  <2>1. \A a \in AC : \A t \in Elems(txq[a]) : t \notin Charged'
    BY <1>2 DEF Inv, Unpushed
  <2> QED BY <1>1, <2>1, Typing, UnpushedKept
<1> QED BY <1>3, <1>4, <1>5, <1>6 DEF Inv

LEMMA WaitTimeoutInv == Inv /\ WaitTimeout => Inv'
<1> SUFFICES ASSUME Inv, WaitTimeout PROVE Inv'
  OBVIOUS
<1>1. /\ cur # NoSkb /\ cur' = NoSkb /\ pc' = "idle" /\ txPend' = Uncharge(cur)
      /\ held' = NoSkb /\ leaked' = leaked \cup Frames({held})
      /\ UNCHANGED <<txq, txqList, quota, taskRun, frameQ, wimQ, made>>
  BY DEF WaitTimeout, Return, Inv, Shape, macVars, taskVars
<1>2. Charged' = Charged \ {cur}
  BY <1>1 DEF Charged, InHif, Frames, Inv, Places
<1>3. Account'
  BY <1>1, <1>2, UnchargeStep
<1>4. Frames({held}) \subseteq Skb
  BY DEF Frames, Inv, Shape
<1>5. Shape'
  BY <1>1, <1>4 DEF Inv, Shape
<1>6. Places'
  BY <1>1, Typing DEF Inv, Places, Frames
<1>7. Unpushed'
  <2>1. \A a \in AC : \A t \in Elems(txq[a]) : t \notin Charged'
    BY <1>2 DEF Inv, Unpushed
  <2> QED BY <1>1, <2>1, Typing, UnpushedKept
<1> QED BY <1>3, <1>5, <1>6, <1>7 DEF Inv

-----------------------------------------------------------------------------
(* Resets, and the steps that move no skb.                                 *)

(* nrc_hif_cleanup frees the queued frames behind the back of tx_pend.      *)
LEMMA HifCleanupStep ==
  ASSUME Inv, HifCleanup, UNCHANGED <<pc, cur, held, txPend, made>>,
         txqList' \in Seq(AC), quota' = quota, taskRun' = taskRun,
         quota' > 0 => taskRun' /\ txqList' # <<>>,
         txq' \in [AC -> Seq(Skb)],
         \A a \in AC : txq'[a] = txq[a] \/ txq'[a] = <<>>
  PROVE  Inv'
<1>1. /\ frameQ' = <<>> /\ wimQ' = <<>> /\ leaked' = leaked \cup Elems(frameQ)
      /\ Elems(frameQ') = {} /\ Elems(wimQ') = {} /\ Distinct(frameQ')
  BY DEF HifCleanup, Elems, Distinct
<1>2. Charged' = Charged
  BY <1>1 DEF Charged, InHif
<1>3. Shape'
  BY <1>1, Typing DEF Inv, Shape
<1>4. Places'
  BY <1>1 DEF Inv, Places
<1> QED BY <1>2, <1>3, <1>4, MovesKeepInv

LEMMA CleanTxqShape ==
  ASSUME Inv, CleanTxq, UNCHANGED <<quota, taskRun>>
  PROVE  /\ txqList' \in Seq(AC)
         /\ quota' > 0 => taskRun' /\ txqList' # <<>>
         /\ txq' \in [AC -> Seq(Skb)]
         /\ \A a \in AC : txq'[a] = txq[a] \/ txq'[a] = <<>>
<1>1. txqList' = <<>> /\ ~(quota' > 0)
  BY DEF CleanTxq, Inv, Shape
<1>2. <<>> \in Seq(Skb) /\ <<>> \in Seq(AC)
  OBVIOUS
<1>3. \A a \in AC : txq[a] \in Seq(Skb)
  BY Typing
<1>4. txq' = [a \in AC |-> IF a \in Elems(txqList) THEN <<>> ELSE txq[a]]
  BY DEF CleanTxq
<1>5. txq' \in [AC -> Seq(Skb)]
  BY <1>2, <1>3, <1>4
<1>6. \A a \in AC : txq'[a] = txq[a] \/ txq'[a] = <<>>
  BY <1>4
<1> QED BY <1>1, <1>2, <1>5, <1>6

LEMMA ResetInv == Inv /\ (WDisable \/ WdtClean \/ FwReload) => Inv'
<1> SUFFICES ASSUME Inv, WDisable \/ WdtClean \/ FwReload PROVE Inv'
  OBVIOUS
<1>1. HifCleanup /\ UNCHANGED <<pc, cur, held, txPend, made, quota, taskRun>>
  BY DEF WDisable, WdtClean, FwReload, workVars, taskVars
<1>2. CASE CleanTxq
  BY <1>1, <1>2, CleanTxqShape, HifCleanupStep
<1>3. CASE UNCHANGED <<txq, txqList>>
  BY <1>1, <1>3, HifCleanupStep DEF Inv, Shape
<1> QED BY <1>2, <1>3 DEF WDisable, WdtClean, FwReload, macVars, taskVars

Quiet == Wake \/ TaskletStart \/ TaskletPick \/ WorkStart \/ WaitForXmit
           \/ WaitWake \/ XmitTest \/ XmitCount \/ XmitWrite \/ XmitError
           \/ IrqUpdate \/ WdtExpired \/ WdtReady \/ WdtUpdate \/ Target

LEMMA QuietInv == Inv /\ (Quiet \/ UNCHANGED vars) => Inv'
<1> SUFFICES ASSUME Inv, Quiet \/ UNCHANGED vars PROVE Inv'
  OBVIOUS
<1> USE DEF Inv, Shape, macVars, taskVars, hifVars, workVars, spiVars,
            tgtVars, notiVars, ghosts
<1>1. UNCHANGED <<txq, txPend, frameQ, wimQ, cur, held, leaked, made>>
  BY DEF Quiet, vars, Wake, WakeTxQueue, TaskletStart, TaskletPick, WorkStart,
         WaitForXmit, WaitWake, XmitTest, XmitCount, XmitWrite, XmitError,
         IrqUpdate, WdtExpired, WdtReady, WdtUpdate, ConfigFw, UpdateStatus, Target,
         TgtArm, TgtFree
<1>2. /\ pc' \in {"idle", "pick", "wait", "sleep", "xmit", "count", "write", "free"}
      /\ pc' \in {"idle", "pick"} <=> cur = NoSkb
  BY DEF Quiet, vars, Wake, WakeTxQueue, TaskletStart, TaskletPick, WorkStart,
         WaitForXmit, WaitWake, XmitTest, XmitCount, XmitWrite, XmitError,
         IrqUpdate, WdtExpired, WdtReady, WdtUpdate, ConfigFw, UpdateStatus, Target,
         TgtArm, TgtFree
<1>3. /\ txqList' \in Seq(AC) /\ taskRun' \in BOOLEAN
      /\ quota' > 0 => taskRun' /\ txqList' # <<>>
  <2>1. CASE Wake
    <3>1. PICK a \in AC : WakeTxQueue(a)
      BY <2>1 DEF Wake
    <3>2. Append(txqList, a) \in Seq(AC) /\ ~(quota > 0)
      BY <3>1, AppendProperties DEF WakeTxQueue
    <3> QED BY <3>1, <3>2 DEF WakeTxQueue
  <2>2. CASE TaskletStart
    BY <2>2 DEF TaskletStart
  <2>3. CASE TaskletPick
    <3>1. CASE txqList = <<>>
      BY <2>3, <3>1 DEF TaskletPick
    <3>2. CASE txqList # <<>> /\ AcCredit(Head(txqList)) = 0
      <4>1. Append(Tail(txqList), Head(txqList)) \in Seq(AC)
        BY <3>2, HeadTailProperties, AppendProperties
      <4>2. /\ txqList' = Append(Tail(txqList), Head(txqList))
            /\ taskRun' = FALSE /\ quota' = 0
        BY <2>3, <3>2 DEF TaskletPick, GiveWay
      <4>3. txqList' \in Seq(AC) /\ ~(quota' > 0)
        BY <4>1, <4>2
      <4> QED BY <4>2, <4>3
    <3>3. CASE txqList # <<>> /\ AcCredit(Head(txqList)) # 0
      <4>1. taskRun /\ UNCHANGED <<txqList, taskRun>>
        BY <2>3, <3>3 DEF TaskletPick
      <4> QED BY <3>3, <4>1
    <3> QED BY <3>1, <3>2, <3>3
  <2>4. CASE UNCHANGED <<txqList, quota, taskRun>>
    BY <2>4
  <2> QED BY <2>1, <2>2, <2>3, <2>4
         DEF Quiet, vars, WorkStart, WaitForXmit, WaitWake, XmitTest, XmitCount, XmitWrite,
             XmitError, IrqUpdate, WdtExpired, WdtReady, WdtUpdate, Target, TgtArm, TgtFree
<1>4. Shape'
  BY <1>1, <1>2, <1>3
<1> QED BY <1>1, <1>4, SamePlaces

-----------------------------------------------------------------------------
LEMMA NextInv == Inv /\ [Next]_vars => Inv'
<1> SUFFICES ASSUME Inv, [Next]_vars PROVE Inv'
  OBVIOUS
<1>1. CASE Submit
  BY <1>1, TxDirectInv, XmitWimInv, Mac80211EnqueueInv DEF Submit
<1>2. CASE TaskletPush
  BY <1>2, TaskletPushInv
<1>3. CASE WorkWim \/ WorkFrame \/ FreeSkb
  BY <1>3, WorkWimInv, WorkFrameInv, FreeSkbInv
<1>4. CASE WaitTimeout
  BY <1>4, WaitTimeoutInv
<1>5. CASE WDisable \/ WdtClean \/ FwReload
  BY <1>5, ResetInv
<1>6. CASE Quiet \/ UNCHANGED vars
  BY <1>6, QuietInv
<1> QED BY <1>1, <1>2, <1>3, <1>4, <1>5, <1>6
        DEF Next, Tasklet, Work, Broken, Recover, Quiet

(* Every skb is in one place of the driver, and tx_pend charges each AC     *)
(* for the frames in the hif layer and for those freed behind its back.     *)
THEOREM SpecInv == Spec => []Inv
<1>1. Init => Inv
  BY InitInv
<1>2. Inv /\ [Next]_vars => Inv'
  BY NextInv
<1> QED BY <1>1, <1>2, PTL DEF Spec

(* tx_pend[ac] is the number of slots of the frames of that AC in the hif   *)
(* layer, plus those of the frames nrc_hif_cleanup and the returning work   *)
(* item have freed: however many ACs, skbs, slots and faults there are.     *)
THEOREM SpecPendAccounted == Spec => []PendAccounted
<1>1. Inv => PendAccounted
  BY DEF Inv, Account, Accounts, PendAccounted, Of, Charged
<1> QED BY <1>1, SpecInv, PTL

-----------------------------------------------------------------------------
(* The order of the queues.  Skbs of a lane (data of an AC, WIMs) stand in  *)
(* the order of their ids all along the way: txq, frame queue, held, cur.   *)

Lined(q) == \A i, j \in DOMAIN q : i < j /\ SameLane(q[i], q[j]) => q[i].id < q[j].id
Before(S, T) == \A s \in S, t \in T : SameLane(s, t) => s.id < t.id

Cur == {cur} \ {NoSkb}
Held == {held} \ {NoSkb}
Hif == Cur \cup Held \cup Elems(frameQ)

(* Ids of what is under way have been given out, and a txq has only data.   *)
Numbered ==
  /\ \A s \in Hif \cup Elems(wimQ) : s.id <= made
  /\ \A a \in AC : \A s \in Elems(txq[a]) : s.id <= made /\ s.kind = "data"

InOrder ==
  /\ Lined(frameQ) /\ Lined(wimQ) /\ \A a \in AC : Lined(txq[a])
  /\ Before(Cur, Held \cup Elems(frameQ) \cup Elems(wimQ))
  /\ Before(Held, Elems(frameQ))
  /\ \A a \in AC : Before(Hif, Elems(txq[a]))

(* What the target has received is behind all that, and never comes again.  *)
Received ==
  /\ sent \in Seq(Skb) /\ \A s \in Elems(sent) : s.id <= made
  /\ \A s \in Elems(sent), t \in InTransit : s # t /\ (SameLane(s, t) => s.id < t.id)
  /\ Lined(sent) /\ Distinct(sent)

OrderInv == Inv /\ Numbered /\ InOrder /\ Received

(* Queueing behind the lane's last skb keeps a queue lined.                 *)
LEMMA LinedAppend ==
  ASSUME NEW q \in Seq(Skb), NEW e \in Skb, Lined(q), Before(Elems(q), {e})
  PROVE  Lined(Append(q, e))
<1>1. /\ Len(Append(q, e)) = Len(q) + 1 /\ Append(q, e) \in Seq(Skb)
      /\ \A i \in 1 .. Len(q) : Append(q, e)[i] = q[i]
      /\ Append(q, e)[Len(q) + 1] = e
  BY AppendProperties
<1>2. /\ DOMAIN q = 1 .. Len(q) /\ Len(q) \in Nat
      /\ DOMAIN Append(q, e) = 1 .. (Len(q) + 1)
  BY <1>1, LenProperties
<1> DEFINE r == Append(q, e)
<1> HIDE DEF r
<1> SUFFICES ASSUME NEW i \in DOMAIN r, NEW j \in DOMAIN r, i < j, SameLane(r[i], r[j])
             PROVE  r[i].id < r[j].id
  BY DEF Lined, r
<1>3. i \in DOMAIN q /\ r[i] = q[i]
  BY <1>1, <1>2 DEF r
<1>4. CASE j = Len(q) + 1
  BY <1>1, <1>3, <1>4 DEF Before, Elems, r
<1>5. CASE j # Len(q) + 1
  <2>1. j \in DOMAIN q /\ r[j] = q[j]
    BY <1>1, <1>2, <1>5 DEF r
  <2> QED BY <1>3, <2>1 DEF Lined
<1> QED BY <1>4, <1>5

(* So does queueing in front of the lane's first.                           *)
LEMMA LinedPush ==
  ASSUME NEW q \in Seq(Skb), NEW e \in Skb, Lined(q), Before({e}, Elems(q))
  PROVE  Lined(<<e>> \o q)
<1> DEFINE r == <<e>> \o q
<1>1. <<e>> \in Seq(Skb) /\ Len(<<e>>) = 1 /\ <<e>>[1] = e
  OBVIOUS
<1>2. /\ r \in Seq(Skb)
      /\ Len(r) = 1 + Len(q)
      /\ \A i \in 1 .. (1 + Len(q)) : r[i] = IF i <= 1 THEN <<e>>[i] ELSE q[i - 1]
  BY <1>1, ConcatProperties
<1>3. /\ DOMAIN q = 1 .. Len(q) /\ Len(q) \in Nat
      /\ DOMAIN r = 1 .. (1 + Len(q))
  BY <1>2, LenProperties
<1>4. r[1] = e /\ \A i \in DOMAIN r : i # 1 => i - 1 \in DOMAIN q /\ r[i] = q[i - 1]
  BY <1>1, <1>2, <1>3
<1> HIDE DEF r
<1> SUFFICES ASSUME NEW i \in DOMAIN r, NEW j \in DOMAIN r, i < j, SameLane(r[i], r[j])
             PROVE  r[i].id < r[j].id
  BY DEF Lined, r
<1>5. j - 1 \in DOMAIN q /\ r[j] = q[j - 1]
  BY <1>3, <1>4
<1>6. CASE i = 1
  BY <1>4, <1>5, <1>6 DEF Before, Elems
<1>7. CASE i # 1
  <2>1. i - 1 \in DOMAIN q /\ r[i] = q[i - 1] /\ i - 1 < j - 1
    BY <1>3, <1>4, <1>7
  <2> QED BY <1>5, <2>1 DEF Lined
<1> QED BY <1>6, <1>7

(* What is taken off the head of a lined queue precedes the rest.           *)
LEMMA LinedTail ==
  ASSUME NEW q \in Seq(Skb), q # <<>>, Lined(q)
  PROVE  Lined(Tail(q)) /\ Before({Head(q)}, Elems(Tail(q)))
<1> DEFINE t == Tail(q)
<1>1. /\ Head(q) \in Skb /\ t \in Seq(Skb)
      /\ Len(t) = Len(q) - 1
      /\ \A i \in 1 .. Len(t) : t[i] = q[i + 1]
      /\ Head(q) = q[1]
  BY HeadTailProperties
<1>2. /\ DOMAIN q = 1 .. Len(q) /\ Len(q) \in Nat \ {0}
      /\ DOMAIN t = 1 .. Len(t)
  BY <1>1, LenProperties, EmptySeq
<1> HIDE DEF t
<1>3. \A i \in DOMAIN t : i + 1 \in DOMAIN q /\ t[i] = q[i + 1] /\ 1 < i + 1
  BY <1>1, <1>2
<1>4. Lined(t)
  <2> SUFFICES ASSUME NEW i \in DOMAIN t, NEW j \in DOMAIN t, i < j,
                      SameLane(t[i], t[j])
               PROVE  t[i].id < t[j].id
    BY DEF Lined
  <2>1. i + 1 < j + 1
    BY <1>2
  <2> QED BY <1>3, <2>1 DEF Lined
<1>5. 1 \in DOMAIN q
  BY <1>2
<1>6. Before({Head(q)}, Elems(t))
  BY <1>1, <1>3, <1>5, SMTT(30) DEF Lined, Before, Elems
<1> QED BY <1>4, <1>6 DEF t

(* Putting back what was just taken off leaves the queue as it was.         *)
LEMMA PutBackSame ==
  ASSUME NEW q \in Seq(Skb), q # <<>>
  PROVE  PutBack(Head(q), Tail(q)) = q
<1> DEFINE t == Tail(q)
           h == Head(q)
<1>1. /\ h \in Skb /\ t \in Seq(Skb)
      /\ Len(t) = Len(q) - 1
      /\ \A i \in 1 .. Len(t) : t[i] = q[i + 1]
      /\ h = q[1]
  BY HeadTailProperties
<1>2. Len(q) \in Nat \ {0} /\ Len(t) \in Nat
  BY <1>1, LenProperties, EmptySeq
<1> HIDE DEF t, h
<1>3. <<h>> \in Seq(Skb) /\ Len(<<h>>) = 1 /\ <<h>>[1] = h
  BY <1>1
<1>4. /\ <<h>> \o t \in Seq(Skb) /\ Len(<<h>> \o t) = Len(q)
      /\ \A i \in 1 .. (1 + Len(t)) :
           (<<h>> \o t)[i] = IF i <= 1 THEN <<h>>[i] ELSE t[i - 1]
  BY <1>1, <1>2, <1>3, ConcatProperties
<1>5. \A i \in 1 .. Len(q) : (<<h>> \o t)[i] = q[i]
  <2> SUFFICES ASSUME NEW i \in 1 .. Len(q) PROVE (<<h>> \o t)[i] = q[i]
    OBVIOUS
  <2>1. CASE i = 1
    BY <1>1, <1>2, <1>3, <1>4, <2>1
  <2>2. CASE i # 1
    <3>1. i - 1 \in 1 .. Len(t) /\ (i - 1) + 1 = i /\ i \in 1 .. (1 + Len(t))
      BY <1>1, <1>2, <2>2
    <3> QED BY <1>1, <1>4, <2>2, <3>1
  <2> QED BY <2>1, <2>2
<1>6. <<h>> \o t = q
  BY <1>4, <1>5, SeqEqual
<1> QED BY <1>6 DEF PutBack, t, h

-----------------------------------------------------------------------------
(* What is under way.                                                       *)

OnWay == IF pc \in OnItsWay THEN {cur} ELSE {}
Queued == UNION {Elems(txq[a]) : a \in AC}

LEMMA TransitParts ==
  /\ InTransit = Queued \cup Elems(frameQ) \cup Elems(wimQ) \cup Held \cup OnWay
  /\ InTransit' = Queued' \cup Elems(frameQ') \cup Elems(wimQ') \cup Held' \cup OnWay'
<1>1. Elems(<<>>) = {} /\ \A s : Elems(<<s>>) = {s}
  <2>1. \A s : DOMAIN <<s>> = {1} /\ <<s>>[1] = s
    OBVIOUS
  <2> QED BY <2>1 DEF Elems
<1>2. \A p, c : Elems(IF p \in OnItsWay THEN <<c>> ELSE <<>>)
                  = IF p \in OnItsWay THEN {c} ELSE {}
  <2> TAKE p, c
  <2>1. CASE p \in OnItsWay
    BY <1>1, <2>1, Zenon
  <2>2. CASE p \notin OnItsWay
    BY <1>1, <2>2, Zenon
  <2> QED BY <2>1, <2>2, Zenon
<1>3. Elems(Untransmitted) = OnWay /\ Elems(Untransmitted') = OnWay'
  BY <1>2, Zenon DEF Untransmitted, OnWay
<1> QED BY <1>3, Zenon DEF InTransit, Queued, Held

(* What has an id of its own is no NoSkb, and types of what is under way.   *)
LEMMA OrderTyping ==
  ASSUME OrderInv
  PROVE  /\ made \in Nat /\ NoSkb \notin Skb /\ \A t \in Skb : t.id \in Nat
         /\ Cur \subseteq Skb /\ Held \subseteq Skb /\ OnWay \subseteq Cur
         /\ frameQ \in Seq(Skb) /\ wimQ \in Seq(Skb) /\ sent \in Seq(Skb)
         /\ Elems(frameQ) \subseteq Skb /\ Elems(wimQ) \subseteq Skb
         /\ Elems(sent) \subseteq Skb
         /\ \A a \in AC : txq[a] \in Seq(Skb) /\ Elems(txq[a]) \subseteq Skb
         /\ Hif \subseteq Skb
         /\ InTransit \subseteq Skb /\ \A t \in InTransit : t.id <= made
<1>1. /\ made \in Nat /\ NoSkb \notin Skb /\ \A t \in Skb : t.id \in Nat
      /\ Elems(frameQ) \subseteq Skb /\ Elems(wimQ) \subseteq Skb
      /\ \A a \in AC : txq[a] \in Seq(Skb) /\ Elems(txq[a]) \subseteq Skb
  BY Typing DEF OrderInv
<1>2. /\ frameQ \in Seq(Skb) /\ wimQ \in Seq(Skb) /\ sent \in Seq(Skb)
      /\ Cur \subseteq Skb /\ Held \subseteq Skb /\ OnWay \subseteq Cur
  BY DEF OrderInv, Inv, Shape, Received, Cur, Held, OnWay, OnItsWay
<1>3. Elems(sent) \subseteq Skb
  BY <1>2, ElemsType
<1>4. Queued \subseteq Skb
  BY <1>1 DEF Queued
<1>5. InTransit \subseteq Skb
  BY <1>1, <1>2, <1>4, TransitParts
<1>6. \A t \in InTransit : t.id <= made
  BY <1>2, TransitParts DEF OrderInv, Numbered, Hif, Queued
<1>7. Hif \subseteq Skb
  BY <1>1, <1>2 DEF Hif
<1> QED BY <1>1, <1>2, <1>3, <1>5, <1>6, <1>7

(* Steps that only lose skbs, or leave them where they are.                 *)
LEMMA ShrinksInOrder ==
  ASSUME OrderInv, Cur' \subseteq Cur, Held' \subseteq Held, OnWay' \subseteq OnWay,
         frameQ' = frameQ \/ frameQ' = <<>>, wimQ' = wimQ \/ wimQ' = <<>>,
         \A a \in AC : txq'[a] = txq[a] \/ txq'[a] = <<>>, made' = made
  PROVE  Numbered' /\ InOrder' /\ InTransit' \subseteq InTransit
<1>1. Elems(<<>>) = {} /\ Lined(<<>>)
  BY DEF Elems, Lined
<1>2. /\ Elems(frameQ') \subseteq Elems(frameQ) /\ Lined(frameQ')
      /\ Elems(wimQ') \subseteq Elems(wimQ) /\ Lined(wimQ')
  BY <1>1 DEF OrderInv, InOrder
<1>3. \A a \in AC : Elems(txq'[a]) \subseteq Elems(txq[a]) /\ Lined(txq'[a])
  BY <1>1 DEF OrderInv, InOrder
<1>4. Hif' \subseteq Hif
  BY <1>2 DEF Hif
<1>5. Numbered'
  BY <1>2, <1>3, <1>4 DEF OrderInv, Numbered
<1>6. InOrder'
  <2>1. Before(Cur', Held' \cup Elems(frameQ') \cup Elems(wimQ'))
    BY <1>2 DEF OrderInv, InOrder, Before
  <2>2. Before(Held', Elems(frameQ'))
    BY <1>2 DEF OrderInv, InOrder, Before
  <2>3. \A a \in AC : Before(Hif', Elems(txq'[a]))
    BY <1>3, <1>4 DEF OrderInv, InOrder, Before
  <2> QED BY <1>2, <1>3, <2>1, <2>2, <2>3 DEF InOrder
<1>7. InTransit' \subseteq InTransit
  <2>1. Queued' \subseteq Queued
    BY <1>3 DEF Queued
  <2> QED BY <1>2, <2>1, TransitParts
<1> QED BY <1>5, <1>6, <1>7

(* What was received stays behind what is under way, new skbs included.     *)
LEMMA ReceivedKept ==
  ASSUME OrderInv, sent' = sent, made' \in Nat, made <= made',
         \A t \in InTransit' : t \in InTransit \/ (t \in Skb /\ made < t.id)
  PROVE  Received'
<1>1. \A s \in Elems(sent) : s.id \in Nat /\ s.id <= made /\ made \in Nat
  BY OrderTyping DEF OrderInv, Received
<1>2. \A s \in Elems(sent'), t \in InTransit' : s # t /\ (SameLane(s, t) => s.id < t.id)
  <2> SUFFICES ASSUME NEW s \in Elems(sent), NEW t \in InTransit'
               PROVE  s # t /\ (SameLane(s, t) => s.id < t.id)
    OBVIOUS
  <2>1. CASE t \in InTransit
    BY <2>1 DEF OrderInv, Received
  <2>2. CASE t \in Skb /\ made < t.id
    BY <1>1, <2>2, OrderTyping
  <2> QED BY <2>1, <2>2
<1>3. \A s \in Elems(sent') : s.id <= made'
  BY <1>1
<1> QED BY <1>2, <1>3 DEF OrderInv, Received

-----------------------------------------------------------------------------
(* New skbs stand at the end of their lane.                                 *)

Submits(s) ==
  /\ s \in Skb /\ s.id = made + 1 /\ made' = made + 1 /\ sent' = sent
  /\ InTransit' = InTransit \/ InTransit' = InTransit \cup {s}

(* Management and control frames belong to no lane.                         *)
LEMMA NoLane ==
  ASSUME NEW s, s.kind \notin {"wim", "data"}
  PROVE  \A t : ~SameLane(s, t) /\ ~SameLane(t, s)
BY DEF SameLane

LEMMA TxDirectOrder ==
  ASSUME OrderInv, TxDirect
  PROVE  Numbered' /\ InOrder' /\ \E s \in Skb : Submits(s)
<1>1. PICK k \in Kinds \cap {"mgmt", "deauth", "ctl"}, n \in 1 .. MaxUnits :
        XmitFrame(NewSkb(k, MgmtAC, n))
  BY DEF TxDirect
<1> DEFINE s == NewSkb(k, MgmtAC, n)
<1>2. /\ made < MaxSkb /\ made' = made + 1 /\ sent' = sent
      /\ UNCHANGED <<txq, pc, cur, held>>
  BY DEF TxDirect, macVars, taskVars, workVars
<1>3. k \in AllKinds /\ MgmtAC \in AC /\ k \notin {"wim", "data"}
  BY TxPathAssumption
<1>4. s \in Skb /\ s.id = made + 1 /\ s.kind \notin {"wim", "data"}
  BY <1>2, <1>3, NewSkbFresh DEF OrderInv
<1> HIDE DEF s
<1>5. XmitFrame(s)
  BY <1>1 DEF s
<1>6. \A t : ~SameLane(s, t) /\ ~SameLane(t, s)
  BY <1>4, NoLane
<1>7. /\ Cur' = Cur /\ Held' = Held /\ OnWay' = OnWay /\ Queued' = Queued
      /\ \A a \in AC : Elems(txq'[a]) = Elems(txq[a]) /\ txq'[a] = txq[a]
  BY <1>2 DEF Cur, Held, OnWay, Queued
<1>8. CASE UNCHANGED <<frameQ, wimQ>>
  <2>1. Hif' = Hif
    BY <1>7, <1>8 DEF Hif
  <2>2. Numbered'
    BY <1>2, <1>7, <1>8, <2>1, OrderTyping DEF OrderInv, Numbered, Hif
  <2>3. InOrder'
    BY <1>7, <1>8, <2>1 DEF OrderInv, InOrder
  <2>4. InTransit' = InTransit
    BY <1>7, <1>8, TransitParts
  <2> QED BY <1>2, <1>4, <2>2, <2>3, <2>4 DEF Submits
<1>9. CASE wimQ' = wimQ /\ (frameQ' = <<s>> \o frameQ \/ frameQ' = Append(frameQ, s))
  <2>1. Elems(frameQ') = Elems(frameQ) \cup {s}
    <3>1. frameQ \in Seq(Skb)
      BY OrderTyping
    <3>2. /\ Elems(<<s>> \o frameQ) = Elems(frameQ) \cup {s}
          /\ Elems(Append(frameQ, s)) = Elems(frameQ) \cup {s}
      BY <1>4, <3>1, ElemsAppend, ElemsPush
    <3> QED BY <1>9, <3>2
  <2>2. Lined(frameQ')
    <3>1. Before(Elems(frameQ), {s}) /\ Before({s}, Elems(frameQ))
      BY <1>6 DEF Before
    <3> QED BY <1>4, <1>9, <3>1, OrderTyping, LinedAppend, LinedPush
       DEF OrderInv, InOrder
  <2>3. Hif' = Hif \cup {s}
    BY <1>7, <2>1 DEF Hif
  <2>4. Numbered'
    <3>1. \A t \in Hif' \cup Elems(wimQ') : t.id <= made'
      BY <1>2, <1>4, <1>9, <2>3, OrderTyping DEF OrderInv, Numbered
    <3>2. \A a \in AC : \A t \in Elems(txq'[a]) : t.id <= made' /\ t.kind = "data"
      BY <1>2, <1>7, OrderTyping DEF OrderInv, Numbered
    <3> QED BY <3>1, <3>2 DEF Numbered
  <2>5. InOrder'
    BY <1>6, <1>7, <1>9, <2>1, <2>2, <2>3 DEF OrderInv, InOrder, Before
  <2>6. InTransit' = InTransit \cup {s}
    BY <1>7, <1>9, <2>1, TransitParts
  <2> QED BY <1>2, <1>4, <2>4, <2>5, <2>6 DEF Submits
<1> QED BY <1>5, <1>8, <1>9 DEF XmitFrame, hifVars

LEMMA XmitWimOrder ==
  ASSUME OrderInv, XmitWim
  PROVE  Numbered' /\ InOrder' /\ \E s \in Skb : Submits(s)
<1> DEFINE s == NewSkb("wim", MgmtAC, 1)
<1>1. /\ made < MaxSkb /\ made' = made + 1 /\ sent' = sent
      /\ UNCHANGED <<txq, frameQ, pc, cur, held>>
  BY DEF XmitWim, macVars, taskVars, workVars
<1>2. s \in Skb /\ s.id = made + 1 /\ s.kind = "wim"
  <2>1. "wim" \in AllKinds /\ MgmtAC \in AC /\ 1 \in 1 .. MaxUnits
    BY TxPathAssumption DEF AllKinds
  <2> QED BY <1>1, <2>1, NewSkbFresh DEF OrderInv
<1>3. wimQ' = wimQ \/ wimQ' = Append(wimQ, s)
  BY DEF XmitWim
<1> HIDE DEF s
<1>4. /\ Cur' = Cur /\ Held' = Held /\ OnWay' = OnWay /\ Queued' = Queued
      /\ Hif' = Hif
      /\ \A a \in AC : Elems(txq'[a]) = Elems(txq[a]) /\ txq'[a] = txq[a]
  BY <1>1 DEF Cur, Held, OnWay, Queued, Hif
<1>5. CASE wimQ' = wimQ
  <2>1. Numbered'
    BY <1>1, <1>4, <1>5, OrderTyping DEF OrderInv, Numbered, Hif
  <2>2. InOrder'
    BY <1>1, <1>4, <1>5 DEF OrderInv, InOrder
  <2>3. InTransit' = InTransit
    BY <1>1, <1>4, <1>5, TransitParts
  <2> QED BY <1>1, <1>2, <2>1, <2>2, <2>3 DEF Submits
<1>6. CASE wimQ' = Append(wimQ, s)
  <2>1. Elems(wimQ') = Elems(wimQ) \cup {s}
    BY <1>2, <1>6, OrderTyping, ElemsAppend
  <2>2. \A t \in Cur \cup Elems(wimQ) : t.id \in Nat /\ t.id <= made /\ t.id < s.id
    BY <1>2, OrderTyping DEF OrderInv, Numbered, Hif
  <2>3. Lined(wimQ')
    <3>1. Before(Elems(wimQ), {s})
      BY <2>2 DEF Before
    <3> QED BY <1>2, <1>6, <3>1, OrderTyping, LinedAppend DEF OrderInv, InOrder
  <2>4. Numbered'
    <3>1. \A t \in Hif' \cup Elems(wimQ') : t.id <= made'
      BY <1>1, <1>2, <1>4, <2>1, OrderTyping DEF OrderInv, Numbered
    <3>2. \A a \in AC : \A t \in Elems(txq'[a]) : t.id <= made' /\ t.kind = "data"
      BY <1>1, <1>4, OrderTyping, SMTT(30) DEF OrderInv, Numbered
    <3> QED BY <3>1, <3>2 DEF Numbered
  <2>5. InOrder'
    BY <1>1, <1>4, <2>1, <2>2, <2>3 DEF OrderInv, InOrder, Before
  <2>6. InTransit' = InTransit \cup {s}
    BY <1>1, <1>4, <2>1, TransitParts
  <2> QED BY <1>1, <1>2, <2>4, <2>5, <2>6 DEF Submits
<1> QED BY <1>3, <1>5, <1>6

LEMMA Mac80211EnqueueOrder ==
  ASSUME OrderInv, Mac80211Enqueue
  PROVE  Numbered' /\ InOrder' /\ \E s \in Skb : Submits(s)
<1>1. PICK a \in AC, n \in 1 .. MaxUnits :
        txq' = [txq EXCEPT ![a] = Append(@, NewSkb("data", a, n))]
  BY DEF Mac80211Enqueue
<1> DEFINE s == NewSkb("data", a, n)
<1>2. /\ made < MaxSkb /\ made' = made + 1 /\ sent' = sent
      /\ UNCHANGED <<frameQ, wimQ, pc, cur, held>>
  BY DEF Mac80211Enqueue, hifVars, taskVars, workVars
<1>3. s \in Skb /\ s.id = made + 1 /\ s.kind = "data" /\ s.ac = a
  BY <1>2, NewSkbFresh DEF OrderInv, AllKinds
<1> HIDE DEF s
<1>4. /\ \A b \in AC : b # a => txq'[b] = txq[b]
      /\ txq'[a] = Append(txq[a], s)
  BY <1>1 DEF OrderInv, Inv, Shape, s
<1>5. Elems(txq'[a]) = Elems(txq[a]) \cup {s}
  BY <1>3, <1>4, OrderTyping, ElemsAppend
<1>6. Cur' = Cur /\ Held' = Held /\ OnWay' = OnWay /\ Hif' = Hif
  BY <1>2 DEF Cur, Held, OnWay, Hif
<1>7. \A t \in Hif \cup Elems(txq[a]) : t.id \in Nat /\ t.id <= made /\ t.id < s.id
  BY <1>3, OrderTyping DEF OrderInv, Numbered, Hif
<1>8. Numbered'
  <2>1. \A t \in Hif' \cup Elems(wimQ') : t.id <= made'
    BY <1>2, <1>6, OrderTyping DEF OrderInv, Numbered, Hif
  <2>2. ASSUME NEW b \in AC, NEW t \in Elems(txq'[b])
        PROVE  t.id <= made' /\ t.kind = "data"
    <3>1. CASE t = s
      BY <1>2, <1>3, <3>1, OrderTyping
    <3>2. CASE t \in Elems(txq[b])
      BY <1>2, <3>2, OrderTyping DEF OrderInv, Numbered
    <3> QED BY <1>4, <1>5, <3>1, <3>2
  <2> QED BY <2>1, <2>2 DEF Numbered
<1>9. InOrder'
  <2>1. \A b \in AC : Lined(txq'[b])
    <3>1. Before(Elems(txq[a]), {s})
      BY <1>7 DEF Before
    <3>2. Lined(txq'[a])
      BY <1>3, <1>4, <3>1, OrderTyping, LinedAppend DEF OrderInv, InOrder
    <3> QED BY <1>4, <3>2 DEF OrderInv, InOrder
  <2>2. \A b \in AC : Before(Hif, Elems(txq'[b]))
    BY <1>4, <1>5, <1>7 DEF OrderInv, InOrder, Before
  <2> QED BY <1>2, <1>6, <2>1, <2>2 DEF OrderInv, InOrder
<1>10. InTransit' = InTransit \cup {s}
  <2>1. Queued' = Queued \cup {s}
    BY <1>4, <1>5 DEF Queued
  <2> QED BY <1>2, <1>6, <2>1, TransitParts
<1> QED BY <1>2, <1>3, <1>8, <1>9, <1>10 DEF Submits

-----------------------------------------------------------------------------
(* Moving on, and getting lost.                                             *)

Loses == InTransit' \subseteq InTransit /\ UNCHANGED <<sent, made>>

LEMMA TaskletPushOrder ==
  ASSUME OrderInv, TaskletPush
  PROVE  Numbered' /\ InOrder' /\ Loses
<1> DEFINE a == Head(txqList)
           s == Head(txq[a])
<1>1. UNCHANGED <<pc, cur, held, sent, made>>
  BY DEF TaskletPush, workVars, ghosts
<1>2. a \in AC /\ txq \in [AC -> Seq(Skb)] /\ txq[a] \in Seq(Skb)
  BY HeadTailProperties DEF TaskletPush, OrderInv, Inv, Shape
<1>3. Cur' = Cur /\ Held' = Held /\ OnWay' = OnWay
  BY <1>1 DEF Cur, Held, OnWay
<1>4. CASE txq[a] = <<>>
  <2>1. UNCHANGED <<txq, frameQ, wimQ>>
    BY <1>4 DEF TaskletPush, hifVars
  <2> QED BY <1>1, <1>3, <2>1, ShrinksInOrder DEF Loses
<1>5. CASE txq[a] # <<>>
  <2>1. XmitFrame(s) /\ txq' = [txq EXCEPT ![a] = Tail(@)]
    BY <1>5 DEF TaskletPush
  <2>2. /\ s \in Skb /\ Tail(txq[a]) \in Seq(Skb)
        /\ Elems(txq[a]) = Elems(Tail(txq[a])) \cup {s}
    BY <1>2, <1>5, ElemsTail
  <2>3. Lined(Tail(txq[a])) /\ Before({s}, Elems(Tail(txq[a])))
    BY <1>2, <1>5, LinedTail DEF OrderInv, InOrder
  <2>4. /\ txq'[a] = Tail(txq[a])
        /\ \A b \in AC : b # a => txq'[b] = txq[b]
    BY <1>2, <2>1
  <2>5. s.kind = "data" /\ s.ac = a /\ s.id <= made
    BY <1>2, <2>2 DEF OrderInv, Inv, Unpushed, Numbered
  <2> HIDE DEF a, s
  <2>6. \A b \in AC : Elems(txq'[b]) \subseteq Elems(txq[b]) /\ Lined(txq'[b])
    BY <2>2, <2>3, <2>4 DEF OrderInv, InOrder
  <2>7. \A b \in AC : Before(Hif \cup {s}, Elems(txq'[b]))
    <3>1. \A b \in AC : Before(Hif, Elems(txq'[b]))
      BY <2>6 DEF OrderInv, InOrder, Before
    <3>2. ASSUME NEW b \in AC, b # a PROVE Before({s}, Elems(txq'[b]))
      <4>1. \A t \in Elems(txq'[b]) : t.ac = b
        BY <2>6, <3>2 DEF OrderInv, Inv, Unpushed
      <4> QED BY <2>5, <3>2, <4>1 DEF Before, SameLane
    <3>3. Before({s}, Elems(txq'[a]))
      BY <2>3, <2>4
    <3> QED BY <3>1, <3>2, <3>3 DEF Before
  <2>8. Queued' \subseteq Queued /\ s \in Queued
    BY <1>2, <2>2, <2>6 DEF Queued
  <2>9. wimQ' = wimQ /\ (frameQ' = frameQ \/ frameQ' = Append(frameQ, s))
    BY <2>1, <2>5 DEF XmitFrame, Urgent, hifVars
  <2>10. /\ Elems(frameQ') \subseteq Elems(frameQ) \cup {s}
         /\ Lined(frameQ')
    <3>1. CASE frameQ' = frameQ
      BY <3>1 DEF OrderInv, InOrder
    <3>2. CASE frameQ' = Append(frameQ, s)
      <4>1. Elems(Append(frameQ, s)) = Elems(frameQ) \cup {s}
        BY <2>2, OrderTyping, ElemsAppend
      <4>2. Before(Elems(frameQ), {s})
        BY <1>2, <2>2 DEF OrderInv, InOrder, Before, Hif
      <4>3. Lined(Append(frameQ, s))
        BY <2>2, <4>2, OrderTyping, LinedAppend DEF OrderInv, InOrder
      <4> QED BY <3>2, <4>1, <4>3
    <3> QED BY <2>9, <3>1, <3>2
  <2>11. Hif' \subseteq Hif \cup {s}
    BY <1>3, <2>10 DEF Hif
  <2>12. Numbered'
    BY <1>1, <2>5, <2>6, <2>9, <2>11 DEF OrderInv, Numbered
  <2>13. InOrder'
    <3>1. Before(Hif, {s})
      BY <1>2, <2>2 DEF OrderInv, InOrder, Before
    <3>2. Before(Cur', Held' \cup Elems(frameQ') \cup Elems(wimQ'))
      BY <1>3, <2>9, <2>10, <3>1 DEF OrderInv, InOrder, Before, Hif
    <3>3. Before(Held', Elems(frameQ'))
      BY <1>3, <2>10, <3>1 DEF OrderInv, InOrder, Before, Hif
    <3>4. \A b \in AC : Before(Hif', Elems(txq'[b]))
      BY <2>7, <2>11 DEF Before
    <3> QED BY <2>6, <2>9, <2>10, <3>2, <3>3, <3>4 DEF OrderInv, InOrder
  <2>14. InTransit' \subseteq InTransit
    BY <1>3, <2>8, <2>9, <2>10, TransitParts
  <2> QED BY <1>1, <2>12, <2>13, <2>14 DEF Loses
<1> QED BY <1>4, <1>5

LEMMA WorkWimOrder ==
  ASSUME OrderInv, WorkWim
  PROVE  Numbered' /\ InOrder' /\ Loses
<1>1. /\ pc = "pick" /\ cur = NoSkb /\ Cur = {} /\ OnWay = {}
      /\ UNCHANGED <<txq, sent, made>> /\ Queued' = Queued
  BY
     DEF WorkWim, OrderInv, Inv, Shape, macVars, ghosts, Cur, OnWay, OnItsWay, Queued
<1>2. CASE wimQ = <<>>
  <2>1. UNCHANGED <<pc, cur, held, wimQ, frameQ>>
    BY <1>2 DEF WorkWim
  <2> QED BY <1>1, <2>1, ShrinksInOrder DEF Loses, Cur, Held, OnWay
<1>3. CASE wimQ # <<>>
  <2> DEFINE w == Head(wimQ)
             f == Head(frameQ)
  <2>1. /\ w \in Skb /\ Elems(wimQ) = Elems(Tail(wimQ)) \cup {w} /\ w.kind = "wim"
        /\ Lined(Tail(wimQ)) /\ Before({w}, Elems(Tail(wimQ)))
        /\ pc' = "wait"
    <3>1. wimQ \in Seq(Skb) /\ Lined(wimQ) /\ \A t \in Elems(wimQ) : ~IsFrame(t)
      BY DEF OrderInv, Inv, Shape, Places, InOrder
    <3>2. w \in Skb /\ Elems(wimQ) = Elems(Tail(wimQ)) \cup {w}
      BY <1>3, <3>1, ElemsTail
    <3>3. Lined(Tail(wimQ)) /\ Before({w}, Elems(Tail(wimQ)))
      BY <1>3, <3>1, LinedTail
    <3>4. pc' = "wait"
      BY <1>3 DEF WorkWim
    <3> QED BY <3>1, <3>2, <3>3, <3>4 DEF IsFrame
  <2>2. \A t \in Held \cup Elems(frameQ) : IsFrame(t)
    BY DEF OrderInv, Inv, Places, Held
  <2>3. \A a \in AC : \A t \in Elems(txq[a]) : t.kind = "data"
    BY DEF OrderInv, Numbered
  <2>4. CASE held = NoSkb /\ frameQ # <<>>
    <3>1. /\ f \in Skb /\ Elems(frameQ) = Elems(Tail(frameQ)) \cup {f}
          /\ Lined(Tail(frameQ)) /\ Before({f}, Elems(Tail(frameQ)))
          /\ frameQ' = Tail(frameQ) /\ Held = {}
      BY <1>3, <2>4, ElemsTail, LinedTail
         DEF OrderInv, Inv, Shape, InOrder, WorkWim, Held
    <3>2. CASE f.kind = "deauth"
      <4>1. cur' = f /\ held' = NoSkb /\ wimQ' = wimQ
        BY <1>3, <2>4, <3>2, PutBackSame DEF WorkWim, OrderInv, Inv, Shape
      <4>2. Cur' = {f} /\ OnWay' = {f} /\ Held' = {} /\ Hif' = Hif
        BY <1>1, <2>1, <3>1, <4>1, NoSkbAssumption
           DEF Cur, OnWay, OnItsWay, Held, Hif
      <4>3. \A t : ~SameLane(f, t)
        BY <3>2, NoLane
      <4> HIDE DEF w, f
      <4>4. Numbered'
        BY <1>1, <4>1, <4>2 DEF OrderInv, Numbered
      <4>5. InOrder'
        BY <1>1, <3>1, <4>1, <4>2, <4>3 DEF OrderInv, InOrder, Before
      <4>6. InTransit' \subseteq InTransit
        BY <1>1, <3>1, <4>1, <4>2, TransitParts
      <4> QED BY <1>1, <4>4, <4>5, <4>6 DEF Loses
    <3>3. CASE f.kind # "deauth"
      <4>1. cur' = w /\ held' = f /\ wimQ' = Tail(wimQ)
        BY <1>3, <2>4, <3>3 DEF WorkWim
      <4>2. Cur' = {w} /\ OnWay' = {w} /\ Held' = {f} /\ Hif' = Hif \cup {w}
        BY <1>1, <2>1, <3>1, <4>1, NoSkbAssumption
           DEF Cur, OnWay, OnItsWay, Held, Hif
      <4> HIDE DEF w, f
      <4>3. Numbered'
        BY <1>1, <2>1, <4>1, <4>2 DEF OrderInv, Numbered
      <4>4. \A t \in Elems(frameQ) : ~SameLane(w, t)
        BY <2>1, <2>2 DEF SameLane, IsFrame
      <4>5. \A a \in AC : \A t \in Elems(txq[a]) : ~SameLane(w, t)
        BY <2>1, <2>3 DEF SameLane
      <4>6. InOrder'
        <5>1. Before(Cur', Held' \cup Elems(frameQ') \cup Elems(wimQ'))
          BY <2>1, <3>1, <4>1, <4>2, <4>4 DEF Before
        <5>2. Before(Held', Elems(frameQ'))
          BY <3>1, <4>2
        <5>3. \A a \in AC : Before(Hif', Elems(txq'[a]))
          BY <1>1, <4>2, <4>5 DEF OrderInv, InOrder, Before
        <5> QED BY <1>1, <2>1, <3>1, <4>1, <5>1, <5>2, <5>3
           DEF OrderInv, InOrder
      <4>7. InTransit' \subseteq InTransit
        BY <1>1, <2>1, <3>1, <4>1, <4>2, TransitParts
      <4> QED BY <1>1, <4>3, <4>6, <4>7 DEF Loses
    <3> QED BY <3>2, <3>3
  <2>5. CASE ~(held = NoSkb /\ frameQ # <<>>)
    <3>1. cur' = w /\ wimQ' = Tail(wimQ) /\ UNCHANGED <<frameQ, held>>
      BY <1>3, <2>5 DEF WorkWim
    <3>2. Cur' = {w} /\ OnWay' = {w} /\ Held' = Held /\ Hif' = Hif \cup {w}
      BY <1>1, <2>1, <3>1, NoSkbAssumption DEF Cur, OnWay, OnItsWay, Held, Hif
    <3> HIDE DEF w
    <3>3. Numbered'
      BY <1>1, <2>1, <3>1, <3>2 DEF OrderInv, Numbered
    <3>4. \A t \in Held \cup Elems(frameQ) : ~SameLane(w, t)
      BY <2>1, <2>2 DEF SameLane, IsFrame
    <3>5. \A a \in AC : \A t \in Elems(txq[a]) : ~SameLane(w, t)
      BY <2>1, <2>3 DEF SameLane
    <3>6. InOrder'
      <4>1. Before(Cur', Held' \cup Elems(frameQ') \cup Elems(wimQ'))
        BY <2>1, <3>1, <3>2, <3>4 DEF Before
      <4>2. \A a \in AC : Before(Hif', Elems(txq'[a]))
        BY <1>1, <3>2, <3>5 DEF OrderInv, InOrder, Before
      <4> QED BY <1>1, <2>1, <3>1, <3>2, <4>1, <4>2 DEF OrderInv, InOrder
    <3>7. InTransit' \subseteq InTransit
      BY <1>1, <2>1, <3>1, <3>2, TransitParts
    <3> QED BY <1>1, <3>3, <3>6, <3>7 DEF Loses
  <2> QED BY <2>4, <2>5
<1> QED BY <1>2, <1>3

LEMMA WorkFrameOrder ==
  ASSUME OrderInv, WorkFrame
  PROVE  Numbered' /\ InOrder' /\ Loses
<1>1. /\ pc = "pick" /\ cur = NoSkb /\ Cur = {} /\ OnWay = {}
      /\ UNCHANGED <<txq, wimQ, sent, made>> /\ Queued' = Queued
  BY
     DEF WorkFrame, OrderInv, Inv, Shape, macVars, ghosts, Cur, OnWay, OnItsWay, Queued
<1>2. CASE Return /\ UNCHANGED <<cur, frameQ>>
  <2>1. pc' = "idle" /\ Held' = {} /\ Cur' = Cur /\ OnWay' = {}
    BY <1>2 DEF Return, Held, Cur, OnWay, OnItsWay
  <2> QED BY <1>1, <1>2, <2>1, ShrinksInOrder DEF Loses
<1>3. CASE /\ wimQ = <<>> /\ held # NoSkb /\ cur' = held /\ held' = NoSkb
           /\ pc' = "wait" /\ UNCHANGED frameQ
  <2>1. /\ Cur' = {held} /\ OnWay' = {held} /\ Held' = {} /\ Held = {held}
        /\ Hif' = Hif /\ Elems(wimQ') = {}
    BY <1>1, <1>3 DEF Cur, OnWay, OnItsWay, Held, Hif, Elems
  <2>2. Numbered'
    BY <1>1, <1>3, <2>1 DEF OrderInv, Numbered
  <2>3. InOrder'
    BY <1>1, <1>3, <2>1 DEF OrderInv, InOrder, Before
  <2>4. InTransit' \subseteq InTransit
    BY <1>1, <1>3, <2>1, TransitParts
  <2> QED BY <1>1, <2>2, <2>3, <2>4 DEF Loses
<1>4. CASE /\ wimQ = <<>> /\ held = NoSkb /\ frameQ # <<>> /\ cur' = Head(frameQ)
           /\ frameQ' = Tail(frameQ) /\ pc' = "wait" /\ UNCHANGED held
  <2> DEFINE f == Head(frameQ)
  <2>1. /\ f \in Skb /\ Elems(frameQ) = Elems(Tail(frameQ)) \cup {f}
        /\ Lined(Tail(frameQ)) /\ Before({f}, Elems(Tail(frameQ)))
    BY <1>4, ElemsTail, LinedTail DEF OrderInv, Inv, Shape, InOrder
  <2>2. /\ Cur' = {f} /\ OnWay' = {f} /\ Held = {} /\ Held' = {}
        /\ Hif' = Hif /\ Elems(wimQ') = {}
    BY <1>1, <1>4, <2>1, NoSkbAssumption
       DEF Cur, OnWay, OnItsWay, Held, Hif, Elems
  <2> HIDE DEF f
  <2>3. Numbered'
    BY <1>1, <1>4, <2>2 DEF OrderInv, Numbered
  <2>4. InOrder'
    BY <1>1, <1>4, <2>1, <2>2 DEF OrderInv, InOrder, Before
  <2>5. InTransit' \subseteq InTransit
    BY <1>1, <1>4, <2>1, <2>2, TransitParts
  <2> QED BY <1>1, <2>3, <2>4, <2>5 DEF Loses
<1> QED BY <1>2, <1>3, <1>4 DEF WorkFrame

(* Steps that end a transmission, reset the queues or touch none of this.   *)
LEMMA OtherOrder ==
  ASSUME OrderInv,
         \/ FreeSkb \/ WaitTimeout \/ WDisable \/ WdtClean \/ FwReload
         \/ WdtExpired \/ Wake \/ TaskletStart \/ TaskletPick \/ WorkStart \/ WaitForXmit
         \/ WaitWake \/ XmitTest \/ XmitCount \/ XmitError \/ IrqUpdate
         \/ WdtReady \/ WdtUpdate \/ Target
         \/ UNCHANGED vars
  PROVE  Numbered' /\ InOrder' /\ Loses
<1> USE DEF macVars, taskVars, hifVars, workVars, spiVars, tgtVars, notiVars, ghosts
<1>1. CASE FreeSkb \/ WaitTimeout
  <2>1. /\ cur' = NoSkb /\ pc' \in {"pick", "idle"} /\ (held' = held \/ held' = NoSkb)
        /\ UNCHANGED <<sent, made, frameQ, wimQ, txq>>
    BY <1>1 DEF FreeSkb, WaitTimeout, Return
  <2> QED BY <2>1, ShrinksInOrder DEF Loses, Cur, Held, OnWay, OnItsWay
<1>2. CASE WDisable \/ WdtClean \/ FwReload
  <2>1. /\ UNCHANGED <<pc, cur, held, sent, made>> /\ HifCleanup
        /\ CleanTxq \/ UNCHANGED txq
    BY <1>2 DEF WDisable, WdtClean, FwReload
  <2>2. \A a \in AC : txq'[a] = txq[a] \/ txq'[a] = <<>>
    BY <2>1 DEF CleanTxq
  <2> QED BY <2>1, <2>2, ShrinksInOrder
     DEF Loses, Cur, Held, OnWay, OnItsWay, HifCleanup
<1>3. CASE WorkStart \/ WaitForXmit \/ WaitWake \/ XmitTest \/ XmitCount \/ XmitError
  <2>1. /\ UNCHANGED <<cur, held, sent, made, frameQ, wimQ, txq>>
        /\ \/ pc' \in {"pick", "free"}
           \/ pc \in OnItsWay
    BY <1>3
       DEF WorkStart, WaitForXmit, WaitWake, XmitTest, XmitCount, XmitError, OnItsWay
  <2> QED BY <2>1, ShrinksInOrder DEF Loses, Cur, Held, OnWay, OnItsWay
<1>4. CASE Wake \/ TaskletStart \/ TaskletPick \/ IrqUpdate \/ WdtExpired
             \/ WdtReady \/ WdtUpdate \/ Target \/ UNCHANGED vars
  <2>1. UNCHANGED <<pc, cur, held, sent, made, frameQ, wimQ, txq>>
    BY <1>4 DEF vars, Wake, WakeTxQueue, TaskletStart, TaskletPick, IrqUpdate,
                WdtExpired, WdtReady, WdtUpdate, Target, TgtArm, TgtFree
  <2> QED BY <2>1, ShrinksInOrder DEF Loses, Cur, Held, OnWay, OnItsWay
<1> QED BY <1>1, <1>2, <1>3, <1>4

(* What is transmitted is under way once, and its lane's first.             *)
LEMMA NextOut ==
  ASSUME OrderInv, pc = "write"
  PROVE  /\ cur \in Skb /\ Cur = {cur} /\ OnWay = {cur} /\ cur \in InTransit
         /\ cur \notin Queued \cup Elems(frameQ) \cup Elems(wimQ) \cup Held
         /\ \A t \in InTransit : SameLane(cur, t) => cur.id <= t.id
<1>1. cur \in Skb /\ cur # NoSkb /\ Cur = {cur} /\ OnWay = {cur}
  BY NoSkbAssumption DEF OrderInv, Inv, Shape, Cur, OnWay, OnItsWay
<1>2. cur \in InTransit
  BY <1>1, TransitParts
<1>3. \A t \in Queued \cup Elems(frameQ) \cup Elems(wimQ) \cup Held :
        SameLane(cur, t) => cur.id < t.id
  BY <1>1 DEF OrderInv, InOrder, Before, Queued, Hif
<1>4. cur.id \in Nat /\ \A t \in InTransit : t.id \in Nat
  BY <1>1, OrderTyping
<1>5. \A t \in InTransit : SameLane(cur, t) => cur.id <= t.id
  <2> SUFFICES ASSUME NEW t \in InTransit, SameLane(cur, t) PROVE cur.id <= t.id
    OBVIOUS
  <2>1. CASE t = cur
    BY <1>4, <2>1
  <2>2. CASE t # cur
    BY <1>1, <1>3, <1>4, <2>2, TransitParts
  <2> QED BY <2>1, <2>2
<1>6. cur \notin Queued \cup Elems(frameQ) \cup Elems(wimQ) \cup Held
  <2>1. CASE IsFrame(cur)
    <3>1. cur \in Charged
      BY <1>1, <2>1 DEF Charged, InHif, Frames
    <3>2. cur \notin Elems(frameQ) /\ cur # held /\ cur \notin Elems(wimQ)
      BY <1>1, <2>1 DEF OrderInv, Inv, Places
    <3>3. cur \notin Queued
      BY <3>1 DEF OrderInv, Inv, Unpushed, Queued
    <3> QED BY <3>2, <3>3 DEF Held
  <2>2. CASE ~IsFrame(cur)
    <3>1. SameLane(cur, cur)
      BY <2>2 DEF SameLane, IsFrame
    <3> QED BY <1>3, <1>4, <3>1
  <2> QED BY <2>1, <2>2
<1> QED BY <1>1, <1>2, <1>5, <1>6

LEMMA XmitOrder ==
  ASSUME OrderInv, XmitWrite
  PROVE  /\ Numbered' /\ InOrder' /\ InTransit' = InTransit \ {cur} /\ made' = made
         /\ sent' = sent \/ sent' = Append(sent, cur)
<1>1. /\ pc = "write" /\ pc' = "free"
      /\ UNCHANGED <<txq, frameQ, wimQ, cur, held, made>>
      /\ sent' = sent \/ sent' = Append(sent, cur)
  BY DEF XmitWrite, Landed, macVars, hifVars
<1>2. Cur' = Cur /\ Held' = Held /\ OnWay' = {} /\ Queued' = Queued
  BY <1>1 DEF Cur, Held, OnWay, OnItsWay, Queued
<1>3. Numbered' /\ InOrder'
  BY <1>1, <1>2, ShrinksInOrder
<1>4. InTransit' = InTransit \ {cur}
  BY <1>1, <1>2, NextOut, TransitParts
<1> QED BY <1>1, <1>3, <1>4

(* The target receives a new skb, after all of its lane before it.          *)
LEMMA XmitReceived ==
  ASSUME OrderInv, XmitWrite
  PROVE  Received'
<1>1. CASE sent' = sent
  BY <1>1, XmitOrder, ReceivedKept, OrderTyping
<1>2. CASE sent' = Append(sent, cur)
  <2>1. /\ pc = "write" /\ cur \in Skb /\ cur \in InTransit /\ sent \in Seq(Skb)
        /\ InTransit' = InTransit \ {cur} /\ made' = made
    BY XmitOrder, NextOut, OrderTyping DEF XmitWrite
  <2>2. /\ cur \notin Elems(sent)
        /\ Before(Elems(sent), {cur})
    BY <2>1 DEF OrderInv, Received, Before
  <2>3. /\ sent' \in Seq(Skb) /\ Elems(sent') = Elems(sent) \cup {cur}
        /\ Distinct(sent')
    BY <1>2, <2>1, <2>2, ElemsAppend DEF OrderInv, Received
  <2>4. Lined(sent')
    BY <1>2, <2>1, <2>2, LinedAppend DEF OrderInv, Received
  <2>5. \A t \in InTransit' : cur # t /\ (SameLane(cur, t) => cur.id < t.id)
    <3>1. \A t \in InTransit' : t \in Queued \cup Elems(frameQ) \cup Elems(wimQ) \cup Held
      BY <2>1, NextOut, TransitParts
    <3>2. Before(Cur, Queued \cup Elems(frameQ) \cup Elems(wimQ) \cup Held)
      BY DEF OrderInv, InOrder, Before, Queued, Hif
    <3>3. Cur = {cur}
      BY <2>1, NextOut
    <3> QED BY <2>1, <3>1, <3>2, <3>3 DEF Before
  <2>6. cur.id <= made'
    BY <2>1, OrderTyping
  <2>7. \A s \in Elems(sent'), t \in InTransit' : s # t /\ (SameLane(s, t) => s.id < t.id)
    BY <2>1, <2>3, <2>5 DEF OrderInv, Received
  <2>8. \A s \in Elems(sent') : s.id <= made'
    BY <2>1, <2>3, <2>6 DEF OrderInv, Received
  <2> QED BY <2>3, <2>4, <2>7, <2>8 DEF Received
<1> QED BY <1>1, <1>2, XmitOrder

-----------------------------------------------------------------------------
(* Every step is one of four.                                               *)
LEMMA StepKinds ==
  ASSUME OrderInv, [Next]_vars
  PROVE  /\ Numbered' /\ InOrder'
         /\ \/ \E s \in Skb : Submits(s)
            \/ Loses
            \/ XmitWrite
<1> DEFINE Other == \/ FreeSkb \/ WaitTimeout \/ WDisable \/ WdtClean \/ FwReload
                    \/ WdtExpired \/ Wake \/ TaskletStart \/ TaskletPick \/ WorkStart \/ WaitForXmit
                    \/ WaitWake \/ XmitTest \/ XmitCount \/ XmitError
                    \/ IrqUpdate \/ WdtReady \/ WdtUpdate \/ Target
                    \/ UNCHANGED vars
<1>1. CASE Submit
  BY <1>1, TxDirectOrder, XmitWimOrder, Mac80211EnqueueOrder DEF Submit
<1>2. CASE TaskletPush \/ WorkWim \/ WorkFrame
  BY <1>2, TaskletPushOrder, WorkWimOrder, WorkFrameOrder
<1>3. CASE XmitWrite
  BY <1>3, XmitOrder
<1>4. CASE Other
  BY <1>4, OtherOrder
<1> QED BY <1>1, <1>2, <1>3, <1>4 DEF Next, Tasklet, Work, Broken, Recover

LEMMA OrderStep == OrderInv /\ [Next]_vars => OrderInv'
<1> SUFFICES ASSUME OrderInv, [Next]_vars PROVE OrderInv'
  OBVIOUS
<1>1. Inv'
  BY NextInv DEF OrderInv
<1>2. made \in Nat
  BY OrderTyping
<1>3. CASE \E s \in Skb : Submits(s)
  <2>1. PICK s \in Skb : Submits(s)
    BY <1>3
  <2>2. made' \in Nat /\ made <= made' /\ made < s.id
    BY <1>2, <2>1 DEF Submits
  <2>3. Received'
    BY <2>1, <2>2, ReceivedKept DEF Submits
  <2> QED BY <1>1, <2>3, StepKinds DEF OrderInv
<1>4. CASE Loses
  <2>1. Received'
    BY <1>2, <1>4, ReceivedKept DEF Loses
  <2> QED BY <1>1, <2>1, StepKinds DEF OrderInv
<1>5. CASE XmitWrite
  BY <1>1, <1>5, XmitReceived, StepKinds DEF OrderInv
<1> QED BY <1>3, <1>4, <1>5, StepKinds

LEMMA OrderInit == Init => OrderInv
<1> SUFFICES ASSUME Init PROVE OrderInv
  OBVIOUS
<1> USE DEF Init
<1>1. Elems(<<>>) = {} /\ Lined(<<>>) /\ Distinct(<<>>) /\ <<>> \in Seq(Skb)
  BY DEF Elems, Lined, Distinct
<1>2. /\ Cur = {} /\ Held = {} /\ Elems(frameQ) = {} /\ Elems(wimQ) = {}
      /\ Elems(sent) = {} /\ Lined(frameQ) /\ Lined(wimQ) /\ Hif = {}
  BY <1>1 DEF Cur, Held, Hif
<1>3. \A a \in AC : txq[a] = <<>>
  OBVIOUS
<1>4. Numbered /\ InOrder
  BY <1>1, <1>2, <1>3 DEF Numbered, InOrder, Before
<1>5. Received
  BY <1>1, <1>2 DEF Received
<1> QED BY <1>4, <1>5, InitInv DEF OrderInv

(* Skbs of a lane stand in order wherever they are.                         *)
THEOREM SpecOrder == Spec => []OrderInv
<1> QED BY OrderInit, OrderStep, PTL DEF Spec

(* The transmit path is the channel that its callers are promised: each skb *)
(* reaches the target at most once, the data of an AC in the order mac80211 *)
(* queued it and WIMs in the order they were issued, whatever is held back, *)
(* put back, overtaken, freed, reset or lost on the way.                    *)
THEOREM SpecImplementsChannel == Spec => ImplementsChannel
<1>1. Init => Channel!Init
  <2> SUFFICES ASSUME Init PROVE Channel!Init
    OBVIOUS
  <2>1. Elems(<<>>) = {}
    BY DEF Elems
  <2>2. Queued = {} /\ Elems(frameQ) = {} /\ Elems(wimQ) = {} /\ Held = {} /\ OnWay = {}
    BY <2>1 DEF Init, Queued, Held, OnWay, OnItsWay
  <2>3. InTransit = {}
    BY <2>2, TransitParts
  <2> QED BY <2>3 DEF Init, Channel!Init
<1>2. OrderInv /\ [Next]_vars => [Channel!Next]_(Channel!vars)
  <2> SUFFICES ASSUME OrderInv, [Next]_vars PROVE Channel!Next
    OBVIOUS
  <2>1. CASE \E s \in Skb : Submits(s)
    <3>1. PICK s \in Skb : Submits(s)
      BY <2>1
    <3>2. Channel!Submit(s)
      BY <3>1 DEF Submits, Channel!Submit
    <3> QED BY <3>2 DEF Channel!Next
  <2>2. CASE Loses
    BY <2>2 DEF Loses, Channel!Next, Channel!Lose
  <2>3. CASE XmitWrite
    <3>1. /\ pc = "write" /\ InTransit' = InTransit \ {cur} /\ made' = made
          /\ sent' = sent \/ sent' = Append(sent, cur)
      BY <2>3, XmitOrder DEF XmitWrite
    <3>2. cur \in Skb /\ cur \in InTransit
          /\ \A t \in InTransit : SameLane(cur, t) => cur.id <= t.id
      BY <3>1, NextOut
    <3>3. CASE sent' = sent
      BY <3>1, <3>3 DEF Channel!Next, Channel!Lose
    <3>4. CASE sent' = Append(sent, cur)
      <4>1. Channel!Deliver(cur)
        BY <3>1, <3>2, <3>4 DEF Channel!Deliver
      <4> QED BY <3>2, <4>1 DEF Channel!Next
    <3> QED BY <3>1, <3>3, <3>4
  <2> QED BY <2>1, <2>2, <2>3, StepKinds
<1> QED BY <1>1, <1>2, SpecOrder, PTL DEF Spec, ImplementsChannel, Channel!Spec

-----------------------------------------------------------------------------
(* The slots.  A worker past the wait has the slots it waited for, unless a *)
(* reset has caught it there; whoever counts ahead had better find slots.   *)

SlotTypes ==
  /\ drv \in {"RUNNING", "REBOOT"} /\ fwActive \in BOOLEAN
  /\ gap \in 0 .. (SlotMod - 1) /\ armed \in Nat /\ busy \in Nat
  /\ caught \in BOOLEAN /\ early \in BOOLEAN /\ resynced \in BOOLEAN
  /\ noti \in {"none", "clean", "update"}
  /\ astray \in 0 .. MaxUnits /\ (early => caught)

(* Slots counted for a frame whose write is under way.                      *)
Writing == IF pc = "write" THEN cur.n ELSE 0

Slots == fwActive /\ ~resynced =>
  /\ Known + armed + busy + Writing <= SlotCap + astray
  /\ pc \in {"xmit", "count"} /\ (early \/ ~caught) => gap >= cur.n

SlotInv == SlotTypes /\ Slots

(* The u16 difference of head and tail.                                     *)
LEMMA SlotArith ==
  /\ \A x \in Int : x % SlotMod \in 0 .. (SlotMod - 1)
  /\ \A x \in 0 .. (SlotMod - 1) : x % SlotMod = x
  /\ \A x \in Nat : x >= SlotMod => x % SlotMod <= x - SlotMod
  /\ \A x \in Int : 0 > x /\ x >= -SlotMod => x % SlotMod = x + SlotMod
  /\ SlotMod \in Nat /\ SlotCap \in Nat /\ MaxUnits \in Nat /\ MaxUnits <= SlotCap
  /\ SlotCap + MaxUnits < SlotMod
  /\ 0 \in 0 .. (SlotMod - 1)
BY TxPathAssumption

(* What a worker holds takes at least one slot and at most MaxUnits.        *)
LEMMA CurUnits == Inv /\ pc \notin {"idle", "pick"} =>
                    cur \in Skb /\ cur.n \in Nat /\ cur.n <= MaxUnits
BY TxPathAssumption DEF Inv, Shape, Skb

LEMMA WritingType == Inv => Writing \in Nat /\ Writing <= MaxUnits
BY CurUnits, SlotArith DEF Writing

(* A status read moves what the target made ready to the host's side.       *)
LEMMA UpdateSlots ==
  ASSUME SlotInv, UpdateStatus, UNCHANGED <<drv, fwActive, busy, caught, astray>>,
         noti' \in {"none", "clean", "update"}, Inv,
         UNCHANGED <<pc, cur>> \/ (pc = "wait" /\ pc' = "sleep")
  PROVE  SlotInv'
<1>1. /\ gap' = (IF Overrun THEN SlotCap + 1 ELSE gap + armed) % SlotMod
      /\ early' = (early /\ gap + armed < SlotMod)
      /\ resynced' = (resynced \/ Overrun) /\ armed' = 0
  BY DEF UpdateStatus
<1>2. gap \in 0 .. (SlotMod - 1) /\ armed \in Nat /\ busy \in Nat
      /\ astray \in 0 .. MaxUnits /\ early \in BOOLEAN /\ resynced \in BOOLEAN
  BY DEF SlotInv, SlotTypes
<1>3. SlotTypes'
  <2>1. gap' \in 0 .. (SlotMod - 1)
    BY <1>1, <1>2, SlotArith
  <2>2. early' \in BOOLEAN /\ (early' => early) /\ resynced' \in BOOLEAN
    BY <1>1, <1>2, Zenon
  <2> QED BY <1>1, <2>1, <2>2 DEF SlotInv, SlotTypes
<1>4. Slots'
  <2> SUFFICES ASSUME fwActive, ~resynced' PROVE Slots'
    BY DEF Slots
  <2>1. gap' = (gap + armed) % SlotMod /\ ~resynced
    BY <1>1
  <2>2. Known + armed + busy + Writing <= SlotCap + astray
    BY <2>1 DEF SlotInv, Slots
  <2>3. Writing' = Writing /\ Writing \in Nat
    BY WritingType DEF Writing
  <2>4. Known' + armed' + busy' + Writing' <= SlotCap + astray'
    <3>1. CASE ~early
      <4>1. Known' = gap' /\ Known = gap
        BY <1>1, <3>1 DEF Known
      <4>2. gap' <= gap + armed
        BY <1>2, <2>1, SlotArith
      <4> QED BY <1>1, <1>2, <2>2, <2>3, <4>1, <4>2, SlotArith
    <3>2. CASE early /\ gap + armed < SlotMod
      <4>1. Known' = gap' - SlotMod /\ Known = gap - SlotMod
        BY <1>1, <3>2 DEF Known
      <4>2. gap' = gap + armed
        BY <1>2, <2>1, <3>2, SlotArith
      <4> QED BY <1>1, <1>2, <2>2, <2>3, <4>1, <4>2, SlotArith
    <3>3. CASE early /\ ~(gap + armed < SlotMod)
      <4>1. Known' = gap' /\ Known = gap - SlotMod
        BY <1>1, <3>3 DEF Known
      <4>2. gap' <= gap + armed - SlotMod
        BY <1>2, <2>1, <3>3, SlotArith
      <4> QED BY <1>1, <1>2, <2>2, <2>3, <4>1, <4>2, SlotArith
    <3> QED BY <1>2, <3>1, <3>2, <3>3
  <2>5. ASSUME pc' \in {"xmit", "count"}, early' \/ ~caught'
        PROVE  gap' >= cur'.n
    <3>1. UNCHANGED <<pc, cur>> /\ gap >= cur.n /\ cur.n \in Nat
      <4>1. UNCHANGED <<pc, cur>>
        BY <2>5
      <4>2. early \/ ~caught
        BY <1>1, <2>5
      <4> QED BY <2>1, <2>5, <4>1, <4>2, CurUnits DEF SlotInv, Slots
    <3>2. gap + armed < SlotMod
      <4>1. CASE early'
        BY <1>1, <4>1
      <4>2. CASE ~caught'
        <5>1. ~early
          BY <4>2 DEF SlotInv, SlotTypes
        <5>2. Known = gap
          BY <5>1 DEF Known
        <5> QED BY <1>2, <2>2, <2>3, <5>2, SlotArith
      <4> QED BY <2>5, <4>1, <4>2
    <3>3. gap' = gap + armed
      BY <1>2, <2>1, <3>2, SlotArith
    <3> QED BY <1>2, <3>1, <3>3
  <2> QED BY <2>4, <2>5 DEF Slots
<1> QED BY <1>3, <1>4 DEF SlotInv

(* Taking tail forward, with the slots found or, after a reset, without.    *)
LEMMA CountSlots == Inv /\ SlotInv /\ XmitCount => SlotInv'
<1> SUFFICES ASSUME Inv, SlotInv, XmitCount PROVE SlotInv'
  OBVIOUS
<1>1. /\ pc = "count" /\ pc' = "write" /\ gap' = (gap - cur.n) % SlotMod
      /\ early' = (early \/ (caught /\ gap < cur.n))
      /\ UNCHANGED <<drv, fwActive, cur, resynced, armed, busy, noti, caught, astray>>
  BY DEF XmitCount, tgtVars, notiVars
<1>2. cur.n \in Nat /\ cur.n <= MaxUnits
  BY <1>1, CurUnits
<1>3. gap \in 0 .. (SlotMod - 1) /\ armed \in Nat /\ busy \in Nat
      /\ astray \in 0 .. MaxUnits /\ early \in BOOLEAN /\ caught \in BOOLEAN
      /\ (early => caught)
  BY DEF SlotInv, SlotTypes
<1>4. SlotTypes'
  <2>1. gap' \in 0 .. (SlotMod - 1)
    BY <1>1, <1>2, <1>3, SlotArith
  <2>2. early' \in BOOLEAN /\ (early' => caught)
    BY <1>1, <1>3, Zenon
  <2> QED BY <1>1, <2>1, <2>2 DEF SlotInv, SlotTypes
<1>5. Slots'
  <2> SUFFICES ASSUME fwActive, ~resynced PROVE Slots'
    BY <1>1 DEF Slots
  <2>1. /\ Known + armed + busy + Writing <= SlotCap + astray
        /\ early \/ ~caught => gap >= cur.n
    BY <1>1 DEF SlotInv, Slots
  <2>2. Writing = 0 /\ Writing' = cur.n
    BY <1>1 DEF Writing
  <2>3. Known' = Known - cur.n
    <3>1. CASE gap >= cur.n
      <4>1. gap' = gap - cur.n
        BY <1>1, <1>2, <1>3, <3>1, SlotArith
      <4>2. early' = early
        BY <1>1, <1>2, <1>3, <3>1
      <4> QED BY <1>2, <1>3, <4>1, <4>2, SlotArith DEF Known
    <3>2. CASE gap < cur.n
      <4>1. ~early /\ early'
        BY <1>1, <1>2, <1>3, <2>1, <3>2
      <4>2. gap' = gap - cur.n + SlotMod
        BY <1>1, <1>2, <1>3, <3>2, SlotArith
      <4> QED BY <1>2, <1>3, <4>1, <4>2, SlotArith DEF Known
    <3> QED BY <1>2, <1>3, <3>1, <3>2
  <2>4. Known \in Int
    BY <1>3, SlotArith DEF Known
  <2>5. Known' + armed' + busy' + Writing' <= SlotCap + astray'
    BY <1>1, <1>2, <1>3, <2>1, <2>2, <2>3, <2>4, SlotArith
  <2> QED BY <1>1, <2>5 DEF Slots
<1> QED BY <1>4, <1>5 DEF SlotInv

(* The write ends: in the ring, in a restarting target, or nowhere.         *)
LEMMA WriteSlots == Inv /\ SlotInv /\ (XmitWrite \/ XmitError) => SlotInv'
<1> SUFFICES ASSUME Inv, SlotInv, XmitWrite \/ XmitError PROVE SlotInv'
  OBVIOUS
<1>1. /\ pc = "write" /\ pc' = "free"
      /\ (busy' = busy) \/ (busy' = busy + cur.n)
      /\ UNCHANGED <<drv, fwActive, cur, gap, early, resynced, armed>>
      /\ UNCHANGED <<noti, caught, astray>>
  BY DEF XmitWrite, XmitError, Landed, spiVars, tgtVars, notiVars
<1>2. cur.n \in Nat
  BY <1>1, CurUnits
<1>3. SlotTypes'
  BY <1>1, <1>2 DEF SlotInv, SlotTypes
<1>4. Slots'
  <2> SUFFICES ASSUME fwActive, ~resynced PROVE Slots'
    BY <1>1 DEF Slots
  <2>1. Known + armed + busy + Writing <= SlotCap + astray
    BY DEF SlotInv, Slots
  <2>2. Writing = cur.n /\ Writing' = 0 /\ Known' = Known /\ Known \in Int
    BY <1>1, SlotArith DEF Writing, Known, SlotInv, SlotTypes
  <2>3. Known' + armed' + busy' + Writing' <= SlotCap + astray'
    BY <1>1, <1>2, <2>1, <2>2, SlotArith DEF SlotInv, SlotTypes
  <2> QED BY <1>1, <2>3 DEF Slots
<1> QED BY <1>3, <1>4 DEF SlotInv

(* A reset starts the books anew, with the write it met.                    *)
LEMMA ResetSlots ==
  ASSUME Inv, SlotInv, WdtExpired \/ FwReload
  PROVE  SlotInv'
<1>1. PICK ready \in {0, SlotCap} : ConfigFw(ready)
  BY DEF WdtExpired, FwReload
<1>2. /\ gap' = 0 /\ early' = FALSE /\ armed' = ready /\ busy' = 0
      /\ caught' = (pc \in {"xmit", "count"}) /\ astray' = Writing
  BY <1>1 DEF ConfigFw, Writing
<1>3. /\ UNCHANGED <<pc, cur, resynced>> /\ noti' \in {"none", "clean", "update"}
      /\ drv' \in {"RUNNING", "REBOOT"} /\ fwActive' \in BOOLEAN
  BY DEF WdtExpired, FwReload, workVars, SlotInv, SlotTypes
<1>4. Writing' = Writing /\ Writing \in Nat /\ Writing <= MaxUnits
  BY <1>3, WritingType DEF Writing
<1>5. SlotTypes'
  <2>1. caught' \in BOOLEAN
    BY <1>2
  <2>2. resynced' \in BOOLEAN
    BY <1>3 DEF SlotInv, SlotTypes
  <2>3. /\ gap' \in 0 .. (SlotMod - 1) /\ armed' \in Nat /\ busy' \in Nat
        /\ astray' \in 0 .. MaxUnits
    BY <1>2, <1>4, SlotArith
  <2>4. early' \in BOOLEAN /\ ~early'
    BY <1>2
  <2> QED BY <1>3, <2>1, <2>2, <2>3, <2>4 DEF SlotTypes
<1>6. Slots'
  <2>1. Known' = 0
    BY <1>2 DEF Known
  <2>2. Known' + armed' + busy' + Writing' <= SlotCap + astray'
    BY <1>2, <1>4, <2>1, SlotArith
  <2>3. pc' \in {"xmit", "count"} => ~(early' \/ ~caught')
    BY <1>2, <1>3
  <2> QED BY <2>2, <2>3 DEF Slots
<1> QED BY <1>5, <1>6 DEF SlotInv

(* Steps that leave the slots alone; a wait ends when there are enough.     *)
LEMMA SlotsKept ==
  ASSUME SlotInv, Inv, drv' \in {"RUNNING", "REBOOT"}, noti' \in {"none", "clean", "update"},
         UNCHANGED <<fwActive, gap, armed, busy, early, caught, astray, resynced>>,
         \/ UNCHANGED <<pc, cur>>
         \/ pc # "write" /\ pc' \notin {"xmit", "count", "write"}
         \/ pc = "xmit" /\ pc' = "count" /\ cur' = cur
         \/ pc # "write" /\ pc' = "xmit" /\ cur' = cur /\ EnoughSlots
  PROVE  SlotInv'
<1>1. SlotTypes'
  BY DEF SlotInv, SlotTypes
<1>2. Writing' = Writing /\ Known' = Known
  BY DEF Writing, Known
<1>3. fwActive /\ ~resynced /\ pc' \in {"xmit", "count"} /\ (early \/ ~caught)
        => gap >= cur'.n
  BY DEF SlotInv, Slots, EnoughSlots
<1>4. Slots'
  BY <1>2, <1>3 DEF SlotInv, Slots
<1> QED BY <1>1, <1>4 DEF SlotInv

LEMMA SlotStep == Inv /\ SlotInv /\ [Next]_vars => SlotInv'
<1> SUFFICES ASSUME Inv, SlotInv, [Next]_vars PROVE SlotInv'
  OBVIOUS
<1> DEFINE Slot == <<fwActive, gap, armed, busy, early, caught, astray, resynced>>
<1>1. drv \in {"RUNNING", "REBOOT"} /\ noti \in {"none", "clean", "update"}
  BY DEF SlotInv, SlotTypes
<1>2. CASE Submit \/ Wake \/ Tasklet \/ WorkStart \/ WorkWim \/ WorkFrame \/ FreeSkb
             \/ WaitTimeout \/ WDisable \/ WdtClean \/ WdtReady \/ XmitTest \/ WaitWake
             \/ (\E a \in AC : TgtFree(a)) \/ UNCHANGED vars
  <2>1. UNCHANGED Slot
    BY <1>2 DEF Submit, TxDirect, XmitWim, Mac80211Enqueue, Wake, WakeTxQueue,
         Tasklet, TaskletStart, TaskletPick, TaskletPush, WorkStart, WorkWim,
         WorkFrame, FreeSkb, WaitTimeout, WDisable, WdtClean, WdtReady, XmitTest,
         WaitWake, TgtFree, vars, spiVars, tgtVars, notiVars
  <2>2. drv' \in {"RUNNING", "REBOOT"} /\ noti' \in {"none", "clean", "update"}
    BY <1>1, <1>2
       DEF Submit, TxDirect, XmitWim, Mac80211Enqueue, Wake, WakeTxQueue,
         Tasklet, TaskletStart, TaskletPick, TaskletPush, WorkStart, WorkWim,
         WorkFrame, FreeSkb, WaitTimeout, WDisable, WdtClean, WdtReady, XmitTest,
         WaitWake, TgtFree, vars, notiVars
  <2>3. \/ UNCHANGED <<pc, cur>>
        \/ pc # "write" /\ pc' \notin {"xmit", "count", "write"}
        \/ pc = "xmit" /\ pc' = "count" /\ cur' = cur
        \/ pc # "write" /\ pc' = "xmit" /\ cur' = cur /\ EnoughSlots
    BY <1>2 DEF Submit, TxDirect, XmitWim, Mac80211Enqueue, Wake, WakeTxQueue,
         Tasklet, TaskletStart, TaskletPick, TaskletPush, WorkStart, WorkWim,
         WorkFrame, Return, FreeSkb, WaitTimeout, WDisable, WdtClean, WdtReady,
         XmitTest, WaitWake, TgtFree, vars, workVars
  <2> QED BY <2>1, <2>2, <2>3, SlotsKept
<1>3. CASE IrqUpdate \/ WdtUpdate
  <2>1. UpdateStatus /\ UNCHANGED <<drv, fwActive, busy, caught, astray, pc, cur>>
        /\ noti' \in {"none", "clean", "update"}
    BY <1>1, <1>3 DEF IrqUpdate, WdtUpdate, workVars, notiVars
  <2> QED BY <2>1, UpdateSlots
<1>4. CASE WaitForXmit
  <2>1. UNCHANGED <<drv, fwActive, busy, caught, astray, noti, cur>> /\ pc = "wait"
    BY <1>4 DEF WaitForXmit, notiVars
  <2>2. CASE EnoughSlots
    <3>1. pc' = "xmit" /\ UNCHANGED Slot
      BY <1>4, <2>1, <2>2 DEF WaitForXmit, spiVars
    <3> QED BY <1>1, <2>1, <2>2, <3>1, SlotsKept
  <2>3. CASE ~EnoughSlots
    <3>1. pc' = "sleep" /\ UpdateStatus
      BY <1>4, <2>3 DEF WaitForXmit
    <3> QED BY <1>1, <2>1, <3>1, UpdateSlots
  <2> QED BY <2>2, <2>3
<1>5. CASE XmitCount \/ XmitWrite \/ XmitError
  BY <1>5, CountSlots, WriteSlots
<1>6. CASE WdtExpired \/ FwReload
  BY <1>6, ResetSlots
<1>7. CASE TgtArm
  <2>1. /\ busy > 0 /\ busy' = busy - 1 /\ armed' = armed + 1
        /\ UNCHANGED <<drv, noti, fwActive, gap, early, caught, astray, resynced, pc, cur>>
    BY <1>7 DEF TgtArm, spiVars, notiVars, workVars
  <2>2. Writing' = Writing /\ Known' = Known /\ Known \in Int /\ Writing \in Nat
    BY <2>1, WritingType, SlotArith DEF Writing, Known, SlotInv, SlotTypes
  <2>3. SlotTypes'
    BY <2>1 DEF SlotInv, SlotTypes
  <2>4. Slots'
    BY <2>1, <2>2, SlotArith DEF SlotInv, SlotTypes, Slots
  <2> QED BY <2>3, <2>4 DEF SlotInv
<1> QED BY <1>2, <1>3, <1>4, <1>5, <1>6, <1>7
        DEF Next, Work, Broken, Recover, Target

LEMMA SlotInit == Init => SlotInv
<1> SUFFICES ASSUME Init PROVE SlotInv
  OBVIOUS
<1>1. /\ gap = SlotCap /\ armed = 0 /\ busy = 0 /\ astray = 0
      /\ pc = "idle" /\ drv = "RUNNING" /\ noti = "none"
      /\ fwActive = TRUE
  BY DEF Init
<1>2. fwActive \in BOOLEAN
  BY <1>1
<1>3. ~caught /\ ~early /\ ~resynced
      /\ {caught, early, resynced} \subseteq BOOLEAN
  BY Zenon DEF Init
<1>4. /\ gap \in 0 .. (SlotMod - 1) /\ armed \in Nat /\ busy \in Nat
      /\ astray \in 0 .. MaxUnits
  BY <1>1, SlotArith
<1>5. SlotTypes
  BY <1>1, <1>2, <1>3, <1>4 DEF SlotTypes
<1>6. Known = gap /\ Writing = 0
  BY <1>1, <1>3 DEF Known, Writing
<1>7. Slots
  BY <1>1, <1>3, <1>6, SlotArith DEF Slots
<1> QED BY <1>5, <1>7 DEF SlotInv

(* The books of the ring balance, for every size of the ring and of the     *)
(* counters, wherever in spi_xmit a watchdog reset finds the worker.        *)
THEOREM SpecSlotsConserved == Spec => []SlotsConserved
<1>1. Inv /\ SlotInv => SlotsConserved
  BY WritingType, SlotArith DEF SlotInv, SlotTypes, Slots, SlotsConserved, Known
<1> QED BY <1>1, SlotInit, SlotStep, SpecInv, PTL DEF Spec

-----------------------------------------------------------------------------
(* The types of the rest.                                                   *)

CounterTypes ==
  /\ txCredit \in [AC -> Nat] /\ inTarget \in [AC -> Nat]
  /\ front \in [AC -> 0 .. (CtrMod - 1)] /\ rear \in [AC -> 0 .. (CtrMod - 1)]
  /\ tgtRear \in [AC -> 0 .. (CtrMod - 1)]

FlagTypes ==
  /\ woken \subseteq AC /\ taskSched \in BOOLEAN /\ quota \in Nat
  /\ queued \in BOOLEAN /\ inWim \in BOOLEAN /\ irq \in BOOLEAN
  /\ faults \in 0 .. MaxFault

(* The byte counters wrap, and the report made of them is a number.         *)
LEMMA CounterArith ==
  /\ \A x \in Int : x % CtrMod \in 0 .. (CtrMod - 1)
  /\ 0 \in 0 .. (CtrMod - 1)
  /\ \A m \in Nat, f, r \in 0 .. (CtrMod - 1) : m - Lesser(m, Room(f, r)) \in Nat
  /\ \A a \in AC : CreditMax[a] \in Nat
<1>1. CtrMod \in Nat \ {0} /\ CreditMax \in [AC -> 1 .. (CtrMod - 1)]
  BY TxPathAssumption
<1>2. \A m \in Nat, f, r \in 0 .. (CtrMod - 1) : m - Lesser(m, Room(f, r)) \in Nat
  BY <1>1 DEF Lesser, Room
<1>3. \A a \in AC : CreditMax[a] \in Nat
  BY <1>1
<1> QED BY <1>1, <1>2, <1>3

LEMMA CounterStep ==
  ASSUME Inv, CounterTypes, [Next]_vars
  PROVE  CounterTypes'
<1>1. CASE UNCHANGED <<txCredit, inTarget, front, rear, tgtRear>>
  BY <1>1 DEF CounterTypes
<1>2. CASE IrqUpdate \/ WaitForXmit \/ WdtUpdate
  <2>1. UNCHANGED <<inTarget, front, tgtRear>> /\ (rear' = tgtRear \/ rear' = rear)
    BY <1>2 DEF IrqUpdate, WaitForXmit, WdtUpdate, UpdateStatus, spiVars
  <2>2. \/ txCredit' = txCredit
        \/ txCredit' = [a \in AC |-> CreditMax[a] -
                           Lesser(CreditMax[a], Room(front[a], tgtRear[a]))]
    BY <1>2 DEF IrqUpdate, WaitForXmit, WdtUpdate, UpdateStatus, spiVars
  <2>3. \A a \in AC : CreditMax[a] - Lesser(CreditMax[a], Room(front[a], tgtRear[a])) \in Nat
    BY CounterArith DEF CounterTypes
  <2>4. txCredit' \in [AC -> Nat]
    BY <2>2, <2>3 DEF CounterTypes
  <2> QED BY <2>1, <2>4 DEF CounterTypes
<1>3. CASE XmitCount \/ XmitWrite \/ XmitError
  <2>1. UNCHANGED <<txCredit, rear, tgtRear>> /\ cur \in Skb /\ cur.n \in Nat /\ cur.ac \in AC
    BY <1>3, CurUnits DEF XmitCount, XmitWrite, XmitError, spiVars, tgtVars, Skb
  <2>2. front' = front \/ front' = [front EXCEPT ![cur.ac] = (@ + cur.n) % CtrMod]
    BY <1>3 DEF XmitCount, XmitWrite, XmitError, spiVars, Charge
  <2>3. inTarget' = inTarget \/ inTarget' = [inTarget EXCEPT ![cur.ac] = @ + cur.n]
    BY <1>3 DEF XmitCount, XmitWrite, XmitError, Landed, tgtVars
  <2>4. front' \in [AC -> 0 .. (CtrMod - 1)]
    <3>1. front[cur.ac] + cur.n \in Int
      BY <2>1, TxPathAssumption DEF CounterTypes
    <3>2. (front[cur.ac] + cur.n) % CtrMod \in 0 .. (CtrMod - 1)
      BY <3>1, CounterArith
    <3> QED BY <2>1, <2>2, <3>2 DEF CounterTypes
  <2>5. inTarget' \in [AC -> Nat]
    BY <2>1, <2>3 DEF CounterTypes
  <2> QED BY <2>1, <2>4, <2>5 DEF CounterTypes
<1>4. CASE WdtExpired \/ FwReload
  <2>1. /\ txCredit' = txCredit /\ inTarget' = [a \in AC |-> 0]
        /\ front' = [a \in AC |-> 0] /\ rear' = [a \in AC |-> 0]
        /\ tgtRear' = [a \in AC |-> 0]
    BY <1>4 DEF WdtExpired, FwReload, ConfigFw
  <2> QED BY <2>1, CounterArith DEF CounterTypes
<1>5. CASE \E a \in AC : TgtFree(a)
  <2>1. PICK a \in AC : TgtFree(a)
    BY <1>5
  <2>2. /\ inTarget' = [inTarget EXCEPT ![a] = @ - 1] /\ inTarget[a] > 0
        /\ tgtRear' = [tgtRear EXCEPT ![a] = (@ + 1) % CtrMod]
        /\ UNCHANGED <<txCredit, front, rear>>
    BY <2>1 DEF TgtFree, spiVars
  <2>3. (tgtRear[a] + 1) % CtrMod \in 0 .. (CtrMod - 1)
    <3>1. tgtRear[a] + 1 \in Int
      BY TxPathAssumption DEF CounterTypes
    <3> QED BY <3>1, CounterArith
  <2>4. inTarget[a] - 1 \in Nat
    BY <2>2 DEF CounterTypes
  <2>5. inTarget' \in [AC -> Nat]
    BY <2>2, <2>4 DEF CounterTypes
  <2>6. tgtRear' \in [AC -> 0 .. (CtrMod - 1)]
    BY <2>2, <2>3 DEF CounterTypes
  <2> QED BY <2>2, <2>5, <2>6 DEF CounterTypes
<1>6. CASE Submit \/ Wake \/ Tasklet \/ WorkStart \/ WorkWim \/ WorkFrame \/ FreeSkb
             \/ WaitTimeout \/ WaitWake \/ XmitTest \/ WDisable \/ WdtClean \/ WdtReady
             \/ TgtArm \/ UNCHANGED vars
  BY <1>1, <1>6
     DEF Submit, TxDirect, XmitWim, Mac80211Enqueue, Wake, WakeTxQueue,
         Tasklet, TaskletStart, TaskletPick, TaskletPush, WorkStart, WorkWim,
         WorkFrame, FreeSkb, WaitTimeout, WaitWake, XmitTest, WDisable, WdtClean,
         WdtReady, TgtArm, vars,
         spiVars, tgtVars
<1> QED BY <1>2, <1>3, <1>4, <1>5, <1>6 DEF Next, Work, Broken, Recover, Target

(* The credit left to an AC, what the tasklet's quota starts from.          *)
LEMMA CreditIsNumber ==
  ASSUME CounterTypes, Inv, NEW a \in AC
  PROVE  AcCredit(a) \in Nat
<1>1. txPend[a] \in Int /\ txCredit[a] \in Nat
  BY DEF CounterTypes, Inv, Account, Accounts
<1> QED BY <1>1 DEF AcCredit

LEMMA FlagStep ==
  ASSUME Inv, SlotTypes, CounterTypes, FlagTypes, [Next]_vars
  PROVE  FlagTypes'
<1> USE DEF FlagTypes
<1>1. faults' \in 0 .. MaxFault
  <2>1. faults' = faults \/ Fault
    BY DEF Next, Submit, TxDirect, XmitWim, Mac80211Enqueue, Wake, WakeTxQueue,
         Tasklet, TaskletStart, TaskletPick, TaskletPush, Work, WorkStart, WorkWim,
         WorkFrame, WaitForXmit, WaitWake, XmitTest, XmitCount, XmitWrite, FreeSkb, IrqUpdate, Broken,
         WaitTimeout, XmitError, WDisable, WdtExpired, FwReload, Recover, WdtClean, WdtReady, WdtUpdate,
         Target, TgtArm, TgtFree, ghosts, vars
  <2> QED BY <2>1, TxPathAssumption DEF Fault
<1>2. quota' \in Nat
  <2>1. CASE TaskletPick
    <3>1. CASE txqList = <<>>
      BY <2>1, <3>1 DEF TaskletPick
    <3>2. CASE txqList # <<>>
      <4>1. Head(txqList) \in AC
        BY <3>2, HeadTailProperties DEF Inv, Shape
      <4>2. AcCredit(Head(txqList)) \in Nat
        BY <4>1, CreditIsNumber
      <4> QED BY <2>1, <3>2, <4>2 DEF TaskletPick, GiveWay
    <3> QED BY <3>1, <3>2
  <2>2. CASE TaskletPush
    <3>1. quota > 0 /\ (quota' = 0 \/ quota' = quota - 1)
      BY <2>2, Zenon DEF TaskletPush, GiveWay
    <3> QED BY <3>1
  <2>3. CASE ~TaskletPick /\ ~TaskletPush
    <3>1. quota' = quota
      BY <2>3
         DEF Next, Submit, TxDirect, XmitWim, Mac80211Enqueue, Wake, WakeTxQueue,
         Tasklet, TaskletStart, Work, WorkStart, WorkWim,
         WorkFrame, WaitForXmit, WaitWake, XmitTest, XmitCount, XmitWrite, FreeSkb, IrqUpdate, Broken,
         WaitTimeout, XmitError, WDisable, WdtExpired, FwReload, Recover, WdtClean, WdtReady, WdtUpdate,
         Target, TgtArm, TgtFree, taskVars, vars
    <3> QED BY <3>1
  <2> QED BY <2>1, <2>2, <2>3
<1>3. woken' \subseteq AC /\ taskSched' \in BOOLEAN
  <2>1. CASE Mac80211Enqueue \/ Wake
    BY <2>1 DEF Mac80211Enqueue, Wake, WakeTxQueue, Kick, taskVars
  <2>2. CASE IrqUpdate \/ WaitForXmit \/ WdtUpdate \/ TaskletStart
    BY <2>2
       DEF IrqUpdate, WaitForXmit, WdtUpdate, TaskletStart, UpdateStatus, macVars
  <2>3. CASE UNCHANGED <<woken, taskSched>>
    BY <2>3
  <2> QED BY <2>1, <2>2, <2>3
       DEF Next, Submit, TxDirect, XmitWim,
         Tasklet, TaskletPick, TaskletPush, Work, WorkStart, WorkWim,
         WorkFrame, WaitWake, XmitTest, XmitCount, XmitWrite, FreeSkb, Broken,
         WaitTimeout, XmitError, WDisable, WdtExpired, FwReload, Recover, WdtClean, WdtReady,
         Target, TgtArm, TgtFree, macVars, taskVars, vars
<1>4. queued' \in BOOLEAN /\ inWim' \in BOOLEAN
  <2>1. CASE Submit \/ TaskletPush
    BY <2>1
       DEF Submit, TxDirect, XmitWim, Mac80211Enqueue, TaskletPush, XmitFrame,
                hifVars, workVars
  <2>2. CASE WorkStart \/ WorkWim \/ WorkFrame
    BY <2>2 DEF WorkStart, WorkWim, WorkFrame
  <2>3. CASE UNCHANGED <<queued, inWim>>
    BY <2>3
  <2> QED BY <2>1, <2>2, <2>3
       DEF Next, Wake, WakeTxQueue, Tasklet, TaskletStart, TaskletPick, Work,
         WaitForXmit, WaitWake, XmitTest, XmitCount, XmitWrite, FreeSkb, IrqUpdate, Broken,
         WaitTimeout, XmitError, WDisable, WdtExpired, FwReload, Recover, WdtClean, WdtReady, WdtUpdate,
         Target, TgtArm, TgtFree, hifVars, workVars, vars
<1>5. irq' \in BOOLEAN
  <2>1. CASE IrqUpdate \/ Target
    BY <2>1 DEF IrqUpdate, Target, TgtArm, TgtFree
  <2>2. CASE WdtExpired \/ FwReload
    <3>1. irq' = (SlotCap > 0) \/ irq' = (0 > 0)
      BY <2>2, Zenon DEF WdtExpired, FwReload, ConfigFw
    <3>2. \A x, y \in Nat : (x > y) \in BOOLEAN
      OBVIOUS
    <3> QED BY <3>1, <3>2, TxPathAssumption
  <2>3. CASE UNCHANGED irq
    BY <2>3
  <2> QED BY <2>1, <2>2, <2>3
       DEF Next, Submit, TxDirect, XmitWim, Mac80211Enqueue, Wake, WakeTxQueue,
         Tasklet, TaskletStart, TaskletPick, TaskletPush, Work, WorkStart, WorkWim,
         WorkFrame, WaitForXmit, WaitWake, XmitTest, XmitCount, XmitWrite, FreeSkb, Broken,
         WaitTimeout, XmitError, WDisable, Recover, WdtClean, WdtReady, WdtUpdate, tgtVars, vars
<1> QED BY <1>1, <1>2, <1>3, <1>4, <1>5

(* Type correctness: counters wrap in their width, charges are never        *)
(* negative, no queue is asked for a head it does not have.                 *)
THEOREM SpecTypeOK == Spec => []TypeOK
<1> DEFINE I == OrderInv /\ SlotInv /\ CounterTypes /\ FlagTypes
<1>1. Init => CounterTypes /\ FlagTypes
  <2> SUFFICES ASSUME Init PROVE CounterTypes /\ FlagTypes
    OBVIOUS
  <2>1. txCredit \in [AC -> Nat]
    BY TxPathAssumption DEF Init
  <2>2. CounterTypes
    BY <2>1, CounterArith, TxPathAssumption DEF Init, CounterTypes
  <2>3. FlagTypes
    <3>1. woken = {} /\ quota = 0 /\ faults = 0 /\ 0 \in 0 .. MaxFault
      BY TxPathAssumption DEF Init
    <3>2. {taskSched, queued, inWim, irq} = {FALSE}
      BY DEF Init
    <3> QED BY <3>1, <3>2 DEF FlagTypes
  <2> QED BY <2>2, <2>3
<1>2. I /\ [Next]_vars => I'
  BY OrderStep, SlotStep, CounterStep, FlagStep DEF OrderInv, SlotInv
<1>3. I => TypeOK
  <2> SUFFICES ASSUME I PROVE TypeOK
    OBVIOUS
  <2>1. txPend \in [AC -> Nat]
    <3>1. txPend \in [AC -> Int] /\ \A a \in AC : txPend[a] \in Nat
      BY FS_CardinalityType DEF OrderInv, Inv, Account, Accounts
    <3> QED BY <3>1
  <2>2. made \in 0 .. MaxSkb
    BY TxPathAssumption DEF OrderInv, Inv, Shape
  <2>3. /\ noti \in {"none", "clean", "update"} /\ astray \in Nat
        /\ gap \in 0 .. (SlotMod - 1) /\ armed \in Nat /\ busy \in Nat
    BY SlotArith DEF SlotInv, SlotTypes
  <2>4. caught \in BOOLEAN /\ early \in BOOLEAN /\ resynced \in BOOLEAN
    BY DEF SlotInv, SlotTypes
  <2>5. drv \in {"RUNNING", "REBOOT"} /\ fwActive \in BOOLEAN
    BY DEF SlotInv, SlotTypes
  <2> QED BY <2>1, <2>2, <2>3, <2>4, <2>5 DEF OrderInv, Inv, Shape, Received,
             CounterTypes, FlagTypes, TypeOK
<1> QED BY <1>1, <1>2, <1>3, SlotInit, OrderInit, PTL DEF Spec
=============================================================================
