----------------------------- MODULE TxChannel -----------------------------
(***************************************************************************)
(* What the transmit path promises its callers: a lossy channel that       *)
(* delivers each skb at most once and keeps the order of ordered skbs.     *)
(* Data frames of one AC are ordered, so are WIM commands; management and  *)
(* control frames may overtake.  A refused or lost skb never shows up.     *)
(***************************************************************************)
EXTENDS Naturals, Sequences

CONSTANTS
  Msg,            \* what can be submitted, each with a number of its own
  Ordered(_, _)   \* Ordered(m, n): m and n must be delivered in turn

VARIABLES
  count,          \* number of submissions so far
  waiting,        \* submitted, neither delivered nor lost
  delivered       \* what the target received, in order

vars == <<count, waiting, delivered>>

Init == count = 0 /\ waiting = {} /\ delivered = <<>>

Submit(m) ==
  /\ m.id = count + 1
  /\ count' = m.id
  /\ waiting' \in {waiting, waiting \cup {m}}
  /\ UNCHANGED delivered

Deliver(m) ==
  /\ m \in waiting
  /\ \A n \in waiting : Ordered(m, n) => m.id <= n.id
  /\ waiting' = waiting \ {m}
  /\ delivered' = Append(delivered, m)
  /\ UNCHANGED count

Lose ==
  /\ waiting' \in SUBSET waiting
  /\ UNCHANGED <<count, delivered>>

Next == (\E m \in Msg : Submit(m) \/ Deliver(m)) \/ Lose

Spec == Init /\ [][Next]_vars
=============================================================================
