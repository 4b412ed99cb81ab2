----------------------------- MODULE PartialOrder ------------------------------
(***************************************************************************)
(* What sorting by one partial order of define_registration_order does to  *)
(* the list of registration events: an event of the order pulls those that *)
(* precede it in front of it, all others keep their place.  SortEvents     *)
(* shows that the recursion of register.cxx computes just this.            *)
(***************************************************************************)
EXTENDS Integers, Sequences, SequencesExt

\* The order has x in front of y, or x is y and in the order.
InOrder(order, x, y) ==
  \E a, b \in DOMAIN order : a <= b /\ order[a] = x /\ order[b] = y

\* The events of sequence s that have to come after x, and x itself.
Pulls(s, order, x) == {k \in DOMAIN s : s[k] = x \/ InOrder(order, x, s[k])}

\* The first of them pulls x to its place.
Puller(s, order, x) == CHOOSE k \in Pulls(s, order, x) : \A m \in Pulls(s, order, x) : k <= m

Before(s, order, x, y) ==
  \/ Puller(s, order, x) < Puller(s, order, y)
  \/ Puller(s, order, x) = Puller(s, order, y) /\ x # y /\ InOrder(order, x, y)

\* Sequence s without repetitions, permuted according to the sequence order.
PulledForward(s, order) ==
  [k \in DOMAIN s |->
    CHOOSE x \in ToSet(s) : Cardinality({y \in ToSet(s) : Before(s, order, y, x)}) = k - 1]
================================================================================
