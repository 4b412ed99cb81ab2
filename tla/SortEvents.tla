------------------------------ MODULE SortEvents -------------------------------
(***************************************************************************)
(* sort_registration_events and add_partially_ordered (cgv/base/           *)
(* register.cxx) for any set of partial orders, cyclic combinations        *)
(* included.  The recursion is a stack of frames, an event is its index;   *)
(* appended[i] is "i is in permutation", delayed[i] is "i has a frame".    *)
(***************************************************************************)
EXTENDS PartialOrder, FiniteSets

CONSTANTS N,        \* number of registration events
          Orders    \* sets of partial orders, each a sequence of matched events

ASSUME SortAssumption ==
  /\ N \in Nat
  /\ \A o \in UNION Orders : o \in Seq(0 .. N - 1) /\ Len(o) >= 2

VARIABLES
  orders,        \* the partial orders that match this call
  permutation,
  i,             \* loop variable of sort_registration_events
  stack          \* frames [of |-> event, j |-> first predecessor not yet visited]

sort_vars == <<orders, permutation, i, stack>>
Events == 0 .. N - 1

\* Mutant of CombinedPartialOrder: a later order replaces the predecessor of e.
SingleCombinedPartialOrder(e) ==
  LET P == {p \in Events : \E o \in orders : \E k \in 2 .. Len(o) : o[k] = e /\ o[k - 1] = p}
  IN {p \in P : \A q \in P : q <= p}

\* combined_partial_order[e]: the direct predecessors of e.
CombinedPartialOrder(e) ==
  {p \in Events : \E o \in orders : \E k \in 2 .. Len(o) : o[k] = e /\ o[k - 1] = p}

Appended == ToSet(permutation)
Delayed == {stack[k].of : k \in DOMAIN stack}
Top == stack[Len(stack)]
Pop == SubSeq(stack, 1, Len(stack) - 1)

SortInit ==
  /\ orders \in Orders
  /\ permutation = <<>> /\ i = 0 /\ stack = <<>>

\* add_partially_ordered(e): returns at once on a cyclic dependency.
Call(s, e) == IF e \in Delayed THEN s ELSE Append(s, [of |-> e, j |-> 0])

\* Mutant of Outer: events that are appended already are not left out.
RepeatOuter ==
  /\ stack = <<>> /\ i < N
  /\ stack' = Call(stack, i)
  /\ i' = i + 1
  /\ UNCHANGED <<orders, permutation>>

\* The loop over all events.
Outer ==
  /\ stack = <<>> /\ i < N
  /\ stack' = IF i \in Appended THEN stack ELSE Call(stack, i)
  /\ i' = i + 1
  /\ UNCHANGED <<orders, permutation>>

Pending == {j \in CombinedPartialOrder(Top.of) : j >= Top.j}

\* Mutant of Visit: the iterator stays where it is.
StuckVisit ==
  /\ stack # <<>> /\ Pending # {}
  /\ UNCHANGED sort_vars

\* The loop of a frame takes the next predecessor in ascending order.
Visit ==
  /\ stack # <<>> /\ Pending # {}
  /\ LET j == CHOOSE x \in Pending : \A y \in Pending : x <= y
         advanced == Append(Pop, [Top EXCEPT !.j = j + 1])
     IN stack' = IF j \in Appended THEN advanced ELSE Call(advanced, j)
  /\ UNCHANGED <<orders, permutation, i>>

\* All predecessors are visited: the event of the frame is appended.
Return ==
  /\ stack # <<>> /\ Pending = {}
  /\ permutation' = Append(permutation, Top.of)
  /\ stack' = Pop
  /\ UNCHANGED <<orders, i>>

SortNext == Outer \/ Visit \/ Return
SortSpec == SortInit /\ [][SortNext]_sort_vars /\ WF_sort_vars(SortNext)
--------------------------------------------------------------------------------
Done == i = N /\ stack = <<>>
EventOrders == {p \in [1 .. N -> Events] : \A a, b \in 1 .. N : p[a] = p[b] => a = b}
Respects(p) == \A o \in orders : \A k \in 2 .. Len(o) :
                 \E a, b \in DOMAIN p : a < b /\ p[a] = o[k - 1] /\ p[b] = o[k]
Acyclic == \E p \in EventOrders : Respects(p)

\* "ERROR: could not compute valid permutation" and abort() (register.cxx) are
\* never reached, whatever cycles the combined order has: every event is appended
\* exactly once.
NeverAborts == Done => permutation \in EventOrders

\* If the partial orders do not contradict each other, all of them are met; and with
\* a single order the recursion computes PulledForward, which Registration takes in
\* its place.
OrdersMet ==
  Done =>
    /\ Acyclic => Respects(permutation)
    /\ \A o \in orders : orders = {o} /\ IsInjective(o) =>
         permutation = PulledForward([k \in 1 .. N |-> k - 1], o)

\* The sort ends.
SortEnds == <>Done

================================================================================
