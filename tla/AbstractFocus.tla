------------------------------ MODULE AbstractFocus ----------------------------
(***************************************************************************)
(* What the focus dispatcher promises (cg_nui/dispatcher.h): focus is      *)
(* granted to one object for a scope of input devices, scopes of different *)
(* grants never overlap, and a new grant takes away those grants that it   *)
(* overlaps and no other.                                                  *)
(***************************************************************************)
CONSTANTS Objects, Hids

VARIABLE grants      \* a set of records [scope, to]

Init == grants = {}

\* Object o is granted the focus of the devices in S, and may give up some of what
\* it has.
Grant(o, S) ==
  \E given_up \in SUBSET {g \in grants : g.to = o} :
    grants' = {g \in grants \ given_up : g.scope \cap S = {}} \cup {[scope |-> S, to |-> o]}

\* Some grants end.
Shed == grants' \subseteq grants

Next == Shed \/ \E o \in Objects, S \in SUBSET Hids : Grant(o, S)

Spec == Init /\ [][Next]_grants
================================================================================
