----------------------------- MODULE SortEvents_mc -----------------------------
\* Four events and every combination of two partial orders of two or three of them.
EXTENDS SortEvents

McOrder == {o \in [1 .. 2 -> 0 .. 3] \cup [1 .. 3 -> 0 .. 3] : IsInjective(o)}
McOrders == {{o, p} : o, p \in McOrder}
================================================================================
