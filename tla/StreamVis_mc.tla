------------------------------ MODULE StreamVis_mc -----------------------------
\* Values that do not come in the order of their size; nan_value is the greatest int.
EXTENDS StreamVis

CONSTANT c1

McMagnitude == [v \in 0 .. MaxRows \cup {Nan} |-> IF v = Nan THEN 99 ELSE (3 * v) % 7]
================================================================================
