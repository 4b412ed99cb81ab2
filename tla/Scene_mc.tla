-------------------------------- MODULE Scene_mc -------------------------------
\* The two controllers of a kit, a screen, and a table with a shelf that holds an object:
\* a hierarchy of three levels.
EXTENDS Scene, TLC

CONSTANTS vr, screen, table, shelf, box

Ctrl(i) == [category |-> "controller", kit_ptr |-> vr, index |-> i]
McHids == {Ctrl(0), Ctrl(1)}
McConfigs == SUBSET Default
McKind == (screen :> "screen") @@ (table :> "table") @@ (shelf :> "group") @@ (box :> "simple")
McRoots == <<table, screen>>
McChildren == (screen :> <<>>) @@ (table :> <<shelf>>) @@ (shelf :> <<box>>) @@ (box :> <<>>)
McSwitched == {Ctrl(0)}
McButtons == (Ctrl(0) :> {"grip"}) @@ (Ctrl(1) :> {"menu", "trigger"})
================================================================================
