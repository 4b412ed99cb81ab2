-------------------------------- MODULE Focus_mc -------------------------------
\* Two controllers of a kit, with the first and the last index, and a gamepad;
\* two selections that exclude each other, one for the controllers and one for the gamepad.
EXTENDS Focus

CONSTANTS vr

Hid(c, p, i) == [category |-> c, kit_ptr |-> p, index |-> i]
McHids == {Hid("controller", vr, 0), Hid("controller", vr, 3), Hid("gamepad", None, 0)}
McSelections == {{"controller", "mouse"}, {"joystick", "gamepad", "hmd", "tracker"}}
================================================================================
