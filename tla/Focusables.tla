------------------------------ MODULE Focusables -------------------------------
(***************************************************************************)
(* How the objects of a vr scene answer the focus dispatcher: simple_object*)
(* (test/vr_lab_test/simple_object.cxx), vr_table and vr_screen (cg_nui).  *)
(* An object has a state, the hid_id that it listens to and the            *)
(* configuration drag_begin saved; an answer says what handle makes of the *)
(* state and what it requests.                                             *)
(***************************************************************************)
\* The flags of focus_configuration that the objects change.  Of the others
\* deattach, transfer, handle and current_root_first are set, and event_handler
\* and only_focus are not.
Default == {"grab", "respatial", "recursive", "structural", "spatial", "proximity", "pointing"}

\* The interfaces that make an object a target; a group has none.
grabbable(k) == k \in {"simple", "table"}
pointable(k) == k # "group"

Pose == [do |-> "pose", button |-> "none"]
Press(b) == [do |-> "press", button |-> b]
Release(b) == [do |-> "release", button |-> b]

\* Mutant of DragConfig: spatial refocusing stays on.
LooseDragConfig(c, flag) == c \ {"structural", "recursive", flag}

\* drag_begin: what it leaves of a configuration; flag is the kind of spatial
\* analysis that the drag does not need.
DragConfig(c, flag) == c \ {"respatial", "structural", "recursive", flag}

\* wants_to_grab_focus of the screen: the configuration it demands for the kit.
PlaceConfig(c) == c \ {"spatial", "recursive", "structural", "grab", "respatial"}
--------------------------------------------------------------------------------
\* Mutant of Accepts: an object that is held by another hid accepts.
StolenAccepts(k, s, rfa, mode) == k = "screen" => rfa \in {"grab", "intersection"}

\* focus_change for attach: whether an object accepts, and its state then.
Accepts(k, s, rfa, mode) ==
  \/ s = "idle" /\ (k = "screen" => rfa \in {"grab", "intersection"})
  \/ k = "table" /\ s = "gizmo" /\ mode = "pointing"
  \/ k = "screen" /\ rfa = "grab"

AttachedState(k, s, rfa, mode) ==
  IF k = "screen" THEN IF rfa = "grab" THEN "place" ELSE "mouse"
  ELSE IF s = "gizmo" THEN "gizmo"
  ELSE IF mode = "proximity" THEN "close" ELSE "pointed"

\* focus_change for detach: whether an object listens, own telling whether the
\* event that causes it is one of its hid_id.  Who listens becomes idle.
Listens(k, s, own) ==
  /\ s # "idle"
  /\ k = "table" => s # "gizmo"
  /\ k = "screen" /\ s = "mouse" => own
  /\ k # "screen" => own
--------------------------------------------------------------------------------
\* Answers of handle: not handled; handled; handled with a request to begin or end
\* a drag, or to detach the focus at some level.
Pass(s)        == [handled |-> FALSE, state |-> s, request |-> "none", what |-> "none"]
Seen(s)        == [handled |-> TRUE, state |-> s, request |-> "none", what |-> "none"]
Begin(s, flag) == [handled |-> TRUE, state |-> s, request |-> "begin", what |-> flag]
End(s)         == [handled |-> TRUE, state |-> s, request |-> "end", what |-> "none"]
Leave(s, lvl)  == [handled |-> TRUE, state |-> s, request |-> "detach", what |-> lvl]

SimpleAnswer(s, e, mode) ==
  CASE e = Press("grip")      -> Begin("grabbed", "pointing")
    [] e = Release("grip")    -> End("close")
    [] e = Press("trigger")   -> Begin("triggered", "proximity")
    [] e = Release("trigger") -> End("pointed")
    [] e = Pose /\ mode \in {"proximity", "pointing"} -> Seen(s)
    [] OTHER                  -> Pass(s)

TableAnswer(s, e, mode) ==
  IF mode = "structural" THEN Pass(s)
  ELSE CASE s = "close" /\ e = Press("grip")     -> Begin("grabbed", "pointing")
         [] s = "grabbed" /\ e = Release("grip") -> End("close")
         [] s \in {"close", "grabbed"} /\ e = Pose /\ mode = "proximity" -> Seen(s)
         [] s = "pointed"                        -> Seen(IF e = Press("trigger") THEN "gizmo" ELSE s)
         [] s = "gizmo"                          -> Seen(IF e = Press("trigger") THEN "pointed" ELSE s)
         [] OTHER                                -> Pass(s)

\* In state place the screen follows a pose only some time after the press (soon).
ScreenAnswer(s, e, mode, soon) ==
  IF s = "place"
  THEN CASE e = Press("menu")    -> Seen(s)
         [] e = Release("menu")  -> Leave(s, "kit")
         [] e = Pose /\ ~soon    -> Seen(s)
         [] OTHER                -> Pass(s)
  ELSE CASE e = Press("menu")    -> Seen(s)
         [] e = Release("menu")  -> Leave(s, "hid")
         [] e = Press("left")    -> Begin("drag", "proximity")
         [] e = Release("left")  -> End("mouse")
         [] e = Pose /\ mode = "pointing" -> Seen(s)
         [] OTHER                -> Pass(s)

\* handle: an idle object and one of another hid ignore the event, and a group has none.
Answers(k, s, own, e, mode) ==
  IF s = "idle" \/ ~own \/ k = "group" THEN {Pass(s)}
  ELSE CASE k = "simple" -> {SimpleAnswer(s, e, mode)}
         [] k = "table"  -> {TableAnswer(s, e, mode)}
         [] OTHER        -> {ScreenAnswer(s, e, mode, soon) : soon \in BOOLEAN}
================================================================================
