--------------------------------- MODULE Scene ---------------------------------
(***************************************************************************)
(* dispatcher::dispatch with the spatial dispatching of spatial_dispatcher,*)
(* for the controllers of vr kits, in a scene of the objects of Focusables *)
(* (cg_nui/dispatcher.cxx, cg_nui/spatial_dispatcher.cxx) and the handling *)
(* of the mode buttons in vr_lab/vr_scene.cxx.  One event is dispatched at *)
(* a time, in phases: grab, spatial, focus, kids of the object in focus,   *)
(* roots.  What a ray or a query point hits is any object.                 *)
(***************************************************************************)
EXTENDS Focus, Focusables, Sequences

CONSTANTS
  Kind,       \* of an object: "simple", "table", "screen", or "group" for a node that
              \* has only children and never focus
  Roots,      \* the objects added to the dispatcher, in the order of their addresses
  Children,   \* the children of an object, a sequence
  Buttons,    \* a bound: the buttons that are used on a controller
  Switched    \* a bound: the controllers whose modes are switched

\* What traversing r and the children of what is traversed reaches: the objects that are in
\* every set with r that has the children of its members, too.
Below ==
  [r \in Objects |->
     {o \in Objects :
        \A S \in SUBSET Objects :
          (r \in S /\ \A p \in S : \A i \in DOMAIN Children[p] : Children[p][i] \in S) => o \in S}]

InHierarchy(o, root) == o \in Below[root]

\* Every object is in the hierarchy of a root.
ASSUME SceneAssumption ==
  /\ \A h \in Hids : h.category = "controller"
  /\ Configs = SUBSET Default /\ None \notin Objects \cup Hids
  /\ Kind \in [Objects -> {"simple", "table", "screen", "group"}]
  /\ Roots \in Seq(Objects) /\ Roots # <<>>
  /\ Children \in [Objects -> Seq(Objects)]
  /\ \A o \in Objects : \E i \in DOMAIN Roots : InHierarchy(o, Roots[i])
  /\ Buttons \in [Hids -> SUBSET {"grip", "trigger", "menu", "left"}]

VARIABLES
  default_config,   \* default_focus_info.config
  objs,             \* the objects: their state, hid_id and original_config
  ignored,          \* history: objects that did not listen when they lost focus
  foc_info,         \* rfi.foc_info_ptr: the attachment it points to, Unattached for
                    \* default_focus_info
  foc_att,          \* rfi.foc_att
  dis_mode,         \* the mode in dis_info_hid_map of a controller, None for a null pointer
  ctrl_infos,       \* grabbing and pointing of a controller
  held,             \* the buttons that are held down
  phase, hid, e,    \* the dispatch in progress, its controller and event
  todo,             \* objects dispatch_recursive has still to visit
  asked             \* history: the objects that were asked to handle e

world_vars == <<focus, default_config, objs, ignored, foc_info, foc_att>>
event_vars == <<hid, e>>
scene_vars == <<world_vars, event_vars, held, dis_mode, ctrl_infos, phase, todo, asked>>

Unattached == [level |-> "none"]
AtHid(h) == [level |-> "hid", hid |-> h]
AtKit(h) == [level |-> "kit", kit |-> KitOf(h)]

SceneInit ==
  /\ FocusInit
  /\ default_config = Default
  /\ objs = [o \in Objects |-> [state |-> "idle", hid |-> None, saved |-> Default]]
  /\ ignored = {}
  /\ foc_info = Unattached /\ foc_att = Unattached
  /\ dis_mode = [h \in Hids |-> None]
  /\ ctrl_infos \in [Hids -> {{"grabbing", "pointing"}}]
  /\ held = [h \in Hids |-> {}]
  /\ phase = "idle" /\ hid = None /\ e = Pose
  /\ todo = <<>> /\ asked = {}
--------------------------------------------------------------------------------
\* Operators on the state that attach_focus, detach_focus and handle change.
World == [focus |-> focus, default_config |-> default_config, objs |-> objs,
          ignored |-> ignored, info |-> foc_info, att |-> foc_att]

Become(w) ==
  /\ focus' = w.focus /\ default_config' = w.default_config /\ objs' = w.objs
  /\ ignored' = w.ignored /\ foc_info' = w.info /\ foc_att' = w.att

\* The entry an attachment denotes, and *rfi.foc_info_ptr.
EntryAt(f, att) ==
  CASE att.level = "hid" -> f.hids[att.hid]
    [] att.level = "kit" -> f.kits[att.kit]
    [] OTHER             -> None

Info(w) ==
  LET x == EntryAt(w.focus, w.info)
  IN IF x = None THEN [object |-> None, config |-> w.default_config] ELSE x
Config == Info(World).config
InFocus == Info(World).object

\* The objects in L lose focus on an event of h.  The hid_id of an idle object is not
\* read before it is set again.
Notify(w, L, h) ==
  LET listening == {o \in L : Listens(Kind[o], w.objs[o].state, w.objs[o].hid = h)}
  IN [w EXCEPT !.objs = [o \in Objects |-> IF o \in listening THEN [@[o] EXCEPT !.state = "idle", !.hid = None] ELSE @[o]],
               !.ignored = @ \cup {o \in L \ listening : w.objs[o].state # "idle"}]

\* The holders of attachments that one for the controllers in S to kit k excludes.
Holders(f, S, k) ==
  {x.object : x \in ({f.hids[h] : h \in S} \cup {f.kits[k], f.all}) \ {None}}

\* attach_focus, whose last line is executed when the object refuses, too.
Attach(w, rfa, att, o, c, h, mode) ==
  LET ob == w.objs[o]
      S == IF att.level = "hid" THEN {h} ELSE {x \in Hids : KitOf(x) = KitOf(h)}
      told == Notify([w EXCEPT !.objs[o].state = AttachedState(Kind[o], ob.state, rfa, mode),
                               !.objs[o].hid = h, !.ignored = @ \ {o}],
                     Holders(w.focus, S, KitOf(h)), h)
      entry == [object |-> o, config |-> c]
  IN IF Accepts(Kind[o], ob.state, rfa, mode)
     THEN [told EXCEPT !.focus = IF att.level = "hid" THEN AttachedHid(@, h, entry)
                                                      ELSE AttachedKit(@, att.kit, entry),
                       !.info = att, !.att = att]
     ELSE [w EXCEPT !.att = att]

\* Mutant of Detach: the object is not told.
SilentDetach(w, att, o, h) ==
  LET x == EntryAt(w.focus, att)
  IN IF x # None /\ x.object = o
     THEN [w EXCEPT !.focus = Detached(@, att, o), !.info = Unattached, !.att = Unattached]
     ELSE [w EXCEPT !.att = Unattached]

\* Mutant of Detach: foc_info_ptr is left as it is.
StaleDetach(w, att, o, h) ==
  LET x == EntryAt(w.focus, att)
  IN IF x # None /\ x.object = o
     THEN [Notify(w, {o}, h) EXCEPT !.focus = Detached(@, att, o), !.att = Unattached]
     ELSE [w EXCEPT !.att = Unattached]

\* detach_focus of object o.
Detach(w, att, o, h) ==
  LET x == EntryAt(w.focus, att)
  IN IF x # None /\ x.object = o
     THEN [Notify(w, {o}, h) EXCEPT !.focus = Detached(@, att, o), !.info = Unattached, !.att = Unattached]
     ELSE [w EXCEPT !.att = Unattached]

\* A new configuration for *rfi.foc_info_ptr, whoever the object is.
Rewritten(w, c) ==
  CASE w.info.level = "hid" -> [w EXCEPT !.focus.hids[w.info.hid].config = c]
    [] w.info.level = "kit" -> [w EXCEPT !.focus.kits[w.info.kit].config = c]
    [] OTHER                -> [w EXCEPT !.default_config = c]

\* dispath_with_focus_update for an object with answer a: the request is that of
\* the object asked, and it is carried out on the object in focus.
Requested(w, o, a, h) ==
  LET c == Info(w).config
      moved == [w EXCEPT !.objs[o].state = a.state]
  IN CASE a.request = "begin"  -> Rewritten([moved EXCEPT !.objs[o].saved = c], DragConfig(c, a.what))
       [] a.request = "end"    -> Rewritten(moved, w.objs[o].saved)
       [] a.request = "detach" -> Detach(moved, IF w.att.level = a.what THEN w.att ELSE Unattached, o, h)
       [] OTHER                -> moved

\* Every answer of an object; none of a null pointer.
Asked(w, o, mode) ==
  IF o = None THEN {[handled |-> FALSE, world |-> w]}
  ELSE {[handled |-> a.handled, world |-> Requested(w, o, a, hid)] :
          a \in Answers(Kind[o], w.objs[o].state, w.objs[o].hid = hid, e, mode)}

\* dispatch returns: its locals are gone.
Return(w) ==
  /\ Become([w EXCEPT !.info = Unattached, !.att = Unattached])
  /\ phase' = "idle" /\ hid' = None /\ e' = Pose /\ todo' = <<>> /\ asked' = {}
  /\ UNCHANGED <<held, ctrl_infos>>

\* Object o is asked in w; next is the phase that follows when it does not handle e,
\* and rest what is to visit then.
Ask(w, o, mode, next, rest) ==
  \E r \in Asked(w, o, mode) :
    \/ /\ r.handled
       /\ dis_mode' = [dis_mode EXCEPT ![hid] = mode]
       /\ Return(r.world)
    \/ /\ ~r.handled
       /\ Become(r.world)
       /\ phase' = next /\ todo' = rest /\ asked' = asked \cup ({o} \ {None})
       /\ UNCHANGED <<event_vars, held, dis_mode, ctrl_infos>>

Goto(p) == phase' = p /\ UNCHANGED <<event_vars, held, dis_mode, ctrl_infos, todo, asked>>
--------------------------------------------------------------------------------
\* The head of dispatch.  Attachments to everything are not made by these objects.
Event(h, ev) ==
  /\ phase = "idle"
  /\ CASE ev.do = "press"   -> ev.button \in Buttons[h] \ held[h]
       [] ev.do = "release" -> ev.button \in held[h]
       [] OTHER             -> TRUE
  /\ held' = [held EXCEPT ![h] = CASE ev.do = "press"   -> @ \cup {ev.button}
                                   [] ev.do = "release" -> @ \ {ev.button}
                                   [] OTHER             -> @]
  /\ LET ref == CASE focus.kits[KitOf(h)] # None -> AtKit(h)
                  [] focus.kits[KitOf(h)] = None /\ focus.hids[h] # None -> AtHid(h)
                  [] OTHER -> Unattached
     IN foc_info' = ref /\ foc_att' = ref
  /\ hid' = h /\ e' = ev
  /\ phase' = "grab"
  /\ UNCHANGED <<focus, default_config, objs, ignored, dis_mode, ctrl_infos, todo, asked>>

\* wants_to_grab_recursive finds a screen; it may not want the focus as the kit is
\* not tracked or the screen is not enabled.
Grab(o) ==
  /\ phase = "grab" /\ "grab" \in Config
  /\ Kind[o] = "screen" /\ objs[o].state = "idle" /\ e = Press("menu")
  /\ Become(Attach(World, "grab", AtKit(hid), o, PlaceConfig(Config), hid, "none"))
  /\ Goto("spatial")

NoGrab == phase = "grab" /\ Goto("spatial") /\ UNCHANGED world_vars

\* dispatch_spatial is not called, or returns without looking at objects.
Intersect == "pointing" \in Config /\ "pointing" \in ctrl_infos[hid]
Approach == "proximity" \in Config /\ "grabbing" \in ctrl_infos[hid]

NoSpatial ==
  /\ phase = "spatial"
  /\ \/ "spatial" \notin Config
     \/ e = Pose /\ ~Intersect /\ ~Approach
     \/ e # Pose /\ dis_mode[hid] = None
  /\ Goto("focus") /\ UNCHANGED world_vars

\* A button goes to the object in focus with the last mode of dispatch.
SpatialButton ==
  /\ phase = "spatial" /\ "spatial" \in Config
  /\ e # Pose /\ dis_mode[hid] # None
  /\ Ask(World, InFocus, dis_mode[hid], "roots", <<>>)

\* A pose without spatial refocusing.
SpatialPose ==
  /\ phase = "spatial" /\ "spatial" \in Config /\ "respatial" \notin Config
  /\ e = Pose
  /\ \/ Approach /\ Ask(World, InFocus, "proximity", "roots", <<>>)
     \/ Intersect /\ Ask(World, InFocus, "pointing", "roots", <<>>)

\* A pose that moves the focus to what it hits, target in mode, or away from it.
Hits ==
  {[mode |-> "none", target |-> None, rfa |-> "none"]}
    \cup [mode : {m \in {"proximity"} : Approach}, rfa : {"proximity"},
          target : {o \in Objects : grabbable(Kind[o])}]
    \cup [mode : {m \in {"pointing"} : Intersect}, rfa : {"intersection"},
          target : {o \in Objects : pointable(Kind[o])}]

\* All three kinds accept another primitive (index_change): a hit on the object in
\* focus leaves it there.
Refocused(w, hit) ==
  LET freed == IF Info(w).object # None THEN Detach(w, w.att, Info(w).object, hid) ELSE w
  IN IF hit.target = Info(w).object THEN w
     ELSE IF hit.target = None THEN freed
     ELSE Attach(freed, hit.rfa, AtHid(hid), hit.target, w.default_config, hid, hit.mode)

SpatialRefocus ==
  /\ phase = "spatial" /\ {"spatial", "respatial"} \subseteq Config
  /\ e = Pose /\ (Intersect \/ Approach)
  /\ \E hit \in Hits :
       LET w == Refocused(World, hit) IN Ask(w, Info(w).object, hit.mode, "roots", <<>>)

\* The object in focus, and then its children.
DispatchFocus ==
  /\ phase = "focus" /\ InFocus # None
  /\ Ask(World, InFocus, "focus", "kids",
         IF "recursive" \in Config THEN Children[InFocus] ELSE <<>>)

NoFocus == phase = "focus" /\ InFocus = None /\ Goto("roots") /\ UNCHANGED world_vars

\* The structural traversal of all roots, that of the object in focus first.
FirstRoot == IF InFocus = None THEN 1 ELSE CHOOSE i \in DOMAIN Roots : InHierarchy(InFocus, Roots[i])
Hierarchies ==
  [i \in DOMAIN Roots |-> IF i = 1 THEN Roots[FirstRoot]
                          ELSE IF i <= FirstRoot THEN Roots[i - 1] ELSE Roots[i]]

StartRoots ==
  /\ phase = "roots"
  /\ todo' = IF "structural" \in Config THEN Hierarchies ELSE <<>>
  /\ phase' = "structural"
  /\ UNCHANGED <<world_vars, event_vars, held, dis_mode, ctrl_infos, asked>>

\* Mutant of Skipped: the object in focus is asked again.
NeverSkipped(o) == FALSE

\* dispatch_recursive does not ask the object in focus.
Skipped(o) == o = InFocus

\* One call of dispatch_recursive.
VisitFocus ==
  /\ phase \in {"kids", "structural"} /\ todo # <<>> /\ Skipped(Head(todo))
  /\ todo' = (IF "recursive" \in Config THEN <<>> ELSE Children[Head(todo)]) \o Tail(todo)
  /\ UNCHANGED <<world_vars, event_vars, held, dis_mode, ctrl_infos, phase, asked>>

Visit ==
  /\ phase \in {"kids", "structural"} /\ todo # <<>> /\ ~Skipped(Head(todo))
  /\ Ask(World, Head(todo), IF phase = "kids" THEN "focus" ELSE "structural", phase,
         Children[Head(todo)] \o Tail(todo))

KidsDone == phase = "kids" /\ todo = <<>> /\ Goto("roots") /\ UNCHANGED world_vars

\* The event was not handled.
Unhandled ==
  /\ phase = "structural" /\ todo = <<>>
  /\ dis_mode' = [dis_mode EXCEPT ![hid] = "none"]
  /\ Return(World)

\* vr_scene::handle for the two mode buttons, with check_for_detach for pointing.
Toggle(h, what) ==
  /\ phase = "idle"
  /\ ctrl_infos' = [ctrl_infos EXCEPT ![h] = IF what \in @ THEN @ \ {what} ELSE @ \cup {what}]
  /\ Become(IF what = "pointing" /\ ctrl_infos'[h] = {}
            THEN [Notify(World, Holders(focus, {h}, KitOf(h)), h) EXCEPT !.focus = Checked(@, h)]
            ELSE World)
  /\ UNCHANGED <<event_vars, held, dis_mode, phase, todo, asked>>

Dispatch ==
  \/ \E o \in Objects : Grab(o)
  \/ NoGrab \/ NoSpatial \/ SpatialButton \/ SpatialPose \/ SpatialRefocus
  \/ DispatchFocus \/ NoFocus \/ StartRoots \/ VisitFocus \/ Visit \/ KidsDone \/ Unhandled

SceneNext ==
  \/ \E h \in Hids :
       \/ Event(h, Pose)
       \/ \E b \in Buttons[h] : Event(h, Press(b)) \/ Event(h, Release(b))
       \/ h \in Switched /\ \E what \in {"grabbing", "pointing"} : Toggle(h, what)
  \/ Dispatch

SceneSpec == SceneInit /\ [][SceneNext]_scene_vars
--------------------------------------------------------------------------------
\* During a dispatch foc_info_ptr is the default focus or points to an entry that
\* is in the map: no attachment made or ended on the way leaves it dangling, which
\* a test does not see as the memory of an erased entry keeps its content.
FocusPointerValid == phase # "idle" /\ foc_info # Unattached => EntryAt(focus, foc_info) # None

\* However often the focus moves while an event is dispatched - by a grab, by what
\* the pose hits, by requests - nobody who is to be asked was asked before.
HandledOnce ==
  /\ phase = "focus" => InFocus \notin asked
  /\ todo # <<>> /\ ~Skipped(Head(todo)) => Head(todo) \notin asked

\* A simple object or a screen with the focus of a controller listens to that one
\* and is not idle: accepting, storing hid_id and the entry go together.
HolderListens ==
  \A h \in Hids :
    LET x == focus.hids[h]
    IN x # None /\ Kind[x.object] # "table" => objs[x.object].hid = h /\ objs[x.object].state # "idle"

\* An object that is not idle has focus by its controller or the kit of that, except
\* for those that ignored that they lost it.
BusyHasFocus ==
  \A o \in Objects \ ignored :
    objs[o].state # "idle" =>
      \/ focus.hids[objs[o].hid] # None /\ focus.hids[objs[o].hid].object = o
      \/ focus.kits[KitOf(objs[o].hid)] # None /\ focus.kits[KitOf(objs[o].hid)].object = o

Dragged(o) == objs[o].state \in {"grabbed", "triggered", "drag"}

\* An object that is dragged keeps the focus of its controller until the screen grabs
\* the kit or the modes of the controller are switched off: moving the controller
\* over other objects neither takes it away nor passes it on to one of them.
DragKept ==
  [][\A h \in Hids :
       LET x == focus.hids[h]
       IN /\ x # None /\ Dragged(x.object) /\ objs[x.object].hid = h
          /\ focus'.hids[h] = None \/ focus'.hids[h].object # x.object
          => (phase = "grab" \/ ctrl_infos' # ctrl_infos
              \/ (Kind[x.object] = "screen" /\ e = Release("menu")))]_scene_vars

\* What drag_begin is for: the focus is reconfigured "on start of a drag operation such
\* that it is not lost during the operation" (focusable.h:125).
DragNotLost ==
  \A o \in Objects :
    Dragged(o) => LET x == focus.hids[objs[o].hid] IN x # None /\ x.object = o
================================================================================
