---------------------------------- MODULE Focus --------------------------------
(***************************************************************************)
(* The attachments of focus in class dispatcher (cg_nui/dispatcher.cxx)    *)
(* and the classification of input devices it rests on (cg_nui/hids.cxx).  *)
(* Any object may ask for focus at any level, on the occasion of any       *)
(* event.  Actions are built from operators on the record of the four      *)
(* containers, so that Scene can use them too.                             *)
(***************************************************************************)
EXTENDS Integers, FiniteSets

CONSTANTS
  Objects,     \* objects with the focusable interface
  Hids,        \* hid_identifiers: records [category, kit_ptr, index]
  Selections,  \* the hid_selections in use: sets of categories
  Configs,     \* focus_configurations
  None

Categories == {"keyboard", "mouse", "joystick", "gamepad", "hmd", "controller", "tracker"}

get_min_index(c) == IF c = "hmd" THEN -1 ELSE 0

get_max_index(c) ==
  CASE c \in {"keyboard", "gamepad"}               -> 1
    [] c \in {"mouse", "joystick", "controller"}   -> 3
    [] c = "hmd"                                   -> -1
    [] OTHER                                       -> 7

is_part_of_kit(c) == c \in {"keyboard", "mouse", "hmd", "controller", "tracker"}

get_kit_category(c) ==
  CASE c \in {"keyboard", "mouse"}            -> "keyboard_mouse"
    [] c \in {"hmd", "controller", "tracker"} -> "vr"
    [] OTHER                                  -> "none"

KitOf(h) == [category |-> get_kit_category(h.category), kit_ptr |-> h.kit_ptr]
Kits == {KitOf(h) : h \in {x \in Hids : is_part_of_kit(x.category)}}

\* hid_selection::contains, and overlaps for a kit category and for a selection,
\* which compares the flags of most categories by == .
contains(s, c) == c \in s
overlaps_kit(s, kc) == \E c \in s : get_kit_category(c) = kc /\ kc # "none"
overlaps(s, t) ==
  \/ s \cap t \cap {"keyboard", "mouse"} # {}
  \/ \E c \in Categories \ {"keyboard", "mouse"} : c \in s <=> c \in t

\* The loop of attach_focus over the devices of a kit, and the loop for a selection,
\* which stops one index early.
InKitLoop(h) == h.index \in get_min_index(h.category) .. get_max_index(h.category)
InSelectionLoop(h) == h.index \in get_min_index(h.category) .. get_max_index(h.category) - 1

\* Devices have the indices of their category; no entry is the empty one.
ASSUME FocusAssumption ==
  /\ Hids # {}
  /\ \A h \in Hids : h.category \in Categories /\ InKitLoop(h)
  /\ Selections \subseteq SUBSET Categories
  /\ None \notin [object : Objects, config : Configs]

\* focus_info of an attachment, and of one for a selection of categories.
Entries == [object : Objects, config : Configs]
CategoryEntries == [selection : Selections, object : Objects, config : Configs]

\* foc_att.  An attachment of level none stands for the default focus.
Attachments ==
  [level : {"hid"}, hid : Hids] \cup [level : {"kit"}, kit : Kits]
    \cup [level : {"category"}, selection : Selections] \cup [level : {"all"}]

FocusRecords ==
  [hids : [Hids -> Entries \cup {None}], kits : [Kits -> Entries \cup {None}],
   categories : SUBSET CategoryEntries, all : Entries \cup {None}]

VARIABLE focus     \* the attachments: a record of the four containers

FocusInit ==
  focus = [hids       |-> [h \in Hids |-> None],   \* focus_hid_map
           kits       |-> [k \in Kits |-> None],   \* focus_kit_map
           categories |-> {},                      \* focus_category_attachments
           all        |-> None]                    \* focus_all_attachment
--------------------------------------------------------------------------------
\* Mutant of AttachedHid: the kit keeps its focus.
KeepKitAttachedHid(f, h, e) ==
  [hids |-> [f.hids EXCEPT ![h] = e], kits |-> f.kits,
   categories |-> {a \in f.categories : ~contains(a.selection, h.category)}, all |-> None]

\* attach_focus at level hid, when the object accepts.
AttachedHid(f, h, e) ==
  [hids       |-> [f.hids EXCEPT ![h] = e],
   kits       |-> [k \in Kits |-> IF is_part_of_kit(h.category) /\ k = KitOf(h) THEN None ELSE f.kits[k]],
   categories |-> {a \in f.categories : ~contains(a.selection, h.category)},
   all        |-> None]

\* Mutant of AttachedKit: the loop over the indices stops one early.
ShortAttachedKit(f, k, e) ==
  [hids |-> [h \in Hids |-> IF KitOf(h) = k /\ InSelectionLoop(h) THEN None ELSE f.hids[h]],
   kits |-> [f.kits EXCEPT ![k] = e],
   categories |-> {a \in f.categories : ~overlaps_kit(a.selection, k.category)}, all |-> None]

AttachedKit(f, k, e) ==
  [hids       |-> [h \in Hids |-> IF KitOf(h) = k /\ InKitLoop(h) THEN None ELSE f.hids[h]],
   kits       |-> [f.kits EXCEPT ![k] = e],
   categories |-> {a \in f.categories : ~overlaps_kit(a.selection, k.category)},
   all        |-> None]

\* Level category.  The kit pointer p of the devices that are looked for is read
\* from the union that holds the selection.
AttachedCategory(f, s, e, p) ==
  [hids       |-> [h \in Hids |-> IF contains(s, h.category) /\ h.kit_ptr = p /\ InSelectionLoop(h)
                                  THEN None ELSE f.hids[h]],
   kits       |-> [k \in Kits |-> IF \E c \in s : get_kit_category(c) = k.category
                                  THEN None ELSE f.kits[k]],
   categories |-> {a \in f.categories : ~overlaps(a.selection, s)}
                    \cup {[selection |-> s, object |-> e.object, config |-> e.config]},
   all        |-> None]

AttachedAll(f, e) ==
  [hids |-> [h \in Hids |-> None], kits |-> [k \in Kits |-> None], categories |-> {}, all |-> e]

\* What attach_focus may make of f.
AttachedTo(f, att, e) ==
  CASE att.level = "hid"      -> {AttachedHid(f, att.hid, e)}
    [] att.level = "kit"      -> {AttachedKit(f, att.kit, e)}
    [] att.level = "category" ->
         {AttachedCategory(f, att.selection, e, p) : p \in {h.kit_ptr : h \in Hids} \cup {None}}
    [] att.level = "all"      -> {AttachedAll(f, e)}

Freed(entry, o) == IF entry # None /\ entry.object = o THEN None ELSE entry

\* detach_focus for object o.
Detached(f, att, o) ==
  CASE att.level = "hid"      -> [f EXCEPT !.hids[att.hid] = Freed(@, o)]
    [] att.level = "kit"      -> [f EXCEPT !.kits[att.kit] = Freed(@, o)]
    [] att.level = "category" ->
         [f EXCEPT !.categories = {a \in @ : ~(overlaps(a.selection, att.selection) /\ a.object = o)}]
    [] att.level = "all"      -> [f EXCEPT !.all = Freed(@, o)]
    [] OTHER                  -> f

WithConfig(entry, o, c) ==
  IF entry # None /\ entry.object = o THEN [entry EXCEPT !.config = c] ELSE entry

\* reconfigure, which changes a copy of the entry of a category selection.
Reconfigured(f, att, o, c) ==
  CASE att.level = "hid" -> [f EXCEPT !.hids[att.hid] = WithConfig(@, o, c)]
    [] att.level = "kit" -> [f EXCEPT !.kits[att.kit] = WithConfig(@, o, c)]
    [] att.level = "all" -> [f EXCEPT !.all = WithConfig(@, o, c)]
    [] OTHER             -> f

\* check_for_detach of vr_scene, for a device of a kit.
Checked(f, h) == [f EXCEPT !.hids[h] = None, !.kits[KitOf(h)] = None]
--------------------------------------------------------------------------------
\* The object accepts; an attachment that is refused changes nothing here.
AttachFocus(o, att, c) == focus' \in AttachedTo(focus, att, [object |-> o, config |-> c])

DetachFocus(o, att) == focus' = Detached(focus, att, o)

\* A request in handle to let one attachment go and get another.
Reattach(o, from, to, c) ==
  focus' \in AttachedTo(Detached(focus, from, o), to, [object |-> o, config |-> c])

Reconfigure(o, att, c) == focus' = Reconfigured(focus, att, o, c)

CheckForDetach(h) == is_part_of_kit(h.category) /\ focus' = Checked(focus, h)

FocusNext ==
  \/ \E o \in Objects, att \in Attachments :
       \/ DetachFocus(o, att)
       \/ \E c \in Configs :
            \/ AttachFocus(o, att, c)
            \/ Reconfigure(o, att, c)
            \/ \E from \in Attachments : Reattach(o, from, att, c)
  \/ \E h \in Hids : CheckForDetach(h)

FocusSpec == FocusInit /\ [][FocusNext]_focus
--------------------------------------------------------------------------------
\* The containers hold what they are declared to hold.
FocusTypeOK == focus \in FocusRecords

AllIsAlone(f) ==
  f.all # None => /\ \A h \in Hids : f.hids[h] = None
                  /\ \A k \in Kits : f.kits[k] = None
                  /\ f.categories = {}
KitExcludesHids(f) ==
  \A h \in Hids : is_part_of_kit(h.category) /\ f.kits[KitOf(h)] # None => f.hids[h] = None
KitExcludesCategories(f) ==
  \A k \in Kits, a \in f.categories : f.kits[k] # None => ~overlaps_kit(a.selection, k.category)
CategoriesDisjoint(f) ==
  \A a, b \in f.categories : a = b \/ a.selection \cap b.selection = {}

\* "manages non overlapping attachment of focus to hids" (dispatcher.h): whatever
\* objects ask for in whatever order, an attachment to everything is the only one,
\* one to a kit excludes those to its devices and to selections with a category of
\* the kit, and selections are disjoint.  That a selection excludes the devices of
\* its categories is not among it: attach_focus does not find them.
Separate(f) ==
  /\ AllIsAlone(f) /\ KitExcludesHids(f) /\ KitExcludesCategories(f) /\ CategoriesDisjoint(f)
Separated == Separate(focus)

\* The grants that attachments to devices, kits and everything are.
KitScope(k) == {h \in Hids : is_part_of_kit(h.category) /\ KitOf(h) = k}
GrantsOf(f) ==
  {[scope |-> {h}, to |-> f.hids[h].object] : h \in {x \in Hids : f.hids[x] # None}}
    \cup {[scope |-> KitScope(k), to |-> f.kits[k].object] : k \in {x \in Kits : f.kits[x] # None}}
    \cup (IF f.all = None THEN {} ELSE {[scope |-> Hids, to |-> f.all.object]})

Abstract == INSTANCE AbstractFocus WITH grants <- GrantsOf(focus)

\* Focus passes from one object to another exactly as the overlap of devices
\* demands, over all levels: nobody loses a device to an attachment that does not
\* cover it.  Attachments to selections may end grants and are none.
ImplementsFocus == Abstract!Spec
================================================================================
