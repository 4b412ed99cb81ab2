----------------------------- MODULE Scene_proofs ------------------------------
(***************************************************************************)
(* For any scene of the three classes of objects, any number of kits and   *)
(* controllers, and whatever is hit: through all phases of a dispatch the  *)
(* focus pointer is valid, attachments are separated, and objects and      *)
(* attachments agree on who has the focus.                                 *)
(***************************************************************************)
EXTENDS Scene, SequencesExt, TLAPS

--------------------------------------------------------------------------------
\* The attachments of focus are separated for any devices, selections, objects and
\* configurations, and every step is a step of AbstractFocus.
\* The record of a focus that is typed and separated.
Good(f) == f \in FocusRecords /\ Separate(f)

\* Attaching to a device keeps the focus typed and separated.
LEMMA HidKeeps ==
  ASSUME NEW f, Good(f), NEW h \in Hids, NEW en \in Entries
  PROVE  Good(AttachedHid(f, h, en))
<1> DEFINE g == AttachedHid(f, h, en)
<1>1. f \in FocusRecords /\ Separate(f)
  BY DEF Good
<1>2. g \in FocusRecords
  BY <1>1 DEF AttachedHid, FocusRecords
<1>3. AllIsAlone(g)
  BY DEF AttachedHid, AllIsAlone
<1>4. KitExcludesHids(g)
  <2> SUFFICES ASSUME NEW x \in Hids, is_part_of_kit(x.category), g.kits[KitOf(x)] # None
               PROVE  g.hids[x] = None
    BY DEF KitExcludesHids
  <2>1. KitOf(x) \in Kits
    BY DEF Kits
  <2>2. ~(is_part_of_kit(h.category) /\ KitOf(x) = KitOf(h)) /\ f.kits[KitOf(x)] # None
    BY <2>1 DEF AttachedHid
  <2>3. x # h
    BY <2>2
  <2>4. f.hids[x] = None
    BY <1>1, <2>2 DEF Separate, KitExcludesHids
  <2>5. g.hids[x] = f.hids[x]
    BY <1>1, <2>3 DEF AttachedHid, FocusRecords
  <2> QED BY <2>4, <2>5
<1>5. KitExcludesCategories(g)
  <2> SUFFICES ASSUME NEW k \in Kits, NEW a \in g.categories, g.kits[k] # None
               PROVE  ~overlaps_kit(a.selection, k.category)
    BY DEF KitExcludesCategories
  <2>1. f.kits[k] # None /\ a \in f.categories
    BY DEF AttachedHid
  <2> QED BY <1>1, <2>1 DEF Separate, KitExcludesCategories
<1>6. CategoriesDisjoint(g)
  BY <1>1 DEF AttachedHid, Separate, CategoriesDisjoint
<1> QED BY <1>2, <1>3, <1>4, <1>5, <1>6 DEF Good, Separate

\* Attaching to a kit.
LEMMA KitKeeps ==
  ASSUME NEW f, Good(f), NEW k \in Kits, NEW en \in Entries
  PROVE  Good(AttachedKit(f, k, en))
<1> DEFINE g == AttachedKit(f, k, en)
<1>1. f \in FocusRecords /\ Separate(f)
  BY DEF Good
<1>2. g \in FocusRecords
  BY <1>1 DEF AttachedKit, FocusRecords
<1>3. AllIsAlone(g)
  BY DEF AttachedKit, AllIsAlone
<1>4. KitExcludesHids(g)
  <2> SUFFICES ASSUME NEW x \in Hids, is_part_of_kit(x.category), g.kits[KitOf(x)] # None
               PROVE  g.hids[x] = None
    BY DEF KitExcludesHids
  <2>1. g.hids[x] = IF KitOf(x) = k /\ InKitLoop(x) THEN None ELSE f.hids[x]
    BY DEF AttachedKit
  <2>2. InKitLoop(x)
    BY FocusAssumption
  <2>3. CASE KitOf(x) = k
    BY <2>1, <2>2, <2>3
  <2>4. CASE KitOf(x) # k
    <3>1. g.kits[KitOf(x)] = f.kits[KitOf(x)]
      BY <1>1, <2>4 DEF AttachedKit, FocusRecords
    <3> QED BY <1>1, <2>1, <2>4, <3>1 DEF Separate, KitExcludesHids
  <2> QED BY <2>3, <2>4
<1>5. KitExcludesCategories(g)
  <2> SUFFICES ASSUME NEW m \in Kits, NEW a \in g.categories, g.kits[m] # None
               PROVE  ~overlaps_kit(a.selection, m.category)
    BY DEF KitExcludesCategories
  <2>1. a \in f.categories /\ ~overlaps_kit(a.selection, k.category)
    BY DEF AttachedKit
  <2>2. CASE m = k
    BY <2>1, <2>2
  <2>3. CASE m # k
    <3>1. f.kits[m] # None
      BY <1>1, <2>3 DEF AttachedKit, FocusRecords
    <3> QED BY <1>1, <2>1, <3>1 DEF Separate, KitExcludesCategories
  <2> QED BY <2>2, <2>3
<1>6. CategoriesDisjoint(g)
  BY <1>1 DEF AttachedKit, Separate, CategoriesDisjoint
<1> QED BY <1>2, <1>3, <1>4, <1>5, <1>6 DEF Good, Separate

\* The comparison of flags finds every selection that has a category in common.
LEMMA OverlapFound ==
  ASSUME NEW s \in SUBSET Categories, NEW t \in SUBSET Categories, ~overlaps(s, t)
  PROVE  s \cap t = {}
  BY DEF overlaps

\* Attaching to a selection, whatever the union yields for the kit pointer.
LEMMA CategoryKeeps ==
  ASSUME NEW f, Good(f), NEW s \in Selections, NEW en \in Entries, NEW p
  PROVE  Good(AttachedCategory(f, s, en, p))
<1> DEFINE g == AttachedCategory(f, s, en, p)
           new == [selection |-> s, object |-> en.object, config |-> en.config]
<1>1. f \in FocusRecords /\ Separate(f)
  BY DEF Good
<1>2. new \in CategoryEntries
  BY DEF Entries, CategoryEntries
<1>3. g \in FocusRecords
  BY <1>1, <1>2 DEF AttachedCategory, FocusRecords
<1>4. AllIsAlone(g)
  BY DEF AttachedCategory, AllIsAlone
<1>5. KitExcludesHids(g)
  <2> SUFFICES ASSUME NEW x \in Hids, is_part_of_kit(x.category), g.kits[KitOf(x)] # None
               PROVE  g.hids[x] = None
    BY DEF KitExcludesHids
  <2>1. KitOf(x) \in Kits
    BY DEF Kits
  <2>2. f.kits[KitOf(x)] # None
    BY <2>1 DEF AttachedCategory
  <2>3. f.hids[x] = None
    BY <1>1, <2>2 DEF Separate, KitExcludesHids
  <2> QED BY <2>3 DEF AttachedCategory
<1>6. KitExcludesCategories(g)
  <2> SUFFICES ASSUME NEW k \in Kits, NEW a \in g.categories, g.kits[k] # None
               PROVE  ~overlaps_kit(a.selection, k.category)
    BY DEF KitExcludesCategories
  <2>1. f.kits[k] # None /\ ~ \E c \in s : get_kit_category(c) = k.category
    BY DEF AttachedCategory
  <2>2. CASE a = new
    BY <2>1, <2>2 DEF overlaps_kit
  <2>3. CASE a \in f.categories
    BY <1>1, <2>1, <2>3 DEF Separate, KitExcludesCategories
  <2> QED BY <2>2, <2>3 DEF AttachedCategory
<1>7. CategoriesDisjoint(g)
  <2> SUFFICES ASSUME NEW a \in g.categories, NEW b \in g.categories, a # b
               PROVE  a.selection \cap b.selection = {}
    BY DEF CategoriesDisjoint
  <2>1. \A x \in g.categories : x = new \/ (x \in f.categories /\ ~overlaps(x.selection, s))
    BY DEF AttachedCategory
  <2>2. \A x \in f.categories : x.selection \in SUBSET Categories
    BY <1>1, FocusAssumption DEF FocusRecords, CategoryEntries
  <2>3. s \in SUBSET Categories
    BY FocusAssumption
  <2>4. \A x \in f.categories : ~overlaps(x.selection, s) => x.selection \cap s = {}
    BY <2>2, <2>3, OverlapFound
  <2>5. CASE a = new
    BY <2>1, <2>4, <2>5
  <2>6. CASE b = new
    BY <2>1, <2>4, <2>6
  <2>7. CASE a # new /\ b # new
    BY <1>1, <2>1, <2>7 DEF Separate, CategoriesDisjoint
  <2> QED BY <2>5, <2>6, <2>7
<1> QED BY <1>3, <1>4, <1>5, <1>6, <1>7 DEF Good, Separate

\* Attaching to everything.
LEMMA AllKeeps ==
  ASSUME NEW f, NEW en \in Entries
  PROVE  Good(AttachedAll(f, en))
<1>1. AttachedAll(f, en) \in FocusRecords
  BY DEF AttachedAll, FocusRecords
<1>2. \A k \in Kits : AttachedAll(f, en).kits[k] = None
  BY DEF AttachedAll
<1>3. \A h \in Hids : AttachedAll(f, en).hids[h] = None
  BY DEF AttachedAll
<1>4. AttachedAll(f, en).categories = {}
  BY DEF AttachedAll
<1> QED BY <1>1, <1>2, <1>3, <1>4
        DEF Good, Separate, AllIsAlone, KitExcludesHids, KitExcludesCategories, CategoriesDisjoint

\* attach_focus at any level.
LEMMA AttachKeeps ==
  ASSUME NEW f, Good(f), NEW att \in Attachments, NEW en \in Entries, NEW g \in AttachedTo(f, att, en)
  PROVE  Good(g)
<1>1. CASE att.level = "hid"
  <2>1. att.hid \in Hids /\ g = AttachedHid(f, att.hid, en)
    BY <1>1 DEF Attachments, AttachedTo
  <2> QED BY <2>1, HidKeeps
<1>2. CASE att.level = "kit"
  <2>1. att.kit \in Kits /\ g = AttachedKit(f, att.kit, en)
    BY <1>2 DEF Attachments, AttachedTo
  <2> QED BY <2>1, KitKeeps
<1>3. CASE att.level = "category"
  <2>1. att.selection \in Selections /\ \E p : g = AttachedCategory(f, att.selection, en, p)
    BY <1>3 DEF Attachments, AttachedTo
  <2> QED BY <2>1, CategoryKeeps
<1>4. CASE att.level = "all"
  <2>1. g = AttachedAll(f, en)
    BY <1>4 DEF AttachedTo
  <2> QED BY <2>1, AllKeeps
<1> QED BY <1>1, <1>2, <1>3, <1>4 DEF Attachments

\* A record whose attachments are among those of f, at every place.
Fewer(g, f) ==
  /\ \A h \in Hids : g.hids[h] \in {f.hids[h], None}
  /\ \A k \in Kits : g.kits[k] \in {f.kits[k], None}
  /\ g.categories \subseteq f.categories
  /\ g.all \in {f.all, None}

\* Taking attachments away, or changing them in place, separates no less.
LEMMA FewerKeeps ==
  ASSUME NEW f, Good(f), NEW g \in FocusRecords, Fewer(g, f)
  PROVE  Good(g)
<1>1. \A h \in Hids : is_part_of_kit(h.category) => KitOf(h) \in Kits
  BY DEF Kits
<1>2. f \in FocusRecords /\ Separate(f)
  BY DEF Good
<1>3. AllIsAlone(g)
  BY <1>2 DEF Fewer, Separate, AllIsAlone
<1>4. KitExcludesHids(g)
  BY <1>1, <1>2 DEF Fewer, Separate, KitExcludesHids
<1>5. KitExcludesCategories(g)
  BY <1>2 DEF Fewer, Separate, KitExcludesCategories
<1>6. CategoriesDisjoint(g)
  BY <1>2 DEF Fewer, Separate, CategoriesDisjoint
<1> QED BY <1>3, <1>4, <1>5, <1>6 DEF Good, Separate

\* detach_focus at any level.
LEMMA DetachFewer ==
  ASSUME NEW f \in FocusRecords, NEW att \in Attachments, NEW o
  PROVE  Detached(f, att, o) \in FocusRecords /\ Fewer(Detached(f, att, o), f)
<1>0. \A x : Freed(x, o) \in {x, None}
  BY DEF Freed
<1>1. CASE att.level = "hid"
  <2>1. att.hid \in Hids
    BY <1>1 DEF Attachments
  <2>2. Detached(f, att, o) = [f EXCEPT !.hids[att.hid] = Freed(@, o)]
    BY <1>1 DEF Detached
  <2> QED BY <1>0, <2>1, <2>2 DEF FocusRecords, Fewer
<1>2. CASE att.level = "kit"
  <2>1. att.kit \in Kits
    BY <1>2 DEF Attachments
  <2>2. Detached(f, att, o) = [f EXCEPT !.kits[att.kit] = Freed(@, o)]
    BY <1>2 DEF Detached
  <2> QED BY <1>0, <2>1, <2>2 DEF FocusRecords, Fewer
<1>3. CASE att.level = "category"
  <2>1. Detached(f, att, o) = [f EXCEPT !.categories =
          {a \in @ : ~(overlaps(a.selection, att.selection) /\ a.object = o)}]
    BY <1>3 DEF Detached
  <2> QED BY <2>1 DEF FocusRecords, Fewer
<1>4. CASE att.level = "all"
  <2>1. Detached(f, att, o) = [f EXCEPT !.all = Freed(@, o)]
    BY <1>4 DEF Detached
  <2> QED BY <1>0, <2>1 DEF FocusRecords, Fewer
<1> QED BY <1>1, <1>2, <1>3, <1>4 DEF Attachments

\* A new configuration leaves object and place of an entry alone.
LEMMA ConfigKept ==
  ASSUME NEW x \in Entries \cup {None}, NEW o, NEW c \in Configs
  PROVE  /\ WithConfig(x, o, c) \in Entries \cup {None}
         /\ WithConfig(x, o, c) = None <=> x = None
         /\ x # None => WithConfig(x, o, c).object = x.object
  BY FocusAssumption DEF WithConfig, Entries

\* Attachments at the same places, to the same objects.
Alike(g, f) ==
  /\ \A h \in Hids : /\ g.hids[h] = None <=> f.hids[h] = None
                     /\ f.hids[h] # None => g.hids[h].object = f.hids[h].object
  /\ \A k \in Kits : /\ g.kits[k] = None <=> f.kits[k] = None
                     /\ f.kits[k] # None => g.kits[k].object = f.kits[k].object
  /\ g.categories = f.categories
  /\ g.all = None <=> f.all = None
  /\ f.all # None => g.all.object = f.all.object

\* Changing configurations separates no less.
LEMMA AlikeKeeps ==
  ASSUME NEW f, Good(f), NEW g \in FocusRecords, Alike(g, f)
  PROVE  Good(g)
<1>1. \A h \in Hids : is_part_of_kit(h.category) => KitOf(h) \in Kits
  BY DEF Kits
<1>2. f \in FocusRecords /\ Separate(f)
  BY DEF Good
<1>3. AllIsAlone(g)
  BY <1>2 DEF Alike, Separate, AllIsAlone
<1>4. KitExcludesHids(g)
  BY <1>1, <1>2 DEF Alike, Separate, KitExcludesHids
<1>5. KitExcludesCategories(g)
  BY <1>2 DEF Alike, Separate, KitExcludesCategories
<1>6. CategoriesDisjoint(g)
  BY <1>2 DEF Alike, Separate, CategoriesDisjoint
<1> QED BY <1>3, <1>4, <1>5, <1>6 DEF Good, Separate

\* reconfigure.
LEMMA ReconfigureAlike ==
  ASSUME NEW f \in FocusRecords, NEW att \in Attachments, NEW o, NEW c \in Configs
  PROVE  Reconfigured(f, att, o, c) \in FocusRecords /\ Alike(Reconfigured(f, att, o, c), f)
<1>1. CASE att.level = "hid"
  <2>1. att.hid \in Hids
    BY <1>1 DEF Attachments
  <2>2. Reconfigured(f, att, o, c) = [f EXCEPT !.hids[att.hid] = WithConfig(@, o, c)]
    BY <1>1 DEF Reconfigured
  <2>3. f.hids[att.hid] \in Entries \cup {None}
    BY <2>1 DEF FocusRecords
  <2> QED BY <2>1, <2>2, <2>3, ConfigKept DEF FocusRecords, Alike
<1>2. CASE att.level = "kit"
  <2>1. att.kit \in Kits
    BY <1>2 DEF Attachments
  <2>2. Reconfigured(f, att, o, c) = [f EXCEPT !.kits[att.kit] = WithConfig(@, o, c)]
    BY <1>2 DEF Reconfigured
  <2>3. f.kits[att.kit] \in Entries \cup {None}
    BY <2>1 DEF FocusRecords
  <2> QED BY <2>1, <2>2, <2>3, ConfigKept DEF FocusRecords, Alike
<1>3. CASE att.level = "category"
  <2>1. Reconfigured(f, att, o, c) = f
    BY <1>3 DEF Reconfigured
  <2> QED BY <2>1 DEF Alike
<1>4. CASE att.level = "all"
  <2>1. Reconfigured(f, att, o, c) = [f EXCEPT !.all = WithConfig(@, o, c)]
    BY <1>4 DEF Reconfigured
  <2> QED BY <2>1, ConfigKept DEF FocusRecords, Alike
<1> QED BY <1>1, <1>2, <1>3, <1>4 DEF Attachments

\* check_for_detach.
LEMMA CheckFewer ==
  ASSUME NEW f \in FocusRecords, NEW h \in Hids, is_part_of_kit(h.category)
  PROVE  Checked(f, h) \in FocusRecords /\ Fewer(Checked(f, h), f)
<1>1. KitOf(h) \in Kits
  BY DEF Kits
<1> QED BY <1>1 DEF Checked, FocusRecords, Fewer

\* A step takes attachments away, attaches, does both, or changes a configuration.
Step(f, g) ==
  \/ \E o \in Objects, att \in Attachments, c \in Configs :
       \/ g \in AttachedTo(f, att, [object |-> o, config |-> c])
       \/ \E from \in Attachments :
            g \in AttachedTo(Detached(f, from, o), att, [object |-> o, config |-> c])
  \/ g \in FocusRecords /\ (Fewer(g, f) \/ Alike(g, f))

\* Every action is such a step.
LEMMA StepForms ==
  ASSUME FocusTypeOK, FocusNext
  PROVE  Step(focus, focus')
<1> USE DEF FocusTypeOK
<1>1. ASSUME NEW o \in Objects, NEW att \in Attachments, DetachFocus(o, att)
      PROVE  Step(focus, focus')
  BY <1>1, DetachFewer DEF DetachFocus, Step
<1>2. ASSUME NEW o \in Objects, NEW att \in Attachments, NEW c \in Configs, AttachFocus(o, att, c)
      PROVE  Step(focus, focus')
  BY <1>2 DEF AttachFocus, Step
<1>3. ASSUME NEW o \in Objects, NEW att \in Attachments, NEW c \in Configs, Reconfigure(o, att, c)
      PROVE  Step(focus, focus')
  BY <1>3, ReconfigureAlike DEF Reconfigure, Step
<1>4. ASSUME NEW o \in Objects, NEW att \in Attachments, NEW c \in Configs,
             NEW from \in Attachments, Reattach(o, from, att, c)
      PROVE  Step(focus, focus')
  BY <1>4 DEF Reattach, Step
<1>5. ASSUME NEW h \in Hids, CheckForDetach(h)
      PROVE  Step(focus, focus')
  BY <1>5, CheckFewer DEF CheckForDetach, Step
<1> QED BY <1>1, <1>2, <1>3, <1>4, <1>5 DEF FocusNext

\* Every step keeps the focus typed and separated.
LEMMA StepKeeps ==
  ASSUME NEW f, Good(f), NEW g, Step(f, g)
  PROVE  Good(g)
<1> f \in FocusRecords
  BY DEF Good
<1>1. ASSUME NEW o \in Objects, NEW c \in Configs
      PROVE  [object |-> o, config |-> c] \in Entries
  BY DEF Entries
<1>2. ASSUME NEW o \in Objects, NEW att \in Attachments, NEW c \in Configs,
             g \in AttachedTo(f, att, [object |-> o, config |-> c])
      PROVE  Good(g)
  BY <1>1, <1>2, AttachKeeps
<1>3. ASSUME NEW o \in Objects, NEW att \in Attachments, NEW c \in Configs, NEW from \in Attachments,
             g \in AttachedTo(Detached(f, from, o), att, [object |-> o, config |-> c])
      PROVE  Good(g)
  <2>1. Good(Detached(f, from, o))
    BY DetachFewer, FewerKeeps
  <2> QED BY <1>1, <1>3, <2>1, AttachKeeps
<1>4. ASSUME g \in FocusRecords, Alike(g, f)
      PROVE  Good(g)
  BY <1>4, AlikeKeeps
<1> QED BY <1>2, <1>3, <1>4, FewerKeeps DEF Step

\* Attachments are always separated, for every set of devices, selections, objects
\* and configurations.
THEOREM FocusSeparated == FocusSpec => []Separated
<1> DEFINE Inv == Good(focus)
<1>1. FocusInit => Inv
  BY DEF FocusInit, Good, FocusRecords, Separate, AllIsAlone, KitExcludesHids,
         KitExcludesCategories, CategoriesDisjoint
<1>2. Inv /\ [FocusNext]_focus => Inv'
  <2> SUFFICES ASSUME Inv, [FocusNext]_focus
               PROVE  Inv'
    OBVIOUS
  <2>1. CASE FocusNext
    BY <2>1, StepForms, StepKeeps DEF FocusTypeOK, Good
  <2>2. CASE UNCHANGED focus
    BY <2>2
  <2> QED BY <2>1, <2>2
<1>3. Inv => Separated
  BY DEF Good, Separated
<1> QED BY <1>1, <1>2, <1>3, PTL DEF FocusSpec

\* The grants of f, one place at a time.
HasGrant(f, g) ==
  \/ \E h \in Hids : f.hids[h] # None /\ g = [scope |-> {h}, to |-> f.hids[h].object]
  \/ \E k \in Kits : f.kits[k] # None /\ g = [scope |-> KitScope(k), to |-> f.kits[k].object]
  \/ f.all # None /\ g = [scope |-> Hids, to |-> f.all.object]

\* Membership in the set of grants, without set constructors.
LEMMA GrantsMember ==
  ASSUME NEW f, NEW g
  PROVE  g \in GrantsOf(f) <=> HasGrant(f, g)
  BY DEF GrantsOf, HasGrant

\* Fewer attachments are fewer grants, and configurations are none of them.
LEMMA FewerGrants ==
  ASSUME NEW f, NEW g, Fewer(g, f)
  PROVE  GrantsOf(g) \subseteq GrantsOf(f)
<1> SUFFICES ASSUME NEW x, HasGrant(g, x)
             PROVE  HasGrant(f, x)
  BY GrantsMember
<1> QED BY DEF HasGrant, Fewer

\* Entries that differ in their configurations are the same grants.
LEMMA AlikeGrants ==
  ASSUME NEW f, NEW g, Alike(g, f)
  PROVE  GrantsOf(g) = GrantsOf(f)
<1>1. ASSUME NEW x
      PROVE  HasGrant(g, x) <=> HasGrant(f, x)
  BY DEF HasGrant, Alike
<1> QED BY <1>1, GrantsMember

\* The grants that a scope leaves, and the new one.
Regranted(f, o, S) ==
  {g \in GrantsOf(f) : g.scope \cap S = {}} \cup {[scope |-> S, to |-> o]}

\* A kit has a device, and kits have no device in common.
LEMMA KitScopes ==
  /\ \A k \in Kits : KitScope(k) # {} /\ KitScope(k) \subseteq Hids
  /\ \A k, m \in Kits : k # m => KitScope(k) \cap KitScope(m) = {}
  BY DEF Kits, KitScope

\* A focus for a device replaces the grants that hold the device.
LEMMA HidGrants ==
  ASSUME NEW f, Good(f), NEW h \in Hids, NEW en \in Entries
  PROVE  GrantsOf(AttachedHid(f, h, en)) = Regranted(f, en.object, {h})
<1> DEFINE g == AttachedHid(f, h, en)
<1>0. f \in FocusRecords /\ en # None
  BY FocusAssumption DEF Good, Entries
<1>1. /\ g.hids = [f.hids EXCEPT ![h] = en]
      /\ g.kits = [k \in Kits |-> IF is_part_of_kit(h.category) /\ k = KitOf(h) THEN None ELSE f.kits[k]]
      /\ g.all = None
  BY DEF AttachedHid
<1>2. g.hids[h] = en /\ \A x \in Hids : x # h => g.hids[x] = f.hids[x]
  BY <1>0, <1>1 DEF FocusRecords
<1>3. \A k \in Kits : h \in KitScope(k) <=> is_part_of_kit(h.category) /\ k = KitOf(h)
  BY DEF KitScope
<1>4. \A k \in Kits : g.kits[k] = IF h \in KitScope(k) THEN None ELSE f.kits[k]
  BY <1>1, <1>3
<1>5. ASSUME NEW x, HasGrant(g, x)
      PROVE  x \in Regranted(f, en.object, {h})
  <2>1. CASE \E y \in Hids : g.hids[y] # None /\ x = [scope |-> {y}, to |-> g.hids[y].object]
    <3>1. PICK y \in Hids : g.hids[y] # None /\ x = [scope |-> {y}, to |-> g.hids[y].object]
      BY <2>1
    <3>2. CASE y = h
      BY <1>2, <3>1, <3>2 DEF Regranted
    <3>3. CASE y # h
      <4>1. HasGrant(f, x) /\ x.scope \cap {h} = {}
        BY <1>2, <3>1, <3>3 DEF HasGrant
      <4> QED BY <4>1, GrantsMember DEF Regranted
    <3> QED BY <3>2, <3>3
  <2>2. CASE \E k \in Kits : g.kits[k] # None /\ x = [scope |-> KitScope(k), to |-> g.kits[k].object]
    <3>1. HasGrant(f, x) /\ x.scope \cap {h} = {}
      BY <1>4, <2>2 DEF HasGrant
    <3> QED BY <3>1, GrantsMember DEF Regranted
  <2> QED BY <1>1, <1>5, <2>1, <2>2 DEF HasGrant
<1>6. ASSUME NEW x, x \in Regranted(f, en.object, {h})
      PROVE  HasGrant(g, x)
  <2>1. CASE x = [scope |-> {h}, to |-> en.object]
    BY <1>0, <1>2, <2>1 DEF HasGrant
  <2>2. CASE HasGrant(f, x) /\ x.scope \cap {h} = {}
    <3>1. CASE \E y \in Hids : f.hids[y] # None /\ x = [scope |-> {y}, to |-> f.hids[y].object]
      <4>1. PICK y \in Hids : f.hids[y] # None /\ x = [scope |-> {y}, to |-> f.hids[y].object]
        BY <3>1
      <4>2. y # h
        BY <2>2, <4>1
      <4> QED BY <1>2, <4>1, <4>2 DEF HasGrant
    <3>2. CASE \E k \in Kits : f.kits[k] # None /\ x = [scope |-> KitScope(k), to |-> f.kits[k].object]
      BY <1>4, <2>2, <3>2 DEF HasGrant
    <3>3. CASE x = [scope |-> Hids, to |-> f.all.object]
      BY <2>2, <3>3
    <3> QED BY <2>2, <3>1, <3>2, <3>3 DEF HasGrant
  <2> QED BY <1>6, <2>1, <2>2, GrantsMember DEF Regranted
<1> QED BY <1>5, <1>6, GrantsMember

\* A focus for a kit replaces the grants that hold one of its devices.
LEMMA KitGrants ==
  ASSUME NEW f, Good(f), NEW k \in Kits, NEW en \in Entries
  PROVE  GrantsOf(AttachedKit(f, k, en)) = Regranted(f, en.object, KitScope(k))
<1> DEFINE g == AttachedKit(f, k, en)
<1>0. f \in FocusRecords /\ en # None
  BY FocusAssumption DEF Good, Entries
<1>1. /\ g.kits = [f.kits EXCEPT ![k] = en]
      /\ g.all = None
  BY DEF AttachedKit
<1>2. g.kits[k] = en /\ \A m \in Kits : m # k => g.kits[m] = f.kits[m]
  BY <1>0, <1>1 DEF FocusRecords
<1>3. \A h \in Hids : h \in KitScope(k) <=> KitOf(h) = k
  <2> SUFFICES ASSUME NEW h \in Hids, KitOf(h) = k
               PROVE  is_part_of_kit(h.category)
    BY DEF KitScope
  <2>1. h.category \in Categories
    BY FocusAssumption
  <2>2. PICK x \in Hids : is_part_of_kit(x.category) /\ k = KitOf(x)
    BY DEF Kits
  <2>3. get_kit_category(h.category) = get_kit_category(x.category)
    BY <2>2 DEF KitOf
  <2> QED BY <2>1, <2>2, <2>3 DEF is_part_of_kit, get_kit_category, Categories
<1>4. \A h \in Hids : g.hids[h] = IF h \in KitScope(k) THEN None ELSE f.hids[h]
  BY <1>3, FocusAssumption DEF AttachedKit
<1>5. ASSUME NEW x, HasGrant(g, x)
      PROVE  x \in Regranted(f, en.object, KitScope(k))
  <2>1. CASE \E m \in Kits : g.kits[m] # None /\ x = [scope |-> KitScope(m), to |-> g.kits[m].object]
    <3>1. PICK m \in Kits : g.kits[m] # None /\ x = [scope |-> KitScope(m), to |-> g.kits[m].object]
      BY <2>1
    <3>2. CASE m = k
      BY <1>2, <3>1, <3>2 DEF Regranted
    <3>3. CASE m # k
      <4>1. HasGrant(f, x) /\ x.scope \cap KitScope(k) = {}
        BY <1>2, <3>1, <3>3, KitScopes DEF HasGrant
      <4> QED BY <4>1, GrantsMember DEF Regranted
    <3> QED BY <3>2, <3>3
  <2>2. CASE \E y \in Hids : g.hids[y] # None /\ x = [scope |-> {y}, to |-> g.hids[y].object]
    <3>1. PICK y \in Hids : g.hids[y] # None /\ x = [scope |-> {y}, to |-> g.hids[y].object]
      BY <2>2
    <3>2. y \notin KitScope(k) /\ g.hids[y] = f.hids[y]
      BY <1>4, <3>1
    <3>3. HasGrant(f, x) /\ x.scope \cap KitScope(k) = {}
      BY <3>1, <3>2 DEF HasGrant
    <3> QED BY <3>3, GrantsMember DEF Regranted
  <2> QED BY <1>1, <1>5, <2>1, <2>2 DEF HasGrant
<1>6. ASSUME NEW x, x \in Regranted(f, en.object, KitScope(k))
      PROVE  HasGrant(g, x)
  <2>1. CASE x = [scope |-> KitScope(k), to |-> en.object]
    BY <1>0, <1>2, <2>1 DEF HasGrant
  <2>2. CASE HasGrant(f, x) /\ x.scope \cap KitScope(k) = {}
    <3>1. CASE \E m \in Kits : f.kits[m] # None /\ x = [scope |-> KitScope(m), to |-> f.kits[m].object]
      <4>1. PICK m \in Kits : f.kits[m] # None /\ x = [scope |-> KitScope(m), to |-> f.kits[m].object]
        BY <3>1
      <4>2. m # k
        BY <2>2, <4>1, KitScopes
      <4> QED BY <1>2, <4>1, <4>2 DEF HasGrant
    <3>2. CASE \E y \in Hids : f.hids[y] # None /\ x = [scope |-> {y}, to |-> f.hids[y].object]
      <4>1. PICK y \in Hids : f.hids[y] # None /\ x = [scope |-> {y}, to |-> f.hids[y].object]
        BY <3>2
      <4>2. y \notin KitScope(k)
        BY <2>2, <4>1
      <4>3. g.hids[y] = f.hids[y]
        BY <1>4, <4>2
      <4> QED BY <4>1, <4>3 DEF HasGrant
    <3>3. CASE x = [scope |-> Hids, to |-> f.all.object]
      BY <2>2, <3>3, KitScopes
    <3> QED BY <2>2, <3>1, <3>2, <3>3 DEF HasGrant
  <2> QED BY <1>6, <2>1, <2>2, GrantsMember DEF Regranted
<1> QED BY <1>5, <1>6, GrantsMember

\* A focus for everything replaces all grants.
LEMMA AllGrants ==
  ASSUME NEW f, Good(f), NEW en \in Entries
  PROVE  GrantsOf(AttachedAll(f, en)) = Regranted(f, en.object, Hids)
<1> DEFINE g == AttachedAll(f, en)
<1>1. en # None
  BY FocusAssumption DEF Entries
<1>2. /\ \A h \in Hids : g.hids[h] = None
      /\ \A k \in Kits : g.kits[k] = None
      /\ g.all = en
  BY DEF AttachedAll
<1>3. \A x : HasGrant(g, x) <=> x = [scope |-> Hids, to |-> en.object]
  BY <1>1, <1>2 DEF HasGrant
<1>4. \A x : HasGrant(f, x) => x.scope \cap Hids # {}
  BY KitScopes, FocusAssumption DEF HasGrant
<1> QED BY <1>3, <1>4, GrantsMember DEF Regranted

\* A focus for a selection ends grants and makes none.
LEMMA CategoryGrants ==
  ASSUME NEW f, NEW s, NEW en, NEW p
  PROVE  GrantsOf(AttachedCategory(f, s, en, p)) \subseteq GrantsOf(f)
<1> DEFINE g == AttachedCategory(f, s, en, p)
<1>1. /\ \A h \in Hids : g.hids[h] \in {f.hids[h], None}
      /\ \A k \in Kits : g.kits[k] \in {f.kits[k], None}
      /\ g.all = None
  BY DEF AttachedCategory
<1>2. \A x : HasGrant(g, x) => HasGrant(f, x)
  BY <1>1 DEF HasGrant
<1> QED BY <1>2, GrantsMember

\* attach_focus behind a detachment that gives up only what o has is a grant of
\* the abstract dispatcher, or none.
LEMMA AttachRefines ==
  ASSUME NEW o \in Objects, NEW att \in Attachments, NEW c \in Configs, NEW f, Good(f),
         GrantsOf(f) \subseteq GrantsOf(focus),
         \A g \in GrantsOf(focus) \ GrantsOf(f) : g.to = o,
         focus' \in AttachedTo(f, att, [object |-> o, config |-> c])
  PROVE  Abstract!Next
<1> DEFINE en == [object |-> o, config |-> c]
<1>1. en \in Entries /\ en.object = o
  BY DEF Entries
<1>2. ASSUME NEW S \in SUBSET Hids, GrantsOf(focus') = Regranted(f, o, S)
      PROVE  Abstract!Next
  <2> DEFINE G == GrantsOf(focus) \ GrantsOf(f)
  <2>1. G \in SUBSET {g \in GrantsOf(focus) : g.to = o} /\ GrantsOf(focus) \ G = GrantsOf(f)
    OBVIOUS
  <2>2. GrantsOf(focus') = {g \in GrantsOf(focus) \ G : g.scope \cap S = {}} \cup {[scope |-> S, to |-> o]}
    BY <1>2, <2>1 DEF Regranted
  <2> QED BY <2>1, <2>2 DEF Abstract!Next, Abstract!Grant
<1>3. CASE att.level = "hid"
  <2>1. att.hid \in Hids /\ focus' = AttachedHid(f, att.hid, en)
    BY <1>3 DEF Attachments, AttachedTo
  <2>2. GrantsOf(focus') = Regranted(f, o, {att.hid})
    BY <1>1, <2>1, HidGrants
  <2> QED BY <1>2, <2>1, <2>2
<1>4. CASE att.level = "kit"
  <2>1. att.kit \in Kits /\ focus' = AttachedKit(f, att.kit, en)
    BY <1>4 DEF Attachments, AttachedTo
  <2> QED BY <1>1, <1>2, <2>1, KitGrants, KitScopes
<1>5. CASE att.level = "category"
  <2>1. \E p : focus' = AttachedCategory(f, att.selection, en, p)
    BY <1>5 DEF AttachedTo
  <2>2. GrantsOf(focus') \subseteq GrantsOf(focus)
    BY <2>1, CategoryGrants
  <2> QED BY <2>2 DEF Abstract!Next, Abstract!Shed
<1>6. CASE att.level = "all"
  <2>1. focus' = AttachedAll(f, en)
    BY <1>6 DEF AttachedTo
  <2> QED BY <1>1, <1>2, <2>1, AllGrants
<1> QED BY <1>3, <1>4, <1>5, <1>6 DEF Attachments

\* detach_focus takes nothing away but grants of the object.
LEMMA DetachOwn ==
  ASSUME NEW f \in FocusRecords, NEW att \in Attachments, NEW o, NEW x, HasGrant(f, x), x.to # o
  PROVE  HasGrant(Detached(f, att, o), x)
<1> DEFINE g == Detached(f, att, o)
<1>1. ASSUME NEW y, y.object # o
      PROVE  Freed(y, o) = y
  BY <1>1 DEF Freed
<1>2. ASSUME NEW h \in Hids, f.hids[h].object # o
      PROVE  g.hids[h] = f.hids[h]
  <2>1. CASE att.level = "hid"
    <3>1. g = [f EXCEPT !.hids[att.hid] = Freed(@, o)]
      BY <2>1 DEF Detached
    <3> QED BY <1>1, <1>2, <3>1 DEF FocusRecords
  <2>2. CASE att.level # "hid"
    BY <2>2 DEF Detached, FocusRecords, Attachments
  <2> QED BY <2>1, <2>2
<1>3. ASSUME NEW k \in Kits, f.kits[k].object # o
      PROVE  g.kits[k] = f.kits[k]
  <2>1. CASE att.level = "kit"
    <3>1. g = [f EXCEPT !.kits[att.kit] = Freed(@, o)]
      BY <2>1 DEF Detached
    <3> QED BY <1>1, <1>3, <3>1 DEF FocusRecords
  <2>2. CASE att.level # "kit"
    BY <2>2 DEF Detached, FocusRecords, Attachments
  <2> QED BY <2>1, <2>2
<1>4. ASSUME f.all.object # o
      PROVE  g.all = f.all
  <2>1. CASE att.level = "all"
    <3>1. g = [f EXCEPT !.all = Freed(@, o)]
      BY <2>1 DEF Detached
    <3> QED BY <1>1, <1>4, <3>1 DEF FocusRecords
  <2>2. CASE att.level # "all"
    BY <2>2 DEF Detached, FocusRecords, Attachments
  <2> QED BY <2>1, <2>2
<1>5. CASE \E h \in Hids : f.hids[h] # None /\ x = [scope |-> {h}, to |-> f.hids[h].object]
  <2>1. PICK h \in Hids : f.hids[h] # None /\ x = [scope |-> {h}, to |-> f.hids[h].object]
    BY <1>5
  <2> QED BY <1>2, <2>1 DEF HasGrant
<1>6. CASE \E k \in Kits : f.kits[k] # None /\ x = [scope |-> KitScope(k), to |-> f.kits[k].object]
  <2>1. PICK k \in Kits : f.kits[k] # None /\ x = [scope |-> KitScope(k), to |-> f.kits[k].object]
    BY <1>6
  <2> QED BY <1>3, <2>1 DEF HasGrant
<1>7. CASE f.all # None /\ x = [scope |-> Hids, to |-> f.all.object]
  BY <1>4, <1>7 DEF HasGrant
<1> QED BY <1>5, <1>6, <1>7 DEF HasGrant

\* Every step of the dispatcher is a step of the abstract one.
LEMMA StepRefines ==
  ASSUME Good(focus), FocusNext
  PROVE  Abstract!Next \/ GrantsOf(focus') = GrantsOf(focus)
<1> focus \in FocusRecords
  BY DEF Good
<1>1. ASSUME NEW o \in Objects, NEW att \in Attachments, DetachFocus(o, att)
      PROVE  Abstract!Next
  <2>1. GrantsOf(focus') \subseteq GrantsOf(focus)
    BY <1>1, DetachFewer, FewerGrants DEF DetachFocus
  <2> QED BY <2>1 DEF Abstract!Next, Abstract!Shed
<1>2. ASSUME NEW o \in Objects, NEW att \in Attachments, NEW c \in Configs, AttachFocus(o, att, c)
      PROVE  Abstract!Next
  BY <1>2, AttachRefines DEF AttachFocus
<1>3. ASSUME NEW o \in Objects, NEW att \in Attachments, NEW c \in Configs, Reconfigure(o, att, c)
      PROVE  GrantsOf(focus') = GrantsOf(focus)
  BY <1>3, ReconfigureAlike, AlikeGrants DEF Reconfigure
<1>4. ASSUME NEW o \in Objects, NEW att \in Attachments, NEW c \in Configs,
             NEW from \in Attachments, Reattach(o, from, att, c)
      PROVE  Abstract!Next
  <2> DEFINE f == Detached(focus, from, o)
  <2>1. f \in FocusRecords /\ Fewer(f, focus)
    BY DetachFewer
  <2>2. Good(f) /\ GrantsOf(f) \subseteq GrantsOf(focus)
    BY <2>1, FewerKeeps, FewerGrants
  <2>3. \A g \in GrantsOf(focus) \ GrantsOf(f) : g.to = o
    BY DetachOwn, GrantsMember
  <2> QED BY <1>4, <2>2, <2>3, AttachRefines DEF Reattach
<1>5. ASSUME NEW h \in Hids, CheckForDetach(h)
      PROVE  Abstract!Next
  <2>1. GrantsOf(focus') \subseteq GrantsOf(focus)
    BY <1>5, CheckFewer, FewerGrants DEF CheckForDetach
  <2> QED BY <2>1 DEF Abstract!Next, Abstract!Shed
<1> QED BY <1>1, <1>2, <1>3, <1>4, <1>5 DEF FocusNext

\* The dispatcher implements the abstract one for every set of devices, objects,
\* selections and configurations: nobody loses a device to an attachment elsewhere.
THEOREM FocusImplements == FocusSpec => ImplementsFocus
<1>1. FocusInit => Good(focus)
  BY DEF FocusInit, Good, FocusRecords, Separate, AllIsAlone, KitExcludesHids,
         KitExcludesCategories, CategoriesDisjoint
<1>2. Good(focus) /\ [FocusNext]_focus => Good(focus)'
  <2>1. ASSUME Good(focus), FocusNext PROVE Good(focus)'
    BY <2>1, StepForms, StepKeeps DEF FocusTypeOK, Good
  <2>2. ASSUME Good(focus), UNCHANGED focus PROVE Good(focus)'
    BY <2>2
  <2> QED BY <2>1, <2>2
<1>3. FocusInit => Abstract!Init
  BY DEF FocusInit, Abstract!Init, GrantsOf
<1>4. Good(focus) /\ [FocusNext]_focus => [Abstract!Next]_(GrantsOf(focus))
  <2>1. ASSUME Good(focus), FocusNext PROVE [Abstract!Next]_(GrantsOf(focus))
    BY <2>1, StepRefines
  <2>2. ASSUME UNCHANGED focus PROVE UNCHANGED GrantsOf(focus)
    BY <2>2
  <2> QED BY <2>1, <2>2
<1> QED BY <1>1, <1>2, <1>3, <1>4, PTL DEF FocusSpec, ImplementsFocus, Abstract!Spec

--------------------------------------------------------------------------------

States == {"idle", "close", "pointed", "grabbed", "triggered", "gizmo", "mouse", "drag", "place"}
ObjectRecords == [state : States, hid : Hids \cup {None}, saved : Configs]
References == {Unattached} \cup {AtHid(h) : h \in Hids} \cup {AtKit(h) : h \in Hids}

Worlds == [focus : FocusRecords, default_config : Configs, objs : [Objects -> ObjectRecords],
           ignored : SUBSET Objects, info : References, att : References]

Drags == {"grabbed", "triggered", "drag"}

Busy(ob, o) == ob[o].state # "idle"

\* The attachments of a device are to objects that listen to it, except for tables;
\* those of a kit to screens that listen to one of its devices.
DevicesHeard(f, ob) ==
  \A h \in Hids : f.hids[h] # None /\ Kind[f.hids[h].object] # "table" =>
    ob[f.hids[h].object].hid = h /\ Busy(ob, f.hids[h].object)
KitsHeard(f, ob) ==
  \A k \in Kits : f.kits[k] # None =>
    /\ Kind[f.kits[k].object] # "table"
    /\ Busy(ob, f.kits[k].object)
    /\ ob[f.kits[k].object].hid \in Hids /\ KitOf(ob[f.kits[k].object].hid) = k

Holds(f, h, o) ==
  \/ f.hids[h] # None /\ f.hids[h].object = o
  \/ f.kits[KitOf(h)] # None /\ f.kits[KitOf(h)].object = o

\* Who is busy holds the focus of the device it listens to.
BusyHolds(f, ob, ig) ==
  \A o \in Objects \ ig : Busy(ob, o) => ob[o].hid \in Hids /\ Holds(f, ob[o].hid, o)

Own(f, ob, ig) == DevicesHeard(f, ob) /\ KitsHeard(f, ob) /\ BusyHolds(f, ob, ig)

Valid(w) == w.info = Unattached \/ EntryAt(w.focus, w.info) # None

WorldOK(w) ==
  /\ w \in Worlds
  /\ Separate(w.focus) /\ w.focus.all = None
  /\ Own(w.focus, w.objs, w.ignored)
  /\ Valid(w)

\* All devices are controllers of kits.
LEMMA KitsOfHids ==
  \A h \in Hids : is_part_of_kit(h.category) /\ KitOf(h) \in Kits /\ InKitLoop(h)
<1>1. \A h \in Hids : is_part_of_kit(h.category)
  BY SceneAssumption DEF is_part_of_kit
<1> QED BY <1>1, FocusAssumption DEF Kits

\* What an entry of the dispatcher is.
LEMMA EntryTypes ==
  ASSUME NEW f \in FocusRecords, NEW att \in References
  PROVE  EntryAt(f, att) \in Entries \cup {None}
BY KitsOfHids DEF References, EntryAt, FocusRecords, AtHid, AtKit, Unattached

\* What rfi.foc_info_ptr is.
LEMMA InfoTypes ==
  ASSUME NEW w \in Worlds
  PROVE  Info(w).config \in Configs /\ Info(w).object \in Objects \cup {None}
<1>1. EntryAt(w.focus, w.info) \in Entries \cup {None}
  BY EntryTypes DEF Worlds
<1>2. w.default_config \in Configs
  BY DEF Worlds
<1> QED BY <1>1, <1>2 DEF Info, Entries

\* The info of a focus pointer to the entry of a device.
LEMMA InfoAtHid ==
  ASSUME NEW w, NEW h, w.info = AtHid(h), w.focus.hids[h] # None
  PROVE  Info(w) = w.focus.hids[h]
<1>1. w.info.level = "hid" /\ w.info.hid = h
  BY DEF AtHid
<1>2. EntryAt(w.focus, w.info) = w.focus.hids[h]
  BY <1>1 DEF EntryAt
<1> QED BY <1>2, Zenon DEF Info

\* The focus and the places of the objects that agree with one another.
Agreed(f, ob, ig) == Good(f) /\ Own(f, ob, ig)

\* An object that is no table has one attachment at most.
LEMMA OneEntry ==
  ASSUME NEW f, NEW ob, NEW ig, Agreed(f, ob, ig)
  PROVE  /\ \A x, y \in Hids : f.hids[x] # None /\ f.hids[y] # None /\ f.hids[x].object = f.hids[y].object
                                 /\ Kind[f.hids[x].object] # "table" => x = y
         /\ \A k, m \in Kits : f.kits[k] # None /\ f.kits[m] # None /\ f.kits[k].object = f.kits[m].object
                                 => k = m
         /\ \A x \in Hids, k \in Kits : f.hids[x] # None /\ f.kits[k] # None
                                 => f.hids[x].object # f.kits[k].object
<1>1. DevicesHeard(f, ob) /\ KitsHeard(f, ob) /\ KitExcludesHids(f)
  BY DEF Agreed, Own, Good, Separate
<1>2. ASSUME NEW x \in Hids, NEW k \in Kits, f.hids[x] # None, f.kits[k] # None,
             f.hids[x].object = f.kits[k].object
      PROVE  FALSE
  <2>1. ob[f.hids[x].object].hid = x /\ KitOf(x) = k
    BY <1>1, <1>2 DEF DevicesHeard, KitsHeard
  <2> QED BY <1>1, <1>2, <2>1, KitsOfHids DEF KitExcludesHids
<1> QED BY <1>1, <1>2 DEF DevicesHeard, KitsHeard

\* The objects n after those in L were told that they lose the focus: who listens is
\* idle, who does not is ignored.
Told(n, ob, ig2, L) ==
  /\ \A p \in Objects \ L : n[p] = ob[p]
  /\ \A p \in L : n[p] = ob[p] \/ ~Busy(n, p)
  /\ \A p \in L : ~Busy(n, p) \/ p \in ig2

\* Device x has a drag: its entry is of an object that is dragged and listens to it.
DragsAt(w, x) ==
  /\ w.focus.hids[x] # None
  /\ w.objs[w.focus.hids[x].object].state \in Drags /\ w.objs[w.focus.hids[x].object].hid = x

\* From w to v no drag is begun and no entry of a drag changed.
NoNewDrag(v, w) ==
  \A x \in Hids : DragsAt(v, x) => DragsAt(w, x) /\ v.focus.hids[x] = w.focus.hids[x]

\* Objects and attachments agree when attachments end and those who had them are
\* told, if they have no others.
LEMMA TakenAway ==
  ASSUME NEW f, NEW g, NEW ob, NEW n, NEW ig, NEW ig2, NEW L \in SUBSET Objects,
         f \in FocusRecords, g \in FocusRecords, Agreed(f, ob, ig), Fewer(g, f),
         Told(n, ob, ig2, L), ig \subseteq ig2,
         \A x \in Hids : f.hids[x] # None /\ g.hids[x] = None => f.hids[x].object \in L,
         \A k \in Kits : f.kits[k] # None /\ g.kits[k] = None => f.kits[k].object \in L,
         \A x \in Hids : g.hids[x] # None /\ g.hids[x].object \in L => Kind[g.hids[x].object] = "table",
         \A k \in Kits : g.kits[k] # None => g.kits[k].object \notin L
  PROVE  Agreed(g, n, ig2)
<1>1. Good(g)
  BY FewerKeeps DEF Agreed
<1>2. Own(f, ob, ig)
  BY DEF Agreed
<1>t. /\ \A x \in Hids : f.hids[x] # None => f.hids[x].object \in Objects
      /\ \A k \in Kits : f.kits[k] # None => f.kits[k].object \in Objects
  BY DEF FocusRecords, Entries
<1>b. /\ \A x \in Hids : g.hids[x] # None => g.hids[x] = f.hids[x]
      /\ \A k \in Kits : g.kits[k] # None => g.kits[k] = f.kits[k]
  BY DEF Fewer
<1>3. DevicesHeard(g, n)
  <2> SUFFICES ASSUME NEW x \in Hids, g.hids[x] # None, Kind[g.hids[x].object] # "table"
               PROVE  n[g.hids[x].object].hid = x /\ Busy(n, g.hids[x].object)
    BY DEF DevicesHeard
  <2>1. n[g.hids[x].object] = ob[f.hids[x].object] /\ g.hids[x] = f.hids[x]
    BY <1>t, <1>b DEF Told
  <2> QED BY <1>2, <2>1 DEF Own, DevicesHeard, Busy
<1>4. KitsHeard(g, n)
  <2> SUFFICES ASSUME NEW k \in Kits, g.kits[k] # None
               PROVE  /\ Kind[g.kits[k].object] # "table"
                      /\ Busy(n, g.kits[k].object)
                      /\ n[g.kits[k].object].hid \in Hids /\ KitOf(n[g.kits[k].object].hid) = k
    BY DEF KitsHeard
  <2>1. n[g.kits[k].object] = ob[f.kits[k].object] /\ g.kits[k] = f.kits[k]
    BY <1>t, <1>b DEF Told
  <2> QED BY <1>2, <2>1 DEF Own, KitsHeard, Busy
<1>5. BusyHolds(g, n, ig2)
  <2> SUFFICES ASSUME NEW p \in Objects, p \notin ig2, Busy(n, p)
               PROVE  n[p].hid \in Hids /\ Holds(g, n[p].hid, p)
    BY DEF BusyHolds
  <2>1. p \notin L /\ p \notin ig /\ n[p] = ob[p]
    BY DEF Told
  <2>2. n[p].hid \in Hids /\ Holds(f, n[p].hid, p)
    BY <1>2, <2>1 DEF Own, BusyHolds, Busy
  <2>3. KitOf(n[p].hid) \in Kits
    BY <2>2, KitsOfHids
  <2> QED BY <1>b, <2>1, <2>2, <2>3 DEF Holds
<1> QED BY <1>1, <1>3, <1>4, <1>5 DEF Agreed, Own

\* What Notify does.
LEMMA NotifyTells ==
  ASSUME NEW w \in Worlds, NEW L \in SUBSET Objects, NEW h
  PROVE  /\ Notify(w, L, h) \in Worlds
         /\ Notify(w, L, h).focus = w.focus /\ Notify(w, L, h).default_config = w.default_config
         /\ Notify(w, L, h).info = w.info /\ Notify(w, L, h).att = w.att
         /\ Told(Notify(w, L, h).objs, w.objs, Notify(w, L, h).ignored, L)
         /\ w.ignored \subseteq Notify(w, L, h).ignored
<1> DEFINE listening == {o \in L : Listens(Kind[o], w.objs[o].state, w.objs[o].hid = h)}
           n == [o \in Objects |-> IF o \in listening THEN [w.objs[o] EXCEPT !.state = "idle", !.hid = None]
                                                      ELSE w.objs[o]]
           ig == w.ignored \cup {o \in L \ listening : w.objs[o].state # "idle"}
<1>1. Notify(w, L, h) = [w EXCEPT !.objs = n, !.ignored = ig]
  BY DEF Notify
<1>2. w.objs \in [Objects -> ObjectRecords]
  BY DEF Worlds
<1>3. n \in [Objects -> ObjectRecords]
  BY <1>2 DEF ObjectRecords, States
<1>4. Told(n, w.objs, ig, L)
  <2>1. \A p \in Objects \ L : n[p] = w.objs[p]
    OBVIOUS
  <2>2. \A p \in listening : n[p].state = "idle"
    BY <1>2 DEF ObjectRecords
  <2>3. \A p \in L : n[p] = w.objs[p] \/ ~Busy(n, p)
    BY <2>2 DEF Busy
  <2>4. \A p \in L : ~Busy(n, p) \/ p \in ig
    BY <2>2 DEF Busy
  <2> QED BY <2>1, <2>3, <2>4 DEF Told
<1> QED BY <1>1, <1>3, <1>4 DEF Worlds

\* detach_focus.
LEMMA DetachKeeps ==
  ASSUME NEW w, WorldOK(w), NEW att \in References, NEW o \in Objects, NEW h
  PROVE  WorldOK(Detach(w, att, o, h))
<1> DEFINE x == EntryAt(w.focus, att)
           g == Detached(w.focus, att, o)
           told == Notify(w, {o}, h)
<1>1. w \in Worlds /\ w.focus \in FocusRecords /\ Agreed(w.focus, w.objs, w.ignored)
  BY DEF WorldOK, Worlds, Agreed, Good
<1>2. CASE ~(x # None /\ x.object = o)
  <2>1. Detach(w, att, o, h) = [w EXCEPT !.att = Unattached]
    BY <1>2 DEF Detach
  <2> QED BY <1>1, <2>1 DEF WorldOK, Worlds, References, Valid
<1>3. CASE x # None /\ x.object = o
  <2>0. told.focus = w.focus
    BY <1>1, NotifyTells
  <2>a. Detach(w, att, o, h) = [told EXCEPT !.focus = Detached(told.focus, att, o), !.info = Unattached, !.att = Unattached]
    BY <1>3 DEF Detach
  <2>1. Detach(w, att, o, h) = [told EXCEPT !.focus = g, !.info = Unattached, !.att = Unattached]
    BY <2>0, <2>a
  <2>2. told \in Worlds /\ Told(told.objs, w.objs, told.ignored, {o}) /\ w.ignored \subseteq told.ignored
    BY <1>1, NotifyTells
  <2>3. \/ \E y \in Hids : att = AtHid(y) /\ w.focus.hids[y] # None /\ w.focus.hids[y].object = o
        \/ \E k \in Kits : att = [level |-> "kit", kit |-> k] /\ w.focus.kits[k] # None /\ w.focus.kits[k].object = o
    BY <1>3, KitsOfHids DEF References, EntryAt, AtHid, AtKit, Unattached
  <2>4. att \in Attachments
    BY <2>3 DEF Attachments, AtHid
  <2>5. g \in FocusRecords /\ Fewer(g, w.focus)
    BY <1>1, <2>4, DetachFewer
  <2>6. Agreed(g, told.objs, told.ignored)
    <3>1. CASE \E y \in Hids : att = AtHid(y) /\ w.focus.hids[y] # None /\ w.focus.hids[y].object = o
      <4> PICK y \in Hids : att = AtHid(y) /\ w.focus.hids[y] # None /\ w.focus.hids[y].object = o
        BY <3>1
      <4>1. g = [w.focus EXCEPT !.hids[y] = None]
        BY DEF Detached, AtHid, Freed
      <4>2. /\ g.kits = w.focus.kits
            /\ \A z \in Hids : g.hids[z] = IF z = y THEN None ELSE w.focus.hids[z]
        BY <1>1, <4>1 DEF FocusRecords
      <4>3. /\ \A z \in Hids : w.focus.hids[z] # None /\ g.hids[z] = None => w.focus.hids[z].object \in {o}
            /\ \A k \in Kits : w.focus.kits[k] # None /\ g.kits[k] = None => w.focus.kits[k].object \in {o}
        BY <4>2
      <4>4. \A z \in Hids : g.hids[z] # None /\ g.hids[z].object \in {o} => Kind[g.hids[z].object] = "table"
        BY <1>1, <4>2, OneEntry
      <4>5. \A k \in Kits : g.kits[k] # None => g.kits[k].object \notin {o}
        BY <1>1, <4>2, OneEntry
      <4> HIDE DEF g, told
      <4>6. {o} \in SUBSET Objects
        OBVIOUS
      <4> QED BY <1>1, <2>2, <2>5, <4>3, <4>4, <4>5, <4>6, TakenAway
    <3>2. CASE \E k \in Kits : att = [level |-> "kit", kit |-> k] /\ w.focus.kits[k] # None /\ w.focus.kits[k].object = o
      <4> PICK k \in Kits : att = [level |-> "kit", kit |-> k] /\ w.focus.kits[k] # None /\ w.focus.kits[k].object = o
        BY <3>2
      <4>1. g = [w.focus EXCEPT !.kits[k] = None]
        BY DEF Detached, Freed
      <4>2. /\ g.hids = w.focus.hids
            /\ \A m \in Kits : g.kits[m] = IF m = k THEN None ELSE w.focus.kits[m]
        BY <1>1, <4>1 DEF FocusRecords
      <4>3. /\ \A z \in Hids : w.focus.hids[z] # None /\ g.hids[z] = None => w.focus.hids[z].object \in {o}
            /\ \A m \in Kits : w.focus.kits[m] # None /\ g.kits[m] = None => w.focus.kits[m].object \in {o}
        BY <4>2
      <4>4. \A z \in Hids : g.hids[z] # None => g.hids[z].object \notin {o}
        BY <1>1, <4>2, OneEntry
      <4>5. \A m \in Kits : g.kits[m] # None => g.kits[m].object \notin {o}
        BY <1>1, <4>2, OneEntry
      <4> HIDE DEF g, told
      <4>6. {o} \in SUBSET Objects
        OBVIOUS
      <4> QED BY <1>1, <2>2, <2>5, <4>3, <4>4, <4>5, <4>6, TakenAway
    <3> QED BY <2>3, <3>1, <3>2
  <2>7. g.all = None
    BY <2>5 DEF Fewer, WorldOK
  <2> QED BY <2>1, <2>2, <2>5, <2>6, <2>7 DEF WorldOK, Worlds, References, Valid, Agreed, Good
<1> QED BY <1>2, <1>3

\* L are those who have the focus of a device in S or of kit k.
HeldBy(f, S, k, L) ==
  /\ \A x \in S : f.hids[x] # None => f.hids[x].object \in L
  /\ f.kits[k] # None => f.kits[k].object \in L
  /\ \A p \in L : \/ \E x \in S : f.hids[x] # None /\ f.hids[x].object = p
                  \/ f.kits[k] # None /\ f.kits[k].object = p

\* From f to g, object o gets the focus of h or of its kit, and the attachments to the
\* devices in S and to the kit end.
GivenTo(f, g, h, S, o) ==
  /\ \A x \in Hids \ S : g.hids[x] = f.hids[x]
  /\ \A k \in Kits \ {KitOf(h)} : g.kits[k] = f.kits[k]
  /\ \A x \in S : g.hids[x] # None => x = h /\ g.hids[x].object = o
  /\ g.kits[KitOf(h)] # None => g.kits[KitOf(h)].object = o /\ Kind[o] # "table"
  /\ Holds(g, h, o)

\* The objects b are ob but for o, which is busy with h, but not with a drag.
BusyWith(b, ob, o, h) ==
  (\A p \in Objects \ {o} : b[p] = ob[p]) /\ b[o].hid = h /\ Busy(b, o) /\ b[o].state \notin Drags

\* Objects and attachments agree when an object that is idle or a table gets a focus and
\* those who had what ends are told.
LEMMA Granted ==
  ASSUME NEW f \in FocusRecords, NEW g \in FocusRecords, NEW ob, NEW b, NEW n, NEW ig, NEW ig2,
         NEW h \in Hids, NEW S \in SUBSET Hids, NEW L \in SUBSET Objects, NEW o \in Objects,
         Agreed(f, ob, ig), Good(g), h \in S, \A x \in S : KitOf(x) = KitOf(h),
         BusyWith(b, ob, o, h), Kind[o] = "table" \/ ~Busy(ob, o),
         Told(n, b, ig2, L), ig \ {o} \subseteq ig2,
         HeldBy(f, S, KitOf(h), L), GivenTo(f, g, h, S, o)
  PROVE  Agreed(g, n, ig2)
<1> USE DEF BusyWith, HeldBy, GivenTo
<1>1. Own(f, ob, ig)
  BY DEF Agreed
<1>k. KitOf(h) \in Kits
  BY KitsOfHids
<1>t. /\ \A x \in Hids : f.hids[x] # None => f.hids[x].object \in Objects
      /\ \A k \in Kits : f.kits[k] # None => f.kits[k].object \in Objects
  BY DEF FocusRecords, Entries
<1>2. Kind[o] # "table" => /\ \A x \in Hids : f.hids[x] # None => f.hids[x].object # o
                           /\ \A k \in Kits : f.kits[k] # None => f.kits[k].object # o
                           /\ o \notin L
  <2>1. Kind[o] # "table" => /\ \A x \in Hids : f.hids[x] # None => f.hids[x].object # o
                             /\ \A k \in Kits : f.kits[k] # None => f.kits[k].object # o
    BY <1>1 DEF Own, DevicesHeard, KitsHeard
  <2> QED BY <2>1, <1>k
<1>3. DevicesHeard(g, n)
  <2> SUFFICES ASSUME NEW x \in Hids, g.hids[x] # None, Kind[g.hids[x].object] # "table"
               PROVE  n[g.hids[x].object].hid = x /\ Busy(n, g.hids[x].object)
    BY DEF DevicesHeard
  <2>1. CASE x \in S
    <3>1. x = h /\ g.hids[x].object = o
      BY <2>1
    <3>2. n[o] = b[o]
      BY <1>2, <3>1 DEF Told
    <3> QED BY <3>1, <3>2 DEF Busy
  <2>2. CASE x \notin S
    <3>1. g.hids[x] = f.hids[x] /\ f.hids[x].object \in Objects
      BY <1>t, <2>2
    <3>2. f.hids[x].object # o
      BY <1>2, <3>1
    <3>3. \A y \in S : f.hids[y] # None => f.hids[y].object # f.hids[x].object
      BY <2>2, <3>1, OneEntry
    <3>4. f.kits[KitOf(h)] # None => f.kits[KitOf(h)].object # f.hids[x].object
      BY <1>k, <3>1, OneEntry
    <3>5. f.hids[x].object \notin L
      BY <3>3, <3>4
    <3>6. n[f.hids[x].object] = ob[f.hids[x].object]
      BY <3>1, <3>2, <3>5 DEF Told
    <3> QED BY <1>1, <3>1, <3>6 DEF Own, DevicesHeard, Busy
  <2> QED BY <2>1, <2>2
<1>4. KitsHeard(g, n)
  <2> SUFFICES ASSUME NEW k \in Kits, g.kits[k] # None
               PROVE  /\ Kind[g.kits[k].object] # "table"
                      /\ Busy(n, g.kits[k].object)
                      /\ n[g.kits[k].object].hid \in Hids /\ KitOf(n[g.kits[k].object].hid) = k
    BY DEF KitsHeard
  <2>1. CASE k = KitOf(h)
    <3>1. g.kits[k].object = o /\ Kind[o] # "table"
      BY <2>1
    <3>2. n[o] = b[o]
      BY <1>2, <3>1 DEF Told
    <3> QED BY <2>1, <3>1, <3>2 DEF Busy
  <2>2. CASE k # KitOf(h)
    <3>1. g.kits[k] = f.kits[k] /\ f.kits[k].object \in Objects
      BY <1>t, <2>2
    <3>k. Kind[f.kits[k].object] # "table" /\ Busy(ob, f.kits[k].object)
      BY <1>1, <3>1 DEF Own, KitsHeard
    <3>2. f.kits[k].object # o
      BY <3>k
    <3>3. \A y \in S : f.hids[y] # None => f.hids[y].object # f.kits[k].object
      BY <3>1, OneEntry
    <3>4. f.kits[KitOf(h)] # None => f.kits[KitOf(h)].object # f.kits[k].object
      BY <1>k, <2>2, <3>1, OneEntry
    <3>5. f.kits[k].object \notin L
      BY <3>3, <3>4
    <3>6. n[f.kits[k].object] = ob[f.kits[k].object]
      BY <3>1, <3>2, <3>5 DEF Told
    <3> QED BY <1>1, <3>1, <3>6 DEF Own, KitsHeard, Busy
  <2> QED BY <2>1, <2>2
<1>5. BusyHolds(g, n, ig2)
  <2> SUFFICES ASSUME NEW p \in Objects, p \notin ig2, Busy(n, p)
               PROVE  n[p].hid \in Hids /\ Holds(g, n[p].hid, p)
    BY DEF BusyHolds
  <2>1. p \notin L /\ n[p] = b[p]
    BY DEF Told
  <2>2. CASE p = o
    BY <2>1, <2>2
  <2>3. CASE p # o
    <3>1. p \notin ig /\ n[p] = ob[p]
      BY <2>1, <2>3
    <3>2. n[p].hid \in Hids /\ Holds(f, n[p].hid, p)
      BY <1>1, <3>1 DEF Own, BusyHolds, Busy
    <3>3. KitOf(n[p].hid) \in Kits
      BY <3>2, KitsOfHids
    <3>4. CASE f.hids[n[p].hid] # None /\ f.hids[n[p].hid].object = p
      <4>1. n[p].hid \notin S
        BY <2>1, <3>4
      <4> QED BY <3>2, <3>4, <4>1 DEF Holds
    <3>5. CASE f.kits[KitOf(n[p].hid)] # None /\ f.kits[KitOf(n[p].hid)].object = p
      <4>1. KitOf(n[p].hid) # KitOf(h)
        BY <2>1, <3>5
      <4> QED BY <3>2, <3>3, <3>5, <4>1 DEF Holds
    <3> QED BY <3>2, <3>4, <3>5 DEF Holds
  <2> QED BY <2>2, <2>3
<1> QED BY <1>3, <1>4, <1>5 DEF Agreed, Own

\* The objects that are told of an attachment.
LEMMA HoldersFacts ==
  ASSUME NEW f \in FocusRecords, f.all = None, NEW S \in SUBSET Hids, NEW k \in Kits
  PROVE  Holders(f, S, k) \in SUBSET Objects /\ HeldBy(f, S, k, Holders(f, S, k))
<1> DEFINE X == ({f.hids[h] : h \in S} \cup {f.kits[k], f.all}) \ {None}
<1>1. Holders(f, S, k) = {x.object : x \in X}
  BY DEF Holders
<1>2. \A x \in X : x \in Entries
  BY DEF FocusRecords
<1>3. \A x \in X : (\E h \in S : x = f.hids[h] /\ f.hids[h] # None) \/ (x = f.kits[k] /\ f.kits[k] # None)
  OBVIOUS
<1>4. /\ \A h \in S : f.hids[h] # None => f.hids[h] \in X
      /\ f.kits[k] # None => f.kits[k] \in X
  OBVIOUS
<1> HIDE DEF X
<1> QED BY <1>1, <1>2, <1>3, <1>4 DEF Entries, HeldBy

\* The object that gets the focus, before the others are told.
Moved(w, o, s, h) == [w EXCEPT !.objs[o].state = s, !.objs[o].hid = h, !.ignored = @ \ {o}]

\* Who moved is neither idle nor new to a drag, and nobody else moved.
LEMMA MovedFacts ==
  ASSUME NEW w \in Worlds, NEW o \in Objects, NEW s \in States \ ({"idle"} \cup Drags), NEW h \in Hids
  PROVE  /\ Moved(w, o, s, h) \in Worlds
         /\ Moved(w, o, s, h).focus = w.focus /\ Moved(w, o, s, h).info = w.info
         /\ Moved(w, o, s, h).ignored = w.ignored \ {o}
         /\ BusyWith(Moved(w, o, s, h).objs, w.objs, o, h)
<1>1. w.objs \in [Objects -> ObjectRecords]
  BY DEF Worlds
<1>2. Moved(w, o, s, h).objs = [w.objs EXCEPT ![o] = [w.objs[o] EXCEPT !.state = s, !.hid = h]]
  BY <1>1 DEF Moved, Worlds, ObjectRecords
<1>3. /\ w.objs[o] \in ObjectRecords
      /\ [w.objs[o] EXCEPT !.state = s, !.hid = h] \in ObjectRecords
  BY <1>1 DEF ObjectRecords
<1>4. /\ Moved(w, o, s, h).focus = w.focus /\ Moved(w, o, s, h).info = w.info
      /\ Moved(w, o, s, h).ignored = w.ignored \ {o}
  BY DEF Moved, Worlds
<1>5. Moved(w, o, s, h) \in Worlds
  BY <1>1, <1>2, <1>3, <1>4 DEF Moved, Worlds
<1>6. BusyWith(Moved(w, o, s, h).objs, w.objs, o, h)
  BY <1>1, <1>2, <1>3 DEF ObjectRecords, Busy, BusyWith
<1> QED BY <1>4, <1>5, <1>6

\* World a is w after an attachment of o to h at att: the focus is g, and with the
\* objects as in b those in L were told.
AttachedAs(a, w, told, b, g, att, o, h, L) ==
  /\ a = [told EXCEPT !.focus = g, !.info = att, !.att = att]
  /\ BusyWith(b, w.objs, o, h)
  /\ Told(told.objs, b, told.ignored, L)
  /\ w.ignored \ {o} \subseteq told.ignored

\* What an attachment at a reference att of h makes of a world, when it excludes those
\* to the devices in S and leads to the focus g.
LEMMA AttachForm ==
  ASSUME NEW w, WorldOK(w), NEW o \in Objects, NEW h \in Hids, NEW c \in Configs, NEW rfa, NEW mode,
         NEW att, NEW S \in SUBSET Hids, NEW g,
         S = IF att.level = "hid" THEN {h} ELSE {x \in Hids : KitOf(x) = KitOf(h)},
         g = IF att.level = "hid" THEN AttachedHid(w.focus, h, [object |-> o, config |-> c])
                                  ELSE AttachedKit(w.focus, att.kit, [object |-> o, config |-> c]),
         Accepts(Kind[o], w.objs[o].state, rfa, mode)
  PROVE  \E told \in Worlds, b \in [Objects -> ObjectRecords] :
           AttachedAs(Attach(w, rfa, att, o, c, h, mode), w, told, b, g, att, o, h, Holders(w.focus, S, KitOf(h)))
<1> DEFINE s == AttachedState(Kind[o], w.objs[o].state, rfa, mode)
           m == Moved(w, o, s, h)
           L == Holders(w.focus, S, KitOf(h))
           told == Notify(m, L, h)
<1>1. w \in Worlds /\ w.focus \in FocusRecords /\ w.focus.all = None
  BY DEF WorldOK, Worlds
<1>2. s \in States \ ({"idle"} \cup Drags)
  BY DEF AttachedState, States, Drags
<1>3. /\ m \in Worlds /\ m.focus = w.focus /\ m.ignored = w.ignored \ {o}
      /\ BusyWith(m.objs, w.objs, o, h)
  BY <1>1, <1>2, MovedFacts
<1>4. KitOf(h) \in Kits
  BY KitsOfHids
<1>5. L \in SUBSET Objects
  BY <1>1, <1>4, HoldersFacts
<1>6. /\ told \in Worlds /\ told.focus = m.focus
      /\ Told(told.objs, m.objs, told.ignored, L) /\ m.ignored \subseteq told.ignored
  <2> HIDE DEF m, L
  <2> QED BY <1>3, <1>5, NotifyTells
<1>7. Attach(w, rfa, att, o, c, h, mode)
        = [told EXCEPT !.focus = IF att.level = "hid" THEN AttachedHid(told.focus, h, [object |-> o, config |-> c])
                                 ELSE AttachedKit(told.focus, att.kit, [object |-> o, config |-> c]),
                       !.info = att, !.att = att]
  BY DEF Attach, Moved
<1> HIDE DEF told, m, s
<1>8. m.objs \in [Objects -> ObjectRecords]
  BY <1>3 DEF Worlds
<1>9. Attach(w, rfa, att, o, c, h, mode) = [told EXCEPT !.focus = g, !.info = att, !.att = att]
  BY <1>3, <1>6, <1>7
<1> USE <1>6, <1>8
<1> WITNESS told \in Worlds, m.objs \in [Objects -> ObjectRecords]
<1> QED BY <1>3, <1>6, <1>9 DEF AttachedAs

\* What holds of a world a after w, whose attachment at att made the focus g.
AttachedWell(a, w, g, att) ==
  WorldOK(a) /\ NoNewDrag(a, w) /\ a.focus = g /\ a.info = att /\ a.att = att

\* A world after an attachment is as good as the one before.
LEMMA AttachedOK ==
  ASSUME NEW w, WorldOK(w), NEW a, NEW told \in Worlds, NEW b, NEW g, NEW att \in References,
         NEW o \in Objects, NEW h \in Hids, NEW S \in SUBSET Hids, h \in S, \A x \in S : KitOf(x) = KitOf(h),
         AttachedAs(a, w, told, b, g, att, o, h, Holders(w.focus, S, KitOf(h))),
         Good(g), g.all = None, EntryAt(g, att) # None,
         GivenTo(w.focus, g, h, S, o), Kind[o] = "table" \/ ~Busy(w.objs, o)
  PROVE  AttachedWell(a, w, g, att)
<1> DEFINE L == Holders(w.focus, S, KitOf(h))
<1>1. w.focus \in FocusRecords /\ w.focus.all = None /\ Agreed(w.focus, w.objs, w.ignored)
  BY DEF WorldOK, Worlds, Agreed, Good
<1>2. L \in SUBSET Objects /\ HeldBy(w.focus, S, KitOf(h), L)
  BY <1>1, KitsOfHids, HoldersFacts
<1> HIDE DEF L
<1>3. /\ a = [told EXCEPT !.focus = g, !.info = att, !.att = att]
      /\ BusyWith(b, w.objs, o, h)
      /\ Told(told.objs, b, told.ignored, L)
      /\ w.ignored \ {o} \subseteq told.ignored
  BY DEF AttachedAs, L
<1>4. g \in FocusRecords
  BY DEF Good
<1>5. Agreed(g, told.objs, told.ignored)
  BY <1>1, <1>2, <1>3, <1>4, Granted
<1>6. a.focus = g /\ a.objs = told.objs /\ a.info = att /\ a.att = att
  BY <1>3 DEF Worlds
<1>7. NoNewDrag(a, w)
  <2> SUFFICES ASSUME NEW x \in Hids, DragsAt(a, x)
               PROVE  DragsAt(w, x) /\ a.focus.hids[x] = w.focus.hids[x]
    BY DEF NoNewDrag
  <2> DEFINE p == g.hids[x].object
  <2>1. g.hids[x] # None /\ told.objs[p].state \in Drags /\ told.objs[p].hid = x
    BY <1>6 DEF DragsAt
  <2>2. p \in Objects
    BY <1>4, <2>1 DEF FocusRecords, Entries
  <2>3. told.objs[p] = b[p]
    BY <1>3, <2>1, <2>2 DEF Told, Busy, Drags
  <2>4. p # o
    BY <1>3, <2>1, <2>3 DEF BusyWith
  <2>5. told.objs[p] = w.objs[p]
    BY <1>3, <2>2, <2>3, <2>4 DEF BusyWith
  <2>6. g.hids[x] = w.focus.hids[x]
    BY <2>1, <2>4 DEF GivenTo
  <2> QED BY <1>6, <2>1, <2>5, <2>6 DEF DragsAt
<1>8. WorldOK(a)
  BY <1>3, <1>4, <1>5 DEF WorldOK, Worlds, Valid, Agreed, Good
<1> QED BY <1>6, <1>7, <1>8 DEF AttachedWell

\* attach_focus for a device.
LEMMA AttachHidKeeps ==
  ASSUME NEW w, WorldOK(w), NEW o \in Objects, NEW h \in Hids, NEW c \in Configs, NEW rfa, NEW mode,
         Kind[o] = "screen" => rfa # "grab"
  PROVE  LET a == Attach(w, rfa, AtHid(h), o, c, h, mode)
         IN /\ WorldOK(a) /\ NoNewDrag(a, w)
            /\ \A x \in Hids \ {h} : a.focus.hids[x] = w.focus.hids[x]
            /\ a.att = AtHid(h) /\ (a.info = AtHid(h) \/ (a.info = w.info /\ a.focus = w.focus))
<1> DEFINE entry == [object |-> o, config |-> c]
           S == {h}
           g == AttachedHid(w.focus, h, entry)
           a == Attach(w, rfa, AtHid(h), o, c, h, mode)
<1> SUFFICES /\ WorldOK(a) /\ NoNewDrag(a, w)
             /\ \A x \in Hids \ {h} : a.focus.hids[x] = w.focus.hids[x]
             /\ a.att = AtHid(h) /\ (a.info = AtHid(h) \/ (a.info = w.info /\ a.focus = w.focus))
  OBVIOUS
<1>1. w \in Worlds /\ w.focus \in FocusRecords /\ Good(w.focus)
  BY DEF WorldOK, Worlds, Good
<1>2. AtHid(h) \in References /\ AtHid(h).level = "hid" /\ AtHid(h).hid = h /\ entry \in Entries /\ entry # None
  BY FocusAssumption DEF References, AtHid, Entries
<1>3. CASE ~Accepts(Kind[o], w.objs[o].state, rfa, mode)
  <2>1. a = [w EXCEPT !.att = AtHid(h)]
    BY <1>3 DEF Attach
  <2> HIDE DEF a
  <2>2. a.focus = w.focus /\ a.objs = w.objs /\ a.info = w.info /\ a.att = AtHid(h)
    BY <1>1, <2>1 DEF Worlds
  <2>3. WorldOK(a)
    BY <1>1, <1>2, <2>1 DEF WorldOK, Worlds, Valid
  <2> QED BY <2>2, <2>3 DEF NoNewDrag, DragsAt
<1>4. CASE Accepts(Kind[o], w.objs[o].state, rfa, mode)
  <2>1. S = IF AtHid(h).level = "hid" THEN {h} ELSE {x \in Hids : KitOf(x) = KitOf(h)}
    BY DEF AtHid
  <2>2. g = IF AtHid(h).level = "hid" THEN AttachedHid(w.focus, h, [object |-> o, config |-> c])
                                      ELSE AttachedKit(w.focus, AtHid(h).kit, [object |-> o, config |-> c])
    BY DEF AtHid
  <2>3. S \in SUBSET Hids /\ h \in S /\ \A x \in S : KitOf(x) = KitOf(h)
    OBVIOUS
  <2>4. PICK told \in Worlds, b \in [Objects -> ObjectRecords] :
           AttachedAs(a, w, told, b, g, AtHid(h), o, h, Holders(w.focus, S, KitOf(h)))
    <3> HIDE DEF S, g, a
    <3> QED BY <1>4, <2>1, <2>2, <2>3, AttachForm DEF a
  <2>5. Kind[o] = "table" \/ ~Busy(w.objs, o)
    BY <1>4, SceneAssumption DEF Accepts, Busy
  <2>6. Good(g) /\ g.all = None
    BY <1>1, <1>2, HidKeeps DEF AttachedHid
  <2>7. /\ g.hids = [w.focus.hids EXCEPT ![h] = entry]
        /\ g.kits = [k \in Kits |-> IF k = KitOf(h) THEN None ELSE w.focus.kits[k]]
    BY KitsOfHids DEF AttachedHid
  <2>8. /\ g.hids[h] = entry
        /\ \A x \in Hids \ S : g.hids[x] = w.focus.hids[x]
        /\ \A k \in Kits \ {KitOf(h)} : g.kits[k] = w.focus.kits[k]
        /\ g.kits[KitOf(h)] = None
    BY <1>1, <2>7, KitsOfHids DEF FocusRecords
  <2>9. GivenTo(w.focus, g, h, S, o)
    BY <1>2, <2>8 DEF Holds, GivenTo
  <2>10. EntryAt(g, AtHid(h)) # None
    BY <1>2, <2>8 DEF EntryAt, AtHid
  <2>11. \A x \in Hids \ {h} : g.hids[x] = w.focus.hids[x]
    BY <2>8
  <2> HIDE DEF S, g, a
  <2>13. AttachedWell(a, w, g, AtHid(h))
    BY <1>2, <2>3, <2>4, <2>5, <2>6, <2>9, <2>10, AttachedOK
  <2> QED BY <2>11, <2>13 DEF AttachedWell
<1> QED BY <1>3, <1>4

\* attach_focus of an idle screen for a kit.
LEMMA AttachKitKeeps ==
  ASSUME NEW w, WorldOK(w), NEW o \in Objects, NEW h \in Hids, NEW c \in Configs, NEW mode,
         Kind[o] = "screen", w.objs[o].state = "idle"
  PROVE  LET a == Attach(w, "grab", AtKit(h), o, c, h, mode)
         IN /\ WorldOK(a) /\ NoNewDrag(a, w) /\ a.focus.hids[h] = None
            /\ a.info = AtKit(h) /\ a.att = AtKit(h)
<1> DEFINE entry == [object |-> o, config |-> c]
           S == {x \in Hids : KitOf(x) = KitOf(h)}
           g == AttachedKit(w.focus, KitOf(h), entry)
           a == Attach(w, "grab", AtKit(h), o, c, h, mode)
<1> SUFFICES /\ WorldOK(a) /\ NoNewDrag(a, w) /\ a.focus.hids[h] = None
             /\ a.info = AtKit(h) /\ a.att = AtKit(h)
  OBVIOUS
<1>1. w \in Worlds /\ w.focus \in FocusRecords /\ Good(w.focus)
  BY DEF WorldOK, Worlds, Good
<1>2. AtKit(h) \in References /\ AtKit(h).level = "kit" /\ AtKit(h).kit = KitOf(h) /\ entry \in Entries /\ entry # None
  BY FocusAssumption DEF References, AtKit, Entries
<1>3. Accepts(Kind[o], w.objs[o].state, "grab", mode)
  BY DEF Accepts
<1>4. S = IF AtKit(h).level = "hid" THEN {h} ELSE {x \in Hids : KitOf(x) = KitOf(h)}
  BY DEF AtKit
<1>5. g = IF AtKit(h).level = "hid" THEN AttachedHid(w.focus, h, [object |-> o, config |-> c])
                                    ELSE AttachedKit(w.focus, AtKit(h).kit, [object |-> o, config |-> c])
  BY DEF AtKit
<1>6. S \in SUBSET Hids /\ h \in S /\ \A x \in S : KitOf(x) = KitOf(h)
  OBVIOUS
<1>7. PICK told \in Worlds, b \in [Objects -> ObjectRecords] :
         AttachedAs(a, w, told, b, g, AtKit(h), o, h, Holders(w.focus, S, KitOf(h)))
  <2> HIDE DEF S, g, a
  <2> QED BY <1>3, <1>4, <1>5, <1>6, AttachForm DEF a
<1>8. (Kind[o] = "table" \/ ~Busy(w.objs, o)) /\ Kind[o] # "table"
  BY DEF Busy
<1>9. Good(g) /\ g.all = None
  BY <1>1, <1>2, KitsOfHids, KitKeeps DEF AttachedKit
<1>10. /\ g.kits = [w.focus.kits EXCEPT ![KitOf(h)] = entry]
       /\ g.hids = [x \in Hids |-> IF KitOf(x) = KitOf(h) /\ InKitLoop(x) THEN None ELSE w.focus.hids[x]]
  BY DEF AttachedKit
<1>11. /\ g.kits[KitOf(h)] = entry
       /\ \A x \in Hids \ S : g.hids[x] = w.focus.hids[x]
       /\ \A k \in Kits \ {KitOf(h)} : g.kits[k] = w.focus.kits[k]
       /\ \A x \in S : g.hids[x] = None
  BY <1>1, <1>10, KitsOfHids DEF FocusRecords
<1>12. GivenTo(w.focus, g, h, S, o)
  BY <1>2, <1>8, <1>11 DEF Holds, GivenTo
<1>13. EntryAt(g, AtKit(h)) # None
  BY <1>2, <1>11 DEF EntryAt, AtKit
<1> HIDE DEF S, g, a
<1>14. (Kind[o] = "table" \/ ~Busy(w.objs, o)) /\ AtKit(h) \in References
  BY <1>2, <1>8
<1>15. AttachedWell(a, w, g, AtKit(h))
  BY <1>6, <1>7, <1>9, <1>12, <1>13, <1>14, AttachedOK
<1> QED BY <1>6, <1>11, <1>15 DEF AttachedWell

\* Objects and attachments still agree when entries get other configurations, and
\* objects other states, if nobody becomes idle or busy.
LEMMA AlikeAgrees ==
  ASSUME NEW f, NEW g \in FocusRecords, NEW ob, NEW n, NEW ig, Agreed(f, ob, ig), Alike(g, f),
         \A p \in Objects : n[p].hid = ob[p].hid /\ (Busy(n, p) <=> Busy(ob, p))
  PROVE  Agreed(g, n, ig)
<1>1. Good(f) /\ DevicesHeard(f, ob) /\ KitsHeard(f, ob) /\ BusyHolds(f, ob, ig)
  BY DEF Agreed, Own
<1>2. Good(g)
  BY <1>1, AlikeKeeps
<1>3. /\ \A x \in Hids : f.hids[x] # None => f.hids[x].object \in Objects
      /\ \A k \in Kits : f.kits[k] # None => f.kits[k].object \in Objects
  BY <1>1 DEF Good, FocusRecords, Entries
<1>4. DevicesHeard(g, n)
  BY <1>1, <1>3 DEF DevicesHeard, Alike
<1>5. KitsHeard(g, n)
  BY <1>1, <1>3 DEF KitsHeard, Alike
<1>6. BusyHolds(g, n, ig)
  <2> SUFFICES ASSUME NEW p \in Objects, p \notin ig, Busy(n, p)
               PROVE  n[p].hid \in Hids /\ Holds(g, n[p].hid, p)
    BY DEF BusyHolds
  <2>1. n[p].hid \in Hids /\ Holds(f, n[p].hid, p)
    BY <1>1 DEF BusyHolds
  <2>2. KitOf(n[p].hid) \in Kits
    BY <2>1, KitsOfHids
  <2> QED BY <2>1, <2>2 DEF Holds, Alike
<1> QED BY <1>2, <1>4, <1>5, <1>6 DEF Agreed, Own

\* An object in another state that is neither made idle nor busy.
LEMMA StateKeeps ==
  ASSUME NEW w, WorldOK(w), NEW o \in Objects, NEW s \in States, s = "idle" <=> w.objs[o].state = "idle"
  PROVE  WorldOK([w EXCEPT !.objs[o].state = s])
<1> DEFINE n == [w.objs EXCEPT ![o].state = s]
           v == [w EXCEPT !.objs[o].state = s]
<1> SUFFICES WorldOK(v)
  OBVIOUS
<1>1. w \in Worlds /\ w.objs \in [Objects -> ObjectRecords] /\ w.focus \in FocusRecords
  BY DEF WorldOK, Worlds
<1>2. v = [w EXCEPT !.objs = n]
  OBVIOUS
<1>3. n \in [Objects -> ObjectRecords]
  BY <1>1 DEF ObjectRecords
<1>4. \A p \in Objects : n[p].hid = w.objs[p].hid /\ (Busy(n, p) <=> Busy(w.objs, p))
  BY <1>1 DEF ObjectRecords, Busy
<1> HIDE DEF n, v
<1>5. Agreed(w.focus, w.objs, w.ignored) /\ Alike(w.focus, w.focus)
  BY DEF WorldOK, Agreed, Good, Worlds, Alike
<1>6. Agreed(w.focus, n, w.ignored)
  BY <1>1, <1>4, <1>5, AlikeAgrees
<1> QED BY <1>1, <1>2, <1>3, <1>6 DEF WorldOK, Worlds, Valid, Agreed

\* An object that saves a configuration.
LEMMA SaveKeeps ==
  ASSUME NEW w, WorldOK(w), NEW o \in Objects, NEW c \in Configs
  PROVE  WorldOK([w EXCEPT !.objs[o].saved = c])
<1> DEFINE n == [w.objs EXCEPT ![o].saved = c]
           v == [w EXCEPT !.objs[o].saved = c]
<1> SUFFICES WorldOK(v)
  OBVIOUS
<1>1. w \in Worlds /\ w.objs \in [Objects -> ObjectRecords] /\ w.focus \in FocusRecords
  BY DEF WorldOK, Worlds
<1>2. v = [w EXCEPT !.objs = n]
  OBVIOUS
<1>3. n \in [Objects -> ObjectRecords]
  BY <1>1 DEF ObjectRecords
<1>4. \A p \in Objects : n[p].hid = w.objs[p].hid /\ (Busy(n, p) <=> Busy(w.objs, p))
  BY <1>1 DEF ObjectRecords, Busy
<1> HIDE DEF n, v
<1>5. Agreed(w.focus, w.objs, w.ignored) /\ Alike(w.focus, w.focus)
  BY DEF WorldOK, Agreed, Good, Worlds, Alike
<1>6. Agreed(w.focus, n, w.ignored)
  BY <1>1, <1>4, <1>5, AlikeAgrees
<1> QED BY <1>1, <1>2, <1>3, <1>6 DEF WorldOK, Worlds, Valid, Agreed

\* A new configuration through the focus pointer, which is valid.
LEMMA RewriteKeeps ==
  ASSUME NEW w, WorldOK(w), NEW c \in Configs
  PROVE  WorldOK(Rewritten(w, c))
<1>1. w \in Worlds /\ w.focus \in FocusRecords /\ w.info \in References /\ Agreed(w.focus, w.objs, w.ignored)
  BY DEF WorldOK, Worlds, Agreed, Good
<1>2. CASE w.info = Unattached
  <2>1. Rewritten(w, c) = [w EXCEPT !.default_config = c]
    BY <1>2 DEF Rewritten, Unattached
  <2> QED BY <1>1, <1>2, <2>1 DEF WorldOK, Worlds, Valid
<1>3. ASSUME NEW h \in Hids, w.info = AtHid(h)
      PROVE  WorldOK(Rewritten(w, c))
  <2> DEFINE g == [w.focus EXCEPT !.hids[h].config = c]
  <2>1. Rewritten(w, c) = [w EXCEPT !.focus = g]
    BY <1>3 DEF Rewritten, AtHid
  <2>2. w.focus.hids[h] # None /\ w.focus.hids[h] \in Entries
    BY <1>1, <1>3 DEF WorldOK, Valid, EntryAt, AtHid, Unattached, FocusRecords
  <2>3. [w.focus.hids[h] EXCEPT !.config = c] \in Entries /\ [w.focus.hids[h] EXCEPT !.config = c].object = w.focus.hids[h].object
    BY <2>2 DEF Entries
  <2>4. [w.focus.hids[h] EXCEPT !.config = c] # None
    BY <2>3, FocusAssumption DEF Entries
  <2>5. g \in FocusRecords /\ g.hids = [w.focus.hids EXCEPT ![h] = [w.focus.hids[h] EXCEPT !.config = c]]
                           /\ g.kits = w.focus.kits /\ g.categories = w.focus.categories /\ g.all = w.focus.all
    BY <1>1, <2>3 DEF FocusRecords
  <2>6. Alike(g, w.focus) /\ g.hids[h] # None
    BY <1>1, <2>2, <2>3, <2>4, <2>5 DEF Alike, FocusRecords
  <2> HIDE DEF g
  <2>7. Agreed(g, w.objs, w.ignored)
    BY <1>1, <2>5, <2>6, AlikeAgrees
  <2>8. EntryAt(g, w.info) # None
    BY <1>3, <2>6 DEF EntryAt, AtHid
  <2> QED BY <1>1, <2>1, <2>5, <2>7, <2>8 DEF WorldOK, Worlds, Valid, Agreed, Good
<1>4. ASSUME NEW h \in Hids, w.info = AtKit(h)
      PROVE  WorldOK(Rewritten(w, c))
  <2> DEFINE k == KitOf(h)
             g == [w.focus EXCEPT !.kits[k].config = c]
  <2>1. Rewritten(w, c) = [w EXCEPT !.focus = g]
    BY <1>4 DEF Rewritten, AtKit
  <2>k. k \in Kits
    BY KitsOfHids
  <2>2. w.focus.kits[k] # None /\ w.focus.kits[k] \in Entries
    BY <1>1, <1>4, <2>k DEF WorldOK, Valid, EntryAt, AtKit, Unattached, FocusRecords
  <2>3. [w.focus.kits[k] EXCEPT !.config = c] \in Entries /\ [w.focus.kits[k] EXCEPT !.config = c].object = w.focus.kits[k].object
    BY <2>2 DEF Entries
  <2>4. [w.focus.kits[k] EXCEPT !.config = c] # None
    BY <2>3, FocusAssumption DEF Entries
  <2>5. g \in FocusRecords /\ g.kits = [w.focus.kits EXCEPT ![k] = [w.focus.kits[k] EXCEPT !.config = c]]
                           /\ g.hids = w.focus.hids /\ g.categories = w.focus.categories /\ g.all = w.focus.all
    BY <1>1, <2>3, <2>k DEF FocusRecords
  <2>6. Alike(g, w.focus) /\ g.kits[k] # None
    BY <1>1, <2>2, <2>3, <2>4, <2>5, <2>k DEF Alike, FocusRecords
  <2> HIDE DEF g
  <2>7. Agreed(g, w.objs, w.ignored)
    BY <1>1, <2>5, <2>6, AlikeAgrees
  <2>8. EntryAt(g, w.info) # None
    BY <1>4, <2>6 DEF EntryAt, AtKit
  <2> QED BY <1>1, <2>1, <2>5, <2>7, <2>8 DEF WorldOK, Worlds, Valid, Agreed, Good
<1> QED BY <1>1, <1>2, <1>3, <1>4 DEF References

\* handle makes nobody idle, and nobody who is idle busy.
LEMMA AnswerStates ==
  ASSUME NEW k \in {"simple", "table", "screen", "group"}, NEW s \in States, NEW own, NEW ev, NEW mode,
         NEW a \in Answers(k, s, own, ev, mode)
  PROVE  a.state \in States /\ (a.state = "idle" <=> s = "idle")
<1>1. CASE s = "idle" \/ ~own
  <2>1. a = Pass(s)
    BY <1>1 DEF Answers
  <2> QED BY <2>1 DEF Pass
<1>2. CASE s # "idle" /\ own
  <2> DEFINE T == {"close", "pointed", "grabbed", "triggered", "gizmo", "mouse", "drag", "place"}
  <2>1. s \in T /\ T \subseteq States /\ "idle" \notin T
    BY <1>2 DEF States
  <2>2. \A b : \A t \in T : /\ Pass(t).state = t /\ Seen(t).state = t
                             /\ Begin(t, b).state = t /\ End(t).state = t /\ Leave(t, b).state = t
    BY DEF Pass, Seen, Begin, End, Leave
  <2>3. {"close", "pointed", "grabbed", "triggered", "gizmo", "mouse", "drag", "place"} = T
    OBVIOUS
  <2>4. CASE k = "simple"
    <3>1. a = SimpleAnswer(s, ev, mode)
      BY <1>2, <2>4 DEF Answers
    <3>2. /\ "grabbed" \in T /\ "close" \in T /\ "triggered" \in T /\ "pointed" \in T
      OBVIOUS
    <3>3. a.state \in T
      <4> HIDE DEF T
      <4> QED BY <2>1, <2>2, <3>1, <3>2 DEF SimpleAnswer
    <3> QED BY <1>2, <2>1, <3>3
  <2>5. CASE k = "table"
    <3>1. a = TableAnswer(s, ev, mode)
      BY <1>2, <2>5 DEF Answers
    <3>2. /\ "grabbed" \in T /\ "close" \in T /\ "gizmo" \in T /\ "pointed" \in T
      OBVIOUS
    <3>3. a.state \in T
      <4> HIDE DEF T
      <4> QED BY <2>1, <2>2, <3>1, <3>2 DEF TableAnswer
    <3> QED BY <1>2, <2>1, <3>3
  <2>6. CASE k = "screen"
    <3>1. PICK soon \in BOOLEAN : a = ScreenAnswer(s, ev, mode, soon)
      BY <1>2, <2>6 DEF Answers
    <3>2. "drag" \in T /\ "mouse" \in T /\ "place" \in T
      OBVIOUS
    <3>3. a.state \in T
      <4> HIDE DEF T
      <4> QED BY <2>1, <2>2, <3>1, <3>2 DEF ScreenAnswer
    <3> QED BY <1>2, <2>1, <3>3
  <2>7. CASE k = "group"
    <3>1. a = Pass(s)
      BY <2>7 DEF Answers
    <3> QED BY <3>1 DEF Pass
  <2> QED BY <2>4, <2>5, <2>6, <2>7
<1> QED BY <1>1, <1>2

\* What is left of a configuration is one.
LEMMA ConfigsClosed ==
  /\ \A c \in Configs : \A flag : DragConfig(c, flag) \in Configs
  /\ \A c \in Configs : PlaceConfig(c) \in Configs
<1>1. Configs = SUBSET Default
  BY SceneAssumption
<1> QED BY <1>1 DEF DragConfig, PlaceConfig

\* A request is carried out on the object in focus.
LEMMA RequestKeeps ==
  ASSUME NEW w, WorldOK(w), NEW o \in Objects, NEW a, NEW h,
         a.state \in States, a.state = "idle" <=> w.objs[o].state = "idle"
  PROVE  WorldOK(Requested(w, o, a, h))
<1> DEFINE c == Info(w).config
           moved == [w EXCEPT !.objs[o].state = a.state]
           saving == [moved EXCEPT !.objs[o].saved = c]
<1>1. w \in Worlds /\ c \in Configs
  BY InfoTypes DEF WorldOK
<1>2. WorldOK(moved)
  BY StateKeeps
<1>3. moved.att = w.att /\ w.att \in References /\ w.objs[o].saved \in Configs
  BY <1>1 DEF Worlds, ObjectRecords
<1>4. Unattached \in References
  BY DEF References
<1>5. WorldOK(saving)
  <2> HIDE DEF moved, c
  <2> QED BY <1>1, <1>2, SaveKeeps
<1>6. Requested(w, o, a, h) =
        CASE a.request = "begin"  -> Rewritten(saving, DragConfig(c, a.what))
          [] a.request = "end"    -> Rewritten(moved, w.objs[o].saved)
          [] a.request = "detach" -> Detach(moved, IF w.att.level = a.what THEN w.att ELSE Unattached, o, h)
          [] OTHER                -> moved
  BY DEF Requested
<1> HIDE DEF saving, moved, c
<1>7. WorldOK(Rewritten(saving, DragConfig(c, a.what)))
  BY <1>1, <1>5, ConfigsClosed, RewriteKeeps
<1>8. WorldOK(Rewritten(moved, w.objs[o].saved))
  BY <1>2, <1>3, RewriteKeeps
<1>9. \A att \in References : WorldOK(Detach(moved, att, o, h))
  BY <1>2, DetachKeeps
<1>10. (IF w.att.level = a.what THEN w.att ELSE Unattached) \in References
  BY <1>3, <1>4
<1> QED BY <1>2, <1>6, <1>7, <1>8, <1>9, <1>10

\* Asking an object, or the null pointer.
LEMMA AskKeeps ==
  ASSUME NEW w, WorldOK(w), NEW o \in Objects \cup {None}, NEW mode, NEW r \in Asked(w, o, mode)
  PROVE  WorldOK(r.world)
<1>1. CASE o = None
  BY <1>1 DEF Asked
<1>2. CASE o # None
  <2>1. PICK a \in Answers(Kind[o], w.objs[o].state, w.objs[o].hid = hid, e, mode) :
          r = [handled |-> a.handled, world |-> Requested(w, o, a, hid)]
    BY <1>2 DEF Asked
  <2>2. o \in Objects /\ w.objs[o].state \in States /\ Kind[o] \in {"simple", "table", "screen", "group"}
    BY <1>2, SceneAssumption DEF WorldOK, Worlds, ObjectRecords
  <2>3. a.state \in States /\ (a.state = "idle" <=> w.objs[o].state = "idle")
    BY <2>2, AnswerStates
  <2> QED BY <2>1, <2>2, <2>3, RequestKeeps
<1> QED BY <1>1, <1>2

\* Moving the focus to what is hit, or away.
LEMMA RefocusKeeps ==
  ASSUME NEW w, WorldOK(w), hid \in Hids, NEW hit \in Hits
  PROVE  WorldOK(Refocused(w, hit))
<1> DEFINE freed == IF Info(w).object # None THEN Detach(w, w.att, Info(w).object, hid) ELSE w
<1>1. w \in Worlds /\ w.att \in References /\ w.default_config \in Configs /\ Info(w).object \in Objects \cup {None}
  BY InfoTypes DEF WorldOK, Worlds
<1>2. WorldOK(freed)
  BY <1>1, DetachKeeps
<1>3. hit.target = None \/ (hit.target \in Objects /\ hit.rfa # "grab")
  BY DEF Hits
<1>4. Refocused(w, hit) = IF hit.target = Info(w).object THEN w
                          ELSE IF hit.target = None THEN freed
                          ELSE Attach(freed, hit.rfa, AtHid(hid), hit.target, w.default_config, hid, hit.mode)
  BY DEF Refocused
<1> HIDE DEF freed
<1>5. CASE hit.target \in Objects /\ hit.rfa # "grab"
  <2>1. WorldOK(Attach(freed, hit.rfa, AtHid(hid), hit.target, w.default_config, hid, hit.mode))
    BY <1>1, <1>2, <1>5, AttachHidKeeps
  <2> QED BY <1>2, <1>4, <2>1
<1> QED BY <1>2, <1>3, <1>4, <1>5

\* check_for_detach, behind which those who had the focus of the device or of its kit
\* are told.
LEMMA CheckKeeps ==
  ASSUME NEW w, WorldOK(w), w.info = Unattached, NEW h \in Hids
  PROVE  WorldOK([Notify(w, Holders(w.focus, {h}, KitOf(h)), h) EXCEPT !.focus = Checked(@, h)])
<1> DEFINE S == {h}
           L == Holders(w.focus, S, KitOf(h))
           told == Notify(w, L, h)
           g == Checked(w.focus, h)
           v == [told EXCEPT !.focus = Checked(@, h)]
<1> SUFFICES WorldOK(v)
  OBVIOUS
<1>1. /\ w \in Worlds /\ w.focus \in FocusRecords /\ w.focus.all = None
      /\ Agreed(w.focus, w.objs, w.ignored)
  BY DEF WorldOK, Worlds, Agreed, Good
<1>2. KitOf(h) \in Kits /\ is_part_of_kit(h.category)
  BY KitsOfHids
<1>3. S \in SUBSET Hids /\ S = {h}
  OBVIOUS
<1>4. L \in SUBSET Objects /\ HeldBy(w.focus, S, KitOf(h), L)
  <2> HIDE DEF S
  <2> QED BY <1>1, <1>2, <1>3, HoldersFacts
<1>5. /\ told \in Worlds /\ told.focus = w.focus /\ told.info = w.info
      /\ Told(told.objs, w.objs, told.ignored, L) /\ w.ignored \subseteq told.ignored
  <2> HIDE DEF L
  <2> QED BY <1>1, <1>4, NotifyTells
<1>6. v = [told EXCEPT !.focus = Checked(told.focus, h)]
  OBVIOUS
<1>7. g \in FocusRecords /\ Fewer(g, w.focus)
  BY <1>1, <1>2, CheckFewer
<1>8. /\ g.all = w.focus.all
      /\ \A x \in Hids : g.hids[x] = IF x = h THEN None ELSE w.focus.hids[x]
      /\ \A k \in Kits : g.kits[k] = IF k = KitOf(h) THEN None ELSE w.focus.kits[k]
  BY <1>1, <1>2 DEF Checked, FocusRecords
<1> HIDE DEF v, g, told, L, S
<1>9. v = [told EXCEPT !.focus = g]
  BY <1>5, <1>6 DEF g
<1>10. /\ \A x \in S : w.focus.hids[x] # None => w.focus.hids[x].object \in L
       /\ w.focus.kits[KitOf(h)] # None => w.focus.kits[KitOf(h)].object \in L
       /\ \A p \in L : \/ \E x \in S : w.focus.hids[x] # None /\ w.focus.hids[x].object = p
                       \/ w.focus.kits[KitOf(h)] # None /\ w.focus.kits[KitOf(h)].object = p
  BY <1>4 DEF HeldBy
<1>11. /\ \A x \in Hids : w.focus.hids[x] # None /\ g.hids[x] = None => w.focus.hids[x].object \in L
       /\ \A k \in Kits : w.focus.kits[k] # None /\ g.kits[k] = None => w.focus.kits[k].object \in L
  BY <1>3, <1>8, <1>10
<1>12. \A x \in Hids : g.hids[x] # None /\ g.hids[x].object \in L => Kind[g.hids[x].object] = "table"
  <2> SUFFICES ASSUME NEW x \in Hids, g.hids[x] # None, g.hids[x].object \in L, Kind[g.hids[x].object] # "table"
               PROVE  FALSE
    OBVIOUS
  <2>1. x # h /\ g.hids[x] = w.focus.hids[x]
    BY <1>8
  <2>2. w.focus.hids[h] # None => w.focus.hids[h].object # w.focus.hids[x].object
    BY <1>1, <2>1, OneEntry
  <2>3. w.focus.kits[KitOf(h)] # None => w.focus.kits[KitOf(h)].object # w.focus.hids[x].object
    BY <1>1, <1>2, <2>1, OneEntry
  <2> QED BY <1>3, <1>10, <2>1, <2>2, <2>3
<1>13. \A k \in Kits : g.kits[k] # None => g.kits[k].object \notin L
  <2> SUFFICES ASSUME NEW k \in Kits, g.kits[k] # None, g.kits[k].object \in L
               PROVE  FALSE
    OBVIOUS
  <2>1. k # KitOf(h) /\ g.kits[k] = w.focus.kits[k]
    BY <1>8
  <2>2. w.focus.hids[h] # None => w.focus.hids[h].object # w.focus.kits[k].object
    BY <1>1, <2>1, OneEntry
  <2>3. w.focus.kits[KitOf(h)] # None => w.focus.kits[KitOf(h)].object # w.focus.kits[k].object
    BY <1>1, <1>2, <2>1, OneEntry
  <2> QED BY <1>3, <1>10, <2>1, <2>2, <2>3
<1>14. Agreed(g, told.objs, told.ignored)
  BY <1>1, <1>4, <1>5, <1>7, <1>11, <1>12, <1>13, TakenAway
<1> QED BY <1>1, <1>5, <1>7, <1>8, <1>9, <1>14 DEF WorldOK, Worlds, Valid, Agreed, Good

\* The inductive invariant.
SceneInv ==
  /\ WorldOK(World)
  /\ phase # "idle" => hid \in Hids
  /\ phase = "idle" => foc_info = Unattached /\ foc_att = Unattached
  /\ todo \in Seq(Objects)

\* The variables become what an operator on the world makes of them.
LEMMA BecomeWorld ==
  ASSUME NEW w, WorldOK(w), Become(w)
  PROVE  WorldOK(World)' /\ World' = w /\ foc_info' = w.info /\ foc_att' = w.att
<1>1. w = [focus |-> w.focus, default_config |-> w.default_config, objs |-> w.objs,
           ignored |-> w.ignored, info |-> w.info, att |-> w.att]
  BY DEF WorldOK, Worlds
<1>2. World' = w
  BY <1>1 DEF World, Become
<1>3. WorldOK(World')
  BY <1>2
<1>4. WorldOK(World)'
  BY <1>3 DEF World, WorldOK, Worlds, Own, Valid, Separate
<1> QED BY <1>2, <1>4 DEF Become

\* A step that leaves the world alone.
LEMMA SameWorld ==
  ASSUME WorldOK(World), UNCHANGED world_vars
  PROVE  WorldOK(World)'
BY DEF world_vars, World, WorldOK

\* The end of a dispatch.
LEMMA ReturnKeeps ==
  ASSUME NEW w, WorldOK(w), Return(w)
  PROVE  SceneInv'
<1> DEFINE v == [w EXCEPT !.info = Unattached, !.att = Unattached]
<1>1. WorldOK(v) /\ v.info = Unattached /\ v.att = Unattached
  BY DEF WorldOK, Worlds, Valid, References
<1>2. Become(v) /\ phase' = "idle" /\ todo' = <<>>
  BY DEF Return
<1>3. todo' \in Seq(Objects)
  BY <1>2
<1> HIDE DEF v
<1> QED BY <1>1, <1>2, <1>3, BecomeWorld DEF SceneInv

\* A step that asks an object.
LEMMA AskStep ==
  ASSUME NEW w, WorldOK(w), hid \in Hids, NEW o \in Objects \cup {None}, NEW mode,
         NEW next, next # "idle", NEW rest \in Seq(Objects), Ask(w, o, mode, next, rest)
  PROVE  SceneInv'
<1>1. PICK r \in Asked(w, o, mode) :
        \/ Return(r.world)
        \/ Become(r.world) /\ phase' = next /\ todo' = rest /\ UNCHANGED event_vars
  BY DEF Ask
<1>2. WorldOK(r.world)
  BY AskKeeps
<1>3. CASE Return(r.world)
  BY <1>2, <1>3, ReturnKeeps
<1>4. CASE Become(r.world) /\ phase' = next /\ todo' = rest /\ UNCHANGED event_vars
  BY <1>2, <1>4, BecomeWorld DEF SceneInv, event_vars
<1> QED BY <1>1, <1>3, <1>4

\* The object in focus.
LEMMA FocusObject ==
  ASSUME WorldOK(World)
  PROVE  Config \in Configs /\ InFocus \in Objects \cup {None}
BY InfoTypes DEF WorldOK, Config, InFocus

\* The list of all hierarchies, the one of the object in focus first, consists of objects.
LEMMA HierarchiesTyped ==
  ASSUME WorldOK(World)
  PROVE  Hierarchies \in Seq(Objects)
<1>1. Roots \in Seq(Objects) /\ Roots # <<>>
  BY SceneAssumption
<1>2. FirstRoot \in DOMAIN Roots
  <2>1. CASE InFocus = None
    BY <1>1, <2>1 DEF FirstRoot
  <2>2. CASE InFocus # None
    <3>1. \E i \in DOMAIN Roots : InHierarchy(InFocus, Roots[i])
      BY <2>2, FocusObject, SceneAssumption
    <3> QED BY <2>2, <3>1 DEF FirstRoot
  <2> QED BY <2>1, <2>2
<1>3. DOMAIN Roots = 1 .. Len(Roots) /\ Len(Roots) \in Nat /\ \A i \in 1 .. Len(Roots) : Roots[i] \in Objects
  BY <1>1
<1> DEFINE H == [i \in DOMAIN Roots |-> IF i = 1 THEN Roots[FirstRoot]
                                        ELSE IF i <= FirstRoot THEN Roots[i - 1] ELSE Roots[i]]
<1>4. \A i \in 1 .. Len(Roots) : H[i] \in Objects
  <2> SUFFICES ASSUME NEW i \in 1 .. Len(Roots) PROVE H[i] \in Objects
    OBVIOUS
  <2>1. i # 1 => i - 1 \in 1 .. Len(Roots)
    BY <1>3
  <2> QED BY <1>2, <1>3, <2>1
<1>5. H \in [1 .. Len(Roots) -> Objects]
  BY <1>3, <1>4
<1>6. H \in Seq(Objects)
  BY <1>3, <1>5
<1> QED BY <1>6 DEF Hierarchies

\* In the beginning nobody has the focus.
LEMMA SceneStarts == SceneInit => SceneInv
<1> SUFFICES ASSUME SceneInit PROVE SceneInv
  OBVIOUS
<1>1. Default \in Configs
  BY SceneAssumption
<1>2. focus \in FocusRecords /\ Separate(focus) /\ focus.all = None
      /\ (\A h \in Hids : focus.hids[h] = None) /\ (\A k \in Kits : focus.kits[k] = None)
  BY DEF SceneInit, FocusInit, FocusRecords, Separate, AllIsAlone, KitExcludesHids,
         KitExcludesCategories, CategoriesDisjoint
<1>3. objs \in [Objects -> ObjectRecords] /\ \A o \in Objects : ~Busy(objs, o)
  BY <1>1 DEF SceneInit, ObjectRecords, States, Busy
<1>4. Own(focus, objs, ignored)
  BY <1>2, <1>3 DEF Own, DevicesHeard, KitsHeard, BusyHolds
<1>5. World \in Worlds /\ Valid(World)
  BY <1>1, <1>2, <1>3 DEF SceneInit, World, Worlds, References, Valid
<1>6. World.focus = focus /\ World.objs = objs /\ World.ignored = ignored
  BY DEF World
<1>7. todo \in Seq(Objects)
  BY DEF SceneInit
<1> QED BY <1>2, <1>4, <1>5, <1>6, <1>7 DEF SceneInv, WorldOK, SceneInit

\* The head of dispatch refers to an entry that is there.
LEMMA EventKeeps ==
  ASSUME SceneInv, NEW h \in Hids, NEW ev, Event(h, ev)
  PROVE  SceneInv'
<1> DEFINE ref == CASE focus.kits[KitOf(h)] # None -> AtKit(h)
                    [] focus.kits[KitOf(h)] = None /\ focus.hids[h] # None -> AtHid(h)
                    [] OTHER -> Unattached
           v == [World EXCEPT !.info = ref, !.att = ref]
<1>1. /\ foc_info' = ref /\ foc_att' = ref /\ phase' = "grab" /\ hid' = h
      /\ UNCHANGED <<focus, default_config, objs, ignored, todo>>
  BY DEF Event
<1>2. ref \in References /\ (ref = Unattached \/ EntryAt(focus, ref) # None)
  BY KitsOfHids DEF References, EntryAt, AtHid, AtKit, Unattached
<1> HIDE DEF ref
<1>3. WorldOK(v)
  BY <1>2 DEF SceneInv, WorldOK, Worlds, World, Valid
<1>4. Become(v)
  BY <1>1 DEF Become, World
<1> HIDE DEF v
<1> QED BY <1>1, <1>3, <1>4, BecomeWorld DEF SceneInv

\* The switch of a mode.
LEMMA ToggleKeeps ==
  ASSUME SceneInv, NEW h \in Hids, NEW what, Toggle(h, what)
  PROVE  SceneInv'
<1>1. WorldOK(World) /\ phase = "idle" /\ World.info = Unattached /\ World.att = Unattached /\ World.focus = focus
  BY DEF SceneInv, Toggle, World
<1> DEFINE v == [Notify(World, Holders(focus, {h}, KitOf(h)), h) EXCEPT !.focus = Checked(@, h)]
<1>2. WorldOK(v)
  BY <1>1, CheckKeeps
<1>3. v.info = Unattached /\ v.att = Unattached
  <2>1. Holders(focus, {h}, KitOf(h)) \in SUBSET Objects
    BY <1>1, KitsOfHids, HoldersFacts DEF WorldOK, Worlds
  <2>2. Notify(World, Holders(focus, {h}, KitOf(h)), h).info = Unattached
        /\ Notify(World, Holders(focus, {h}, KitOf(h)), h).att = Unattached
        /\ Notify(World, Holders(focus, {h}, KitOf(h)), h) \in Worlds
    BY <1>1, <2>1, NotifyTells DEF WorldOK
  <2> QED BY <2>2 DEF Worlds
<1> HIDE DEF v
<1>4. (Become(v) \/ Become(World)) /\ UNCHANGED <<event_vars, phase, todo>>
  BY DEF Toggle, v
<1> QED BY <1>1, <1>2, <1>3, <1>4, BecomeWorld DEF SceneInv, event_vars

\* A step of a dispatch.
LEMMA DispatchKeeps ==
  ASSUME SceneInv, Dispatch
  PROVE  SceneInv'
<1>1. WorldOK(World) /\ (phase # "idle" => hid \in Hids) /\ todo \in Seq(Objects)
  BY DEF SceneInv
<1>2. InFocus \in Objects \cup {None} /\ Config \in Configs
  BY <1>1, FocusObject
<1>3. <<>> \in Seq(Objects) /\ \A o \in Objects : Children[o] \in Seq(Objects)
  BY SceneAssumption
<1>4. todo # <<>> => Head(todo) \in Objects /\ Tail(todo) \in Seq(Objects)
  BY <1>1
<1>g. ASSUME NEW p, p # "idle", phase # "idle", Goto(p), UNCHANGED world_vars
      PROVE  SceneInv'
  BY <1>1, <1>g, SameWorld DEF SceneInv, Goto, event_vars
<1>5. ASSUME NEW o \in Objects, Grab(o)
      PROVE  SceneInv'
  <2> DEFINE v == Attach(World, "grab", AtKit(hid), o, PlaceConfig(Config), hid, "none")
  <2>1. hid \in Hids /\ Kind[o] = "screen" /\ World.objs[o].state = "idle" /\ PlaceConfig(Config) \in Configs
    BY <1>1, <1>2, <1>5, ConfigsClosed DEF Grab, World
  <2>2. WorldOK(v)
    BY <1>1, <2>1, AttachKitKeeps
  <2> HIDE DEF v
  <2>3. Become(v) /\ phase' = "spatial" /\ UNCHANGED <<event_vars, todo>>
    BY <1>5 DEF Grab, Goto, v
  <2> QED BY <1>1, <2>1, <2>2, <2>3, BecomeWorld DEF SceneInv, event_vars
<1>6. CASE NoGrab
  BY <1>6, <1>g DEF NoGrab
<1>7. CASE NoSpatial
  BY <1>7, <1>g DEF NoSpatial
<1>8. CASE SpatialButton
  BY <1>1, <1>2, <1>3, <1>8, AskStep DEF SpatialButton
<1>9. CASE SpatialPose
  BY <1>1, <1>2, <1>3, <1>9, AskStep DEF SpatialPose
<1>10. CASE SpatialRefocus
  <2>1. PICK hit \in Hits : Ask(Refocused(World, hit), Info(Refocused(World, hit)).object, hit.mode, "roots", <<>>)
    BY <1>10 DEF SpatialRefocus
  <2> DEFINE v == Refocused(World, hit)
  <2>2. hid \in Hids
    BY <1>1, <1>10 DEF SpatialRefocus
  <2>3. WorldOK(v)
    BY <1>1, <2>2, RefocusKeeps
  <2> HIDE DEF v
  <2>4. Info(v).object \in Objects \cup {None}
    BY <2>3, InfoTypes DEF WorldOK
  <2>5. Ask(v, Info(v).object, hit.mode, "roots", <<>>)
    BY <2>1 DEF v
  <2> QED BY <1>3, <2>2, <2>3, <2>4, <2>5, AskStep
<1>11. CASE DispatchFocus
  <2> DEFINE rest == IF "recursive" \in Config THEN Children[InFocus] ELSE <<>>
  <2>1. hid \in Hids /\ InFocus \in Objects /\ Ask(World, InFocus, "focus", "kids", rest)
    BY <1>1, <1>2, <1>11 DEF DispatchFocus
  <2>2. rest \in Seq(Objects)
    BY <1>3, <2>1
  <2> HIDE DEF rest
  <2> QED BY <1>1, <2>1, <2>2, AskStep
<1>12. CASE NoFocus
  BY <1>12, <1>g DEF NoFocus
<1>13. CASE StartRoots
  <2>1. todo' \in Seq(Objects)
    BY <1>1, <1>3, <1>13, HierarchiesTyped DEF StartRoots
  <2> QED BY <1>1, <1>13, <2>1, SameWorld DEF SceneInv, StartRoots, event_vars
<1>14. CASE VisitFocus
  <2>1. (IF "recursive" \in Config THEN <<>> ELSE Children[Head(todo)]) \in Seq(Objects) /\ Tail(todo) \in Seq(Objects)
    BY <1>3, <1>4, <1>14 DEF VisitFocus
  <2>2. todo' = (IF "recursive" \in Config THEN <<>> ELSE Children[Head(todo)]) \o Tail(todo)
    BY <1>14 DEF VisitFocus
  <2>3. todo' \in Seq(Objects)
    BY <2>1, <2>2
  <2> QED BY <1>1, <1>14, <2>3, SameWorld DEF SceneInv, VisitFocus, event_vars
<1>15. CASE Visit
  <2> DEFINE rest == Children[Head(todo)] \o Tail(todo)
  <2>1. Children[Head(todo)] \in Seq(Objects) /\ Tail(todo) \in Seq(Objects) /\ Head(todo) \in Objects
    BY <1>3, <1>4, <1>15 DEF Visit
  <2>2. rest \in Seq(Objects)
    BY <2>1
  <2>3. /\ hid \in Hids /\ phase # "idle"
        /\ Ask(World, Head(todo), IF phase = "kids" THEN "focus" ELSE "structural", phase, rest)
    BY <1>1, <1>15 DEF Visit
  <2> HIDE DEF rest
  <2> QED BY <1>1, <2>1, <2>2, <2>3, AskStep
<1>16. CASE KidsDone
  BY <1>16, <1>g DEF KidsDone
<1>17. CASE Unhandled
  BY <1>1, <1>17, ReturnKeeps DEF Unhandled
<1> QED BY <1>5, <1>6, <1>7, <1>8, <1>9, <1>10, <1>11, <1>12, <1>13, <1>14, <1>15, <1>16, <1>17 DEF Dispatch

\* Every step keeps the inductive invariant.
LEMMA SceneStep ==
  ASSUME SceneInv, [SceneNext]_scene_vars
  PROVE  SceneInv'
<1>1. ASSUME NEW h \in Hids, NEW ev, Event(h, ev)
      PROVE  SceneInv'
  BY <1>1, EventKeeps
<1>2. ASSUME NEW h \in Hids, NEW what, Toggle(h, what)
      PROVE  SceneInv'
  BY <1>2, ToggleKeeps
<1>3. CASE Dispatch
  BY <1>3, DispatchKeeps
<1>4. CASE UNCHANGED scene_vars
  <2>1. UNCHANGED world_vars /\ UNCHANGED <<hid, phase, todo, foc_info, foc_att>>
    BY <1>4 DEF scene_vars, event_vars, world_vars
  <2> QED BY <2>1, SameWorld DEF SceneInv
<1> QED BY <1>1, <1>2, <1>3, <1>4 DEF SceneNext

\* The invariant holds in any scene.
LEMMA SceneInvariant == SceneSpec => []SceneInv
<1>1. SceneInv /\ [SceneNext]_scene_vars => SceneInv'
  BY SceneStep
<1> QED BY <1>1, SceneStarts, PTL DEF SceneSpec

\* FocusPointerValid: while an event is dispatched, rfi.foc_info_ptr is never left
\* pointing to an entry that attach_focus or detach_focus erased.
THEOREM ScenePointerValid == SceneSpec => []FocusPointerValid
<1>1. SceneInv => FocusPointerValid
  BY DEF SceneInv, WorldOK, Valid, World, FocusPointerValid
<1> QED BY <1>1, SceneInvariant, PTL

\* HolderListens: attach_focus stores an entry only for an object that took the hid of
\* the event, and who gets idle has no entry left, however many kits there are.
THEOREM SceneHolderListens == SceneSpec => []HolderListens
<1>1. SceneInv => HolderListens
  BY DEF SceneInv, WorldOK, Own, DevicesHeard, Busy, World, HolderListens
<1> QED BY <1>1, SceneInvariant, PTL

\* BusyHasFocus: an object that focus_change and handle keep busy has its entry, but for
\* those that did not listen to the detachment.
THEOREM SceneBusyHasFocus == SceneSpec => []BusyHasFocus
<1>1. SceneInv => BusyHasFocus
  BY DEF SceneInv, WorldOK, Own, BusyHolds, Busy, Holds, World, BusyHasFocus
<1> QED BY <1>1, SceneInvariant, PTL

\* Separated: the attachments stay separated under the operations of a dispatch, which
\* are not the single steps of Focus.
THEOREM SceneSeparated == SceneSpec => []Separated
<1>1. SceneInv => Separated
  BY DEF SceneInv, WorldOK, World, Separated
<1> QED BY <1>1, SceneInvariant, PTL
--------------------------------------------------------------------------------
\* The flags that drag_begin takes from a configuration, and the rule that the entry of
\* a drag has none of them.
Loose == {"respatial", "structural", "recursive"}
Fixed(w) == \A x \in Hids : DragsAt(w, x) => w.focus.hids[x].config \cap Loose = {}

\* In a dispatch for h the attachment and the focus pointer are those of h or of its
\* kit, and the entry of h, if there is one, is the one pointed to.
Led(w, h) ==
  /\ w.info \in {Unattached, AtHid(h), AtKit(h)} /\ w.att \in {Unattached, AtHid(h), AtKit(h)}
  /\ w.focus.hids[h] # None => w.info = AtHid(h)

\* References differ.
LEMMA ReferencesDiffer ==
  /\ \A x, y \in Hids : AtHid(x) = AtHid(y) => x = y
  /\ \A x, y \in Hids : AtHid(x) # AtKit(y)
  /\ \A x \in Hids : AtHid(x) # Unattached /\ AtKit(x) # Unattached
BY DEF AtHid, AtKit, Unattached

\* Without a new drag all drags stay fixed.
LEMMA FixedStays ==
  ASSUME NEW w, NEW v, Fixed(w), NoNewDrag(v, w)
  PROVE  Fixed(v)
BY DEF Fixed, NoNewDrag

\* With the same entries, nobody drags who did not before.
LEMMA SameEntries ==
  ASSUME NEW w, NEW v, v.focus = w.focus,
         \A x \in Hids : w.focus.hids[x] # None => w.focus.hids[x].object \in Objects,
         \A p \in Objects : v.objs[p].hid = w.objs[p].hid /\ (v.objs[p].state \in Drags => w.objs[p].state \in Drags)
  PROVE  NoNewDrag(v, w)
BY DEF NoNewDrag, DragsAt

\* Who is told that it loses the focus does not begin a drag.
LEMMA ToldDrags ==
  ASSUME NEW w, NEW v, NEW ig, NEW L, Told(v.objs, w.objs, ig, L),
         v.focus \in FocusRecords,
         \A x \in Hids : v.focus.hids[x] # None => v.focus.hids[x] = w.focus.hids[x]
  PROVE  NoNewDrag(v, w)
<1> SUFFICES ASSUME NEW x \in Hids, DragsAt(v, x)
             PROVE  DragsAt(w, x) /\ v.focus.hids[x] = w.focus.hids[x]
  BY DEF NoNewDrag
<1> DEFINE p == v.focus.hids[x].object
<1>1. p \in Objects
  BY DEF DragsAt, FocusRecords, Entries
<1>2. v.objs[p] = w.objs[p]
  BY <1>1 DEF Told, Busy, DragsAt, Drags
<1> QED BY <1>2 DEF DragsAt

\* What detach_focus takes away.
LEMMA DetachDrags ==
  ASSUME NEW w, WorldOK(w), NEW att \in References, NEW o \in Objects, NEW h
  PROVE  LET v == Detach(w, att, o, h)
         IN /\ NoNewDrag(v, w)
            /\ \A x \in Hids : \/ v.focus.hids[x] = w.focus.hids[x]
                               \/ v.focus.hids[x] = None /\ att = AtHid(x) /\ w.focus.hids[x].object = o
            /\ v.att = Unattached /\ v.info \in {Unattached, w.info}
            /\ EntryAt(w.focus, att) # None /\ EntryAt(w.focus, att).object = o
                 => v.info = Unattached /\ \A x \in Hids : att = AtHid(x) => v.focus.hids[x] = None
<1> DEFINE y == EntryAt(w.focus, att)
           g == Detached(w.focus, att, o)
           told == Notify(w, {o}, h)
           v == Detach(w, att, o, h)
<1> SUFFICES /\ NoNewDrag(v, w)
             /\ \A x \in Hids : \/ v.focus.hids[x] = w.focus.hids[x]
                                \/ v.focus.hids[x] = None /\ att = AtHid(x) /\ w.focus.hids[x].object = o
             /\ v.att = Unattached /\ v.info \in {Unattached, w.info}
             /\ y # None /\ y.object = o
                  => v.info = Unattached /\ \A x \in Hids : att = AtHid(x) => v.focus.hids[x] = None
  OBVIOUS
<1>1. w \in Worlds /\ w.focus \in FocusRecords
  BY DEF WorldOK, Worlds
<1>2. CASE ~(y # None /\ y.object = o)
  <2>1. v = [w EXCEPT !.att = Unattached]
    BY <1>2 DEF Detach
  <2> HIDE DEF v
  <2>2. v.focus = w.focus /\ v.objs = w.objs /\ v.info = w.info /\ v.att = Unattached
    BY <1>1, <2>1 DEF Worlds
  <2> QED BY <1>2, <2>2 DEF NoNewDrag, DragsAt
<1>3. CASE y # None /\ y.object = o
  <2>1. told \in Worlds /\ told.focus = w.focus /\ Told(told.objs, w.objs, told.ignored, {o})
    BY <1>1, NotifyTells
  <2>2. v = [told EXCEPT !.focus = Detached(told.focus, att, o), !.info = Unattached, !.att = Unattached]
    BY <1>3 DEF Detach
  <2>3. \A x \in Hids : g.hids[x] = IF att = AtHid(x) THEN None ELSE w.focus.hids[x]
    <3>1. ASSUME NEW z \in Hids, att = AtHid(z)
          PROVE  \A x \in Hids : g.hids[x] = IF att = AtHid(x) THEN None ELSE w.focus.hids[x]
      <4>1. g = [w.focus EXCEPT !.hids[z] = None]
        BY <1>3, <3>1 DEF Detached, EntryAt, AtHid, Freed
      <4>2. \A x \in Hids : g.hids[x] = IF x = z THEN None ELSE w.focus.hids[x]
        BY <1>1, <4>1 DEF FocusRecords
      <4> HIDE DEF g
      <4> QED BY <3>1, <4>2, ReferencesDiffer
    <3>2. ASSUME NEW z \in Hids, att = AtKit(z)
          PROVE  \A x \in Hids : g.hids[x] = IF att = AtHid(x) THEN None ELSE w.focus.hids[x]
      <4>1. g = [w.focus EXCEPT !.kits[KitOf(z)] = Freed(@, o)]
        BY <3>2 DEF Detached, AtKit
      <4>2. \A x \in Hids : g.hids[x] = w.focus.hids[x]
        BY <1>1, <4>1 DEF FocusRecords
      <4> HIDE DEF g
      <4> QED BY <3>2, <4>2, ReferencesDiffer
    <3>3. att # Unattached
      BY <1>3 DEF EntryAt, Unattached
    <3> QED BY <3>1, <3>2, <3>3 DEF References
  <2>4. g \in FocusRecords
    <3>1. \/ \E z \in Hids : att = AtHid(z)
          \/ \E k \in Kits : att = [level |-> "kit", kit |-> k]
      BY <1>3, KitsOfHids DEF References, EntryAt, AtKit, Unattached
    <3>2. att \in Attachments
      BY <3>1 DEF Attachments, AtHid
    <3> QED BY <1>1, <3>2, DetachFewer
  <2>5. \A x \in Hids : att = AtHid(x) => w.focus.hids[x].object = o
    BY <1>3 DEF EntryAt, AtHid
  <2>6. v.focus = g /\ v.objs = told.objs /\ v.info = Unattached /\ v.att = Unattached
    <3> HIDE DEF told, v
    <3> QED BY <2>1, <2>2 DEF Worlds
  <2> HIDE DEF v, told, g
  <2>7. \A x \in Hids : v.focus.hids[x] # None => v.focus.hids[x] = w.focus.hids[x]
    BY <2>3, <2>6
  <2>8. NoNewDrag(v, w)
    BY <2>1, <2>4, <2>6, <2>7, ToldDrags
  <2> QED BY <2>3, <2>5, <2>6, <2>8
<1> QED BY <1>2, <1>3

\* From w to v only the configuration of the entry pointed to is changed, to c.
Rewrote(v, w, c) ==
  /\ v.objs = w.objs
  /\ \A x \in Hids : LET y == v.focus.hids[x]
                     IN /\ y = None <=> w.focus.hids[x] = None
                        /\ y # None => y.object = w.focus.hids[x].object
                        /\ w.info = AtHid(x) => y.config = c
                        /\ w.info # AtHid(x) => y = w.focus.hids[x]

\* What a new configuration through the focus pointer changes.
LEMMA RewriteDrags ==
  ASSUME NEW w, WorldOK(w), NEW c \in Configs
  PROVE  Rewrote(Rewritten(w, c), w, c)
<1>1. w \in Worlds /\ w.focus \in FocusRecords /\ w.info \in References
  BY DEF WorldOK, Worlds
<1>2. CASE w.info = Unattached
  <2>1. Rewritten(w, c) = [w EXCEPT !.default_config = c]
    BY <1>2 DEF Rewritten, Unattached
  <2>2. Rewritten(w, c).objs = w.objs /\ Rewritten(w, c).focus = w.focus
    BY <1>1, <2>1 DEF Worlds
  <2> QED BY <1>2, <2>2, ReferencesDiffer DEF Rewrote
<1>3. ASSUME NEW h \in Hids, w.info = AtKit(h)
      PROVE  Rewritten(w, c).objs = w.objs /\ Rewritten(w, c).focus.hids = w.focus.hids
  <2>1. Rewritten(w, c) = [w EXCEPT !.focus.kits[KitOf(h)].config = c]
    BY <1>3 DEF Rewritten, AtKit
  <2> QED BY <1>1, <2>1 DEF Worlds, FocusRecords
<1>4. ASSUME NEW h \in Hids, w.info = AtHid(h)
      PROVE  /\ Rewritten(w, c).objs = w.objs
             /\ w.focus.hids[h] # None
             /\ \A x \in Hids \ {h} : Rewritten(w, c).focus.hids[x] = w.focus.hids[x]
             /\ Rewritten(w, c).focus.hids[h] # None
             /\ Rewritten(w, c).focus.hids[h].object = w.focus.hids[h].object
             /\ Rewritten(w, c).focus.hids[h].config = c
  <2> DEFINE y == [w.focus.hids[h] EXCEPT !.config = c]
  <2>1. Rewritten(w, c) = [w EXCEPT !.focus = [w.focus EXCEPT !.hids = [w.focus.hids EXCEPT ![h] = y]]]
    BY <1>4 DEF Rewritten, AtHid
  <2>2. w.focus.hids[h] # None /\ w.focus.hids[h] \in Entries
    BY <1>1, <1>4 DEF WorldOK, Valid, EntryAt, AtHid, Unattached, FocusRecords
  <2>3. y \in Entries /\ y.object = w.focus.hids[h].object /\ y.config = c
    BY <2>2 DEF Entries
  <2>4. y # None
    BY <2>3, FocusAssumption DEF Entries
  <2> HIDE DEF y
  <2>5. Rewritten(w, c).objs = w.objs /\ Rewritten(w, c).focus.hids = [w.focus.hids EXCEPT ![h] = y]
    BY <1>1, <2>1 DEF Worlds, FocusRecords
  <2>6. \A x \in Hids : Rewritten(w, c).focus.hids[x] = IF x = h THEN y ELSE w.focus.hids[x]
    BY <1>1, <2>5 DEF FocusRecords
  <2> QED BY <2>2, <2>3, <2>4, <2>5, <2>6
<1>5. CASE \E h \in Hids : w.info = AtKit(h)
  BY <1>3, <1>5, ReferencesDiffer DEF Rewrote
<1>6. CASE \E h \in Hids : w.info = AtHid(h)
  BY <1>4, <1>6, ReferencesDiffer DEF Rewrote
<1> QED BY <1>1, <1>2, <1>5, <1>6 DEF References

\* What an answer says of drags: who does not handle the event changes nothing, only a
\* request begins or ends a drag, only an object that listens to the device begins one,
\* and only a screen lets the focus go, on the release of the menu button.
Answered(k, s, own, ev, a) ==
  /\ ~a.handled => a = Pass(s)
  /\ a.request \in {"none", "begin", "end", "detach"}
  /\ a.request = "none" /\ a.state \in Drags => s \in Drags
  /\ a.request = "begin" => own
  /\ a.request = "end" => a.state \notin Drags
  /\ a.request = "detach" => a.state = s /\ k = "screen" /\ ev = Release("menu")

\* No answer of handle breaks that condition.
LEMMA AnswerDrags ==
  ASSUME NEW k \in {"simple", "table", "screen", "group"}, NEW s, NEW own, NEW ev, NEW mode,
         NEW a \in Answers(k, s, own, ev, mode)
  PROVE  Answered(k, s, own, ev, a)
<1>1. Answered(k, s, own, ev, Pass(s)) /\ Answered(k, s, own, ev, Seen(s))
  BY DEF Answered, Pass, Seen
<1>2. CASE s = "idle" \/ ~own \/ k = "group"
  <2>1. a = Pass(s)
    BY <1>2 DEF Answers
  <2> QED BY <1>1, <2>1
<1>3. CASE ~(s = "idle" \/ ~own \/ k = "group")
  <2>1. \A t, flag : Answered(k, s, own, ev, Begin(t, flag))
    BY <1>3 DEF Answered, Begin
  <2>2. Answered(k, s, own, ev, End("close")) /\ Answered(k, s, own, ev, End("pointed")) /\ Answered(k, s, own, ev, End("mouse"))
    BY DEF Answered, End, Drags
  <2>3. Answered(k, s, own, ev, Seen("gizmo")) /\ Answered(k, s, own, ev, Seen("pointed"))
    BY DEF Answered, Seen, Drags
  <2>4. k = "screen" /\ ev = Release("menu") => \A lvl : Answered(k, s, own, ev, Leave(s, lvl))
    BY DEF Answered, Leave
  <2>5. CASE k = "simple"
    <3>1. a = SimpleAnswer(s, ev, mode)
      BY <1>3, <2>5 DEF Answers
    <3> QED BY <1>1, <2>1, <2>2, <3>1 DEF SimpleAnswer
  <2>6. CASE k = "table"
    <3>1. a = TableAnswer(s, ev, mode)
      BY <1>3, <2>6 DEF Answers
    <3> QED BY <1>1, <2>1, <2>2, <2>3, <3>1 DEF TableAnswer
  <2>7. CASE k = "screen"
    <3>1. PICK soon \in BOOLEAN : a = ScreenAnswer(s, ev, mode, soon)
      BY <1>3, <2>7 DEF Answers
    <3> QED BY <1>1, <2>1, <2>2, <2>4, <2>7, <3>1 DEF ScreenAnswer
  <2> QED BY <1>3, <2>5, <2>6, <2>7
<1> QED BY <1>2, <1>3

\* Device x had an entry in f that g does not have for the same object.
Lost(f, g, x) ==
  f.hids[x] # None /\ (g.hids[x] = None \/ g.hids[x].object # f.hids[x].object)

\* What a request leaves as it should be.
RequestedWell(v, w, o, ev, a) ==
  /\ Fixed(v)
  /\ ~a.handled => v = w
  /\ \A x \in Hids : Lost(w.focus, v.focus, x)
       => w.focus.hids[x].object = o /\ Kind[o] = "screen" /\ ev = Release("menu")

\* A request of o, on an event of h, keeps drags fixed if nobody but the object in
\* focus is asked when h has a drag.  It takes an entry only from a screen, when the
\* menu button is released.
LEMMA RequestDrags ==
  ASSUME NEW w, WorldOK(w), NEW o \in Objects, NEW h \in Hids, NEW ev, NEW a,
         a.state \in States, a.state = "idle" <=> w.objs[o].state = "idle",
         Answered(Kind[o], w.objs[o].state, w.objs[o].hid = h, ev, a),
         Fixed(w), Led(w, h), DragsAt(w, h) => o = Info(w).object
  PROVE  RequestedWell(Requested(w, o, a, h), w, o, ev, a)
<1> DEFINE c == Info(w).config
           moved == [w EXCEPT !.objs[o].state = a.state]
           saving == [moved EXCEPT !.objs[o].saved = c]
           v == Requested(w, o, a, h)
<1> SUFFICES RequestedWell(v, w, o, ev, a)
  OBVIOUS
<1> USE DEF RequestedWell, Lost
<1>1. w \in Worlds /\ w.objs \in [Objects -> ObjectRecords] /\ w.focus \in FocusRecords /\ c \in Configs
  BY InfoTypes DEF WorldOK, Worlds
<1>2. /\ moved.focus = w.focus /\ moved.info = w.info /\ moved.att = w.att
      /\ \A p \in Objects : /\ moved.objs[p].hid = w.objs[p].hid
                            /\ moved.objs[p].state = IF p = o THEN a.state ELSE w.objs[p].state
  BY <1>1 DEF Worlds, ObjectRecords
<1>3. /\ saving.focus = w.focus /\ saving.info = w.info
      /\ \A p \in Objects : /\ saving.objs[p].hid = w.objs[p].hid
                            /\ saving.objs[p].state = IF p = o THEN a.state ELSE w.objs[p].state
  BY <1>1 DEF Worlds, ObjectRecords
<1>4. WorldOK(moved)
  BY StateKeeps
<1>5. WorldOK(saving)
  <2> HIDE DEF moved, c
  <2> QED BY <1>1, <1>4, SaveKeeps
<1>6. v = CASE a.request = "begin"  -> Rewritten(saving, DragConfig(c, a.what))
            [] a.request = "end"    -> Rewritten(moved, w.objs[o].saved)
            [] a.request = "detach" -> Detach(moved, IF w.att.level = a.what THEN w.att ELSE Unattached, o, h)
            [] OTHER                -> moved
  BY DEF Requested
<1>7. ~a.handled => v = w
  <2> SUFFICES ASSUME ~a.handled PROVE v = w
    OBVIOUS
  <2>1. a = Pass(w.objs[o].state)
    BY DEF Answered
  <2>2. a.request = "none" /\ a.state = w.objs[o].state
    BY <2>1 DEF Pass
  <2>3. [w EXCEPT !.objs[o].state = w.objs[o].state] = w
    BY <1>1 DEF Worlds, ObjectRecords
  <2> HIDE DEF saving, c, v
  <2> QED BY <1>6, <2>2, <2>3
<1>8. DragConfig(c, a.what) \in Configs /\ w.objs[o].saved \in Configs
  BY <1>1, ConfigsClosed DEF ObjectRecords
<1>9. DragConfig(c, a.what) \cap Loose = {}
  BY DEF DragConfig, Loose
<1>t. \A x \in Hids : w.focus.hids[x] # None => w.focus.hids[x].object \in Objects
  BY <1>1 DEF FocusRecords, Entries
<1>r. a.request \in {"none", "begin", "end", "detach"}
  BY DEF Answered
<1> HIDE DEF saving, moved, c, v
<1>10. CASE a.request = "none"
  <2>1. v = moved
    BY <1>6, <1>10
  <2>2. a.state \in Drags => w.objs[o].state \in Drags
    BY <1>10 DEF Answered
  <2>3. NoNewDrag(v, w)
    <3>1. v.focus = w.focus
      BY <1>2, <2>1
    <3>2. \A p \in Objects : v.objs[p].hid = w.objs[p].hid /\ (v.objs[p].state \in Drags => w.objs[p].state \in Drags)
      BY <1>2, <2>1, <2>2
    <3> QED BY <1>t, <3>1, <3>2, SameEntries
  <2>4. v.focus = w.focus
    BY <1>2, <2>1
  <2> QED BY <1>7, <2>3, <2>4, FixedStays
<1>11. CASE a.request = "begin"
  <2>1. v = Rewritten(saving, DragConfig(c, a.what)) /\ w.objs[o].hid = h
    BY <1>6, <1>11 DEF Answered
  <2>r. Rewrote(v, saving, DragConfig(c, a.what))
    BY <1>5, <1>8, <2>1, RewriteDrags
  <2>s. saving.focus = w.focus /\ saving.info = w.info
    BY <1>3
  <2>2. /\ v.objs = saving.objs
        /\ \A x \in Hids : LET y == v.focus.hids[x]
                           IN /\ y = None <=> w.focus.hids[x] = None
                              /\ y # None => y.object = w.focus.hids[x].object
                              /\ w.info = AtHid(x) => y.config = DragConfig(c, a.what)
                              /\ w.info # AtHid(x) => y = w.focus.hids[x]
    BY <2>r, <2>s DEF Rewrote
  <2>3. Fixed(v)
    <3> SUFFICES ASSUME NEW x \in Hids, DragsAt(v, x)
                 PROVE  v.focus.hids[x].config \cap Loose = {}
      BY DEF Fixed
    <3> DEFINE p == w.focus.hids[x].object
    <3>1. w.focus.hids[x] # None /\ p \in Objects /\ v.objs[p].state \in Drags /\ v.objs[p].hid = x
      BY <1>t, <2>2 DEF DragsAt
    <3>2. CASE w.info = AtHid(x)
      BY <1>9, <2>2, <3>2
    <3>3. CASE w.info # AtHid(x)
      <4>1. p # o
        <5>1. SUFFICES ASSUME p = o PROVE FALSE
          OBVIOUS
        <5>2. w.objs[o].hid = x
          BY <1>3, <2>2, <3>1, <5>1
        <5>3. x = h
          BY <2>1, <5>2
        <5>4. Led(w, h) /\ w.focus.hids[h] # None
          BY <3>1, <5>3
        <5>5. w.info = AtHid(h)
          BY <5>4 DEF Led
        <5> QED BY <3>3, <5>3, <5>5
      <4>2. w.objs[p].state \in Drags /\ w.objs[p].hid = x
        BY <1>3, <2>2, <3>1, <4>1
      <4>3. DragsAt(w, x)
        BY <3>1, <4>2 DEF DragsAt
      <4> QED BY <2>2, <3>3, <4>3 DEF Fixed
    <3> QED BY <3>2, <3>3
  <2> QED BY <1>7, <2>2, <2>3
<1>12. CASE a.request = "end"
  <2>1. v = Rewritten(moved, w.objs[o].saved) /\ a.state \notin Drags
    BY <1>6, <1>12 DEF Answered
  <2>r. Rewrote(v, moved, w.objs[o].saved)
    BY <1>4, <1>8, <2>1, RewriteDrags
  <2>s. moved.focus = w.focus /\ moved.info = w.info
    BY <1>2
  <2>2. /\ v.objs = moved.objs
        /\ \A x \in Hids : LET y == v.focus.hids[x]
                           IN /\ y = None <=> w.focus.hids[x] = None
                              /\ y # None => y.object = w.focus.hids[x].object
                              /\ w.info # AtHid(x) => y = w.focus.hids[x]
    BY <2>r, <2>s DEF Rewrote
  <2>3. Fixed(v)
    <3> SUFFICES ASSUME NEW x \in Hids, DragsAt(v, x)
                 PROVE  v.focus.hids[x].config \cap Loose = {}
      BY DEF Fixed
    <3> DEFINE p == w.focus.hids[x].object
    <3>1. w.focus.hids[x] # None /\ p \in Objects /\ v.objs[p].state \in Drags /\ v.objs[p].hid = x
      BY <1>t, <2>2 DEF DragsAt
    <3>2. p # o
      BY <1>2, <2>1, <2>2, <3>1
    <3>3. DragsAt(w, x)
      BY <1>2, <2>2, <3>1, <3>2 DEF DragsAt
    <3>4. w.info # AtHid(x)
      <4> SUFFICES ASSUME w.info = AtHid(x) PROVE FALSE
        OBVIOUS
      <4>1. x = h
        BY ReferencesDiffer DEF Led
      <4>2. Info(w) = w.focus.hids[x]
        BY <3>1, InfoAtHid
      <4> QED BY <3>2, <3>3, <4>1, <4>2
    <3>5. v.focus.hids[x] = w.focus.hids[x]
      BY <2>2, <3>4
    <3> QED BY <3>3, <3>5 DEF Fixed
  <2> QED BY <1>7, <2>2, <2>3
<1>13. CASE a.request = "detach"
  <2> DEFINE att == IF w.att.level = a.what THEN w.att ELSE Unattached
  <2>1. v = Detach(moved, att, o, h)
    BY <1>6, <1>13
  <2>2. a.state = w.objs[o].state /\ Kind[o] = "screen" /\ ev = Release("menu")
    BY <1>13 DEF Answered
  <2>3. att \in References
    BY <1>1 DEF Worlds, References
  <2> HIDE DEF att
  <2>4. /\ NoNewDrag(v, moved)
        /\ \A x \in Hids : \/ v.focus.hids[x] = moved.focus.hids[x]
                           \/ v.focus.hids[x] = None /\ att = AtHid(x) /\ moved.focus.hids[x].object = o
    BY <1>4, <2>1, <2>3, DetachDrags
  <2>5. NoNewDrag(moved, w)
    <3>1. \A p \in Objects : moved.objs[p].hid = w.objs[p].hid
                              /\ (moved.objs[p].state \in Drags => w.objs[p].state \in Drags)
      BY <1>2, <2>2
    <3> QED BY <1>2, <1>t, <3>1, SameEntries
  <2>6. Fixed(v)
    BY <2>4, <2>5, FixedStays
  <2> QED BY <1>2, <1>7, <2>2, <2>4, <2>6
<1> QED BY <1>r, <1>10, <1>11, <1>12, <1>13

\* Asking an object, with the same condition.
LEMMA AskDrags ==
  ASSUME NEW w, WorldOK(w), hid \in Hids, NEW o \in Objects \cup {None}, NEW mode, NEW r \in Asked(w, o, mode),
         Fixed(w), Led(w, hid), DragsAt(w, hid) => o = Info(w).object
  PROVE  /\ Fixed(r.world)
         /\ ~r.handled => r.world = w
         /\ \A x \in Hids : Lost(w.focus, r.world.focus, x)
              => w.focus.hids[x].object = o /\ Kind[o] = "screen" /\ e = Release("menu")
<1>1. CASE o = None
  <2>1. r.world = w
    BY <1>1 DEF Asked
  <2> QED BY <2>1 DEF Lost
<1>2. CASE o # None
  <2>1. PICK a \in Answers(Kind[o], w.objs[o].state, w.objs[o].hid = hid, e, mode) :
          r = [handled |-> a.handled, world |-> Requested(w, o, a, hid)]
    BY <1>2 DEF Asked
  <2>2. o \in Objects /\ w.objs[o].state \in States /\ Kind[o] \in {"simple", "table", "screen", "group"}
    BY <1>2, SceneAssumption DEF WorldOK, Worlds, ObjectRecords
  <2>3. a.state \in States /\ (a.state = "idle" <=> w.objs[o].state = "idle")
    BY <2>2, AnswerStates
  <2>4. Answered(Kind[o], w.objs[o].state, w.objs[o].hid = hid, e, a)
    BY <2>2, AnswerDrags
  <2>5. r.world = Requested(w, o, a, hid) /\ r.handled = a.handled
    BY <2>1
  <2>6. RequestedWell(Requested(w, o, a, hid), w, o, e, a)
    BY <2>2, <2>3, <2>4, RequestDrags
  <2> QED BY <2>5, <2>6 DEF RequestedWell
<1> QED BY <1>1, <1>2

\* A pose moves the focus of its controller only, and only if that has no drag.
LEMMA RefocusDrags ==
  ASSUME NEW w, WorldOK(w), hid \in Hids, NEW hit \in Hits,
         Fixed(w), Led(w, hid), w.att = w.info, "respatial" \in Info(w).config
  PROVE  /\ Fixed(Refocused(w, hit)) /\ Led(Refocused(w, hit), hid)
         /\ \A x \in Hids : DragsAt(w, x) => Refocused(w, hit).focus.hids[x] = w.focus.hids[x]
         /\ ~DragsAt(w, hid)
<1> DEFINE ob == Info(w).object
           freed == IF ob # None THEN Detach(w, w.att, ob, hid) ELSE w
           v == Refocused(w, hit)
<1> SUFFICES Fixed(v) /\ Led(v, hid) /\ (\A x \in Hids : DragsAt(w, x) => v.focus.hids[x] = w.focus.hids[x])
             /\ ~DragsAt(w, hid)
  OBVIOUS
<1>1. w \in Worlds /\ w.focus \in FocusRecords /\ w.att \in References /\ w.default_config \in Configs /\ ob \in Objects \cup {None}
  BY InfoTypes DEF WorldOK, Worlds
<1>2. w.focus.hids[hid] # None => w.info = AtHid(hid) /\ Info(w) = w.focus.hids[hid] /\ ob # None
  <2>1. w.focus.hids[hid] # None => w.focus.hids[hid].object \in Objects
    BY <1>1 DEF FocusRecords, Entries
  <2>2. w.focus.hids[hid] # None => w.info = AtHid(hid) /\ Info(w) = w.focus.hids[hid]
    BY InfoAtHid DEF Led
  <2>3. None \notin Objects
    BY SceneAssumption
  <2> QED BY <2>1, <2>2, <2>3
<1>3. ~DragsAt(w, hid)
  BY <1>2 DEF Fixed, DragsAt, Loose
<1>4. /\ WorldOK(freed) /\ NoNewDrag(freed, w) /\ Led(freed, hid)
      /\ freed.focus.hids[hid] = None
      /\ \A x \in Hids \ {hid} : freed.focus.hids[x] = w.focus.hids[x]
  <2>1. CASE ob = None
    <3>1. freed = w /\ w.focus.hids[hid] = None
      BY <1>2, <2>1
    <3> QED BY <3>1 DEF NoNewDrag
  <2>2. CASE ob # None
    <3>1. freed = Detach(w, w.att, ob, hid) /\ ob \in Objects
      BY <1>1, <2>2
    <3>2. EntryAt(w.focus, w.att) # None /\ EntryAt(w.focus, w.att).object = ob
      BY <2>2 DEF Info
    <3> HIDE DEF freed, ob
    <3>3. /\ NoNewDrag(freed, w)
          /\ \A x \in Hids : \/ freed.focus.hids[x] = w.focus.hids[x]
                             \/ freed.focus.hids[x] = None /\ w.att = AtHid(x)
          /\ freed.att = Unattached /\ freed.info = Unattached
          /\ \A x \in Hids : w.att = AtHid(x) => freed.focus.hids[x] = None
      BY <1>1, <3>1, <3>2, DetachDrags
    <3>4. WorldOK(freed)
      BY <1>1, <3>1, DetachKeeps
    <3>5. freed.focus.hids[hid] = None
      BY <1>2, <3>3
    <3>6. \A x \in Hids \ {hid} : w.att # AtHid(x)
      BY ReferencesDiffer DEF Led
    <3> QED BY <3>3, <3>4, <3>5, <3>6 DEF Led
  <2> QED BY <2>1, <2>2
<1>5. v = IF hit.target = ob THEN w
          ELSE IF hit.target = None THEN freed
          ELSE Attach(freed, hit.rfa, AtHid(hid), hit.target, w.default_config, hid, hit.mode)
  BY DEF Refocused
<1>6. hit.target = None \/ (hit.target \in Objects /\ hit.rfa # "grab")
  BY DEF Hits
<1>7. \A x \in Hids : DragsAt(w, x) => x # hid
  BY <1>3
<1> HIDE DEF freed, v, ob
<1>8. CASE v = w
  BY <1>3, <1>8
<1>9. CASE v = freed
  <2>1. Fixed(v)
    BY <1>4, <1>9, FixedStays
  <2> QED BY <1>3, <1>4, <1>7, <1>9, <2>1
<1>10. CASE /\ v = Attach(freed, hit.rfa, AtHid(hid), hit.target, w.default_config, hid, hit.mode)
            /\ hit.target \in Objects /\ hit.rfa # "grab"
  <2>1. /\ NoNewDrag(v, freed)
        /\ \A x \in Hids \ {hid} : v.focus.hids[x] = freed.focus.hids[x]
        /\ v.att = AtHid(hid) /\ (v.info = AtHid(hid) \/ (v.info = freed.info /\ v.focus = freed.focus))
    BY <1>1, <1>4, <1>10, AttachHidKeeps
  <2>2. Fixed(freed)
    BY <1>4, FixedStays
  <2>3. Fixed(v)
    BY <2>1, <2>2, FixedStays
  <2>4. Led(v, hid)
    BY <1>4, <2>1 DEF Led
  <2>5. \A x \in Hids : DragsAt(w, x) => v.focus.hids[x] = w.focus.hids[x]
    BY <1>4, <1>7, <2>1
  <2> QED BY <1>3, <2>3, <2>4, <2>5
<1> QED BY <1>5, <1>6, <1>8, <1>9, <1>10

\* The invariant behind DragKept, besides SceneInv.
DragInv ==
  /\ Fixed(World)
  /\ ctrl_infos \in [Hids -> SUBSET {"grabbing", "pointing"}]
  /\ phase # "idle" => Led(World, hid)
  /\ phase \in {"grab", "spatial"} => foc_att = foc_info
  /\ phase \in {"kids", "structural"} /\ DragsAt(World, hid) => todo = <<>>

\* The condition of DragKept on a step.
KeepsDrags ==
  \A h \in Hids :
    DragsAt(World, h) /\ Lost(focus, focus', h)
      => phase = "grab" \/ ctrl_infos' # ctrl_infos
         \/ (Kind[focus.hids[h].object] = "screen" /\ e = Release("menu"))

\* The drags of the next state are those of the world it becomes.
LEMMA NextDrags ==
  ASSUME NEW w, World' = w
  PROVE  /\ focus' = w.focus /\ objs' = w.objs /\ foc_info' = w.info /\ foc_att' = w.att
         /\ Fixed(w) => Fixed(World)'
         /\ \A h \in Hids : Led(w, h) /\ hid' = h => Led(World, hid)'
         /\ ~DragsAt(w, hid) /\ UNCHANGED hid => ~DragsAt(World, hid)'
<1>1. focus' = w.focus /\ objs' = w.objs /\ foc_info' = w.info /\ foc_att' = w.att
  BY DEF World
<1>2. Fixed(w) => Fixed(World)'
  BY <1>1 DEF Fixed, DragsAt, World
<1>3. \A h \in Hids : Led(w, h) /\ hid' = h => Led(World, hid)'
  BY <1>1 DEF Led, World
<1>4. ~DragsAt(w, hid) /\ UNCHANGED hid => ~DragsAt(World, hid)'
  BY <1>1 DEF DragsAt, World
<1> QED BY <1>1, <1>2, <1>3, <1>4

\* The end of a dispatch.
LEMMA ReturnDrags ==
  ASSUME NEW w, WorldOK(w), Fixed(w), Return(w), ctrl_infos \in [Hids -> SUBSET {"grabbing", "pointing"}]
  PROVE  DragInv' /\ focus' = w.focus
<1> DEFINE v == [w EXCEPT !.info = Unattached, !.att = Unattached]
<1>1. v.focus = w.focus /\ v.objs = w.objs /\ WorldOK(v)
  BY DEF WorldOK, Worlds, Valid, References
<1>2. Become(v) /\ phase' = "idle" /\ UNCHANGED ctrl_infos
  BY DEF Return
<1> HIDE DEF v
<1>3. World' = v
  BY <1>1, <1>2, BecomeWorld
<1>4. Fixed(v)
  BY <1>1 DEF Fixed, DragsAt
<1>5. Fixed(World)' /\ focus' = v.focus
  BY <1>3, <1>4, NextDrags
<1> QED BY <1>1, <1>2, <1>5 DEF DragInv

\* A step that asks an object.
LEMMA AskStepDrags ==
  ASSUME NEW w, WorldOK(w), hid \in Hids, NEW o \in Objects \cup {None}, NEW mode,
         NEW next, NEW rest, Ask(w, o, mode, next, rest),
         Fixed(w), Led(w, hid), DragsAt(w, hid) => o = Info(w).object,
         ctrl_infos \in [Hids -> SUBSET {"grabbing", "pointing"}],
         next \notin {"idle", "grab", "spatial"},
         next \in {"kids", "structural"} /\ DragsAt(w, hid) => rest = <<>>
  PROVE  /\ DragInv'
         /\ \A x \in Hids : Lost(w.focus, focus', x)
              => w.focus.hids[x].object = o /\ Kind[o] = "screen" /\ e = Release("menu")
<1>1. PICK r \in Asked(w, o, mode) :
        \/ Return(r.world)
        \/ /\ ~r.handled /\ Become(r.world) /\ phase' = next /\ todo' = rest
           /\ UNCHANGED <<event_vars, ctrl_infos>>
  BY DEF Ask
<1>2. WorldOK(r.world)
  BY AskKeeps
<1>3. /\ Fixed(r.world)
      /\ ~r.handled => r.world = w
      /\ \A x \in Hids : Lost(w.focus, r.world.focus, x)
           => w.focus.hids[x].object = o /\ Kind[o] = "screen" /\ e = Release("menu")
  BY AskDrags
<1>4. CASE Return(r.world)
  <2>1. DragInv' /\ focus' = r.world.focus
    BY <1>2, <1>3, <1>4, ReturnDrags
  <2> QED BY <1>3, <2>1
<1>5. CASE /\ ~r.handled /\ Become(r.world) /\ phase' = next /\ todo' = rest
           /\ UNCHANGED <<event_vars, ctrl_infos>>
  <2>1. r.world = w /\ World' = w
    BY <1>2, <1>3, <1>5, BecomeWorld
  <2>2. UNCHANGED hid
    BY <1>5 DEF event_vars
  <2>3. focus' = w.focus /\ Fixed(World)' /\ Led(World, hid)' /\ (~DragsAt(w, hid) => ~DragsAt(World, hid)')
    BY <2>1, <2>2, NextDrags
  <2>4. DragInv'
    BY <1>5, <2>3 DEF DragInv
  <2> QED BY <2>3, <2>4 DEF Lost
<1> QED BY <1>1, <1>4, <1>5

\* While a device has a drag, the focus pointer is to the entry of the drag.
LEMMA DragInFocus ==
  ASSUME NEW w, NEW h \in Hids, Fixed(w), Led(w, h), DragsAt(w, h)
  PROVE  Info(w).config \cap Loose = {}
<1>1. Info(w) = w.focus.hids[h]
  BY InfoAtHid DEF Led, DragsAt
<1> QED BY <1>1 DEF Fixed

\* The head of dispatch.
LEMMA EventDrags ==
  ASSUME SceneInv, DragInv, NEW h \in Hids, NEW ev, Event(h, ev)
  PROVE  DragInv' /\ KeepsDrags
<1> DEFINE ref == CASE focus.kits[KitOf(h)] # None -> AtKit(h)
                    [] focus.kits[KitOf(h)] = None /\ focus.hids[h] # None -> AtHid(h)
                    [] OTHER -> Unattached
<1>1. /\ foc_info' = ref /\ foc_att' = ref /\ phase' = "grab" /\ hid' = h
      /\ UNCHANGED <<focus, objs, ctrl_infos>>
  BY DEF Event
<1>2. KitExcludesHids(focus)
  BY DEF SceneInv, WorldOK, World, Separate
<1>3. ref \in {Unattached, AtHid(h), AtKit(h)} /\ (focus.hids[h] # None => ref = AtHid(h))
  BY <1>2, KitsOfHids DEF KitExcludesHids
<1> HIDE DEF ref
<1>4. Led(World, hid)'
  BY <1>1, <1>3 DEF Led, World
<1>5. Fixed(World)'
  BY <1>1 DEF DragInv, Fixed, DragsAt, World
<1>6. KeepsDrags
  BY <1>1 DEF KeepsDrags, DragsAt, Lost, World
<1> QED BY <1>1, <1>4, <1>5, <1>6 DEF DragInv

\* The switch of a mode.
LEMMA ToggleDrags ==
  ASSUME SceneInv, DragInv, NEW h \in Hids, NEW what \in {"grabbing", "pointing"}, Toggle(h, what)
  PROVE  DragInv' /\ KeepsDrags
<1> DEFINE L == Holders(focus, {h}, KitOf(h))
           told == Notify(World, L, h)
           v == [told EXCEPT !.focus = Checked(@, h)]
<1>1. /\ WorldOK(World) /\ World.info = Unattached /\ World.focus = focus
      /\ World \in Worlds /\ focus \in FocusRecords /\ focus.all = None
      /\ phase = "idle" /\ phase' = "idle"
  BY DEF SceneInv, Toggle, World, WorldOK, Worlds
<1>2. /\ ctrl_infos' = [ctrl_infos EXCEPT ![h] = IF what \in @ THEN @ \ {what} ELSE @ \cup {what}]
      /\ ctrl_infos \in [Hids -> SUBSET {"grabbing", "pointing"}]
  BY DEF Toggle, DragInv
<1>3. ctrl_infos' \in [Hids -> SUBSET {"grabbing", "pointing"}] /\ ctrl_infos'[h] # ctrl_infos[h]
  BY <1>2
<1>4. WorldOK(v)
  BY <1>1, CheckKeeps
<1>5. L \in SUBSET Objects
  BY <1>1, KitsOfHids, HoldersFacts
<1>6. told \in Worlds /\ told.focus = focus /\ Told(told.objs, World.objs, told.ignored, L)
  <2> HIDE DEF L
  <2> QED BY <1>1, <1>5, NotifyTells
<1>7. v.focus = Checked(focus, h) /\ v.objs = told.objs
  <2> HIDE DEF told
  <2> QED BY <1>6 DEF Worlds
<1>8. Checked(focus, h) \in FocusRecords /\ \A x \in Hids : Checked(focus, h).hids[x] \in {focus.hids[x], None}
  BY <1>1, KitsOfHids, CheckFewer DEF Fewer
<1> HIDE DEF v, told, L
<1>9. NoNewDrag(v, World)
  BY <1>1, <1>6, <1>7, <1>8, ToldDrags
<1>10. Fixed(v) /\ Fixed(World)
  BY <1>9, FixedStays DEF DragInv
<1>11. Become(v) \/ Become(World)
  BY DEF Toggle, v, told, L
<1>12. World' = v \/ World' = World
  BY <1>1, <1>4, <1>11, BecomeWorld
<1>13. Fixed(World)'
  BY <1>10, <1>12, NextDrags
<1> QED BY <1>1, <1>3, <1>13 DEF DragInv, KeepsDrags

\* A step of a dispatch.
LEMMA DispatchDrags ==
  ASSUME SceneInv, DragInv, Dispatch
  PROVE  DragInv' /\ KeepsDrags
<1>1. /\ WorldOK(World) /\ World.focus = focus /\ World.info = foc_info /\ World.att = foc_att
      /\ Fixed(World) /\ ctrl_infos \in [Hids -> SUBSET {"grabbing", "pointing"}]
      /\ InFocus \in Objects \cup {None} /\ Config \in Configs
      /\ InFocus = Info(World).object /\ Config = Info(World).config
  BY FocusObject DEF SceneInv, DragInv, World, InFocus, Config
<1>2. phase # "idle" => hid \in Hids /\ Led(World, hid)
  BY DEF SceneInv, DragInv
<1>3. phase # "idle" /\ DragsAt(World, hid) => InFocus = focus.hids[hid].object /\ Config \cap Loose = {}
  <2> SUFFICES ASSUME phase # "idle", DragsAt(World, hid)
               PROVE  InFocus = focus.hids[hid].object /\ Config \cap Loose = {}
    OBVIOUS
  <2>1. World.info = AtHid(hid) /\ World.focus = focus
    BY <1>1, <1>2 DEF Led, DragsAt
  <2>2. Info(World) = focus.hids[hid]
    BY <2>1, InfoAtHid DEF DragsAt
  <2>3. Info(World).config \cap Loose = {}
    BY <1>1, <1>2, DragInFocus
  <2> QED BY <1>1, <2>2, <2>3
<1>w. UNCHANGED world_vars => /\ Fixed(World)' /\ KeepsDrags
                              /\ UNCHANGED hid => /\ Led(World, hid) => Led(World, hid)'
                                                  /\ ~DragsAt(World, hid) => ~DragsAt(World, hid)'
  <2> SUFFICES ASSUME UNCHANGED world_vars
               PROVE  /\ Fixed(World)' /\ KeepsDrags
                      /\ UNCHANGED hid => /\ Led(World, hid) => Led(World, hid)'
                                          /\ ~DragsAt(World, hid) => ~DragsAt(World, hid)'
    OBVIOUS
  <2>1. World' = World /\ focus' = focus
    BY DEF world_vars, World
  <2>2. KeepsDrags
    BY <2>1 DEF KeepsDrags, DragsAt, Lost, World
  <2> QED BY <1>1, <2>1, <2>2 DEF Fixed, Led, DragsAt
<1>g. ASSUME NEW p, p \notin {"idle", "grab", "kids", "structural"}, phase # "idle",
             p = "spatial" => phase = "grab", Goto(p), UNCHANGED world_vars
      PROVE  DragInv' /\ KeepsDrags
  <2>1. UNCHANGED <<hid, ctrl_infos, foc_att, foc_info>> /\ phase' = p
    BY <1>g DEF Goto, event_vars, world_vars
  <2> QED BY <1>1, <1>2, <1>g, <1>w, <2>1 DEF DragInv
<1>a. ASSUME NEW o \in Objects \cup {None}, NEW mode, NEW next, NEW rest, phase # "idle",
             Ask(World, o, mode, next, rest),
             DragsAt(World, hid) => o = InFocus,
             next \notin {"idle", "grab", "spatial"},
             next \in {"kids", "structural"} /\ DragsAt(World, hid) => rest = <<>>
      PROVE  DragInv' /\ KeepsDrags
  <2>1. /\ DragInv'
        /\ \A x \in Hids : Lost(World.focus, focus', x)
             => World.focus.hids[x].object = o /\ Kind[o] = "screen" /\ e = Release("menu")
    BY <1>1, <1>2, <1>a, AskStepDrags
  <2> QED BY <1>1, <2>1 DEF KeepsDrags, DragsAt, Lost
<1>5. ASSUME NEW o \in Objects, Grab(o)
      PROVE  DragInv' /\ KeepsDrags
  <2> DEFINE v == Attach(World, "grab", AtKit(hid), o, PlaceConfig(Config), hid, "none")
  <2>1. hid \in Hids /\ Kind[o] = "screen" /\ World.objs[o].state = "idle" /\ PlaceConfig(Config) \in Configs
    BY <1>1, <1>2, <1>5, ConfigsClosed DEF Grab, World
  <2>2. /\ WorldOK(v) /\ NoNewDrag(v, World) /\ v.focus.hids[hid] = None
        /\ v.info = AtKit(hid) /\ v.att = AtKit(hid)
    BY <1>1, <2>1, AttachKitKeeps
  <2> HIDE DEF v
  <2>3. Become(v) /\ phase = "grab" /\ phase' = "spatial" /\ UNCHANGED <<hid, ctrl_infos>>
    BY <1>5 DEF Grab, Goto, v, event_vars
  <2>4. World' = v
    BY <2>2, <2>3, BecomeWorld
  <2>5. Fixed(v) /\ Led(v, hid)
    BY <1>1, <2>2, FixedStays DEF Led
  <2>6. Fixed(World)' /\ Led(World, hid)' /\ foc_info' = v.info /\ foc_att' = v.att
    BY <2>1, <2>3, <2>4, <2>5, NextDrags
  <2> QED BY <1>1, <2>2, <2>3, <2>6 DEF DragInv, KeepsDrags
<1>6. CASE NoGrab
  BY <1>6, <1>g DEF NoGrab
<1>7. CASE NoSpatial
  BY <1>7, <1>g DEF NoSpatial
<1>8. CASE SpatialButton
  BY <1>1, <1>8, <1>a DEF SpatialButton
<1>9. CASE SpatialPose
  BY <1>1, <1>9, <1>a DEF SpatialPose
<1>10. CASE SpatialRefocus
  <2>1. PICK hit \in Hits : Ask(Refocused(World, hit), Info(Refocused(World, hit)).object, hit.mode, "roots", <<>>)
    BY <1>10 DEF SpatialRefocus
  <2> DEFINE v == Refocused(World, hit)
  <2>2. hid \in Hids /\ Led(World, hid) /\ foc_att = foc_info /\ "respatial" \in Info(World).config
    BY <1>1, <1>2, <1>10 DEF SpatialRefocus, DragInv
  <2>3. WorldOK(v)
    BY <1>1, <2>2, RefocusKeeps
  <2>4. /\ Fixed(v) /\ Led(v, hid)
        /\ \A x \in Hids : DragsAt(World, x) => v.focus.hids[x] = World.focus.hids[x]
    BY <1>1, <2>2, RefocusDrags
  <2> HIDE DEF v
  <2>5. Info(v).object \in Objects \cup {None}
    BY <2>3, InfoTypes DEF WorldOK
  <2>6. Ask(v, Info(v).object, hit.mode, "roots", <<>>)
    BY <2>1 DEF v
  <2>7. /\ DragInv'
        /\ \A x \in Hids : Lost(v.focus, focus', x)
             => v.focus.hids[x].object = Info(v).object /\ Kind[Info(v).object] = "screen" /\ e = Release("menu")
    <3> DEFINE o == Info(v).object
    <3>1. o = Info(v).object /\ o \in Objects \cup {None} /\ Ask(v, o, hit.mode, "roots", <<>>)
      BY <2>5, <2>6
    <3>2. "roots" \notin {"idle", "grab", "spatial"} /\ "roots" \notin {"kids", "structural"}
      OBVIOUS
    <3>3. hid \in Hids /\ ctrl_infos \in [Hids -> SUBSET {"grabbing", "pointing"}]
      BY <1>1, <2>2
    <3> HIDE DEF o
    <3> QED BY <2>3, <2>4, <3>1, <3>2, <3>3, AskStepDrags
  <2>8. KeepsDrags
    <3> SUFFICES ASSUME NEW x \in Hids, DragsAt(World, x), Lost(focus, focus', x)
                 PROVE  Kind[focus.hids[x].object] = "screen" /\ e = Release("menu")
      BY DEF KeepsDrags
    <3>1. v.focus.hids[x] = focus.hids[x] /\ focus.hids[x] # None
      BY <1>1, <2>4 DEF DragsAt
    <3> QED BY <2>7, <3>1 DEF Lost
  <2> QED BY <2>7, <2>8
<1>11. CASE DispatchFocus
  <2> DEFINE rest == IF "recursive" \in Config THEN Children[InFocus] ELSE <<>>
  <2>1. phase # "idle" /\ Ask(World, InFocus, "focus", "kids", rest)
    BY <1>11 DEF DispatchFocus
  <2>2. DragsAt(World, hid) => rest = <<>>
    BY <1>3, <2>1 DEF Loose
  <2> HIDE DEF rest
  <2> QED BY <1>1, <1>a, <2>1, <2>2
<1>12. CASE NoFocus
  BY <1>12, <1>g DEF NoFocus
<1>13. CASE StartRoots
  <2>1. /\ phase # "idle" /\ phase' = "structural" /\ UNCHANGED <<hid, ctrl_infos>> /\ UNCHANGED world_vars
        /\ todo' = IF "structural" \in Config THEN Hierarchies ELSE <<>>
    BY <1>13 DEF StartRoots, event_vars
  <2>2. DragsAt(World, hid) => todo' = <<>>
    BY <1>3, <2>1 DEF Loose
  <2> QED BY <1>1, <1>2, <1>w, <2>1, <2>2 DEF DragInv
<1>14. CASE VisitFocus
  <2>1. /\ phase \in {"kids", "structural"} /\ todo # <<>>
        /\ UNCHANGED <<phase, hid, ctrl_infos>> /\ UNCHANGED world_vars
    BY <1>14 DEF VisitFocus, event_vars
  <2>2. ~DragsAt(World, hid)
    BY <2>1 DEF DragInv
  <2> QED BY <1>1, <1>2, <1>w, <2>1, <2>2 DEF DragInv
<1>15. CASE Visit
  <2> DEFINE rest == Children[Head(todo)] \o Tail(todo)
             mode == IF phase = "kids" THEN "focus" ELSE "structural"
  <2>1. /\ phase \in {"kids", "structural"} /\ todo # <<>> /\ Ask(World, Head(todo), mode, phase, rest)
    BY <1>15 DEF Visit
  <2>2. ~DragsAt(World, hid) /\ Head(todo) \in Objects
    BY <2>1 DEF DragInv, SceneInv
  <2> HIDE DEF rest, mode
  <2> QED BY <1>a, <2>1, <2>2
<1>16. CASE KidsDone
  BY <1>16, <1>g DEF KidsDone
<1>17. CASE Unhandled
  <2>1. DragInv' /\ focus' = focus
    BY <1>1, <1>17, ReturnDrags DEF Unhandled
  <2> QED BY <1>1, <2>1 DEF KeepsDrags, DragsAt, Lost
<1> QED BY <1>5, <1>6, <1>7, <1>8, <1>9, <1>10, <1>11, <1>12, <1>13, <1>14, <1>15, <1>16, <1>17 DEF Dispatch

\* DragKept: the configuration that drag_begin leaves keeps spatial refocusing and the
\* traversal of other objects away from the entry of a drag, whatever is hit.
THEOREM SceneDragKept == SceneSpec => DragKept
<1>1. SceneInit => DragInv
  <2> SUFFICES ASSUME SceneInit PROVE DragInv
    OBVIOUS
  <2>1. \A x \in Hids : focus.hids[x] = None
    BY DEF SceneInit, FocusInit
  <2>2. Fixed(World)
    BY <2>1 DEF Fixed, DragsAt, World
  <2>3. ctrl_infos \in [Hids -> SUBSET {"grabbing", "pointing"}]
    BY DEF SceneInit
  <2> QED BY <2>2, <2>3 DEF DragInv, SceneInit
<1>2. SceneInv /\ DragInv /\ [SceneNext]_scene_vars => DragInv' /\ (KeepsDrags \/ UNCHANGED scene_vars)
  <2> SUFFICES ASSUME SceneInv, DragInv, [SceneNext]_scene_vars
               PROVE  DragInv' /\ (KeepsDrags \/ UNCHANGED scene_vars)
    OBVIOUS
  <2>1. ASSUME NEW h \in Hids, NEW ev, Event(h, ev)
        PROVE  DragInv' /\ KeepsDrags
    BY <2>1, EventDrags
  <2>2. ASSUME NEW h \in Hids, NEW what \in {"grabbing", "pointing"}, Toggle(h, what)
        PROVE  DragInv' /\ KeepsDrags
    BY <2>2, ToggleDrags
  <2>3. CASE Dispatch
    BY <2>3, DispatchDrags
  <2>4. CASE UNCHANGED scene_vars
    <3>1. UNCHANGED <<focus, objs, default_config, ignored, foc_info, foc_att, phase, hid, ctrl_infos, todo>>
      BY <2>4 DEF scene_vars, event_vars, world_vars
    <3> QED BY <2>4, <3>1 DEF DragInv, Fixed, Led, DragsAt, World
  <2> QED BY <2>1, <2>2, <2>3, <2>4 DEF SceneNext
<1>3. KeepsDrags \/ UNCHANGED scene_vars
        => [\A h \in Hids :
              LET x == focus.hids[h]
              IN /\ x # None /\ Dragged(x.object) /\ objs[x.object].hid = h
                 /\ focus'.hids[h] = None \/ focus'.hids[h].object # x.object
                 => (phase = "grab" \/ ctrl_infos' # ctrl_infos
                     \/ (Kind[x.object] = "screen" /\ e = Release("menu")))]_scene_vars
  BY DEF KeepsDrags, DragsAt, Lost, Dragged, Drags, World
<1> QED BY <1>1, <1>2, <1>3, SceneInvariant, PTL DEF SceneSpec, DragKept
--------------------------------------------------------------------------------
Kids(o) == ToSet(Children[o])

\* The hierarchies are trees: every object is there once, as a root or as a child.
Forest ==
  /\ IsInjective(Roots)
  /\ \A o \in Objects : IsInjective(Children[o]) /\ Kids(o) \cap ToSet(Roots) = {}
  /\ \A o, p \in Objects : o # p => Kids(o) \cap Kids(p) = {}

\* The objects that are visited with the object in focus, and itself.
FocusBelow(w) ==
  IF Info(w).object # None /\ "recursive" \in Info(w).config THEN Below[Info(w).object] ELSE {}

\* What is below two objects to visit, of q, is apart, and it was not asked, A, before: only
\* what is below a recursive object in focus may come up again, and that is skipped.
Apart(w, A, q) ==
  /\ IsInjective(q)
  /\ \A r, t \in ToSet(q) : r # t => Below[r] \cap Below[t] = {}
  /\ \A r \in ToSet(q) : \A x \in Below[r] \cap (A \ {Info(w).object}) :
       /\ "recursive" \in Info(w).config
       /\ Info(w).object \in Below[r] /\ x \in Below[Info(w).object]

AskedOnce(w, p, A, q) ==
  /\ A \subseteq Objects
  /\ p \in {"idle", "grab", "spatial", "focus"} => A = {} /\ q = <<>>
  /\ p = "kids" => /\ Info(w).object # None /\ A \ {Info(w).object} \subseteq FocusBelow(w)
                   /\ \A r \in ToSet(q) : Below[r] \subseteq FocusBelow(w)
  /\ p = "roots" => q = <<>> /\ A \ {Info(w).object} \subseteq FocusBelow(w)
  /\ Apart(w, A, q)

\* Below[r] is the smallest set with r that has the children of its members.
LEMMA BelowLeast ==
  /\ \A o \in Objects : Kids(o) \subseteq Objects
  /\ \A r \in Objects : r \in Below[r] /\ Below[r] \subseteq Objects
  /\ \A r \in Objects : \A p \in Below[r] : Kids(p) \subseteq Below[r]
  /\ \A r \in Objects, S \in SUBSET Objects :
       r \in S /\ (\A p \in S : Kids(p) \subseteq S) => Below[r] \subseteq S
<1>1. \A o \in Objects : Kids(o) \subseteq Objects
  BY SceneAssumption DEF Kids, ToSet
<1>2. \A S \in SUBSET Objects : \A p \in S :
        Kids(p) \subseteq S <=> \A i \in DOMAIN Children[p] : Children[p][i] \in S
  BY DEF Kids, ToSet
<1>3. \A r \in Objects : Below[r] =
        {o \in Objects : \A S \in SUBSET Objects : (r \in S /\ \A p \in S : Kids(p) \subseteq S) => o \in S}
  BY <1>2 DEF Below
<1>4. \A r \in Objects : r \in Below[r] /\ Below[r] \subseteq Objects
  BY <1>3
<1>5. ASSUME NEW r \in Objects, NEW p \in Below[r], NEW k \in Kids(p) PROVE k \in Below[r]
  <2>1. p \in Objects /\ k \in Objects
    BY <1>1, <1>4, <1>5
  <2>2. ASSUME NEW S \in SUBSET Objects, r \in S, \A t \in S : Kids(t) \subseteq S PROVE k \in S
    <3>1. p \in S
      BY <1>3, <1>5, <2>2
    <3> QED BY <1>5, <2>2, <3>1
  <2> QED BY <1>3, <2>1, <2>2
<1>6. \A r \in Objects, S \in SUBSET Objects :
        r \in S /\ (\A p \in S : Kids(p) \subseteq S) => Below[r] \subseteq S
  BY <1>3
<1> QED BY <1>1, <1>4, <1>5, <1>6

\* What is below p, which is below r, is below r.
LEMMA BelowNested ==
  ASSUME NEW r \in Objects, NEW p \in Below[r]
  PROVE  p \in Objects /\ Below[p] \subseteq Below[r]
BY BelowLeast

\* What is below r is r or below a child of r, and but for r it has a parent below r.
LEMMA BelowPath ==
  ASSUME NEW r \in Objects, NEW x \in Below[r], x # r
  PROVE  (\E c \in Kids(r) : x \in Below[c]) /\ (\E q \in Below[r] : x \in Kids(q))
<1> DEFINE U == {o \in Objects : \E c \in Kids(r) : o \in Below[c]}
           P == {o \in Below[r] : \E q \in Below[r] : o \in Kids(q)}
<1>1. Below[r] \subseteq {r} \cup U
  <2>1. Kids(r) \subseteq {r} \cup U
    BY BelowLeast
  <2>2. \A p \in U : Kids(p) \subseteq U
    BY BelowLeast
  <2>3. U \subseteq Objects
    OBVIOUS
  <2> HIDE DEF U
  <2>4. {r} \cup U \in SUBSET Objects /\ \A p \in {r} \cup U : Kids(p) \subseteq {r} \cup U
    BY <2>1, <2>2, <2>3
  <2> QED BY <2>4, BelowLeast
<1>2. Below[r] \subseteq {r} \cup P
  <2>1. {r} \cup P \subseteq Below[r] /\ Below[r] \subseteq Objects
    BY BelowLeast
  <2>2. \A p \in {r} \cup P : Kids(p) \subseteq P
    BY <2>1, BelowLeast
  <2> HIDE DEF P
  <2>3. {r} \cup P \in SUBSET Objects /\ \A p \in {r} \cup P : Kids(p) \subseteq {r} \cup P
    BY <2>1, <2>2
  <2> QED BY <2>3, BelowLeast
<1> QED BY <1>1, <1>2

\* Two objects with something below both: one is below the other.
LEMMA BelowMeet ==
  ASSUME Forest, NEW c \in Objects, NEW d \in Objects, Below[c] \cap Below[d] # {}
  PROVE  c \in Below[d] \/ d \in Below[c]
<1> SUFFICES ASSUME c \notin Below[d], d \notin Below[c] PROVE FALSE
  OBVIOUS
<1> DEFINE S == Below[c] \ Below[d]
<1>1. c \in S /\ S \in SUBSET Objects
  BY BelowLeast
<1>2. ASSUME NEW p \in S, NEW k \in Kids(p) PROVE k \in S
  <2>1. k \in Below[c]
    BY <1>2, BelowLeast
  <2>2. ASSUME k \in Below[d] PROVE FALSE
    <3>1. PICK q \in Below[d] : k \in Kids(q)
      BY <2>1, <2>2, BelowPath
    <3>2. q = p
      BY <1>1, <1>2, <3>1, BelowLeast DEF Forest
    <3> QED BY <3>1, <3>2
  <2> QED BY <2>1, <2>2
<1>3. Below[c] \subseteq S
  BY <1>1, <1>2, BelowLeast
<1> QED BY <1>3

\* A root is below no other object.
LEMMA RootsOnTop ==
  ASSUME Forest, NEW r \in ToSet(Roots), NEW o \in Objects, r \in Below[o]
  PROVE  r = o
<1> SUFFICES ASSUME r # o PROVE FALSE
  OBVIOUS
<1>1. PICK q \in Below[o] : r \in Kids(q)
  BY BelowPath
<1>2. q \in Objects
  BY BelowLeast
<1> QED BY <1>1, <1>2 DEF Forest

\* Nobody is below its own child.
LEMMA NoLoop ==
  ASSUME Forest, NEW r \in Objects, NEW c \in Kids(r)
  PROVE  c \in Objects /\ r \notin Below[c]
<1>1. c \in Objects
  BY BelowLeast
<1> SUFFICES ASSUME r \in Below[c] PROVE FALSE
  BY <1>1
<1> DEFINE D == {p \in Below[c] : r \in Below[p]}
           S == Objects \ D
<1>2. \A o \in Objects : \E t \in ToSet(Roots) : o \in Below[t]
  BY SceneAssumption DEF InHierarchy, ToSet
<1>3. ToSet(Roots) \subseteq Objects
  BY SceneAssumption DEF ToSet
<1>4. ASSUME NEW t \in ToSet(Roots), t \in D PROVE FALSE
  <2>1. t = c
    BY <1>1, <1>4, RootsOnTop
  <2> QED BY <1>4, <2>1 DEF Forest
<1>5. ASSUME NEW p \in S, NEW k \in Kids(p), k \in D PROVE FALSE
  <2>1. k \in Below[c] /\ r \in Below[k] /\ p \in Objects /\ k \in Objects
    BY <1>5, BelowLeast
  <2>2. CASE k = c
    <3>1. p = r
      BY <1>5, <2>1, <2>2 DEF Forest
    <3> QED BY <3>1, BelowLeast
  <2>3. CASE k # c
    <3>1. PICK q \in Below[c] : k \in Kids(q)
      BY <1>1, <2>1, <2>3, BelowPath
    <3>2. q = p
      BY <1>1, <1>5, <2>1, <3>1, BelowLeast DEF Forest
    <3>3. r \in Below[p]
      BY <1>5, <2>1, BelowLeast, BelowNested
    <3> QED BY <3>1, <3>2, <3>3
  <2> QED BY <2>2, <2>3
<1>6. \A t \in ToSet(Roots) : Below[t] \subseteq S
  <2>1. S \in SUBSET Objects /\ \A p \in S : Kids(p) \subseteq S
    BY <1>5, BelowLeast
  <2>2. \A t \in ToSet(Roots) : t \in S
    BY <1>3, <1>4
  <2> HIDE DEF S
  <2> QED BY <1>3, <2>1, <2>2, BelowLeast
<1>7. c \in D
  BY <1>1, BelowLeast
<1> QED BY <1>1, <1>2, <1>6, <1>7

\* What is below two children of an object, or below two roots, is apart.
LEMMA SiblingsApart ==
  ASSUME Forest
  PROVE  /\ \A r \in Objects : \A c, d \in Kids(r) : c # d => Below[c] \cap Below[d] = {}
         /\ \A r, t \in ToSet(Roots) : r # t => Below[r] \cap Below[t] = {}
<1>1. ASSUME NEW r \in Objects, NEW c \in Kids(r), NEW d \in Kids(r), c # d, c \in Below[d]
      PROVE  FALSE
  <2>1. d \in Objects /\ c \in Objects
    BY BelowLeast
  <2>2. PICK q \in Below[d] : c \in Kids(q)
    BY <1>1, <2>1, BelowPath
  <2>3. q = r
    BY <1>1, <2>1, <2>2, BelowLeast DEF Forest
  <2> QED BY <2>2, <2>3, NoLoop
<1>2. ASSUME NEW r \in Objects, NEW c \in Kids(r), NEW d \in Kids(r), c # d
      PROVE  Below[c] \cap Below[d] = {}
  <2>1. d \in Objects /\ c \in Objects
    BY BelowLeast
  <2> QED BY <1>1, <1>2, <2>1, BelowMeet
<1>3. ASSUME NEW r \in ToSet(Roots), NEW t \in ToSet(Roots), r # t
      PROVE  Below[r] \cap Below[t] = {}
  <2>1. r \in Objects /\ t \in Objects
    BY SceneAssumption DEF ToSet
  <2> QED BY <1>3, <2>1, BelowMeet, RootsOnTop
<1> QED BY <1>2, <1>3

\* Two objects below one another are the same.
LEMMA BelowBoth ==
  ASSUME Forest, NEW a \in Objects, NEW b \in Objects, a \in Below[b], b \in Below[a]
  PROVE  a = b
<1> SUFFICES ASSUME a # b PROVE FALSE
  OBVIOUS
<1>1. PICK c \in Kids(b) : a \in Below[c]
  BY BelowPath
<1>2. c \in Objects /\ b \notin Below[c]
  BY NoLoop
<1> QED BY <1>1, <1>2, BelowNested

\* What is left of a list without repetitions behind its head.
LEMMA TailFacts ==
  ASSUME NEW q \in Seq(Objects), q # <<>>, IsInjective(q)
  PROVE  /\ Tail(q) \in Seq(Objects) /\ IsInjective(Tail(q))
         /\ Head(q) \in ToSet(q) /\ ToSet(Tail(q)) = ToSet(q) \ {Head(q)}
<1>1. /\ Len(q) \in Nat \ {0} /\ DOMAIN q = 1 .. Len(q)
      /\ Tail(q) \in Seq(Objects) /\ DOMAIN Tail(q) = 1 .. Len(q) - 1 /\ Head(q) = q[1]
      /\ \A i \in 1 .. Len(q) - 1 : Tail(q)[i] = q[i + 1]
  OBVIOUS
<1>2. \A a, b \in 1 .. Len(q) : q[a] = q[b] => a = b
  BY <1>1 DEF IsInjective
<1>3. IsInjective(Tail(q))
  <2> SUFFICES ASSUME NEW a \in 1 .. Len(q) - 1, NEW b \in 1 .. Len(q) - 1, Tail(q)[a] = Tail(q)[b] PROVE a = b
    BY <1>1 DEF IsInjective
  <2>1. a + 1 \in 1 .. Len(q) /\ b + 1 \in 1 .. Len(q) /\ a \in Int /\ b \in Int
    BY <1>1
  <2>2. q[a + 1] = q[b + 1]
    BY <1>1
  <2>3. a + 1 = b + 1
    BY <1>2, <2>1, <2>2
  <2> QED BY <2>1, <2>3
<1>4. 1 \in 1 .. Len(q)
  BY <1>1
<1>5. ASSUME NEW x \in ToSet(Tail(q)) PROVE x \in ToSet(q) /\ x # Head(q)
  <2>1. PICK i \in 1 .. Len(q) - 1 : x = Tail(q)[i]
    BY <1>1 DEF ToSet
  <2>2. i + 1 \in 1 .. Len(q) /\ i + 1 # 1 /\ x = q[i + 1]
    BY <1>1, <2>1
  <2> QED BY <1>1, <1>2, <1>4, <2>2 DEF ToSet
<1>6. ASSUME NEW x \in ToSet(q), x # Head(q) PROVE x \in ToSet(Tail(q))
  <2>1. PICK i \in 1 .. Len(q) : x = q[i]
    BY <1>1 DEF ToSet
  <2>2. i - 1 \in 1 .. Len(q) - 1 /\ Tail(q)[i - 1] = q[(i - 1) + 1] /\ (i - 1) + 1 = i
    BY <1>1, <1>6, <2>1
  <2> QED BY <1>1, <2>1, <2>2 DEF ToSet
<1>7. Head(q) \in ToSet(q)
  BY <1>1, <1>4 DEF ToSet
<1> QED BY <1>1, <1>3, <1>5, <1>6, <1>7

\* Two lists without repetitions and without a common member.
LEMMA JoinFacts ==
  ASSUME NEW s \in Seq(Objects), NEW t \in Seq(Objects), IsInjective(s), IsInjective(t),
         ToSet(s) \cap ToSet(t) = {}
  PROVE  s \o t \in Seq(Objects) /\ IsInjective(s \o t) /\ ToSet(s \o t) = ToSet(s) \cup ToSet(t)
<1> DEFINE m == Len(s)
           n == Len(t)
           u == s \o t
<1>1. /\ m \in Nat /\ n \in Nat /\ DOMAIN s = 1 .. m /\ DOMAIN t = 1 .. n
      /\ u \in Seq(Objects) /\ DOMAIN u = 1 .. m + n
      /\ \A i \in 1 .. m + n : u[i] = IF i <= m THEN s[i] ELSE t[i - m]
  OBVIOUS
<1>2. /\ \A a, b \in 1 .. m : s[a] = s[b] => a = b
      /\ \A a, b \in 1 .. n : t[a] = t[b] => a = b
      /\ \A a \in 1 .. m, b \in 1 .. n : s[a] # t[b]
  <2>1. /\ \A a, b \in DOMAIN s : s[a] = s[b] => a = b
        /\ \A a, b \in DOMAIN t : t[a] = t[b] => a = b
    BY Zenon DEF IsInjective
  <2>2. \A a \in DOMAIN s, b \in DOMAIN t : s[a] \in ToSet(s) /\ t[b] \in ToSet(t)
    BY Zenon DEF ToSet
  <2>3. \A a \in DOMAIN s, b \in DOMAIN t : s[a] # t[b]
    BY <2>2
  <2> HIDE DEF m, n
  <2> QED BY <1>1, <2>1, <2>3
<1> HIDE DEF m, n, u
<1>3. \A i \in 1 .. m + n : /\ i <= m => i \in 1 .. m /\ u[i] = s[i]
                            /\ ~(i <= m) => i - m \in 1 .. n /\ u[i] = t[i - m]
  BY <1>1
<1>4. ASSUME NEW a \in 1 .. m + n, NEW b \in 1 .. m + n, u[a] = u[b] PROVE a = b
  <2>1. CASE a <= m /\ b <= m
    BY <1>2, <1>3, <1>4, <2>1
  <2>2. CASE ~(a <= m) /\ ~(b <= m)
    <3>1. a - m = b - m
      BY <1>2, <1>3, <1>4, <2>2
    <3> QED BY <1>1, <3>1
  <2>3. CASE a <= m /\ ~(b <= m)
    BY <1>2, <1>3, <1>4, <2>3
  <2>4. CASE ~(a <= m) /\ b <= m
    BY <1>2, <1>3, <1>4, <2>4
  <2> QED BY <2>1, <2>2, <2>3, <2>4
<1>5. IsInjective(u)
  BY <1>1, <1>4 DEF IsInjective
<1>6. ToSet(u) \subseteq ToSet(s) \cup ToSet(t)
  BY <1>1, <1>3 DEF ToSet
<1>7. \A i \in 1 .. m : i \in 1 .. m + n /\ u[i] = s[i]
  BY <1>1
<1>8. \A i \in 1 .. n : m + i \in 1 .. m + n /\ u[m + i] = t[i]
  <2> SUFFICES ASSUME NEW i \in 1 .. n PROVE m + i \in 1 .. m + n /\ u[m + i] = t[i]
    OBVIOUS
  <2>1. m + i \in 1 .. m + n /\ ~(m + i <= m) /\ (m + i) - m = i
    BY <1>1
  <2> QED BY <1>3, <2>1
<1>9. ToSet(s) \subseteq ToSet(u) /\ ToSet(t) \subseteq ToSet(u)
  BY <1>1, <1>7, <1>8 DEF ToSet
<1>10. u = s \o t
  BY DEF u
<1> QED BY <1>1, <1>5, <1>6, <1>9, <1>10

\* An answer that does not handle the event changes nothing.
LEMMA PassChanges ==
  ASSUME NEW w, WorldOK(w), NEW o \in Objects \cup {None}, NEW mode,
         NEW r \in Asked(w, o, mode), ~r.handled
  PROVE  r.world = w
<1>1. CASE o = None
  BY <1>1 DEF Asked
<1>2. CASE o # None
  <2>1. PICK a \in Answers(Kind[o], w.objs[o].state, w.objs[o].hid = hid, e, mode) :
          r = [handled |-> a.handled, world |-> Requested(w, o, a, hid)]
    BY <1>2 DEF Asked
  <2>2. o \in Objects /\ Kind[o] \in {"simple", "table", "screen", "group"}
    BY <1>2, SceneAssumption
  <2>3. a = Pass(w.objs[o].state)
    BY <2>1, <2>2, AnswerDrags DEF Answered
  <2>4. a.request = "none" /\ a.state = w.objs[o].state
    BY <2>3 DEF Pass
  <2>5. [w EXCEPT !.objs[o].state = w.objs[o].state] = w
    BY <2>2 DEF WorldOK, Worlds, ObjectRecords
  <2>6. Requested(w, o, a, hid) = [w EXCEPT !.objs[o].state = a.state]
    BY <2>4 DEF Requested
  <2> QED BY <2>1, <2>4, <2>5, <2>6
<1> QED BY <1>1, <1>2

\* Going on with what is below the head of the list in front, or without it, when the
\* head is skipped or was asked.
LEMMA NextApart ==
  ASSUME Forest, NEW w, NEW A \in SUBSET Objects, NEW q \in Seq(Objects), q # <<>>, Apart(w, A, q),
         NEW s \in Seq(Objects), NEW B,
         IsInjective(s),
         \/ B = A /\ Head(q) = Info(w).object
              /\ s = IF "recursive" \in Info(w).config THEN <<>> ELSE Children[Head(q)]
         \/ B = A \cup {Head(q)} /\ Head(q) # Info(w).object /\ s = Children[Head(q)]
  PROVE  /\ Apart(w, B, s \o Tail(q)) /\ s \o Tail(q) \in Seq(Objects)
         /\ ToSet(s \o Tail(q)) = ToSet(s) \cup ToSet(Tail(q))
<1> DEFINE h == Head(q)
           T == ToSet(q)
           f == Info(w).object
           rec == "recursive" \in Info(w).config
<1>1. /\ IsInjective(q) /\ \A r, t \in T : r # t => Below[r] \cap Below[t] = {}
      /\ \A r \in T : \A x \in Below[r] \cap (A \ {f}) : rec /\ f \in Below[r] /\ x \in Below[f]
  BY DEF Apart
<1>2. /\ Tail(q) \in Seq(Objects) /\ IsInjective(Tail(q)) /\ h \in T /\ ToSet(Tail(q)) = T \ {h}
  BY <1>1, TailFacts
<1>3. T \subseteq Objects
  BY DEF ToSet
<1>4. ToSet(s) \subseteq Kids(h) /\ (h = f /\ rec => ToSet(s) = {})
  <2>1. ToSet(<<>>) = {}
    BY DEF ToSet
  <2> QED BY <2>1 DEF Kids
<1>5. \/ B = A /\ h = f
      \/ B = A \cup {h} /\ h # f
  OBVIOUS
<1> HIDE DEF h, T, f, rec
<1>6. h \in Objects /\ h \in Below[h] /\ \A c \in ToSet(s) : c \in Objects /\ c \in Below[c] /\ Below[c] \subseteq Below[h]
  <2>1. h \in Objects /\ h \in Below[h] /\ Kids(h) \subseteq Below[h]
    BY <1>2, <1>3, BelowLeast
  <2> QED BY <1>4, <2>1, BelowLeast, BelowNested
<1>7. ToSet(s) \cap ToSet(Tail(q)) = {}
  <2>1. \A t \in T \ {h} : Below[h] \cap Below[t] = {} /\ t \in Below[t]
    BY <1>1, <1>2, <1>3, BelowLeast
  <2> QED BY <1>2, <1>6, <2>1
<1>8. /\ s \o Tail(q) \in Seq(Objects) /\ IsInjective(s \o Tail(q))
      /\ ToSet(s \o Tail(q)) = ToSet(s) \cup (T \ {h})
  BY <1>2, <1>7, JoinFacts
<1>9. ASSUME NEW r \in ToSet(s) \cup (T \ {h}), NEW t \in ToSet(s) \cup (T \ {h}), r # t
      PROVE  Below[r] \cap Below[t] = {}
  <2>1. CASE r \in ToSet(s) /\ t \in ToSet(s)
    BY <1>4, <1>6, <1>9, <2>1, SiblingsApart
  <2>2. CASE r \in T \ {h} /\ t \in T \ {h}
    BY <1>1, <1>9, <2>2
  <2>3. CASE r \in ToSet(s) /\ t \in T \ {h}
    BY <1>1, <1>2, <1>6, <2>3
  <2>4. CASE t \in ToSet(s) /\ r \in T \ {h}
    BY <1>1, <1>2, <1>6, <2>4
  <2> QED BY <1>9, <2>1, <2>2, <2>3, <2>4
<1>10. ASSUME NEW r \in ToSet(s) \cup (T \ {h}), NEW x \in Below[r], x \in B \ {f}
       PROVE  rec /\ f \in Below[r] /\ x \in Below[f]
  <2>1. CASE r \in T \ {h}
    <3>1. x # h
      BY <1>1, <1>2, <1>6, <1>10, <2>1
    <3> QED BY <1>1, <1>5, <1>10, <2>1, <3>1
  <2>2. CASE r \in ToSet(s)
    <3>1. x \in Below[h] /\ r \in Kids(h) /\ x # h
      BY <1>4, <1>6, <1>10, <2>2, NoLoop
    <3>2. rec /\ f \in Below[h] /\ x \in Below[f]
      BY <1>1, <1>2, <1>5, <1>10, <3>1
    <3>3. h # f
      BY <1>4, <2>2, <3>2
    <3>4. PICK c \in Kids(h) : f \in Below[c]
      BY <1>6, <3>2, <3>3, BelowPath
    <3>5. x \in Below[c]
      BY <1>6, <3>2, <3>4, BelowLeast, BelowNested
    <3>6. c = r
      BY <1>6, <1>10, <3>1, <3>4, <3>5, SiblingsApart
    <3> QED BY <3>2, <3>4, <3>6
  <2> QED BY <1>10, <2>1, <2>2
<1>11. Apart(w, B, s \o Tail(q))
  BY <1>8, <1>9, <1>10 DEF Apart, f, rec
<1> QED BY <1>2, <1>8, <1>11

\* An empty list.
LEMMA NothingApart ==
  ASSUME NEW w, NEW A
  PROVE  Apart(w, A, <<>>)
<1>1. ToSet(<<>>) = {} /\ IsInjective(<<>>)
  BY DEF ToSet, IsInjective
<1> QED BY <1>1 DEF Apart

\* The list of hierarchies has every root once.
LEMMA HierarchiesOnce ==
  ASSUME Forest, WorldOK(World)
  PROVE  IsInjective(Hierarchies) /\ ToSet(Hierarchies) \subseteq ToSet(Roots)
<1>1. Roots \in Seq(Objects) /\ Roots # <<>>
  BY SceneAssumption
<1>2. FirstRoot \in DOMAIN Roots
  <2>1. CASE InFocus = None
    BY <1>1, <2>1 DEF FirstRoot
  <2>2. CASE InFocus # None
    <3>1. \E i \in DOMAIN Roots : InHierarchy(InFocus, Roots[i])
      BY <2>2, FocusObject, SceneAssumption
    <3> QED BY <2>2, <3>1 DEF FirstRoot
  <2> QED BY <2>1, <2>2
<1>3. DOMAIN Roots = 1 .. Len(Roots) /\ Len(Roots) \in Nat
  BY <1>1
<1> DEFINE n == Len(Roots)
           At(i) == IF i = 1 THEN FirstRoot ELSE IF i <= FirstRoot THEN i - 1 ELSE i
<1>4. n \in Nat /\ FirstRoot \in 1 .. n
  BY <1>2, <1>3
<1> HIDE DEF n
<1>5. \A i \in 1 .. n : At(i) \in 1 .. n
  BY <1>4
<1>6. \A i, j \in 1 .. n : At(i) = At(j) => i = j
  BY <1>4
<1>7. DOMAIN Hierarchies = 1 .. n /\ \A i \in 1 .. n : Hierarchies[i] = Roots[At(i)]
  <2>1. DOMAIN Hierarchies = 1 .. n
    BY <1>3 DEF Hierarchies, n
  <2>2. \A i \in 1 .. n : Hierarchies[i] = IF i = 1 THEN Roots[FirstRoot]
                          ELSE IF i <= FirstRoot THEN Roots[i - 1] ELSE Roots[i]
    BY <1>3 DEF Hierarchies, n
  <2> QED BY <2>1, <2>2
<1> HIDE DEF At
<1>8. \A a, b \in 1 .. n : Roots[a] = Roots[b] => a = b
  BY <1>3 DEF Forest, IsInjective, n
<1>9. IsInjective(Hierarchies)
  BY <1>5, <1>6, <1>7, <1>8 DEF IsInjective
<1>10. ToSet(Hierarchies) \subseteq ToSet(Roots)
  BY <1>3, <1>5, <1>7 DEF ToSet, n
<1> QED BY <1>9, <1>10

\* The traversal of all hierarchies may begin when those asked are the object in focus
\* and what is below it.
LEMMA RootsApart ==
  ASSUME Forest, NEW w, w \in Worlds, NEW A \in SUBSET Objects, A \ {Info(w).object} \subseteq FocusBelow(w),
         NEW q, IsInjective(q), ToSet(q) \subseteq ToSet(Roots)
  PROVE  Apart(w, A, q)
<1> DEFINE f == Info(w).object
           rec == "recursive" \in Info(w).config
<1>1. ToSet(Roots) \subseteq Objects /\ f \in Objects \cup {None}
  BY SceneAssumption, InfoTypes DEF ToSet
<1>2. A \ {f} # {} => f # None /\ rec /\ A \ {f} \subseteq Below[f]
  BY DEF FocusBelow
<1> HIDE DEF f, rec
<1>3. \A r, t \in ToSet(q) : r # t => Below[r] \cap Below[t] = {}
  BY SiblingsApart
<1>4. ASSUME NEW r \in ToSet(q), NEW x \in Below[r], x \in A \ {f}
      PROVE  rec /\ f \in Below[r] /\ x \in Below[f]
  <2>1. rec /\ x \in Below[f] /\ f \in Objects /\ r \in ToSet(Roots) /\ r \in Objects
    BY <1>1, <1>2, <1>4
  <2>2. f \in Below[r] \/ r \in Below[f]
    BY <1>4, <2>1, BelowMeet
  <2>3. r \in Below[f] => r = f
    BY <2>1, RootsOnTop
  <2>4. f \in Below[f]
    BY <2>1, BelowLeast
  <2> QED BY <2>1, <2>2, <2>3, <2>4
<1> QED BY <1>3, <1>4 DEF Apart, f, rec

\* The invariant behind HandledOnce, besides SceneInv.
OnceInv == AskedOnce(World, phase, asked, todo)

\* The world stays as it is, and the dispatch goes on in phase p.
LEMMA SameOnce ==
  ASSUME UNCHANGED world_vars, AskedOnce(World, phase', asked', todo')
  PROVE  OnceInv'
<1>1. World' = World
  BY DEF world_vars, World
<1>2. AskedOnce(World', phase', asked', todo')
  BY <1>1
<1> QED BY <1>2 DEF OnceInv, AskedOnce, Apart, FocusBelow, Info

\* A phase that begins with the list and the objects asked as they are.
LEMMA GotoOnce ==
  ASSUME OnceInv, NEW p, Goto(p), UNCHANGED world_vars,
         \/ phase = "grab" /\ p = "spatial"
         \/ phase = "spatial" /\ p = "focus"
         \/ phase = "focus" /\ p = "roots"
         \/ phase = "kids" /\ p = "roots" /\ todo = <<>>
  PROVE  OnceInv'
<1>1. phase' = p /\ asked' = asked /\ todo' = todo
  BY DEF Goto
<1>2. AskedOnce(World, p, asked, todo)
  <2>1. AskedOnce(World, phase, asked, todo)
    BY DEF OnceInv
  <2> QED BY <2>1, Zenon DEF AskedOnce
<1> QED BY <1>1, <1>2, SameOnce

\* A dispatch that ends forgets the list and the objects asked.
LEMMA ReturnOnce ==
  ASSUME NEW w, Return(w)
  PROVE  OnceInv'
<1>1. phase' = "idle" /\ asked' = {} /\ todo' = <<>>
  BY DEF Return
<1>2. AskedOnce(World', phase', asked', todo')
  BY <1>1, NothingApart DEF AskedOnce
<1> QED BY <1>2 DEF OnceInv, AskedOnce, Apart, FocusBelow, Info, World

\* An object is asked in world w: the world is the same when it does not handle the event.
LEMMA AskOnce ==
  ASSUME NEW w, WorldOK(w), NEW o \in Objects \cup {None}, NEW mode, NEW next, NEW rest,
         Ask(w, o, mode, next, rest),
         AskedOnce(w, next, asked \cup ({o} \ {None}), rest)
  PROVE  OnceInv'
<1>1. PICK r \in Asked(w, o, mode) :
        \/ Return(r.world)
        \/ /\ ~r.handled /\ Become(r.world)
           /\ phase' = next /\ todo' = rest /\ asked' = asked \cup ({o} \ {None})
  BY DEF Ask
<1>2. CASE Return(r.world)
  BY <1>2, ReturnOnce
<1>3. CASE /\ ~r.handled /\ Become(r.world)
           /\ phase' = next /\ todo' = rest /\ asked' = asked \cup ({o} \ {None})
  <2>1. r.world = w
    BY <1>3, PassChanges
  <2>2. World' = w
    BY <1>3, <2>1, BecomeWorld
  <2>3. AskedOnce(World', phase', asked', todo')
    BY <1>3, <2>2
  <2> QED BY <2>3 DEF OnceInv, AskedOnce, Apart, FocusBelow, Info, World
<1> QED BY <1>1, <1>2, <1>3

\* The spatial phase asks the object in focus, before anybody else.
LEMMA FirstAsked ==
  ASSUME NEW w, w \in Worlds, phase = "spatial", OnceInv
  PROVE  AskedOnce(w, "roots", asked \cup ({Info(w).object} \ {None}), <<>>)
<1>1. asked = {} /\ Info(w).object \in Objects \cup {None}
  BY InfoTypes DEF OnceInv, AskedOnce
<1>2. asked \cup ({Info(w).object} \ {None}) \in SUBSET Objects
      /\ (asked \cup ({Info(w).object} \ {None})) \ {Info(w).object} = {}
  BY <1>1
<1> QED BY <1>2, NothingApart DEF AskedOnce

\* Every phase of a dispatch keeps that invariant.
LEMMA DispatchOnce ==
  ASSUME Forest, SceneInv, OnceInv, Dispatch
  PROVE  OnceInv'
<1>1. /\ WorldOK(World) /\ World \in Worlds /\ todo \in Seq(Objects)
      /\ InFocus \in Objects \cup {None} /\ InFocus = Info(World).object /\ Config = Info(World).config
      /\ phase # "idle" => hid \in Hids
  BY FocusObject DEF SceneInv, WorldOK, InFocus, Config
<1>2. AskedOnce(World, phase, asked, todo)
  BY DEF OnceInv
<1>3. /\ asked \in SUBSET Objects /\ Apart(World, asked, todo)
      /\ phase \in {"idle", "grab", "spatial", "focus"} => asked = {} /\ todo = <<>>
      /\ phase = "kids" => /\ InFocus # None /\ asked \ {InFocus} \subseteq FocusBelow(World)
                            /\ \A r \in ToSet(todo) : Below[r] \subseteq FocusBelow(World)
      /\ phase = "roots" => todo = <<>> /\ asked \ {InFocus} \subseteq FocusBelow(World)
  BY <1>1, <1>2 DEF AskedOnce
<1>4. <<>> \in Seq(Objects) /\ ToSet(<<>>) = {} /\ IsInjective(<<>>)
  BY DEF ToSet, IsInjective
<1>5. \A o \in Objects : Children[o] \in Seq(Objects) /\ IsInjective(Children[o])
  BY SceneAssumption DEF Forest
<1>g. ASSUME NEW o \in Objects, Grab(o)
      PROVE  OnceInv'
  <2>1. phase' = "spatial" /\ asked' = {} /\ todo' = <<>>
    BY <1>3, <1>g DEF Grab, Goto
  <2>2. AskedOnce(World', phase', asked', todo')
    BY <2>1, NothingApart DEF AskedOnce
  <2> QED BY <2>2 DEF OnceInv, AskedOnce, Apart, FocusBelow, Info, World
<1>6. CASE NoGrab
  BY <1>6, GotoOnce DEF NoGrab
<1>7. CASE NoSpatial
  BY <1>7, GotoOnce DEF NoSpatial
<1>8. CASE SpatialButton
  <2>1. phase = "spatial" /\ Ask(World, InFocus, dis_mode[hid], "roots", <<>>)
    BY <1>8 DEF SpatialButton
  <2>2. AskedOnce(World, "roots", asked \cup ({InFocus} \ {None}), <<>>)
    BY <1>1, <2>1, FirstAsked
  <2> QED BY <1>1, <2>1, <2>2, AskOnce
<1>9. CASE SpatialPose
  <2>1. PICK mode : phase = "spatial" /\ Ask(World, InFocus, mode, "roots", <<>>)
    BY <1>9 DEF SpatialPose
  <2>2. AskedOnce(World, "roots", asked \cup ({InFocus} \ {None}), <<>>)
    BY <1>1, <2>1, FirstAsked
  <2> QED BY <1>1, <2>1, <2>2, AskOnce
<1>10. CASE SpatialRefocus
  <2>1. PICK hit \in Hits : Ask(Refocused(World, hit), Info(Refocused(World, hit)).object, hit.mode, "roots", <<>>)
    BY <1>10 DEF SpatialRefocus
  <2> DEFINE v == Refocused(World, hit)
  <2>2. phase = "spatial" /\ hid \in Hids
    BY <1>1, <1>10 DEF SpatialRefocus
  <2>3. WorldOK(v)
    BY <1>1, <2>2, RefocusKeeps
  <2> HIDE DEF v
  <2>4. v \in Worlds /\ Info(v).object \in Objects \cup {None}
    BY <2>3, InfoTypes DEF WorldOK
  <2>5. AskedOnce(v, "roots", asked \cup ({Info(v).object} \ {None}), <<>>)
    BY <2>2, <2>4, FirstAsked
  <2>6. Ask(v, Info(v).object, hit.mode, "roots", <<>>)
    BY <2>1 DEF v
  <2> QED BY <2>3, <2>4, <2>5, <2>6, AskOnce
<1>11. CASE DispatchFocus
  <2> DEFINE rest == IF "recursive" \in Config THEN Children[InFocus] ELSE <<>>
  <2>1. phase = "focus" /\ InFocus \in Objects /\ InFocus # None /\ Ask(World, InFocus, "focus", "kids", rest)
    BY <1>1, <1>11 DEF DispatchFocus
  <2>2. rest \in Seq(Objects) /\ IsInjective(rest)
    BY <1>4, <1>5, <2>1
  <2>3. /\ ToSet(rest) \subseteq Kids(InFocus)
        /\ "recursive" \notin Config => ToSet(rest) = {}
    BY <1>4, <2>1 DEF Kids
  <2> HIDE DEF rest
  <2>4. asked \cup ({InFocus} \ {None}) = {InFocus}
    BY <1>3, <2>1
  <2>5. \A r, t \in ToSet(rest) : r # t => Below[r] \cap Below[t] = {}
    BY <2>1, <2>3, SiblingsApart
  <2>6. Apart(World, {InFocus}, rest)
    BY <1>1, <2>2, <2>5 DEF Apart
  <2>r. \A r \in ToSet(rest) : Below[r] \subseteq FocusBelow(World)
    <3> SUFFICES ASSUME NEW r \in ToSet(rest) PROVE Below[r] \subseteq FocusBelow(World)
      OBVIOUS
    <3>1. FocusBelow(World) = Below[InFocus]
      BY <1>1, <2>1, <2>3 DEF FocusBelow
    <3>2. r \in Below[InFocus]
      BY <2>1, <2>3, BelowLeast
    <3> QED BY <2>1, <3>1, <3>2, BelowNested
  <2>7. AskedOnce(World, "kids", {InFocus}, rest)
    BY <1>1, <2>1, <2>6, <2>r DEF AskedOnce
  <2> QED BY <1>1, <2>1, <2>4, <2>7, AskOnce
<1>12. CASE NoFocus
  BY <1>12, GotoOnce DEF NoFocus
<1>13. CASE StartRoots
  <2>1. /\ phase = "roots" /\ phase' = "structural" /\ asked' = asked /\ UNCHANGED world_vars
        /\ todo' = IF "structural" \in Config THEN Hierarchies ELSE <<>>
    BY <1>13 DEF StartRoots
  <2>2. Apart(World, asked, Hierarchies)
    BY <1>1, <1>3, <2>1, HierarchiesOnce, RootsApart
  <2>3. Apart(World, asked', todo')
    BY <2>1, <2>2, NothingApart
  <2>4. AskedOnce(World, phase', asked', todo')
    BY <1>3, <2>1, <2>3 DEF AskedOnce
  <2> QED BY <2>1, <2>4, SameOnce
<1>14. CASE VisitFocus
  <2> DEFINE s == IF "recursive" \in Config THEN <<>> ELSE Children[Head(todo)]
  <2>1. /\ phase \in {"kids", "structural"} /\ todo # <<>> /\ Head(todo) = InFocus
        /\ phase' = phase /\ asked' = asked /\ UNCHANGED world_vars
        /\ todo' = s \o Tail(todo)
    BY <1>14 DEF VisitFocus, Skipped
  <2>2. Head(todo) \in Objects /\ Head(todo) \in ToSet(todo)
    BY <1>1, <1>3, <2>1, TailFacts DEF Apart
  <2>3. s \in Seq(Objects) /\ IsInjective(s)
    BY <1>4, <1>5, <2>2
  <2>4. /\ Apart(World, asked, s \o Tail(todo))
        /\ ToSet(s \o Tail(todo)) = ToSet(s) \cup ToSet(Tail(todo))
    <3>1. s = IF "recursive" \in Info(World).config THEN <<>> ELSE Children[Head(todo)]
      BY <1>1
    <3>2. /\ asked \in SUBSET Objects /\ Apart(World, asked, todo) /\ Head(todo) = Info(World).object
          /\ todo \in Seq(Objects) /\ todo # <<>> /\ s \in Seq(Objects) /\ IsInjective(s)
      BY <1>1, <1>3, <2>1, <2>3
    <3> HIDE DEF s
    <3> QED BY <3>1, <3>2, NextApart
  <2>5. phase = "kids" => \A r \in ToSet(s \o Tail(todo)) : Below[r] \subseteq FocusBelow(World)
    <3> SUFFICES ASSUME phase = "kids", NEW r \in ToSet(s \o Tail(todo))
                 PROVE  Below[r] \subseteq FocusBelow(World)
      OBVIOUS
    <3>1. Below[Head(todo)] \subseteq FocusBelow(World) /\ Head(todo) \in Below[Head(todo)]
      BY <1>3, <2>2, BelowLeast
    <3>2. ToSet(s) = {}
      BY <1>1, <1>4, <3>1 DEF FocusBelow
    <3>3. ToSet(Tail(todo)) \subseteq ToSet(todo)
      BY <1>1, <1>3, <2>1, TailFacts DEF Apart
    <3> QED BY <1>3, <2>4, <3>2, <3>3
  <2> HIDE DEF s
  <2>6. AskedOnce(World, phase', asked', todo')
    BY <1>1, <1>3, <2>1, <2>4, <2>5 DEF AskedOnce
  <2> QED BY <2>1, <2>6, SameOnce
<1>15. CASE Visit
  <2> DEFINE h == Head(todo)
             s == Children[h]
  <2>1. PICK mode : /\ phase \in {"kids", "structural"} /\ todo # <<>> /\ h # InFocus
                    /\ Ask(World, h, mode, phase, s \o Tail(todo))
    BY <1>15 DEF Visit, Skipped
  <2>2. h \in Objects /\ h \in ToSet(todo) /\ ToSet(Tail(todo)) = ToSet(todo) \ {h}
        /\ Tail(todo) \in Seq(Objects) /\ IsInjective(Tail(todo))
    BY <1>1, <1>3, <2>1, TailFacts DEF Apart
  <2>3. s \in Seq(Objects) /\ IsInjective(s)
    BY <1>5, <2>2
  <2>4. /\ Apart(World, asked \cup {h}, s \o Tail(todo))
        /\ ToSet(s \o Tail(todo)) = ToSet(s) \cup ToSet(Tail(todo))
    <3>1. /\ asked \in SUBSET Objects /\ Apart(World, asked, todo)
          /\ todo \in Seq(Objects) /\ todo # <<>> /\ s \in Seq(Objects) /\ IsInjective(s)
      BY <1>1, <1>3, <2>1, <2>3
    <3>2. Head(todo) # Info(World).object /\ s = Children[Head(todo)]
      BY <1>1, <2>1
    <3> HIDE DEF s
    <3>3. /\ Apart(World, asked \cup {Head(todo)}, s \o Tail(todo))
          /\ ToSet(s \o Tail(todo)) = ToSet(s) \cup ToSet(Tail(todo))
      BY <3>1, <3>2, NextApart
    <3> QED BY <3>3
  <2>5. asked \cup ({h} \ {None}) = asked \cup {h} /\ asked \cup {h} \subseteq Objects
    BY <1>3, <2>2, SceneAssumption
  <2>6. phase = "kids" => /\ h \in FocusBelow(World)
                          /\ \A r \in ToSet(s \o Tail(todo)) : Below[r] \subseteq FocusBelow(World)
    <3> SUFFICES ASSUME phase = "kids"
                 PROVE  /\ h \in FocusBelow(World)
                        /\ \A r \in ToSet(s \o Tail(todo)) : Below[r] \subseteq FocusBelow(World)
      OBVIOUS
    <3>1. Below[h] \subseteq FocusBelow(World) /\ h \in Below[h]
      BY <1>3, <2>2, BelowLeast
    <3>2. \A r \in ToSet(s) : Below[r] \subseteq Below[h]
      BY <2>2, BelowLeast, BelowNested DEF Kids
    <3> QED BY <1>3, <2>2, <2>4, <3>1, <3>2
  <2> HIDE DEF h, s
  <2>7. AskedOnce(World, phase, asked \cup {h}, s \o Tail(todo))
    BY <1>1, <1>3, <2>1, <2>4, <2>5, <2>6 DEF AskedOnce
  <2> QED BY <1>1, <2>1, <2>2, <2>5, <2>7, AskOnce
<1>16. CASE KidsDone
  BY <1>16, GotoOnce DEF KidsDone
<1>17. CASE Unhandled
  BY <1>17, ReturnOnce DEF Unhandled
<1> QED BY <1>g, <1>6, <1>7, <1>8, <1>9, <1>10, <1>11, <1>12, <1>13, <1>14, <1>15, <1>16, <1>17 DEF Dispatch

\* HandledOnce, for any trees of objects: however the focus moves while the event is
\* dispatched, dispatch_recursive leaves out the object in focus and, if the focus is
\* recursive, what is below it, so that nobody is asked twice.
THEOREM SceneHandledOnce ==
  ASSUME Forest
  PROVE  SceneSpec => []HandledOnce
<1>1. SceneInit => OnceInv
  BY NothingApart DEF SceneInit, OnceInv, AskedOnce
<1>2. SceneInv /\ OnceInv /\ [SceneNext]_scene_vars => OnceInv'
  <2> SUFFICES ASSUME SceneInv, OnceInv, [SceneNext]_scene_vars PROVE OnceInv'
    OBVIOUS
  <2>0. phase = "idle" => asked = {} /\ todo = <<>>
    BY DEF OnceInv, AskedOnce
  <2>i. phase' \in {"idle", "grab"} /\ asked' = {} /\ todo' = <<>> => OnceInv'
    <3> SUFFICES ASSUME phase' \in {"idle", "grab"}, asked' = {}, todo' = <<>> PROVE OnceInv'
      OBVIOUS
    <3>1. AskedOnce(World', phase', asked', todo')
      BY NothingApart DEF AskedOnce
    <3> QED BY <3>1 DEF OnceInv, AskedOnce, Apart, FocusBelow, Info, World
  <2>1. ASSUME NEW h \in Hids, NEW ev, Event(h, ev) PROVE OnceInv'
    BY <2>0, <2>1, <2>i DEF Event
  <2>2. ASSUME NEW h \in Hids, NEW what, Toggle(h, what) PROVE OnceInv'
    BY <2>0, <2>2, <2>i DEF Toggle
  <2>3. CASE Dispatch
    BY <2>3, DispatchOnce
  <2>4. CASE UNCHANGED scene_vars
    <3>1. UNCHANGED world_vars /\ phase' = phase /\ asked' = asked /\ todo' = todo
      BY <2>4 DEF scene_vars
    <3>2. AskedOnce(World, phase', asked', todo')
      BY <3>1 DEF OnceInv
    <3> QED BY <3>1, <3>2, SameOnce
  <2> QED BY <2>1, <2>2, <2>3, <2>4 DEF SceneNext
<1>3. SceneInv /\ OnceInv => HandledOnce
  <2> SUFFICES ASSUME SceneInv, OnceInv PROVE HandledOnce
    OBVIOUS
  <2>1. phase = "focus" => asked = {}
    BY DEF OnceInv, AskedOnce
  <2>2. ASSUME todo # <<>>, ~Skipped(Head(todo)) PROVE Head(todo) \notin asked
    <3> DEFINE h == Head(todo)
    <3>1. IsInjective(todo) /\ todo \in Seq(Objects) /\ Apart(World, asked, todo)
      BY DEF SceneInv, OnceInv, AskedOnce, Apart
    <3>2. h \in ToSet(todo) /\ h \in Objects /\ h # InFocus
      BY <2>2, <3>1, TailFacts DEF Skipped
    <3>3. InFocus \in Objects \cup {None} /\ h \in Below[h]
      BY <3>2, FocusObject, BelowLeast DEF SceneInv
    <3> HIDE DEF h
    <3>4. SUFFICES ASSUME h \in asked PROVE FALSE
      BY DEF h
    <3>5. InFocus \in Below[h] /\ h \in Below[InFocus]
      BY <3>1, <3>2, <3>3, <3>4 DEF Apart, InFocus
    <3>6. InFocus \in Objects
      BY <3>2, <3>5, BelowLeast
    <3> QED BY <3>2, <3>5, <3>6, BelowBoth
  <2> QED BY <2>1, <2>2 DEF HandledOnce
<1> QED BY <1>1, <1>2, <1>3, SceneInvariant, PTL DEF SceneSpec
================================================================================
