----------------------------- MODULE Registration ------------------------------
(***************************************************************************)
(* Registration of objects in cgv/base/register.cxx.  While registration   *)
(* is disabled (static initialization, loading of a plugin), events are    *)
(* stored; enable_registration sends them in four passes over the list of  *)
(* events, and every on_register callback may register further objects,    *)
(* which are appended to the list the loop is running over.                *)
(*                                                                         *)
(* Type names are objects here, and one partial order with the default     *)
(* flags is in force, as in every use of registration_order_definition.    *)
(***************************************************************************)
EXTENDS PartialOrder

CONSTANTS
  Objects,
  Servers, Drivers, Listeners,   \* the interfaces an object may implement
  Ctors, Makes,                  \* object_constructors and what they construct
  Order,                         \* the partial order, a sequence of objects
  Calls,                         \* what callers do beyond the plain use, see below
  None

\* "permanent", "cleanup": these switches are used;
\* "callback": on_register registers an object whose pass is over already;
\* "unregister": objects are unregistered while registration is disabled;
\* "constructor": register_object is given a constructor when it is enabled.
ASSUME RegistrationAssumption ==
  /\ Servers \cup Drivers \cup Listeners \subseteq Objects
  /\ Servers \cap Drivers = {}
  /\ Objects \cap Ctors = {}
  /\ Makes \in [Ctors -> Objects]
  /\ Order \in Seq(Objects) /\ IsInjective(Order)
  /\ Calls \subseteq {"permanent", "cleanup", "callback", "unregister",
                      "constructor"}
  /\ None \notin Objects \cup Ctors

Items == Objects \cup Ctors
Passes == {"server", "driver", "listener", "rest"}
HeardBound == 2     \* the history counts "never", "once" and "more often"

VARIABLES
  events,      \* ref_registration_events()
  listeners,   \* ref_listeners()
  objects,     \* ref_object_collection().objects
  enabled, permanent, cleanup,   \* the flags of registration_info
  nr,          \* nr_events_before_disable; i0 while enable_registration runs
  pass,        \* the loop of enable_registration, "exit" in unregister_all, or "idle"
  cursor,      \* its loop variable
  cb,          \* the object whose on_register runs inside enable_registration
  emitted, dead,   \* history: objects registered and unregistered by callers
  registered,      \* history: how often register_object_internal got an object
  heard,           \* history: how often a listener was given an object, both being there
  cleaned          \* history: event cleanup has been enabled at some time

info == <<enabled, permanent, cleanup, nr>>
loop == <<pass, cursor, cb>>
history == <<emitted, dead, registered, heard, cleaned>>
reg_vars == <<events, listeners, objects, info, loop, history>>

Init ==
  /\ events = <<>> /\ listeners = <<>> /\ objects = <<>>
  /\ enabled = FALSE /\ permanent = TRUE /\ cleanup = FALSE /\ nr = 0
  /\ pass = "idle" /\ cursor = 1 /\ cb = None
  /\ emitted = {} /\ dead = {} /\ cleaned = FALSE
  /\ registered = [x \in Items |-> 0]
  /\ heard = [l \in Listeners |-> [x \in Items |-> 0]]

\* The elements of s at the positions P.
Kept(s, P) ==
  [n \in 1 .. Cardinality(P) |-> s[CHOOSE k \in P : Cardinality({m \in P : m < k}) = n - 1]]

Without(s, x) == Kept(s, {k \in DOMAIN s : s[k] # x})
More(n) == IF n < HeardBound THEN n + 1 ELSE n

\* object_collection::remove_object: after erase(i) the index grows twice, so
\* that the two objects behind a removed one are not compared.
Erased(s, x) == CHOOSE P \in SUBSET DOMAIN s :
  \A k \in DOMAIN s : k \in P <=> s[k] = x /\ k - 1 \notin P /\ k - 2 \notin P
RemoveObject(s, x) == Kept(s, DOMAIN s \ Erased(s, x))

\* sort_registration_events with one partial order, as SortEvents justifies.
Sorted(s) == PulledForward(s, Order)

\* Listener l is given the items of set S, one after the other.
Given(h, l, S) == [h EXCEPT ![l] = [x \in Items |-> IF x \in S THEN More(@[x]) ELSE @[x]]]

\* register_object_internal up to the call of on_register, for listeners L.
RegisterInternal(x, L, h) ==
  /\ heard' = [l \in Listeners |->
                 IF l \in ToSet(L) THEN [h[l] EXCEPT ![x] = More(@)] ELSE h[l]]
  /\ registered' = [registered EXCEPT ![x] = More(@)]
  /\ objects' = IF permanent THEN Append(objects, x) ELSE objects

\* What register_object is to register: construct_object() of a constructor.
Constructed(x) == IF x \in Ctors THEN Makes[x] ELSE x

\* The pass of enable_registration that registers x.
PassOf(x) ==
  CASE x \in Servers   -> "server"
    [] x \in Drivers   -> "driver"
    [] x \in Listeners -> "listener"
    [] OTHER           -> "rest"

\* Mutant of Following: listeners before drivers.
SwappedFollowing(p) ==
  CASE p = "server" -> "listener" [] p = "listener" -> "driver"
    [] OTHER -> "rest"

Following(p) ==
  CASE p = "server" -> "driver" [] p = "driver" -> "listener"
    [] OTHER -> "rest"

PassIsAhead(p) == p \in {pass, Following(pass), Following(Following(pass)), "rest"}

\* What a caller may register now: something new, from outside of
\* enable_registration or from the callback it is in, and nothing that the order
\* puts in front of an event of a former batch.
MayRegister(x) ==
  /\ x \notin emitted
  /\ \/ pass = "idle"
     \/ /\ cb # None
        /\ "callback" \in Calls \/ PassIsAhead(PassOf(x))
  /\ \A i, j \in DOMAIN Order :
         i < j /\ Order[i] = x /\ ~enabled =>
           \A k \in DOMAIN events : k <= nr => events[k] # Order[j]

--------------------------------------------------------------------------------
\* register_object while registration is disabled: the event is stored.
StoreEvent(x) ==
  /\ ~enabled
  /\ events' = Append(events, x)
  /\ UNCHANGED <<listeners, objects, info, loop, dead, registered, heard, cleaned>>

\* register_object while registration is enabled.
RegisterNow(x) ==
  /\ enabled
  /\ LET o == Constructed(x)
         isListener == o \in Listeners
         L == IF isListener THEN Append(listeners, o) ELSE listeners
         E == IF cleanup THEN events ELSE Append(events, x)
     IN /\ events' = E
        /\ listeners' = L
        /\ RegisterInternal(o, L, IF isListener THEN Given(heard, o, ToSet(E)) ELSE heard)
  /\ UNCHANGED <<info, loop, dead, cleaned>>

RegisterObject(x) ==
  /\ MayRegister(x)
  /\ emitted' = emitted \cup {x}
  /\ StoreEvent(x) \/ RegisterNow(x)

\* object_registration<T>: a constructor while registration is disabled, the
\* object itself otherwise.  The history counts the object in both cases.
ObjectRegistration(c) ==
  /\ MayRegister(Makes[c])
  /\ pass = "idle" \/ "callback" \in Calls
  /\ emitted' = emitted \cup {Makes[c]}
  /\ StoreEvent(c) \/ RegisterNow(Makes[c])

\* register_object with a constructor, whatever the state of registration.
RegisterConstructor(c) ==
  /\ "constructor" \in Calls
  /\ MayRegister(Makes[c])
  /\ pass = "idle" \/ "callback" \in Calls
  /\ emitted' = emitted \cup {Makes[c]}
  /\ StoreEvent(c) \/ RegisterNow(c)

--------------------------------------------------------------------------------
\* enable_registration up to the first loop: constructors of the batch are
\* replaced by their objects, then the partial order is applied.
EnableRegistration ==
  /\ pass = "idle"
  /\ ~enabled
  /\ events' = Sorted([i \in DOMAIN events |->
                        IF i > nr THEN Constructed(events[i]) ELSE events[i]])
  /\ pass' = "server"
  /\ cursor' = nr + 1
  /\ UNCHANGED <<listeners, objects, info, cb, history>>

InLoop == pass \in Passes /\ cb = None /\ cursor <= Len(events)
Item == events[cursor]

\* The body of a loop: register_object_internal calls on_register.
RegisterItem ==
  /\ InLoop
  /\ PassOf(Item) = pass
  /\ RegisterInternal(Item, listeners, heard)
  /\ cb' = Item
  /\ UNCHANGED <<events, listeners, info, pass, cursor, emitted, dead, cleaned>>

\* The events the listener at the cursor has missed: those of former batches,
\* and the listeners in front of it.
Missed == {events[k] : k \in {m \in 1 .. cursor - 1 : m <= nr \/ events[m] \in Listeners}}

\* Mutant of OnRegisterReturns: the buffered events are not sent.
NoReplayOnRegisterReturns ==
  /\ cb # None
  /\ listeners' = IF cb \in Listeners THEN Append(listeners, cb) ELSE listeners
  /\ cursor' = cursor + 1
  /\ cb' = None
  /\ UNCHANGED <<events, objects, info, pass, history>>

\* on_register returns; a listener is entered and, in its pass, sent the events
\* it has missed.
OnRegisterReturns ==
  /\ cb # None
  /\ listeners' = IF cb \in Listeners THEN Append(listeners, cb) ELSE listeners
  /\ heard' = IF pass = "listener" THEN Given(heard, cb, Missed) ELSE heard
  /\ cursor' = cursor + 1
  /\ cb' = None
  /\ UNCHANGED <<events, objects, info, pass, emitted, dead, registered, cleaned>>

\* The pass of listeners comes to a server or driver that is a listener too.
ReplayItem ==
  /\ InLoop
  /\ pass = "listener" /\ PassOf(Item) # pass /\ Item \in Listeners
  /\ heard' = Given(heard, Item, Missed)
  /\ cursor' = cursor + 1
  /\ UNCHANGED <<events, listeners, objects, info, pass, cb, emitted, dead, registered, cleaned>>

\* Mutant of SkipItem: the loop does not advance.
StuckSkipItem ==
  /\ InLoop
  /\ PassOf(Item) # pass /\ ~(pass = "listener" /\ Item \in Listeners)
  /\ UNCHANGED reg_vars

\* An item of another pass.
SkipItem ==
  /\ InLoop
  /\ PassOf(Item) # pass /\ ~(pass = "listener" /\ Item \in Listeners)
  /\ cursor' = cursor + 1
  /\ UNCHANGED <<events, listeners, objects, info, pass, cb, history>>

LoopEnds == pass \in Passes /\ cb = None /\ cursor > Len(events)

\* Mutant of NextPass: the loop starts at 0 instead of i0.
RestartNextPass ==
  /\ LoopEnds /\ pass # "rest"
  /\ pass' = Following(pass)
  /\ cursor' = 1
  /\ UNCHANGED <<events, listeners, objects, info, cb, history>>

\* A loop ends and the next one starts.
NextPass ==
  /\ LoopEnds /\ pass # "rest"
  /\ pass' = Following(pass)
  /\ cursor' = nr + 1
  /\ UNCHANGED <<events, listeners, objects, info, cb, history>>

\* After the last loop events are cleaned up and registration is enabled.
EndEnable ==
  /\ LoopEnds /\ pass = "rest"
  /\ events' = IF cleanup THEN <<>> ELSE events
  /\ nr' = Len(events')
  /\ enabled' = TRUE
  /\ pass' = "idle"
  /\ cursor' = 1
  /\ UNCHANGED <<listeners, objects, permanent, cleanup, cb, history>>

EnableStep == RegisterItem \/ OnRegisterReturns \/ ReplayItem \/ SkipItem \/ NextPass \/ EndEnable

--------------------------------------------------------------------------------
DisableRegistration ==
  /\ pass = "idle" /\ enabled
  /\ nr' = Len(events)
  /\ enabled' = FALSE
  /\ UNCHANGED <<events, listeners, objects, permanent, cleanup, loop, history>>

\* enable_permanent_registration and disable_permanent_registration.
SetPermanent ==
  /\ "permanent" \in Calls
  /\ pass = "idle"
  /\ permanent' = ~permanent
  /\ UNCHANGED <<events, listeners, objects, enabled, cleanup, nr, loop, history>>

\* enable_registration_event_cleanup.  Erasing more events than there are is
\* undefined behaviour and left out.
EnableCleanup ==
  /\ "cleanup" \in Calls
  /\ pass = "idle" /\ ~cleanup
  /\ cleanup' = TRUE
  /\ enabled \/ nr <= Len(events)
  /\ events' = IF enabled THEN <<>> ELSE SubSeq(events, nr + 1, Len(events))
  /\ nr' = 0
  /\ cleaned' = TRUE
  /\ UNCHANGED <<listeners, objects, enabled, permanent, loop, emitted, dead, registered, heard>>

DisableCleanup ==
  /\ pass = "idle" /\ cleanup
  /\ cleanup' = FALSE
  /\ UNCHANGED <<events, listeners, objects, enabled, permanent, nr, loop, history>>

\* The history: what was heard of an object that is gone, or by it, is forgotten.
Gone(x) ==
  /\ dead' = dead \cup {x}
  /\ heard' = [l \in Listeners |-> [y \in Items |-> IF x \in {l, y} THEN 0 ELSE heard[l][y]]]
  /\ UNCHANGED <<emitted, registered, cleaned>>

\* Mutant of UnregisterObject: listeners are not searched.
KeepListenerUnregisterObject(x) ==
  /\ objects' = RemoveObject(objects, x)
  /\ events' = Without(events, x)
  /\ Gone(x)
  /\ UNCHANGED <<listeners, info, cursor, cb>>

\* unregister_object.
UnregisterObject(x) ==
  /\ objects' = RemoveObject(objects, x)
  /\ events' = Without(events, x)
  /\ listeners' = Without(listeners, x)
  /\ Gone(x)
  /\ UNCHANGED <<info, cursor, cb>>

MayUnregister == pass = "idle" /\ (enabled \/ "unregister" \in Calls)

\* A caller that has the object unregisters it.
Unregister(x) ==
  /\ MayUnregister
  /\ x \notin dead
  /\ registered[x] > 0 \/ x \in ToSet(events)
  /\ UnregisterObject(x)
  /\ UNCHANGED pass

\* unregister_all_objects takes the objects from the back of the collection.
UnregisterAll ==
  /\ MayUnregister
  /\ objects # <<>>
  /\ pass' = "exit"
  /\ UNCHANGED <<events, listeners, objects, info, cursor, cb, history>>

UnregisterBack ==
  /\ pass = "exit"
  /\ UnregisterObject(objects[Len(objects)])
  /\ pass' = IF objects' = <<>> THEN "idle" ELSE "exit"

Next ==
  \/ \E x \in Objects : RegisterObject(x) \/ Unregister(x)
  \/ \E c \in Ctors : ObjectRegistration(c) \/ RegisterConstructor(c)
  \/ EnableRegistration \/ EnableStep \/ DisableRegistration
  \/ SetPermanent \/ EnableCleanup \/ DisableCleanup
  \/ UnregisterAll \/ UnregisterBack

Spec == Init /\ [][Next]_reg_vars

\* Once called, enable_registration and unregister_all_objects run to their end.
FairSpec == Spec /\ WF_reg_vars(EnableStep) /\ WF_reg_vars(UnregisterBack)
--------------------------------------------------------------------------------
Quiet == enabled /\ pass = "idle"

\* "If registration has been disabled before, send all registration events that
\* where emitted during disabled registration" (register.h): once registration is
\* enabled, every object that callers registered has gone through
\* register_object_internal, and none has twice.
AllSentOnce == Quiet => \A x \in emitted \ dead : registered[x] = 1

\* Servers before drivers before listeners before all others (register.h): no
\* object is registered while the batch has an earlier kind that is not.
Rank(x) == CASE PassOf(x) = "server" -> 1 [] PassOf(x) = "driver" -> 2
             [] PassOf(x) = "listener" -> 3 [] OTHER -> 4
PassOrder ==
  [][ cb = None /\ cb' # None =>
        \A k \in nr + 1 .. Len(events) :
          Rank(events[k]) < Rank(cb') => registered[events[k]] > 0 ]_reg_vars

\* Whether an object of the rest or its listener comes first, in the same batch
\* or in another: the listener is given the object exactly once.  (An object made
\* from a constructor while registration is enabled is not in the events, and later
\* listeners are given its constructor.)
GivenOnce ==
  Quiet /\ ~cleaned =>
    \A l \in Listeners \ dead, x \in ToSet(events) \ dead :
      PassOf(x) = "rest" /\ registered[l] > 0 /\ registered[x] > 0 => heard[l][x] = 1

\* An unregistered object is not sent, listened with or found any more, although
\* remove_object skips two objects after each it removes.
NoneLeft ==
  \A x \in dead : x \notin ToSet(events) \cup ToSet(listeners) \cup ToSet(objects)

\* enable_registration ends, also when callbacks extend the list it runs over.
EnableEnds == (pass \in Passes) ~> (pass = "idle")
================================================================================
