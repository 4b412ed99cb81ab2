-------------------------------- MODULE Signals --------------------------------
(***************************************************************************)
(* Connections between signals and tackers (cgv/signal/abst_signal.cxx).   *)
(* A signal owns clones of the functors connected to it; a tacker counts   *)
(* for every signal how many of them call it, so that either side can      *)
(* disconnect when it is destroyed.  The order of the receivers and the    *)
(* emission are left out: what is modelled is who is connected to whom.    *)
(***************************************************************************)
EXTENDS Integers, FiniteSets

CONSTANTS
  Signals, Tackers,
  Clones,        \* heap objects that clone() may return
  Functors,      \* what operator== compares: the pair of put_pointers
  functor_of, tacker_of,
  None           \* the tacker_ptr of a functor without tacker

ASSUME SignalsAssumption ==
  /\ IsFiniteSet(Clones)
  /\ Signals \cap Tackers = {}
  /\ None \notin Tackers
  /\ functor_of \in [Clones -> Functors]
  /\ tacker_of \in [Clones -> Tackers \cup {None}]

VARIABLES
  live,        \* the signals and tackers that exist
  receivers,   \* signal_base::receivers of every signal
  signals      \* tacker::signals of every tacker; 0 stands for "not in the map"

sig_vars == <<live, receivers, signals>>

Init ==
  /\ live = {}
  /\ receivers = [s \in Signals |-> {}]
  /\ signals = [t \in Tackers |-> [s \in Signals |-> 0]]

\* The receivers of s, or those of them in R, that call tacker t.
Of(t, R) == {c \in R : tacker_of[c] = t}

\* Mutant of Untack: the entry is erased with the first connection.
EraseUntack(count, n) == IF n > 0 THEN 0 ELSE count

\* n calls of tacker::untack for a signal with the given count.
Untack(count, n) == IF n >= count THEN 0 ELSE count - n

\* Signal s erases its receivers in R, unlinking each of them from its tacker.
Erase(s, R) ==
  /\ receivers' = [receivers EXCEPT ![s] = @ \ R]
  /\ signals' = [t \in Tackers |->
                   [signals[t] EXCEPT ![s] = Untack(@, Cardinality(Of(t, R)))]]
--------------------------------------------------------------------------------
\* Constructors.  A copy starts without connections too.
Create(x) ==
  /\ x \notin live
  /\ live' = live \cup {x}
  /\ UNCHANGED <<receivers, signals>>

\* signal_base::connect of a new clone, whose instance exists.
Connect(s, c) ==
  /\ s \in live
  /\ c \notin UNION {receivers[r] : r \in Signals}
  /\ tacker_of[c] \in live \cup {None}
  /\ receivers' = [receivers EXCEPT ![s] = @ \cup {c}]
  /\ signals' = [t \in Tackers |->
                   [signals[t] EXCEPT ![s] = IF tacker_of[c] = t THEN @ + 1 ELSE @]]
  /\ UNCHANGED live

\* signal_base::disconnect(functor): every receiver with an equal functor goes.
DisconnectFunctor(s, f) ==
  /\ s \in live
  /\ Erase(s, {c \in receivers[s] : functor_of[c] = f})
  /\ UNCHANGED live

\* signal_base::disconnect(tacker).
DisconnectTacker(s, t) ==
  /\ s \in live
  /\ Erase(s, Of(t, receivers[s]))
  /\ UNCHANGED live

DisconnectAll(s) ==
  /\ s \in live
  /\ Erase(s, receivers[s])
  /\ UNCHANGED live

\* Mutant of DestroySignal: the receivers are deleted and not unlinked.
NoUnlinkDestroySignal(s) ==
  /\ s \in live
  /\ live' = live \ {s}
  /\ receivers' = [receivers EXCEPT ![s] = {}]
  /\ UNCHANGED signals

\* ~signal_base calls disconnect_all.
DestroySignal(s) ==
  /\ s \in live
  /\ live' = live \ {s}
  /\ Erase(s, receivers[s])

\* Mutant of RemoveTacked: one receiver of each signal is removed.
OneRemoveTacked(t) ==
  \E keep \in [Signals -> SUBSET Clones] :
    /\ receivers' = keep
    /\ \A s \in Signals :
         LET mine == Of(t, receivers[s])
         IN /\ keep[s] \subseteq receivers[s]
            /\ receivers[s] \ keep[s] \subseteq mine
            /\ Cardinality(mine \ keep[s]) = IF signals[t][s] > 0 THEN 1 ELSE 0

\* tacker::untack_all: at every signal of its map the tacker removes its
\* receivers, until as many are removed as the map counts.  The map stays.
RemoveTacked(t) ==
  \E keep \in [Signals -> SUBSET Clones] :
    /\ receivers' = keep
    /\ \A s \in Signals :
         LET mine == Of(t, receivers[s])
         IN /\ keep[s] \subseteq receivers[s]
            /\ receivers[s] \ keep[s] \subseteq mine
            /\ IF signals[t][s] >= Cardinality(mine)
               THEN keep[s] \cap mine = {}
               ELSE Cardinality(mine \ keep[s]) = signals[t][s]

\* ~tacker: untack_all, then the map is gone.
DestroyTacker(t) ==
  /\ t \in live
  /\ live' = live \ {t}
  /\ RemoveTacked(t)
  /\ signals' = [signals EXCEPT ![t] = [s \in Signals |-> 0]]

Next ==
  \/ \E x \in Signals \cup Tackers : Create(x)
  \/ \E s \in Signals, c \in Clones : Connect(s, c)
  \/ \E s \in Signals, f \in Functors : DisconnectFunctor(s, f)
  \/ \E s \in Signals, t \in Tackers : DisconnectTacker(s, t)
  \/ \E s \in Signals : DisconnectAll(s) \/ DestroySignal(s)
  \/ \E t \in Tackers : DestroyTacker(t)

Spec == Init /\ [][Next]_sig_vars

--------------------------------------------------------------------------------
\* Types; what does not exist has no connections; a clone is in one place.
SignalsTypeOK ==
  /\ live \subseteq Signals \cup Tackers
  /\ receivers \in [Signals -> SUBSET Clones]
  /\ signals \in [Tackers -> [Signals -> Nat]]
  /\ \A s \in Signals \ live : receivers[s] = {}
  /\ \A r, s \in Signals : r # s => receivers[r] \cap receivers[s] = {}

\* A tacker counts exactly the receivers that call it: untack never misses an
\* entry, and untack_all neither leaves one of its receivers nor looks for more.
TackExact ==
  \A t \in Tackers, s \in Signals :
    signals[t][s] = Cardinality(Of(t, receivers[s]))

\* "no signal can call a method of an instance of your class after the instance
\* has been destroyed" (abst_signal.ph), and conversely no tacker has a pointer
\* to a signal that is destroyed, which ~tacker would use.
NoDangling ==
  /\ \A s \in Signals : \A c \in receivers[s] : tacker_of[c] \in live \cup {None}
  /\ \A t \in Tackers, s \in Signals : signals[t][s] > 0 => t \in live /\ s \in live

Abstract == INSTANCE AbstractSignals WITH connected <- receivers

\* Connections last as AbstractSignals says: none is lost when other clones of
\* the same tacker, or other signals, go, and none outlives an end.
ImplementsSignals == Abstract!AbsSpec
================================================================================
