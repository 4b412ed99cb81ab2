---------------------------- MODULE AbstractBarrier ----------------------------
(***************************************************************************)
(* What a cyclic barrier promises to its participants, with no counter, no *)
(* sense and no condition variable: a thread that has entered an episode   *)
(* may leave only after every participant has entered that episode.        *)
(***************************************************************************)
EXTENDS FiniteSets

CONSTANT Threads    \* the participants

VARIABLES
  inside,     \* threads that are blocked in the barrier
  arrived     \* threads that have entered the episode that is not complete yet

avars == <<inside, arrived>>

AbsInit ==
  /\ inside = {}
  /\ arrived = {}

\* A participant enters and has to wait: somebody is still missing.
AbsEnter(t) ==
  /\ t \notin inside
  /\ arrived \cup {t} # Threads
  /\ inside' = inside \cup {t}
  /\ arrived' = arrived \cup {t}

\* The last participant enters: the episode is complete and it passes at once.
AbsComplete(t) ==
  /\ t \notin inside
  /\ arrived \cup {t} = Threads
  /\ arrived' = {}
  /\ UNCHANGED inside

\* A waiting participant leaves an episode that is complete.
AbsLeave(t) ==
  /\ t \in inside \ arrived
  /\ inside' = inside \ {t}
  /\ UNCHANGED arrived

AbsNext == \E t \in Threads : AbsEnter(t) \/ AbsComplete(t) \/ AbsLeave(t)

AbsSpec == AbsInit /\ [][AbsNext]_avars
================================================================================
