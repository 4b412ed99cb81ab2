--------------------------------- MODULE Thread --------------------------------
(***************************************************************************)
(* cgv::os::thread (cgv/os/thread_std_thread.h) for an object that has one *)
(* owner, which starts it once and then stops or awaits it: the part that  *)
(* the pipe threads rest on.  The control points of run() are strings that *)
(* the modules which extend this one choose.                               *)
(***************************************************************************)

VARIABLES
  running, stop_request,
  place,       \* "new", a control point of run(), or "ended"
  owner,       \* "idle", "stopping" or "waiting" in join, or "joined"
  stopped      \* history: stop() was called while the thread ran

thread_vars == <<running, stop_request, place, owner, stopped>>

ThreadInit ==
  /\ running = FALSE /\ stop_request = FALSE /\ stopped = FALSE
  /\ place = "new" /\ owner = "idle"

\* thread::start; the new thread is in execute, at the beginning of run().
Start ==
  /\ place = "new" /\ owner = "idle" /\ ~running
  /\ stop_request' = FALSE
  /\ running' = TRUE
  /\ place' = "run"
  /\ UNCHANGED <<owner, stopped>>

\* thread::stop and thread::wait_for_completion up to join, or back at once if the
\* thread does not run.
Stop ==
  /\ owner = "idle" /\ place # "new"
  /\ IF running THEN stop_request' = TRUE /\ stopped' = TRUE /\ owner' = "stopping"
                ELSE owner' = "joined" /\ UNCHANGED <<stop_request, stopped>>
  /\ UNCHANGED <<running, place>>

WaitForCompletion ==
  /\ owner = "idle" /\ place # "new"
  /\ owner' = IF running THEN "waiting" ELSE "joined"
  /\ UNCHANGED <<running, stop_request, place, stopped>>

\* join returns.
Joined ==
  /\ owner \in {"stopping", "waiting"} /\ place = "ended"
  /\ stop_request' = IF owner = "stopping" THEN FALSE ELSE stop_request
  /\ owner' = "joined"
  /\ UNCHANGED <<running, place, stopped>>

\* A step of run().
Goto(from, to) ==
  /\ place = from /\ place' = to
  /\ UNCHANGED <<running, stop_request, owner, stopped>>

\* run() returns to execute, which clears running.
RunReturns(from) ==
  /\ place = from /\ place' = "ended"
  /\ running' = FALSE
  /\ UNCHANGED <<stop_request, owner, stopped>>

OwnerStep == Start \/ Stop \/ WaitForCompletion \/ Joined

\* The flags follow the thread: nobody who tests running joins too early or not at
\* all, and no request is left over when stop() has returned.
ThreadOK ==
  /\ running <=> place \notin {"new", "ended"}
  /\ owner = "joined" => place = "ended"
  /\ stop_request => owner = "stopping"
================================================================================
