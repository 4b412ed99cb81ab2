-------------------------------- MODULE StreamVis ------------------------------
(***************************************************************************)
(* stream_vis: contexts that are registered and unregistered by the        *)
(* application's thread, the thread of the gui that takes the changes over *)
(* with a try_lock in timer_event and draws the contexts of its pool       *)
(* (stream_vis.cxx).  One of the contexts has the plot of PlotSamples, of  *)
(* a series that the application's thread writes.                          *)
(***************************************************************************)
EXTENDS PlotSamples

CONSTANTS
  Contexts,
  plotter,     \* the context with the plot
  MaxCalls     \* a bound: the calls of register_context and unregister_context

ASSUME StreamAssumption == plotter \in Contexts /\ MaxCalls \in Nat

VARIABLES
  lock,            \* whether the application holds stream_vis::lock
  new_contexts, old_contexts, context_pool,
  caller,          \* the call in progress, None or a record of call and context
  last_call,       \* history: the last call for a context, None before the first
  calls            \* the number of calls

pool_vars == <<lock, new_contexts, old_contexts, context_pool, caller, last_call, calls>>
stream_vars == <<series_vars, plot_vars, pool_vars>>

StreamInit ==
  /\ SeriesInit /\ PlotInit
  /\ lock = FALSE /\ caller = None
  /\ new_contexts = <<>> /\ old_contexts = <<>> /\ context_pool = {}
  /\ last_call = [c \in Contexts |-> None] /\ calls = 0

\* register_context and unregister_context.
Call(call, c) ==
  /\ caller = None /\ calls < MaxCalls
  /\ last_call[c] # call /\ (call = "unregister" => last_call[c] # None)
  /\ caller' = [call |-> call, context |-> c] /\ lock' = TRUE
  /\ calls' = calls + 1
  /\ last_call' = [last_call EXCEPT ![c] = call]
  /\ UNCHANGED <<new_contexts, old_contexts, context_pool>>

Return ==
  /\ caller # None
  /\ \/ /\ caller.call = "register"
        /\ new_contexts' = Append(new_contexts, caller.context) /\ UNCHANGED old_contexts
     \/ /\ caller.call = "unregister"
        /\ old_contexts' = Append(old_contexts, caller.context) /\ UNCHANGED new_contexts
  /\ caller' = None /\ lock' = FALSE
  /\ UNCHANGED <<context_pool, last_call, calls>>

SetOf(q) == {q[i] : i \in DOMAIN q}

\* Mutant of Processed: new contexts are taken over before old ones go.
NewFirstProcessed(pool) == (pool \cup SetOf(new_contexts)) \ SetOf(old_contexts)

\* The pool after process_context_changes.
Processed(pool) == (pool \ SetOf(old_contexts)) \cup SetOf(new_contexts)

\* timer_event: try_lock fails while a call holds the lock.
TimerEvent ==
  /\ frame = "none" /\ ~lock
  /\ context_pool' = Processed(context_pool)
  /\ new_contexts' = <<>> /\ old_contexts' = <<>>
  /\ UNCHANGED <<lock, caller, last_call, calls>>

\* The gui draws a context of its pool; a frame without new samples changes nothing.
StartPlot == plotter \in context_pool /\ FrameStart

Writer == SeriesNext /\ UNCHANGED <<plot_vars, pool_vars>>
Application ==
  /\ Return \/ \E c \in Contexts, call \in {"register", "unregister"} : Call(call, c)
  /\ UNCHANGED <<series_vars, plot_vars>>
Timer == TimerEvent /\ UNCHANGED <<series_vars, plot_vars>>
Draw == (StartPlot \/ FrameStep) /\ UNCHANGED <<series_vars, pool_vars>>

StreamNext == Writer \/ Application \/ Timer \/ Draw

\* Threads run, a lock is given back; the animation trigger shoots again and again, and
\* so a try_lock succeeds if it could again and again; frames are drawn.
StreamFairness ==
  /\ WF_stream_vars(AppendSample /\ UNCHANGED <<plot_vars, pool_vars>>)
  /\ WF_stream_vars(Return /\ UNCHANGED <<series_vars, plot_vars>>)
  /\ SF_stream_vars(Timer)
  /\ WF_stream_vars(Draw)

StreamSpec == StreamInit /\ [][StreamNext]_stream_vars /\ StreamFairness
--------------------------------------------------------------------------------
\* A context whose last call is register gets into the pool, whatever was called
\* before and however its calls fall between the ticks, unless it is unregistered
\* again.
RegisteredShown ==
  \A c \in Contexts : last_call[c] = "register" ~> c \in context_pool \/ last_call[c] = "unregister"

\* Every sample is plotted in the end as long as the context stays in the pool.
CatchesUp == \A n \in 1 .. MaxRows : nr_samples >= n ~> plotted >= n \/ plotter \notin context_pool
================================================================================
