# Specifications of cgv

cgv is a framework for interactive visualisation in C++: a core of libraries
(`cgv/base`, `cgv/signal`, `cgv/os`, `cgv/data`, `cgv/gui`, `cgv/render`, ...),
a set of further libraries (`libs/...`), and plugins and applications on top.
Most of it computes numbers, pictures or text. What this directory specifies
is the part that coordinates: threads that share work, threads that talk to a
pipe, the registration of objects while plugins come and go, the connections
between objects that die in any order, the focus that input devices give to
objects, and the streams that one thread writes and another one plots.

Paths are relative to the root of the repository. `PROJECT.json` lists the runs,
the source lines every definition stands for, and one mutation per property: a
plausible mistake in the code that makes TLC refute the property.

## 1. Components

| component | state | operations | interacts with |
|---|---|---|---|
| **worker pool** `libs/point_cloud/concurrency.{h,cxx}` | `remaining`, `barrier_sense`, a map of thread senses, a mutex, a condition; `current_task` with its atomic `remaining`, `stop_request` | `await`; `run`, `launch`, `sync`, destructor | the octree generator calls `run` with a function that draws tasks |
| **task list** `TaskPool` in the same header, copied twice in `octree.h` | atomic `next_task`, the tasks | `operator()` | called by every thread of the pool at once |
| **object registration** `cgv/base/register.{h,cxx}` | stored events, listeners, permanent objects, three switches, `nr_events_before_disable`, partial orders | enable, disable, register, unregister, unregister all, the switches, `sort_registration_events` | callbacks `on_register`, `register_object` of listeners; static initialisers; plugin loading disables and enables it |
| **signals and tackers** `cgv/signal` | the receivers of a signal, the map of signals of a tacker | connect, three ways to disconnect, destruction of either side | each holds raw pointers to the other |
| **queued pipes** `cgv/os/pipe_thread.{h,cxx}` | a queue with a mutex, a flag for the end of the data; on the input side an array of packages with a mutex of its own | `send_block`, `pop_data_block`, `done`, `run` | a thread, its owner, producers or consumers, the process at the other end |
| **threads** `cgv/os/thread_std_thread.h`, `mutex_std_thread.h` | `running`, `stop_request`, the thread object, `delete_after_termination` | start, stop, kill, wait for completion; conditions | base class of the pipe threads |
| **focus dispatch** `libs/cg_nui/{dispatcher,spatial_dispatcher,hids,focusable}`, its clients `vr_screen`, `vr_table`, `simple_object`, `vr_scene` | attachments of focus to a device, a kit, a selection of categories or everything; per dispatch a pointer to the entry in focus; per object a state and a device of its own | `attach_focus`, `detach_focus`, `reconfigure`, `dispatch`, the answers of `handle`, `focus_change`, `wants_to_grab_focus` | objects are called back in the middle of a dispatch and request changes of focus |
| **streams** `libs/stream_vis` | per series a ring buffer and a cached value; per plot a storage buffer, its copy on the GPU and a box; lists of new and old contexts | `extract_from_values`, `append_sample`, `update_plot_samples`, `register_context`, `unregister_context`, `timer_event` | the application's thread writes, the gui's thread reads without a lock |
| object tree `cgv/base/{node,named,group}` | parents, children, reference counts | append, insert, remove, destruction | traversal, user interface |
| traversal `cgv/base/{traverser,action}` | stack of the traversal | traverse, callbacks that prune it | object tree |
| containers `cgv/data` | union-find, priority queue, interval map, quadtree | sequential algorithms | - |
| rgbd devices `libs/rgbd_capture` | attachment, running streams | attach, start, stop, get frame | device threads |
| everything else | user interface, OpenGL, numerics, text processing, sockets, devices | | |

What is hard in the components that are modelled, and what makes them correct:

* *Worker pool.* One barrier starts every task, and nothing but an atomic
  counter ends it: the guest that called `run` frees the task while workers
  still hold raw pointers to it, and the next call may find workers that are
  still on their way back. Guests are counted as one participant, so that a
  guest that comes back has missed episodes and has an outdated sense. Correct
  means: nobody leaves an episode early and no wake-up is lost; a task is freed
  only after its last use; `run` and `sync` return, and do so only when the
  whole crew is through. The destructor waits for nobody: what it may break, and
  that nothing else does, is part of the properties.
* *Task list.* Every task is executed once, and when `run` returns nobody
  touches the list, which is a local variable of the caller.
* *Registration.* Four loops run by index over a list that their callbacks
  extend; an index kept between two calls (`nr_events_before_disable`) says where
  a batch starts; listeners get objects on three different ways. Correct
  means: everything registered is sent once, in the promised order of kinds and in
  the partial order; every listener is given every object once; what is
  unregistered is nowhere any more; the loops end.
* *Signals.* Either side may be destroyed first. Correct means that no pointer
  dangles and that a connection is neither lost nor kept too long, which
  rests on a counter that has to equal the number of receivers.
* *Pipes.* The code takes a mutex for each access and not for each decision.
  Correct means that blocks are neither repeated nor reordered, that none is lost but
  those that come after the thread's last look at the queue, and that `stop` and
  `wait_for_completion` return while the pipe moves.

* *Focus.* An attachment may overlap others in four containers, and each object
  keeps its own record of who has it. Requests come from callbacks, between the phases
  of a dispatch that has pointers into the containers. Correct means that attachments
  stay apart, that nobody loses a device to an attachment that does not cover it, that no
  pointer dangles, that an event is handled once, that an object is busy just when it
  has focus, and that a drag keeps its focus.
* *Streams.* A resampled series has a sample for each one of another series, from a
  value cached in between. The reader takes no lock, may fall behind by more than the ring buffer,
  and copies to the GPU in up to two pieces. Correct means: the series has the latest values; what
  is plotted is the series except where the writer was faster; GPU and box agree with
  the storage; contexts come and go as they were registered.

## 2. Modules

| module | models | uses |
|---|---|---|
| `AbstractBarrier` | a cyclic barrier as its participants see it | |
| `Barrier` | `SenseReversingBarrier`: one action per critical section, the wait set, spurious wake-ups | refines `AbstractBarrier` |
| `AbstractPool` | what a pool promises: a crew runs a task once each, then it is released | |
| `WorkerPool` | `WorkerPool`: the calls of guests, the kernel of workers and guests | extends `Barrier`, refines `AbstractPool` |
| `TaskPool` | `TaskPool::operator()` | |
| `PoolRun`, `PoolRun_proofs` | `run` of a pool with a function that draws from a task list, as in `octree.h`; proofs about barrier, list, pool and their composition, for any number of workers and tasks | extends `WorkerPool` and `TaskPool` |
| `PartialOrder` | what sorting by one partial order does to a list | |
| `Registration`, `Registration_proofs` | `register.cxx`: events, loops, callbacks, listeners, switches, unregistering; proofs for any objects, kinds, constructors and order | `PartialOrder` |
| `SortEvents`, `SortEvents_proofs` | the recursion of `sort_registration_events` for any set of orders; proofs for any number of events and any orders | compared with `PartialOrder` |
| `AbstractSignals` | how connections may change | |
| `Signals`, `Signals_proofs` | both sides' bookkeeping; proofs for any number of signals, tackers and functors | refines `AbstractSignals` |
| `Thread` | the part of `cgv::os::thread` the pipe threads rest on | |
| `PipeOutput`, `PipeInput` | `queued_output_thread`, `queued_input_thread` | extend `Thread` |
| `PipeOutput_proofs`, `PipeInput_proofs` | order and completeness for any producers, blocks and sources | |
| `AbstractFocus` | grants of focus for sets of devices | |
| `Focus` | the four containers of `dispatcher` and the classification of devices | refines `AbstractFocus` |
| `Focusables` | how the objects of a scene answer `focus_change` and `handle` | |
| `Scene`, `Scene_proofs` | `dispatch` in all phases with `dispatch_spatial`, and the mode buttons of `vr_scene`; proofs about the attachments for any devices, and about the dispatch for any controllers, objects and hierarchies | extends `Focus` and `Focusables` |
| `TimeSeries` | the writer of a resampled series and its ring buffer | |
| `PlotSamples` | `update_plot_samples`, the upload and the bounding box | extends `TimeSeries` |
| `StreamVis`, `StreamVis_proofs` | contexts, the timer and the gui; proofs for any ring buffer and any pace of the writer | extends `PlotSamples` |
| `*_mc` | constants for TLC | |

### How state and actions correspond to the code

**Barrier.** `remaining`, `barrier_sense` and `thread_sense` are the members of the
class, `sense` is the local variable of `await`. `await` holds `barrier_mutex`
except inside of `condition.wait`, so it is one action up to that point
(`ArriveLast` or `ArriveEarly`), and one per turn of the loop behind it
(`WaitAgain`, `Leave`). `at[t]` tells the wait set (`"wait"`) from the threads that
were woken and compete for the mutex (`"check"`). Episodes are not serialised: a
thread that has left may enter the next one while others are still to leave.

**WorkerPool.** `pc` is the place in `worker_kernel`, `landing_kernel` or `join_all`,
`call` the public operation a guest is in. `current_task`, its counter, `ptask` and
`stop_request` are separate variables read and written in separate actions,
in the order of the code, as the code has no lock for them. Tasks are numbered; a
task whose number is not `current_task` is freed memory. `MayCall` lets one guest
at a time into the pool: the class demands this of its users and has no protection
of its own. A call of `run` or `launch` on a busy pool throws and changes nothing,
so it is no step. `Destroy` is `join_all` up to the barrier, on a busy pool too: the history
`abandoned` marks that a task was freed which had been launched and not synced.

**TaskPool and PoolRun.** `fetch_add` is one action, the call of `func` another.
In `PoolRun` the step `RunTask` of the pool is taken by a thread when its loop over
the tasks has returned, and every call of `run` gets a fresh list.

**Registration.** `events`, `listeners`, `objects` and the three flags are the static
variables of the file. `nr` is `nr_events_before_disable`, which is also `i0` of
`enable_registration`, as nothing changes it while that runs. `pass` and `cursor`
are the current loop and its index, `cb` the object whose `on_register` is running;
while it runs, `RegisterObject` may append to the list. Two simplifications are
made visible by guards: a type name is an object (an order names objects), and no
object is registered in a later batch than one the order puts behind it (see
section 6). `Calls` lists what callers do beyond the plain use, so that a run can
show the plain use to be right and another one what goes wrong.
`load_plugin` is `DisableRegistration`, any number of `ObjectRegistration`, and
`EnableRegistration`.

**SortEvents.** `add_partially_ordered` is recursive; the recursion is an explicit
stack of frames. `delayed` is membership in the stack and `appended` is
membership in `permutation`, which is what the two vectors hold. `PulledForward` says in closed form
what a single order does: each event of the order goes to the place of the first one that needs it
(`Puller`), the others stay. `Registration` uses it for its sort, and `OrdersMet` relates the two.

**Signals.** A clone is an object on the heap made by `clone()`; `functor_of` is what
`operator==` compares and `tacker_of` what `get_tacker` returns. `receivers` are sets:
the order of receivers matters for emission only. All operations of the file are
one action each, since none calls back into other code.

**Thread, PipeOutput, PipeInput.** `place` is the control point of `run()`. Every
critical section is one action; the loop condition, the write and the read are
actions between them. `owner` is the thread that called `start`, which later calls
`stop` or `wait_for_completion` once. In `PipeOutput` the bytes in the pipe are
`written`, and `seen` is a history of what was accepted when the thread last looked at the queue;
`done` is called at any time, also between the two critical sections of `send_block`. In `PipeInput` packages are numbered as they are read, the array keeps old
packages behind `package_index`, as the memory does, and `data` is the copy that is on
its way from one mutex to the other.

**Focus.** `focus` is the record of `focus_hid_map`, `focus_kit_map`,
`focus_category_attachments` and `focus_all_attachment`; a key that is not in a map has
the entry `None`. The operators `AttachedHid`, `AttachedKit`, `AttachedCategory` and
`AttachedAll` are the four cases of `attach_focus`, `Detached` is `detach_focus`,
`Reconfigured` is `reconfigure`; they work on the record, so that `Scene` uses the same. The
code's own deviations are kept: the loop for a selection stops one index early and reads the
kit from the union that holds the selection, `hid_selection::overlaps` compares
most flags by `==`, and the configuration of a selection is changed in a copy.

**Focusables, Scene.** `foc_info` is what `rfi.foc_info_ptr` points to: an attachment,
or `Unattached` for `default_focus_info`. One event is dispatched at a time (`phase`, `hid`, `e`):
`Grab` or `NoGrab`, then one of `NoSpatial`, `SpatialButton`, `SpatialPose` and
`SpatialRefocus`, then `DispatchFocus`, the children (`Visit`, `VisitFocus` over the list
`todo`), and all hierarchies from `StartRoots` on. Every call of `handle` with what it
requests is one action (`Ask`), as the dispatcher goes on only when it returns. What a ray
or a query point hits is any object with the interface for it, so that the geometry is any geometry; all
three classes accept that another primitive of theirs is hit, so that such a hit leaves the focus
where it is. An object of kind `"group"` stands for a group without interface of its own, and `Below`
is what the recursion over children reaches, to any depth. An object is its
`state`, the `hid` it listens to and the configuration `saved` by `drag_begin`. `ignored` is a history:
objects that did not listen when they lost focus (a table in state `gizmo`, a screen that is
told about another device). Events of buttons alternate, as `held` demands.

**TimeSeries, PlotSamples, StreamVis.** A value is the number of its row, and so is its
time. `Skip` and `Sample` are `extract_from_values` without and with a new value of the
sampling series. `append_sample` has two steps: while `pending` is a sample, the slot is being
written, and `Seen` lets the reader get any mix of old and new. `FrameStart` to `Domain` are
the reader, one action for the check, the read, the call of `add_samples` and the box. `missed` is
a history of samples that were overwritten before the reader came to them. The storage starts with zeros, the
copy on the GPU without any data, so that `UploadMatches` compares the slots that are drawn. `Call` takes the lock and
`Return` enters the context and gives it back; `TimerEvent` needs the lock to be free, which
is what a `try_lock` that fails amounts to.

## 3. Runs

| run | instance | states | shows |
|---|---|---|---|
| `pool` | 2 workers, 2 guests, 3 tasks | 168,055 | `NoDanglingTask`, `ImplementsPool`, `EveryCallReturns` for every order of `run`, `launch`, `sync` and destruction, that of a busy pool included; what happens once a busy pool is destroyed is not constrained (section 6) |
| `pool_run` | 2 workers, 1 guest, 2 runs of 2 tasks | 11,980 | barrier: `EpisodeInv`, `ImplementsBarrier`; list: `Exclusive`, `NothingLeft`; both: `CompleteOnReturn`, `RunReturns` |
| `registration` | server, driver that listens, listener, 1 object and its constructor; the switches for permanent registration and cleanup, constructors given directly | 1,555,882 | `AllSentOnce`, `GivenOnce`, `NoneLeft`, `PassOrder`, `EnableEnds` over any number of batches |
| `sort` | 4 events, all pairs of orders of 2 or 3 of them | 8,034 | `NeverAborts`, `OrdersMet` (for one order also that nothing else moves), `SortEnds` |
| `signals` | 2 signals, 2 tackers, 5 clones, 2 of them equal | 448 | `NoDangling`, `TackExact`, `ImplementsSignals` |
| `pipe` | 2 producers, 2 blocks each, `done` at any time | 17,295 | `InOrder`; `AllWritten`: what is lost was accepted after the last look at the queue; `EveryBlockWritten`, `StopReturns` as long as the pipe moves |
| `pipe_input` | both kinds of source, up to 5 packages and some bytes, blocks of 2 | 4,040 | `StreamKept`, `FullBlocksQueued`, `CompletionReturns` |
| `focus` | 2 objects, 2 controllers of a kit (first and last index), a gamepad, 2 selections, 2 configurations | 3,149 | `Separated`, `ImplementsFocus` for every order of requests at all levels |
| `scene` | a screen, a table with a shelf (a group) on it and an object on the shelf, 2 controllers; one with the grip and mode buttons, one with menu and trigger | 2,717,257 | `FocusPointerValid`, `HandledOnce`, `HolderListens`, `BusyHasFocus`, `DragKept` through every phase of every dispatch |
| `stream` | int series, ring buffer of 3, 4 rows, 1 context, 3 calls | 150,619 | `Resampled`, `StorageHolds`, `BoxOfStorage`, `UploadMatches`, `RegisteredShown`, `CatchesUp` |
| `registration_unregister` | unregistering while registration is disabled | violation | finding 1 |
| `scene_drag` | the scene of the run `scene` | violation | finding 2 |

Bounds, and why they are enough to reach the interesting cases:

* `MaxTasks` bounds the number of tasks. With three, a guest runs a task, the other
  guest runs the next, and the first comes back with a sense that is one episode old;
  with two workers one can be fast and the other slow. Everything else about the
  barrier holds for any number by proof.
* `Registration` has no bound on the number of batches: callers disable and enable
  as often as they like, until each object has been registered and unregistered
  once. `HeardBound` caps two history counters at "more than once", and what was heard of an
  object that is gone is forgotten. The switches may be used between any two calls.
* The sort has four events, so that two orders of three can share one event, share two in
  opposite order, or form a cycle over all four.
* `MaxBlocks` and `MaxPackages` bound what is sent: two blocks of two producers make every
  order of the four critical sections of two sends; five packages are two full
  blocks and a rest.
* In `focus` one controller has the last index, where loops over indices may stop too early,
  the gamepad belongs to no kit, and of the two selections each overlaps a device. Everything
  else holds for any devices by proof.
* In `scene`, `Buttons` bounds the buttons of each controller and `Switched` the controllers whose
  modes are switched. The buttons are spread over the two controllers, so that a grab of the
  kit, the drag of another object and the trigger that a table takes for a gizmo meet. The hierarchy
  has three levels, so that traversals go below children; for any depth there are the proofs. The left
  button, which makes the screen drag, is not in the instance.
* In `stream`, `MaxRows` bounds the stream: four samples in a ring of three overwrite one slot and
  let a frame find more samples than the ring has. `MaxCalls` bounds the calls for contexts:
  three are registering, unregistering and registering again, all between two ticks.

Deadlock is checked except in `sort`, `pipe` and `pipe_input`, where the
behaviour ends: the sort is done, the threads are joined.

## 4. Fairness

* `WorkerPool` and `PoolRun`: weak fairness of each thread's step. A thread that
  has something to do is scheduled; whoever waits for the mutex gets it (a
  critical section always ends); a spinning guest yields. No call of a guest and no
  spurious wake-up is owed.
* `Registration`: the loops and `unregister_all_objects` run on, and callbacks
  return. Nobody has to register, enable or disable anything.
* `SortEvents`: the function runs.
* `PipeOutput`: the thread is scheduled where it waits for nobody (`RunAlone`: the loop's test,
  the look at the queue, the test of `all_data_sent`), and `join` returns once the
  thread has ended. To connect, to write and to close may block for ever, as the process at the other end
  has to connect, to read and to end: nothing is assumed of them. `EveryBlockWritten` and `StopReturns` have the premise
  `PipeMoves`, `[]<>` the thread is in none of the three, and say nothing of a pipe that blocks: there
  `stop` does not return. Producers, `done` and the calls of the owner are not fair.
* `PipeInput`: `run()` goes on, and the source delivers or ends. `CompletionReturns` is about sources that end.
  `StopReturns` is not stated here: a `stop` while `read` blocks on a silent source does not return,
  and nothing in the code guarantees that the source speaks.

* `StreamVis`: `append_sample` ends, a call gives the lock back, and frames are drawn, all
  by weak fairness. The timer has strong fairness: the animation trigger shoots again and
  again, and calls hold the lock for one `push_back` only, so that a `try_lock` that could succeed
  again and again does. Nobody has to register anything, and no row has to come.
* `Focus` and `Scene` state no liveness: a dispatch runs to its end as a sequential function,
  and no user has to press a button.

## 5. Proofs

Eight modules hold theorems; they are checked by TLAPS without any step taken on trust.

**`PoolRun_proofs`** - four parts. *The barrier*, for every finite set of threads and every initial count,
assuming `AllParticipate`: the count is the number of threads, as for a pool with one
guest. The inductive invariant is `IInv == BarrierTypeOK /\ EpisodeInv`. The type
invariant alone is not inductive, as `remaining` stays positive only because it
counts the threads that have not arrived; `EpisodeInv` says so, and that a
thread outside has the sense opposite to the barrier's (so that it will wait) and that the
wait set holds only threads of the incomplete episode (so that no wake-up is
lost). `LastArrival` turns the counter into the abstract condition "all are here";
`LastEffect`, `WaitEffect`, `LeaveEffect` and `WakeEffect` say what each action does to
the abstract state; `StepRefines` puts them together. Results: `BarrierTypeCorrect`,
`BarrierEpisode`, `BarrierImplements`.

Without `AllParticipate` - several guests that take turns - `EpisodeInv` is false,
since a guest that comes back may pass the barrier at once; that the pool is right
nevertheless is what the run `pool` checks.

*The list*, for any set of callers and any number of tasks: the
invariant adds `Handed`: tasks below the counter are done or in work, tasks from the counter on are
untouched. *The pool*, for any number of workers, any `MaxTasks` and one guest (`AllParticipate`, from which
`OneGuest` follows by counting): threads are `Coming` to the next episode of the barrier, or `Working`
on what the last one started. `ComingOK` says that while the guest is coming, or the pool rests, all workers are
coming; `Counted` says that `PoolTask::remaining` is the number of threads that still owe their
`fetch_sub`: the whole crew while the guest is coming, the working threads afterwards. With the invariant of the
barrier, which every step of the pool keeps (`PoolMovesBarrier`), the last arrival turns all who are coming into
working ones (`LastKeeps`), and a guest that reads 0 finds nobody at work (`NobodyLeft`): this is why the task
may be freed. `NoDanglingTask` alone is not inductive, as it does not say who will still read
`current_task`. *Both*: `ListOK` ties the places in the list to those in the pool, so that a
guest that leaves `run` has seen the end of the list and nobody is inside of it. All of this holds until
the destructor is called on a busy pool (`abandoned`); the theorems about the pool do not say what happens
afterwards (`GivenUp`), except that no task starts: for the abstract pool this is `Close`, and then nothing. Results: `TasksExclusive`,
`TasksComplete`, `PoolNoDangling`, `PoolImplements`, `RunComplete`.

**`Signals_proofs`** - for any signals, tackers and functors and any finite set of
clones. The invariant is the conjunction of the three checked ones: `NoDangling`
needs `TackExact`, as `untack_all` finds its receivers by the counts, and `TackExact`
needs the disjointness in `SignalsTypeOK`. `UntackCounts` is the arithmetic of
disconnecting several receivers, `EraseKeeps` and `RemovesAll` say what the two
helpers do to a state of the invariant. Results: `SignalsTyped`, `SignalsTackExact`,
`SignalsNoDangling`, `SignalsImplement`.

**`PipeOutput_proofs`** - for any set of producers and any `MaxBlocks`. `OrderInv` is
the types, of the senders too, with `InOrder`; the step of `Pop` moves a block from the front
of the queue to the hand of the thread, for which concatenation has to be regrouped
(`PopAssoc`, `AppendAssoc`). `AllWritten` is not inductive: the thread ends behind two more critical sections
and `close`, in which producers go on. `LookInv` adds `Looked`, that a thread which found the queue empty has
written all that it saw, and `WayOut`, that a connected thread which was not stopped has no other
way out of its loop. Results: `PipeInOrder`, `PipeAllWritten`.

**`PipeInput_proofs`** - for any size of blocks and any number of packages. `FillInv` counts:
packages read are those in blocks taken or queued, in the copy on its way, in the array up to the
index, and in the buffer. That a thread leaves its loop only through `loop` or `test`, where neither
copy nor buffer holds anything, makes the rest less than a block. `KeptInv` adds the contents: the
block at position b has the packages of the b-th block, and the array continues where the blocks and the copy
end, also over the old packages that a moved array leaves behind its index. Results:
`InputFullBlocksQueued`, `InputStreamKept`.

**`Scene_proofs`** - *The attachments*, for any set of devices, objects, configurations and selections that satisfies
`FocusAssumption`. The invariant is `FocusTypeOK` with `Separate`. One lemma per case of
`attach_focus` (`HidKeeps`, `KitKeeps`, `CategoryKeeps`, `AllKeeps`) says that it makes any separate
record separate. What takes entries away leaves a record *below* the former one
(`DetachBelow`, `CheckBelow`), and what changes configurations leaves an *alike* one
(`ReconfigureAlike`); both keep `Separate` (`BelowKeeps`, `AlikeKeeps`). For the refinement the
same cases give grants: `HidGrants`, `KitGrants` and `AllGrants` compute the grants after an
attachment as those that do not overlap, plus the new one. Results: `FocusSeparated`,
`FocusImplements`.

*The dispatch*, for every scene that satisfies `SceneAssumption`: any controllers and kits,
groups and objects of the three kinds in hierarchies of any depth, configurations that are sets of the flags of the
default one. The phases of a dispatch are operators on a *world* (record of attachments, objects,
focus pointer), so the invariant `SceneInv` is one about worlds: `WorldOK` says that the record is
separate, that entries and objects agree (`Agreed`: the object of an entry listens to its device or
kit, and whoever is busy and not `ignored` has an entry), and that pointer and attachment of the
dispatch are valid. `FocusPointerValid`, `HolderListens` and `BusyHasFocus` are not inductive one by
one: the pointer stays valid because the requests of an object are carried out on an entry that agrees
with it, and agreement survives a detachment only because everybody who had what is erased is told
(`HoldersFacts`, `TakenAway`), and because an object that is not a table has one entry at most
(`OneEntry`). One lemma per operation follows: `AttachHidKeeps`, `AttachKitKeeps`, `DetachKeeps`,
`CheckKeeps`, `RewriteKeeps`, then `RequestKeeps`, `AskKeeps` and `RefocusKeeps` for what a phase
does with them, and `SceneStep` for all actions. For `DragKept` the invariant `DragInv` adds what
`drag_begin` is for: the entry of a drag has none of the flags `respatial`, `structural` and `recursive` in its
configuration (`Fixed`), so that neither a detachment nor an attachment to another object in the same step
takes it (`Lost`), and while the device of a drag is dispatched the focus pointer is the entry of
the drag and no other object is visited (`Led`). For `HandledOnce` the invariant `OnceInv` says of each
phase who may have been asked: nobody before the spatial phase, the object in focus and what is below it
before the structural traversal, and then that the list and what is below it are apart from those who
were asked, but for what the traversal skips (`Apart`). It rests on `PassChanges`, that an answer which does
not handle the event leaves focus and configuration alone, and on `Forest`, that every object is in the
hierarchies once: an object that is a child of two groups is asked twice by the code. What is below an
object is a closure, of which `BelowLeast` says that it is the least one; `BelowMeet`, `NoLoop` and `SiblingsApart` draw from
`Forest` that two objects have nothing below them in common unless one is below the other. Results:
`ScenePointerValid`, `SceneHolderListens`, `SceneBusyHasFocus`, `SceneSeparated`, `SceneDragKept`,
`SceneHandledOnce`.

**`StreamVis_proofs`** - for any ring buffer, any number of rows and every interleaving. The
invariant `DifferInFrame` says that storage and copy differ in the slots of the frame's
samples only; `AllUploaded` shows that `UploadedSlots` are all of these, in the three cases of the
code, from the arithmetic of remainders in `ModUnique` and `ModAdd`. The other three theorems rest on
`PlotInv`. Its part `HoldInv` says of the writer what the cached value is (the latest one
since the last sample) and which samples the ring buffer has, and of the reader which are in the storage and
which were `missed`; `StorageMeans` and `ResampledMeans` draw the invariants from it. Its part `BoxInv` follows the box through a
frame, also when the sample that is replaced was the one at its border. `Resampled`
and `StorageHolds` are proved for `SeriesKind = "int"` only: they are false for the other two kinds,
as section 6 says. Results: `StreamUploads`, `StreamResampled`, `StreamStorage`, `StreamBox`.

**`SortEvents_proofs`** - for any number of events and any set of partial orders, cyclic ones too.
For `SortNeverAborts` the invariant is `Distinct`, that stack and permutation have no event in common and none
twice, and `Covered`, that every event the outer loop has passed is in one of them: a cycle ends a call
early and loses nothing. `SortOrdersMet` uses a grading of the events, which exists when the combined order has
no cycle (`AcyclicGraded`): every frame is below the one under it in the grading (`Descends`), so that no call meets an
event that has a frame, and what is appended has its predecessors in front of it (`Visited`, `Preceded`). For a
single order `Turns` says that each turn of the outer loop appends the events whose `Puller` it is, and
`InPlace` that they are appended in the order `Before`, which gives `PulledForward`. That a rank is taken by exactly one event is a
count over finite sets.

**`Registration_proofs`** - for any objects, interfaces, constructors, partial order (without
repetitions; the guard `MayRegister` keeps it within a batch) and any use of the switches. The theorems assume `Plain`: no `on_register` registers something whose
loop is over, and nothing is unregistered while registration is disabled. Neither can be dropped: run
`registration_unregister` and section 6 show what the code does then. The invariant `RegInv` has six parts:
types; `EventsOK`, that no event is stored twice and that sorting leaves former batches in front; `LoopOK`,
where batch and cursor are; `SentOK`, that an object which callers brought was registered once unless it
waits in the batch for its loop; `KeptOK`, that the collection has no repetitions and nothing unregistered,
without which `remove_object` would leave copies behind; and `HeardOK`, that a listener was given an
event of the rest once as soon as both were registered, except for the events of former batches while
its own turn has not come (`Late`). `SentOnce` and `HeardOnce` are these two in a state in
which nothing waits. That a sort keeps the invariant is `SortedFacts`; what erasing and the cleanup leave of a list is
`KeptFacts`, both from the lemma `Places`, that in a finite set with a strict order every rank is taken once.
Induction over numbers is done by least counterexamples (`LeastNatural`). Results: `SentOnce`, `HeardOnce`, `Unregistered`, and the action
property in `KindsInOrder`.

Every safety property that a run checks is now stated by a theorem. Only model-checked: all liveness
(`EveryCallReturns`, `RunReturns`, `EnableEnds`, `SortEnds`, `EveryBlockWritten`, `StopReturns`,
`CompletionReturns`, `RegisteredShown`, `CatchesUp`), which the prover cannot treat, and the pool with several guests, for
which the invariant of the barrier is another one: the theorems about the pool are for one.

## 6. Findings and observations

Each finding is a run whose property TLC refutes; `PROJECT.json` quotes the
documentation it contradicts.

1. `registration_unregister`: `unregister_object` does not adjust
   `nr_events_before_disable`, so that the first object of a batch may be skipped.
2. `scene_drag`: an object is dragged with one controller, and the other one presses its menu
   button. `drag_begin` has protected the attachment of its own controller only; the configuration that
   `dispatch` consults for the other one (`dispatcher.cxx:455`) is the default, which allows a grab. The screen
   grabs the kit, and the attachment of the dragging controller is erased. `DragKept` of the run
   `scene` shows that this, the switch of the modes and the screen's own menu button are the only ways in
   which the entry of a drag is erased or passes to another object.

Seen while modelling, with changed constants where a module can show it:

* `queued_output_thread::run` tests the queue and then the flag in two critical sections
  (`pipe_thread.cxx:41`). A block sent and a `done()` called in between end the loop with the block
  in the queue, and `send_block` has returned true for it. `camera_animator.cxx:79-81` calls
  `done()` right behind its last `send_block`, so that its last frame can be lost this way. `AllWritten` delimits
  the loss: with `written = accepted` in place of `written = seen` TLC refutes it.
* The destructor of `WorkerPool` (`concurrency.cxx:20-39`) frees a task that was launched and not synced, while workers
  run it. It may also hang: a worker that reads `stop_request` on its way to that task
  leaves for good, while the destructor waits for it in the barrier. `NoDanglingTask` and `EveryCallReturns` except
  what follows such a call, by `abandoned`, and fail without this exception. Nothing says whether
  an owner has to call `sync` first; the users in the repository (the octree generator and a test plugin) call `run` only.
* An object that `on_register` registers inside of `enable_registration` is dropped if the loop of
  its kind is over: `AllSentOnce` with `Calls = {"callback"}`.
* A constructor registered while registration is enabled is stored in place of its object
  (`register.cxx:585`), so that later listeners are given the constructor; `GivenOnce` is about
  objects.
* A partial order between objects of different batches moves events across the start of
  the batch: one is sent twice, another never. `MayRegister` excludes it.
* Within a batch a listener is given the listeners in front of it, but never the servers
  and drivers of the same batch; `GivenOnce` is about objects of the rest.
* `register.h:75` calls event cleanup the default; `register.cxx:42` starts with it off.
* Enabling the cleanup while registration is disabled erases
  `nr_events_before_disable` events, also if fewer are left; `EnableCleanup` leaves
  the undefined case out.
* `tacker::untack_all`, called by anybody but the destructor, leaves its counts behind, which
  are then wrong. Nothing in the repository does.
* `concurrency.h:205` reads the counter with `memory_order_relaxed`, which orders nothing:
  under a weak memory model the results of the tasks need not be visible behind `run`.
  The specifications interleave atomic steps and cannot show this.
* `int_time_series` clears the cached value with every sample, `bool` only if the cached one was used
  (`streaming_time_series.cxx:309`), so that an outdated value comes back:
  `Resampled` with `SeriesKind = "bool"`. A float series whose first sample is the nan value
  takes it for its offset, and all later values are nan: `SeriesKind = "float"`.
* `convert_to_cached_sample_index` refuses the oldest sample of a full ring buffer
  (`time_series.cxx:65`, `>=`), which `get_sample_index_of_first_cached_sample` returns;
  `set_value_offset` and `set_time_offset` dereference the null pointer they get for it.
  `get_nr_consecutive_samples` computes `cnt = nr < si` (`time_series.cxx:52`).
* When `put_sample_as_float` fails, the sample that is in the storage already is added to the box again.
* A context registered and unregistered between two ticks stays in the pool, as old
  contexts go before new ones come. `RegisteredShown` is about the other order.
* An object that ignored the loss of its focus keeps its device. When it begins a drag on an event of the
  structural traversal, `foc_info_ptr` is the default focus, whose configuration is then changed for
  everybody (`dispatcher.cxx:322`); the end of a drag writes back a configuration that a nested one has
  overwritten. `FocusPointerValid` and `BusyHasFocus` hold nevertheless, as they leave `ignored` objects out.
* `vr_scene` takes the press of `VR_DPAD_DOWN` for itself while its release reaches the screen.
* `vr_screen::wants_to_grab_focus` tests `e.get_flags() & ((EF_VR) == 0)`, which is always false
  (`vr_screen.cxx:123`).
* Attachments to selections are never looked up by `dispatch`; attaching one leaves attachments of
  its devices (`dispatcher.cxx:131-132`), and `reconfigure` changes a copy (`dispatcher.cxx:399-402`).
  `Separated` leaves selections and single devices apart for this reason.
* `remove_object` leaves the attachments of the object; `dispatch` without any object
  dereferences `objects.begin()` (`dispatcher.cxx:486`).
* A named pipe that ends within a package loses the bytes of that package; a child process
  that does yields a whole package with memory behind its end that was never written.

## 7. Not modelled

* *Pipes*: contents and sizes of blocks, the pipes themselves, the queries of sizes.
* *Threads*: `kill`, a second `start`, `delete_after_termination`, condition variables. `Thread`
  models an owner that starts once and then stops or awaits.
* *Registration*: factories, tests, resource files, command lines and configuration
  files; `define_registration_order` with more than one order in force is `SortEvents`, and
  the flags that say when an order applies are left out.
* *Focus*: the mouse, devices other than controllers within a dispatch, attachments to selections or
  everything within a dispatch (no object of the repository asks for them), objects that are added or
  removed, the index of what is hit, `event_handler` dispatch, and all geometry: any object may be hit.
* *Streams*: the declaration parser, offsets (`offset_computation`), domains, several series in one
  storage buffer, vector valued series, series without a ring buffer, and the block based and approximate boxes.
  The series of the proof and of the runs is an `int` one; unsigned series are the same code.
* *Signals*: emission, and slots that change the connections while a signal is
  emitted, which is undefined in the code.
* The components listed without a module in section 1: planned ones below; user
  interface, rendering, numerics, text, device and socket code have no protocol of their own
  that a finite model would say something about.

## 8. Plan

Done, in this order: barrier and its proofs, pool, task list and its proofs, their
composition, registration and its sort, signals and their proofs, pipes and their proofs, focus and its
proofs, the scene and its proofs, streams and their proofs, the proofs of the sort and of registration.

Next:

1. `Thread` in full: `kill`, a second `start` while the first runner is in the tail of
   `execute_s`, `delete_after_termination`, several callers of `stop`. Abstract
   specification: at most one runner, joined once. Instance: two callers, two starts.
2. `ObjectTree`: group, node and reference counts; no child without its parent, no
   cycle kept alive. Then `Traverser` on top of it. Instance: three groups, two leaves.
3. `OffsetComputation` of stream_vis: offsets between series that are computed while samples come.
4. `RgbdDevice`: attach, start, stop against the thread that delivers frames.
5. `UnionFind` and `PriorityQueue`, checked against a reference definition.

Theorems worth proving next: `NoDanglingTask` and `ImplementsPool` with several guests, for which
`EpisodeInv` has to be replaced by an invariant about outdated senses; for `Registration`, the number of times that
constructors are given to listeners; for `Thread`, once it is complete, that there is one runner at most.
