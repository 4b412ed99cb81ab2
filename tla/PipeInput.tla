------------------------------- MODULE PipeInput -------------------------------
(***************************************************************************)
(* queued_input_thread (cgv/os/pipe_thread.cxx): the thread reads packages *)
(* from a named pipe or from a child process, collects them in an array    *)
(* and moves it to a queue when it is full; others take blocks from there. *)
(* Packages are numbered in the order in which they are read.  The array   *)
(* and the queue have a mutex each, and between the two a block is in the  *)
(* hands of the thread only.                                               *)
(***************************************************************************)
EXTENDS Thread, Integers, Sequences

CONSTANTS
  packages_per_block,
  MaxPackages    \* bound: whole packages the source delivers

ASSUME InputAssumption == packages_per_block \in Nat \ {0} /\ MaxPackages \in Nat

VARIABLES
  named,              \* named_pipe_input_thread rather than pipe_input_thread
  whole, rest,        \* the source: packages to come, and some bytes behind them
  all_data_received, package_index,
  packages,           \* the array; 0 is memory not yet written
  buffer,             \* the package run() has read, 0 if it has none
  data,               \* the copy move_packages_to_data_blocks makes, or <<>>
  data_blocks,
  received,           \* history: number of packages read
  taken               \* history: the blocks popped

source_vars == <<named, whole, rest, received>>
block_vars == <<package_index, packages, data, data_blocks, taken>>
input_vars == <<thread_vars, source_vars, block_vars, all_data_received, buffer>>

Init ==
  /\ ThreadInit
  /\ named \in BOOLEAN /\ rest \in BOOLEAN /\ whole \in 0 .. MaxPackages
  /\ all_data_received = FALSE /\ package_index = 0 /\ buffer = 0
  /\ packages = [k \in 1 .. packages_per_block |-> 0]
  /\ data = <<>> /\ data_blocks = <<>> /\ received = 0 /\ taken = <<>>
--------------------------------------------------------------------------------
Connect == Goto("run", "loop") /\ UNCHANGED <<source_vars, block_vars, all_data_received, buffer>>

ConnectFails == RunReturns("run") /\ UNCHANGED <<source_vars, block_vars, all_data_received, buffer>>

\* The loop condition have_stop_request().
LoopTest ==
  /\ Goto("loop", IF stop_request THEN "close" ELSE "read")
  /\ UNCHANGED <<source_vars, block_vars, all_data_received, buffer>>

\* read_package_from_pipe: a whole package; or what fread returns of the last bytes,
\* which pipe_input_thread takes for a package.
ReadPackage ==
  /\ Goto("read", "store")
  /\ whole > 0 \/ (rest /\ ~named)
  /\ IF whole > 0 THEN whole' = whole - 1 /\ UNCHANGED rest
                  ELSE rest' = FALSE /\ UNCHANGED whole
  /\ received' = received + 1
  /\ buffer' = received + 1
  /\ UNCHANGED <<named, block_vars, all_data_received>>

\* read_package_from_pipe at the end of the source, where istream::read fails on the
\* last bytes of a named pipe and they are gone: 0 is returned.
ReadEnd ==
  /\ Goto("read", "test")
  /\ whole = 0 /\ (rest => named)
  /\ rest' = FALSE
  /\ all_data_received' = TRUE
  /\ UNCHANGED <<named, whole, received, block_vars, buffer>>

\* Mutant of Store: the array is moved before its last package is there.
EarlyStore ==
  /\ Goto("store", IF package_index + 2 >= packages_per_block THEN "copy" ELSE "loop")
  /\ packages' = [packages EXCEPT ![package_index + 1] = buffer]
  /\ package_index' = package_index + 1
  /\ buffer' = 0
  /\ UNCHANGED <<source_vars, data, data_blocks, taken, all_data_received>>

\* The critical section that enters the package, and the test for a full array.
Store ==
  /\ Goto("store", IF package_index + 1 = packages_per_block THEN "copy" ELSE "loop")
  /\ packages' = [packages EXCEPT ![package_index + 1] = buffer]
  /\ package_index' = package_index + 1
  /\ buffer' = 0
  /\ UNCHANGED <<source_vars, data, data_blocks, taken, all_data_received>>

\* move_packages_to_data_blocks, critical section of mutex_packages.
MoveCopy ==
  /\ Goto("copy", "queue")
  /\ data' = packages
  /\ package_index' = 0
  /\ UNCHANGED <<source_vars, packages, data_blocks, taken, all_data_received, buffer>>

\* Mutant of MoveQueue: a stop request is obeyed before the block is queued.
HastyMoveQueue ==
  /\ Goto("queue", IF stop_request THEN "close" ELSE "loop")
  /\ data_blocks' = IF stop_request THEN data_blocks ELSE Append(data_blocks, data)
  /\ data' = IF stop_request THEN data ELSE <<>>
  /\ UNCHANGED <<source_vars, package_index, packages, taken, all_data_received, buffer>>

\* move_packages_to_data_blocks, critical section of mutex_data_blocks.
MoveQueue ==
  /\ Goto("queue", "loop")
  /\ data_blocks' = Append(data_blocks, data)
  /\ data' = <<>>
  /\ UNCHANGED <<source_vars, package_index, packages, taken, all_data_received, buffer>>

\* Mutant of Test: the thread waits for more.
DeafTest == Goto("test", "loop") /\ UNCHANGED <<source_vars, block_vars, all_data_received, buffer>>

\* Nothing was read: the critical section that looks at all_data_received, and wait().
Test ==
  /\ Goto("test", IF all_data_received THEN "close" ELSE "loop")
  /\ UNCHANGED <<source_vars, block_vars, all_data_received, buffer>>

Close == RunReturns("close") /\ UNCHANGED <<source_vars, block_vars, all_data_received, buffer>>

Run == Connect \/ ConnectFails \/ LoopTest \/ ReadPackage \/ ReadEnd \/ Store
       \/ MoveCopy \/ MoveQueue \/ Test \/ Close
--------------------------------------------------------------------------------
\* pop_data_block, by any thread; an empty queue is left as it is.
PopDataBlock ==
  /\ data_blocks # <<>>
  /\ taken' = Append(taken, Head(data_blocks))
  /\ data_blocks' = Tail(data_blocks)
  /\ UNCHANGED <<thread_vars, source_vars, package_index, packages, data, all_data_received, buffer>>

\* done(), by any thread.
Done ==
  /\ ~all_data_received
  /\ all_data_received' = TRUE
  /\ UNCHANGED <<thread_vars, source_vars, block_vars, buffer>>

Next ==
  \/ Run \/ PopDataBlock \/ Done
  \/ OwnerStep /\ UNCHANGED <<source_vars, block_vars, all_data_received, buffer>>

Spec == Init /\ [][Next]_input_vars

\* The thread runs, and its source delivers or ends; nobody has to take a block.
FairSpec ==
  Spec /\ WF_input_vars(Run)
       /\ WF_input_vars(Joined /\ UNCHANGED <<source_vars, block_vars, all_data_received, buffer>>)
--------------------------------------------------------------------------------
\* The packages of a full block, numbered in the order they were read, and how many
\* are in blocks that were queued or are between the two mutexes.
Block(b) == [k \in 1 .. packages_per_block |-> (b - 1) * packages_per_block + k]
Stored == packages_per_block * (Len(taken \o data_blocks) + (IF data = <<>> THEN 0 ELSE 1))

\* What was popped, what is queued, the block between the two mutexes, the array up
\* to its index and the buffer are the packages in the order they were read: none
\* is lost, repeated or taken from a former block.
StreamKept ==
  /\ \A b \in DOMAIN (taken \o data_blocks) : (taken \o data_blocks)[b] = Block(b)
  /\ data # <<>> => data = Block(Len(taken \o data_blocks) + 1)
  /\ \A k \in 1 .. package_index : packages[k] = Stored + k
  /\ buffer # 0 => buffer = received
  /\ received = Stored + package_index + (IF buffer = 0 THEN 0 ELSE 1)

\* A thread that ends, also one that was stopped, leaves no full block outside of
\* the queue: what is not queued are fewer packages than a block has.
FullBlocksQueued ==
  place = "ended" =>
    received - packages_per_block * Len(taken \o data_blocks) \in 0 .. packages_per_block - 1

\* wait_for_completion() returns when the source has ended, without any done().
CompletionReturns == owner = "waiting" ~> owner = "joined"
================================================================================
