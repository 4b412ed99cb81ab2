------------------------------- MODULE PipeOutput ------------------------------
(***************************************************************************)
(* queued_output_thread (cgv/os/pipe_thread.cxx): producers queue blocks,  *)
(* the thread writes them to a pipe, somebody announces the end with       *)
(* done(), the owner stops the thread or waits for it.  Every critical     *)
(* section of mutex m is one action; all_data_sent and the queue are       *)
(* tested in two of them.                                                  *)
(***************************************************************************)
EXTENDS Thread, Integers, Sequences, FiniteSets

CONSTANTS
  Producers,     \* threads that call send_block
  MaxBlocks,     \* bound: blocks sent by each producer
  None

ASSUME PipeAssumption ==
  /\ IsFiniteSet(Producers) /\ MaxBlocks \in Nat
  /\ \A p \in Producers, n \in 1 .. MaxBlocks : <<p, n>> # None

VARIABLES
  blocks, all_data_sent, connected,    \* members of queued_output_thread
  block,       \* local variable of run()
  written,     \* the content of the pipe
  at,          \* where a producer stands in send_block: "out" or "push"
  sent,        \* how many blocks a producer has tried to send
  accepted,    \* history: blocks send_block returned true for
  seen         \* history: what was accepted when the thread last looked at the queue

producer_vars == <<at, sent, accepted>>
queue_vars == <<blocks, all_data_sent, connected, block, written, seen, producer_vars>>
pipe_vars == <<thread_vars, queue_vars>>

Blocks == Producers \X (1 .. MaxBlocks)

Init ==
  /\ ThreadInit
  /\ blocks = <<>> /\ all_data_sent = FALSE /\ connected = FALSE
  /\ block = None /\ written = <<>> /\ accepted = <<>> /\ seen = <<>>
  /\ at = [p \in Producers |-> "out"]
  /\ sent = [p \in Producers |-> 0]
--------------------------------------------------------------------------------
\* send_block, first critical section: refused after done().
SendRefused(p) ==
  /\ at[p] = "out" /\ sent[p] < MaxBlocks
  /\ all_data_sent
  /\ sent' = [sent EXCEPT ![p] = @ + 1]
  /\ UNCHANGED <<thread_vars, blocks, all_data_sent, connected, block, written, seen, at, accepted>>

SendChecked(p) ==
  /\ at[p] = "out" /\ sent[p] < MaxBlocks
  /\ ~all_data_sent
  /\ sent' = [sent EXCEPT ![p] = @ + 1]
  /\ at' = [at EXCEPT ![p] = "push"]
  /\ UNCHANGED <<thread_vars, blocks, all_data_sent, connected, block, written, seen, accepted>>

\* send_block runs out of memory and returns false.
SendNoMemory(p) ==
  /\ at[p] = "push"
  /\ at' = [at EXCEPT ![p] = "out"]
  /\ UNCHANGED <<thread_vars, blocks, all_data_sent, connected, block, written, seen, sent, accepted>>

\* Mutant of SendPush: blocks.push_front.
FrontSendPush(p) ==
  /\ at[p] = "push"
  /\ blocks' = <<<<p, sent[p]>>>> \o blocks
  /\ accepted' = Append(accepted, <<p, sent[p]>>)
  /\ at' = [at EXCEPT ![p] = "out"]
  /\ UNCHANGED <<thread_vars, all_data_sent, connected, block, written, seen, sent>>

\* send_block, second critical section: the block is queued, the result is true.
SendPush(p) ==
  /\ at[p] = "push"
  /\ blocks' = Append(blocks, <<p, sent[p]>>)
  /\ accepted' = Append(accepted, <<p, sent[p]>>)
  /\ at' = [at EXCEPT ![p] = "out"]
  /\ UNCHANGED <<thread_vars, all_data_sent, connected, block, written, seen, sent>>

\* done(), called by a producer that is not in send_block; others may be, and the
\* queue need not be empty.
Done ==
  /\ ~all_data_sent
  /\ \E p \in Producers : at[p] = "out"
  /\ all_data_sent' = TRUE
  /\ UNCHANGED <<thread_vars, blocks, connected, block, written, seen, producer_vars>>
--------------------------------------------------------------------------------
Connect ==
  /\ Goto("run", "loop")
  /\ connected' = TRUE
  /\ UNCHANGED <<blocks, all_data_sent, block, written, seen, producer_vars>>

\* connect_to_child_process fails.
ConnectFails == RunReturns("run") /\ UNCHANGED queue_vars

\* Mutant of LoopTest: the stop request is not looked at.
DeafLoopTest == Goto("loop", "pop") /\ UNCHANGED queue_vars

\* Mutant of LoopTest: done() ends the loop with blocks in the queue.
ImpatientLoopTest ==
  Goto("loop", IF stop_request \/ all_data_sent THEN "close" ELSE "pop") /\ UNCHANGED queue_vars

\* while (!have_stop_request()).
LoopTest == Goto("loop", IF stop_request THEN "close" ELSE "pop") /\ UNCHANGED queue_vars

\* The critical section that takes a block from the queue.
Pop ==
  /\ IF blocks = <<>>
     THEN Goto("pop", "test") /\ UNCHANGED <<blocks, block>>
     ELSE Goto("pop", "write") /\ block' = Head(blocks) /\ blocks' = Tail(blocks)
  /\ seen' = accepted
  /\ UNCHANGED <<all_data_sent, connected, written, producer_vars>>

Write ==
  /\ Goto("write", "loop")
  /\ written' = Append(written, block)
  /\ block' = None
  /\ UNCHANGED <<blocks, all_data_sent, connected, seen, producer_vars>>

\* Mutant of Test: the loop ends without done().
EagerTest == Goto("test", "close") /\ UNCHANGED queue_vars

\* The queue was empty: the critical section that reads all_data_sent, and wait().
Test == Goto("test", IF all_data_sent THEN "close" ELSE "loop") /\ UNCHANGED queue_vars

\* close(), the last statement of run().
Close == RunReturns("close") /\ UNCHANGED queue_vars

\* The steps of run() that wait for nobody; the others may wait for the process at
\* the other end of the pipe to connect, to read, or to end (pclose).
RunAlone == LoopTest \/ Pop \/ Test
Run == Connect \/ ConnectFails \/ Write \/ Close \/ RunAlone

Next ==
  \/ \E p \in Producers :
       SendRefused(p) \/ SendChecked(p) \/ SendNoMemory(p) \/ SendPush(p)
  \/ Done \/ Run
  \/ OwnerStep /\ UNCHANGED queue_vars

Spec == Init /\ [][Next]_pipe_vars

\* The threads are scheduled; nobody has to connect to the pipe, to empty it, to
\* send, to call done() or to stop the thread.
FairSpec == Spec /\ WF_pipe_vars(RunAlone) /\ WF_pipe_vars(Joined /\ UNCHANGED queue_vars)
--------------------------------------------------------------------------------
Elements(s) == {s[i] : i \in DOMAIN s}

\* The members have their types; run() holds a block just when it writes one.
PipeTypeOK ==
  /\ ThreadOK
  /\ blocks \in Seq(Blocks) /\ written \in Seq(Blocks)
  /\ block \in Blocks \cup {None}
  /\ block # None <=> place = "write"

\* Blocks are written in the order in which send_block took them, none twice and
\* none before its turn, whatever producers and owner do in between.
InOrder ==
  written \o (IF block = None THEN <<>> ELSE <<block>>) \o blocks = accepted

\* The thread "continuously write[s] queue content to pipe" and terminates "if done()
\* had been called" (pipe_thread.h): unless it was stopped, or never connected, it ends
\* only when all that was accepted up to its last look at the queue is written.  What
\* is accepted after this look, while the thread tests all_data_sent or closes the
\* pipe, is lost, and nothing else is.
AllWritten ==
  place = "ended" /\ connected /\ ~stopped => written = seen

\* The process at the other end keeps up: no connect, write or close blocks for ever.
PipeMoves == []<>(place \notin {"run", "write", "close"})

\* A block does not wait forever in the queue of a thread that is connected, unless the
\* pipe blocks for ever: it is written, or the thread is stopped, or it has ended on
\* behalf of done().
EveryBlockWritten ==
  PipeMoves =>
    \A b \in Blocks :
      b \in Elements(blocks) /\ connected ~>
        b \in Elements(written) \/ stopped \/ (all_data_sent /\ place = "ended")

\* stop() returns, unless the pipe blocks for ever: the stop request is looked at
\* between any two blocks, however many are queued.
StopReturns == PipeMoves => (owner = "stopping" ~> owner = "joined")
================================================================================
