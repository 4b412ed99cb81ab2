--------------------------- MODULE PipeOutput_proofs ---------------------------
(***************************************************************************)
(* For any set of producers and any number of blocks: blocks are written   *)
(* in the order in which they were accepted, and a thread that ends        *)
(* although nobody stopped it has written all that was accepted up to its  *)
(* last look at the queue.                                                 *)
(***************************************************************************)
EXTENDS PipeOutput, SequenceTheorems, TLAPS

\* The rest of the types.
SendersOK ==
  /\ accepted \in Seq(Blocks)
  /\ all_data_sent \in BOOLEAN /\ connected \in BOOLEAN
  /\ at \in [Producers -> {"out", "push"}]
  /\ sent \in [Producers -> 0 .. MaxBlocks]
  /\ \A p \in Producers : at[p] = "push" => sent[p] \in 1 .. MaxBlocks

OrderInv == PipeTypeOK /\ SendersOK /\ InOrder

\* A thread that found the queue empty has written all that it saw.
Looked == place = "test" => written = seen

\* Only a thread that is connected gets further than its first statement, and it
\* gets to its end because of a stop request or by such a look.
WayOut ==
  /\ place \in {"new", "run"} => ~connected
  /\ place \in {"close", "ended"} /\ connected /\ ~stopped => written = seen
  /\ stop_request => stopped

LookInv == OrderInv /\ Looked /\ WayOut

Hand(b) == IF b = None THEN <<>> ELSE <<b>>

\* A block is not None.
LEMMA BlocksAreSome == None \notin Blocks
BY PipeAssumption DEF Blocks

\* Appending to the last of three parts appends to the whole.
LEMMA AppendAssoc ==
  ASSUME NEW w \in Seq(Blocks), NEW h \in Seq(Blocks), NEW q \in Seq(Blocks), NEW b \in Blocks
  PROVE  w \o h \o Append(q, b) = Append(w \o h \o q, b)
<1>1. w \o h \in Seq(Blocks) /\ <<b>> \in Seq(Blocks) /\ w \o h \o q \in Seq(Blocks)
  BY ConcatProperties
<1>2. Append(q, b) = q \o <<b>> /\ Append(w \o h \o q, b) = (w \o h \o q) \o <<b>>
  BY <1>1, AppendIsConcat
<1> QED
  BY <1>1, <1>2, ConcatAssociative

\* Taking the head of the queue in the hand leaves the whole as it is.
LEMMA PopAssoc ==
  ASSUME NEW w \in Seq(Blocks), NEW q \in Seq(Blocks), q # <<>>
  PROVE  w \o <<>> \o q = w \o <<Head(q)>> \o Tail(q)
<1>1. Head(q) \in Blocks /\ Tail(q) \in Seq(Blocks) /\ <<Head(q)>> \in Seq(Blocks)
  BY HeadTailProperties
<1>2. <<Head(q)>> \o Tail(q) = q
  <2>1. Len(Tail(q)) = Len(q) - 1 /\ \A i \in 1 .. Len(Tail(q)) : Tail(q)[i] = q[i + 1]
    BY HeadTailProperties
  <2>2. q \in Seq(Blocks) /\ Len(q) \in Nat \ {0} /\ Head(q) = q[1]
    BY EmptySeq
  <2>3. /\ <<Head(q)>> \o Tail(q) \in Seq(Blocks)
        /\ Len(<<Head(q)>> \o Tail(q)) = Len(q)
        /\ \A i \in 1 .. Len(q) :
             (<<Head(q)>> \o Tail(q))[i] = IF i <= 1 THEN <<Head(q)>>[i] ELSE Tail(q)[i - 1]
    BY <1>1, <2>1, <2>2, ConcatProperties
  <2>4. \A i \in 1 .. Len(q) : (<<Head(q)>> \o Tail(q))[i] = q[i]
    BY <2>1, <2>2, <2>3
  <2> QED
    BY <2>2, <2>3, <2>4, SeqEqual
<1>3. w \o <<>> = w
  BY ConcatEmptySeq
<1> QED
  BY <1>1, <1>2, <1>3, ConcatAssociative

\* Types and order hold in the beginning.
LEMMA OrderInit == Init => OrderInv
<1> SUFFICES ASSUME Init PROVE OrderInv
  OBVIOUS
<1>1. <<>> \in Seq(Blocks) /\ <<>> \o <<>> \o <<>> = <<>>
  BY EmptySeq, ConcatEmptySeq
<1>2. ThreadOK
  BY DEF Init, ThreadInit, ThreadOK
<1>3. PipeTypeOK
  BY <1>1, <1>2 DEF Init, ThreadInit, PipeTypeOK
<1>4. SendersOK
  <2>1. 0 \in 0 .. MaxBlocks
    BY PipeAssumption
  <2> QED
    BY <1>1, <2>1 DEF Init, SendersOK
<1>5. InOrder
  BY <1>1 DEF Init, InOrder
<1> QED
  BY <1>3, <1>4, <1>5 DEF OrderInv

\* No step breaks the order or the types: one step per action.
LEMMA OrderStep == OrderInv /\ [Next]_pipe_vars => OrderInv'
<1> SUFFICES ASSUME OrderInv, [Next]_pipe_vars PROVE OrderInv'
  OBVIOUS
<1> USE DEF OrderInv
<1> DEFINE H == Hand(block)
<1>h. H \in Seq(Blocks) /\ written \o H \o blocks = accepted
  BY EmptySeq, BlocksAreSome DEF PipeTypeOK, InOrder, Hand
<1>t. ASSUME thread_vars' = thread_vars PROVE ThreadOK'
  BY <1>t DEF thread_vars, ThreadOK, PipeTypeOK
<1>1. ASSUME NEW p \in Producers, SendRefused(p) \/ SendChecked(p) \/ SendNoMemory(p)
      PROVE  OrderInv'
  <2>1. UNCHANGED <<thread_vars, blocks, all_data_sent, connected, block, written, accepted>>
    BY <1>1 DEF SendRefused, SendChecked, SendNoMemory
  <2>2. /\ at' \in [Producers -> {"out", "push"}]
        /\ sent' \in [Producers -> 0 .. MaxBlocks]
        /\ \A q \in Producers : at'[q] = "push" => sent'[q] \in 1 .. MaxBlocks
    <3>1. CASE SendRefused(p)
      <4>1. at' = at /\ sent' = [sent EXCEPT ![p] = @ + 1] /\ sent[p] + 1 \in 1 .. MaxBlocks
        BY <3>1, PipeAssumption DEF SendRefused, SendersOK
      <4> QED
        BY <4>1 DEF SendersOK
    <3>2. CASE SendChecked(p)
      <4>1. at' = [at EXCEPT ![p] = "push"] /\ sent' = [sent EXCEPT ![p] = @ + 1]
            /\ sent[p] + 1 \in 1 .. MaxBlocks
        BY <3>2, PipeAssumption DEF SendChecked, SendersOK
      <4> QED
        BY <4>1 DEF SendersOK
    <3>3. CASE SendNoMemory(p)
      BY <3>3 DEF SendNoMemory, SendersOK
    <3> QED
      BY <1>1, <3>1, <3>2, <3>3
  <2> QED
    BY <2>1, <2>2, <1>t DEF PipeTypeOK, SendersOK, InOrder, thread_vars
<1>2. ASSUME NEW p \in Producers, SendPush(p) PROVE OrderInv'
  <2> DEFINE b == <<p, sent[p]>>
  <2>1. b \in Blocks
    BY <1>2 DEF SendPush, SendersOK, Blocks
  <2>2. blocks' = Append(blocks, b) /\ accepted' = Append(accepted, b)
    BY <1>2 DEF SendPush
  <2>3. blocks' \in Seq(Blocks) /\ accepted' \in Seq(Blocks)
    BY <2>1, <2>2, AppendProperties DEF PipeTypeOK, SendersOK
  <2>4. written \o H \o blocks' = accepted'
    BY <2>1, <2>2, <1>h, AppendAssoc DEF PipeTypeOK
  <2>5. UNCHANGED <<thread_vars, all_data_sent, connected, block, written, sent>>
    BY <1>2 DEF SendPush
  <2>6. at' \in [Producers -> {"out", "push"}] /\ \A q \in Producers : at'[q] = "push" => at[q] = "push"
    BY <1>2 DEF SendPush, SendersOK
  <2>7. PipeTypeOK'
    BY <2>3, <2>5, <1>t DEF PipeTypeOK, thread_vars
  <2>8. SendersOK'
    BY <2>3, <2>5, <2>6 DEF SendersOK
  <2>9. InOrder'
    BY <2>4, <2>5 DEF InOrder, Hand
  <2> QED
    BY <2>7, <2>8, <2>9
<1>3. CASE Done
  BY <1>3, <1>t DEF Done, PipeTypeOK, SendersOK, InOrder, thread_vars, producer_vars
<1>4. CASE Connect \/ ConnectFails \/ LoopTest \/ Test \/ Close
  <2>1. UNCHANGED <<blocks, all_data_sent, block, written, producer_vars>> /\ connected' \in BOOLEAN
    BY <1>4 DEF Connect, ConnectFails, LoopTest, Test, Close, queue_vars, producer_vars, SendersOK
  <2>2. ThreadOK' /\ place # "write" /\ place' # "write"
    BY <1>4 DEF Connect, ConnectFails, LoopTest, Test, Close, Goto, RunReturns, ThreadOK, PipeTypeOK
  <2> QED
    BY <2>1, <2>2 DEF PipeTypeOK, SendersOK, InOrder, producer_vars
<1>5. CASE Pop
  <2>1. UNCHANGED <<all_data_sent, connected, written, producer_vars>> /\ ThreadOK'
    BY <1>5 DEF Pop, Goto, PipeTypeOK, ThreadOK
  <2>2. CASE blocks = <<>>
    BY <1>5, <2>1, <2>2 DEF Pop, Goto, PipeTypeOK, SendersOK, InOrder, producer_vars
  <2>3. CASE blocks # <<>>
    <3>1. /\ block = None /\ block' = Head(blocks) /\ blocks' = Tail(blocks)
          /\ place' = "write"
      BY <1>5, <2>3 DEF Pop, Goto, PipeTypeOK
    <3>2. Head(blocks) \in Blocks /\ Tail(blocks) \in Seq(Blocks)
      BY <2>3, HeadTailProperties DEF PipeTypeOK
    <3>3. written \o <<Head(blocks)>> \o Tail(blocks) = accepted
      BY <2>3, <3>1, <1>h, PopAssoc DEF Hand, PipeTypeOK
    <3>4. InOrder'
      BY <2>1, <3>1, <3>2, <3>3, BlocksAreSome DEF InOrder, producer_vars
    <3> QED
      BY <2>1, <3>1, <3>2, <3>4, BlocksAreSome DEF PipeTypeOK, SendersOK, producer_vars
  <2> QED
    BY <2>2, <2>3
<1>6. CASE Write
  <2>1. block \in Blocks /\ H = <<block>>
    BY <1>6, BlocksAreSome DEF Write, Goto, PipeTypeOK, Hand
  <2>2. written' = Append(written, block) /\ block' = None /\ place' = "loop"
        /\ UNCHANGED <<blocks, all_data_sent, connected, producer_vars>>
    BY <1>6 DEF Write, Goto
  <2>3. ThreadOK'
    BY <1>6 DEF Write, Goto, PipeTypeOK, ThreadOK
  <2>4. written' \in Seq(Blocks) /\ written' = written \o H /\ written' \o <<>> = written'
    BY <2>1, <2>2, AppendProperties, AppendIsConcat, ConcatEmptySeq DEF PipeTypeOK
  <2>5. InOrder'
    BY <2>2, <2>4, <1>h DEF InOrder, producer_vars
  <2> QED
    BY <2>2, <2>3, <2>4, <2>5 DEF PipeTypeOK, SendersOK, producer_vars
<1>7. CASE OwnerStep /\ UNCHANGED queue_vars
  <2>1. ThreadOK' /\ (place' = "write" <=> place = "write")
    <3>1. CASE Start
      BY <3>1 DEF Start, ThreadOK, PipeTypeOK
    <3>2. CASE Stop
      BY <3>2 DEF Stop, ThreadOK, PipeTypeOK
    <3>3. CASE WaitForCompletion
      BY <3>3 DEF WaitForCompletion, ThreadOK, PipeTypeOK
    <3>4. CASE Joined
      BY <3>4 DEF Joined, ThreadOK, PipeTypeOK
    <3> QED
      BY <1>7, <3>1, <3>2, <3>3, <3>4 DEF OwnerStep
  <2> QED
    BY <1>7, <2>1 DEF PipeTypeOK, SendersOK, InOrder, queue_vars, producer_vars
<1>8. CASE UNCHANGED pipe_vars
  BY <1>8, <1>t DEF PipeTypeOK, SendersOK, InOrder, pipe_vars, queue_vars, producer_vars, thread_vars
<1> QED
  BY <1>1, <1>2, <1>3, <1>4, <1>5, <1>6, <1>7, <1>8 DEF Next, Run, RunAlone

\* Blocks are written in the order in which send_block accepted them, none twice and
\* none before its turn, for any producers and any number of blocks.
THEOREM PipeInOrder == Spec => []InOrder
<1>1. OrderInv => InOrder
  BY DEF OrderInv
<1> QED
  BY <1>1, OrderInit, OrderStep, PTL DEF Spec

\* No step breaks what the looks at the queue and the ways to the end amount to.
LEMMA LookStep == LookInv /\ [Next]_pipe_vars => LookInv'
<1> SUFFICES ASSUME LookInv, [Next]_pipe_vars PROVE LookInv'
  OBVIOUS
<1>1. OrderInv'
  BY OrderStep DEF LookInv
<1> USE DEF LookInv
<1>2. ASSUME UNCHANGED <<thread_vars, connected, written, seen>>
      PROVE  Looked' /\ WayOut'
  BY <1>2 DEF Looked, WayOut, thread_vars
<1>3. CASE \E p \in Producers : SendRefused(p) \/ SendChecked(p) \/ SendNoMemory(p) \/ SendPush(p)
  BY <1>1, <1>2, <1>3 DEF SendRefused, SendChecked, SendNoMemory, SendPush
<1>4. CASE Done
  BY <1>1, <1>2, <1>4 DEF Done
<1>5. CASE Connect
  BY <1>1, <1>5 DEF Connect, Goto, Looked, WayOut
<1>6. CASE ConnectFails
  BY <1>1, <1>6 DEF ConnectFails, RunReturns, Looked, WayOut, queue_vars
<1>7. CASE LoopTest
  BY <1>1, <1>7 DEF LoopTest, Goto, Looked, WayOut, queue_vars
<1>8. CASE Pop
  <2>1. CASE blocks = <<>>
    <3>1. /\ block = None /\ place = "pop" /\ place' = "test" /\ seen' = accepted
          /\ UNCHANGED <<written, stop_request, stopped, connected>>
      BY <1>8, <2>1 DEF Pop, Goto, OrderInv, PipeTypeOK
    <3>2. written \o <<>> \o <<>> = accepted
      BY <2>1, <3>1 DEF OrderInv, InOrder
    <3>3. written \o <<>> \o <<>> = written
      BY ConcatEmptySeq DEF OrderInv, PipeTypeOK
    <3> QED
      BY <1>1, <3>1, <3>2, <3>3 DEF Looked, WayOut
  <2>2. CASE blocks # <<>>
    BY <1>1, <1>8, <2>2 DEF Pop, Goto, Looked, WayOut
  <2> QED
    BY <2>1, <2>2
<1>9. CASE Write
  BY <1>1, <1>9 DEF Write, Goto, Looked, WayOut
<1>10. CASE Test
  BY <1>1, <1>10 DEF Test, Goto, Looked, WayOut, queue_vars
<1>11. CASE Close
  BY <1>1, <1>11 DEF Close, RunReturns, Looked, WayOut, queue_vars
<1>12. CASE OwnerStep /\ UNCHANGED queue_vars
  BY <1>1, <1>12 DEF OwnerStep, Start, Stop, WaitForCompletion, Joined, Looked, WayOut, queue_vars
<1>13. CASE UNCHANGED pipe_vars
  BY <1>1, <1>2, <1>13 DEF pipe_vars, queue_vars
<1> QED
  BY <1>3, <1>4, <1>5, <1>6, <1>7, <1>8, <1>9, <1>10, <1>11, <1>12, <1>13 DEF Next, Run, RunAlone

\* AllWritten: a thread that was connected and not stopped ends only when every block that
\* send_block had accepted by its last look at the queue is written, whoever calls done()
\* and whenever.
THEOREM PipeAllWritten == Spec => []AllWritten
<1>1. Init => LookInv
  BY OrderInit DEF Init, ThreadInit, LookInv, Looked, WayOut
<1>2. LookInv => AllWritten
  BY DEF LookInv, WayOut, AllWritten
<1> QED
  BY <1>1, <1>2, LookStep, PTL DEF Spec
================================================================================
