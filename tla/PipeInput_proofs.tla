--------------------------- MODULE PipeInput_proofs ----------------------------
(***************************************************************************)
(* For any size of the blocks and any source: the packages that are read   *)
(* are all in full blocks, but for fewer than a block has.                 *)
(***************************************************************************)
EXTENDS PipeInput, SequenceTheorems, TLAPS

DataBlocks == [1 .. packages_per_block -> Nat]

FillTypeOK ==
  /\ received \in Nat /\ buffer \in Nat
  /\ package_index \in 0 .. packages_per_block
  /\ package_index = packages_per_block <=> place = "copy"
  /\ buffer # 0 <=> place = "store"
  /\ packages \in DataBlocks
  /\ place = "queue" => data \in DataBlocks
  /\ taken \in Seq(DataBlocks) /\ data_blocks \in Seq(DataBlocks)

\* Every package that was read is in a block that was queued, in the one on its way
\* to the queue, in the array or in the buffer.
Accounted ==
  received = packages_per_block * (Len(taken) + Len(data_blocks))
               + (IF place = "queue" THEN packages_per_block ELSE 0)
               + package_index + (IF place = "store" THEN 1 ELSE 0)

FillInv == FillTypeOK /\ Accounted

\* The places of run() where no package is in a buffer or in a copy.
Plain == {"new", "run", "loop", "read", "test", "close", "ended"}

\* A step that moves neither packages nor blocks keeps the account.
LEMMA FillStutter ==
  ASSUME FillInv, UNCHANGED <<received, buffer, block_vars>>,
         place' = place \/ (place \in Plain /\ place' \in Plain)
  PROVE  FillInv'
BY DEF FillInv, FillTypeOK, Accounted, block_vars, Plain

\* Nothing is read before the thread starts.
LEMMA FillInit == Init => FillInv
<1> SUFFICES ASSUME Init PROVE FillInv
  OBVIOUS
<1>1. packages_per_block \in Nat \ {0}
  BY InputAssumption
<1>2. <<>> \in Seq(DataBlocks) /\ Len(<<>>) = 0
  BY EmptySeq
<1>3. packages \in DataBlocks
  BY DEF Init, DataBlocks
<1>4. packages_per_block * (Len(taken) + Len(data_blocks)) = 0
  BY <1>1, <1>2 DEF Init
<1> QED
  BY <1>1, <1>2, <1>3, <1>4 DEF Init, ThreadInit, FillInv, FillTypeOK, Accounted

\* One step per action.
LEMMA FillStep == FillInv /\ [Next]_input_vars => FillInv'
<1> SUFFICES ASSUME FillInv, [Next]_input_vars PROVE FillInv'
  OBVIOUS
<1> USE DEF FillInv, FillTypeOK
<1>n. packages_per_block \in Nat \ {0} /\ Len(taken) \in Nat /\ Len(data_blocks) \in Nat
  BY InputAssumption, LenProperties
<1>1. CASE Connect \/ ConnectFails \/ LoopTest \/ Test \/ Close
  BY <1>1, FillStutter
  DEF Connect, ConnectFails, LoopTest, Test, Close, Goto, RunReturns, Plain, source_vars
<1>2. CASE ReadPackage
  <2>1. /\ place = "read" /\ place' = "store" /\ received' = received + 1 /\ buffer' = received + 1
        /\ UNCHANGED block_vars
    BY <1>2 DEF ReadPackage, Goto
  <2> QED
    BY <2>1, <1>n DEF Accounted, block_vars
<1>3. CASE ReadEnd
  BY <1>3, FillStutter DEF ReadEnd, Goto, Plain
<1>4. CASE Store
  <2>1. /\ place = "store" /\ package_index' = package_index + 1 /\ buffer' = 0
        /\ place' = IF package_index + 1 = packages_per_block THEN "copy" ELSE "loop"
        /\ UNCHANGED <<received, data, data_blocks, taken>>
    BY <1>4 DEF Store, Goto, source_vars
  <2>2. package_index \in 0 .. packages_per_block - 1
    BY <2>1, <1>n
  <2>3. packages' \in DataBlocks
    BY <1>4 DEF Store, DataBlocks
  <2> QED
    BY <2>1, <2>2, <2>3, <1>n DEF Accounted
<1>5. CASE MoveCopy
  <2>1. /\ place = "copy" /\ place' = "queue" /\ data' = packages /\ package_index' = 0
        /\ UNCHANGED <<received, packages, data_blocks, taken, buffer>>
    BY <1>5 DEF MoveCopy, Goto, source_vars
  <2> QED
    BY <2>1, <1>n DEF Accounted
<1>6. CASE MoveQueue
  <2>1. /\ place = "queue" /\ place' = "loop" /\ data_blocks' = Append(data_blocks, data)
        /\ UNCHANGED <<received, package_index, packages, taken, buffer>>
    BY <1>6 DEF MoveQueue, Goto, source_vars
  <2>2. data_blocks' \in Seq(DataBlocks) /\ Len(data_blocks') = Len(data_blocks) + 1
    BY <2>1, AppendProperties
  <2>3. packages_per_block * (Len(taken) + (Len(data_blocks) + 1))
          = packages_per_block * (Len(taken) + Len(data_blocks)) + packages_per_block
    BY <1>n
  <2> QED
    BY <2>1, <2>2, <2>3, <1>n DEF Accounted
<1>7. CASE PopDataBlock
  <2>1. /\ data_blocks # <<>> /\ taken' = Append(taken, Head(data_blocks)) /\ data_blocks' = Tail(data_blocks)
        /\ UNCHANGED <<place, received, package_index, packages, data, buffer>>
    BY <1>7 DEF PopDataBlock, source_vars, thread_vars
  <2>2. Head(data_blocks) \in DataBlocks /\ data_blocks' \in Seq(DataBlocks)
        /\ Len(data_blocks') = Len(data_blocks) - 1
    BY <2>1, HeadTailProperties
  <2>3. taken' \in Seq(DataBlocks) /\ Len(taken') = Len(taken) + 1
    BY <2>1, <2>2, AppendProperties
  <2>4. Len(taken') + Len(data_blocks') = Len(taken) + Len(data_blocks)
    BY <2>2, <2>3, <1>n
  <2> QED
    BY <2>1, <2>2, <2>3, <2>4 DEF Accounted
<1>8. CASE Done
  BY <1>8, FillStutter DEF Done, thread_vars, source_vars
<1>9. CASE OwnerStep /\ UNCHANGED <<source_vars, block_vars, all_data_received, buffer>>
  BY <1>9, FillStutter DEF OwnerStep, Start, Stop, WaitForCompletion, Joined, source_vars, Plain
<1>10. CASE UNCHANGED input_vars
  BY <1>10, FillStutter DEF input_vars, thread_vars, source_vars
<1> QED
  BY <1>1, <1>2, <1>3, <1>4, <1>5, <1>6, <1>7, <1>8, <1>9, <1>10 DEF Next, Run

\* Whenever the thread ends, also after a stop request, fewer packages than a block
\* has are not in the queue, for any size of the blocks and any source.
THEOREM InputFullBlocksQueued == Spec => []FullBlocksQueued
<1>1. FillInv => FullBlocksQueued
  <2> SUFFICES ASSUME FillInv, place = "ended"
               PROVE  received - packages_per_block * Len(taken \o data_blocks)
                        \in 0 .. packages_per_block - 1
    BY DEF FullBlocksQueued
  <2>1. Len(taken \o data_blocks) = Len(taken) + Len(data_blocks)
        /\ Len(taken) \in Nat /\ Len(data_blocks) \in Nat
    BY ConcatProperties, LenProperties DEF FillInv, FillTypeOK
  <2>2. package_index \in 0 .. packages_per_block - 1
    BY InputAssumption DEF FillInv, FillTypeOK
  <2>3. received = packages_per_block * (Len(taken) + Len(data_blocks)) + package_index
    BY InputAssumption, <2>1, <2>2 DEF FillInv, Accounted
  <2> QED
    BY InputAssumption, <2>1, <2>2, <2>3
<1> QED
  BY <1>1, FillInit, FillStep, PTL DEF Spec

--------------------------------------------------------------------------------
\* Appending to the queue appends to all blocks.
LEMMA AppendAll ==
  ASSUME NEW t \in Seq(DataBlocks), NEW q \in Seq(DataBlocks), NEW d \in DataBlocks
  PROVE  t \o Append(q, d) = Append(t \o q, d)
<1>1. t \o q \in Seq(DataBlocks) /\ <<d>> \in Seq(DataBlocks)
  BY ConcatProperties
<1>2. Append(q, d) = q \o <<d>> /\ Append(t \o q, d) = (t \o q) \o <<d>>
  BY <1>1, AppendIsConcat
<1> QED BY <1>1, <1>2, ConcatAssociative

\* Popping a block leaves the blocks popped and queued as they are.
LEMMA PopAll ==
  ASSUME NEW t \in Seq(DataBlocks), NEW q \in Seq(DataBlocks), q # <<>>
  PROVE  Append(t, Head(q)) \o Tail(q) = t \o q
<1>1. /\ Head(q) = q[1] /\ Head(q) \in DataBlocks /\ Tail(q) \in Seq(DataBlocks)
      /\ Len(q) \in Nat \ {0} /\ Len(Tail(q)) = Len(q) - 1
      /\ \A i \in 1 .. Len(Tail(q)) : Tail(q)[i] = q[i + 1]
  BY HeadTailProperties, EmptySeq
<1>2. /\ Append(t, Head(q)) \in Seq(DataBlocks) /\ Len(Append(t, Head(q))) = Len(t) + 1
      /\ \A i \in 1 .. Len(t) : Append(t, Head(q))[i] = t[i]
      /\ Append(t, Head(q))[Len(t) + 1] = Head(q)
  BY <1>1, AppendProperties
<1>3. /\ t \o q \in Seq(DataBlocks) /\ Len(t \o q) = Len(t) + Len(q) /\ Len(t) \in Nat
      /\ \A i \in 1 .. Len(t) + Len(q) : (t \o q)[i] = IF i <= Len(t) THEN t[i] ELSE q[i - Len(t)]
  BY ConcatProperties, LenProperties
<1> DEFINE l == Append(t, Head(q))
           r == Tail(q)
<1>4. l \in Seq(DataBlocks) /\ r \in Seq(DataBlocks)
  BY <1>1, <1>2
<1>5. /\ l \o r \in Seq(DataBlocks) /\ Len(l \o r) = Len(l) + Len(r)
      /\ \A i \in 1 .. Len(l) + Len(r) : (l \o r)[i] = IF i <= Len(l) THEN l[i] ELSE r[i - Len(l)]
  BY <1>4, ConcatProperties
<1>6. Len(l \o r) = Len(t \o q)
  BY <1>1, <1>2, <1>3, <1>5
<1>7. \A i \in 1 .. Len(t \o q) : (l \o r)[i] = (t \o q)[i]
  BY <1>1, <1>2, <1>3, <1>5
<1>8. l \o r = t \o q
  BY <1>3, <1>5, <1>6, <1>7, SeqEqual
<1> QED BY <1>8

\* The inductive invariant: besides the account, that the copy is there only between
\* the two mutexes.
KeptInv ==
  /\ FillInv /\ StreamKept
  /\ data # <<>> <=> place = "queue"

\* A full block is not empty.
LEMMA BlockNotEmpty == \A d \in DataBlocks : d # <<>> /\ DOMAIN d = 1 .. packages_per_block
<1> SUFFICES ASSUME NEW d \in DataBlocks PROVE d # <<>> /\ DOMAIN d = 1 .. packages_per_block
  OBVIOUS
<1>1. DOMAIN d = 1 .. packages_per_block /\ 1 \in DOMAIN d
  BY InputAssumption DEF DataBlocks
<1>2. 1 \notin DOMAIN <<>>
  OBVIOUS
<1> QED BY <1>1, <1>2

\* What StreamKept says after a step, where Block is the same.
LEMMA KeptAfter ==
  ASSUME \A b \in DOMAIN (taken \o data_blocks)' : (taken \o data_blocks)'[b] = Block(b),
         data' # <<>> => data' = Block(Len((taken \o data_blocks)') + 1),
         \A k \in 1 .. package_index' : packages'[k] = Stored' + k,
         buffer' # 0 => buffer' = received',
         received' = Stored' + package_index' + (IF buffer' = 0 THEN 0 ELSE 1)
  PROVE  StreamKept'
BY DEF StreamKept, Block

\* A step that moves neither packages nor blocks keeps the order.
LEMMA KeptStutter ==
  ASSUME KeptInv, UNCHANGED <<received, buffer, block_vars>>,
         place' = place \/ (place \in Plain /\ place' \in Plain)
  PROVE  StreamKept' /\ (data # <<>> <=> place = "queue")'
BY DEF KeptInv, StreamKept, Stored, Block, block_vars, Plain

\* Nothing is out of order in the beginning.
LEMMA KeptInit == Init => KeptInv
<1> SUFFICES ASSUME Init PROVE KeptInv
  OBVIOUS
<1>1. FillInv
  BY FillInit
<1>2. taken \o data_blocks = <<>> /\ Len(taken \o data_blocks) = 0 /\ data = <<>> /\ place = "new"
  BY DEF Init, ThreadInit
<1>3. Stored = 0
  BY <1>2, InputAssumption DEF Stored
<1> QED BY <1>1, <1>2, <1>3 DEF Init, KeptInv, StreamKept

\* One step per action.
LEMMA KeptStep == KeptInv /\ [Next]_input_vars => KeptInv'
<1> SUFFICES ASSUME KeptInv, [Next]_input_vars
             PROVE  StreamKept' /\ (data # <<>> <=> place = "queue")'
  BY FillStep DEF KeptInv
<1> DEFINE blocks == taken \o data_blocks
<1>f. FillInv' /\ FillTypeOK /\ StreamKept /\ (data # <<>> <=> place = "queue")
  BY FillStep DEF KeptInv, FillInv
<1>n. /\ packages_per_block \in Nat \ {0} /\ blocks \in Seq(DataBlocks) /\ Len(blocks) \in Nat
      /\ packages_per_block * Len(blocks) \in Nat
  <2>1. blocks \in Seq(DataBlocks) /\ Len(blocks) \in Nat
    BY <1>f, ConcatProperties, LenProperties DEF FillTypeOK
  <2> QED BY <2>1, InputAssumption
<1>s. packages_per_block * (Len(blocks) + 1) = packages_per_block * Len(blocks) + packages_per_block
  BY <1>n
<1>t. Stored \in Nat /\ received \in Nat /\ buffer \in Nat /\ package_index \in Nat
  BY <1>f, <1>n, <1>s DEF Stored, FillTypeOK
<1>1. CASE Connect \/ ConnectFails \/ LoopTest \/ Test \/ Close
  BY <1>1, KeptStutter
  DEF Connect, ConnectFails, LoopTest, Test, Close, Goto, RunReturns, Plain, source_vars
<1>2. CASE ReadPackage
  <2>1. /\ place = "read" /\ place' = "store" /\ received' = received + 1 /\ buffer' = received + 1
        /\ UNCHANGED block_vars
    BY <1>2 DEF ReadPackage, Goto
  <2>2. Stored' = Stored /\ UNCHANGED <<package_index, packages, data, data_blocks, taken>>
    BY <2>1 DEF Stored, block_vars
  <2> QED BY <1>f, <1>t, <2>1, <2>2 DEF StreamKept, FillTypeOK, Block
<1>3. CASE ReadEnd
  BY <1>3, KeptStutter DEF ReadEnd, Goto, Plain
<1>4. CASE Store
  <2>1. /\ place = "store" /\ package_index' = package_index + 1 /\ buffer' = 0
        /\ place' = IF package_index + 1 = packages_per_block THEN "copy" ELSE "loop"
        /\ packages' = [packages EXCEPT ![package_index + 1] = buffer]
        /\ UNCHANGED <<received, data, data_blocks, taken>>
    BY <1>4 DEF Store, Goto, source_vars
  <2>2. package_index \in 0 .. packages_per_block - 1 /\ data = <<>> /\ buffer # 0
    BY <1>f, <1>n, <1>t, <2>1 DEF FillTypeOK
  <2>3. Stored = packages_per_block * Len(blocks) /\ Stored' = Stored
    BY <1>n, <2>1, <2>2 DEF Stored
  <2>4. buffer = Stored + (package_index + 1)
    BY <1>f, <1>n, <1>t, <2>2, <2>3 DEF StreamKept
  <2>5. \A k \in 1 .. package_index' : packages'[k] = Stored' + k
    <3> SUFFICES ASSUME NEW k \in 1 .. package_index + 1 PROVE packages'[k] = Stored + k
      BY <2>1, <2>3
    <3>1. packages' = [packages EXCEPT ![package_index + 1] = buffer] /\ packages \in DataBlocks
      BY <1>f, <2>1 DEF FillTypeOK
    <3>2. k \in 1 .. packages_per_block /\ (k \in 1 .. package_index \/ k = package_index + 1)
      BY <1>n, <2>2
    <3>3. packages'[k] = IF k = package_index + 1 THEN buffer ELSE packages[k]
      BY <3>1, <3>2 DEF DataBlocks
    <3>4. k \in 1 .. package_index => packages[k] = Stored + k
      BY <1>f DEF StreamKept
    <3>5. CASE k = package_index + 1
      BY <2>4, <3>3, <3>5
    <3>6. CASE k # package_index + 1
      BY <3>2, <3>3, <3>4, <3>6, Zenon
    <3> QED BY <3>5, <3>6
  <2>6. /\ (taken \o data_blocks)' = taken \o data_blocks
        /\ \A b \in DOMAIN (taken \o data_blocks) : (taken \o data_blocks)[b] = Block(b)
    BY <1>f, <2>1 DEF StreamKept
  <2>7. /\ data' = <<>> /\ place' # "queue" /\ buffer' = 0
        /\ received' = Stored' + package_index' + (IF buffer' = 0 THEN 0 ELSE 1)
    BY <1>f, <1>t, <2>1, <2>2, <2>3, <2>4 DEF StreamKept
  <2> QED BY <2>5, <2>6, <2>7 DEF StreamKept, Block
<1>5. CASE MoveCopy
  <2>1. /\ place = "copy" /\ place' = "queue" /\ data' = packages /\ package_index' = 0
        /\ UNCHANGED <<received, packages, data_blocks, taken, buffer>>
    BY <1>5 DEF MoveCopy, Goto, source_vars
  <2>2. package_index = packages_per_block /\ data = <<>> /\ buffer = 0 /\ packages \in DataBlocks
    BY <1>f, <2>1 DEF FillTypeOK
  <2>3. data' # <<>>
    BY <2>1, <2>2, BlockNotEmpty
  <2>4. Stored = packages_per_block * Len(blocks) /\ Stored' = packages_per_block * Len(blocks) + packages_per_block
    BY <1>n, <1>s, <2>1, <2>2, <2>3 DEF Stored
  <2>5. packages = Block(Len(blocks) + 1)
    <3>1. \A k \in 1 .. packages_per_block :
            packages[k] = (Len(blocks) + 1 - 1) * packages_per_block + k
      BY <1>f, <1>n, <1>t, <2>2, <2>4 DEF StreamKept
    <3> QED BY <3>1, <2>2 DEF Block, DataBlocks
  <2>6. \A b \in DOMAIN blocks' : blocks'[b] = Block(b)
    BY <1>f, <2>1 DEF StreamKept
  <2>7. data' = Block(Len(blocks') + 1)
    BY <2>1, <2>5
  <2>8. received' = Stored' + package_index' + (IF buffer' = 0 THEN 0 ELSE 1)
    BY <1>f, <1>n, <1>t, <2>1, <2>2, <2>4 DEF StreamKept
  <2>9. StreamKept'
    BY <2>1, <2>2, <2>6, <2>7, <2>8, KeptAfter
  <2> QED BY <2>1, <2>3, <2>9
<1>6. CASE MoveQueue
  <2>1. /\ place = "queue" /\ place' = "loop" /\ data_blocks' = Append(data_blocks, data) /\ data' = <<>>
        /\ UNCHANGED <<received, package_index, packages, taken, buffer>>
    BY <1>6 DEF MoveQueue, Goto, source_vars
  <2>2. data \in DataBlocks /\ data # <<>> /\ data = Block(Len(blocks) + 1)
    BY <1>f, <2>1 DEF FillTypeOK, StreamKept
  <2>3. blocks' = Append(blocks, data)
    BY <1>f, <1>t, <2>1, <2>2, AppendAll DEF FillTypeOK
  <2>4. /\ Len(blocks') = Len(blocks) + 1 /\ DOMAIN blocks' = 1 .. Len(blocks) + 1
        /\ \A b \in 1 .. Len(blocks) : blocks'[b] = blocks[b]
        /\ blocks'[Len(blocks) + 1] = data /\ DOMAIN blocks = 1 .. Len(blocks)
    BY <1>n, <2>2, <2>3, AppendProperties, LenProperties
  <2>5. Stored' = Stored
    BY <1>n, <1>s, <2>1, <2>2, <2>4 DEF Stored
  <2>6. \A b \in DOMAIN blocks' : blocks'[b] = Block(b)
    <3>1. \A b \in 1 .. Len(blocks) : blocks[b] = Block(b)
      BY <1>f, <2>4 DEF StreamKept
    <3> HIDE DEF blocks
    <3> QED BY <1>n, <2>2, <2>4, <3>1
  <2>7. package_index \in Nat /\ buffer = 0
    BY <1>f, <2>1 DEF FillTypeOK
  <2>8. received' = Stored' + package_index' + (IF buffer' = 0 THEN 0 ELSE 1)
    BY <1>f, <2>1, <2>5 DEF StreamKept
  <2>9. \A k \in 1 .. package_index' : packages'[k] = Stored' + k
    BY <1>f, <2>1, <2>5 DEF StreamKept
  <2>10. StreamKept'
    BY <2>1, <2>6, <2>7, <2>8, <2>9, KeptAfter
  <2> QED BY <2>1, <2>10
<1>7. CASE PopDataBlock
  <2>1. /\ data_blocks # <<>> /\ taken' = Append(taken, Head(data_blocks)) /\ data_blocks' = Tail(data_blocks)
        /\ UNCHANGED <<place, received, package_index, packages, data, buffer>>
    BY <1>7 DEF PopDataBlock, source_vars, thread_vars
  <2>2. blocks' = blocks
    BY <1>f, <2>1, PopAll DEF FillTypeOK
  <2>3. Stored' = Stored
    BY <2>1, <2>2 DEF Stored
  <2>4. \A b \in DOMAIN blocks' : blocks'[b] = Block(b)
    BY <1>f, <2>2 DEF StreamKept
  <2>5. data' # <<>> => data' = Block(Len(blocks') + 1)
    BY <1>f, <2>1, <2>2 DEF StreamKept
  <2>6. received' = Stored' + package_index' + (IF buffer' = 0 THEN 0 ELSE 1)
    BY <1>f, <2>1, <2>3 DEF StreamKept
  <2>7. \A k \in 1 .. package_index' : packages'[k] = Stored' + k
    BY <1>f, <2>1, <2>3 DEF StreamKept
  <2>8. buffer' # 0 => buffer' = received'
    BY <1>f, <2>1 DEF StreamKept
  <2>9. StreamKept'
    BY <2>4, <2>5, <2>6, <2>7, <2>8, KeptAfter
  <2> QED BY <1>f, <2>1, <2>9
<1>8. CASE Done
  BY <1>8, KeptStutter DEF Done, thread_vars, source_vars
<1>9. CASE OwnerStep /\ UNCHANGED <<source_vars, block_vars, all_data_received, buffer>>
  BY <1>9, KeptStutter DEF OwnerStep, Start, Stop, WaitForCompletion, Joined, source_vars, Plain
<1>10. CASE UNCHANGED input_vars
  BY <1>10, KeptStutter DEF input_vars, thread_vars, source_vars
<1> QED
  BY <1>1, <1>2, <1>3, <1>4, <1>5, <1>6, <1>7, <1>8, <1>9, <1>10 DEF Next, Run

\* StreamKept: whatever the source delivers and whoever pops blocks, the blocks, the
\* copy, the array and the buffer hold the packages in the order they were read.
THEOREM InputStreamKept == Spec => []StreamKept
<1>1. KeptInv => StreamKept
  BY DEF KeptInv
<1> QED
  BY <1>1, KeptInit, KeptStep, PTL DEF Spec
================================================================================
