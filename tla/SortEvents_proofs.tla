--------------------------- MODULE SortEvents_proofs ---------------------------
(***************************************************************************)
(* For any number of registration events and any partial orders, cyclic    *)
(* combinations included: the sort appends every event once, meets all     *)
(* orders that can be met, and does with a single one what PulledForward   *)
(* says, which Registration takes in its place.                            *)
(***************************************************************************)
EXTENDS SortEvents, FiniteSetTheorems, SequenceTheorems, TLAPS

Frames == [of : Events, j : 0 .. N]

SortTypeOK ==
  /\ orders \in Orders
  /\ permutation \in Seq(Events) /\ stack \in Seq(Frames)
  /\ i \in 0 .. N

\* No event is appended twice, or in two frames, or appended while it has a frame.
Distinct ==
  /\ \A a, b \in 1 .. Len(permutation) : permutation[a] = permutation[b] => a = b
  /\ \A a, b \in 1 .. Len(stack) : stack[a].of = stack[b].of => a = b
  /\ \A a \in 1 .. Len(stack) : stack[a].of \notin Appended

\* Events before the loop variable are appended, or they have a frame.
Covered == \A e \in Events : e < i => e \in Appended \cup Delayed

OnceInv == SortTypeOK /\ Distinct /\ Covered

\* A set of naturals that is not empty has a least element.
LEMMA LeastNatural ==
  ASSUME NEW T, T \subseteq Nat, T # {}
  PROVE  \E x \in T : \A y \in T : x <= y
<1> DEFINE R == OpToRel(<, Nat)
<1>1. IsWellFoundedOn(R, Nat)
  BY NatLessThanWellFounded, Zenon
<1>2. \A x, y \in Nat : y < x => <<y, x>> \in R
  BY DEF OpToRel
<1> HIDE DEF R
<1>3. PICK x \in T : \A y \in T : ~ (<<y, x>> \in R)
  BY <1>1, WFMin, Zenon
<1>4. x \in Nat /\ \A y \in T : y \in Nat /\ ~ (y < x)
  BY <1>2, <1>3, Zenon
<1> QED
  BY <1>3, <1>4

\* What the two sequences contain.
LEMMA Contents ==
  ASSUME SortTypeOK
  PROVE  /\ Appended = {permutation[a] : a \in 1 .. Len(permutation)}
         /\ Delayed = {stack[a].of : a \in 1 .. Len(stack)}
         /\ Len(permutation) \in Nat /\ Len(stack) \in Nat
         /\ \A a \in 1 .. Len(permutation) : permutation[a] \in Events
         /\ \A a \in 1 .. Len(stack) : stack[a].of \in Events /\ stack[a].j \in 0 .. N
         /\ stack # <<>> => Len(stack) > 0
         /\ Appended \subseteq Events /\ Delayed \subseteq Events
<1>1. permutation \in Seq(Events) /\ stack \in Seq(Frames)
  BY DEF SortTypeOK
<1>2. DOMAIN permutation = 1 .. Len(permutation) /\ DOMAIN stack = 1 .. Len(stack)
  BY <1>1
<1>3. /\ Len(permutation) \in Nat /\ Len(stack) \in Nat
      /\ \A a \in 1 .. Len(permutation) : permutation[a] \in Events
      /\ \A a \in 1 .. Len(stack) : stack[a] \in Frames
      /\ stack # <<>> => Len(stack) > 0
  BY <1>1
<1>4. \A a \in 1 .. Len(stack) : stack[a].of \in Events /\ stack[a].j \in 0 .. N
  BY <1>3 DEF Frames
<1>5. /\ Appended = {permutation[a] : a \in 1 .. Len(permutation)}
      /\ Delayed = {stack[a].of : a \in 1 .. Len(stack)}
  BY <1>2 DEF Appended, Delayed, ToSet
<1> QED
  BY <1>3, <1>4, <1>5

\* The frames below the one on top.
LEMMA PopShape ==
  ASSUME SortTypeOK, stack # <<>>
  PROVE  /\ Pop \in Seq(Frames) /\ Len(Pop) = Len(stack) - 1
         /\ \A a \in 1 .. Len(stack) - 1 : Pop[a] = stack[a]
<1> DEFINE n == Len(stack)
<1>1. n \in Nat /\ n > 0 /\ \A a \in 1 .. n - 1 : stack[a] \in Frames
  BY Contents DEF SortTypeOK
<1>2. /\ Pop \in Seq(Frames) /\ Len(Pop) = IF 1 <= n - 1 THEN n - 1 - 1 + 1 ELSE 0
      /\ \A a \in 1 .. n - 1 - 1 + 1 : Pop[a] = stack[1 + a - 1]
  <2>1. 1 \in Int /\ n - 1 \in Int
    BY <1>1
  <2>2. \A a \in 1 .. n - 1 : stack[a] \in Frames
    BY <1>1
  <2> HIDE DEF n
  <2> DEFINE q == SubSeq(stack, 1, n - 1)
  <2>3. /\ q \in Seq(Frames) /\ Len(q) = IF 1 <= n - 1 THEN n - 1 - 1 + 1 ELSE 0
        /\ \A a \in 1 .. n - 1 - 1 + 1 : q[a] = stack[1 + a - 1]
    BY <2>1, <2>2, SubSeqProperties
  <2>4. Pop = q
    BY DEF Pop, n
  <2> QED
    BY <2>3, <2>4, Zenon
<1> HIDE DEF n
<1>3. \A a \in 1 .. n - 1 : a \in 1 .. n - 1 - 1 + 1 /\ 1 + a - 1 = a
  BY <1>1
<1>4. \A a \in 1 .. n - 1 : Pop[a] = stack[a]
  BY <1>2, <1>3
<1>5. Len(Pop) = n - 1
  BY <1>1, <1>2
<1> QED
  BY <1>2, <1>4, <1>5 DEF n

\* The loop over all events begins a frame for one that is not appended.
LEMMA OuterShape ==
  ASSUME SortTypeOK, Outer
  PROVE  /\ stack = <<>> /\ Len(stack) = 0 /\ i \in Events /\ i' = i + 1
         /\ permutation' = permutation /\ orders' = orders
         /\ stack' \in Seq(Frames)
         /\ \/ i \in Appended /\ stack' = stack
            \/ /\ i \notin Appended /\ Len(stack') = 1
               /\ stack'[1] = [of |-> i, j |-> 0]
<1>1. /\ stack = <<>> /\ i < N /\ i' = i + 1
      /\ permutation' = permutation /\ orders' = orders
      /\ stack' = IF i \in Appended THEN stack ELSE Call(stack, i)
  BY DEF Outer
<1>2. i \in Events /\ i \in 0 .. N /\ [of |-> i, j |-> 0] \in Frames
  BY <1>1, SortAssumption DEF SortTypeOK, Events, Frames
<1>3. Delayed = {}
  BY <1>1, Contents
<1>4. Call(stack, i) = Append(<<>>, [of |-> i, j |-> 0])
  BY <1>1, <1>3 DEF Call
<1>5. stack \in Seq(Frames) /\ Len(stack) = 0
  BY <1>1 DEF SortTypeOK
<1>6. CASE i \in Appended
  BY <1>1, <1>2, <1>5, <1>6
<1>7. CASE i \notin Appended
  <2>1. stack' = Append(<<>>, [of |-> i, j |-> 0])
    BY <1>1, <1>4, <1>7
  <2>2. stack' \in Seq(Frames) /\ Len(stack') = 1 /\ stack'[1] = [of |-> i, j |-> 0]
    BY <1>2, <2>1
  <2> QED
    BY <1>1, <1>2, <1>5, <1>7, <2>2
<1> QED
  BY <1>6, <1>7

\* The frame on top goes on to predecessor j, and a frame is begun for it when it is
\* neither appended nor delayed.
Advanced(j) ==
  LET n == Len(stack) IN
  /\ j \in CombinedPartialOrder(stack[n].of) /\ j \in Events /\ j >= stack[n].j
  /\ \A d \in CombinedPartialOrder(stack[n].of) : d < j + 1 => d < stack[n].j \/ d = j
  /\ stack' \in Seq(Frames)
  /\ \A a \in 1 .. n - 1 : stack'[a] = stack[a]
  /\ stack'[n].of = stack[n].of /\ stack'[n].j = j + 1
  /\ \/ j \in Appended \cup Delayed /\ Len(stack') = n
     \/ /\ j \notin Appended \cup Delayed /\ Len(stack') = n + 1
        /\ stack'[n + 1] = [of |-> j, j |-> 0]

\* The next predecessor is the least one that the frame has not come to.
LEMMA VisitShape ==
  ASSUME SortTypeOK, Visit
  PROVE  /\ Len(stack) > 0
         /\ permutation' = permutation /\ i' = i /\ orders' = orders
         /\ \E j \in Events : Advanced(j)
<1> DEFINE n == Len(stack)
           j == CHOOSE x \in Pending : \A y \in Pending : x <= y
           advanced == Append(Pop, [Top EXCEPT !.j = j + 1])
<1>1. /\ stack # <<>> /\ Pending # {}
      /\ stack' = IF j \in Appended THEN advanced ELSE Call(advanced, j)
      /\ permutation' = permutation /\ i' = i /\ orders' = orders
  BY DEF Visit
<1>2. n \in Nat /\ n > 0 /\ Top = stack[n] /\ stack[n] \in Frames
  BY <1>1, Contents DEF SortTypeOK, Top
<1>3. Pending \subseteq Events /\ Pending \subseteq Nat
  BY SortAssumption DEF Pending, CombinedPartialOrder, Events
<1>4. j \in Pending /\ \A y \in Pending : j <= y
  <2>1. \E x \in Pending : \A y \in Pending : x <= y
    BY <1>1, <1>3, LeastNatural
  <2> QED
    BY <2>1
<1> HIDE DEF j
<1>5. j \in CombinedPartialOrder(stack[n].of) /\ j \in Events /\ j >= stack[n].j
  BY <1>2, <1>3, <1>4 DEF Pending
<1>6. \A d \in CombinedPartialOrder(stack[n].of) : d < j + 1 => d < stack[n].j \/ d = j
  <2>1. SUFFICES ASSUME NEW d \in CombinedPartialOrder(stack[n].of), d < j + 1, ~ (d < stack[n].j)
        PROVE  d = j
    BY <1>5
  <2>2. d \in Nat /\ stack[n].j \in Nat /\ j \in Nat
    BY <1>2, <1>5, SortAssumption DEF CombinedPartialOrder, Events, Frames
  <2>3. d \in Pending
    BY <1>2, <2>1, <2>2 DEF Pending
  <2> QED
    BY <1>4, <2>1, <2>2, <2>3
<1>7. /\ advanced \in Seq(Frames) /\ Len(advanced) = n
      /\ \A a \in 1 .. n - 1 : advanced[a] = stack[a]
      /\ advanced[n].of = stack[n].of /\ advanced[n].j = j + 1
  <2> DEFINE f == [Top EXCEPT !.j = j + 1]
  <2>1. f \in Frames /\ f.of = stack[n].of /\ f.j = j + 1
    <3>1. j + 1 \in 0 .. N
      BY <1>5, SortAssumption DEF Events
    <3>2. Top \in [of : Events, j : 0 .. N] /\ Top = stack[n]
      BY <1>2 DEF Frames
    <3> QED
      BY <3>1, <3>2 DEF Frames
  <2>2. Pop \in Seq(Frames) /\ Len(Pop) = n - 1 /\ \A a \in 1 .. n - 1 : Pop[a] = stack[a]
    BY <1>1, PopShape
  <2> HIDE DEF f
  <2>3. /\ Append(Pop, f) \in Seq(Frames) /\ Len(Append(Pop, f)) = n
        /\ \A a \in 1 .. n - 1 : Append(Pop, f)[a] = stack[a]
        /\ Append(Pop, f)[n] = f
    BY <1>2, <2>1, <2>2
  <2> QED
    BY <2>1, <2>3 DEF f
<1> HIDE DEF advanced
<1>8. CASE j \in Appended \cup Delayed
  <2>1. stack' = advanced
    BY <1>1, <1>8 DEF Call
  <2> QED
    BY <1>1, <1>2, <1>5, <1>6, <1>7, <1>8, <2>1 DEF Advanced
<1>9. CASE j \notin Appended \cup Delayed
  <2>1. stack' = Append(advanced, [of |-> j, j |-> 0])
    BY <1>1, <1>9 DEF Call
  <2>2. [of |-> j, j |-> 0] \in Frames
    BY <1>5, SortAssumption DEF Frames
  <2>3. /\ stack' \in Seq(Frames) /\ Len(stack') = n + 1
        /\ \A a \in 1 .. n : stack'[a] = advanced[a]
        /\ stack'[n + 1] = [of |-> j, j |-> 0]
    BY <1>2, <1>7, <2>1, <2>2
  <2>4. /\ \A a \in 1 .. n - 1 : stack'[a] = stack[a]
        /\ stack'[n].of = stack[n].of /\ stack'[n].j = j + 1
    BY <1>2, <1>7, <2>3
  <2> QED
    BY <1>1, <1>2, <1>5, <1>6, <1>9, <2>3, <2>4 DEF Advanced
<1> QED
  BY <1>8, <1>9

\* The event of the frame on top is appended.
LEMMA ReturnShape ==
  ASSUME SortTypeOK, Return
  PROVE  /\ Len(stack) > 0 /\ i' = i /\ orders' = orders
         /\ \A d \in CombinedPartialOrder(stack[Len(stack)].of) : d < stack[Len(stack)].j
         /\ permutation' \in Seq(Events) /\ Len(permutation') = Len(permutation) + 1
         /\ \A a \in 1 .. Len(permutation) : permutation'[a] = permutation[a]
         /\ permutation'[Len(permutation) + 1] = stack[Len(stack)].of
         /\ Appended' = Appended \cup {stack[Len(stack)].of}
         /\ stack' \in Seq(Frames) /\ Len(stack') = Len(stack) - 1
         /\ \A a \in 1 .. Len(stack) - 1 : stack'[a] = stack[a]
<1> DEFINE n == Len(stack)
           m == Len(permutation)
           e == stack[n].of
<1>1. /\ stack # <<>> /\ Pending = {} /\ i' = i /\ orders' = orders
      /\ permutation' = Append(permutation, Top.of) /\ stack' = Pop
  BY DEF Return
<1>2. /\ n \in Nat /\ n > 0 /\ Top = stack[n] /\ stack[n].of \in Events /\ stack[n].j \in 0 .. N
      /\ m \in Nat
  BY <1>1, Contents DEF Top
<1>3. \A d \in CombinedPartialOrder(e) : d < stack[n].j
  <2>1. SUFFICES ASSUME NEW d \in CombinedPartialOrder(e), ~ (d < stack[n].j) PROVE FALSE
    OBVIOUS
  <2>2. d \in Nat /\ stack[n].j \in Nat
    BY <1>2, SortAssumption DEF CombinedPartialOrder, Events
  <2> QED
    BY <1>1, <1>2, <2>1, <2>2 DEF Pending
<1>4. /\ permutation' \in Seq(Events) /\ Len(permutation') = m + 1
      /\ \A a \in 1 .. m : permutation'[a] = permutation[a]
      /\ permutation'[m + 1] = e
  BY <1>1, <1>2 DEF SortTypeOK
<1>5. Appended' = Appended \cup {e}
  <2>1. DOMAIN permutation' = 1 .. m + 1 /\ DOMAIN permutation = 1 .. m
    BY <1>4 DEF SortTypeOK
  <2>2. Appended' = {permutation'[a] : a \in 1 .. m + 1} /\ Appended = {permutation[a] : a \in 1 .. m}
    BY <2>1, Zenon DEF Appended, ToSet
  <2>3. 1 .. m + 1 = (1 .. m) \cup {m + 1}
    BY <1>2
  <2> HIDE DEF e, m
  <2> QED
    BY <1>4, <2>2, <2>3
<1>6. Pop \in Seq(Frames) /\ Len(Pop) = n - 1 /\ \A a \in 1 .. n - 1 : Pop[a] = stack[a]
  BY <1>1, PopShape
<1> QED
  BY <1>1, <1>2, <1>3, <1>4, <1>5, <1>6

\* Nothing is appended before the first step.
LEMMA OnceStart == SortInit => OnceInv
<1> SUFFICES ASSUME SortInit PROVE OnceInv
  OBVIOUS
<1>1. orders \in Orders /\ permutation = <<>> /\ i = 0 /\ stack = <<>>
  BY DEF SortInit
<1>2. SortTypeOK
  BY <1>1, SortAssumption DEF SortTypeOK
<1>3. Len(permutation) = 0 /\ Len(stack) = 0
  BY <1>1
<1>4. \A e \in Events : ~ (e < i)
  BY <1>1, SortAssumption DEF Events
<1> QED
  BY <1>2, <1>3, <1>4 DEF OnceInv, Distinct, Covered

\* The events with a frame after a step.
LEMMA DelayedNext ==
  ASSUME stack' \in Seq(Frames)
  PROVE  Delayed' = {stack'[a].of : a \in 1 .. Len(stack')} /\ Len(stack') \in Nat
<1>1. DOMAIN stack' = 1 .. Len(stack') /\ Len(stack') \in Nat
  OBVIOUS
<1> QED
  BY <1>1 DEF Delayed

\* The loop.
LEMMA OnceOuter ==
  ASSUME OnceInv, Outer
  PROVE  OnceInv'
<1>1. SortTypeOK /\ Distinct /\ Covered
  BY DEF OnceInv
<1>2. /\ Len(stack) = 0 /\ i \in Events /\ i' = i + 1
      /\ permutation' = permutation /\ orders' = orders
      /\ stack' \in Seq(Frames)
      /\ \/ i \in Appended /\ stack' = stack
         \/ i \notin Appended /\ Len(stack') = 1 /\ stack'[1] = [of |-> i, j |-> 0]
  BY <1>1, OuterShape
<1>3. SortTypeOK'
  BY <1>1, <1>2, SortAssumption DEF SortTypeOK, Events
<1>4. Appended' = Appended
  BY <1>2 DEF Appended
<1>5. Len(stack') \in {0, 1} /\ \A a \in 1 .. Len(stack') : stack'[a].of = i /\ i \notin Appended
  BY <1>2
<1>6. Distinct'
  <2>1. \A a, b \in 1 .. Len(stack') : a = b
    BY <1>5
  <2> QED
    BY <1>1, <1>2, <1>4, <1>5, <2>1 DEF Distinct
<1>7. Covered'
  <2>1. SUFFICES ASSUME NEW e \in Events, e < i + 1 PROVE e \in Appended' \cup Delayed'
    BY <1>2 DEF Covered
  <2>2. CASE e = i
    <3>1. CASE i \in Appended
      BY <1>4, <2>2, <3>1
    <3>2. CASE i \notin Appended
      <4>1. 1 \in 1 .. Len(stack') /\ stack'[1].of = i
        BY <1>2, <3>2
      <4> QED
        BY <1>2, <2>2, <4>1, DelayedNext
    <3> QED
      BY <3>1, <3>2
  <2>3. CASE e # i
    <3>1. e < i
      BY <1>2, <2>1, <2>3, SortAssumption DEF Events
    <3>2. Delayed = {}
      BY <1>1, <1>2, Contents
    <3> QED
      BY <1>1, <1>4, <3>1, <3>2 DEF Covered
  <2> QED
    BY <2>2, <2>3
<1> QED
  BY <1>3, <1>6, <1>7 DEF OnceInv

\* A predecessor is visited.
LEMMA OnceVisit ==
  ASSUME OnceInv, Visit
  PROVE  OnceInv'
<1>1. SortTypeOK /\ Distinct /\ Covered
  BY DEF OnceInv
<1> DEFINE n == Len(stack)
<1>2. n \in Nat /\ n > 0 /\ permutation' = permutation /\ i' = i /\ orders' = orders
  BY <1>1, VisitShape, Contents
<1>3. PICK j \in Events : Advanced(j)
  BY <1>1, VisitShape
<1>4. /\ stack' \in Seq(Frames)
      /\ \A a \in 1 .. n : stack'[a].of = stack[a].of
      /\ \/ Len(stack') = n
         \/ j \notin Appended \cup Delayed /\ Len(stack') = n + 1 /\ stack'[n + 1].of = j
  BY <1>2, <1>3 DEF Advanced
<1>5. SortTypeOK' /\ Appended' = Appended
  BY <1>1, <1>2, <1>4 DEF SortTypeOK, Appended
<1>6. /\ Delayed = {stack[a].of : a \in 1 .. n}
      /\ Delayed' = {stack'[a].of : a \in 1 .. Len(stack')}
  BY <1>1, <1>4, Contents, DelayedNext
<1> HIDE DEF n
<1>7. Distinct'
  <2>1. /\ \A a, b \in 1 .. n : stack'[a].of = stack'[b].of => a = b
        /\ \A a \in 1 .. n : stack'[a].of \notin Appended'
    BY <1>1, <1>4, <1>5 DEF Distinct, n
  <2>2. \A a, b \in 1 .. Len(permutation') : permutation'[a] = permutation'[b] => a = b
    BY <1>1, <1>2 DEF Distinct
  <2>3. CASE Len(stack') = n
    BY <2>1, <2>2, <2>3 DEF Distinct
  <2>4. CASE j \notin Appended \cup Delayed /\ Len(stack') = n + 1 /\ stack'[n + 1].of = j
    <3>1. \A a \in 1 .. n : stack'[a].of # j
      BY <1>4, <1>6, <2>4
    <3>2. \A a \in 1 .. n + 1 : a \in 1 .. n \/ a = n + 1
      BY <1>2
    <3>3. /\ \A a, b \in 1 .. Len(stack') : stack'[a].of = stack'[b].of => a = b
          /\ \A a \in 1 .. Len(stack') : stack'[a].of \notin Appended'
      BY <1>5, <2>1, <2>4, <3>1, <3>2, Zenon
    <3> QED
      BY <2>2, <3>3 DEF Distinct
  <2> QED
    BY <1>4, <2>3, <2>4
<1>8. Delayed \subseteq Delayed'
  <2>1. \A a \in 1 .. n : a \in 1 .. Len(stack')
    BY <1>2, <1>4
  <2> QED
    BY <1>4, <1>6, <2>1
<1> QED
  BY <1>1, <1>2, <1>5, <1>7, <1>8 DEF OnceInv, Covered

\* An event is appended and its frame removed.
LEMMA OnceReturn ==
  ASSUME OnceInv, Return
  PROVE  OnceInv'
<1>1. SortTypeOK /\ Distinct /\ Covered
  BY DEF OnceInv
<1> DEFINE n == Len(stack)
           m == Len(permutation)
           e == stack[n].of
<1>2. /\ n > 0 /\ i' = i /\ orders' = orders
      /\ permutation' \in Seq(Events) /\ Len(permutation') = m + 1
      /\ \A a \in 1 .. m : permutation'[a] = permutation[a]
      /\ permutation'[m + 1] = e
      /\ Appended' = Appended \cup {e}
      /\ stack' \in Seq(Frames) /\ Len(stack') = n - 1
      /\ \A a \in 1 .. n - 1 : stack'[a] = stack[a]
  BY <1>1, ReturnShape
<1>3. /\ n \in Nat /\ m \in Nat
      /\ Appended = {permutation[a] : a \in 1 .. m}
      /\ Delayed = {stack[a].of : a \in 1 .. n}
      /\ Delayed' = {stack'[a].of : a \in 1 .. n - 1}
  BY <1>1, <1>2, Contents, DelayedNext
<1>4. SortTypeOK'
  BY <1>1, <1>2 DEF SortTypeOK
<1> HIDE DEF n, m
<1>5. n \in 1 .. n /\ \A a \in 1 .. n - 1 : a \in 1 .. n /\ a # n
  BY <1>2, <1>3
<1>6. e \notin Appended /\ \A a \in 1 .. n - 1 : stack[a].of # e /\ stack[a].of \notin Appended
  BY <1>1, <1>5, Zenon DEF Distinct, n
<1> HIDE DEF e
<1>7. Distinct'
  <2>1. \A a \in 1 .. m : permutation'[a] # e
    BY <1>2, <1>3, <1>6
  <2>2. \A a \in 1 .. m + 1 : a \in 1 .. m \/ a = m + 1
    BY <1>3
  <2>3. \A a, b \in 1 .. m : permutation'[a] = permutation'[b] => a = b
    BY <1>1, <1>2, Zenon DEF Distinct, m
  <2>4. \A a, b \in 1 .. m + 1 : permutation'[a] = permutation'[b] => a = b
    BY <1>2, <2>1, <2>2, <2>3, Zenon
  <2>5. \A a, b \in 1 .. n - 1 : stack'[a].of = stack'[b].of => a = b
    <3>1. \A a, b \in 1 .. n : stack[a].of = stack[b].of => a = b
      BY <1>1 DEF Distinct, n
    <3> QED
      BY <1>2, <1>5, <3>1, Zenon
  <2>6. \A a \in 1 .. n - 1 : stack'[a].of \notin Appended'
    BY <1>2, <1>6
  <2> QED
    BY <1>2, <2>4, <2>5, <2>6, Zenon DEF Distinct
<1>8. Delayed \subseteq Delayed' \cup {e}
  <2>1. \A a \in 1 .. n : a = n \/ a \in 1 .. n - 1
    BY <1>3
  <2>2. \A a \in 1 .. n - 1 : stack[a].of = stack'[a].of
    BY <1>2
  <2> QED
    BY <1>3, <2>1, <2>2 DEF e
<1> QED
  BY <1>1, <1>2, <1>4, <1>7, <1>8 DEF OnceInv, Covered

\* One step per action.
LEMMA OnceStep == OnceInv /\ [SortNext]_sort_vars => OnceInv'
<1> SUFFICES ASSUME OnceInv, [SortNext]_sort_vars PROVE OnceInv'
  OBVIOUS
<1>1. CASE SortNext
  BY <1>1, OnceOuter, OnceVisit, OnceReturn DEF SortNext
<1>2. CASE UNCHANGED sort_vars
  BY <1>2 DEF sort_vars, OnceInv, SortTypeOK, Distinct, Covered, Appended, Delayed
<1> QED
  BY <1>1, <1>2

\* As many different events as there are.
LEMMA AllPlaced ==
  ASSUME OnceInv, Done
  PROVE  /\ permutation \in EventOrders /\ Len(permutation) = N
         /\ \A e \in Events : \E a \in 1 .. N : permutation[a] = e
<1> DEFINE m == Len(permutation)
<1>1. SortTypeOK /\ Distinct /\ Covered /\ i = N /\ stack = <<>>
  BY DEF OnceInv, Done
<1>2. m \in Nat /\ Appended = {permutation[a] : a \in 1 .. m} /\ Delayed = {}
  BY <1>1, Contents
<1>3. \A e \in Events : \E a \in 1 .. m : permutation[a] = e
  <2>1. \A e \in Events : e < i
    BY <1>1, SortAssumption DEF Events
  <2> QED
    BY <1>1, <1>2, <2>1 DEF Covered
<1>4. permutation \in [1 .. m -> Events]
  BY <1>1 DEF SortTypeOK
<1>5. permutation \in Bijection(1 .. m, Events)
  BY <1>1, <1>3, <1>4 DEF Distinct, Bijection, Injection, Surjection, IsInjective
<1>6. m = Cardinality(Events)
  BY <1>2, <1>5, FS_CountingElements DEF ExistsBijection
<1>7. Cardinality(Events) = N
  BY SortAssumption, FS_Interval DEF Events
<1> QED
  BY <1>1, <1>3, <1>4, <1>6, <1>7 DEF Distinct, EventOrders

\* NeverAborts, for any number of events and any partial orders, cyclic ones included.
THEOREM SortNeverAborts == SortSpec => []NeverAborts
<1>1. OnceInv => NeverAborts
  BY AllPlaced DEF NeverAborts
<1> QED
  BY <1>1, OnceStart, OnceStep, PTL DEF SortSpec

--------------------------------------------------------------------------------
\* The orders are met.

\* CombinedPartialOrder of the orders os.
Preds(os, e) == {d \in Events : \E o \in os : \E k \in 2 .. Len(o) : o[k] = e /\ o[k - 1] = d}

\* h grades the events: every one is above its predecessors.  There is such an h when the
\* combined order has no cycle.
Grades(os, h) == \A e \in Events : \A d \in Preds(os, e) : h[d] < h[e]
Graded(os) == \E h \in [Events -> Nat] : Grades(os, h)

\* Every frame was begun for a predecessor of the one below.
Descends ==
  \A h \in [Events -> Nat] : Grades(orders, h) =>
    \A a, b \in 1 .. Len(stack) : a < b => h[stack[b].of] < h[stack[a].of]

\* The predecessors a frame has gone through are appended, the last one may still be at
\* work in the next frame.
Visited ==
  \A a \in 1 .. Len(stack) : \A d \in Preds(orders, stack[a].of) : d < stack[a].j =>
    d \in Appended \/ (a < Len(stack) /\ stack[a + 1].of = d)

\* What is appended has its predecessors in front of it.
Preceded ==
  \A a \in 1 .. Len(permutation) : \A d \in Preds(orders, permutation[a]) :
    \E b \in 1 .. a - 1 : permutation[b] = d

GradeInv == OnceInv /\ Descends /\ (Graded(orders) => Visited /\ Preceded)

\* The predecessors are those of the combined order.
LEMMA PredsMeans == \A e : CombinedPartialOrder(e) = Preds(orders, e)
BY DEF CombinedPartialOrder, Preds

\* There are neither frames nor appended events.
LEMMA GradeStart == SortInit => GradeInv
<1> SUFFICES ASSUME SortInit PROVE GradeInv
  OBVIOUS
<1>1. Len(permutation) = 0 /\ Len(stack) = 0
  BY DEF SortInit
<1> QED
  BY <1>1, OnceStart DEF GradeInv, Descends, Visited, Preceded

\* A first frame.
LEMMA GradeOuter ==
  ASSUME GradeInv, Outer
  PROVE  GradeInv'
<1>1. OnceInv /\ SortTypeOK /\ OnceInv'
  BY OnceOuter DEF GradeInv, OnceInv
<1>2. /\ i \in Events /\ permutation' = permutation /\ orders' = orders /\ Len(stack) = 0
      /\ \/ stack' = stack
         \/ Len(stack') = 1 /\ stack'[1] = [of |-> i, j |-> 0]
  BY <1>1, OuterShape
<1>3. Len(stack') \in {0, 1} /\ \A a \in 1 .. Len(stack') : stack'[a].j = 0
  BY <1>2
<1>4. Descends'
  <2>1. \A a, b \in 1 .. Len(stack') : ~ (a < b)
    BY <1>3
  <2> QED
    BY <2>1 DEF Descends
<1>5. Visited'
  <2>1. \A x : \A d \in Preds(orders', x) : ~ (d < 0)
    BY SortAssumption DEF Preds, Events
  <2> QED
    BY <1>3, <2>1 DEF Visited
<1>6. Preceded => Preceded'
  <2>1. permutation' = permutation /\ orders' = orders
    BY <1>2
  <2> QED
    BY <2>1 DEF Preceded
<1> QED
  BY <1>1, <1>2, <1>4, <1>5, <1>6 DEF GradeInv

\* A predecessor that has a frame would close a cycle.
LEMMA GradeVisit ==
  ASSUME GradeInv, Visit
  PROVE  GradeInv'
<1>1. /\ OnceInv /\ SortTypeOK /\ OnceInv' /\ Descends
      /\ Graded(orders) => Visited /\ Preceded
  BY OnceVisit DEF GradeInv, OnceInv
<1> DEFINE n == Len(stack)
           top == stack[n].of
<1>2. /\ n \in Nat /\ n > 0 /\ permutation' = permutation /\ orders' = orders
      /\ \A a \in 1 .. n : stack[a].of \in Events
      /\ Delayed = {stack[a].of : a \in 1 .. n}
  BY <1>1, VisitShape, Contents
<1>3. PICK j \in Events : Advanced(j)
  BY <1>1, VisitShape
<1>4. /\ j \in Preds(orders, top)
      /\ \A d \in Preds(orders, top) : d < j + 1 => d < stack[n].j \/ d = j
      /\ \A a \in 1 .. n - 1 : stack'[a] = stack[a]
      /\ stack'[n].of = top /\ stack'[n].j = j + 1
      /\ \/ j \in Appended \cup Delayed /\ Len(stack') = n
         \/ Len(stack') = n + 1 /\ stack'[n + 1] = [of |-> j, j |-> 0]
  BY <1>3, PredsMeans DEF Advanced
<1>5. \A a \in 1 .. n : stack'[a].of = stack[a].of
  <2>1. \A a \in 1 .. n : a \in 1 .. n - 1 \/ a = n
    BY <1>2
  <2> QED
    BY <1>4, <2>1
<1>6. Appended' = Appended
  BY <1>2 DEF Appended
<1>7. top \in Events /\ n \in 1 .. n
  BY <1>2
<1> HIDE DEF n, top
<1>8. ASSUME NEW h \in [Events -> Nat], Grades(orders, h)
      PROVE  /\ \A a, b \in 1 .. n : a < b => h[stack[b].of] < h[stack[a].of]
             /\ \A a \in 1 .. n : h[j] < h[stack[a].of]
  <2>1. \A a, b \in 1 .. n : a < b => h[stack[b].of] < h[stack[a].of]
    BY <1>1, <1>8 DEF Descends, n
  <2>2. h[j] < h[top]
    BY <1>4, <1>7, <1>8 DEF Grades
  <2>3. ASSUME NEW a \in 1 .. n PROVE h[j] < h[stack[a].of]
    <3>1. a = n \/ a < n
      BY <1>2
    <3>2. a < n => h[top] < h[stack[a].of]
      BY <1>7, <2>1 DEF top
    <3>3. h[j] \in Nat /\ h[top] \in Nat /\ h[stack[a].of] \in Nat
      BY <1>2, <1>3, <1>7
    <3> QED
      BY <2>2, <3>1, <3>2, <3>3 DEF top
  <2> QED
    BY <2>1, <2>3
<1>9. Descends'
  <2>1. SUFFICES ASSUME NEW h \in [Events -> Nat], Grades(orders, h),
                        NEW a \in 1 .. Len(stack'), NEW b \in 1 .. Len(stack'), a < b
        PROVE  h[stack'[b].of] < h[stack'[a].of]
    BY <1>2 DEF Descends
  <2>2. a \in 1 .. n
    BY <1>2, <1>4, <2>1
  <2>3. b \in 1 .. n \/ (b = n + 1 /\ stack'[b].of = j)
    BY <1>2, <1>4, <2>1
  <2> QED
    BY <1>5, <1>8, <2>1, <2>2, <2>3
<1>10. ASSUME Graded(orders) PROVE Visited'
  <2>1. PICK h \in [Events -> Nat] : Grades(orders, h)
    BY <1>10 DEF Graded
  <2>2. j \notin Delayed
    <3>1. \A a \in 1 .. n : h[j] < h[stack[a].of]
      BY <1>8, <2>1
    <3>2. h[j] \in Nat
      BY <1>3
    <3> QED
      BY <1>2, <3>1, <3>2 DEF n
  <2>3. \A d \in Preds(orders, top) : d < stack[n].j => d \in Appended
    <3>1. ~ (n < n)
      BY <1>2
    <3> QED
      BY <1>1, <1>7, <1>10, <3>1, Zenon DEF Visited, n, top
  <2>4. \A a \in 1 .. n - 1 : \A d \in Preds(orders, stack[a].of) : d < stack[a].j =>
          d \in Appended \/ stack[a + 1].of = d
    <3>1. \A a \in 1 .. n - 1 : a \in 1 .. n
      BY <1>2
    <3> QED
      BY <1>1, <1>10, <3>1, Zenon DEF Visited, n
  <2>5. SUFFICES ASSUME NEW a \in 1 .. Len(stack'), NEW d \in Preds(orders, stack'[a].of),
                        d < stack'[a].j
        PROVE  d \in Appended \/ (a < Len(stack') /\ stack'[a + 1].of = d)
    BY <1>2, <1>6 DEF Visited
  <2>6. CASE a \in 1 .. n - 1
    <3>1. a < Len(stack') /\ a + 1 \in 1 .. n
      BY <1>2, <1>4, <2>6
    <3>2. stack'[a] = stack[a] /\ stack'[a + 1].of = stack[a + 1].of
      BY <1>4, <1>5, <2>6, <3>1
    <3> QED
      BY <2>4, <2>5, <2>6, <3>1, <3>2
  <2>7. CASE a = n
    <3>1. d \in Preds(orders, top) /\ d < j + 1
      BY <1>4, <2>5, <2>7
    <3>2. d \in Appended \/ d = j
      BY <1>4, <2>3, <3>1
    <3>3. j \in Appended \/ (n < Len(stack') /\ stack'[n + 1].of = j)
      BY <1>2, <1>4, <2>2
    <3> QED
      BY <2>7, <3>2, <3>3
  <2>8. CASE a = n + 1 /\ stack'[n + 1] = [of |-> j, j |-> 0]
    <3>1. d \in Nat /\ d < 0
      BY <2>5, <2>8, SortAssumption DEF Preds, Events
    <3> QED
      BY <3>1
  <2> QED
    BY <1>2, <1>4, <2>6, <2>7, <2>8
<1>11. Preceded => Preceded'
  <2>1. permutation' = permutation /\ orders' = orders
    BY <1>2
  <2> QED
    BY <2>1 DEF Preceded
<1> QED
  BY <1>1, <1>2, <1>9, <1>10, <1>11 DEF GradeInv

\* The predecessors of the event are all appended.
LEMMA GradeReturn ==
  ASSUME GradeInv, Return
  PROVE  GradeInv' /\ (Graded(orders) => \A d \in Preds(orders, Top.of) : d \in Appended)
<1>1. /\ OnceInv /\ SortTypeOK /\ OnceInv' /\ Descends
      /\ Graded(orders) => Visited /\ Preceded
  BY OnceReturn DEF GradeInv, OnceInv
<1> DEFINE n == Len(stack)
           m == Len(permutation)
           e == stack[n].of
<1>2. /\ n > 0 /\ orders' = orders
      /\ \A d \in Preds(orders, e) : d < stack[n].j
      /\ Len(permutation') = m + 1
      /\ \A a \in 1 .. m : permutation'[a] = permutation[a]
      /\ permutation'[m + 1] = e
      /\ Appended' = Appended \cup {e}
      /\ Len(stack') = n - 1
      /\ \A a \in 1 .. n - 1 : stack'[a] = stack[a]
  BY <1>1, ReturnShape, PredsMeans
<1>3. n \in Nat /\ m \in Nat /\ Appended = {permutation[a] : a \in 1 .. m} /\ Top.of = e
  BY <1>1, Contents DEF Top
<1>4. ASSUME Graded(orders) PROVE \A d \in Preds(orders, e) : d \in Appended
  <2>1. n \in 1 .. n /\ ~ (n < n)
    BY <1>2, <1>3
  <2> QED
    BY <1>1, <1>2, <1>4, <2>1 DEF Visited
<1> HIDE DEF n, m, e
<1>5. Descends'
  <2>1. \A a \in 1 .. n - 1 : a \in 1 .. n
    BY <1>2, <1>3
  <2>2. \A h \in [Events -> Nat] : Grades(orders, h) =>
          \A a, b \in 1 .. n : a < b => h[stack[b].of] < h[stack[a].of]
    BY <1>1 DEF Descends, n
  <2>3. \A h \in [Events -> Nat] : Grades(orders, h) =>
          \A a, b \in 1 .. n - 1 : a < b => h[stack'[b].of] < h[stack'[a].of]
    BY <1>2, <2>1, <2>2
  <2> QED
    BY <1>2, <2>3 DEF Descends
<1>6. ASSUME Graded(orders) PROVE Visited'
  <2>1. SUFFICES ASSUME NEW a \in 1 .. n - 1, NEW d \in Preds(orders, stack[a].of), d < stack[a].j
        PROVE  d \in Appended \cup {e} \/ (a < n - 1 /\ stack'[a + 1].of = d)
    BY <1>2 DEF Visited
  <2>2. a \in 1 .. n
    BY <1>2, <1>3
  <2>3. d \in Appended \/ stack[a + 1].of = d
    BY <1>1, <1>6, <2>1, <2>2, Zenon DEF Visited, n
  <2>4. a + 1 = n \/ (a < n - 1 /\ a + 1 \in 1 .. n - 1)
    BY <1>2, <1>3
  <2> QED
    BY <1>2, <2>3, <2>4 DEF e
<1>7. ASSUME Graded(orders) PROVE Preceded'
  <2>1. SUFFICES ASSUME NEW a \in 1 .. m + 1, NEW d \in Preds(orders, permutation'[a])
        PROVE  \E b \in 1 .. a - 1 : permutation'[b] = d
    BY <1>2 DEF Preceded
  <2>2. CASE a \in 1 .. m
    <3>1. PICK b \in 1 .. a - 1 : permutation[b] = d
      BY <1>1, <1>2, <1>7, <2>1, <2>2 DEF Preceded, m
    <3>2. b \in 1 .. m
      BY <1>3, <2>2
    <3> QED
      BY <1>2, <3>1, <3>2
  <2>3. CASE a = m + 1
    <3>1. d \in Appended
      BY <1>2, <1>4, <1>7, <2>1, <2>3
    <3>2. PICK b \in 1 .. m : permutation[b] = d
      BY <1>3, <3>1
    <3>3. b \in 1 .. a - 1
      BY <1>3, <2>3
    <3> QED
      BY <1>2, <3>2, <3>3
  <2> QED
    BY <1>3, <2>2, <2>3
<1> QED
  BY <1>1, <1>2, <1>3, <1>4, <1>5, <1>6, <1>7 DEF GradeInv

\* One step per action.
LEMMA GradeStep == GradeInv /\ [SortNext]_sort_vars => GradeInv'
<1> SUFFICES ASSUME GradeInv, [SortNext]_sort_vars PROVE GradeInv'
  OBVIOUS
<1>1. CASE SortNext
  BY <1>1, GradeOuter, GradeVisit, GradeReturn DEF SortNext
<1>2. CASE UNCHANGED sort_vars
  <2>1. OnceInv'
    BY <1>2, OnceStep DEF GradeInv
  <2>2. UNCHANGED <<orders, permutation, stack, Appended>>
    BY <1>2 DEF sort_vars, Appended
  <2> QED
    BY <2>1, <2>2 DEF GradeInv, Descends, Visited, Preceded
<1> QED
  BY <1>1, <1>2

\* A permutation that respects the orders grades the events by their place in it.
LEMMA AcyclicGraded ==
  ASSUME SortTypeOK, Acyclic
  PROVE  Graded(orders)
<1>1. PICK p \in EventOrders : Respects(p)
  BY DEF Acyclic
<1> DEFINE h == [e \in Events |-> IF \E a \in 1 .. N : p[a] = e
                                  THEN CHOOSE a \in 1 .. N : p[a] = e ELSE 0]
<1>2. h \in [Events -> Nat]
  <2>1. ASSUME NEW e \in Events PROVE h[e] \in Nat
    <3>1. CASE \E a \in 1 .. N : p[a] = e
      <4>1. (CHOOSE a \in 1 .. N : p[a] = e) \in 1 .. N
        BY <3>1
      <4> QED
        BY <3>1, <4>1
    <3>2. CASE ~ \E a \in 1 .. N : p[a] = e
      BY <3>2
    <3> QED
      BY <3>1, <3>2
  <2> QED
    BY <2>1
<1>3. p \in [1 .. N -> Events] /\ \A a, b \in 1 .. N : p[a] = p[b] => a = b
  BY DEF EventOrders
<1>4. ASSUME NEW a \in 1 .. N PROVE h[p[a]] = a
  <2>1. p[a] \in Events /\ \A b \in 1 .. N : p[b] = p[a] => b = a
    BY <1>3
  <2>2. (CHOOSE b \in 1 .. N : p[b] = p[a]) = a
    BY <2>1
  <2> QED
    BY <2>1, <2>2
<1> HIDE DEF h
<1>5. ASSUME NEW e \in Events, NEW d \in Preds(orders, e) PROVE h[d] < h[e]
  <2>1. PICK o \in orders : \E k \in 2 .. Len(o) : o[k] = e /\ o[k - 1] = d
    BY <1>5 DEF Preds
  <2>2. \E a, b \in DOMAIN p : a < b /\ p[a] = d /\ p[b] = e
    BY <1>1, <2>1, Zenon DEF Respects
  <2>3. DOMAIN p = 1 .. N
    BY <1>3
  <2> QED
    BY <1>4, <2>2, <2>3
<1> QED
  BY <1>2, <1>5 DEF Graded, Grades

\* What is preceded by its predecessors respects the orders.
LEMMA GradedRespects ==
  ASSUME GradeInv, Done, Graded(orders)
  PROVE  Respects(permutation)
<1>1. OnceInv /\ SortTypeOK /\ Preceded
  BY DEF GradeInv, OnceInv
<1>2. /\ permutation \in EventOrders /\ Len(permutation) = N
      /\ \A e \in Events : \E a \in 1 .. N : permutation[a] = e
  BY <1>1, AllPlaced
<1>3. DOMAIN permutation = 1 .. N
  BY <1>2 DEF EventOrders
<1>4. SUFFICES ASSUME NEW o \in orders, NEW k \in 2 .. Len(o)
      PROVE  \E a, b \in DOMAIN permutation : a < b /\ permutation[a] = o[k - 1] /\ permutation[b] = o[k]
  BY DEF Respects
<1>5. o \in Seq(Events)
  BY <1>1, SortAssumption DEF SortTypeOK, Events
<1>6. o[k] \in Events /\ o[k - 1] \in Events
  BY <1>5
<1>7. o[k - 1] \in Preds(orders, o[k])
  BY <1>6 DEF Preds
<1>8. PICK b \in 1 .. N : permutation[b] = o[k]
  BY <1>2, <1>6
<1>9. PICK a \in 1 .. b - 1 : permutation[a] = o[k - 1]
  BY <1>1, <1>2, <1>7, <1>8 DEF Preceded
<1>10. a \in 1 .. N /\ a < b
  BY SortAssumption
<1> QED
  BY <1>3, <1>8, <1>9, <1>10

--------------------------------------------------------------------------------
\* A single order.

\* The events of a call, as PulledForward is given them.
Listed == [k \in 1 .. N |-> k - 1]

\* Where a single order puts the events: those that are pulled by former turns of the
\* loop are appended, the frames are all of the one of this turn.
Turns(o) ==
  /\ stack = <<>> =>
       \A x \in Events : x \in Appended <=> Puller(Listed, o, x) <= i
  /\ stack # <<>> =>
       /\ i > 0
       /\ \A x \in Events : Puller(Listed, o, x) < i => x \in Appended
       /\ \A x \in Appended : Puller(Listed, o, x) <= i
       /\ \A a \in 1 .. Len(stack) : stack[a].of = i - 1 \/ InOrder(o, stack[a].of, i - 1)
       /\ stack[1].of = i - 1

\* With an event all that precede it in the order are appended.
Closed(o) == \A y \in Appended : \A x \in Events : InOrder(o, x, y) => x \in Appended

InPlace(o) ==
  \A a, b \in 1 .. Len(permutation) :
    a < b => Before(Listed, o, permutation[a], permutation[b])

Single(o) == orders = {o} /\ IsInjective(o)

PlaceInv == GradeInv /\ \A o : Single(o) => Turns(o) /\ Closed(o) /\ InPlace(o)

\* A single order is one without cycles.
LEMMA SingleFacts ==
  ASSUME SortTypeOK, NEW o, Single(o)
  PROVE  /\ o \in Seq(Events) /\ DOMAIN o = 1 .. Len(o) /\ Len(o) \in Nat
         /\ \A a \in 1 .. Len(o) : o[a] \in Events
         /\ \A a, b \in 1 .. Len(o) : o[a] = o[b] => a = b
         /\ \A e : Preds(orders, e) = {d \in Events : \E k \in 2 .. Len(o) : o[k] = e /\ o[k - 1] = d}
         /\ \A x, y : InOrder(o, x, y) <=>
              \E a, b \in 1 .. Len(o) : a <= b /\ o[a] = x /\ o[b] = y
<1>1. o \in UNION Orders
  BY DEF SortTypeOK, Single
<1>2. o \in Seq(Events)
  BY <1>1, SortAssumption DEF Events
<1>3. DOMAIN o = 1 .. Len(o) /\ Len(o) \in Nat /\ \A a \in 1 .. Len(o) : o[a] \in Events
  BY <1>2
<1>4. \A a, b \in 1 .. Len(o) : o[a] = o[b] => a = b
  BY <1>3 DEF Single, IsInjective
<1>5. \A e : Preds(orders, e) = {d \in Events : \E k \in 2 .. Len(o) : o[k] = e /\ o[k - 1] = d}
  BY DEF Preds, Single
<1>6. \A x, y : InOrder(o, x, y) <=>
        \E a, b \in 1 .. Len(o) : a <= b /\ o[a] = x /\ o[b] = y
  BY <1>3, Zenon DEF InOrder
<1> QED
  BY <1>2, <1>3, <1>4, <1>5, <1>6

\* It grades the events by their place in it.
LEMMA SingleGraded ==
  ASSUME SortTypeOK, NEW o, Single(o)
  PROVE  Graded(orders)
<1> DEFINE h == [e \in Events |-> IF \E a \in 1 .. Len(o) : o[a] = e
                                  THEN CHOOSE a \in 1 .. Len(o) : o[a] = e ELSE 0]
<1>1. h \in [Events -> Nat]
  <2>1. ASSUME NEW e \in Events PROVE h[e] \in Nat
    <3>1. CASE \E a \in 1 .. Len(o) : o[a] = e
      <4>1. (CHOOSE a \in 1 .. Len(o) : o[a] = e) \in 1 .. Len(o)
        BY <3>1
      <4> QED
        BY <3>1, <4>1
    <3>2. CASE ~ \E a \in 1 .. Len(o) : o[a] = e
      BY <3>2
    <3> QED
      BY <3>1, <3>2
  <2> QED
    BY <2>1
<1>2. \A a \in 1 .. Len(o) : h[o[a]] = a
  BY SingleFacts
<1> HIDE DEF h
<1>3. ASSUME NEW e \in Events, NEW d \in Preds(orders, e) PROVE h[d] < h[e]
  <2>1. PICK k \in 2 .. Len(o) : o[k] = e /\ o[k - 1] = d
    BY <1>3, SingleFacts
  <2>2. k \in 1 .. Len(o) /\ k - 1 \in 1 .. Len(o) /\ k - 1 < k
    BY SingleFacts
  <2> QED
    BY <1>2, <2>1, <2>2
<1> QED
  BY <1>1, <1>3 DEF Graded, Grades

\* The order of a single order is transitive, and an event's direct predecessor is behind
\* all the others.
LEMMA OrderFacts ==
  ASSUME SortTypeOK, NEW o, Single(o)
  PROVE  /\ \A x, y, z : InOrder(o, x, y) /\ InOrder(o, y, z) => InOrder(o, x, z)
         /\ \A x, y : InOrder(o, x, y) /\ InOrder(o, y, x) => x = y
         /\ \A x, y : InOrder(o, x, y) => x \in Events /\ y \in Events
         /\ \A x, y, z : InOrder(o, x, z) /\ InOrder(o, y, z) => InOrder(o, x, y) \/ InOrder(o, y, x)
         /\ \A e : \A d \in Preds(orders, e) : InOrder(o, d, e)
         /\ \A x, e : InOrder(o, x, e) /\ x # e =>
              \E d \in Preds(orders, e) : InOrder(o, x, d)
<1> USE SingleFacts
<1>1. ASSUME NEW x, NEW y, NEW z, InOrder(o, x, y), InOrder(o, y, z) PROVE InOrder(o, x, z)
  <2>1. PICK a, b \in 1 .. Len(o) : a <= b /\ o[a] = x /\ o[b] = y
    BY <1>1
  <2>2. PICK c, e \in 1 .. Len(o) : c <= e /\ o[c] = y /\ o[e] = z
    BY <1>1
  <2>3. b = c /\ a <= e
    BY <2>1, <2>2
  <2> QED
    BY <2>1, <2>2, <2>3
<1>2. ASSUME NEW x, NEW y, InOrder(o, x, y), InOrder(o, y, x) PROVE x = y
  <2>1. PICK a, b \in 1 .. Len(o) : a <= b /\ o[a] = x /\ o[b] = y
    BY <1>2
  <2>2. PICK c, e \in 1 .. Len(o) : c <= e /\ o[c] = y /\ o[e] = x
    BY <1>2
  <2> QED
    BY <2>1, <2>2
<1>3. ASSUME NEW x, NEW y, InOrder(o, x, y) PROVE x \in Events /\ y \in Events
  BY <1>3
<1>4. ASSUME NEW x, NEW y, NEW z, InOrder(o, x, z), InOrder(o, y, z)
      PROVE  InOrder(o, x, y) \/ InOrder(o, y, x)
  <2>1. PICK a \in 1 .. Len(o) : o[a] = x
    BY <1>4
  <2>2. PICK b \in 1 .. Len(o) : o[b] = y
    BY <1>4
  <2>3. a <= b \/ b <= a
    BY SingleFacts
  <2> QED
    BY <2>1, <2>2, <2>3
<1>5. ASSUME NEW e, NEW d \in Preds(orders, e) PROVE InOrder(o, d, e)
  <2>1. PICK k \in 2 .. Len(o) : o[k] = e /\ o[k - 1] = d
    BY <1>5
  <2>2. k \in 1 .. Len(o) /\ k - 1 \in 1 .. Len(o) /\ k - 1 <= k
    BY SingleFacts
  <2> QED
    BY <2>1, <2>2
<1>6. ASSUME NEW x, NEW e, InOrder(o, x, e), x # e
      PROVE  \E d \in Preds(orders, e) : InOrder(o, x, d)
  <2>1. PICK a, b \in 1 .. Len(o) : a <= b /\ o[a] = x /\ o[b] = e
    BY <1>6
  <2>2. b \in 2 .. Len(o) /\ b - 1 \in 1 .. Len(o) /\ a <= b - 1
    BY <1>6, <2>1, SingleFacts
  <2>3. o[b - 1] \in Preds(orders, e)
    BY <2>1, <2>2
  <2>4. InOrder(o, x, o[b - 1])
    BY <2>1, <2>2
  <2> QED
    BY <2>3, <2>4
<1> QED
  BY <1>1, <1>2, <1>3, <1>4, <1>5, <1>6

\* The puller of an event is the first that is the event or comes after it.
LEMMA PullerFacts ==
  ASSUME NEW o, NEW x \in Events
  PROVE  /\ Puller(Listed, o, x) \in 1 .. N
         /\ x = Puller(Listed, o, x) - 1 \/ InOrder(o, x, Puller(Listed, o, x) - 1)
         /\ \A y \in Events : y = x \/ InOrder(o, x, y) => Puller(Listed, o, x) <= y + 1
<1> DEFINE P == Pulls(Listed, o, x)
<1>1. DOMAIN Listed = 1 .. N /\ \A k \in 1 .. N : Listed[k] = k - 1
  BY DEF Listed
<1>2. P = {k \in 1 .. N : k - 1 = x \/ InOrder(o, x, k - 1)}
  BY <1>1 DEF Pulls
<1>3. x + 1 \in P /\ P \subseteq Nat
  BY <1>2, SortAssumption DEF Events
<1> HIDE DEF P
<1>4. \E k \in P : \A m \in P : k <= m
  BY <1>3, LeastNatural
<1>5. Puller(Listed, o, x) \in P /\ \A m \in P : Puller(Listed, o, x) <= m
  BY <1>4 DEF Puller, P
<1>6. \A y \in Events : y + 1 \in 1 .. N /\ (y + 1) - 1 = y
  BY SortAssumption DEF Events
<1>7. \A y \in Events : y = x \/ InOrder(o, x, y) => y + 1 \in P
  BY <1>2, <1>6
<1> QED
  BY <1>2, <1>5, <1>7

\* There are no events before the first turn.
LEMMA PlaceStart == SortInit => PlaceInv
<1> SUFFICES ASSUME SortInit PROVE PlaceInv
  OBVIOUS
<1>1. GradeInv /\ i = 0 /\ stack = <<>> /\ Len(permutation) = 0 /\ Appended = {}
  BY GradeStart DEF SortInit, Appended, ToSet
<1>2. ASSUME NEW o, Single(o) PROVE Turns(o) /\ Closed(o) /\ InPlace(o)
  <2>1. \A x \in Events : ~ (Puller(Listed, o, x) <= 0)
    BY PullerFacts, SortAssumption
  <2> QED
    BY <1>1, <2>1 DEF Turns, Closed, InPlace
<1> QED
  BY <1>1, <1>2 DEF PlaceInv

\* The next turn: an event that is appended has not pulled any that are not.
LEMMA PlaceOuter ==
  ASSUME PlaceInv, Outer
  PROVE  PlaceInv'
<1>1. GradeInv /\ GradeInv' /\ SortTypeOK
  BY GradeOuter DEF PlaceInv, GradeInv, OnceInv
<1>2. /\ stack = <<>> /\ i \in Events /\ i' = i + 1
      /\ permutation' = permutation /\ orders' = orders
      /\ stack' \in Seq(Frames)
      /\ \/ i \in Appended /\ stack' = stack
         \/ i \notin Appended /\ Len(stack') = 1 /\ stack'[1] = [of |-> i, j |-> 0]
  BY <1>1, OuterShape
<1>3. Appended' = Appended /\ Appended \subseteq Events
  BY <1>1, <1>2, Contents DEF Appended
<1>4. SUFFICES ASSUME NEW o, Single(o)' PROVE (Turns(o) /\ Closed(o) /\ InPlace(o))'
  BY <1>1 DEF PlaceInv
<1>5. Single(o) /\ Turns(o) /\ Closed(o) /\ InPlace(o)
  BY <1>2, <1>4 DEF PlaceInv, Single
<1>6. Closed(o)' /\ InPlace(o)'
  BY <1>2, <1>3, <1>5 DEF Closed, InPlace
<1>7. \A x \in Events : x \in Appended <=> Puller(Listed, o, x) <= i
  BY <1>2, <1>5 DEF Turns
<1>8. \A x \in Events : Puller(Listed, o, x) \in Nat /\ i \in Nat
  BY <1>2, PullerFacts, SortAssumption DEF Events
<1>9. CASE i \in Appended /\ stack' = stack
  <2>1. ASSUME NEW x \in Events, Puller(Listed, o, x) = i + 1 PROVE x \in Appended
    <3>1. x = i \/ InOrder(o, x, i)
      <4>1. x = Puller(Listed, o, x) - 1 \/ InOrder(o, x, Puller(Listed, o, x) - 1)
        BY PullerFacts
      <4>2. Puller(Listed, o, x) - 1 = i
        BY <1>8, <2>1
      <4> QED
        BY <4>1, <4>2
    <3> QED
      BY <1>5, <1>9, <3>1 DEF Closed
  <2>2. ASSUME NEW x \in Events PROVE x \in Appended <=> Puller(Listed, o, x) <= i + 1
    BY <1>7, <1>8, <2>1
  <2>3. stack' = <<>>
    BY <1>2, <1>9
  <2>4. \A x \in Events : x \in Appended' <=> Puller(Listed, o, x) <= i'
    BY <1>2, <1>3, <2>2
  <2> QED
    BY <1>6, <2>3, <2>4 DEF Turns
<1>10. CASE i \notin Appended /\ Len(stack') = 1 /\ stack'[1] = [of |-> i, j |-> 0]
  <2>1. stack' # <<>>
    BY <1>2, <1>10
  <2>2. i' > 0 /\ i' - 1 = i
    BY <1>2, <1>8
  <2>3. \A x \in Events : Puller(Listed, o, x) < i' => x \in Appended'
    BY <1>2, <1>3, <1>7, <1>8
  <2>4. \A x \in Appended' : Puller(Listed, o, x) <= i'
    BY <1>2, <1>3, <1>7, <1>8
  <2>5. \A a \in 1 .. Len(stack') : stack'[a].of = i' - 1
    BY <1>10, <2>2
  <2> QED
    BY <1>6, <1>10, <2>1, <2>2, <2>3, <2>4, <2>5 DEF Turns
<1> QED
  BY <1>2, <1>9, <1>10

\* The predecessor of a frame's event is pulled by the same turn.
LEMMA PlaceVisit ==
  ASSUME PlaceInv, Visit
  PROVE  PlaceInv'
<1>1. GradeInv /\ GradeInv' /\ SortTypeOK
  BY GradeVisit DEF PlaceInv, GradeInv, OnceInv
<1> DEFINE n == Len(stack)
<1>2. /\ n \in Nat /\ n > 0 /\ stack # <<>>
      /\ permutation' = permutation /\ i' = i /\ orders' = orders
  BY <1>1, VisitShape, Contents
<1>3. PICK j \in Events : Advanced(j)
  BY <1>1, VisitShape
<1>4. /\ j \in Preds(orders, stack[n].of)
      /\ \A a \in 1 .. n - 1 : stack'[a] = stack[a]
      /\ stack'[n].of = stack[n].of
      /\ \/ Len(stack') = n
         \/ Len(stack') = n + 1 /\ stack'[n + 1] = [of |-> j, j |-> 0]
      /\ stack' \in Seq(Frames)
  BY <1>3, PredsMeans DEF Advanced
<1>5. Appended' = Appended
  BY <1>2 DEF Appended
<1>6. SUFFICES ASSUME NEW o, Single(o)' PROVE (Turns(o) /\ Closed(o) /\ InPlace(o))'
  BY <1>1 DEF PlaceInv
<1>7. Single(o) /\ Turns(o) /\ Closed(o) /\ InPlace(o)
  BY <1>2, <1>6 DEF PlaceInv, Single
<1>8. Closed(o)' /\ InPlace(o)'
  BY <1>2, <1>5, <1>7 DEF Closed, InPlace
<1>9. \A a \in 1 .. n : stack'[a].of = stack[a].of
  <2>1. \A a \in 1 .. n : a \in 1 .. n - 1 \/ a = n
    BY <1>2
  <2> QED
    BY <1>4, <2>1
<1>10. stack' # <<>> /\ 1 \in 1 .. n /\ n \in 1 .. n
  BY <1>2, <1>4
<1> HIDE DEF n
<1>11. /\ i > 0
       /\ \A x \in Events : Puller(Listed, o, x) < i => x \in Appended
       /\ \A x \in Appended : Puller(Listed, o, x) <= i
       /\ \A a \in 1 .. n : stack[a].of = i - 1 \/ InOrder(o, stack[a].of, i - 1)
       /\ stack[1].of = i - 1
  BY <1>2, <1>7 DEF Turns, n
<1>12. InOrder(o, j, i - 1)
  <2>1. InOrder(o, j, stack[n].of)
    BY <1>1, <1>4, <1>7, OrderFacts
  <2> QED
    BY <1>1, <1>7, <1>10, <1>11, <2>1, OrderFacts
<1>13. \A a \in 1 .. Len(stack') : stack'[a].of = i - 1 \/ InOrder(o, stack'[a].of, i - 1)
  <2>1. \A a \in 1 .. Len(stack') : a \in 1 .. n \/ (a = n + 1 /\ stack'[a].of = j)
    BY <1>2, <1>4
  <2> QED
    BY <1>9, <1>11, <1>12, <2>1, Zenon
<1> QED
  BY <1>2, <1>5, <1>8, <1>9, <1>10, <1>11, <1>13 DEF Turns

\* What is appended is pulled by this turn, and comes after all that were before.
LEMMA PlaceReturn ==
  ASSUME PlaceInv, Return
  PROVE  PlaceInv'
<1>1. GradeInv /\ GradeInv' /\ SortTypeOK /\ Distinct
      /\ (Graded(orders) => \A d \in Preds(orders, Top.of) : d \in Appended)
  BY GradeReturn DEF PlaceInv, GradeInv, OnceInv
<1> DEFINE n == Len(stack)
           m == Len(permutation)
           e == stack[n].of
<1>2. /\ n > 0 /\ i' = i /\ orders' = orders
      /\ Len(permutation') = m + 1
      /\ \A a \in 1 .. m : permutation'[a] = permutation[a]
      /\ permutation'[m + 1] = e
      /\ Appended' = Appended \cup {e}
      /\ stack' \in Seq(Frames) /\ Len(stack') = n - 1
      /\ \A a \in 1 .. n - 1 : stack'[a] = stack[a]
  BY <1>1, ReturnShape
<1>3. /\ n \in Nat /\ m \in Nat /\ Appended = {permutation[a] : a \in 1 .. m} /\ Top.of = e
      /\ Appended \subseteq Events /\ stack # <<>> /\ n \in 1 .. n /\ 1 \in 1 .. n
      /\ \A a \in 1 .. n : stack[a].of \in Events
  BY <1>1, <1>2, Contents DEF Top, Return
<1>4. e \in Events /\ e \notin Appended
  BY <1>1, <1>3 DEF Distinct
<1>5. SUFFICES ASSUME NEW o, Single(o)' PROVE (Turns(o) /\ Closed(o) /\ InPlace(o))'
  BY <1>1 DEF PlaceInv
<1>6. Single(o) /\ Turns(o) /\ Closed(o) /\ InPlace(o)
  BY <1>2, <1>5 DEF PlaceInv, Single
<1>7. \A d \in Preds(orders, e) : d \in Appended
  BY <1>1, <1>3, <1>6, SingleGraded
<1>8. /\ i > 0
      /\ \A x \in Events : Puller(Listed, o, x) < i => x \in Appended
      /\ \A x \in Appended : Puller(Listed, o, x) <= i
      /\ \A a \in 1 .. n : stack[a].of = i - 1 \/ InOrder(o, stack[a].of, i - 1)
      /\ stack[1].of = i - 1
  BY <1>3, <1>6 DEF Turns
<1> HIDE DEF n, m, e
<1>9. i \in Nat /\ i - 1 \in Events /\ (i - 1) + 1 = i
  <2>1. i \in 0 .. N
    BY <1>1 DEF SortTypeOK
  <2> QED
    BY <1>8, <2>1, SortAssumption DEF Events
<1>10. e = i - 1 \/ InOrder(o, e, i - 1)
  BY <1>3, <1>8 DEF e
<1>11. \A x \in Events : Puller(Listed, o, x) \in Nat
  BY PullerFacts, SortAssumption
<1>12. Puller(Listed, o, e) = i
  <2>1. Puller(Listed, o, e) <= (i - 1) + 1
    BY <1>4, <1>9, <1>10, PullerFacts
  <2>2. ~ (Puller(Listed, o, e) < i)
    BY <1>4, <1>8
  <2> QED
    BY <1>4, <1>9, <1>11, <2>1, <2>2
<1>13. Closed(o)'
  <2>1. ASSUME NEW x \in Events, InOrder(o, x, e) PROVE x \in Appended \cup {e}
    <3>1. CASE x # e
      <4>1. PICK d \in Preds(orders, e) : InOrder(o, x, d)
        BY <1>1, <1>6, <2>1, <3>1, OrderFacts
      <4> QED
        BY <1>6, <1>7, <4>1 DEF Closed
    <3> QED
      BY <3>1
  <2> QED
    BY <1>2, <1>6, <2>1 DEF Closed
<1>14. ASSUME NEW y \in Appended PROVE Before(Listed, o, y, e)
  <2>1. CASE Puller(Listed, o, y) < i
    BY <1>12, <2>1 DEF Before
  <2>2. CASE Puller(Listed, o, y) = i
    <3>1. y \in Events /\ y # e /\ ~ InOrder(o, e, y)
      BY <1>3, <1>4, <1>6 DEF Closed
    <3>2. y = i - 1 \/ InOrder(o, y, i - 1)
      BY <2>2, <3>1, PullerFacts
    <3>3. InOrder(o, y, e)
      BY <1>1, <1>6, <1>10, <3>1, <3>2, OrderFacts
    <3> QED
      BY <1>12, <2>2, <3>1, <3>3 DEF Before
  <2> QED
    BY <1>3, <1>8, <1>9, <1>11, <2>1, <2>2
<1>15. InPlace(o)'
  <2>1. SUFFICES ASSUME NEW a \in 1 .. m + 1, NEW b \in 1 .. m + 1, a < b
        PROVE  Before(Listed, o, permutation'[a], permutation'[b])
    BY <1>2 DEF InPlace
  <2>2. a \in 1 .. m
    BY <1>3, <2>1
  <2>3. CASE b \in 1 .. m
    BY <1>2, <1>6, <2>1, <2>2, <2>3 DEF InPlace, m
  <2>4. CASE b = m + 1
    BY <1>2, <1>3, <1>14, <2>2, <2>4
  <2> QED
    BY <1>3, <2>3, <2>4
<1>16. \A x \in Appended' : x \in Events /\ Puller(Listed, o, x) <= i
  BY <1>2, <1>3, <1>4, <1>8, <1>9, <1>12
<1>17. CASE n = 1
  <2>1. stack' = <<>> /\ e = i - 1
    BY <1>2, <1>8, <1>17 DEF e
  <2>2. ASSUME NEW x \in Events, Puller(Listed, o, x) <= i PROVE x \in Appended'
    <3>1. CASE Puller(Listed, o, x) < i
      BY <1>2, <1>8, <3>1
    <3>2. CASE Puller(Listed, o, x) = i
      <4>1. x = e \/ InOrder(o, x, e)
        BY <2>1, <3>2, PullerFacts
      <4> QED
        BY <1>2, <1>13, <4>1 DEF Closed
    <3> QED
      BY <1>9, <1>11, <2>2, <3>1, <3>2
  <2> QED
    BY <1>2, <1>13, <1>15, <1>16, <2>1, <2>2 DEF Turns
<1>18. CASE n # 1
  <2>1. /\ stack' # <<>> /\ stack'[1] = stack[1]
        /\ \A a \in 1 .. n - 1 : a \in 1 .. n
    BY <1>2, <1>3, <1>18
  <2>2. \A a \in 1 .. n - 1 : stack'[a].of = i - 1 \/ InOrder(o, stack'[a].of, i - 1)
    BY <1>2, <1>8, <2>1
  <2>3. \A x \in Events : Puller(Listed, o, x) < i => x \in Appended'
    BY <1>2, <1>8
  <2> QED
    BY <1>2, <1>8, <1>13, <1>15, <1>16, <2>1, <2>2, <2>3 DEF Turns
<1> QED
  BY <1>17, <1>18

\* One step per action.
LEMMA PlaceStep == PlaceInv /\ [SortNext]_sort_vars => PlaceInv'
<1> SUFFICES ASSUME PlaceInv, [SortNext]_sort_vars PROVE PlaceInv'
  OBVIOUS
<1>1. CASE SortNext
  BY <1>1, PlaceOuter, PlaceVisit, PlaceReturn DEF SortNext
<1>2. CASE UNCHANGED sort_vars
  <2>1. GradeInv'
    BY <1>2, GradeStep DEF PlaceInv
  <2>2. UNCHANGED <<orders, permutation, stack, i, Appended>>
    BY <1>2 DEF sort_vars, Appended
  <2> QED
    BY <2>1, <2>2 DEF PlaceInv, Single, Turns, Closed, InPlace
<1> QED
  BY <1>1, <1>2

\* No event comes before one that comes before it.
LEMMA BeforeOneWay ==
  ASSUME SortTypeOK, NEW o, Single(o), NEW x \in Events, NEW y \in Events, Before(Listed, o, x, y)
  PROVE  ~ Before(Listed, o, y, x) /\ x # y
<1>1. Puller(Listed, o, x) \in Nat /\ Puller(Listed, o, y) \in Nat
  BY PullerFacts, SortAssumption
<1>2. CASE Puller(Listed, o, x) < Puller(Listed, o, y)
  BY <1>1, <1>2 DEF Before
<1>3. CASE Puller(Listed, o, x) = Puller(Listed, o, y) /\ x # y /\ InOrder(o, x, y)
  <2>1. ~ InOrder(o, y, x)
    BY <1>3, OrderFacts
  <2>2. ~ (Puller(Listed, o, y) < Puller(Listed, o, x))
    BY <1>1, <1>3
  <2> QED
    BY <1>3, <2>1, <2>2 DEF Before
<1> QED
  BY <1>2, <1>3 DEF Before

\* Sorted by Before, every event has as many in front of it as come before it.
LEMMA InPlaceMeans ==
  ASSUME PlaceInv, Done, NEW o, Single(o)
  PROVE  permutation = PulledForward(Listed, o)
<1>1. OnceInv /\ SortTypeOK /\ InPlace(o)
  BY DEF PlaceInv, GradeInv, OnceInv
<1>2. /\ permutation \in [1 .. N -> Events] /\ Len(permutation) = N
      /\ \A a, b \in 1 .. N : permutation[a] = permutation[b] => a = b
      /\ \A e \in Events : \E a \in 1 .. N : permutation[a] = e
  BY <1>1, AllPlaced DEF EventOrders
<1>3. DOMAIN Listed = 1 .. N /\ ToSet(Listed) = Events
  <2>1. \A e \in Events : e + 1 \in 1 .. N /\ Listed[e + 1] = e
    BY SortAssumption DEF Events, Listed
  <2>2. \A k \in 1 .. N : Listed[k] \in Events
    BY SortAssumption DEF Events, Listed
  <2>3. DOMAIN Listed = 1 .. N
    BY DEF Listed
  <2> QED
    BY <2>1, <2>2, <2>3 DEF ToSet
<1> DEFINE Ahead(x) == {y \in Events : Before(Listed, o, y, x)}
<1>4. ASSUME NEW a \in 1 .. N
      PROVE  Cardinality(Ahead(permutation[a])) = a - 1
  <2> DEFINE g == [b \in 1 .. a - 1 |-> permutation[b]]
             S == Ahead(permutation[a])
  <2>1. a - 1 \in Nat /\ \A b \in 1 .. a - 1 : b \in 1 .. N /\ b < a
    BY SortAssumption
  <2>2. \A b \in 1 .. a - 1 : permutation[b] \in S
    BY <1>1, <1>2, <2>1 DEF InPlace
  <2>3. ASSUME NEW y \in S PROVE \E b \in 1 .. a - 1 : permutation[b] = y
    <3>1. PICK b \in 1 .. N : permutation[b] = y
      BY <1>2
    <3>2. Before(Listed, o, permutation[b], permutation[a])
      BY <3>1
    <3>3. ~ Before(Listed, o, permutation[a], permutation[b]) /\ b # a
      BY <1>1, <1>2, <3>2, BeforeOneWay
    <3>4. ~ (a < b)
      BY <1>1, <1>2, <3>3 DEF InPlace
    <3>5. b \in 1 .. a - 1
      BY <3>3, <3>4
    <3> QED
      BY <3>1, <3>5
  <2> HIDE DEF S
  <2>4. g \in Bijection(1 .. a - 1, S)
    BY <1>2, <2>1, <2>2, <2>3 DEF Bijection, Injection, Surjection, IsInjective
  <2>5. Cardinality(S) = a - 1
    BY <2>1, <2>4, FS_CountingElements DEF ExistsBijection
  <2> QED
    BY <2>5 DEF S
<1> DEFINE At(k) == CHOOSE x \in Events : Cardinality(Ahead(x)) = k - 1
<1>5. ASSUME NEW k \in 1 .. N PROVE At(k) = permutation[k]
  <2>1. permutation[k] \in Events /\ Cardinality(Ahead(permutation[k])) = k - 1
    BY <1>2, <1>4
  <2>2. ASSUME NEW x \in Events, Cardinality(Ahead(x)) = k - 1 PROVE x = permutation[k]
    <3>1. PICK a \in 1 .. N : permutation[a] = x
      BY <1>2
    <3>2. a - 1 = k - 1
      BY <1>4, <2>2, <3>1
    <3>3. a = k
      BY <3>2
    <3> QED
      BY <3>1, <3>3
  <2> HIDE DEF Ahead
  <2> QED
    BY <2>1, <2>2
<1>6. PulledForward(Listed, o) = [k \in 1 .. N |-> At(k)]
  <2> DEFINE Sort(D, T) == [k \in D |->
               CHOOSE x \in T : Cardinality({y \in T : Before(Listed, o, y, x)}) = k - 1]
  <2>1. PulledForward(Listed, o) = Sort(DOMAIN Listed, ToSet(Listed))
    BY DEF PulledForward
  <2>2. Sort(1 .. N, Events) = [k \in 1 .. N |-> At(k)]
    OBVIOUS
  <2> HIDE DEF Sort, At
  <2> QED
    BY <1>3, <2>1, <2>2
<1> HIDE DEF At
<1> QED
  BY <1>2, <1>5, <1>6

\* OrdersMet, for any number of events and any partial orders: when they do not
\* contradict each other sort_registration_events meets all of them, and a single one
\* puts the events where PulledForward has them.
THEOREM SortOrdersMet == SortSpec => []OrdersMet
<1>1. PlaceInv => OrdersMet
  <2> SUFFICES ASSUME PlaceInv, Done
               PROVE  /\ Acyclic => Respects(permutation)
                      /\ \A o \in orders : orders = {o} /\ IsInjective(o) =>
                           permutation = PulledForward([k \in 1 .. N |-> k - 1], o)
    BY DEF OrdersMet
  <2>1. GradeInv /\ SortTypeOK
    BY DEF PlaceInv, GradeInv, OnceInv
  <2>2. Acyclic => Respects(permutation)
    BY <2>1, AcyclicGraded, GradedRespects
  <2>3. ASSUME NEW o \in orders, orders = {o}, IsInjective(o)
        PROVE  permutation = PulledForward([k \in 1 .. N |-> k - 1], o)
    BY <2>3, InPlaceMeans DEF Single, Listed
  <2> QED
    BY <2>2, <2>3
<1> QED
  BY <1>1, PlaceStart, PlaceStep, PTL DEF SortSpec
================================================================================
