----------------------------- MODULE Signals_proofs ----------------------------
(***************************************************************************)
(* For any set of signals, tackers and functors: the counts of the tackers *)
(* are exact, nothing refers to what is destroyed, and Signals implements  *)
(* AbstractSignals.                                                        *)
(***************************************************************************)
EXTENDS Signals, FiniteSetTheorems, TLAPS

Inv == SignalsTypeOK /\ TackExact /\ NoDangling

\* The receivers of one tacker are a finite set.
LEMMA OfFinite ==
  ASSUME NEW t, NEW R \in SUBSET Clones
  PROVE  /\ Of(t, R) \in SUBSET R
         /\ IsFiniteSet(Of(t, R))
         /\ Cardinality(Of(t, R)) \in Nat
<1>1. Of(t, R) \in SUBSET R
  BY DEF Of
<1>2. IsFiniteSet(Of(t, R))
  BY <1>1, SignalsAssumption, FS_Subset
<1> QED
  BY <1>1, <1>2, FS_CardinalityType

\* Untacking the members of R one by one leaves the number of the others.
LEMMA UntackCounts ==
  ASSUME NEW t, NEW S \in SUBSET Clones, NEW R \in SUBSET S
  PROVE  Untack(Cardinality(Of(t, S)), Cardinality(Of(t, R))) = Cardinality(Of(t, S \ R))
<1> DEFINE A == Of(t, S)
           B == Of(t, R)
<1>1. B \in SUBSET A /\ Of(t, S \ R) = A \ B /\ A \cap B = B
  BY DEF Of
<1>2. IsFiniteSet(A) /\ Cardinality(A) \in Nat /\ Cardinality(B) \in Nat
  BY OfFinite
<1>3. Cardinality(B) <= Cardinality(A)
  BY <1>1, <1>2, FS_Subset
<1>4. Cardinality(A \ B) = Cardinality(A) - Cardinality(B)
  <2> HIDE DEF A, B
  <2>1. Cardinality(A \ B) = Cardinality(A) - Cardinality(A \cap B)
    BY <1>2, FS_Difference, Zenon
  <2> QED
    BY <1>1, <2>1, Zenon
<1> QED
  BY <1>1, <1>2, <1>3, <1>4 DEF Untack

\* Erasing receivers of one signal keeps the counts exact and touches no other
\* connection.
LEMMA EraseKeeps ==
  ASSUME Inv, NEW s \in Signals, NEW R \in SUBSET receivers[s], Erase(s, R)
  PROVE  /\ receivers' \in [Signals -> SUBSET Clones]
         /\ receivers'[s] = receivers[s] \ R
         /\ \A r \in Signals : r # s => receivers'[r] = receivers[r]
         /\ signals' \in [Tackers -> [Signals -> Nat]]
         /\ \A t \in Tackers, r \in Signals :
              /\ signals'[t][r] = Cardinality(Of(t, receivers'[r]))
              /\ signals'[t][r] > 0 => signals[t][r] > 0
<1> USE DEF Inv, SignalsTypeOK, TackExact
<1>1. /\ receivers' \in [Signals -> SUBSET Clones]
      /\ receivers'[s] = receivers[s] \ R
      /\ \A r \in Signals : r # s => receivers'[r] = receivers[r]
  BY DEF Erase
<1>2. ASSUME NEW t \in Tackers
      PROVE  /\ signals'[t] \in [Signals -> Nat]
             /\ \A r \in Signals :
                  /\ signals'[t][r] = Cardinality(Of(t, receivers'[r]))
                  /\ signals'[t][r] > 0 => signals[t][r] > 0
  <2>1. receivers[s] \in SUBSET Clones /\ R \in SUBSET Clones
    OBVIOUS
  <2>2. Cardinality(Of(t, R)) \in Nat /\ signals[t] \in [Signals -> Nat]
    BY <2>1, OfFinite
  <2>3. signals'[t] = [signals[t] EXCEPT ![s] = Untack(@, Cardinality(Of(t, R)))]
    BY DEF Erase
  <2>4. Untack(signals[t][s], Cardinality(Of(t, R))) \in 0 .. signals[t][s]
    BY <2>2 DEF Untack
  <2>5. signals'[t] \in [Signals -> Nat]
    BY <2>2, <2>3, <2>4
  <2>6. signals'[t][s] = Cardinality(Of(t, receivers'[s]))
    BY <2>1, <2>2, <2>3, <1>1, UntackCounts
  <2>7. \A r \in Signals : r # s => signals'[t][r] = signals[t][r]
    BY <2>2, <2>3
  <2>8. signals'[t][s] > 0 => signals[t][s] > 0
    BY <2>2, <2>3, <2>4
  <2>9. ASSUME NEW r \in Signals, r # s
        PROVE  /\ signals'[t][r] = Cardinality(Of(t, receivers'[r]))
               /\ signals'[t][r] > 0 => signals[t][r] > 0
    <3>1. signals'[t][r] = signals[t][r] /\ receivers'[r] = receivers[r]
      BY <2>7, <2>9, <1>1
    <3> QED
      BY <3>1
  <2> QED
    BY <2>5, <2>6, <2>8, <2>9
<1>3. signals' \in [Tackers -> [Signals -> Nat]]
  BY <1>2 DEF Erase
<1> QED
  BY <1>1, <1>2, <1>3

\* With exact counts untack_all removes the receivers of t, all of them.
LEMMA RemovesAll ==
  ASSUME Inv, NEW t \in Tackers, RemoveTacked(t)
  PROVE  receivers' = [s \in Signals |-> {c \in receivers[s] : tacker_of[c] # t}]
<1>1. PICK keep \in [Signals -> SUBSET Clones] :
        /\ receivers' = keep
        /\ \A s \in Signals :
             /\ keep[s] \subseteq receivers[s]
             /\ receivers[s] \ keep[s] \subseteq Of(t, receivers[s])
             /\ IF signals[t][s] >= Cardinality(Of(t, receivers[s]))
                THEN keep[s] \cap Of(t, receivers[s]) = {}
                ELSE Cardinality(Of(t, receivers[s]) \ keep[s]) = signals[t][s]
  BY DEF RemoveTacked
<1>2. ASSUME NEW s \in Signals
      PROVE  keep[s] = {c \in receivers[s] : tacker_of[c] # t}
  <2>1. Cardinality(Of(t, receivers[s])) \in Nat
    BY OfFinite DEF Inv, SignalsTypeOK
  <2>2. signals[t][s] >= Cardinality(Of(t, receivers[s]))
    BY <2>1 DEF Inv, TackExact
  <2> QED
    BY <1>1, <2>2 DEF Of
<1> QED
  BY <1>1, <1>2

\* Without connections the invariant holds.
LEMMA InitInv == Init => Inv
<1> SUFFICES ASSUME Init PROVE Inv
  OBVIOUS
<1>1. \A t : Of(t, {}) = {}
  BY DEF Of
<1> QED
  BY <1>1, FS_EmptySet DEF Init, Inv, SignalsTypeOK, TackExact, NoDangling

\* Every operation keeps the invariant.
LEMMA StepInv == Inv /\ [Next]_sig_vars => Inv'
<1> SUFFICES ASSUME Inv, [Next]_sig_vars PROVE Inv'
  OBVIOUS
<1> USE DEF Inv
<1>1. ASSUME NEW x \in Signals \cup Tackers, Create(x) PROVE Inv'
  BY <1>1 DEF Create, SignalsTypeOK, TackExact, NoDangling
<1>2. ASSUME NEW s \in Signals, NEW c \in Clones, Connect(s, c) PROVE Inv'
  <2>1. /\ receivers' \in [Signals -> SUBSET Clones]
        /\ receivers'[s] = receivers[s] \cup {c}
        /\ \A r \in Signals : r # s => receivers'[r] = receivers[r]
        /\ \A r \in Signals : c \notin receivers[r]
    BY <1>2 DEF Connect, SignalsTypeOK
  <2>2. ASSUME NEW t \in Tackers
        PROVE  signals'[t] = [signals[t] EXCEPT ![s] =
                                IF tacker_of[c] = t THEN @ + 1 ELSE @]
    BY <1>2 DEF Connect
  <2>3. SignalsTypeOK'
    <3>1. signals' \in [Tackers -> [Signals -> Nat]]
      BY <1>2 DEF Connect, SignalsTypeOK
    <3>2. live' = live /\ s \in live
      BY <1>2 DEF Connect
    <3> QED
      BY <2>1, <3>1, <3>2 DEF SignalsTypeOK
  <2>4. TackExact'
    <3>1. ASSUME NEW t \in Tackers
          PROVE  signals'[t][s] = Cardinality(Of(t, receivers'[s]))
      <4>1. signals'[t][s] = IF tacker_of[c] = t THEN signals[t][s] + 1 ELSE signals[t][s]
        <5>1. signals[t] \in [Signals -> Nat]
          BY DEF SignalsTypeOK
        <5> QED
          BY <2>2, <5>1
      <4>2. Of(t, receivers'[s]) = IF tacker_of[c] = t THEN Of(t, receivers[s]) \cup {c}
                                                       ELSE Of(t, receivers[s])
        BY <2>1 DEF Of
      <4>3. IsFiniteSet(Of(t, receivers[s])) /\ c \notin Of(t, receivers[s])
        <5>1. receivers[s] \in SUBSET Clones
          BY DEF SignalsTypeOK
        <5>2. c \notin Of(t, receivers[s])
          BY <2>1 DEF Of
        <5> QED
          BY <5>1, <5>2, OfFinite
      <4>4. Cardinality(Of(t, receivers[s]) \cup {c}) = Cardinality(Of(t, receivers[s])) + 1
        BY <4>3, FS_AddElement
      <4> QED
        BY <4>1, <4>2, <4>4 DEF TackExact
    <3>2. ASSUME NEW t \in Tackers, NEW r \in Signals, r # s
          PROVE  signals'[t][r] = Cardinality(Of(t, receivers'[r]))
      <4>1. signals[t] \in [Signals -> Nat]
        BY DEF SignalsTypeOK
      <4>2. signals'[t][r] = signals[t][r] /\ receivers'[r] = receivers[r]
        BY <2>1, <2>2, <3>2, <4>1
      <4> QED
        BY <4>2 DEF TackExact
    <3> QED
      BY <3>1, <3>2 DEF TackExact
  <2>5. NoDangling'
    <3>1. live' = live /\ s \in live /\ tacker_of[c] \in live \cup {None}
      BY <1>2 DEF Connect
    <3>2. ASSUME NEW r \in Signals, NEW d \in receivers'[r]
          PROVE  tacker_of[d] \in live \cup {None}
      BY <2>1, <3>1 DEF NoDangling
    <3>3. ASSUME NEW t \in Tackers, NEW r \in Signals, signals'[t][r] > 0
          PROVE  t \in live /\ r \in live
      <4>1. CASE r = s /\ tacker_of[c] = t
        BY <4>1, <3>1, SignalsAssumption
      <4>2. CASE ~(r = s /\ tacker_of[c] = t)
        <5>1. signals'[t][r] = signals[t][r]
          <6>1. signals[t] \in [Signals -> Nat]
            BY DEF SignalsTypeOK
          <6>2. r # s => signals'[t][r] = signals[t][r]
            BY <2>2, <6>1
          <6>3. r = s /\ tacker_of[c] # t => signals'[t][r] = signals[t][r]
            BY <2>2, <6>1
          <6> QED
            BY <4>2, <6>2, <6>3
        <5> QED
          BY <5>1, <3>3 DEF NoDangling
      <4> QED
        BY <4>1, <4>2
    <3> QED
      BY <3>1, <3>2, <3>3 DEF NoDangling
  <2> QED
    BY <2>3, <2>4, <2>5
<1>3. ASSUME NEW s \in Signals, NEW R \in SUBSET receivers[s], Erase(s, R), s \in live,
             live' = live
      PROVE  Inv'
  <2>1. SignalsTypeOK'
    <3>1. /\ receivers' \in [Signals -> SUBSET Clones]
          /\ signals' \in [Tackers -> [Signals -> Nat]]
          /\ \A r \in Signals : receivers'[r] \in SUBSET receivers[r]
      BY <1>3, EraseKeeps
    <3> QED
      BY <3>1, <1>3 DEF SignalsTypeOK
  <2>2. TackExact'
    BY <1>3, EraseKeeps DEF TackExact
  <2>3. NoDangling'
    BY <1>3, EraseKeeps DEF NoDangling
  <2> QED
    BY <2>1, <2>2, <2>3
<1>4. ASSUME NEW s \in Signals, NEW f \in Functors, DisconnectFunctor(s, f) PROVE Inv'
  BY <1>3, <1>4 DEF DisconnectFunctor
<1>5. ASSUME NEW s \in Signals, NEW t \in Tackers, DisconnectTacker(s, t) PROVE Inv'
  BY <1>3, <1>5 DEF DisconnectTacker, Of
<1>6. ASSUME NEW s \in Signals, DisconnectAll(s) PROVE Inv'
  BY <1>3, <1>6 DEF DisconnectAll
<1>7. ASSUME NEW s \in Signals, DestroySignal(s) PROVE Inv'
  <2>1. Erase(s, receivers[s]) /\ live' = live \ {s}
    BY <1>7 DEF DestroySignal
  <2>2. receivers[s] \in SUBSET receivers[s]
    OBVIOUS
  <2>3. receivers'[s] = {} /\ \A t \in Tackers : signals'[t][s] = 0
    <3>1. receivers'[s] = {}
      BY <2>1, <2>2, EraseKeeps
    <3>2. \A t : Of(t, {}) = {}
      BY DEF Of
    <3>3. \A t \in Tackers : signals'[t][s] = Cardinality(Of(t, receivers'[s]))
      BY <2>1, <2>2, EraseKeeps
    <3> QED
      BY <3>1, <3>2, <3>3, FS_EmptySet
  <2>4. SignalsTypeOK'
    BY <2>1, <2>2, <2>3, EraseKeeps DEF SignalsTypeOK
  <2>5. TackExact'
    BY <2>1, <2>2, EraseKeeps DEF TackExact
  <2>6. NoDangling'
    <3>1. s \notin Tackers
      BY SignalsAssumption
    <3>2. ASSUME NEW r \in Signals, NEW d \in receivers'[r]
          PROVE  tacker_of[d] \in live' \cup {None}
      <4>1. d \in receivers[r] /\ d \in Clones
        BY <2>1, <2>2, <2>3, EraseKeeps DEF SignalsTypeOK
      <4>2. tacker_of[d] \in Tackers \cup {None}
        BY <4>1, SignalsAssumption
      <4> QED
        BY <4>1, <4>2, <3>1, <2>1 DEF NoDangling
    <3>3. ASSUME NEW t \in Tackers, NEW r \in Signals, signals'[t][r] > 0
          PROVE  t \in live' /\ r \in live'
      <4>1. signals[t][r] > 0 /\ r # s
        BY <2>1, <2>2, <2>3, <3>3, EraseKeeps
      <4> QED
        BY <4>1, <3>1, <2>1 DEF NoDangling
    <3> QED
      BY <3>2, <3>3 DEF NoDangling
  <2> QED
    BY <2>4, <2>5, <2>6
<1>8. ASSUME NEW t \in Tackers, DestroyTacker(t) PROVE Inv'
  <2>1. receivers' = [s \in Signals |-> {c \in receivers[s] : tacker_of[c] # t}]
    BY <1>8, RemovesAll DEF DestroyTacker
  <2>2. live' = live \ {t} /\ signals' = [signals EXCEPT ![t] = [s \in Signals |-> 0]]
    BY <1>8 DEF DestroyTacker
  <2>3. t \notin Signals
    BY SignalsAssumption
  <2>4. SignalsTypeOK'
    BY <2>1, <2>2, <2>3 DEF SignalsTypeOK
  <2>5. TackExact'
    <3>1. ASSUME NEW u \in Tackers, NEW s \in Signals
          PROVE  signals'[u][s] = Cardinality(Of(u, receivers'[s]))
      <4>1. CASE u = t
        <5>1. Of(u, receivers'[s]) = {}
          BY <2>1, <4>1 DEF Of
        <5> QED
          BY <2>2, <4>1, <5>1, FS_EmptySet DEF SignalsTypeOK
      <4>2. CASE u # t
        <5>1. Of(u, receivers'[s]) = Of(u, receivers[s])
          BY <2>1, <4>2 DEF Of
        <5> QED
          BY <2>2, <4>2, <5>1 DEF SignalsTypeOK, TackExact
      <4> QED
        BY <4>1, <4>2
    <3> QED
      BY <3>1 DEF TackExact
  <2>6. NoDangling'
    <3>1. ASSUME NEW r \in Signals, NEW d \in receivers'[r]
          PROVE  tacker_of[d] \in live' \cup {None}
      BY <2>1, <2>2 DEF NoDangling
    <3>2. ASSUME NEW u \in Tackers, NEW r \in Signals, signals'[u][r] > 0
          PROVE  u \in live' /\ r \in live'
      <4>1. u # t /\ signals[u][r] > 0
        BY <2>2, <3>2 DEF SignalsTypeOK
      <4> QED
        BY <4>1, <2>2, <2>3 DEF NoDangling
    <3> QED
      BY <3>1, <3>2 DEF NoDangling
  <2> QED
    BY <2>4, <2>5, <2>6
<1>9. CASE UNCHANGED sig_vars
  BY <1>9 DEF sig_vars, SignalsTypeOK, TackExact, NoDangling
<1> QED
  BY <1>1, <1>2, <1>4, <1>5, <1>6, <1>7, <1>8, <1>9 DEF Next

\* The invariant holds in every reachable state.
LEMMA Inductive == Spec => []Inv
BY InitInv, StepInv, PTL DEF Spec

\* What does not exist has no connections, and no functor object is in two places.
THEOREM SignalsTyped == Spec => []SignalsTypeOK
<1>1. Inv => SignalsTypeOK
  BY DEF Inv
<1> QED
  BY <1>1, Inductive, PTL

\* The counts of every tacker are exact, whoever disconnects or is destroyed first.
THEOREM SignalsTackExact == Spec => []TackExact
<1>1. Inv => TackExact
  BY DEF Inv
<1> QED
  BY <1>1, Inductive, PTL

\* No signal refers to a destroyed tacker and no tacker to a destroyed signal.
THEOREM SignalsNoDangling == Spec => []NoDangling
<1>1. Inv => NoDangling
  BY DEF Inv
<1> QED
  BY <1>1, Inductive, PTL

\* Every step of Signals is a step of AbstractSignals.
LEMMA StepImplements == Inv /\ [Next]_sig_vars => [Abstract!AbsNext]_(Abstract!abs_vars)
<1> SUFFICES ASSUME Inv, [Next]_sig_vars PROVE [Abstract!AbsNext]_(Abstract!abs_vars)
  OBVIOUS
<1> USE DEF Abstract!AbsNext
<1>1. ASSUME NEW x \in Signals \cup Tackers, Create(x) PROVE Abstract!AbsNext
  <2>1. Abstract!AbsCreate(x)
    BY <1>1 DEF Create, Abstract!AbsCreate
  <2> QED
    BY <2>1
<1>2. ASSUME NEW s \in Signals, NEW c \in Clones, Connect(s, c) PROVE Abstract!AbsNext
  <2>1. Abstract!AbsConnect(s, c)
    BY <1>2, SignalsAssumption DEF Connect, Abstract!AbsConnect
  <2> QED
    BY <2>1
<1>3. ASSUME NEW s \in Signals, NEW R \in SUBSET receivers[s], Erase(s, R), s \in live,
             live' = live
      PROVE  Abstract!AbsNext
  <2>1. R \in SUBSET Clones
    BY DEF Inv, SignalsTypeOK
  <2>2. Abstract!AbsDisconnect(s, R)
    BY <1>3 DEF Erase, Abstract!AbsDisconnect
  <2> QED
    BY <2>1, <2>2
<1>4. ASSUME NEW s \in Signals, NEW f \in Functors, DisconnectFunctor(s, f)
      PROVE  Abstract!AbsNext
  BY <1>3, <1>4 DEF DisconnectFunctor
<1>5. ASSUME NEW s \in Signals, NEW t \in Tackers, DisconnectTacker(s, t)
      PROVE  Abstract!AbsNext
  BY <1>3, <1>5 DEF DisconnectTacker, Of
<1>6. ASSUME NEW s \in Signals, DisconnectAll(s) PROVE Abstract!AbsNext
  BY <1>3, <1>6 DEF DisconnectAll
<1>7. ASSUME NEW s \in Signals, DestroySignal(s) PROVE Abstract!AbsNext
  <2>1. Abstract!AbsDestroySignal(s)
    BY <1>7 DEF Inv, SignalsTypeOK, DestroySignal, Erase, Abstract!AbsDestroySignal
  <2> QED
    BY <2>1
<1>8. ASSUME NEW t \in Tackers, DestroyTacker(t) PROVE Abstract!AbsNext
  <2>1. Abstract!AbsDestroyTacker(t)
    BY <1>8, RemovesAll DEF DestroyTacker, Abstract!AbsDestroyTacker
  <2> QED
    BY <2>1
<1>9. CASE UNCHANGED sig_vars
  BY <1>9 DEF sig_vars, Abstract!abs_vars
<1> QED
  BY <1>1, <1>2, <1>4, <1>5, <1>6, <1>7, <1>8, <1>9 DEF Next

\* A connection lasts until it is disconnected or one of its ends is destroyed.
THEOREM SignalsImplement == Spec => ImplementsSignals
<1>1. Init => Abstract!AbsInit
  BY DEF Init, Abstract!AbsInit
<1> QED
  BY <1>1, StepImplements, Inductive, PTL DEF Spec, ImplementsSignals, Abstract!AbsSpec
================================================================================
