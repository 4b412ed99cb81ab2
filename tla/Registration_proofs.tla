-------------------------- MODULE Registration_proofs --------------------------
(***************************************************************************)
(* Proofs about Registration, for any objects, interfaces, constructors    *)
(* and partial order, as long as no on_register registers something whose  *)
(* pass is over and nothing is unregistered while registration is          *)
(* disabled.  An object is registered unless it waits in the batch for its *)
(* loop (SentOK); a listener has been given an event of the batch by       *)
(* register_object_internal, and one of a former batch when its own turn   *)
(* in the loop of listeners has come (HeardOK).  The invariant needs that  *)
(* sorting keeps former batches in front (EventsOK, SortedFacts) and that  *)
(* the collection has no repetitions (KeptOK, RemoveLacks).                *)
(***************************************************************************)
EXTENDS Registration, FiniteSetTheorems, SequenceTheorems, TLAPS

\* The members of S that R has in front of x.
InFront(S, R, x) == {y \in S : <<y, x>> \in R}
Place(S, R, x) == Cardinality(InFront(S, R, x))

EveryPlace(S, R) == \A n \in 0 .. Cardinality(S) - 1 : \E x \in S : Place(S, R, x) = n

StrictOrder(S, R) ==
  /\ \A x \in S : <<x, x>> \notin R
  /\ \A x, y, z \in S : <<x, y>> \in R /\ <<y, z>> \in R => <<x, z>> \in R
  /\ \A x, y \in S : x # y => <<x, y>> \in R \/ <<y, x>> \in R

\* A set of naturals that is not empty has a least element.
LEMMA LeastNatural ==
  ASSUME NEW T, T \subseteq Nat, T # {}
  PROVE  \E x \in T : \A y \in T : x <= y
<1> DEFINE R == OpToRel(<, Nat)
<1>1. IsWellFoundedOn(R, Nat)
  BY NatLessThanWellFounded, Zenon
<1>2. \A x, y \in Nat : y < x => <<y, x>> \in R
  BY DEF OpToRel
<1> HIDE DEF R
<1>3. PICK x \in T : \A y \in T : ~ (<<y, x>> \in R)
  BY <1>1, WFMin, Zenon
<1>4. x \in Nat /\ \A y \in T : y \in Nat /\ ~ (y < x)
  BY <1>2, <1>3, Zenon
<1> QED
  BY <1>3, <1>4

\* In a finite set with a strict total order every place is taken by one member.
LEMMA Places ==
  ASSUME NEW S, IsFiniteSet(S), NEW R, StrictOrder(S, R)
  PROVE  /\ Cardinality(S) \in Nat
         /\ \A x \in S : Place(S, R, x) \in 0 .. Cardinality(S) - 1
         /\ \A x, y \in S : <<x, y>> \in R => Place(S, R, x) < Place(S, R, y)
         /\ \A x, y \in S : Place(S, R, x) = Place(S, R, y) => x = y
         /\ EveryPlace(S, R)
<1> DEFINE n == Cardinality(S)
           f == [x \in S |-> Place(S, R, x)]
<1>1. n \in Nat
  BY FS_CardinalityType
<1>2. ASSUME NEW x \in S
      PROVE  /\ InFront(S, R, x) \in SUBSET S /\ x \notin InFront(S, R, x)
             /\ IsFiniteSet(InFront(S, R, x)) /\ Place(S, R, x) \in Nat
             /\ IsFiniteSet(InFront(S, R, x) \cup {x})
             /\ Cardinality(InFront(S, R, x) \cup {x}) = Place(S, R, x) + 1
  <2>1. InFront(S, R, x) \in SUBSET S /\ x \notin InFront(S, R, x)
    BY DEF InFront, StrictOrder
  <2>2. IsFiniteSet(InFront(S, R, x))
    BY <2>1, FS_Subset
  <2>3. Cardinality(InFront(S, R, x) \cup {x}) = Cardinality(InFront(S, R, x)) + 1
        /\ IsFiniteSet(InFront(S, R, x) \cup {x})
    BY <2>1, <2>2, FS_AddElement
  <2> QED
    BY <2>1, <2>2, <2>3, FS_CardinalityType DEF Place
<1>3. ASSUME NEW x \in S PROVE Place(S, R, x) \in 0 .. n - 1
  <2>1. InFront(S, R, x) \cup {x} \in SUBSET S
    BY <1>2
  <2>2. Cardinality(InFront(S, R, x) \cup {x}) <= n
    BY <2>1, FS_Subset
  <2>3. Place(S, R, x) + 1 <= n
    BY <1>2, <2>2
  <2>4. Place(S, R, x) \in Nat
    BY <1>2
  <2> HIDE DEF n
  <2> QED
    BY <1>1, <2>3, <2>4
<1>4. ASSUME NEW x \in S, NEW y \in S, <<x, y>> \in R PROVE Place(S, R, x) < Place(S, R, y)
  <2>1. InFront(S, R, x) \cup {x} \in SUBSET InFront(S, R, y)
    BY <1>4 DEF InFront, StrictOrder
  <2>2. Cardinality(InFront(S, R, x) \cup {x}) <= Place(S, R, y)
    BY <1>2, <2>1, FS_Subset DEF Place
  <2>3. Place(S, R, x) + 1 <= Place(S, R, y)
    BY <1>2, <2>2
  <2>4. Place(S, R, x) \in Nat /\ Place(S, R, y) \in Nat
    BY <1>2
  <2> QED
    BY <2>3, <2>4
<1>5. ASSUME NEW x \in S, NEW y \in S, Place(S, R, x) = Place(S, R, y) PROVE x = y
  <2>1. SUFFICES ASSUME x # y PROVE FALSE
    OBVIOUS
  <2>2. Place(S, R, x) < Place(S, R, y) \/ Place(S, R, y) < Place(S, R, x)
    BY <1>4, <2>1 DEF StrictOrder
  <2>3. Place(S, R, x) \in Nat
    BY <1>2
  <2> QED
    BY <1>5, <2>2, <2>3
<1>6. f \in Injection(S, 0 .. n - 1)
  <2>1. f \in [S -> 0 .. n - 1]
    BY <1>3
  <2>2. \A x, y \in S : f[x] = f[y] => x = y
    BY <1>5
  <2> QED
    BY <2>1, <2>2 DEF Injection, IsInjective
<1>7. IsFiniteSet(0 .. n - 1) /\ Cardinality(0 .. n - 1) = n
  <2>1. 0 \in Int /\ n - 1 \in Int
    BY <1>1
  <2>2. IsFiniteSet(0 .. n - 1) /\ Cardinality(0 .. n - 1) = IF 0 > n - 1 THEN 0 ELSE (n - 1) - 0 + 1
    BY <2>1, FS_Interval
  <2> HIDE DEF n
  <2> QED
    BY <1>1, <2>2
<1>8. f \in Surjection(S, 0 .. n - 1)
  BY <1>6, <1>7, FS_Injection
<1>9. EveryPlace(S, R)
  BY <1>8 DEF Surjection, EveryPlace
<1> QED
  BY <1>1, <1>3, <1>4, <1>5, <1>9

\* The elements that are kept are those at the positions, each once.
LEMMA KeptFacts ==
  ASSUME NEW T, NEW s \in Seq(T), NEW P \in SUBSET (1 .. Len(s))
  PROVE  /\ Kept(s, P) \in Seq(T)
         /\ \E f \in [1 .. Len(Kept(s, P)) -> P] :
              /\ \A a, b \in 1 .. Len(Kept(s, P)) : f[a] = f[b] => a = b
              /\ \A k \in P : \E a \in 1 .. Len(Kept(s, P)) : f[a] = k
              /\ \A a \in 1 .. Len(Kept(s, P)) : Kept(s, P)[a] = s[f[a]]
<1> DEFINE n == Cardinality(P)
           At(a) == CHOOSE k \in P : Cardinality({m \in P : m < k}) = a - 1
           f == [a \in 1 .. n |-> At(a)]
<1>1. Len(s) \in Nat /\ \A k \in P : k \in Nat /\ s[k] \in T
  OBVIOUS
<1>2. IsFiniteSet(P)
  <2>1. IsFiniteSet(1 .. Len(s))
    BY <1>1, FS_Interval
  <2> QED
    BY <2>1, FS_Subset
<1>3. \E R : StrictOrder(P, R) /\ \A k \in P : {m \in P : m < k} = InFront(P, R, k)
  <2> DEFINE R == {p \in P \X P : p[1] < p[2]}
  <2>1. \A x, y \in P : <<x, y>> \in R <=> x < y
    OBVIOUS
  <2>2. \A k \in P : {m \in P : m < k} = InFront(P, R, k)
    BY <2>1 DEF InFront
  <2> HIDE DEF R
  <2>3. StrictOrder(P, R)
    BY <1>1, <2>1 DEF StrictOrder
  <2> QED
    BY <2>2, <2>3
<1>4. PICK R : StrictOrder(P, R) /\ \A k \in P : {m \in P : m < k} = InFront(P, R, k)
  BY <1>3
<1>5. \A k \in P : {m \in P : m < k} = InFront(P, R, k)
  BY <1>4
<1> HIDE DEF n, At, f
<1>6. /\ n \in Nat
      /\ \A x \in P : Place(P, R, x) \in 0 .. n - 1
      /\ \A x, y \in P : Place(P, R, x) = Place(P, R, y) => x = y
      /\ \A a \in 0 .. n - 1 : \E x \in P : Place(P, R, x) = a
  <2>1. IsFiniteSet(P) /\ StrictOrder(P, R)
    BY <1>2, <1>4
  <2>2. Cardinality(P) \in Nat
    BY <2>1, Places
  <2>3. \A x \in P : Place(P, R, x) \in 0 .. Cardinality(P) - 1
    BY <2>1, Places
  <2>4. \A x, y \in P : Place(P, R, x) = Place(P, R, y) => x = y
    BY <2>1, Places
  <2>5. EveryPlace(P, R)
    BY <2>1, Places
  <2>6. \A a \in 0 .. Cardinality(P) - 1 : \E x \in P : Place(P, R, x) = a
    BY <2>5 DEF EveryPlace
  <2> QED
    BY <2>2, <2>3, <2>4, <2>6 DEF n
<1> USE DEF At, f
<1>7. ASSUME NEW a \in 1 .. n PROVE At(a) \in P /\ Place(P, R, At(a)) = a - 1
  <2>1. \E k \in P : Cardinality({m \in P : m < k}) = a - 1
    <3>1. a - 1 \in 0 .. n - 1
      BY <1>6
    <3>2. PICK k \in P : Place(P, R, k) = a - 1
      BY <1>6, <3>1
    <3> QED
      BY <1>5, <3>2 DEF Place
  <2>2. At(a) \in P /\ Cardinality({m \in P : m < At(a)}) = a - 1
    BY <2>1
  <2> QED
    BY <1>5, <2>2 DEF Place
<1> HIDE DEF At
<1>8. f \in [1 .. n -> P]
  BY <1>7
<1>9. \A a, b \in 1 .. n : f[a] = f[b] => a = b
  <2>1. ASSUME NEW a \in 1 .. n, NEW b \in 1 .. n, f[a] = f[b] PROVE a = b
    <3>1. a - 1 = b - 1
      BY <1>7, <2>1
    <3> QED
      BY <1>6, <3>1
  <2> QED
    BY <2>1
<1>10. ASSUME NEW k \in P PROVE \E a \in 1 .. n : f[a] = k
  <2>1. Place(P, R, k) + 1 \in 1 .. n /\ (Place(P, R, k) + 1) - 1 = Place(P, R, k)
    BY <1>6
  <2>2. At(Place(P, R, k) + 1) = k
    BY <1>6, <1>7, <2>1
  <2> QED
    BY <2>1, <2>2
<1>11. Kept(s, P) = [a \in 1 .. n |-> s[At(a)]]
  BY DEF Kept, n, At
<1>12. Kept(s, P) \in Seq(T) /\ Len(Kept(s, P)) = n
  <2>1. \A a \in 1 .. n : s[At(a)] \in T
    BY <1>1, <1>7
  <2> QED
    BY <1>6, <1>11, <2>1
<1>13. \A a \in 1 .. n : Kept(s, P)[a] = s[f[a]]
  BY <1>11
<1> HIDE DEF f
<1>14. \E g \in [1 .. n -> P] :
         /\ \A a, b \in 1 .. n : g[a] = g[b] => a = b
         /\ \A k \in P : \E a \in 1 .. n : g[a] = k
         /\ \A a \in 1 .. n : Kept(s, P)[a] = s[g[a]]
  BY <1>8, <1>9, <1>10, <1>13
<1> QED
  BY <1>12, <1>14

\* Positions of x in a sequence without repetitions are one at most.
NoRepeats(s) == \A a, b \in 1 .. Len(s) : s[a] = s[b] => a = b

\* Sequence t has just the members of s that are not x, each once.
Lacks(s, x, t) ==
  /\ NoRepeats(t)
  /\ ToSet(t) = ToSet(s) \ {x}

\* The members of a sequence are its elements.
LEMMA Members ==
  ASSUME NEW T, NEW s \in Seq(T)
  PROVE  /\ Len(s) \in Nat /\ DOMAIN s = 1 .. Len(s)
         /\ \A k \in 1 .. Len(s) : s[k] \in T /\ s[k] \in ToSet(s)
         /\ \A x : x \in ToSet(s) <=> \E k \in 1 .. Len(s) : s[k] = x
         /\ ToSet(s) \subseteq T
BY DEF ToSet

\* If just the positions of x are left out, the rest of the members is kept.
LEMMA KeptLacks ==
  ASSUME NEW T, NEW s \in Seq(T), NoRepeats(s), NEW x,
         NEW P \in SUBSET (1 .. Len(s)), \A k \in 1 .. Len(s) : k \in P <=> s[k] # x
  PROVE  Kept(s, P) \in Seq(T) /\ Lacks(s, x, Kept(s, P))
<1> DEFINE t == Kept(s, P)
<1>1. t \in Seq(T)
  BY KeptFacts
<1>2. PICK f \in [1 .. Len(t) -> P] :
         /\ \A a, b \in 1 .. Len(t) : f[a] = f[b] => a = b
         /\ \A k \in P : \E a \in 1 .. Len(t) : f[a] = k
         /\ \A a \in 1 .. Len(t) : t[a] = s[f[a]]
  BY KeptFacts
<1> HIDE DEF t
<1>3. \A a \in 1 .. Len(t) : f[a] \in P /\ f[a] \in 1 .. Len(s) /\ t[a] = s[f[a]] /\ t[a] # x
  <2>1. \A a \in 1 .. Len(t) : f[a] \in P /\ t[a] = s[f[a]]
    BY <1>2
  <2>2. \A k \in P : k \in 1 .. Len(s) /\ s[k] # x
    OBVIOUS
  <2> QED
    BY <2>1, <2>2, Zenon
<1>4. NoRepeats(t)
  BY <1>2, <1>3 DEF NoRepeats
<1>5. \A y : y \in ToSet(t) <=> \E a \in 1 .. Len(t) : t[a] = y
  BY <1>1, Members
<1>6. \A y : y \in ToSet(s) <=> \E a \in 1 .. Len(s) : s[a] = y
  BY Members
<1>7. ASSUME NEW y PROVE y \in ToSet(t) <=> y \in ToSet(s) /\ y # x
  <2>1. ASSUME y \in ToSet(t) PROVE y \in ToSet(s) /\ y # x
    BY <1>3, <1>5, <1>6, <2>1
  <2>2. ASSUME y \in ToSet(s), y # x PROVE y \in ToSet(t)
    <3>1. PICK k \in 1 .. Len(s) : s[k] = y
      BY <1>6, <2>2
    <3>2. k \in P
      BY <2>2, <3>1
    <3>3. PICK a \in 1 .. Len(t) : f[a] = k
      BY <1>2, <3>2
    <3> QED
      BY <1>3, <1>5, <3>1, <3>3
  <2> QED
    BY <2>1, <2>2
<1>8. ToSet(t) = ToSet(s) \ {x}
  BY <1>7
<1>9. t \in Seq(T) /\ Lacks(s, x, t)
  BY <1>1, <1>4, <1>8 DEF Lacks
<1> QED
  BY <1>9 DEF t

\* Removing an object from the events or the listeners.
LEMMA WithoutLacks ==
  ASSUME NEW T, NEW s \in Seq(T), NoRepeats(s), NEW x
  PROVE  Without(s, x) \in Seq(T) /\ Lacks(s, x, Without(s, x))
<1> DEFINE P == {k \in DOMAIN s : s[k] # x}
<1>1. P \in SUBSET (1 .. Len(s)) /\ \A k \in 1 .. Len(s) : k \in P <=> s[k] # x
  OBVIOUS
<1>2. Without(s, x) = Kept(s, P)
  BY DEF Without
<1> HIDE DEF P
<1> QED
  BY <1>1, <1>2, KeptLacks

\* remove_object compares every object but the two behind one that it erases: in
\* a collection without repetitions it still erases the object.
LEMMA RemoveLacks ==
  ASSUME NEW T, NEW s \in Seq(T), NoRepeats(s), NEW x
  PROVE  RemoveObject(s, x) \in Seq(T) /\ Lacks(s, x, RemoveObject(s, x))
<1> DEFINE H == {k \in 1 .. Len(s) : s[k] = x}
           Fits(P) == \A k \in DOMAIN s : k \in P <=> s[k] = x /\ k - 1 \notin P /\ k - 2 \notin P
<1>1. DOMAIN s = 1 .. Len(s) /\ Len(s) \in Nat
  OBVIOUS
<1>2. \A k, m \in H : k = m
  BY DEF NoRepeats
<1>3. \A k \in 1 .. Len(s) : k \in Nat /\ k - 1 # k /\ k - 2 # k
  BY <1>1
<1>4. H \in SUBSET DOMAIN s /\ Fits(H)
  <2>1. ASSUME NEW k \in DOMAIN s PROVE k \in H <=> s[k] = x /\ k - 1 \notin H /\ k - 2 \notin H
    <3>1. k \in H <=> s[k] = x
      BY <1>1
    <3>2. k \in H => k - 1 \notin H /\ k - 2 \notin H
      BY <1>1, <1>2, <1>3, Zenon
    <3> QED
      BY <3>1, <3>2
  <2> QED
    BY <1>1, <2>1
<1>5. Erased(s, x) \in SUBSET DOMAIN s /\ Fits(Erased(s, x))
  BY <1>4 DEF Erased
<1> DEFINE E == Erased(s, x)
<1> HIDE DEF E
<1>6. E \in SUBSET DOMAIN s /\ Fits(E)
  BY <1>5 DEF E
<1>7. E \subseteq H
  BY <1>1, <1>6
<1>8. ASSUME NEW k \in 1 .. Len(s), s[k] = x PROVE k \in E
  <2>1. SUFFICES ASSUME k \notin E PROVE FALSE
    OBVIOUS
  <2>2. k \in H
    BY <1>8
  <2>3. k - 1 \in E \/ k - 2 \in E
    BY <1>1, <1>6, <1>8, <2>1
  <2>4. k - 1 \in H \/ k - 2 \in H
    BY <1>7, <2>3
  <2> QED
    BY <1>2, <1>3, <2>2, <2>4, Zenon
<1> DEFINE P == DOMAIN s \ E
<1>9. P \in SUBSET (1 .. Len(s)) /\ \A k \in 1 .. Len(s) : k \in P <=> s[k] # x
  BY <1>1, <1>7, <1>8
<1>10. RemoveObject(s, x) = Kept(s, P)
  BY DEF RemoveObject, E
<1> HIDE DEF P
<1> QED
  BY <1>9, <1>10, KeptLacks

\* The partial order is transitive and one way, and of two that come before a
\* third one comes before the other.
LEMMA OrderFacts ==
  /\ \A x, y, z : InOrder(Order, x, y) /\ InOrder(Order, y, z) => InOrder(Order, x, z)
  /\ \A x, y : InOrder(Order, x, y) /\ InOrder(Order, y, x) => x = y
  /\ \A x, y, z : InOrder(Order, x, z) /\ InOrder(Order, y, z)
                  => InOrder(Order, x, y) \/ InOrder(Order, y, x)
  /\ \A x, y : InOrder(Order, x, y) => InOrder(Order, x, x)
<1>1. /\ Len(Order) \in Nat /\ DOMAIN Order = 1 .. Len(Order)
      /\ \A a, b \in 1 .. Len(Order) : Order[a] = Order[b] => a = b
  BY RegistrationAssumption DEF IsInjective
<1>2. \A x, y : InOrder(Order, x, y) <=>
        \E a, b \in 1 .. Len(Order) : a <= b /\ Order[a] = x /\ Order[b] = y
  BY <1>1 DEF InOrder
<1>3. ASSUME NEW x, NEW y, NEW z, InOrder(Order, x, y), InOrder(Order, y, z)
      PROVE  InOrder(Order, x, z)
  <2>1. PICK a, b \in 1 .. Len(Order) : a <= b /\ Order[a] = x /\ Order[b] = y
    BY <1>2, <1>3
  <2>2. PICK c, e \in 1 .. Len(Order) : c <= e /\ Order[c] = y /\ Order[e] = z
    BY <1>2, <1>3
  <2>3. b = c /\ a <= e
    BY <1>1, <2>1, <2>2
  <2> QED
    BY <1>2, <2>1, <2>2, <2>3
<1>4. ASSUME NEW x, NEW y, InOrder(Order, x, y), InOrder(Order, y, x) PROVE x = y
  <2>1. PICK a, b \in 1 .. Len(Order) : a <= b /\ Order[a] = x /\ Order[b] = y
    BY <1>2, <1>4
  <2>2. PICK c, e \in 1 .. Len(Order) : c <= e /\ Order[c] = y /\ Order[e] = x
    BY <1>2, <1>4
  <2>3. b = c /\ a = e
    BY <1>1, <2>1, <2>2
  <2>4. a = b
    BY <1>1, <2>1, <2>2, <2>3
  <2> QED
    BY <2>1, <2>4
<1>5. ASSUME NEW x, NEW y, NEW z, InOrder(Order, x, z), InOrder(Order, y, z)
      PROVE  InOrder(Order, x, y) \/ InOrder(Order, y, x)
  <2>1. PICK a \in 1 .. Len(Order) : Order[a] = x
    BY <1>2, <1>5
  <2>2. PICK b \in 1 .. Len(Order) : Order[b] = y
    BY <1>2, <1>5
  <2>3. a <= b \/ b <= a
    BY <1>1
  <2> QED
    BY <1>2, <2>1, <2>2, <2>3
<1>6. ASSUME NEW x, NEW y, InOrder(Order, x, y) PROVE InOrder(Order, x, x)
  <2>1. PICK a \in 1 .. Len(Order) : Order[a] = x
    BY <1>2, <1>6
  <2>2. a <= a
    BY <1>1
  <2> QED
    BY <1>2, <2>1, <2>2
<1> QED
  BY <1>3, <1>4, <1>5, <1>6

\* The puller of a member is the first event that is the member or comes after it.
LEMMA PullerFacts ==
  ASSUME NEW T, NEW s \in Seq(T), NEW x \in ToSet(s)
  PROVE  /\ Puller(s, Order, x) \in 1 .. Len(s)
         /\ s[Puller(s, Order, x)] = x \/ InOrder(Order, x, s[Puller(s, Order, x)])
         /\ \A k \in 1 .. Len(s) : s[k] = x \/ InOrder(Order, x, s[k])
                                     => Puller(s, Order, x) <= k
<1> DEFINE P == Pulls(s, Order, x)
           p == Puller(s, Order, x)
<1>1. Len(s) \in Nat /\ DOMAIN s = 1 .. Len(s) /\ \E k \in 1 .. Len(s) : s[k] = x
  BY Members
<1>2. P = {k \in 1 .. Len(s) : s[k] = x \/ InOrder(Order, x, s[k])}
  BY <1>1 DEF Pulls
<1>3. P \subseteq Nat /\ P # {}
  BY <1>1, <1>2
<1> HIDE DEF P
<1>4. \E k \in P : \A m \in P : k <= m
  BY <1>3, LeastNatural
<1>5. p \in P /\ \A m \in P : p <= m
  BY <1>4 DEF Puller, P
<1> HIDE DEF p
<1>6. /\ p \in 1 .. Len(s)
      /\ s[p] = x \/ InOrder(Order, x, s[p])
      /\ \A k \in 1 .. Len(s) : s[k] = x \/ InOrder(Order, x, s[k]) => p <= k
  BY <1>2, <1>5
<1> QED
  BY <1>6 DEF p

\* Before is a strict total order of the members of a sequence.
LEMMA BeforeIsStrict ==
  ASSUME NEW T, NEW s \in Seq(T)
  PROVE  \E R : /\ StrictOrder(ToSet(s), R)
                /\ \A x, y \in ToSet(s) : <<x, y>> \in R <=> Before(s, Order, x, y)
<1> DEFINE S == ToSet(s)
           At(x) == Puller(s, Order, x)
           R == {p \in S \X S : Before(s, Order, p[1], p[2])}
<1>1. \A x, y \in S : <<x, y>> \in R <=> Before(s, Order, x, y)
  OBVIOUS
<1> HIDE DEF R
<1>2. \A x, y \in S : <<x, y>> \in R <=>
        At(x) < At(y) \/ (At(x) = At(y) /\ x # y /\ InOrder(Order, x, y))
  BY <1>1 DEF Before
<1>3. \A x \in S : /\ At(x) \in Nat
                   /\ s[At(x)] = x \/ InOrder(Order, x, s[At(x)])
  BY PullerFacts
<1> HIDE DEF S, At
<1>4. \A x \in S : <<x, x>> \notin R
  BY <1>2, <1>3
<1>5. ASSUME NEW x \in S, NEW y \in S, NEW z \in S, <<x, y>> \in R, <<y, z>> \in R
      PROVE  <<x, z>> \in R
  <2>1. At(x) < At(y) \/ (At(x) = At(y) /\ x # y /\ InOrder(Order, x, y))
    BY <1>2, <1>5
  <2>2. At(y) < At(z) \/ (At(y) = At(z) /\ y # z /\ InOrder(Order, y, z))
    BY <1>2, <1>5
  <2>3. At(x) < At(z) \/ (At(x) = At(z) /\ x # y /\ InOrder(Order, x, y) /\ InOrder(Order, y, z))
    BY <1>3, <2>1, <2>2
  <2>4. InOrder(Order, x, y) /\ InOrder(Order, y, z) /\ x # y => InOrder(Order, x, z) /\ x # z
    BY OrderFacts, Zenon
  <2> QED
    BY <1>2, <2>3, <2>4
<1>6. ASSUME NEW x \in S, NEW y \in S, x # y PROVE <<x, y>> \in R \/ <<y, x>> \in R
  <2>1. CASE At(x) # At(y)
    BY <1>2, <1>3, <2>1
  <2>2. CASE At(x) = At(y)
    <3> DEFINE e == s[At(x)]
    <3>1. (e = x \/ InOrder(Order, x, e)) /\ (e = y \/ InOrder(Order, y, e))
      BY <1>3, <2>2
    <3> HIDE DEF e
    <3>2. InOrder(Order, x, y) \/ InOrder(Order, y, x)
      BY <1>6, <3>1, OrderFacts
    <3> QED
      BY <1>2, <1>6, <2>2, <3>2
  <2> QED
    BY <2>1, <2>2
<1>7. StrictOrder(S, R)
  BY <1>4, <1>5, <1>6 DEF StrictOrder
<1> QED
  BY <1>1, <1>7 DEF S

\* Some first events of a sequence, as a set.
Firsts(s, n) == {s[m] : m \in 1 .. n}

\* A sequence without repetitions has as many members as elements.
LEMMA FirstsCount ==
  ASSUME NEW T, NEW s \in Seq(T), NoRepeats(s), NEW n \in 0 .. Len(s)
  PROVE  /\ IsFiniteSet(Firsts(s, n)) /\ Cardinality(Firsts(s, n)) = n
         /\ Firsts(s, n) \subseteq ToSet(s)
         /\ Firsts(s, Len(s)) = ToSet(s)
<1> DEFINE f == [m \in 1 .. n |-> s[m]]
           F == Firsts(s, n)
<1>1. Len(s) \in Nat /\ DOMAIN s = 1 .. Len(s) /\ n \in Nat
  OBVIOUS
<1>2. \A m \in 1 .. n : m \in 1 .. Len(s)
  BY <1>1
<1>3. f \in Bijection(1 .. n, F)
  <2>1. f \in [1 .. n -> F]
    BY DEF Firsts
  <2>2. \A a, b \in 1 .. n : f[a] = f[b] => a = b
    BY <1>2 DEF NoRepeats
  <2>3. \A x \in F : \E a \in 1 .. n : f[a] = x
    BY DEF Firsts
  <2> HIDE DEF f, F
  <2> QED
    BY <2>1, <2>2, <2>3 DEF Bijection, Injection, Surjection, IsInjective
<1>4. IsFiniteSet(1 .. n) /\ Cardinality(1 .. n) = n
  <2>1. 1 \in Int /\ n \in Int
    BY <1>1
  <2>2. IsFiniteSet(1 .. n) /\ Cardinality(1 .. n) = IF 1 > n THEN 0 ELSE n - 1 + 1
    BY <2>1, FS_Interval
  <2> QED
    BY <1>1, <2>2
<1> HIDE DEF f, F
<1>5. IsFiniteSet(F) /\ Cardinality(F) = n
  <2>1. ExistsBijection(1 .. n, F)
    BY <1>3 DEF ExistsBijection
  <2> QED
    BY <1>4, <2>1, FS_Bijection
<1>6. F \subseteq ToSet(s)
  BY <1>1, <1>2 DEF F, Firsts, ToSet
<1>7. Firsts(s, Len(s)) = ToSet(s)
  BY <1>1 DEF Firsts, ToSet
<1> QED
  BY <1>5, <1>6, <1>7 DEF F

\* No event behind the first n comes before one of them.
Settled(s, n) ==
  \A k \in n + 1 .. Len(s), m \in 1 .. n : ~ InOrder(Order, s[k], s[m])

\* The two sequences have the same first n events, in whatever order.
SameFirsts(s, q, n) ==
  \A k, m \in 1 .. Len(s) : q[k] = s[m] => (k <= n <=> m <= n)

\* Sorting permutes the events, and those that are settled stay in front.
LEMMA SortedFacts ==
  ASSUME NEW T, NEW s \in Seq(T), NoRepeats(s), NEW n \in 0 .. Len(s), Settled(s, n)
  PROVE  /\ Sorted(s) \in Seq(T) /\ Len(Sorted(s)) = Len(s)
         /\ NoRepeats(Sorted(s)) /\ ToSet(Sorted(s)) = ToSet(s)
         /\ SameFirsts(s, Sorted(s), n)
<1> DEFINE S == ToSet(s)
           q == Sorted(s)
           F == Firsts(s, n)
           At(x) == Puller(s, Order, x)
<1>1. Len(s) \in Nat /\ DOMAIN s = 1 .. Len(s) /\ n \in Nat /\ S \subseteq T
      /\ \A k \in 1 .. Len(s) : s[k] \in S
  BY Members
<1>2. IsFiniteSet(S) /\ Cardinality(S) = Len(s)
  <2>1. Len(s) \in 0 .. Len(s)
    BY <1>1
  <2> QED
    BY <2>1, FirstsCount
<1>3. PICK R : StrictOrder(S, R) /\ \A x, y \in S : <<x, y>> \in R <=> Before(s, Order, x, y)
  BY BeforeIsStrict
<1>4. \A x \in S : {y \in S : Before(s, Order, y, x)} = InFront(S, R, x)
  BY <1>3 DEF InFront
<1>5. q = [k \in 1 .. Len(s) |->
             CHOOSE x \in S : Cardinality({y \in S : Before(s, Order, y, x)}) = k - 1]
  BY <1>1 DEF Sorted, PulledForward
<1>6. \A x, y \in S : Place(S, R, x) = Place(S, R, y) => x = y
  BY <1>2, <1>3, Places
<1>7. EveryPlace(S, R)
  BY <1>2, <1>3, Places
<1>8. \A x \in S : Place(S, R, x) \in 0 .. Len(s) - 1
  BY <1>2, <1>3, Places
<1> HIDE DEF S, q
<1>9. ASSUME NEW k \in 1 .. Len(s) PROVE q[k] \in S /\ Place(S, R, q[k]) = k - 1
  <2>1. k - 1 \in 0 .. Len(s) - 1
    BY <1>1
  <2>2. \E x \in S : Place(S, R, x) = k - 1
    BY <1>2, <1>7, <2>1 DEF EveryPlace
  <2>3. \E x \in S : Cardinality({y \in S : Before(s, Order, y, x)}) = k - 1
    BY <1>4, <2>2 DEF Place
  <2>4. q[k] = CHOOSE x \in S : Cardinality({y \in S : Before(s, Order, y, x)}) = k - 1
    BY <1>5
  <2>5. q[k] \in S /\ Cardinality({y \in S : Before(s, Order, y, q[k])}) = k - 1
    BY <2>3, <2>4
  <2> QED
    BY <1>4, <2>5 DEF Place
<1>10. q \in Seq(T) /\ Len(q) = Len(s) /\ DOMAIN q = 1 .. Len(s)
  <2> DEFINE w(k) == CHOOSE x \in S : Cardinality({y \in S : Before(s, Order, y, x)}) = k - 1
  <2>1. q = [k \in 1 .. Len(s) |-> w(k)]
    BY <1>5
  <2> HIDE DEF w
  <2>2. \A k \in 1 .. Len(s) : w(k) \in T
    BY <1>1, <1>9, <2>1
  <2> QED
    BY <1>1, <2>1, <2>2
<1>11. NoRepeats(q)
  <2>1. ASSUME NEW a \in 1 .. Len(s), NEW b \in 1 .. Len(s), q[a] = q[b] PROVE a = b
    <3>1. a - 1 = b - 1
      BY <1>9, <2>1
    <3> QED
      BY <1>1, <3>1
  <2> QED
    BY <1>10, <2>1 DEF NoRepeats
<1>12. ToSet(q) = S
  <2>1. ASSUME NEW x \in S PROVE \E k \in 1 .. Len(s) : q[k] = x
    <3>1. Place(S, R, x) + 1 \in 1 .. Len(s) /\ (Place(S, R, x) + 1) - 1 = Place(S, R, x)
      BY <1>1, <1>8
    <3>2. q[Place(S, R, x) + 1] = x
      BY <1>6, <1>9, <3>1
    <3> QED
      BY <3>1, <3>2
  <2>2. \A x : x \in ToSet(q) <=> \E k \in 1 .. Len(s) : q[k] = x
    BY <1>10 DEF ToSet
  <2>3. \A x : x \in ToSet(q) <=> x \in S
    BY <1>9, <2>1, <2>2
  <2> QED
    BY <2>3
<1>13. IsFiniteSet(F) /\ Cardinality(F) = n /\ F \subseteq S
  BY FirstsCount DEF S
<1>14. ASSUME NEW m \in 1 .. Len(s) PROVE s[m] \in F <=> m <= n
  <2>1. m <= n => s[m] \in F
    BY <1>1 DEF Firsts
  <2>2. ASSUME s[m] \in F PROVE m <= n
    <3>1. PICK a \in 1 .. n : s[a] = s[m]
      BY <2>2 DEF Firsts
    <3>2. a \in 1 .. Len(s)
      BY <1>1
    <3>3. a = m
      BY <3>1, <3>2 DEF NoRepeats
    <3> QED
      BY <1>1, <3>3
  <2> QED
    BY <2>1, <2>2
<1>15. ASSUME NEW m \in 1 .. Len(s) PROVE At(s[m]) <= n <=> m <= n
  <2> DEFINE a == At(s[m])
  <2>1. /\ a \in 1 .. Len(s) /\ a <= m
        /\ s[a] = s[m] \/ InOrder(Order, s[m], s[a])
    BY <1>1, PullerFacts DEF S
  <2> HIDE DEF a
  <2>2. ASSUME a <= n, ~ (m <= n) PROVE FALSE
    <3>1. m \in n + 1 .. Len(s) /\ a \in 1 .. n
      BY <1>1, <2>1, <2>2
    <3>2. ~ InOrder(Order, s[m], s[a])
      BY <3>1 DEF Settled
    <3>3. a = m
      BY <2>1, <3>2 DEF NoRepeats
    <3> QED
      BY <2>2, <3>3
  <2>3. a <= n <=> m <= n
    BY <1>1, <2>1, <2>2
  <2> QED
    BY <2>3 DEF a
<1>16. ASSUME NEW x \in S PROVE x \in F <=> At(x) <= n
  <2>1. PICK m \in 1 .. Len(s) : s[m] = x
    BY Members DEF S
  <2> QED
    BY <1>14, <1>15, <2>1
<1>17. ASSUME NEW x \in S, x \in F, NEW y \in S, y \notin F PROVE <<x, y>> \in R /\ <<y, x>> \notin R
  <2>1. At(x) <= n /\ ~ (At(y) <= n)
    BY <1>16, <1>17
  <2>2. At(x) \in Nat /\ At(y) \in Nat
    BY PullerFacts DEF S
  <2>3. At(x) < At(y)
    BY <1>1, <2>1, <2>2
  <2>4. <<x, y>> \in R
    BY <1>3, <2>3 DEF Before
  <2> QED
    BY <1>3, <2>4 DEF StrictOrder
<1> HIDE DEF F
<1>18. ASSUME NEW x \in S, x \in F PROVE Place(S, R, x) < n
  <2>1. InFront(S, R, x) \in SUBSET (F \ {x})
    <3>1. ASSUME NEW y \in InFront(S, R, x) PROVE y \in F /\ y # x
      <4>1. y \in S /\ <<y, x>> \in R
        BY DEF InFront
      <4> QED
        BY <1>3, <1>17, <1>18, <4>1 DEF StrictOrder
    <3> QED
      BY <3>1
  <2>2. IsFiniteSet(F \ {x}) /\ Cardinality(F \ {x}) = n - 1
    BY <1>13, <1>18, FS_RemoveElement
  <2>3. Cardinality(InFront(S, R, x)) <= n - 1
    BY <2>1, <2>2, FS_Subset
  <2>4. Place(S, R, x) <= n - 1
    BY <2>3 DEF Place
  <2> QED
    BY <1>1, <1>8, <2>4
<1>19. ASSUME NEW x \in S, x \notin F PROVE n <= Place(S, R, x)
  <2>1. F \in SUBSET InFront(S, R, x)
    BY <1>13, <1>17, <1>19 DEF InFront
  <2>2. InFront(S, R, x) \in SUBSET S
    BY DEF InFront
  <2>3. IsFiniteSet(InFront(S, R, x))
    BY <1>2, <2>2, FS_Subset
  <2>4. n <= Cardinality(InFront(S, R, x))
    BY <1>13, <2>1, <2>3, FS_Subset
  <2> QED
    BY <2>4 DEF Place
<1>20. SameFirsts(s, q, n)
  <2>1. ASSUME NEW k \in 1 .. Len(s), NEW m \in 1 .. Len(s), q[k] = s[m] PROVE k <= n <=> m <= n
    <3>1. q[k] \in S /\ Place(S, R, q[k]) = k - 1
      BY <1>9
    <3>2. q[k] \in F <=> m <= n
      BY <1>14, <2>1
    <3>3. q[k] \in F <=> k - 1 < n
      BY <1>1, <1>18, <1>19, <3>1
    <3> QED
      BY <1>1, <3>2, <3>3
  <2> QED
    BY <2>1 DEF SameFirsts
<1>21. q \in Seq(T) /\ Len(q) = Len(s) /\ NoRepeats(q) /\ ToSet(q) = ToSet(s) /\ SameFirsts(s, q, n)
  BY <1>10, <1>11, <1>12, <1>20 DEF S
<1> QED
  BY <1>21 DEF q

--------------------------------------------------------------------------------
\* enable_registration is running; the events it is to send.
Passing == pass \in Passes
Batch == nr + 1 .. Len(events)

Stage(p) == CASE p = "server" -> 1 [] p = "driver" -> 2 [] p = "listener" -> 3 [] OTHER -> 4

\* The loops have come to the event at k.
Sent(k) ==
  /\ Passing
  /\ \/ Stage(PassOf(events[k])) < Stage(pass)
     \/ PassOf(events[k]) = pass /\ (k < cursor \/ (k = cursor /\ cb # None))

\* Object x is still to be registered by enable_registration.
Waits(x) == ~enabled /\ \E k \in Batch : Constructed(events[k]) = x /\ ~Sent(k)

\* What the listeners have been given.
Hearings == [Listeners -> [Items -> 0 .. HeardBound]]

RegTypeOK ==
  /\ events \in Seq(Items) /\ listeners \in Seq(Listeners) /\ objects \in Seq(Objects)
  /\ enabled \in BOOLEAN /\ permanent \in BOOLEAN /\ cleanup \in BOOLEAN /\ cleaned \in BOOLEAN
  /\ nr \in Nat /\ cursor \in Nat \ {0}
  /\ pass \in Passes \cup {"idle", "exit"} /\ cb \in Objects \cup {None}
  /\ emitted \in SUBSET Objects /\ dead \in SUBSET emitted
  /\ registered \in [Items -> 0 .. HeardBound]
  /\ heard \in [Listeners -> [Items -> 0 .. HeardBound]]

\* Every event stands for another object that has been emitted, and no object of
\* the batch comes before an event of a former one.
EventsOK ==
  /\ \A a, b \in 1 .. Len(events) : Constructed(events[a]) = Constructed(events[b]) => a = b
  /\ \A a \in 1 .. Len(events) : Constructed(events[a]) \in emitted
  /\ ~enabled => nr <= Len(events)
  /\ pass = "idle" /\ ~enabled =>
       \A k \in Batch, m \in 1 .. nr : ~ InOrder(Order, Constructed(events[k]), events[m])

\* The loops run over the batch, whose constructors have been replaced.
LoopOK ==
  /\ Passing => ~enabled /\ cursor \in nr + 1 .. Len(events) + 1
  /\ Passing => \A k \in Batch : events[k] \in Objects
  /\ pass = "exit" => enabled /\ objects # <<>>
  /\ cb # None => Passing /\ cursor <= Len(events) /\ cb = events[cursor] /\ PassOf(cb) = pass

\* What has been emitted is registered once, unless it waits.
SentOK == \A x \in Items : registered[x] = IF x \in emitted /\ ~ Waits(x) THEN 1 ELSE 0

\* The collection and the listeners are what has been registered, without repetitions.
KeptOK ==
  /\ NoneLeft
  /\ \A x \in dead : registered[x] = 1
  /\ NoRepeats(objects) /\ NoRepeats(listeners)
  /\ \A a \in 1 .. Len(objects) : registered[objects[a]] = 1
  /\ \A l \in Listeners : l \in ToSet(listeners) <=> l \notin dead /\ l # cb /\ registered[l] = 1

\* The listener hears of the events of former batches later in its loop.
Late(l, k) ==
  /\ Passing /\ k <= nr
  /\ \E m \in Batch : events[m] = l /\ ~ (pass = "rest" \/ (pass = "listener" /\ m < cursor))

\* A listener that is registered knows the object x.
Knows(l, x) == registered[l] = 1 /\ registered[x] = 1 /\ PassOf(x) = "rest"

\* Each pair of a listener and an object of the rest, as far as both are registered.
HeardOK ==
  /\ \A l \in Listeners, x \in Objects :
       PassOf(x) = "rest" /\ (registered[l] = 0 \/ registered[x] = 0) => heard[l][x] = 0
  /\ cleanup => cleaned
  /\ ~cleaned => \A l \in Listeners \ dead, k \in 1 .. Len(events) :
       events[k] \in Objects /\ Knows(l, events[k])
         => heard[l][events[k]] = IF Late(l, k) THEN 0 ELSE 1

RegInv == RegTypeOK /\ EventsOK /\ LoopOK /\ SentOK /\ KeptOK /\ HeardOK

\* Each object has a pass of its own, and the passes have an order.
LEMMA PassFacts ==
  /\ \A x : PassOf(x) \in Passes
  /\ \A x \in Listeners : PassOf(x) # "rest"
  /\ \A x \in Listeners : PassOf(x) # "listener" => Stage(PassOf(x)) < 3
  /\ Stage("server") = 1 /\ Stage("driver") = 2 /\ Stage("listener") = 3 /\ Stage("rest") = 4
  /\ Passes = {"server", "driver", "listener", "rest"}
  /\ "idle" \notin Passes /\ "exit" \notin Passes
BY DEF PassOf, Passes, Stage

\* What is registered is an object, whether it came as one or as a constructor.
LEMMA ConstructedFacts ==
  /\ \A x \in Objects : Constructed(x) = x /\ x \in Items
  /\ \A y \in Items : Constructed(y) \in Objects /\ (y \in Objects => Constructed(y) = y)
  /\ \A y \in Items : y \notin Objects => y \in Ctors
  /\ Listeners \subseteq Objects /\ None \notin Items
BY RegistrationAssumption DEF Constructed, Items

\* The history counts up to HeardBound.
LEMMA MoreFacts ==
  /\ \A n \in 0 .. HeardBound : More(n) \in 0 .. HeardBound
  /\ More(0) = 1
BY DEF More, HeardBound

\* The object of the event at k is registered.
Came(k) == enabled \/ k <= nr \/ Sent(k)

\* The positions of the events.
LEMMA EventFacts ==
  ASSUME RegTypeOK
  PROVE  /\ Len(events) \in Nat /\ DOMAIN events = 1 .. Len(events)
         /\ \A k \in 1 .. Len(events) : events[k] \in Items /\ events[k] \in ToSet(events)
         /\ \A x \in ToSet(events) : \E k \in 1 .. Len(events) : events[k] = x
         /\ \A k \in Batch : k \in 1 .. Len(events) /\ ~ (k <= nr)
         /\ \A k \in 1 .. Len(events) : k \in Batch \/ k <= nr
<1>1. Len(events) \in Nat /\ DOMAIN events = 1 .. Len(events) /\ nr \in Nat
  BY DEF RegTypeOK
<1>2. \A k \in 1 .. Len(events) : events[k] \in Items /\ events[k] \in ToSet(events)
  BY Members DEF RegTypeOK
<1>3. \A x \in ToSet(events) : \E k \in 1 .. Len(events) : events[k] = x
  BY <1>1 DEF ToSet
<1>4. \A k \in Batch : k \in 1 .. Len(events) /\ ~ (k <= nr)
  BY <1>1 DEF Batch
<1>5. \A k \in 1 .. Len(events) : k \in Batch \/ k <= nr
  BY <1>1 DEF Batch
<1> QED
  BY <1>1, <1>2, <1>3, <1>4, <1>5

\* The objects of the events are registered as far as the loops have come.
LEMMA CameFacts ==
  ASSUME RegTypeOK, EventsOK, SentOK
  PROVE  /\ \A k \in 1 .. Len(events) :
              /\ registered[Constructed(events[k])] = IF Came(k) THEN 1 ELSE 0
              /\ Constructed(events[k]) \in emitted
         /\ enabled => \A x \in Items : registered[x] = IF x \in emitted THEN 1 ELSE 0
<1>1. ASSUME NEW k \in 1 .. Len(events)
      PROVE  /\ registered[Constructed(events[k])] = IF Came(k) THEN 1 ELSE 0
             /\ Constructed(events[k]) \in emitted
  <2>1. Constructed(events[k]) \in Items /\ Constructed(events[k]) \in emitted
    BY EventFacts, ConstructedFacts DEF EventsOK
  <2>2. \A m \in Batch : Constructed(events[m]) = Constructed(events[k]) => m = k
    BY EventFacts DEF EventsOK
  <2>3. Waits(Constructed(events[k])) <=> ~ Came(k)
    BY <2>2, EventFacts DEF Waits, Came
  <2> QED
    BY <2>1, <2>3 DEF SentOK
<1>2. ASSUME enabled, NEW x \in Items PROVE registered[x] = IF x \in emitted THEN 1 ELSE 0
  BY <1>2 DEF SentOK, Waits
<1> QED
  BY <1>1, <1>2

\* Nothing is registered in the beginning.
LEMMA RegStart == Init => RegInv
<1> SUFFICES ASSUME Init PROVE RegInv
  OBVIOUS
<1> USE DEF Init
<1>1. RegTypeOK
  <2>1. registered \in [Items -> 0 .. HeardBound]
    BY DEF HeardBound
  <2>2. [x \in Items |-> 0] \in [Items -> 0 .. HeardBound]
    BY DEF HeardBound
  <2>3. heard \in [Listeners -> [Items -> 0 .. HeardBound]]
    BY <2>2
  <2>4. events \in Seq(Items) /\ listeners \in Seq(Listeners) /\ objects \in Seq(Objects)
    OBVIOUS
  <2>5. nr \in Nat /\ cursor \in Nat \ {0} /\ pass = "idle" /\ cb = None
    OBVIOUS
  <2>6. emitted = {} /\ dead = {}
    OBVIOUS
  <2>7. enabled \in BOOLEAN /\ permanent \in BOOLEAN /\ cleanup \in BOOLEAN /\ cleaned \in BOOLEAN
    OBVIOUS
  <2> HIDE DEF Init
  <2> QED
    BY <2>1, <2>3, <2>4, <2>5, <2>6, <2>7 DEF RegTypeOK
<1>2. EventsOK
  BY DEF EventsOK, Batch
<1>3. LoopOK
  BY DEF LoopOK, Passing, Passes
<1>4. SentOK
  BY DEF SentOK
<1>5. KeptOK
  <2>1. ToSet(<<>>) = {}
    BY DEF ToSet
  <2> QED
    BY <2>1, ConstructedFacts DEF KeptOK, NoneLeft, NoRepeats
<1>6. HeardOK
  BY ConstructedFacts DEF HeardOK
<1> QED
  BY <1>1, <1>2, <1>3, <1>4, <1>5, <1>6 DEF RegInv

\* Appending an element.
LEMMA AppendFacts ==
  ASSUME NEW T, NEW s \in Seq(T), NEW x \in T
  PROVE  /\ Append(s, x) \in Seq(T) /\ Len(Append(s, x)) = Len(s) + 1 /\ Len(s) \in Nat
         /\ Append(s, x)[Len(s) + 1] = x
         /\ \A k \in 1 .. Len(s) : Append(s, x)[k] = s[k]
         /\ ToSet(Append(s, x)) = ToSet(s) \cup {x}
         /\ NoRepeats(s) /\ x \notin ToSet(s) => NoRepeats(Append(s, x))
<1> DEFINE t == Append(s, x)
<1>1. /\ t \in Seq(T) /\ Len(t) = Len(s) + 1 /\ Len(s) \in Nat
      /\ t[Len(s) + 1] = x /\ \A k \in 1 .. Len(s) : t[k] = s[k]
  OBVIOUS
<1> HIDE DEF t
<1>2. \A k \in 1 .. Len(t) : k \in 1 .. Len(s) \/ k = Len(s) + 1
  BY <1>1
<1>3. \A k \in 1 .. Len(s) : k \in 1 .. Len(t) /\ k # Len(s) + 1
  BY <1>1
<1>4. Len(s) + 1 \in 1 .. Len(t)
  BY <1>1
<1>5. \A y : y \in ToSet(t) <=> \E k \in 1 .. Len(t) : t[k] = y
  BY <1>1, Members
<1>6. \A y : y \in ToSet(s) <=> \E k \in 1 .. Len(s) : s[k] = y
  BY Members
<1>7. \A y : y \in ToSet(t) <=> y \in ToSet(s) \/ y = x
  <2>1. ASSUME NEW y, y \in ToSet(t) PROVE y \in ToSet(s) \/ y = x
    BY <1>1, <1>2, <1>5, <1>6, <2>1
  <2>2. ASSUME NEW y, y \in ToSet(s) PROVE y \in ToSet(t)
    BY <1>1, <1>3, <1>5, <1>6, <2>2
  <2>3. x \in ToSet(t)
    BY <1>1, <1>4, <1>5
  <2> QED
    BY <2>1, <2>2, <2>3
<1>8. NoRepeats(s) /\ x \notin ToSet(s) => NoRepeats(t)
  <2>1. SUFFICES ASSUME NoRepeats(s), x \notin ToSet(s), NEW a \in 1 .. Len(t), NEW b \in 1 .. Len(t),
                        t[a] = t[b]
                 PROVE  a = b
    BY DEF NoRepeats
  <2>2. \A k \in 1 .. Len(s) : t[k] = s[k] /\ t[k] # x
    BY <1>1, <1>6, <2>1
  <2> QED
    BY <1>1, <1>2, <2>1, <2>2 DEF NoRepeats
<1>9. ToSet(t) = ToSet(s) \cup {x}
  BY <1>7
<1>10. /\ t \in Seq(T) /\ Len(t) = Len(s) + 1 /\ Len(s) \in Nat
       /\ t[Len(s) + 1] = x /\ \A k \in 1 .. Len(s) : t[k] = s[k]
       /\ ToSet(t) = ToSet(s) \cup {x}
       /\ NoRepeats(s) /\ x \notin ToSet(s) => NoRepeats(t)
  BY <1>1, <1>8, <1>9
<1> QED
  BY <1>10 DEF t

\* Giving a listener the items of a set.
LEMMA GivenFacts ==
  ASSUME NEW h \in Hearings, NEW l \in Listeners, NEW S
  PROVE  /\ Given(h, l, S) \in Hearings
         /\ \A m \in Listeners, x \in Items :
              Given(h, l, S)[m][x] = IF m = l /\ x \in S THEN More(h[m][x]) ELSE h[m][x]
<1> DEFINE w == [x \in Items |-> IF x \in S THEN More(h[l][x]) ELSE h[l][x]]
<1>1. h[l] \in [Items -> 0 .. HeardBound]
  BY DEF Hearings
<1>2. \A x \in Items : h[l][x] \in 0 .. HeardBound
  BY <1>1
<1>3. w \in [Items -> 0 .. HeardBound]
  BY <1>2, MoreFacts
<1>4. \A x \in Items : w[x] = IF x \in S THEN More(h[l][x]) ELSE h[l][x]
  OBVIOUS
<1>5. Given(h, l, S) = [h EXCEPT ![l] = w]
  BY DEF Given
<1> HIDE DEF w
<1>6. Given(h, l, S) \in Hearings
  BY <1>3, <1>5 DEF Hearings
<1>7. Given(h, l, S)[l] = w /\ \A m \in Listeners : m # l => Given(h, l, S)[m] = h[m]
  BY <1>5 DEF Hearings
<1>8. ASSUME NEW m \in Listeners, NEW x \in Items
      PROVE  Given(h, l, S)[m][x] = IF m = l /\ x \in S THEN More(h[m][x]) ELSE h[m][x]
  BY <1>4, <1>7
<1> QED
  BY <1>6, <1>8

\* The object is counted, and given to the listeners of a set.
Counted(r, x) == [r EXCEPT ![x] = More(@)]
Told(h, S, x) == [l \in Listeners |-> IF l \in S THEN [h[l] EXCEPT ![x] = More(@)] ELSE h[l]]

\* What registering an object changes in the history.
LEMMA InternalFacts ==
  ASSUME NEW r \in [Items -> 0 .. HeardBound], NEW h \in Hearings, NEW x \in Items, NEW S
  PROVE  /\ Counted(r, x) \in [Items -> 0 .. HeardBound]
         /\ Counted(r, x)[x] = More(r[x])
         /\ \A y \in Items : y # x => Counted(r, x)[y] = r[y]
         /\ Told(h, S, x) \in Hearings
         /\ \A l \in Listeners, y \in Items :
              Told(h, S, x)[l][y] = IF l \in S /\ y = x THEN More(h[l][y]) ELSE h[l][y]
<1> DEFINE h2 == Told(h, S, x)
<1>1. \A n \in 0 .. HeardBound : More(n) \in 0 .. HeardBound
  BY MoreFacts
<1>2. /\ Counted(r, x) \in [Items -> 0 .. HeardBound]
      /\ Counted(r, x)[x] = More(r[x])
      /\ \A y \in Items : y # x => Counted(r, x)[y] = r[y]
  BY <1>1 DEF Counted
<1>3. h2 = [l \in Listeners |-> IF l \in S THEN [h[l] EXCEPT ![x] = More(@)] ELSE h[l]]
  BY DEF Told
<1> HIDE DEF h2
<1>4. ASSUME NEW l \in Listeners
      PROVE  /\ h2[l] \in [Items -> 0 .. HeardBound]
             /\ \A y \in Items : h2[l][y] = IF l \in S /\ y = x THEN More(h[l][y]) ELSE h[l][y]
  <2>1. h[l] \in [Items -> 0 .. HeardBound]
    BY DEF Hearings
  <2>2. h2[l] = IF l \in S THEN [h[l] EXCEPT ![x] = More(@)] ELSE h[l]
    BY <1>3
  <2> QED
    BY <1>1, <2>1, <2>2
<1>5. h2 \in Hearings
  <2>1. h2 = [l \in Listeners |-> h2[l]]
    BY <1>3
  <2> QED
    BY <1>4, <2>1 DEF Hearings
<1>6. /\ h2 \in Hearings
      /\ \A l \in Listeners, y \in Items :
           h2[l][y] = IF l \in S /\ y = x THEN More(h[l][y]) ELSE h[l][y]
  BY <1>4, <1>5
<1> QED
  BY <1>2, <1>6 DEF h2

--------------------------------------------------------------------------------
\* What a caller brings: an object or a constructor, new in either case.
Arrives(y) ==
  /\ y \in Items /\ MayRegister(Constructed(y))
  /\ pass = "idle" \/ y \in Objects
  /\ emitted' = emitted \cup {Constructed(y)}

\* A new object is registered nowhere and none of the events stands for it.
LEMMA ArrivesFacts ==
  ASSUME RegInv, "callback" \notin Calls, NEW y, Arrives(y)
  PROVE  /\ y \in Items /\ Constructed(y) \in Objects /\ Constructed(y) \in Items
         /\ Constructed(y) \notin emitted /\ Constructed(y) \notin dead
         /\ registered[Constructed(y)] = 0
         /\ \A k \in 1 .. Len(events) : Constructed(events[k]) # Constructed(y)
         /\ y \notin ToSet(events)
         /\ emitted' \in SUBSET Objects /\ dead \in SUBSET emitted'
         /\ pass = "idle" \/ (cb # None /\ Passing /\ PassIsAhead(PassOf(y)) /\ y \in Objects)
<1> USE DEF RegInv
<1>1. y \in Items /\ Constructed(y) \in Objects /\ Constructed(y) \in Items
  BY ConstructedFacts DEF Arrives
<1>2. Constructed(y) \notin emitted
  BY DEF Arrives, MayRegister
<1>3. dead \subseteq emitted /\ emitted \subseteq Objects
  BY DEF RegTypeOK
<1>4. registered[Constructed(y)] = 0
  BY <1>1, <1>2 DEF SentOK
<1>5. \A k \in 1 .. Len(events) : Constructed(events[k]) # Constructed(y)
  BY <1>2 DEF EventsOK
<1>6. y \notin ToSet(events)
  BY <1>5, EventFacts
<1>7. pass = "idle" \/ (cb # None /\ PassIsAhead(PassOf(Constructed(y))) /\ y \in Objects)
  BY DEF Arrives, MayRegister
<1>8. y \in Objects => Constructed(y) = y
  BY ConstructedFacts
<1>9. cb # None => Passing
  BY DEF LoopOK
<1> QED
  BY <1>1, <1>2, <1>3, <1>4, <1>5, <1>6, <1>7, <1>8, <1>9 DEF Arrives

\* register_object while registration is disabled.
LEMMA StoredStep ==
  ASSUME RegInv, "callback" \notin Calls, NEW y, Arrives(y), StoreEvent(y)
  PROVE  RegInv'
<1> DEFINE o == Constructed(y)
<1>1. RegTypeOK /\ EventsOK /\ LoopOK /\ SentOK /\ KeptOK /\ HeardOK
  BY DEF RegInv
<1>0. PICK n \in Nat : n = Len(events)
  BY <1>1, EventFacts
<1>2. /\ y \in Items /\ o \in Objects /\ o \in Items /\ o \notin emitted /\ o \notin dead
      /\ registered[o] = 0 /\ y \notin ToSet(events)
      /\ \A k \in 1 .. n : Constructed(events[k]) # o
      /\ emitted' \in SUBSET Objects /\ dead \in SUBSET emitted'
      /\ pass = "idle" \/ (cb # None /\ Passing /\ PassIsAhead(PassOf(y)) /\ y \in Objects)
  BY <1>0, ArrivesFacts
<1>3. /\ ~ enabled /\ emitted' = emitted \cup {o} /\ events' = Append(events, y)
      /\ listeners' = listeners /\ objects' = objects /\ dead' = dead
      /\ enabled' = enabled /\ permanent' = permanent /\ cleanup' = cleanup /\ nr' = nr
      /\ pass' = pass /\ cursor' = cursor /\ cb' = cb
      /\ registered' = registered /\ heard' = heard /\ cleaned' = cleaned
  BY DEF StoreEvent, Arrives, info, loop
<1>4. /\ events' \in Seq(Items) /\ Len(events') = n + 1 /\ n \in Nat
      /\ events'[n + 1] = y /\ \A k \in 1 .. n : events'[k] = events[k]
      /\ ToSet(events') = ToSet(events) \cup {y}
  BY <1>1, <1>2, <1>3, AppendFacts, <1>0 DEF RegTypeOK
<1> HIDE DEF o
<1>5. nr \in Nat /\ nr <= n
  BY <1>1, <1>3, <1>0 DEF RegTypeOK, EventsOK
<1>6. /\ Batch' = nr + 1 .. n + 1 /\ Batch = nr + 1 .. n
  BY <1>3, <1>4, <1>0 DEF Batch
<1>7. /\ \A k \in Batch : k \in 1 .. n /\ k \in Batch'
      /\ n + 1 \in Batch' /\ \A k \in Batch' : k \in Batch \/ k = n + 1
      /\ \A k \in 1 .. n + 1 : k \in 1 .. n \/ k = n + 1
      /\ \A k \in 1 .. nr : k \in 1 .. n /\ k \in 1 .. n + 1
      /\ ~ (n + 1 \in 1 .. n)
  BY <1>4, <1>5, <1>6
<1>8. \A k \in 1 .. n : Sent(k)' <=> Sent(k)
  BY <1>3, <1>4 DEF Sent, Passing
<1>9. ~ Sent(n + 1)'
  <2>1. CASE pass = "idle"
    BY <1>3, <2>1, PassFacts DEF Sent, Passing
  <2>2. CASE cb # None /\ Passing /\ PassIsAhead(PassOf(y))
    <3>1. cursor <= n /\ cursor \in Nat
      BY <1>1, <2>2, <1>0 DEF LoopOK, RegTypeOK
    <3>2. ~ (n + 1 < cursor) /\ n + 1 # cursor
      BY <1>4, <3>1
    <3>3. ~ (Stage(PassOf(y)) < Stage(pass))
      BY <2>2, PassFacts DEF PassIsAhead, Following, Passing
    <3>4. events'[n + 1] = y /\ pass' = pass /\ cursor' = cursor
      BY <1>3, <1>4
    <3> QED
      BY <3>2, <3>3, <3>4 DEF Sent
  <2> QED
    BY <1>2, <2>1, <2>2
<1>10. RegTypeOK'
  BY <1>1, <1>2, <1>3, <1>4 DEF RegTypeOK
<1>11. EventsOK'
  <2>1. \A a \in 1 .. Len(events') : Constructed(events'[a]) \in emitted'
    BY <1>1, <1>3, <1>4, <1>7, <1>0 DEF EventsOK, o
  <2>2. \A a, b \in 1 .. Len(events') : Constructed(events'[a]) = Constructed(events'[b]) => a = b
    BY <1>1, <1>2, <1>4, <1>7, <1>0 DEF EventsOK, o
  <2>3. nr' <= Len(events')
    BY <1>3, <1>4, <1>5
  <2>4. ASSUME pass = "idle", NEW k \in Batch', NEW m \in 1 .. nr
        PROVE  ~ InOrder(Order, Constructed(events'[k]), events'[m])
    <3>1. events'[m] = events[m] /\ m \in 1 .. n
      BY <1>4, <1>7
    <3>2. CASE k \in Batch
      <4>1. ~ InOrder(Order, Constructed(events[k]), events[m])
        BY <1>1, <1>3, <2>4, <3>2 DEF EventsOK
      <4> QED
        BY <1>4, <1>7, <3>1, <3>2, <4>1
    <3>3. CASE k = n + 1
      <4>1. SUFFICES ASSUME InOrder(Order, o, events[m]) PROVE FALSE
        BY <1>4, <3>1, <3>3 DEF o
      <4>2. PICK a, b \in DOMAIN Order : a <= b /\ Order[a] = o /\ Order[b] = events[m]
        BY <4>1 DEF InOrder
      <4>3. a \in Nat /\ b \in Nat /\ events[m] \in Objects
        BY <4>2, RegistrationAssumption
      <4>4. m \in DOMAIN events /\ m <= nr
        BY <1>1, <1>5, <3>1, <1>0 DEF RegTypeOK
      <4>5. MayRegister(o)
        BY DEF Arrives, o
      <4>6. ~ (a < b)
        BY <1>3, <4>2, <4>4, <4>5 DEF MayRegister
      <4>7. a = b
        BY <4>2, <4>3, <4>6
      <4>8. Constructed(events[m]) = o
        BY <4>2, <4>3, <4>7, ConstructedFacts
      <4> QED
        BY <1>2, <3>1, <4>8
    <3> QED
      BY <1>7, <3>2, <3>3
  <2> QED
    BY <1>3, <2>1, <2>2, <2>3, <2>4 DEF EventsOK
<1>12. LoopOK'
  <2>1. Passing => cursor \in nr + 1 .. Len(events') + 1
    BY <1>1, <1>4, <1>5, <1>0 DEF LoopOK
  <2>2. Passing => \A k \in Batch' : events'[k] \in Objects
    <3>1. Passing => y \in Objects
      BY <1>2, PassFacts DEF Passing
    <3> QED
      BY <1>1, <1>4, <1>7, <3>1 DEF LoopOK
  <2>3. ASSUME cb # None
        PROVE  Passing /\ cursor <= Len(events') /\ cb = events'[cursor] /\ PassOf(cb) = pass
    <3>1. Passing /\ cursor <= n /\ cb = events[cursor] /\ PassOf(cb) = pass /\ cursor \in Nat \ {0}
      BY <1>1, <2>3, <1>0 DEF LoopOK, RegTypeOK
    <3>2. cursor \in 1 .. n /\ cursor <= n + 1
      BY <1>4, <3>1
    <3> QED
      BY <1>4, <3>1, <3>2
  <2> QED
    BY <1>1, <1>3, <2>1, <2>2, <2>3 DEF LoopOK, Passing
<1>13. SentOK'
  <2>1. ASSUME NEW x \in Items PROVE Waits(x)' <=> Waits(x) \/ x = o
    <3>1. ASSUME Waits(x) PROVE Waits(x)'
      <4>1. PICK k \in Batch : Constructed(events[k]) = x /\ ~ Sent(k)
        BY <3>1 DEF Waits
      <4>2. k \in Batch' /\ Constructed(events'[k]) = x /\ ~ Sent(k)'
        BY <1>4, <1>7, <1>8, <4>1
      <4> QED
        BY <1>3, <4>2 DEF Waits
    <3>2. ASSUME x = o PROVE Waits(x)'
      <4>1. n + 1 \in Batch' /\ Constructed(events'[n + 1]) = x /\ ~ Sent(n + 1)'
        BY <1>4, <1>7, <1>9, <3>2 DEF o
      <4> QED
        BY <1>3, <4>1 DEF Waits
    <3>3. ASSUME Waits(x)', x # o PROVE Waits(x)
      <4>1. PICK k \in Batch' : Constructed(events'[k]) = x /\ ~ Sent(k)'
        BY <3>3 DEF Waits
      <4>2. k \in Batch
        BY <1>4, <1>7, <3>3, <4>1 DEF o
      <4>3. Constructed(events[k]) = x /\ ~ Sent(k)
        BY <1>4, <1>7, <1>8, <4>1, <4>2
      <4> QED
        BY <1>3, <4>2, <4>3 DEF Waits
    <3> QED
      BY <3>1, <3>2, <3>3
  <2>2. ASSUME NEW x \in Items
        PROVE  registered'[x] = IF x \in emitted' /\ ~ Waits(x)' THEN 1 ELSE 0
    <3>1. registered[x] = IF x \in emitted /\ ~ Waits(x) THEN 1 ELSE 0
      BY <1>1 DEF SentOK
    <3> QED
      BY <1>2, <1>3, <2>1, <3>1
  <2> QED
    BY <2>2 DEF SentOK
<1>14. KeptOK'
  <2>1. y \notin dead
    <3>1. y \in dead => y = o
      BY <1>1, ConstructedFacts DEF RegTypeOK, o
    <3> QED
      BY <1>2, <3>1
  <2>2. NoneLeft'
    BY <1>1, <1>3, <1>4, <2>1 DEF KeptOK, NoneLeft
  <2> QED
    BY <1>1, <1>3, <2>2 DEF KeptOK
<1>15. HeardOK'
  <2>1. ASSUME NEW l \in Listeners, NEW k \in 1 .. n + 1, events'[k] \in Objects, Knows(l, events'[k])
        PROVE  k \in 1 .. n /\ events'[k] = events[k] /\ (Late(l, k)' <=> Late(l, k))
    <3>1. y \in Objects => registered[y] = 0
      BY <1>2, ConstructedFacts DEF o
    <3>2. k # n + 1
      BY <1>4, <2>1, <3>1 DEF Knows
    <3>3. k \in 1 .. n /\ events'[k] = events[k]
      BY <1>4, <1>7, <3>2
    <3>4. l # y
      BY <2>1, <3>1, ConstructedFacts DEF Knows
    <3>5. \A m \in Batch' : events'[m] = l => m \in Batch
      BY <1>4, <1>7, <3>4
    <3>6. Late(l, k)' <=> Late(l, k)
      BY <1>3, <1>4, <1>7, <3>5 DEF Late, Passing
    <3> QED
      BY <3>3, <3>6
  <2>2. ASSUME ~ cleaned, NEW l \in Listeners \ dead, NEW k \in 1 .. n + 1,
               events'[k] \in Objects, Knows(l, events'[k])
        PROVE  heard[l][events'[k]] = IF Late(l, k)' THEN 0 ELSE 1
    <3>1. k \in 1 .. n /\ events'[k] = events[k] /\ (Late(l, k)' <=> Late(l, k))
      BY <2>1, <2>2
    <3>2. heard[l][events[k]] = IF Late(l, k) THEN 0 ELSE 1
      BY <1>1, <2>2, <3>1, <1>0 DEF HeardOK
    <3> QED
      BY <3>1, <3>2
  <2>3. \A l, x : Knows(l, x)' <=> Knows(l, x)
    BY <1>3 DEF Knows
  <2> QED
    BY <1>1, <1>3, <1>4, <2>2, <2>3 DEF HeardOK
<1> QED
  BY <1>10, <1>11, <1>12, <1>13, <1>14, <1>15 DEF RegInv

\* register_object while registration is enabled.
LEMMA EnteredStep ==
  ASSUME RegInv, "callback" \notin Calls, NEW y, Arrives(y), RegisterNow(y)
  PROVE  RegInv'
<1> DEFINE o == Constructed(y)
<1>1. RegTypeOK /\ EventsOK /\ LoopOK /\ SentOK /\ KeptOK /\ HeardOK
  BY DEF RegInv
<1>2. /\ y \in Items /\ o \in Objects /\ o \in Items /\ o \notin emitted /\ o \notin dead
      /\ registered[o] = 0 /\ y \notin ToSet(events)
      /\ \A k \in 1 .. Len(events) : Constructed(events[k]) # o
      /\ emitted' \in SUBSET Objects /\ dead \in SUBSET emitted'
      /\ pass = "idle" \/ (cb # None /\ Passing /\ PassIsAhead(PassOf(y)) /\ y \in Objects)
  BY ArrivesFacts
<1>3. PICK L : L = IF o \in Listeners THEN Append(listeners, o) ELSE listeners
  OBVIOUS
<1>4. PICK E : E = IF cleanup THEN events ELSE Append(events, y)
  OBVIOUS
<1>5. PICK h : h = IF o \in Listeners THEN Given(heard, o, ToSet(E)) ELSE heard
  OBVIOUS
<1>6. /\ enabled /\ emitted' = emitted \cup {o} /\ events' = E /\ listeners' = L
      /\ RegisterInternal(o, L, h) /\ dead' = dead
      /\ enabled' = enabled /\ permanent' = permanent /\ cleanup' = cleanup /\ nr' = nr
      /\ pass' = pass /\ cursor' = cursor /\ cb' = cb /\ cleaned' = cleaned
  BY <1>3, <1>4, <1>5 DEF RegisterNow, Arrives, info, loop
<1> HIDE DEF o
<1>7. ~ Passing /\ cb = None /\ pass = "idle"
  BY <1>1, <1>2, <1>6 DEF LoopOK
<1>8. /\ registered' \in [Items -> 0 .. HeardBound] /\ registered'[o] = 1
      /\ \A x \in Items : x # o => registered'[x] = registered[x]
      /\ heard' \in Hearings /\ h \in Hearings
      /\ \A l \in Listeners, x \in Items :
           heard'[l][x] = IF l \in ToSet(L) /\ x = o THEN More(h[l][x]) ELSE h[l][x]
      /\ \A l \in Listeners, x \in Items :
           h[l][x] = IF l = o /\ x \in ToSet(E) THEN More(heard[l][x]) ELSE heard[l][x]
      /\ objects' = IF permanent THEN Append(objects, o) ELSE objects
  <2>1. heard \in Hearings /\ registered \in [Items -> 0 .. HeardBound]
    BY <1>1 DEF RegTypeOK, Hearings
  <2>2. /\ h \in Hearings
        /\ \A l \in Listeners, x \in Items :
             h[l][x] = IF l = o /\ x \in ToSet(E) THEN More(heard[l][x]) ELSE heard[l][x]
    <3>1. CASE o \in Listeners
      BY <1>5, <2>1, <3>1, GivenFacts
    <3>2. CASE o \notin Listeners
      BY <1>5, <2>1, <3>2
    <3> QED
      BY <3>1, <3>2
  <2>3. /\ registered' = Counted(registered, o)
        /\ heard' = Told(h, ToSet(L), o)
        /\ objects' = IF permanent THEN Append(objects, o) ELSE objects
    BY <1>6 DEF RegisterInternal, Counted, Told
  <2>4. /\ registered' \in [Items -> 0 .. HeardBound] /\ registered'[o] = More(registered[o])
        /\ \A x \in Items : x # o => registered'[x] = registered[x]
        /\ heard' \in Hearings
        /\ \A l \in Listeners, x \in Items :
             heard'[l][x] = IF l \in ToSet(L) /\ x = o THEN More(h[l][x]) ELSE h[l][x]
    BY <1>2, <2>1, <2>2, <2>3, InternalFacts
  <2> QED
    BY <1>2, <2>2, <2>3, <2>4, MoreFacts
<1>9. /\ events' \in Seq(Items)
      /\ \A k \in 1 .. Len(events') :
           \/ k \in 1 .. Len(events) /\ events'[k] = events[k]
           \/ k = Len(events) + 1 /\ events'[k] = y
      /\ \A x \in ToSet(events') : x \in ToSet(events) \/ x = y
      /\ Len(events) \in Nat
  <2>1. events \in Seq(Items) /\ Len(events) \in Nat
    BY <1>1, EventFacts DEF RegTypeOK
  <2>2. CASE cleanup
    BY <1>4, <1>6, <2>1, <2>2
  <2>3. CASE ~ cleanup
    <3>1. events' = Append(events, y)
      BY <1>4, <1>6, <2>3
    <3>2. /\ events' \in Seq(Items) /\ Len(events') = Len(events) + 1
          /\ events'[Len(events) + 1] = y
          /\ \A k \in 1 .. Len(events) : events'[k] = events[k]
          /\ ToSet(events') = ToSet(events) \cup {y}
      BY <1>2, <2>1, <3>1, AppendFacts
    <3>3. \A k \in 1 .. Len(events') : k \in 1 .. Len(events) \/ k = Len(events) + 1
      BY <2>1, <3>2
    <3> QED
      BY <2>1, <3>2, <3>3
  <2> QED
    BY <2>2, <2>3
<1>10. ToSet(events') = ToSet(E) /\ (~ cleanup => y \in ToSet(E) /\ \A x \in ToSet(events) : x \in ToSet(E))
  <2>1. ~ cleanup => ToSet(E) = ToSet(events) \cup {y}
    BY <1>1, <1>2, <1>4, AppendFacts DEF RegTypeOK
  <2> QED
    BY <1>6, <2>1
<1>11. /\ objects' \in Seq(Objects) /\ NoRepeats(objects')
       /\ \A x \in ToSet(objects') : x \in ToSet(objects) \/ x = o
  <2>1. objects \in Seq(Objects) /\ NoRepeats(objects)
    BY <1>1 DEF RegTypeOK, KeptOK
  <2>2. o \notin ToSet(objects)
    <3>1. \A x \in ToSet(objects) : \E a \in 1 .. Len(objects) : objects[a] = x
      BY <2>1, Members
    <3> QED
      BY <1>1, <1>2, <3>1 DEF KeptOK
  <2> QED
    BY <1>2, <1>8, <2>1, <2>2, AppendFacts
<1>12. /\ listeners' \in Seq(Listeners) /\ NoRepeats(listeners')
       /\ \A l \in Listeners : l \in ToSet(listeners') <=> l \in ToSet(listeners) \/ l = o
       /\ ToSet(listeners') \subseteq Listeners
  <2>1. listeners \in Seq(Listeners) /\ NoRepeats(listeners)
    BY <1>1 DEF RegTypeOK, KeptOK
  <2>2. o \in Listeners => o \notin ToSet(listeners)
    BY <1>1, <1>2 DEF KeptOK
  <2>3. o \in Listeners =>
          /\ listeners' \in Seq(Listeners) /\ NoRepeats(listeners')
          /\ ToSet(listeners') = ToSet(listeners) \cup {o}
    BY <1>3, <1>6, <2>1, <2>2, AppendFacts
  <2>4. o \notin Listeners => listeners' = listeners
    BY <1>3, <1>6
  <2>5. ToSet(listeners) \subseteq Listeners
    BY <2>1, Members
  <2> QED
    BY <2>1, <2>3, <2>4, <2>5
<1>13. RegTypeOK'
  <2>1. heard' \in [Listeners -> [Items -> 0 .. HeardBound]]
    BY <1>8 DEF Hearings
  <2> QED
    BY <1>1, <1>2, <1>6, <1>8, <1>9, <1>11, <1>12, <2>1 DEF RegTypeOK
<1>14. EventsOK'
  <2>1. \A a \in 1 .. Len(events') : Constructed(events'[a]) \in emitted'
    BY <1>1, <1>6, <1>9 DEF EventsOK, o
  <2>2. \A a, b \in 1 .. Len(events') : Constructed(events'[a]) = Constructed(events'[b]) => a = b
    BY <1>1, <1>2, <1>9 DEF EventsOK, o
  <2> QED
    BY <1>6, <2>1, <2>2 DEF EventsOK
<1>15. LoopOK'
  <2>1. pass' = "idle" /\ cb' = None /\ ~ Passing'
    BY <1>6, <1>7 DEF Passing
  <2> QED
    BY <1>6, <2>1 DEF LoopOK
<1>16. SentOK'
  <2>1. ASSUME NEW x \in Items PROVE registered'[x] = IF x \in emitted' THEN 1 ELSE 0
    <3>1. registered[x] = IF x \in emitted THEN 1 ELSE 0
      BY <1>1, <1>6, CameFacts
    <3> QED
      BY <1>6, <1>8, <3>1
  <2> QED
    BY <1>6, <2>1 DEF SentOK, Waits
<1>17. KeptOK'
  <2>1. NoneLeft'
    <3>1. ASSUME NEW x \in dead PROVE x \notin ToSet(events') \cup ToSet(listeners') \cup ToSet(objects')
      <4>1. x \notin ToSet(events) /\ x \notin ToSet(listeners) /\ x \notin ToSet(objects) /\ x # o
        BY <1>1, <1>2 DEF KeptOK, NoneLeft
      <4>2. x # y
        BY <1>1, <4>1, ConstructedFacts DEF RegTypeOK, o
      <4> QED
        BY <1>9, <1>11, <1>12, <4>1, <4>2
    <3> QED
      BY <1>6, <3>1 DEF NoneLeft
  <2>2. \A x \in dead' : registered'[x] = 1
    <3>1. \A x \in dead : x \in Items /\ x # o /\ registered[x] = 1
      BY <1>1, <1>2, ConstructedFacts DEF KeptOK, RegTypeOK
    <3> QED
      BY <1>6, <1>8, <3>1
  <2>3. \A a \in 1 .. Len(objects') : registered'[objects'[a]] = 1
    <3>1. ASSUME NEW x \in ToSet(objects) PROVE x \in Items /\ registered[x] = 1
      <4>1. objects \in Seq(Objects)
        BY <1>1 DEF RegTypeOK
      <4>2. PICK a \in 1 .. Len(objects) : objects[a] = x
        BY <4>1, Members
      <4>3. x \in Objects
        BY <4>1, <4>2, Members
      <4> QED
        BY <1>1, <4>2, <4>3, ConstructedFacts DEF KeptOK
    <3>2. \A a \in 1 .. Len(objects') : objects'[a] \in ToSet(objects')
      BY <1>11, Members
    <3> QED
      BY <1>8, <1>11, <3>1, <3>2
  <2>4. ASSUME NEW l \in Listeners
        PROVE  l \in ToSet(listeners') <=> l \notin dead' /\ l # cb' /\ registered'[l] = 1
    <3>1. l \in ToSet(listeners) <=> l \notin dead /\ l # cb /\ registered[l] = 1
      BY <1>1 DEF KeptOK
    <3>2. l # None /\ l \in Items
      BY ConstructedFacts
    <3> QED
      BY <1>2, <1>6, <1>7, <1>8, <1>12, <3>1, <3>2
  <2> QED
    BY <1>11, <1>12, <2>1, <2>2, <2>3, <2>4 DEF KeptOK
<1>18. HeardOK'
  <2>1. \A x \in Objects : x \in ToSet(events) => registered[x] = 1
    <3>1. ASSUME NEW x \in Objects, x \in ToSet(events) PROVE registered[x] = 1
      <4>1. PICK k \in 1 .. Len(events) : events[k] = x
        BY <1>1, <3>1, EventFacts
      <4>2. Constructed(events[k]) = x
        BY <4>1, ConstructedFacts
      <4> QED
        BY <1>1, <1>6, <4>1, <4>2, CameFacts DEF Came
    <3> QED
      BY <3>1
  <2>2. ASSUME NEW l \in Listeners, NEW x \in Objects, PassOf(x) = "rest",
               registered'[l] = 0 \/ registered'[x] = 0
        PROVE  heard'[l][x] = 0
    <3>1. l \in Items /\ x \in Items /\ l # x
      BY <2>2, PassFacts, ConstructedFacts
    <3>2. heard[l][x] = 0
      BY <1>1, <1>2, <1>8, <2>2, <3>1 DEF HeardOK
    <3>3. CASE l = o
      <4>1. registered'[x] = 0 /\ registered[x] = 0
        BY <1>8, <2>2, <3>1, <3>3
      <4>2. x \notin ToSet(events) /\ x # o
        BY <2>1, <3>1, <3>3, <4>1
      <4>3. x # y
        BY <4>2, ConstructedFacts DEF o
      <4>4. x \notin ToSet(E)
        BY <1>9, <1>10, <4>2, <4>3
      <4> QED
        BY <1>8, <3>1, <3>2, <4>2, <4>4
    <3>4. CASE l # o
      <4>1. h[l][x] = 0
        BY <1>8, <3>1, <3>2, <3>4
      <4>2. l \in ToSet(L) => x # o
        <5>1. SUFFICES ASSUME x = o, l \in ToSet(L) PROVE FALSE
          OBVIOUS
        <5>2. registered'[l] = 0 /\ registered[l] = 0
          BY <1>8, <2>2, <3>1, <3>4, <5>1
        <5>3. l \in ToSet(listeners)
          BY <1>6, <1>12, <3>4, <5>1
        <5> QED
          BY <1>1, <5>2, <5>3 DEF KeptOK
      <4> QED
        BY <1>8, <3>1, <4>1, <4>2
    <3> QED
      BY <3>3, <3>4
  <2>3. cleanup' => cleaned'
    BY <1>1, <1>6 DEF HeardOK
  <2>4. ASSUME ~ cleaned, NEW l \in Listeners \ dead, NEW k \in 1 .. Len(events'),
               events'[k] \in Objects, Knows(l, events[k])'
        PROVE  heard'[l][events'[k]] = 1
    <3>1. PICK x \in Objects : x = events'[k]
      BY <2>4
    <3>2. /\ l \in Items /\ x \in Items /\ l # x /\ l # None
          /\ registered'[l] = 1 /\ registered'[x] = 1 /\ PassOf(x) = "rest"
      BY <2>4, <3>1, PassFacts, ConstructedFacts DEF Knows
    <3>3. ~ cleanup
      BY <1>1, <2>4 DEF HeardOK
    <3>4. x \in ToSet(E)
      BY <1>9, <1>10, <3>1, Members
    <3>5. CASE l = o
      <4>1. heard[l][x] = 0
        BY <1>1, <1>2, <3>2, <3>5 DEF HeardOK
      <4>2. h[l][x] = 1
        BY <1>8, <3>2, <3>4, <3>5, <4>1, MoreFacts
      <4> QED
        BY <1>8, <3>1, <3>2, <3>5, <4>2
    <3>6. CASE x = o
      <4>1. registered[l] = 1
        BY <1>8, <3>2, <3>6
      <4>2. l \in ToSet(L)
        BY <1>1, <1>6, <1>7, <1>12, <2>4, <3>2, <4>1 DEF KeptOK
      <4>3. heard[l][x] = 0
        BY <1>1, <1>2, <3>2, <3>6 DEF HeardOK
      <4>4. h[l][x] = 0
        BY <1>8, <3>2, <3>6, <4>3
      <4> QED
        BY <1>8, <3>1, <3>2, <3>6, <4>2, <4>4, MoreFacts
    <3>7. CASE l # o /\ x # o
      <4>1. x # y
        BY <3>7, ConstructedFacts DEF o
      <4>2. k \in 1 .. Len(events) /\ events[k] = x
        BY <1>9, <3>1, <4>1
      <4>3. registered[l] = 1 /\ registered[x] = 1
        BY <1>8, <3>2, <3>7
      <4>4. ~ Late(l, k)
        BY <1>7 DEF Late
      <4>5. heard[l][x] = 1
        BY <1>1, <2>4, <3>2, <4>2, <4>3, <4>4 DEF HeardOK, Knows
      <4> QED
        BY <1>8, <3>1, <3>2, <3>7, <4>5
    <3> QED
      BY <3>5, <3>6, <3>7
  <2>5. \A l, k : ~ Late(l, k)'
    BY <1>6, <1>7 DEF Late, Passing
  <2> QED
    BY <1>6, <2>2, <2>3, <2>4, <2>5 DEF HeardOK
<1> QED
  BY <1>13, <1>14, <1>15, <1>16, <1>17, <1>18 DEF RegInv

--------------------------------------------------------------------------------
\* The list that is sorted: constructors of the batch are replaced.
Replaced == [i \in DOMAIN events |-> IF i > nr THEN Constructed(events[i]) ELSE events[i]]

\* Sequence q has the events in an order of its own, former batches still in front.
Reordered(q) ==
  /\ \A k \in 1 .. Len(events) : \E m \in 1 .. Len(events) :
       /\ Constructed(q[k]) = Constructed(events[m]) /\ (k <= nr <=> m <= nr)
       /\ q[k] = IF k <= nr THEN events[m] ELSE Constructed(events[m])
  /\ \A m \in 1 .. Len(events) : \E k \in 1 .. Len(events) :
       Constructed(q[k]) = Constructed(events[m]) /\ (k <= nr <=> m <= nr)

\* Sorting the list neither loses events nor mixes former batches with the new one.
LEMMA ReplacedFacts ==
  ASSUME RegTypeOK, EventsOK, ~ enabled, pass = "idle", NEW q, q = Sorted(Replaced)
  PROVE  /\ q \in Seq(Items) /\ Len(q) = Len(events) /\ NoRepeats(q)
         /\ Reordered(q)
         /\ \A a, b \in 1 .. Len(q) : Constructed(q[a]) = Constructed(q[b]) => a = b
<1>0. PICK n \in Nat : n = Len(events)
  BY EventFacts
<1>1. nr \in Nat /\ nr \in 0 .. n /\ \A k \in 1 .. n : k \in Nat
  BY <1>0 DEF RegTypeOK, EventsOK
<1>2. PICK S : S = Replaced
  OBVIOUS
<1>3. /\ S = [i \in 1 .. n |-> IF i > nr THEN Constructed(events[i]) ELSE events[i]]
      /\ \A k \in 1 .. n : events[k] \in Items
  BY <1>0, <1>2, EventFacts DEF Replaced
<1>4. /\ S \in Seq(Items) /\ Len(S) = n
      /\ \A k \in 1 .. n : /\ S[k] \in Items
                           /\ S[k] = IF k <= nr THEN events[k] ELSE Constructed(events[k])
  <2>1. \A k \in 1 .. n : (IF k > nr THEN Constructed(events[k]) ELSE events[k]) \in Items
    BY <1>3, ConstructedFacts
  <2>2. S \in [1 .. n -> Items]
    BY <1>3, <2>1
  <2>3. S \in Seq(Items) /\ Len(S) = n
    BY <1>0, <2>2
  <2>4. \A k \in 1 .. n : S[k] = IF k > nr THEN Constructed(events[k]) ELSE events[k]
    BY <1>3
  <2>5. \A k \in 1 .. n : k > nr <=> ~ (k <= nr)
    BY <1>1
  <2> QED
    BY <2>2, <2>3, <2>4, <2>5
<1>5. \A k \in 1 .. n : Constructed(S[k]) = Constructed(events[k])
  BY <1>3, <1>4, ConstructedFacts
<1>6. \A a, b \in 1 .. n : Constructed(S[a]) = Constructed(S[b]) => a = b
  BY <1>0, <1>5 DEF EventsOK
<1>7. NoRepeats(S)
  BY <1>4, <1>6 DEF NoRepeats
<1>8. Settled(S, nr)
  <2>1. ASSUME NEW k \in nr + 1 .. Len(S), NEW m \in 1 .. nr PROVE ~ InOrder(Order, S[k], S[m])
    <3>1. k \in Batch /\ k \in 1 .. n /\ m \in 1 .. n /\ ~ (k <= nr) /\ m <= nr
      BY <1>0, <1>1, <1>4 DEF Batch
    <3>2. S[k] = Constructed(events[k]) /\ S[m] = events[m]
      BY <1>4, <3>1
    <3> QED
      BY <3>1, <3>2 DEF EventsOK
  <2> QED
    BY <2>1 DEF Settled
<1>9. /\ q \in Seq(Items) /\ Len(q) = n /\ NoRepeats(q) /\ ToSet(q) = ToSet(S)
      /\ SameFirsts(S, q, nr)
  BY <1>1, <1>2, <1>4, <1>7, <1>8, SortedFacts
<1>10. ASSUME NEW k \in 1 .. n
       PROVE  \E m \in 1 .. n : q[k] = S[m] /\ (k <= nr <=> m <= nr)
  <2>1. q[k] \in ToSet(S)
    BY <1>9, Members
  <2>2. PICK m \in 1 .. n : S[m] = q[k]
    BY <1>4, <2>1, Members
  <2> QED
    BY <1>4, <1>9, <2>2 DEF SameFirsts
<1>11. ASSUME NEW m \in 1 .. n
       PROVE  \E k \in 1 .. n : q[k] = S[m] /\ (k <= nr <=> m <= nr)
  <2>1. S[m] \in ToSet(q)
    BY <1>4, <1>9, Members
  <2>2. PICK k \in 1 .. n : q[k] = S[m]
    BY <1>9, <2>1, Members
  <2> QED
    BY <1>4, <1>9, <2>2 DEF SameFirsts
<1>12. ASSUME NEW a \in 1 .. n, NEW b \in 1 .. n, Constructed(q[a]) = Constructed(q[b])
       PROVE  a = b
  <2>1. PICK c \in 1 .. n : q[a] = S[c]
    BY <1>10
  <2>2. PICK e \in 1 .. n : q[b] = S[e]
    BY <1>10
  <2>3. c = e
    BY <1>6, <1>12, <2>1, <2>2
  <2> QED
    BY <1>9, <2>1, <2>2, <2>3 DEF NoRepeats
<1>13. ASSUME NEW k \in 1 .. n
       PROVE  \E m \in 1 .. n :
              /\ Constructed(q[k]) = Constructed(events[m]) /\ (k <= nr <=> m <= nr)
              /\ q[k] = IF k <= nr THEN events[m] ELSE Constructed(events[m])
  <2>1. PICK m \in 1 .. n : q[k] = S[m] /\ (k <= nr <=> m <= nr)
    BY <1>10
  <2> QED
    BY <1>4, <1>5, <2>1
<1>14. ASSUME NEW m \in 1 .. n
       PROVE  \E k \in 1 .. n : Constructed(q[k]) = Constructed(events[m]) /\ (k <= nr <=> m <= nr)
  BY <1>5, <1>11
<1>15. Reordered(q)
  BY <1>0, <1>13, <1>14 DEF Reordered
<1> QED
  BY <1>0, <1>9, <1>12, <1>15

\* enable_registration begins: all objects of the batch wait, in the order of the list.
LEMMA EnableStart ==
  ASSUME RegInv, EnableRegistration
  PROVE  RegInv'
<1>1. RegTypeOK /\ EventsOK /\ LoopOK /\ SentOK /\ KeptOK /\ HeardOK
  BY DEF RegInv
<1>0. PICK n \in Nat : n = Len(events)
  BY <1>1, EventFacts
<1>2. /\ ~ enabled /\ pass = "idle" /\ pass' = "server" /\ cursor' = nr + 1
      /\ listeners' = listeners /\ objects' = objects /\ cb' = cb
      /\ enabled' = enabled /\ permanent' = permanent /\ cleanup' = cleanup /\ nr' = nr
      /\ emitted' = emitted /\ dead' = dead
      /\ registered' = registered /\ heard' = heard /\ cleaned' = cleaned
      /\ events' = Sorted(Replaced)
  BY DEF EnableRegistration, info, history, Replaced
<1>3. PICK q : q = Sorted(Replaced)
  OBVIOUS
<1>4. /\ q \in Seq(Items) /\ Len(q) = n /\ NoRepeats(q)
      /\ \A k \in 1 .. n : \E m \in 1 .. n :
           /\ Constructed(q[k]) = Constructed(events[m]) /\ (k <= nr <=> m <= nr)
           /\ q[k] = IF k <= nr THEN events[m] ELSE Constructed(events[m])
      /\ \A m \in 1 .. n : \E k \in 1 .. n :
           Constructed(q[k]) = Constructed(events[m]) /\ (k <= nr <=> m <= nr)
      /\ \A a, b \in 1 .. n : Constructed(q[a]) = Constructed(q[b]) => a = b
  <2>1. /\ q \in Seq(Items) /\ Len(q) = Len(events) /\ NoRepeats(q) /\ Reordered(q)
        /\ \A a, b \in 1 .. Len(q) : Constructed(q[a]) = Constructed(q[b]) => a = b
    BY <1>1, <1>2, <1>3, ReplacedFacts
  <2> QED
    BY <1>0, <2>1 DEF Reordered
<1>5. events' = q
  BY <1>2, <1>3
<1>6. nr \in 0 .. n /\ nr \in Nat /\ Batch = nr + 1 .. n /\ Batch' = nr + 1 .. n
  BY <1>0, <1>1, <1>2, <1>4, <1>5 DEF RegTypeOK, EventsOK, Batch
<1>7. /\ \A k \in Batch : k \in 1 .. n /\ ~ (k <= nr) /\ k \in Batch'
      /\ \A k \in 1 .. n : k \in Batch' \/ k <= nr
      /\ Batch' = Batch
  BY <1>6
<1>8. ~ Passing /\ cb = None /\ Passing'
  BY <1>1, <1>2, PassFacts DEF LoopOK, Passing
<1>9. \A k \in Batch : ~ Sent(k) /\ ~ Sent(k)'
  <2>1. ASSUME NEW k \in Batch PROVE ~ Sent(k)'
    <3>1. PICK p \in Passes : p = PassOf(q[k])
      BY PassFacts
    <3>2. ~ (Stage(p) < Stage("server"))
      BY <3>1, PassFacts
    <3>3. ~ (k < nr + 1)
      BY <1>6
    <3> QED
      BY <1>2, <1>5, <1>8, <3>1, <3>2, <3>3 DEF Sent
  <2> QED
    BY <1>8, <2>1 DEF Sent
<1>10. \A k \in 1 .. n : registered[Constructed(events[k])] = IF k <= nr THEN 1 ELSE 0
  BY <1>0, <1>1, <1>2, <1>7, <1>8, CameFacts DEF Came, Sent
<1>11. \A k \in 1 .. n : registered[Constructed(q[k])] = IF k <= nr THEN 1 ELSE 0
  <2>1. ASSUME NEW k \in 1 .. n PROVE registered[Constructed(q[k])] = IF k <= nr THEN 1 ELSE 0
    <3>1. PICK m \in 1 .. n : Constructed(q[k]) = Constructed(events[m]) /\ (k <= nr <=> m <= nr)
      BY <1>4
    <3> QED
      BY <1>10, <3>1
  <2> QED
    BY <2>1
<1>12. RegTypeOK'
  <2>1. nr + 1 \in Nat \ {0}
    BY <1>6
  <2> QED
    BY <1>1, <1>2, <1>4, <1>5, <2>1, PassFacts DEF RegTypeOK
<1>13. EventsOK'
  <2>1. \A k \in 1 .. n : Constructed(q[k]) \in emitted
    BY <1>0, <1>1, <1>4 DEF EventsOK
  <2>2. nr <= n
    BY <1>6
  <2> QED
    BY <1>2, <1>4, <1>5, <2>1, <2>2 DEF EventsOK
<1>14. LoopOK'
  <2>1. \A k \in Batch : q[k] \in Objects
    <3>1. ASSUME NEW k \in Batch PROVE q[k] \in Objects
      <4>1. PICK m \in 1 .. n : q[k] = Constructed(events[m])
        BY <1>4, <1>7
      <4> QED
        BY <1>0, <1>1, <4>1, EventFacts, ConstructedFacts
    <3> QED
      BY <3>1
  <2>2. nr + 1 \in nr + 1 .. n + 1
    BY <1>6
  <2> QED
    BY <1>2, <1>4, <1>5, <1>7, <1>8, <2>1, <2>2 DEF LoopOK
<1>15. SentOK'
  <2>1. ASSUME NEW x \in Items PROVE Waits(x)' <=> Waits(x)
    <3>1. Waits(x) <=> \E k \in Batch : Constructed(events[k]) = x
      BY <1>2, <1>9 DEF Waits
    <3>2. Waits(x)' <=> \E k \in Batch : Constructed(q[k]) = x
      BY <1>2, <1>5, <1>7, <1>9 DEF Waits
    <3>3. ASSUME NEW k \in Batch, Constructed(events[k]) = x
          PROVE  \E m \in Batch : Constructed(q[m]) = x
      BY <1>4, <1>7, <3>3
    <3>4. ASSUME NEW k \in Batch, Constructed(q[k]) = x
          PROVE  \E m \in Batch : Constructed(events[m]) = x
      BY <1>4, <1>7, <3>4
    <3> QED
      BY <3>1, <3>2, <3>3, <3>4
  <2> QED
    BY <1>1, <1>2, <2>1 DEF SentOK
<1>16. KeptOK'
  <2>1. ASSUME NEW x \in ToSet(q) PROVE x \notin dead
    <3>1. PICK k \in 1 .. n : q[k] = x
      BY <1>4, Members
    <3>2. PICK m \in 1 .. n : /\ (k <= nr <=> m <= nr)
                              /\ q[k] = IF k <= nr THEN events[m] ELSE Constructed(events[m])
      BY <1>4
    <3>3. CASE k <= nr
      <4>1. x \in ToSet(events)
        BY <1>0, <1>1, <3>1, <3>2, <3>3, EventFacts
      <4> QED
        BY <1>1, <4>1 DEF KeptOK, NoneLeft
    <3>4. CASE ~ (k <= nr)
      <4>1. registered[x] = 0
        BY <1>10, <3>1, <3>2, <3>4
      <4> QED
        BY <1>1, <4>1 DEF KeptOK
    <3> QED
      BY <3>3, <3>4
  <2>2. NoneLeft'
    BY <1>1, <1>2, <1>5, <2>1 DEF KeptOK, NoneLeft
  <2> QED
    BY <1>1, <1>2, <2>2 DEF KeptOK
<1>17. HeardOK'
  <2>1. ASSUME ~ cleaned, NEW l \in Listeners \ dead, NEW k \in 1 .. n,
               q[k] \in Objects, Knows(l, q[k])
        PROVE  heard[l][q[k]] = 1 /\ ~ Late(l, k)'
    <3>1. k <= nr
      BY <1>11, <2>1, ConstructedFacts DEF Knows
    <3>2. PICK m \in 1 .. n : q[k] = events[m]
      BY <1>4, <3>1
    <3>3. ~ Late(l, m)
      BY <1>8 DEF Late
    <3>4. heard[l][q[k]] = 1
      BY <1>0, <1>1, <2>1, <3>2, <3>3 DEF HeardOK
    <3>5. \A a \in Batch : q[a] # l
      BY <1>7, <1>11, <2>1, ConstructedFacts DEF Knows
    <3>6. ~ Late(l, k)'
      BY <1>5, <1>7, <3>5 DEF Late
    <3> QED
      BY <3>4, <3>6
  <2>3. \A l \in Listeners, x \in Objects :
          PassOf(x) = "rest" /\ (registered'[l] = 0 \/ registered'[x] = 0) => heard'[l][x] = 0
    BY <1>1, <1>2 DEF HeardOK
  <2>4. cleanup' => cleaned'
    BY <1>1, <1>2 DEF HeardOK
  <2>5. ASSUME ~ cleaned', NEW l \in Listeners \ dead', NEW k \in 1 .. Len(events'),
               events'[k] \in Objects, Knows(l, events[k])'
        PROVE  heard'[l][events'[k]] = IF Late(l, k)' THEN 0 ELSE 1
    <3>1. k \in 1 .. n /\ events'[k] = q[k] /\ ~ cleaned /\ l \in Listeners \ dead /\ heard' = heard
      BY <1>2, <1>4, <1>5, <2>5
    <3>2. Knows(l, q[k])
      BY <1>2, <1>5, <2>5 DEF Knows
    <3> QED
      BY <2>1, <2>5, <3>1, <3>2
  <2> QED
    BY <2>3, <2>4, <2>5 DEF HeardOK
<1> QED
  BY <1>12, <1>13, <1>14, <1>15, <1>16, <1>17 DEF RegInv

--------------------------------------------------------------------------------
\* The event the loops look at is an object of the batch.
LEMMA ItemFacts ==
  ASSUME RegInv, InLoop
  PROVE  /\ Passing /\ ~ enabled /\ cb = None /\ cursor \in Batch /\ cursor \in 1 .. Len(events)
         /\ Item \in Objects /\ Item \in Items /\ Constructed(Item) = Item
         /\ Item \in emitted /\ Item \notin dead
         /\ \A k \in 1 .. Len(events) : events[k] = Item => k = cursor
         /\ \A k \in 1 .. Len(events) : Constructed(events[k]) = Item => k = cursor
         /\ registered[Item] = IF Sent(cursor) THEN 1 ELSE 0
<1>1. RegTypeOK /\ EventsOK /\ LoopOK /\ SentOK /\ KeptOK
  BY DEF RegInv
<1>2. Passing /\ ~ enabled /\ cb = None /\ cursor \in nr + 1 .. Len(events) + 1 /\ cursor <= Len(events)
  BY <1>1 DEF InLoop, LoopOK, Passing
<1>3. cursor \in Batch /\ cursor \in 1 .. Len(events) /\ ~ (cursor <= nr)
  <2>1. nr \in Nat /\ Len(events) \in Nat
    BY <1>1 DEF RegTypeOK
  <2> QED
    BY <1>2, <2>1 DEF Batch
<1>4. Item \in Objects /\ Item \in Items /\ Constructed(Item) = Item
  BY <1>1, <1>2, <1>3, ConstructedFacts DEF LoopOK, Item
<1>5. \A k \in 1 .. Len(events) : Constructed(events[k]) = Item => k = cursor
  BY <1>1, <1>3, <1>4 DEF EventsOK, Item
<1>6. \A k \in 1 .. Len(events) : events[k] = Item => k = cursor
  BY <1>4, <1>5
<1>7. Item \in emitted /\ registered[Item] = IF Sent(cursor) THEN 1 ELSE 0
  BY <1>1, <1>2, <1>3, <1>4, CameFacts DEF Came, Item
<1>8. Item \notin dead
  BY <1>1, <1>3, EventFacts DEF KeptOK, NoneLeft, Item
<1> QED
  BY <1>2, <1>3, <1>4, <1>5, <1>6, <1>7, <1>8

\* The body of a loop: the object is registered and its on_register is called.
LEMMA RegisterItemStep ==
  ASSUME RegInv, RegisterItem
  PROVE  RegInv'
<1>1. RegTypeOK /\ EventsOK /\ LoopOK /\ SentOK /\ KeptOK /\ HeardOK
  BY DEF RegInv
<1>2. PICK x \in Objects : x = Item
  BY ItemFacts DEF RegisterItem
<1>3. PICK c \in Nat \ {0} : c = cursor
  BY <1>1 DEF RegTypeOK
<1>4. PICK S : S = ToSet(listeners)
  OBVIOUS
<1>5. /\ InLoop /\ PassOf(x) = pass /\ RegisterInternal(x, listeners, heard) /\ cb' = x
      /\ events' = events /\ listeners' = listeners
      /\ enabled' = enabled /\ permanent' = permanent /\ cleanup' = cleanup /\ nr' = nr
      /\ pass' = pass /\ cursor' = cursor /\ emitted' = emitted /\ dead' = dead
      /\ cleaned' = cleaned
  BY <1>2 DEF RegisterItem, info
<1>6. /\ Passing /\ ~ enabled /\ cb = None /\ c \in Batch /\ c \in 1 .. Len(events)
      /\ x \in Items /\ Constructed(x) = x /\ x \in emitted /\ x \notin dead
      /\ \A k \in 1 .. Len(events) : events[k] = x => k = c
      /\ \A k \in 1 .. Len(events) : Constructed(events[k]) = x => k = c
      /\ registered[x] = IF Sent(c) THEN 1 ELSE 0
      /\ events[c] = x
  BY <1>2, <1>3, <1>5, ItemFacts DEF Item
<1>7. pass \in Passes /\ Passing'
  BY <1>5, <1>6 DEF Passing
<1>8. ~ Sent(c) /\ registered[x] = 0
  <2>1. Stage(PassOf(x)) = Stage(pass) /\ Stage(pass) \in Nat
    BY <1>5, <1>7, PassFacts
  <2>2. ~ (Stage(pass) < Stage(pass)) /\ ~ (c < cursor)
    BY <1>3, <2>1
  <2> QED
    BY <1>5, <1>6, <2>1, <2>2 DEF Sent
<1>9. Batch' = Batch /\ \A k \in Batch : k # c => (Sent(k)' <=> Sent(k))
  <2>1. Batch' = Batch
    BY <1>5 DEF Batch
  <2>2. ASSUME NEW k \in Batch, k # c PROVE Sent(k)' <=> Sent(k)
    BY <1>3, <1>5, <1>7, <1>6, <2>2 DEF Sent
  <2> QED
    BY <2>1, <2>2
<1>10. Sent(c)'
  <2>1. x # None
    BY <1>6, ConstructedFacts
  <2> QED
    BY <1>3, <1>5, <1>6, <1>7, <2>1 DEF Sent
<1>11. /\ registered' \in [Items -> 0 .. HeardBound] /\ registered'[x] = 1
       /\ \A y \in Items : y # x => registered'[y] = registered[y]
       /\ heard' \in Hearings
       /\ \A l \in Listeners, y \in Items :
            heard'[l][y] = IF l \in ToSet(listeners) /\ y = x THEN More(heard[l][y]) ELSE heard[l][y]
       /\ objects' = IF permanent THEN Append(objects, x) ELSE objects
  <2>1. heard \in Hearings /\ registered \in [Items -> 0 .. HeardBound]
    BY <1>1 DEF RegTypeOK, Hearings
  <2>2. /\ registered' = Counted(registered, x)
        /\ heard' = Told(heard, S, x)
        /\ objects' = IF permanent THEN Append(objects, x) ELSE objects
    BY <1>4, <1>5 DEF RegisterInternal, Counted, Told
  <2>3. /\ registered' \in [Items -> 0 .. HeardBound] /\ registered'[x] = More(registered[x])
        /\ \A y \in Items : y # x => registered'[y] = registered[y]
    BY <1>6, <2>1, <2>2, InternalFacts
  <2>4. /\ heard' \in Hearings
        /\ \A l \in Listeners, y \in Items :
             heard'[l][y] = IF l \in S /\ y = x THEN More(heard[l][y]) ELSE heard[l][y]
    BY <1>6, <2>1, <2>2, InternalFacts
  <2> QED
    BY <1>4, <1>8, <2>2, <2>3, <2>4, MoreFacts
<1>12. /\ objects' \in Seq(Objects) /\ NoRepeats(objects')
       /\ \A y \in ToSet(objects') : y \in ToSet(objects) \/ y = x
  <2>1. objects \in Seq(Objects) /\ NoRepeats(objects)
    BY <1>1 DEF RegTypeOK, KeptOK
  <2>2. x \notin ToSet(objects)
    <3>1. \A y \in ToSet(objects) : \E a \in 1 .. Len(objects) : objects[a] = y
      BY <2>1, Members
    <3> QED
      BY <1>1, <1>8, <3>1 DEF KeptOK
  <2> QED
    BY <1>11, <2>1, <2>2, AppendFacts
<1>13. RegTypeOK'
  <2>1. heard' \in [Listeners -> [Items -> 0 .. HeardBound]]
    BY <1>11 DEF Hearings
  <2> QED
    BY <1>1, <1>5, <1>11, <1>12, <2>1 DEF RegTypeOK
<1>14. EventsOK'
  BY <1>1, <1>5, <1>9 DEF EventsOK
<1>15. LoopOK'
  <2>1. pass # "exit"
    BY <1>7, PassFacts
  <2>2. c <= Len(events)
    BY <1>6
  <2> QED
    BY <1>1, <1>3, <1>5, <1>6, <1>7, <1>9, <2>1, <2>2 DEF LoopOK
<1>16. SentOK'
  <2>1. ASSUME NEW y \in Items PROVE Waits(y)' <=> Waits(y) /\ y # x
    <3>1. ASSUME Waits(y)' PROVE Waits(y) /\ y # x
      <4>1. PICK k \in Batch : Constructed(events[k]) = y /\ ~ Sent(k)'
        BY <1>5, <1>9, <3>1 DEF Waits
      <4>2. k # c /\ ~ Sent(k)
        BY <1>9, <1>10, <4>1
      <4>3. y # x
        BY <1>1, <1>6, <4>1, <4>2, EventFacts
      <4> QED
        BY <1>6, <4>1, <4>2, <4>3 DEF Waits
    <3>2. ASSUME Waits(y), y # x PROVE Waits(y)'
      <4>1. PICK k \in Batch : Constructed(events[k]) = y /\ ~ Sent(k)
        BY <3>2 DEF Waits
      <4>2. k # c
        BY <1>6, <3>2, <4>1
      <4>3. ~ Sent(k)'
        BY <1>9, <4>1, <4>2
      <4> QED
        BY <1>5, <1>6, <1>9, <4>1, <4>3 DEF Waits
    <3> QED
      BY <3>1, <3>2
  <2>2. ASSUME NEW y \in Items
        PROVE  registered'[y] = IF y \in emitted' /\ ~ Waits(y)' THEN 1 ELSE 0
    <3>1. registered[y] = IF y \in emitted /\ ~ Waits(y) THEN 1 ELSE 0
      BY <1>1 DEF SentOK
    <3> QED
      BY <1>5, <1>6, <1>11, <2>1, <3>1
  <2> QED
    BY <2>2 DEF SentOK
<1>17. KeptOK'
  <2>1. NoneLeft'
    BY <1>1, <1>5, <1>6, <1>12 DEF KeptOK, NoneLeft
  <2>2. \A y \in dead' : registered'[y] = 1
    <3>1. \A y \in dead : y \in Items /\ y # x /\ registered[y] = 1
      BY <1>1, <1>6, ConstructedFacts DEF KeptOK, RegTypeOK
    <3> QED
      BY <1>5, <1>11, <3>1
  <2>3. \A a \in 1 .. Len(objects') : registered'[objects'[a]] = 1
    <3>1. ASSUME NEW y \in ToSet(objects) PROVE y \in Items /\ registered[y] = 1
      <4>1. objects \in Seq(Objects)
        BY <1>1 DEF RegTypeOK
      <4>2. PICK a \in 1 .. Len(objects) : objects[a] = y
        BY <4>1, Members
      <4>3. y \in Objects
        BY <4>1, <4>2, Members
      <4> QED
        BY <1>1, <4>2, <4>3, ConstructedFacts DEF KeptOK
    <3>2. \A a \in 1 .. Len(objects') : objects'[a] \in ToSet(objects')
      BY <1>12, Members
    <3> QED
      BY <1>11, <1>12, <3>1, <3>2
  <2>4. ASSUME NEW l \in Listeners
        PROVE  l \in ToSet(listeners') <=> l \notin dead' /\ l # cb' /\ registered'[l] = 1
    <3>1. l \in ToSet(listeners) <=> l \notin dead /\ l # cb /\ registered[l] = 1
      BY <1>1 DEF KeptOK
    <3>2. l # None /\ l \in Items
      BY ConstructedFacts
    <3> QED
      BY <1>5, <1>6, <1>8, <1>11, <3>1, <3>2
  <2>5. NoRepeats(listeners')
    BY <1>1, <1>5 DEF KeptOK
  <2> QED
    BY <1>12, <2>1, <2>2, <2>3, <2>4, <2>5 DEF KeptOK
<1>18. HeardOK'
  <2>1. \A l, k : Late(l, k)' <=> Late(l, k)
    BY <1>5, <1>6, <1>7, <1>9 DEF Late
  <2>2. ASSUME NEW l \in Listeners, NEW y \in Objects, PassOf(y) = "rest",
               registered'[l] = 0 \/ registered'[y] = 0
        PROVE  heard'[l][y] = 0
    <3>1. l \in Items /\ y \in Items
      BY ConstructedFacts
    <3>2. registered[l] = 0 \/ registered[y] = 0
      BY <1>11, <2>2, <3>1
    <3>3. heard[l][y] = 0
      BY <1>1, <2>2, <3>2 DEF HeardOK
    <3>4. ~ (l \in ToSet(listeners) /\ y = x)
      BY <1>1, <1>8, <1>11, <2>2, <3>1 DEF KeptOK
    <3> QED
      BY <1>11, <3>1, <3>3, <3>4
  <2>3. cleanup' => cleaned'
    BY <1>1, <1>5 DEF HeardOK
  <2>4. ASSUME ~ cleaned, NEW l \in Listeners \ dead, NEW k \in 1 .. Len(events),
               events[k] \in Objects, registered'[l] = 1, registered'[events[k]] = 1,
               PassOf(events[k]) = "rest"
        PROVE  heard'[l][events[k]] = IF Late(l, k) THEN 0 ELSE 1
    <3>1. PICK y \in Objects : y = events[k]
      BY <2>4
    <3>2. l \in Items /\ y \in Items /\ l # y /\ l # None
      BY <2>4, <3>1, PassFacts, ConstructedFacts
    <3>3. CASE y = x
      <4>1. k = c /\ ~ (k <= nr)
        BY <1>1, <1>6, <3>1, <3>3, EventFacts
      <4>2. ~ Late(l, k)
        BY <4>1 DEF Late
      <4>3. registered[l] = 1
        BY <1>11, <2>4, <3>2, <3>3
      <4>4. l \in ToSet(listeners)
        BY <1>1, <1>6, <2>4, <3>2, <4>3 DEF KeptOK
      <4>5. heard[l][x] = 0
        BY <1>1, <1>8, <2>4, <3>1, <3>3 DEF HeardOK
      <4> QED
        BY <1>11, <3>1, <3>2, <3>3, <4>2, <4>4, <4>5, MoreFacts
    <3>4. CASE l = x
      <4>1. heard[l][y] = 0
        BY <1>1, <1>8, <2>4, <3>1, <3>4 DEF HeardOK
      <4>2. heard'[l][y] = 0
        BY <1>11, <3>2, <3>4, <4>1
      <4>3. registered[y] = 1
        BY <1>11, <2>4, <3>1, <3>2, <3>4
      <4>4. pass # "rest" /\ Stage(pass) < 4
        BY <1>5, <1>7, <2>4, <3>4, PassFacts
      <4>5. k <= nr
        <5>1. SUFFICES ASSUME ~ (k <= nr) PROVE FALSE
          OBVIOUS
        <5>2. Constructed(events[k]) = y
          BY <3>1, ConstructedFacts
        <5>3. Sent(k)
          BY <1>1, <1>6, <4>3, <5>1, <5>2, CameFacts DEF Came
        <5>4. Stage("rest") < Stage(pass)
          BY <2>4, <4>4, <5>3 DEF Sent
        <5> QED
          BY <1>7, <4>4, <5>4, PassFacts
      <4>6. ~ (c < cursor)
        BY <1>3
      <4>7. Late(l, k)
        BY <1>6, <3>4, <4>4, <4>5, <4>6 DEF Late
      <4> QED
        BY <3>1, <4>2, <4>7
    <3>5. CASE y # x /\ l # x
      <4>1. registered[l] = 1 /\ registered[y] = 1
        BY <1>11, <2>4, <3>1, <3>2, <3>5
      <4>2. heard[l][y] = IF Late(l, k) THEN 0 ELSE 1
        BY <1>1, <2>4, <3>1, <4>1 DEF HeardOK, Knows
      <4> QED
        BY <1>11, <3>1, <3>2, <3>5, <4>2
    <3> QED
      BY <3>3, <3>4, <3>5
  <2>5. ASSUME ~ cleaned', NEW l \in Listeners \ dead', NEW k \in 1 .. Len(events'),
               events'[k] \in Objects, Knows(l, events[k])'
        PROVE  heard'[l][events'[k]] = IF Late(l, k)' THEN 0 ELSE 1
    BY <1>5, <2>1, <2>4, <2>5 DEF Knows
  <2> QED
    BY <2>2, <2>3, <2>5 DEF HeardOK
<1> QED
  BY <1>13, <1>14, <1>15, <1>16, <1>17, <1>18 DEF RegInv

\* What does not depend on where the loops are.
LEMMA SentSame ==
  ASSUME RegInv, events' = events, nr' = nr, enabled' = enabled, emitted' = emitted,
         registered' = registered, \A k \in Batch : Sent(k)' <=> Sent(k)
  PROVE  SentOK'
<1>1. Batch' = Batch
  BY DEF Batch
<1>2. \A x \in Items : Waits(x)' <=> Waits(x)
  BY <1>1 DEF Waits
<1> QED
  BY <1>2 DEF RegInv, SentOK

\* The list of events stays as it is within enable_registration.
LEMMA EventsSame ==
  ASSUME RegInv, events' = events, nr' = nr, enabled' = enabled, emitted' = emitted,
         pass' # "idle"
  PROVE  EventsOK'
BY DEF RegInv, EventsOK

\* Nothing is given to anyone.
LEMMA HeardSame ==
  ASSUME RegInv, events' = events, dead' = dead, registered' = registered, heard' = heard,
         cleanup' = cleanup, cleaned' = cleaned,
         \A l \in Listeners, k \in 1 .. Len(events) : registered[l] = 1 => (Late(l, k)' <=> Late(l, k))
  PROVE  HeardOK'
<1>1. HeardOK
  BY DEF RegInv
<1>2. ASSUME ~ cleaned', NEW l \in Listeners \ dead', NEW k \in 1 .. Len(events'),
             events'[k] \in Objects, Knows(l, events[k])'
      PROVE  heard'[l][events'[k]] = IF Late(l, k)' THEN 0 ELSE 1
  <2>1. Knows(l, events[k]) /\ registered[l] = 1
    BY <1>2 DEF Knows
  <2> QED
    BY <1>1, <1>2, <2>1 DEF HeardOK
<1>3. \A l \in Listeners, x \in Objects :
        PassOf(x) = "rest" /\ (registered'[l] = 0 \/ registered'[x] = 0) => heard'[l][x] = 0
  BY <1>1 DEF HeardOK
<1>4. cleanup' => cleaned'
  BY <1>1 DEF HeardOK
<1> QED
  BY <1>2, <1>3, <1>4 DEF HeardOK

\* The loop goes on to the next event.
LEMMA AdvanceFacts ==
  ASSUME RegInv, Passing, cursor <= Len(events), cursor' = cursor + 1, cb' = None,
         events' = events, pass' = pass, nr' = nr,
         cb # None \/ PassOf(Item) # pass
  PROVE  /\ \A k \in Batch : Sent(k)' <=> Sent(k)
         /\ cursor \in Nat \ {0} /\ cursor' \in nr + 1 .. Len(events) + 1 /\ cursor' \in Nat \ {0}
         /\ cursor \in 1 .. Len(events) /\ cursor \in Batch
<1>1. RegTypeOK /\ LoopOK
  BY DEF RegInv
<1>2. PICK c \in Nat \ {0} : c = cursor
  BY <1>1 DEF RegTypeOK
<1>3. nr \in Nat /\ Len(events) \in Nat /\ c \in nr + 1 .. Len(events) + 1
  BY <1>1, <1>2 DEF LoopOK, RegTypeOK
<1>4. /\ cursor' = c + 1 /\ c + 1 \in nr + 1 .. Len(events) + 1 /\ c \in 1 .. Len(events)
      /\ c \in Batch
  BY <1>2, <1>3 DEF Batch
<1>5. ASSUME NEW k \in Batch PROVE Sent(k)' <=> Sent(k)
  <2>1. k \in Nat
    BY <1>3 DEF Batch
  <2>2. (k < c + 1 \/ FALSE) <=> (k < c \/ k = c)
    BY <2>1, <1>2
  <2>3. k = c => (cb # None \/ PassOf(events[k]) # pass)
    BY <1>2 DEF Item
  <2>4. PICK p : p = PassOf(events[k])
    OBVIOUS
  <2>5. Sent(k)' <=> Stage(p) < Stage(pass) \/ (p = pass /\ k < c + 1)
    BY <1>4, <2>1, <2>4 DEF Sent, Passing
  <2>6. Sent(k) <=> Stage(p) < Stage(pass) \/ (p = pass /\ (k < c \/ (k = c /\ cb # None)))
    BY <1>2, <2>4 DEF Sent
  <2> QED
    BY <2>2, <2>3, <2>4, <2>5, <2>6
<1> QED
  BY <1>2, <1>4, <1>5

\* A listener is sent what it has missed, at its turn in the loop of listeners.
LEMMA MissedHeard ==
  ASSUME RegInv, Passing, pass = "listener", cursor <= Len(events),
         NEW o \in Listeners, o = Item, registered[o] = 1,
         heard' = Given(heard, o, Missed), cursor' = cursor + 1,
         events' = events, nr' = nr, pass' = pass, dead' = dead, registered' = registered,
         cleanup' = cleanup, cleaned' = cleaned
  PROVE  heard' \in Hearings /\ HeardOK'
<1>1. RegTypeOK /\ EventsOK /\ LoopOK /\ SentOK /\ HeardOK
  BY DEF RegInv
<1>2. PICK c \in Nat \ {0} : c = cursor
  BY <1>1 DEF RegTypeOK
<1>3. nr \in Nat /\ Len(events) \in Nat /\ c \in nr + 1 .. Len(events) + 1 /\ ~ enabled
  BY <1>1, <1>2 DEF LoopOK, RegTypeOK
<1>4. c \in 1 .. Len(events) /\ c \in Batch /\ cursor' = c + 1 /\ events[c] = o /\ Batch' = Batch
  BY <1>2, <1>3 DEF Batch, Item
<1>5. PICK M : M = Missed
  OBVIOUS
<1>6. /\ heard' \in Hearings
      /\ \A l \in Listeners, x \in Items :
           heard'[l][x] = IF l = o /\ x \in M THEN More(heard[l][x]) ELSE heard[l][x]
  <2>1. heard \in Hearings
    BY <1>1 DEF RegTypeOK, Hearings
  <2> QED
    BY <1>5, <2>1, GivenFacts
<1>7. \A x \in M : PassOf(x) = "rest" => \E k \in 1 .. Len(events) : k <= nr /\ events[k] = x
  <2>1. ASSUME NEW x \in M, PassOf(x) = "rest"
        PROVE  \E k \in 1 .. Len(events) : k <= nr /\ events[k] = x
    <3>1. PICK k \in 1 .. c - 1 : (k <= nr \/ events[k] \in Listeners) /\ events[k] = x
      BY <1>2, <1>5 DEF Missed
    <3>2. x \notin Listeners
      BY <2>1, PassFacts
    <3>3. k \in 1 .. Len(events)
      BY <1>3, <3>1
    <3> QED
      BY <3>1, <3>2, <3>3
  <2> QED
    BY <2>1
<1>8. \A k \in 1 .. Len(events) : k <= nr => events[k] \in M
  <2>1. ASSUME NEW k \in 1 .. Len(events), k <= nr PROVE events[k] \in M
    <3>1. k \in 1 .. c - 1
      BY <1>3, <2>1
    <3> QED
      BY <1>2, <1>5, <2>1, <3>1 DEF Missed
  <2> QED
    BY <2>1
<1>9. ASSUME NEW k \in 1 .. Len(events), events[k] \in Objects, PassOf(events[k]) = "rest"
      PROVE  registered[events[k]] = IF k <= nr THEN 1 ELSE 0
  <2>1. Constructed(events[k]) = events[k]
    BY <1>9, ConstructedFacts
  <2>2. ~ Sent(k)
    BY <1>9, PassFacts DEF Sent
  <2> QED
    BY <1>1, <1>3, <2>1, <2>2, CameFacts DEF Came
<1>10. \A k \in 1 .. Len(events) : events[k] = o => k = c
  BY <1>1, <1>4 DEF EventsOK
<1>11. ASSUME NEW l \in Listeners, NEW x \in Objects, PassOf(x) = "rest",
              registered'[l] = 0 \/ registered'[x] = 0
       PROVE  heard'[l][x] = 0
  <2>1. heard[l][x] = 0 /\ x \in Items
    BY <1>1, <1>11, ConstructedFacts DEF HeardOK
  <2>2. ~ (l = o /\ x \in M)
    <3>1. SUFFICES ASSUME l = o, x \in M PROVE FALSE
      OBVIOUS
    <3>2. PICK k \in 1 .. Len(events) : k <= nr /\ events[k] = x
      BY <1>7, <1>11, <3>1
    <3>3. registered[x] = 1
      BY <1>9, <1>11, <3>2
    <3> QED
      BY <1>11, <3>1, <3>3
  <2> QED
    BY <1>6, <2>1, <2>2
<1>12. ASSUME ~ cleaned', NEW l \in Listeners \ dead', NEW k \in 1 .. Len(events'),
              events'[k] \in Objects, Knows(l, events[k])'
       PROVE  heard'[l][events'[k]] = IF Late(l, k)' THEN 0 ELSE 1
  <2>1. Knows(l, events[k]) /\ registered[l] = 1 /\ registered[events[k]] = 1 /\ PassOf(events[k]) = "rest"
    BY <1>12 DEF Knows
  <2>2. k <= nr /\ events[k] \in M /\ events[k] \in Items
    BY <1>8, <1>9, <1>12, <2>1, ConstructedFacts
  <2>3. heard[l][events[k]] = IF Late(l, k) THEN 0 ELSE 1
    BY <1>1, <1>12, <2>1 DEF HeardOK
  <2>4. CASE l = o
    <3>1. Late(l, k)
      BY <1>2, <1>4, <2>2, <2>4 DEF Late
    <3>2. heard'[l][events[k]] = 1
      BY <1>6, <2>2, <2>3, <2>4, <3>1, MoreFacts
    <3>3. \A m \in Batch : events[m] = l => m < c + 1
      BY <1>4, <1>10, <1>1, <2>4, EventFacts
    <3>4. ~ Late(l, k)'
      BY <1>4, <3>3 DEF Late
    <3> QED
      BY <3>2, <3>4
  <2>5. CASE l # o
    <3>1. heard'[l][events[k]] = heard[l][events[k]]
      BY <1>6, <2>2, <2>5
    <3>2. \A m \in Batch : events[m] = l => (m < c + 1 <=> m < c)
      <4>1. ASSUME NEW m \in Batch, events[m] = l PROVE m < c + 1 <=> m < c
        <5>1. m # c /\ m \in Nat
          BY <1>3, <1>4, <2>5, <4>1 DEF Batch
        <5> QED
          BY <1>3, <5>1
      <4> QED
        BY <4>1
    <3>3. Late(l, k)' <=> Late(l, k)
      <4>1. Late(l, k) <=> k <= nr /\ \E m \in Batch : events[m] = l /\ ~ (m < c)
        BY <1>2 DEF Late
      <4>2. Late(l, k)' <=> k <= nr /\ \E m \in Batch : events[m] = l /\ ~ (m < c + 1)
        BY <1>4 DEF Late, Passing
      <4> QED
        BY <3>2, <4>1, <4>2
    <3> QED
      BY <2>3, <3>1, <3>3
  <2> QED
    BY <2>4, <2>5
<1>13. cleanup' => cleaned'
  BY <1>1 DEF HeardOK
<1> QED
  BY <1>6, <1>11, <1>12, <1>13 DEF HeardOK

\* on_register returns: the object is a listener now, if it is one.
LEMMA ReturnStep ==
  ASSUME RegInv, OnRegisterReturns
  PROVE  RegInv'
<1>1. RegTypeOK /\ EventsOK /\ LoopOK /\ SentOK /\ KeptOK /\ HeardOK
  BY DEF RegInv
<1>2. PICK x \in Objects : x = cb /\ cb # None
  BY <1>1 DEF OnRegisterReturns, RegTypeOK
<1>3. /\ Passing /\ cursor <= Len(events) /\ x = Item /\ PassOf(x) = pass /\ ~ enabled
  BY <1>1, <1>2 DEF LoopOK, Item
<1>4. /\ cursor' = cursor + 1 /\ cb' = None
      /\ events' = events /\ objects' = objects
      /\ enabled' = enabled /\ permanent' = permanent /\ cleanup' = cleanup /\ nr' = nr
      /\ pass' = pass /\ emitted' = emitted /\ dead' = dead
      /\ registered' = registered /\ cleaned' = cleaned
      /\ listeners' = IF x \in Listeners THEN Append(listeners, x) ELSE listeners
      /\ heard' = IF pass = "listener" THEN Given(heard, x, Missed) ELSE heard
  BY <1>2 DEF OnRegisterReturns, info
<1>5. /\ \A k \in Batch : Sent(k)' <=> Sent(k)
      /\ cursor \in Nat \ {0} /\ cursor' \in nr + 1 .. Len(events) + 1 /\ cursor' \in Nat \ {0}
      /\ cursor \in 1 .. Len(events) /\ cursor \in Batch
  BY <1>2, <1>3, <1>4, AdvanceFacts
<1>6. x \in ToSet(events) /\ x \notin dead /\ Constructed(x) = x /\ x \in Items /\ x # None
  BY <1>1, <1>3, <1>5, EventFacts, ConstructedFacts DEF KeptOK, NoneLeft, Item
<1>7. registered[x] = 1
  <2>1. Sent(cursor)
    BY <1>2, <1>3, <1>5 DEF Sent, Item
  <2> QED
    BY <1>1, <1>3, <1>5, <1>6, <2>1, CameFacts DEF Came, Item
<1>8. pass \in Passes /\ pass # "idle" /\ pass # "exit" /\ Passing'
  BY <1>3, <1>4, PassFacts DEF Passing
<1>9. /\ listeners' \in Seq(Listeners) /\ NoRepeats(listeners')
      /\ \A l : l \in ToSet(listeners') <=> l \in ToSet(listeners) \/ (l = x /\ x \in Listeners)
  <2>1. listeners \in Seq(Listeners) /\ NoRepeats(listeners)
    BY <1>1 DEF RegTypeOK, KeptOK
  <2>2. x \notin ToSet(listeners)
    <3>1. x \in Listeners => x \notin ToSet(listeners)
      BY <1>1, <1>2 DEF KeptOK
    <3>2. ToSet(listeners) \subseteq Listeners
      BY <2>1, Members
    <3> QED
      BY <3>1, <3>2
  <2>3. x \in Listeners => /\ listeners' \in Seq(Listeners) /\ NoRepeats(listeners')
                           /\ ToSet(listeners') = ToSet(listeners) \cup {x}
    BY <1>4, <2>1, <2>2, AppendFacts
  <2> QED
    BY <1>4, <2>1, <2>3
<1>10. HeardOK' /\ heard' \in Hearings
  <2>1. CASE pass = "listener"
    <3>1. x \in Listeners
      BY <1>3, <2>1 DEF PassOf
    <3> QED
      BY <1>3, <1>4, <1>7, <2>1, <3>1, MissedHeard
  <2>2. CASE pass # "listener"
    <3>1. \A l \in Listeners, k \in 1 .. Len(events) : Late(l, k)' <=> Late(l, k)
      BY <1>3, <1>4, <1>8, <2>2 DEF Late, Batch
    <3>2. heard' = heard /\ heard \in Hearings
      BY <1>1, <1>4, <2>2 DEF RegTypeOK, Hearings
    <3> QED
      BY <1>4, <3>1, <3>2, HeardSame
  <2> QED
    BY <2>1, <2>2
<1>11. RegTypeOK'
  <2>1. heard' \in [Listeners -> [Items -> 0 .. HeardBound]]
    BY <1>10 DEF Hearings
  <2> QED
    BY <1>1, <1>4, <1>5, <1>9, <2>1 DEF RegTypeOK
<1>12. EventsOK'
  BY <1>4, <1>8, EventsSame
<1>13. LoopOK'
  <2>1. Batch' = Batch
    BY <1>4 DEF Batch
  <2> QED
    BY <1>1, <1>3, <1>4, <1>5, <1>8, <2>1 DEF LoopOK
<1>14. SentOK'
  BY <1>4, <1>5, SentSame
<1>15. KeptOK'
  <2>1. NoneLeft'
    BY <1>1, <1>4, <1>6, <1>9 DEF KeptOK, NoneLeft
  <2>2. ASSUME NEW l \in Listeners
        PROVE  l \in ToSet(listeners') <=> l \notin dead' /\ l # cb' /\ registered'[l] = 1
    <3>1. l \in ToSet(listeners) <=> l \notin dead /\ l # cb /\ registered[l] = 1
      BY <1>1 DEF KeptOK
    <3>2. l # None /\ l \in Items
      BY ConstructedFacts
    <3> QED
      BY <1>2, <1>4, <1>6, <1>7, <1>9, <3>1, <3>2
  <2>3. /\ \A y \in dead' : registered'[y] = 1
        /\ NoRepeats(objects') /\ \A a \in 1 .. Len(objects') : registered'[objects'[a]] = 1
    BY <1>1, <1>4 DEF KeptOK
  <2> QED
    BY <1>9, <2>1, <2>2, <2>3 DEF KeptOK
<1> QED
  BY <1>10, <1>11, <1>12, <1>13, <1>14, <1>15 DEF RegInv

\* The next event, with no object registered.
LEMMA PassedOver ==
  ASSUME RegInv, InLoop, PassOf(Item) # pass, cursor' = cursor + 1,
         events' = events, listeners' = listeners, objects' = objects,
         enabled' = enabled, permanent' = permanent, cleanup' = cleanup, nr' = nr,
         pass' = pass, cb' = cb, emitted' = emitted, dead' = dead,
         registered' = registered, cleaned' = cleaned,
         heard' \in Hearings, HeardOK'
  PROVE  RegInv'
<1>1. RegTypeOK /\ EventsOK /\ LoopOK /\ SentOK /\ KeptOK /\ HeardOK
  BY DEF RegInv
<1>2. Passing /\ ~ enabled /\ cb = None /\ cursor <= Len(events)
  BY <1>1 DEF InLoop, Passing, LoopOK
<1>3. /\ \A k \in Batch : Sent(k)' <=> Sent(k)
      /\ cursor \in Nat \ {0} /\ cursor' \in nr + 1 .. Len(events) + 1 /\ cursor' \in Nat \ {0}
  BY <1>2, AdvanceFacts
<1>4. pass \in Passes /\ pass # "idle" /\ pass # "exit" /\ Passing'
  BY <1>2, PassFacts DEF Passing
<1>5. RegTypeOK'
  <2>1. heard' \in [Listeners -> [Items -> 0 .. HeardBound]]
    BY DEF Hearings
  <2> QED
    BY <1>1, <1>3, <2>1 DEF RegTypeOK
<1>6. EventsOK'
  BY <1>4, EventsSame
<1>7. LoopOK'
  <2>1. Batch' = Batch
    BY DEF Batch
  <2> QED
    BY <1>1, <1>2, <1>3, <1>4, <2>1 DEF LoopOK
<1>8. SentOK'
  BY <1>3, SentSame
<1>9. KeptOK'
  BY <1>1 DEF KeptOK, NoneLeft
<1> QED
  BY <1>5, <1>6, <1>7, <1>8, <1>9 DEF RegInv

\* A server or driver that is a listener too is sent what it has missed.
LEMMA ReplayStep ==
  ASSUME RegInv, ReplayItem
  PROVE  RegInv'
<1>1. /\ InLoop /\ pass = "listener" /\ PassOf(Item) # pass /\ Item \in Listeners
      /\ heard' = Given(heard, Item, Missed) /\ cursor' = cursor + 1
      /\ events' = events /\ listeners' = listeners /\ objects' = objects
      /\ enabled' = enabled /\ permanent' = permanent /\ cleanup' = cleanup /\ nr' = nr
      /\ pass' = pass /\ cb' = cb /\ emitted' = emitted /\ dead' = dead
      /\ registered' = registered /\ cleaned' = cleaned
  BY DEF ReplayItem, info
<1>2. Passing /\ cursor <= Len(events)
  BY <1>1 DEF InLoop, Passing
<1>3. registered[Item] = 1
  <2>1. Stage(PassOf(Item)) < Stage(pass)
    BY <1>1, PassFacts
  <2>2. Sent(cursor)
    BY <1>2, <2>1 DEF Sent, Item
  <2> QED
    BY <1>1, <2>2, ItemFacts
<1>4. heard' \in Hearings /\ HeardOK'
  BY <1>1, <1>2, <1>3, MissedHeard
<1> QED
  BY <1>1, <1>4, PassedOver

\* An event of another pass.
LEMMA SkipStep ==
  ASSUME RegInv, SkipItem
  PROVE  RegInv'
<1>1. /\ InLoop /\ PassOf(Item) # pass /\ ~ (pass = "listener" /\ Item \in Listeners)
      /\ cursor' = cursor + 1
      /\ events' = events /\ listeners' = listeners /\ objects' = objects
      /\ enabled' = enabled /\ permanent' = permanent /\ cleanup' = cleanup /\ nr' = nr
      /\ pass' = pass /\ cb' = cb /\ emitted' = emitted /\ dead' = dead
      /\ registered' = registered /\ heard' = heard /\ cleaned' = cleaned
  BY DEF SkipItem, info, history
<1>2. heard' \in Hearings
  BY <1>1 DEF RegInv, RegTypeOK, Hearings
<1>3. PICK c \in Nat : c = cursor
  BY DEF RegInv, RegTypeOK
<1>4. ASSUME NEW l \in Listeners, NEW k PROVE Late(l, k)' <=> Late(l, k)
  <2>1. Batch' = Batch /\ \A m \in Batch : m \in Nat
    <3>1. nr \in Nat
      BY DEF RegInv, RegTypeOK
    <3> QED
      BY <1>1, <3>1 DEF Batch
  <2>2. ASSUME NEW m \in Batch, events[m] = l, pass = "listener" PROVE m < c + 1 <=> m < c
    <3>1. m # c
      BY <1>1, <1>3, <2>2 DEF Item
    <3> QED
      BY <2>1, <3>1
  <2>3. Late(l, k) <=> Passing /\ k <= nr /\ \E m \in Batch :
           events[m] = l /\ ~ (pass = "rest" \/ (pass = "listener" /\ m < c))
    BY <1>3 DEF Late
  <2>4. Late(l, k)' <=> Passing /\ k <= nr /\ \E m \in Batch :
           events[m] = l /\ ~ (pass = "rest" \/ (pass = "listener" /\ m < c + 1))
    BY <1>1, <1>3, <2>1 DEF Late, Passing
  <2> QED
    BY <2>2, <2>3, <2>4
<1>5. HeardOK'
  BY <1>1, <1>4, HeardSame
<1> QED
  BY <1>1, <1>2, <1>5, PassedOver

\* The next loop starts at the first event of the batch: nothing is registered
\* that was not before.
LEMMA NextPassStep ==
  ASSUME RegInv, NextPass
  PROVE  RegInv'
<1>1. RegTypeOK /\ EventsOK /\ LoopOK /\ SentOK /\ KeptOK /\ HeardOK
  BY DEF RegInv
<1>2. /\ pass \in Passes /\ cb = None /\ cursor > Len(events) /\ pass # "rest"
      /\ pass' = Following(pass) /\ cursor' = nr + 1
      /\ events' = events /\ listeners' = listeners /\ objects' = objects
      /\ enabled' = enabled /\ permanent' = permanent /\ cleanup' = cleanup /\ nr' = nr
      /\ cb' = cb /\ emitted' = emitted /\ dead' = dead
      /\ registered' = registered /\ heard' = heard /\ cleaned' = cleaned
  BY DEF NextPass, LoopEnds, info, history
<1>3. PICK c \in Nat : c = cursor
  BY <1>1 DEF RegTypeOK
<1>4. /\ nr \in Nat /\ Len(events) \in Nat /\ Batch' = Batch /\ ~ enabled
      /\ nr + 1 \in nr + 1 .. Len(events) + 1 /\ nr + 1 \in Nat \ {0}
      /\ \A k \in Batch : k \in Nat /\ k < c /\ ~ (k < nr + 1)
  <2>1. nr \in Nat /\ Len(events) \in Nat /\ Batch' = Batch /\ ~ enabled /\ nr <= Len(events)
    BY <1>1, <1>2 DEF RegTypeOK, LoopOK, EventsOK, Passing, Batch
  <2> QED
    BY <1>2, <1>3, <2>1 DEF Batch
<1>5. /\ pass' \in Passes /\ \A p \in Passes : Stage(p) < Stage(pass') <=> Stage(p) < Stage(pass) \/ p = pass
      /\ pass' = "rest" <=> pass = "listener"
      /\ pass' = "listener" <=> pass = "driver"
      /\ pass' # "idle" /\ pass' # "exit"
  BY <1>2, PassFacts DEF Following, Stage, Passes
<1>6. ASSUME NEW k \in Batch PROVE Sent(k)' <=> Sent(k)
  <2>1. PICK p \in Passes : p = PassOf(events[k])
    BY PassFacts
  <2>2. Sent(k) <=> Stage(p) < Stage(pass) \/ p = pass
    BY <1>2, <1>3, <1>4, <2>1 DEF Sent, Passing
  <2>3. Sent(k)' <=> Stage(p) < Stage(pass')
    BY <1>2, <1>4, <1>5, <2>1 DEF Sent, Passing
  <2> QED
    BY <1>5, <2>2, <2>3
<1>7. ASSUME NEW l \in Listeners, NEW k PROVE Late(l, k)' <=> Late(l, k)
  <2>1. \A m \in Batch : (pass = "rest" \/ (pass = "listener" /\ m < c)) <=> pass = "listener"
    BY <1>2, <1>4
  <2>2. \A m \in Batch : (pass' = "rest" \/ (pass' = "listener" /\ m < nr + 1)) <=> pass = "listener"
    BY <1>4, <1>5
  <2>3. Late(l, k) <=> k <= nr /\ \E m \in Batch : events[m] = l /\ pass # "listener"
    BY <1>2, <1>3, <2>1 DEF Late, Passing
  <2>4. Late(l, k)' <=> k <= nr /\ \E m \in Batch : events[m] = l /\ pass # "listener"
    BY <1>2, <1>4, <1>5, <2>2 DEF Late, Passing
  <2> QED
    BY <2>3, <2>4
<1>8. RegTypeOK'
  BY <1>1, <1>2, <1>4, <1>5 DEF RegTypeOK
<1>9. EventsOK'
  BY <1>2, <1>5, EventsSame
<1>10. LoopOK'
  <2>1. Passing
    BY <1>2 DEF Passing
  <2> QED
    BY <1>1, <1>2, <1>4, <1>5, <2>1 DEF LoopOK
<1>11. SentOK'
  BY <1>2, <1>6, SentSame
<1>12. KeptOK'
  BY <1>1, <1>2 DEF KeptOK, NoneLeft
<1>13. HeardOK'
  BY <1>2, <1>7, HeardSame
<1> QED
  BY <1>8, <1>9, <1>10, <1>11, <1>12, <1>13 DEF RegInv

\* enable_registration ends: every object of the batch has been registered.
LEMMA EndStep ==
  ASSUME RegInv, EndEnable
  PROVE  RegInv'
<1>1. RegTypeOK /\ EventsOK /\ LoopOK /\ SentOK /\ KeptOK /\ HeardOK
  BY DEF RegInv
<1>2. /\ pass = "rest" /\ cb = None /\ cursor > Len(events)
      /\ events' = (IF cleanup THEN <<>> ELSE events) /\ nr' = Len(events')
      /\ enabled' = TRUE /\ pass' = "idle" /\ cursor' = 1
      /\ listeners' = listeners /\ objects' = objects
      /\ permanent' = permanent /\ cleanup' = cleanup
      /\ cb' = cb /\ emitted' = emitted /\ dead' = dead
      /\ registered' = registered /\ heard' = heard /\ cleaned' = cleaned
  BY DEF EndEnable, LoopEnds, history
<1>3. PICK c \in Nat : c = cursor
  BY <1>1 DEF RegTypeOK
<1>4. nr \in Nat /\ Len(events) \in Nat /\ \A k \in Batch : k < c
  <2>1. nr \in Nat /\ Len(events) \in Nat
    BY <1>1 DEF RegTypeOK
  <2> QED
    BY <1>2, <1>3, <2>1 DEF Batch
<1>5. Passing /\ "rest" \in Passes
  BY <1>2, PassFacts DEF Passing
<1>6. \A k \in Batch : Sent(k)
  <2>1. \A x : PassOf(x) = "rest" \/ Stage(PassOf(x)) < Stage("rest")
    BY PassFacts
  <2> QED
    BY <1>2, <1>3, <1>4, <1>5, <2>1 DEF Sent
<1>7. ~ Passing' /\ cb' = None
  BY <1>2, PassFacts DEF Passing
<1>8. events' \in Seq(Items) /\ (events' = events \/ (cleanup /\ Len(events') = 0 /\ ToSet(events') = {}))
  <2>1. <<>> \in Seq(Items) /\ Len(<<>>) = 0 /\ ToSet(<<>>) = {}
    BY DEF ToSet
  <2> QED
    BY <1>1, <1>2, <2>1 DEF RegTypeOK
<1>9. RegTypeOK'
  BY <1>1, <1>2, <1>8 DEF RegTypeOK
<1>10. EventsOK'
  BY <1>1, <1>2, <1>8 DEF EventsOK
<1>11. LoopOK'
  BY <1>2, <1>7 DEF LoopOK
<1>12. SentOK'
  <2>1. \A x \in Items : ~ Waits(x) /\ ~ Waits(x)'
    BY <1>2, <1>6 DEF Waits
  <2> QED
    BY <1>1, <1>2, <2>1 DEF SentOK
<1>13. KeptOK'
  <2>1. NoneLeft'
    BY <1>1, <1>2, <1>8 DEF KeptOK, NoneLeft
  <2> QED
    BY <1>1, <1>2, <2>1 DEF KeptOK
<1>14. HeardOK'
  <2>1. CASE events' = events
    <3>1. \A l, k : ~ Late(l, k) /\ ~ Late(l, k)'
      BY <1>2, <1>7 DEF Late
    <3> QED
      BY <1>2, <2>1, <3>1, HeardSame
  <2>2. CASE cleanup /\ Len(events') = 0
    BY <1>1, <1>2, <2>2 DEF HeardOK
  <2> QED
    BY <1>8, <2>1, <2>2
<1> QED
  BY <1>9, <1>10, <1>11, <1>12, <1>13, <1>14 DEF RegInv

--------------------------------------------------------------------------------
\* disable_registration: the events so far are those of former batches.
LEMMA DisableStep ==
  ASSUME RegInv, DisableRegistration
  PROVE  RegInv'
<1>1. RegTypeOK /\ EventsOK /\ LoopOK /\ SentOK /\ KeptOK /\ HeardOK
  BY DEF RegInv
<1>2. /\ pass = "idle" /\ enabled /\ nr' = Len(events) /\ enabled' = FALSE
      /\ events' = events /\ listeners' = listeners /\ objects' = objects
      /\ permanent' = permanent /\ cleanup' = cleanup
      /\ pass' = pass /\ cursor' = cursor /\ cb' = cb /\ emitted' = emitted /\ dead' = dead
      /\ registered' = registered /\ heard' = heard /\ cleaned' = cleaned
  BY DEF DisableRegistration, loop, history
<1>3. Len(events) \in Nat /\ Batch' = {}
  <2>1. Len(events) \in Nat
    BY <1>1 DEF RegTypeOK
  <2>2. Len(events) + 1 .. Len(events) = {}
    BY <2>1
  <2> QED
    BY <1>2, <2>1, <2>2 DEF Batch
<1>4. ~ Passing /\ ~ Passing' /\ cb' = None
  BY <1>1, <1>2, PassFacts DEF Passing, LoopOK
<1>5. RegTypeOK'
  BY <1>1, <1>2, <1>3 DEF RegTypeOK
<1>6. EventsOK'
  BY <1>1, <1>2, <1>3 DEF EventsOK
<1>7. LoopOK'
  BY <1>2, <1>4 DEF LoopOK
<1>8. SentOK'
  BY <1>1, <1>2, <1>3 DEF SentOK, Waits
<1>9. KeptOK'
  BY <1>1, <1>2 DEF KeptOK, NoneLeft
<1>10. HeardOK'
  <2>1. \A l, k : ~ Late(l, k) /\ ~ Late(l, k)'
    BY <1>4 DEF Late
  <2> QED
    BY <1>2, <2>1, HeardSame
<1> QED
  BY <1>5, <1>6, <1>7, <1>8, <1>9, <1>10 DEF RegInv

\* The switches that change no list.
LEMMA SwitchStep ==
  ASSUME RegInv, SetPermanent \/ DisableCleanup
  PROVE  RegInv'
<1>1. RegTypeOK /\ EventsOK /\ LoopOK /\ SentOK /\ KeptOK /\ HeardOK
  BY DEF RegInv
<1>2. /\ events' = events /\ listeners' = listeners /\ objects' = objects
      /\ enabled' = enabled /\ nr' = nr
      /\ pass' = pass /\ cursor' = cursor /\ cb' = cb /\ emitted' = emitted /\ dead' = dead
      /\ registered' = registered /\ heard' = heard /\ cleaned' = cleaned
      /\ permanent' \in BOOLEAN /\ cleanup' \in BOOLEAN /\ (cleanup' => cleanup)
  <2>1. permanent \in BOOLEAN /\ cleanup \in BOOLEAN
    BY <1>1 DEF RegTypeOK
  <2>2. CASE SetPermanent
    BY <2>1, <2>2 DEF SetPermanent, loop, history
  <2>3. CASE DisableCleanup
    BY <2>1, <2>3 DEF DisableCleanup, loop, history
  <2> QED
    BY <2>2, <2>3
<1>3. Batch' = Batch /\ (Passing' <=> Passing)
  BY <1>2 DEF Batch, Passing
<1>4. \A k : Sent(k)' <=> Sent(k)
  BY <1>2, <1>3 DEF Sent
<1>5. RegTypeOK'
  BY <1>1, <1>2 DEF RegTypeOK
<1>6. EventsOK'
  BY <1>1, <1>2, <1>3 DEF EventsOK
<1>7. LoopOK'
  BY <1>1, <1>2, <1>3 DEF LoopOK
<1>8. SentOK'
  BY <1>2, <1>4, SentSame
<1>9. KeptOK'
  BY <1>1, <1>2 DEF KeptOK, NoneLeft
<1>10. HeardOK'
  <2>1. \A l, k : Late(l, k)' <=> Late(l, k)
    BY <1>2, <1>3 DEF Late
  <2>2. \A l, k : Knows(l, events[k])' <=> Knows(l, events[k])
    BY <1>2 DEF Knows
  <2> QED
    BY <1>1, <1>2, <2>1, <2>2 DEF HeardOK
<1> QED
  BY <1>5, <1>6, <1>7, <1>8, <1>9, <1>10 DEF RegInv

\* enable_registration_event_cleanup: the events of the batch are kept.
LEMMA CleanupStep ==
  ASSUME RegInv, EnableCleanup
  PROVE  RegInv'
<1>1. RegTypeOK /\ EventsOK /\ LoopOK /\ SentOK /\ KeptOK /\ HeardOK
  BY DEF RegInv
<1>2. /\ pass = "idle" /\ cleanup' = TRUE /\ nr' = 0 /\ cleaned' = TRUE
      /\ enabled \/ nr <= Len(events)
      /\ events' = IF enabled THEN <<>> ELSE SubSeq(events, nr + 1, Len(events))
      /\ listeners' = listeners /\ objects' = objects
      /\ enabled' = enabled /\ permanent' = permanent
      /\ pass' = pass /\ cursor' = cursor /\ cb' = cb /\ emitted' = emitted /\ dead' = dead
      /\ registered' = registered /\ heard' = heard
  BY DEF EnableCleanup, loop
<1>3. PICK n \in Nat : n = nr
  BY <1>1 DEF RegTypeOK
<1>4. PICK e \in Nat : e = Len(events)
  BY <1>1, EventFacts
<1>5. ~ Passing /\ ~ Passing' /\ cb' = None /\ "idle" # "exit"
  BY <1>1, <1>2, PassFacts DEF Passing, LoopOK
<1>6. \A k : ~ Sent(k) /\ ~ Sent(k)'
  BY <1>5 DEF Sent
<1>7. /\ events' \in Seq(Items)
      /\ enabled => Len(events') = 0
      /\ ~ enabled => /\ Len(events') = e - n /\ n <= e
                      /\ \A k \in 1 .. e - n : events'[k] = events[k + n]
      /\ \A x \in ToSet(events') : x \in ToSet(events)
  <2>1. CASE enabled
    <3>1. <<>> \in Seq(Items) /\ Len(<<>>) = 0 /\ ToSet(<<>>) = {}
      BY DEF ToSet
    <3> QED
      BY <1>2, <2>1, <3>1
  <2>2. CASE ~ enabled
    <3>1. n <= e /\ events' = SubSeq(events, n + 1, e) /\ events \in Seq(Items)
      BY <1>1, <1>2, <1>3, <1>4, <2>2 DEF RegTypeOK
    <3>2. \A k \in n + 1 .. e : events[k] \in Items
      BY <1>4, <3>1
    <3>3. /\ events' \in Seq(Items) /\ Len(events') = e - n
          /\ \A k \in 1 .. e - n : events'[k] = events[k + n]
      <4>1. PICK q : q = SubSeq(events, n + 1, e)
        OBVIOUS
      <4>2. q \in Seq(Items) /\ Len(q) = e - n /\ \A k \in 1 .. e - n : q[k] = events[n + 1 + k - 1]
        BY <1>4, <3>1, <4>1, SubSeqProperties
      <4>3. \A k \in 1 .. e - n : n + 1 + k - 1 = k + n
        OBVIOUS
      <4> QED
        BY <3>1, <4>1, <4>2, <4>3
    <3>4. ASSUME NEW x \in ToSet(events') PROVE x \in ToSet(events)
      <4>1. PICK k \in 1 .. e - n : events'[k] = x
        BY <3>3, Members
      <4>2. k + n \in 1 .. e /\ events[k + n] = x
        BY <3>1, <3>3, <4>1
      <4> QED
        BY <1>1, <1>4, <4>2, EventFacts
    <3> QED
      BY <2>2, <3>1, <3>3, <3>4
  <2> QED
    BY <2>1, <2>2
<1>8. RegTypeOK'
  BY <1>1, <1>2, <1>7 DEF RegTypeOK
<1>9. EventsOK'
  <2>1. CASE enabled
    BY <1>2, <1>7, <2>1 DEF EventsOK
  <2>2. CASE ~ enabled
    <3>1. \A k \in 1 .. e - n : k + n \in 1 .. e /\ events'[k] = events[k + n]
      BY <1>7, <2>2
    <3>2. \A a, b \in 1 .. e - n : Constructed(events'[a]) = Constructed(events'[b]) => a = b
      <4>1. ASSUME NEW a \in 1 .. e - n, NEW b \in 1 .. e - n,
                   Constructed(events'[a]) = Constructed(events'[b])
            PROVE  a = b
        <5>1. a + n = b + n
          BY <1>1, <1>4, <3>1, <4>1 DEF EventsOK
        <5> QED
          BY <5>1
      <4> QED
        BY <4>1
    <3>3. \A a \in 1 .. e - n : Constructed(events'[a]) \in emitted
      BY <1>1, <1>4, <3>1 DEF EventsOK
    <3>4. Len(events') = e - n /\ 0 <= e - n /\ 1 .. 0 = {}
      BY <1>7, <2>2
    <3> QED
      BY <1>2, <3>2, <3>3, <3>4 DEF EventsOK
  <2> QED
    BY <2>1, <2>2
<1>10. LoopOK'
  BY <1>2, <1>5 DEF LoopOK
<1>11. SentOK'
  <2>1. CASE enabled
    BY <1>1, <1>2, <2>1 DEF SentOK, Waits
  <2>2. CASE ~ enabled
    <3>1. /\ Batch = n + 1 .. e /\ Batch' = 1 .. e - n /\ n <= e
          /\ \A k \in 1 .. e - n : events'[k] = events[k + n]
      <4>1. Batch' = 0 + 1 .. e - n
        BY <1>2, <1>7, <2>2 DEF Batch
      <4> QED
        BY <1>3, <1>4, <1>7, <2>2, <4>1 DEF Batch
    <3>2. ASSUME NEW x \in Items PROVE Waits(x)' <=> Waits(x)
      <4>1. Waits(x) <=> \E k \in n + 1 .. e : Constructed(events[k]) = x
        BY <1>6, <2>2, <3>1 DEF Waits
      <4>2. Waits(x)' <=> \E k \in 1 .. e - n : Constructed(events'[k]) = x
        BY <1>2, <1>6, <2>2, <3>1 DEF Waits
      <4>3. ASSUME NEW k \in n + 1 .. e, Constructed(events[k]) = x
            PROVE  \E m \in 1 .. e - n : Constructed(events'[m]) = x
        <5>1. k - n \in 1 .. e - n /\ (k - n) + n = k
          OBVIOUS
        <5> QED
          BY <3>1, <4>3, <5>1
      <4>4. ASSUME NEW k \in 1 .. e - n, Constructed(events'[k]) = x
            PROVE  \E m \in n + 1 .. e : Constructed(events[m]) = x
        <5>1. k + n \in n + 1 .. e
          OBVIOUS
        <5> QED
          BY <3>1, <4>4, <5>1
      <4> QED
        BY <4>1, <4>2, <4>3, <4>4
    <3> QED
      BY <1>1, <1>2, <3>2 DEF SentOK
  <2> QED
    BY <2>1, <2>2
<1>12. KeptOK'
  <2>1. NoneLeft'
    BY <1>1, <1>2, <1>7 DEF KeptOK, NoneLeft
  <2> QED
    BY <1>1, <1>2, <2>1 DEF KeptOK
<1>13. HeardOK'
  BY <1>1, <1>2 DEF HeardOK
<1> QED
  BY <1>8, <1>9, <1>10, <1>11, <1>12, <1>13 DEF RegInv

\* unregister_object of an object that is registered.
LEMMA UnregisterStep ==
  ASSUME RegInv, enabled, ~ Passing, NEW x \in emitted, UnregisterObject(x),
         pass' \in {"idle", "exit"}, pass' = "exit" => objects' # <<>>
  PROVE  RegInv'
<1>1. RegTypeOK /\ EventsOK /\ LoopOK /\ SentOK /\ KeptOK /\ HeardOK
  BY DEF RegInv
<1>2. /\ dead' = dead \cup {x}
      /\ enabled' = enabled /\ permanent' = permanent /\ cleanup' = cleanup /\ nr' = nr
      /\ cursor' = cursor /\ cb' = cb /\ emitted' = emitted
      /\ registered' = registered /\ cleaned' = cleaned
      /\ heard' = [l \in Listeners |-> [y \in Items |-> IF x \in {l, y} THEN 0 ELSE heard[l][y]]]
      /\ objects' = RemoveObject(objects, x) /\ events' = Without(events, x)
      /\ listeners' = Without(listeners, x)
  BY DEF UnregisterObject, Gone, info
<1>3. /\ NoRepeats(events) /\ events \in Seq(Items)
      /\ NoRepeats(objects) /\ objects \in Seq(Objects)
      /\ NoRepeats(listeners) /\ listeners \in Seq(Listeners)
  BY <1>1 DEF RegTypeOK, EventsOK, KeptOK, NoRepeats
<1>4. events' \in Seq(Items) /\ NoRepeats(events') /\ ToSet(events') = ToSet(events) \ {x}
  BY <1>2, <1>3, WithoutLacks DEF Lacks
<1>5. objects' \in Seq(Objects) /\ NoRepeats(objects') /\ ToSet(objects') = ToSet(objects) \ {x}
  BY <1>2, <1>3, RemoveLacks DEF Lacks
<1>6. /\ listeners' \in Seq(Listeners) /\ NoRepeats(listeners')
      /\ ToSet(listeners') = ToSet(listeners) \ {x}
  BY <1>2, <1>3, WithoutLacks DEF Lacks
<1>7. \A k \in 1 .. Len(events') : \E m \in 1 .. Len(events) : events'[k] = events[m]
  <2>1. ASSUME NEW k \in 1 .. Len(events') PROVE \E m \in 1 .. Len(events) : events'[k] = events[m]
    <3>1. events'[k] \in ToSet(events)
      BY <1>4, Members
    <3> QED
      BY <1>1, <3>1, EventFacts
  <2> QED
    BY <2>1
<1>8. ~ Passing' /\ cb = None
  BY <1>1, PassFacts DEF Passing, LoopOK
<1>9. \A l, k : ~ Late(l, k) /\ ~ Late(l, k)'
  BY <1>8 DEF Late
<1>10. registered[x] = 1
  BY <1>1, CameFacts, ConstructedFacts DEF RegTypeOK
<1>11. RegTypeOK'
  <2>1. heard' \in [Listeners -> [Items -> 0 .. HeardBound]]
    BY <1>1, <1>2 DEF RegTypeOK, HeardBound
  <2> QED
    BY <1>1, <1>2, <1>4, <1>5, <1>6, <2>1 DEF RegTypeOK
<1>12. EventsOK'
  <2>1. ASSUME NEW a \in 1 .. Len(events'), NEW b \in 1 .. Len(events'),
               Constructed(events'[a]) = Constructed(events'[b])
        PROVE  a = b
    <3>1. PICK c \in 1 .. Len(events) : events'[a] = events[c]
      BY <1>7
    <3>2. PICK d \in 1 .. Len(events) : events'[b] = events[d]
      BY <1>7
    <3>3. c = d
      BY <1>1, <2>1, <3>1, <3>2 DEF EventsOK
    <3> QED
      BY <1>4, <3>1, <3>2, <3>3 DEF NoRepeats
  <2>2. \A a \in 1 .. Len(events') : Constructed(events'[a]) \in emitted
    BY <1>1, <1>7 DEF EventsOK
  <2> QED
    BY <1>2, <2>1, <2>2 DEF EventsOK
<1>13. LoopOK'
  BY <1>2, <1>8 DEF LoopOK
<1>14. SentOK'
  BY <1>1, <1>2 DEF SentOK, Waits
<1>15. KeptOK'
  <2>1. NoneLeft'
    BY <1>1, <1>2, <1>4, <1>5, <1>6 DEF KeptOK, NoneLeft
  <2>2. \A y \in dead' : registered'[y] = 1
    BY <1>1, <1>2, <1>10 DEF KeptOK
  <2>3. ASSUME NEW a \in 1 .. Len(objects') PROVE registered'[objects'[a]] = 1
    <3>1. objects'[a] \in ToSet(objects)
      BY <1>5, Members
    <3>2. PICK b \in 1 .. Len(objects) : objects[b] = objects'[a]
      BY <1>3, <3>1, Members
    <3> QED
      BY <1>1, <1>2, <3>2 DEF KeptOK
  <2>4. \A l \in Listeners : l \in ToSet(listeners') <=> l \notin dead' /\ l # cb' /\ registered'[l] = 1
    BY <1>1, <1>2, <1>6 DEF KeptOK
  <2> QED
    BY <1>5, <1>6, <2>1, <2>2, <2>3, <2>4 DEF KeptOK
<1>16. HeardOK'
  <2>1. ASSUME ~ cleaned', NEW l \in Listeners \ dead', NEW k \in 1 .. Len(events'),
               events'[k] \in Objects, Knows(l, events[k])'
        PROVE  heard'[l][events'[k]] = IF Late(l, k)' THEN 0 ELSE 1
    <3>1. PICK m \in 1 .. Len(events) : events'[k] = events[m]
      BY <1>7
    <3>2. Knows(l, events[m])
      BY <1>2, <2>1, <3>1 DEF Knows
    <3>3. ~ cleaned /\ l \in Listeners \ dead /\ events[m] \in Objects
      BY <1>2, <2>1, <3>1
    <3>4. heard[l][events[m]] = 1
      BY <1>1, <1>9, <3>2, <3>3 DEF HeardOK
    <3>5. events'[k] \in ToSet(events')
      BY <1>4, Members
    <3>6. x # l /\ x # events'[k] /\ events'[k] \in Items
      BY <1>2, <1>4, <2>1, <3>5 DEF Items
    <3>7. heard'[l][events'[k]] = heard[l][events'[k]]
      BY <1>2, <2>1, <3>6
    <3> QED
      BY <1>9, <3>1, <3>4, <3>7
  <2>2. \A l \in Listeners, y \in Objects :
          PassOf(y) = "rest" /\ (registered'[l] = 0 \/ registered'[y] = 0) => heard'[l][y] = 0
    BY <1>1, <1>2 DEF HeardOK, Items
  <2>3. cleanup' => cleaned'
    BY <1>1, <1>2 DEF HeardOK
  <2> QED
    BY <2>1, <2>2, <2>3 DEF HeardOK
<1> QED
  BY <1>11, <1>12, <1>13, <1>14, <1>15, <1>16 DEF RegInv

\* A caller unregisters an object that it has registered.
LEMMA UnregisterOne ==
  ASSUME RegInv, "unregister" \notin Calls, NEW x \in Objects, Unregister(x)
  PROVE  RegInv'
<1>1. RegTypeOK /\ EventsOK /\ SentOK
  BY DEF RegInv
<1>2. /\ pass = "idle" /\ enabled /\ UnregisterObject(x) /\ pass' = pass
      /\ registered[x] > 0 \/ x \in ToSet(events)
  BY DEF Unregister, MayUnregister
<1>3. x \in Items /\ Constructed(x) = x
  BY ConstructedFacts
<1>4. x \in emitted
  <2>1. CASE registered[x] > 0
    <3>1. registered[x] = IF x \in emitted THEN 1 ELSE 0
      BY <1>1, <1>2, <1>3, CameFacts
    <3> QED
      BY <2>1, <3>1
  <2>2. CASE x \in ToSet(events)
    BY <1>1, <1>3, <2>2, EventFacts DEF EventsOK
  <2> QED
    BY <1>2, <2>1, <2>2
<1>5. ~ Passing /\ pass' # "exit"
  BY <1>2, PassFacts DEF Passing
<1> QED
  BY <1>2, <1>4, <1>5, UnregisterStep

\* unregister_all_objects takes the objects from the back, one after the other.
LEMMA UnregisterAllStep ==
  ASSUME RegInv, "unregister" \notin Calls, UnregisterAll
  PROVE  RegInv'
<1>1. RegTypeOK /\ EventsOK /\ LoopOK /\ SentOK /\ KeptOK /\ HeardOK
  BY DEF RegInv
<1>2. /\ pass = "idle" /\ enabled /\ objects # <<>> /\ pass' = "exit"
      /\ events' = events /\ listeners' = listeners /\ objects' = objects
      /\ enabled' = enabled /\ permanent' = permanent /\ cleanup' = cleanup /\ nr' = nr
      /\ cursor' = cursor /\ cb' = cb /\ emitted' = emitted /\ dead' = dead
      /\ registered' = registered /\ heard' = heard /\ cleaned' = cleaned
  BY DEF UnregisterAll, MayUnregister, info, history
<1>3. ~ Passing /\ ~ Passing' /\ cb' = None
  BY <1>1, <1>2, PassFacts DEF Passing, LoopOK
<1>4. RegTypeOK'
  BY <1>1, <1>2 DEF RegTypeOK
<1>5. EventsOK'
  BY <1>1, <1>2 DEF EventsOK
<1>6. LoopOK'
  BY <1>2, <1>3 DEF LoopOK
<1>7. SentOK'
  BY <1>1, <1>2 DEF SentOK, Waits
<1>8. KeptOK'
  BY <1>1, <1>2 DEF KeptOK, NoneLeft
<1>9. HeardOK'
  <2>1. \A l, k : ~ Late(l, k) /\ ~ Late(l, k)'
    BY <1>3 DEF Late
  <2> QED
    BY <1>2, <2>1, HeardSame
<1> QED
  BY <1>4, <1>5, <1>6, <1>7, <1>8, <1>9 DEF RegInv

\* One step of unregister_all_objects.
LEMMA UnregisterBackStep ==
  ASSUME RegInv, UnregisterBack
  PROVE  RegInv'
<1>1. RegTypeOK /\ LoopOK /\ KeptOK /\ EventsOK /\ SentOK
  BY DEF RegInv
<1>2. /\ pass = "exit" /\ UnregisterObject(objects[Len(objects)])
      /\ pass' = IF objects' = <<>> THEN "idle" ELSE "exit"
  BY DEF UnregisterBack
<1>3. enabled /\ objects # <<>> /\ ~ Passing
  BY <1>1, <1>2, PassFacts DEF LoopOK, Passing
<1>4. objects \in Seq(Objects) /\ Len(objects) \in 1 .. Len(objects)
  BY <1>1, <1>3 DEF RegTypeOK
<1>5. objects[Len(objects)] \in Objects /\ registered[objects[Len(objects)]] = 1
  BY <1>1, <1>4 DEF KeptOK
<1>6. objects[Len(objects)] \in emitted
  BY <1>1, <1>3, <1>5, CameFacts, ConstructedFacts
<1>7. pass' \in {"idle", "exit"} /\ (pass' = "exit" => objects' # <<>>)
  BY <1>2
<1> QED
  BY <1>2, <1>3, <1>6, <1>7, UnregisterStep

--------------------------------------------------------------------------------
\* What the callers of the plain use do.
Plain == "callback" \notin Calls /\ "unregister" \notin Calls

\* A call that registers something brings it.
LEMMA CallsArrive ==
  ASSUME Plain
  PROVE  /\ \A x \in Objects : RegisterObject(x) =>
              Arrives(x) /\ (StoreEvent(x) \/ RegisterNow(x))
         /\ \A c \in Ctors : ObjectRegistration(c) \/ RegisterConstructor(c) =>
              \E y \in Items : Arrives(y) /\ (StoreEvent(y) \/ RegisterNow(y))
<1>1. ASSUME NEW x \in Objects, RegisterObject(x)
      PROVE  Arrives(x) /\ (StoreEvent(x) \/ RegisterNow(x))
  BY <1>1, ConstructedFacts DEF RegisterObject, Arrives
<1>2. ASSUME NEW c \in Ctors, ObjectRegistration(c) \/ RegisterConstructor(c)
      PROVE  \E y \in Items : Arrives(y) /\ (StoreEvent(y) \/ RegisterNow(y))
  <2>1. /\ c \in Items /\ Constructed(c) = Makes[c] /\ Makes[c] \in Objects
        /\ Makes[c] \in Items /\ Constructed(Makes[c]) = Makes[c]
    BY ConstructedFacts, RegistrationAssumption DEF Constructed, Items
  <2>2. MayRegister(Makes[c]) /\ pass = "idle" /\ emitted' = emitted \cup {Makes[c]}
    BY <1>2 DEF ObjectRegistration, RegisterConstructor, Plain
  <2>3. Arrives(c) /\ Arrives(Makes[c])
    BY <2>1, <2>2 DEF Arrives
  <2>4. StoreEvent(c) \/ RegisterNow(Makes[c]) \/ RegisterNow(c)
    BY <1>2 DEF ObjectRegistration, RegisterConstructor
  <2> QED
    BY <2>1, <2>3, <2>4
<1> QED
  BY <1>1, <1>2

\* Every step keeps the invariant.
LEMMA RegStep ==
  ASSUME Plain, RegInv, [Next]_reg_vars
  PROVE  RegInv'
<1>1. "callback" \notin Calls /\ "unregister" \notin Calls
  BY DEF Plain
<1>2. CASE UNCHANGED reg_vars
  <2>1. /\ events' = events /\ listeners' = listeners /\ objects' = objects
        /\ enabled' = enabled /\ permanent' = permanent /\ cleanup' = cleanup /\ nr' = nr
        /\ pass' = pass /\ cursor' = cursor /\ cb' = cb /\ emitted' = emitted /\ dead' = dead
        /\ registered' = registered /\ heard' = heard /\ cleaned' = cleaned
    BY <1>2 DEF reg_vars, info, loop, history
  <2>2. Batch' = Batch /\ (Passing' <=> Passing)
    BY <2>1 DEF Batch, Passing
  <2>3. \A k : Sent(k)' <=> Sent(k)
    BY <2>1, <2>2 DEF Sent
  <2>4. RegTypeOK' /\ EventsOK' /\ LoopOK' /\ KeptOK'
    BY <2>1, <2>2 DEF RegInv, RegTypeOK, EventsOK, LoopOK, KeptOK, NoneLeft
  <2>5. SentOK'
    BY <2>1, <2>3, SentSame
  <2>6. HeardOK'
    <3>1. \A l, k : Late(l, k)' <=> Late(l, k)
      BY <2>1, <2>2 DEF Late
    <3> QED
      BY <2>1, <3>1, HeardSame
  <2> QED
    BY <2>4, <2>5, <2>6 DEF RegInv
<1>3. ASSUME NEW y, Arrives(y), StoreEvent(y) \/ RegisterNow(y) PROVE RegInv'
  BY <1>1, <1>3, StoredStep, EnteredStep
<1>4. ASSUME NEW x \in Objects, RegisterObject(x) PROVE RegInv'
  BY <1>3, <1>4, CallsArrive
<1>5. ASSUME NEW c \in Ctors, ObjectRegistration(c) \/ RegisterConstructor(c) PROVE RegInv'
  BY <1>3, <1>5, CallsArrive
<1>6. ASSUME NEW x \in Objects, Unregister(x) PROVE RegInv'
  BY <1>1, <1>6, UnregisterOne
<1>7. CASE EnableRegistration
  BY <1>7, EnableStart
<1>8. CASE EnableStep
  BY <1>8, RegisterItemStep, ReturnStep, ReplayStep, SkipStep, NextPassStep, EndStep DEF EnableStep
<1>9. CASE DisableRegistration
  BY <1>9, DisableStep
<1>10. CASE SetPermanent \/ DisableCleanup
  BY <1>10, SwitchStep
<1>11. CASE EnableCleanup
  BY <1>11, CleanupStep
<1>12. CASE UnregisterAll
  BY <1>1, <1>12, UnregisterAllStep
<1>13. CASE UnregisterBack
  BY <1>13, UnregisterBackStep
<1> QED
  BY <1>2, <1>4, <1>5, <1>6, <1>7, <1>8, <1>9, <1>10, <1>11, <1>12, <1>13 DEF Next

\* The invariant holds in every reachable state.
LEMMA RegHolds ==
  ASSUME Plain
  PROVE  Spec => []RegInv
<1>1. Init => RegInv
  BY RegStart
<1>2. RegInv /\ [Next]_reg_vars => RegInv'
  BY RegStep
<1> QED
  BY <1>1, <1>2, PTL DEF Spec

\* Whenever registration is enabled, every object that callers have registered has
\* gone through register_object_internal once, whatever was stored, sorted, called
\* back and unregistered in between.
THEOREM SentOnce ==
  ASSUME Plain
  PROVE  Spec => []AllSentOnce
<1>1. RegInv => AllSentOnce
  <2>1. SUFFICES ASSUME RegInv, Quiet, NEW x \in emitted \ dead PROVE registered[x] = 1
    BY DEF AllSentOnce
  <2>2. enabled /\ x \in Objects
    BY <2>1 DEF Quiet, RegInv, RegTypeOK
  <2> QED
    BY <2>1, <2>2, CameFacts, ConstructedFacts DEF RegInv
<1> QED
  BY <1>1, RegHolds, PTL

\* A listener has been given each object of the rest that is in the list once,
\* whichever of the two was registered first.
THEOREM HeardOnce ==
  ASSUME Plain
  PROVE  Spec => []GivenOnce
<1>1. RegInv => GivenOnce
  <2>1. SUFFICES ASSUME RegInv, Quiet, ~ cleaned, NEW l \in Listeners \ dead,
                        NEW x \in ToSet(events) \ dead,
                        PassOf(x) = "rest", registered[l] > 0, registered[x] > 0
                 PROVE  heard[l][x] = 1
    BY DEF GivenOnce
  <2>2. /\ enabled /\ pass = "idle" /\ RegTypeOK /\ EventsOK /\ LoopOK /\ SentOK /\ HeardOK
    BY <2>1 DEF Quiet, RegInv
  <2>3. PICK k \in 1 .. Len(events) : events[k] = x
    BY <2>2, EventFacts
  <2>4. x \in Items /\ l \in Items
    BY <2>2, <2>3, EventFacts, ConstructedFacts
  <2>5. /\ registered[x] = IF x \in emitted THEN 1 ELSE 0
        /\ registered[l] = IF l \in emitted THEN 1 ELSE 0
    BY <2>2, <2>4, CameFacts
  <2>6. x \in emitted /\ registered[x] = 1 /\ registered[l] = 1
    BY <2>1, <2>5
  <2>7. x \in Objects
    BY <2>2, <2>6 DEF RegTypeOK
  <2>8. ~ Late(l, k)
    BY <2>2, PassFacts DEF Late, Passing
  <2> QED
    BY <2>1, <2>2, <2>3, <2>6, <2>7, <2>8 DEF HeardOK, Knows
<1> QED
  BY <1>1, RegHolds, PTL

\* An unregistered object is in none of the lists, although remove_object leaves two
\* objects out behind each one that it erases: the collection has no repetitions.
THEOREM Unregistered ==
  ASSUME Plain
  PROVE  Spec => []NoneLeft
<1>1. RegInv => NoneLeft
  BY DEF RegInv, KeptOK
<1> QED
  BY <1>1, RegHolds, PTL

\* The loops call on_register of an object only when those of the earlier kinds in
\* the batch have been registered.
THEOREM KindsInOrder ==
  ASSUME Plain
  PROVE  Spec => PassOrder
<1> DEFINE Ordered == cb = None /\ cb' # None =>
                        \A k \in nr + 1 .. Len(events) :
                          Rank(events[k]) < Rank(cb') => registered[events[k]] > 0
<1>1. ASSUME RegInv, [Next]_reg_vars, cb = None, cb' # None PROVE RegisterItem
  <2>1. \A x \in Objects : ~ RegisterObject(x) /\ ~ Unregister(x)
    BY <1>1 DEF RegisterObject, Unregister, StoreEvent, RegisterNow, UnregisterObject, loop
  <2>2. \A c \in Ctors : ~ ObjectRegistration(c) /\ ~ RegisterConstructor(c)
    BY <1>1 DEF ObjectRegistration, RegisterConstructor, StoreEvent, RegisterNow, loop
  <2>3. /\ ~ EnableRegistration /\ ~ OnRegisterReturns /\ ~ ReplayItem /\ ~ SkipItem
        /\ ~ NextPass /\ ~ EndEnable
    BY <1>1 DEF EnableRegistration, OnRegisterReturns, ReplayItem, SkipItem, NextPass, EndEnable
  <2>4. /\ ~ DisableRegistration /\ ~ SetPermanent /\ ~ EnableCleanup /\ ~ DisableCleanup
        /\ ~ UnregisterAll /\ ~ UnregisterBack
    BY <1>1 DEF DisableRegistration, SetPermanent, EnableCleanup, DisableCleanup,
                UnregisterAll, UnregisterBack, UnregisterObject, loop
  <2>5. ~ UNCHANGED reg_vars
    BY <1>1 DEF reg_vars, loop
  <2> QED
    BY <1>1, <2>1, <2>2, <2>3, <2>4, <2>5 DEF Next, EnableStep
<1>2. ASSUME RegInv, RegisterItem, NEW k \in nr + 1 .. Len(events), Rank(events[k]) < Rank(cb')
      PROVE  registered[events[k]] > 0
  <2>1. RegTypeOK /\ EventsOK /\ LoopOK /\ SentOK
    BY <1>2 DEF RegInv
  <2>2. /\ Passing /\ ~ enabled /\ cb' = Item /\ PassOf(Item) = pass
        /\ k \in Batch
    BY <1>2, ItemFacts DEF RegisterItem, Batch
  <2>3. \A x : Rank(x) = Stage(PassOf(x))
    BY DEF Rank, Stage
  <2>4. Sent(k)
    BY <1>2, <2>2, <2>3 DEF Sent
  <2>5. k \in 1 .. Len(events) /\ events[k] \in Objects
    BY <2>1, <2>2, EventFacts DEF LoopOK
  <2>6. registered[events[k]] = 1
    BY <2>1, <2>4, <2>5, CameFacts, ConstructedFacts DEF Came
  <2> QED
    BY <2>6
<1>3. RegInv /\ [Next]_reg_vars => [Ordered]_reg_vars
  BY <1>1, <1>2
<1> QED
  BY <1>3, RegHolds, PTL DEF Spec, PassOrder
================================================================================
