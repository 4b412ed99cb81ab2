---------------------------- MODULE StreamVis_proofs ---------------------------
(***************************************************************************)
(* For any size of the ring buffer, any rows and any rate of the writer:   *)
(* the ring buffer holds the resampled values, the storage buffer what the *)
(* reader has not missed of them, the box is that of the storage buffer,   *)
(* and what is drawn is the storage buffer, wherever the new samples wrap. *)
(***************************************************************************)
EXTENDS StreamVis, FiniteSetTheorems, TLAPS

InFrame == {"check", "read", "add"}

\* A set of naturals that is not empty has a least element.
LEMMA LeastNatural ==
  ASSUME NEW T, T \subseteq Nat, T # {}
  PROVE  \E x \in T : \A y \in T : x <= y
<1> DEFINE R == OpToRel(<, Nat)
<1>1. IsWellFoundedOn(R, Nat)
  BY NatLessThanWellFounded, Zenon
<1>2. \A x, y \in Nat : y < x => <<y, x>> \in R
  BY DEF OpToRel
<1> HIDE DEF R
<1>3. PICK x \in T : \A y \in T : ~ (<<y, x>> \in R)
  BY <1>1, WFMin, Zenon
<1>4. x \in Nat /\ \A y \in T : y \in Nat /\ ~ (y < x)
  BY <1>2, <1>3, Zenon
<1> QED
  BY <1>3, <1>4

\* Finitely many integers have a least one.
LEMMA LeastOf ==
  ASSUME NEW n \in Nat \ {0}, NEW f \in [1 .. n -> Int]
  PROVE  \E i \in 1 .. n : \A j \in 1 .. n : f[i] <= f[j]
<1> DEFINE Has(m) == \E i \in 1 .. m : \A j \in 1 .. m : f[i] <= f[j]
           T == {m \in 1 .. n : ~Has(m)}
<1>1. SUFFICES ASSUME ~Has(n) PROVE FALSE
  OBVIOUS
<1>2. PICK m \in T : \A k \in T : m <= k
  <2>1. n \in T /\ T \subseteq Nat
    BY <1>1
  <2> QED BY <2>1, LeastNatural
<1>3. m # 1
  BY <1>2
<1>4. m - 1 \in 1 .. n /\ Has(m - 1)
  <2>1. m \in 1 .. n
    BY <1>2
  <2>2. m - 1 \in 1 .. n
    BY <1>3, <2>1
  <2>3. m - 1 \notin T
    <3> HIDE DEF T
    <3> QED BY <1>2, <2>1
  <2> QED BY <2>2, <2>3
<1>5. PICK i \in 1 .. m - 1 : \A j \in 1 .. m - 1 : f[i] <= f[j]
  BY <1>4
<1>6. f[m] \in Int /\ f[i] \in Int
  BY <1>2, <1>4, <1>5
<1>7. CASE f[m] <= f[i]
  <2>1. \A j \in 1 .. m : f[m] <= f[j]
    BY <1>2, <1>4, <1>5, <1>6, <1>7
  <2> QED BY <2>1, <1>2
<1>8. CASE f[i] <= f[m]
  <2>1. \A j \in 1 .. m : f[i] <= f[j]
    BY <1>2, <1>4, <1>5, <1>6, <1>8
  <2> QED BY <2>1, <1>2, <1>5
<1> QED BY <1>6, <1>7, <1>8

\* The last of finitely many numbered things.
LEMMA GreatestOf ==
  ASSUME NEW n \in Nat \ {0}, NEW f \in [1 .. n -> Int]
  PROVE  \E i \in 1 .. n : \A j \in 1 .. n : f[i] >= f[j]
<1> DEFINE g == [j \in 1 .. n |-> -f[j]]
<1>1. g \in [1 .. n -> Int]
  OBVIOUS
<1>2. PICK i \in 1 .. n : \A j \in 1 .. n : g[i] <= g[j]
  BY <1>1, LeastOf
<1>3. \A j \in 1 .. n : f[i] >= f[j]
  BY <1>2
<1> QED BY <1>3

\* A remainder is unique.
LEMMA ModUnique ==
  ASSUME NEW q \in Int, NEW R \in Nat \ {0}, NEW r \in 0 .. R - 1
  PROVE  (R * q + r) % R = r
OBVIOUS

\* A step of less than R moves a remainder on, or wraps it once.
LEMMA ModAdd ==
  ASSUME NEW R \in Nat \ {0}, NEW a \in Nat, NEW k \in 0 .. R - 1
  PROVE  (a + k) % R = IF (a % R) + k < R THEN (a % R) + k ELSE (a % R) + k - R
<1> DEFINE q == a \div R
           r == a % R
<1>1. R \in Int /\ R > 0
  OBVIOUS
<1>2. a = R * q + r /\ q \in Int
  BY <1>1, Z3
<1>3. r \in 0 .. R - 1
  OBVIOUS
<1> HIDE DEF q, r
<1>4. CASE r + k < R
  <2>1. a + k = R * q + (r + k)
    BY <1>2, <1>3
  <2>2. (R * q + (r + k)) % R = r + k
    BY <1>2, <1>3, <1>4, ModUnique
  <2> QED
    BY <1>4, <2>1, <2>2 DEF r
<1>5. CASE ~(r + k < R)
  <2>1. a + k = R * (q + 1) + (r + k - R)
    BY <1>2, <1>3
  <2>2. r + k - R \in 0 .. R - 1 /\ q + 1 \in Int
    BY <1>2, <1>3, <1>5
  <2>3. (R * (q + 1) + (r + k - R)) % R = r + k - R
    BY <2>2, ModUnique, Zenon
  <2>4. (a + k) % R = r + k - R
    BY <2>1, <2>3
  <2> QED
    BY <2>4, <1>5, Zenon DEF r
<1> QED
  BY <1>4, <1>5 DEF r

--------------------------------------------------------------------------------
\* The upload to the GPU.

FrameTypeOK ==
  /\ nr_samples \in Nat /\ plotted \in Nat /\ count \in Nat /\ s \in Nat
  /\ frame \in InFrame \cup {"none", "domain"}
  /\ frame \in InFrame => s < count
  /\ storage = [x \in Slots |-> storage[x]] /\ vbo = [x \in Slots |-> vbo[x]]

\* Of what was plotted, storage and its copy differ at most in the slots of the samples of
\* the frame that the reader has come to.
DifferInFrame ==
  frame \in InFrame =>
    \A x \in Slots : x < plotted => vbo[x] = storage[x] \/ \E k \in 0 .. s : Slot(plotted + k) = x

UploadInv == FrameTypeOK /\ DifferInFrame /\ UploadMatches

\* The replace commands copy the slot of every sample of the frame.
LEMMA AllUploaded ==
  ASSUME plotted \in Nat, count \in Nat \ {0}, NEW k \in 0 .. count - 1
  PROVE  Slot(plotted + k) \in UploadedSlots
<1> DEFINE R == ringbuffer_size
           f == plotted % R
<1>1. R \in Nat \ {0} /\ f \in 0 .. R - 1 /\ (plotted + k) % R \in 0 .. R - 1
  BY TimeSeriesAssumption
<1>2. CASE count >= R
  BY <1>1, <1>2 DEF Slot, UploadedSlots, Slots
<1>3. CASE count < R
  <2> DEFINE n == count - 1
             l == (plotted + n) % R
             i == (plotted + k) % R
  <2>1. n \in 0 .. R - 1 /\ k \in 0 .. R - 1 /\ k <= n /\ plotted + count - 1 = plotted + n
    BY <1>1, <1>3
  <2>2. l = IF f + n < R THEN f + n ELSE f + n - R
    BY <1>1, <2>1, ModAdd
  <2>3. i = IF f + k < R THEN f + k ELSE f + k - R
    BY <1>1, <2>1, ModAdd
  <2>4. Slot(plotted) = f /\ Slot(plotted + count - 1) = l /\ Slot(plotted + k) = i
    BY <2>1 DEF Slot
  <2> HIDE DEF f, l, i, n
  <2>5. l >= f => i \in f .. l
    BY <1>1, <2>1, <2>2, <2>3
  <2>6. ~(l >= f) => i \in f .. R - 1 \/ i \in 0 .. l
    BY <1>1, <2>1, <2>2, <2>3
  <2>7. UploadedSlots = IF l >= f THEN f .. l ELSE (f .. R - 1) \cup (0 .. l)
    <3>1. ~(count >= ringbuffer_size)
      BY <1>1, <1>3
    <3> QED
      BY <3>1, <2>4, Zenon DEF UploadedSlots
  <2> QED
    BY <2>4, <2>5, <2>6, <2>7
<1> QED
  BY <1>1, <1>2, <1>3

\* Before the first frame nothing is plotted.
LEMMA UploadInit == StreamInit => UploadInv
<1> SUFFICES ASSUME StreamInit PROVE UploadInv
  OBVIOUS
<1>1. storage = [x \in Slots |-> Zeroed] /\ vbo = [x \in Slots |-> Undefined]
  BY DEF StreamInit, PlotInit
<1>2. storage = [x \in Slots |-> storage[x]] /\ vbo = [x \in Slots |-> vbo[x]]
  BY <1>1
<1>3. nr_samples = 0 /\ plotted = 0 /\ frame = "none" /\ count = 0 /\ s = 0
  BY DEF StreamInit, SeriesInit, PlotInit
<1> QED
  BY <1>1, <1>2, <1>3 DEF UploadInv, FrameTypeOK, DifferInFrame, UploadMatches, InFrame, Slots

\* One step per action of the frame; the others leave it alone.
LEMMA UploadStep == UploadInv /\ [StreamNext]_stream_vars => UploadInv'
<1> SUFFICES ASSUME UploadInv, [StreamNext]_stream_vars PROVE UploadInv'
  OBVIOUS
<1> USE DEF UploadInv, FrameTypeOK, InFrame
<1>r. ringbuffer_size \in Nat \ {0}
  BY TimeSeriesAssumption
<1>u. ASSUME UNCHANGED plot_vars, nr_samples' \in Nat PROVE UploadInv'
  BY <1>u DEF plot_vars, DifferInFrame, UploadMatches
<1>1. CASE Writer
  <2>1. CASE AppendSample
    BY <2>1 , <1>1, <1>u DEF AppendSample, Writer
  <2>2. CASE \E own \in BOOLEAN : Skip(own) \/ Sample(own)
    <3>1. nr_samples' = nr_samples
      BY <2>2 DEF Skip, Sample
    <3> QED
      BY <3>1, <1>1, <1>u DEF Writer
  <2> QED
    BY <2>1, <2>2, <1>1 DEF Writer, SeriesNext
<1>2. CASE Application
  BY <1>2, <1>u DEF Application, series_vars
<1>3. CASE Timer
  BY <1>3, <1>u DEF Timer, series_vars
<1>4. CASE StartPlot /\ UNCHANGED series_vars
  BY <1>4 DEF StartPlot, FrameStart, series_vars, DifferInFrame, UploadMatches
<1>5. CASE Check /\ UNCHANGED series_vars
  BY <1>5 DEF Check, series_vars, DifferInFrame, UploadMatches
<1>6. CASE Read /\ UNCHANGED series_vars
  <2>1. /\ frame = "read" /\ frame' = "add"
        /\ UNCHANGED <<nr_samples, plotted, count, s, vbo>>
    BY <1>6 DEF Read, series_vars
  <2>2. PICK sample : storage' = [storage EXCEPT ![Slot(si)] = sample]
    BY <1>6 DEF Read
  <2>3. storage' = [x \in Slots |-> storage'[x]]
        /\ \A x \in Slots : x # Slot(si) => storage'[x] = storage[x]
    BY <2>2
  <2>4. DifferInFrame'
    <3> SUFFICES ASSUME NEW x \in Slots, x < plotted
                 PROVE  vbo[x] = storage'[x] \/ \E k \in 0 .. s : Slot(plotted + k) = x
      BY <2>1 DEF DifferInFrame
    <3>1. CASE x = Slot(si)
      BY <3>1 DEF si
    <3>2. CASE x # Slot(si)
      BY <2>1, <2>3, <3>2 DEF DifferInFrame
    <3> QED
      BY <3>1, <3>2
  <2> QED
    BY <2>1, <2>3, <2>4 DEF UploadMatches
<1>7. CASE Add /\ UNCHANGED series_vars
  <2>1. frame = "add" /\ UNCHANGED <<nr_samples, storage>>
    BY <1>7 DEF Add, series_vars
  <2>2. CASE s + 1 < count /\ s' = s + 1 /\ frame' = "check" /\ UNCHANGED <<plotted, count, vbo, missed>>
    BY <2>1, <2>2 DEF DifferInFrame, UploadMatches
  <2>3. CASE /\ s + 1 = count /\ plotted' = Plotted /\ frame' = "domain" /\ count' = 0 /\ s' = 0
             /\ vbo' = [x \in Slots |-> IF x \in UploadedSlots THEN storage[x] ELSE vbo[x]]
    <3>1. ASSUME NEW x \in Slots, x < plotted + count PROVE vbo'[x] = storage[x]
      <4>1. CASE vbo[x] = storage[x]
        BY <2>3, <4>1
      <4>2. CASE ~(x < plotted)
        <5>1. x \in Nat /\ x < ringbuffer_size /\ count \in Nat \ {0}
          BY <1>r, <2>3 DEF Slots
        <5>2. Slot(x) = x
          BY <1>r, <5>1 DEF Slot
        <5>3. x - plotted \in 0 .. count - 1 /\ plotted + (x - plotted) = x
          BY <3>1, <4>2, <5>1
        <5>4. x \in UploadedSlots
          BY <5>1, <5>2, <5>3, AllUploaded
        <5> QED
          BY <2>3, <5>4
      <4>3. CASE x < plotted /\ vbo[x] # storage[x]
        <5>1. PICK k \in 0 .. count - 1 : Slot(plotted + k) = x
          BY <2>1, <2>3, <4>3 DEF DifferInFrame
        <5>2. x \in UploadedSlots
          BY <2>3, <5>1, AllUploaded
        <5> QED
          BY <2>3, <5>2
      <4> QED
        BY <4>1, <4>2, <4>3
    <3>2. plotted' = plotted + count /\ storage' = storage
      BY <2>1, <2>3 DEF Plotted
    <3> QED
      BY <2>1, <2>3, <3>1, <3>2 DEF DifferInFrame, UploadMatches
  <2> QED
    BY <1>7, <2>2, <2>3 DEF Add
<1>8. CASE Domain /\ UNCHANGED series_vars
  BY <1>8 DEF Domain, series_vars, DifferInFrame, UploadMatches
<1>9. CASE UNCHANGED stream_vars
  BY <1>9, <1>u DEF stream_vars, series_vars
<1> QED
  BY <1>1, <1>2, <1>3, <1>4, <1>5, <1>6, <1>7, <1>8, <1>9 DEF StreamNext, Draw, FrameStep

\* Whatever the writer does meanwhile and however many samples a frame takes, the
\* frame that is drawn has what the storage buffer holds of the samples.
THEOREM StreamUploads == StreamSpec => []UploadMatches
<1>1. UploadInv => UploadMatches
  BY DEF UploadInv
<1> QED
  BY <1>1, UploadInit, UploadStep, PTL DEF StreamSpec

--------------------------------------------------------------------------------
\* The ring buffer of a time series.

Values == 0 .. MaxRows \cup {Nan}
Samples == [time : Nat, value : Values]
Rows == Seq([sampling : BOOLEAN, own : BOOLEAN])

\* SampledRows, RowOf and Latest for any sequence of rows.
SampledIn(q) == {r \in DOMAIN q : q[r].sampling}
Below(S, r) == {x \in S : x < r}
Nth(S, n) == CHOOSE r \in S : Cardinality(Below(S, r)) = n
Since(q, t) == {r \in 1 .. t : q[r].own /\ \A x \in SampledIn(q) : x < r \/ x >= t}
LastIn(R) == IF R = {} THEN Nan ELSE CHOOSE r \in R : \A x \in R : x <= r
Ranked(S) == \A n \in 0 .. Cardinality(S) - 1 : \E r \in S : Cardinality(Below(S, r)) = n

\* The definitions of TimeSeries, of any sequence of rows.
LEMMA OfRows ==
  /\ SampledRows = SampledIn(rows)
  /\ \A n : RowOf(n) = Nth(SampledRows, n)
  /\ \A n : Latest(n) = LastIn(Since(rows, RowOf(n)))
BY DEF SampledRows, SampledIn, RowOf, Nth, Below, Latest, LastIn, Since

\* A set of rows is finite.
LEMMA RowsFinite ==
  ASSUME NEW L \in Nat, NEW S \in SUBSET (1 .. L)
  PROVE  IsFiniteSet(S) /\ Cardinality(S) \in Nat /\ S \in SUBSET Nat
<1>1. IsFiniteSet(1 .. L)
  BY FS_Interval
<1>2. IsFiniteSet(S)
  BY <1>1, FS_Subset
<1>3. Cardinality(S) \in Nat
  BY <1>2, FS_CardinalityType
<1>4. S \in SUBSET Nat
  OBVIOUS
<1> QED BY <1>2, <1>3, <1>4

\* The sampled rows are finitely many.
LEMMA SampledFinite ==
  ASSUME NEW q \in Rows
  PROVE  /\ Len(q) \in Nat /\ SampledIn(q) \subseteq 1 .. Len(q)
         /\ IsFiniteSet(SampledIn(q)) /\ Cardinality(SampledIn(q)) \in Nat
<1>1. SampledIn(q) \subseteq 1 .. Len(q) /\ Len(q) \in Nat
  BY DEF SampledIn, Rows
<1> QED BY <1>1, RowsFinite

\* The position of a member is unique.
LEMMA NthUnique ==
  ASSUME NEW S \in SUBSET Nat, IsFiniteSet(S), NEW r \in S
  PROVE  Nth(S, Cardinality(Below(S, r))) = r
<1>1. ASSUME NEW a \in S, NEW b \in S, a < b
      PROVE  Cardinality(Below(S, a)) # Cardinality(Below(S, b))
  <2>1. Below(S, a) \in SUBSET Below(S, b) /\ a \in Below(S, b) /\ a \notin Below(S, a)
    <3>1. a \in Nat /\ b \in Nat /\ \A x \in S : x \in Nat
      OBVIOUS
    <3>2. ~(a < a) /\ \A x \in S : x < a => x < b
      BY <1>1, <3>1
    <3> QED BY <1>1, <3>2, Zenon DEF Below
  <2>2. IsFiniteSet(Below(S, b))
    BY FS_Subset DEF Below
  <2> QED BY <2>1, <2>2, FS_Subset
<1>2. \A a \in S : Cardinality(Below(S, a)) = Cardinality(Below(S, r)) => a = r
  BY <1>1
<1> QED BY <1>2 DEF Nth

\* A new row that is sampled comes last and moves no other.
LEMMA NthAppended ==
  ASSUME NEW L \in Nat, NEW S \in SUBSET (1 .. L), Ranked(S)
  PROVE  LET S2 == S \cup {L + 1}
         IN /\ Cardinality(S2) = Cardinality(S) + 1
            /\ Ranked(S2)
            /\ \A n \in 0 .. Cardinality(S) - 1 : Nth(S2, n) = Nth(S, n) /\ Nth(S, n) \in S
            /\ Nth(S2, Cardinality(S)) = L + 1
<1> DEFINE S2 == S \cup {L + 1}
<1>1. IsFiniteSet(S) /\ Cardinality(S) \in Nat /\ S \in SUBSET Nat
  BY RowsFinite
<1>2. IsFiniteSet(S2) /\ Cardinality(S2) = Cardinality(S) + 1 /\ S2 \in SUBSET Nat
  BY <1>1, FS_AddElement
<1>3. Below(S2, L + 1) = S /\ \A r \in S : Below(S2, r) = Below(S, r)
  <2>1. \A x \in S : x \in Nat /\ x < L + 1
    OBVIOUS
  <2>2. Below(S2, L + 1) = S
    <3>1. ~(L + 1 < L + 1)
      OBVIOUS
    <3> QED BY <2>1, <3>1, Zenon DEF Below
  <2>3. \A r \in S : ~(L + 1 < r)
    BY <2>1
  <2>4. \A r \in S : Below(S2, r) = Below(S, r)
    BY <2>3, Zenon DEF Below
  <2> QED BY <2>2, <2>4
<1>4. Nth(S2, Cardinality(S)) = L + 1
  BY <1>2, <1>3, NthUnique
<1>5. ASSUME NEW n \in 0 .. Cardinality(S) - 1
      PROVE  /\ Nth(S2, n) = Nth(S, n) /\ Nth(S, n) \in S
             /\ \E r \in S2 : Cardinality(Below(S2, r)) = n
  <2>1. PICK r \in S : Cardinality(Below(S, r)) = n
    BY DEF Ranked
  <2>2. Nth(S, n) = r
    BY <1>1, <2>1, NthUnique
  <2>3. Cardinality(Below(S2, r)) = n /\ r \in S2
    BY <1>3, <2>1
  <2>4. Nth(S2, n) = r
    BY <1>2, <2>3, NthUnique
  <2> QED BY <2>2, <2>3, <2>4
<1>6. Ranked(S2)
  <2> SUFFICES ASSUME NEW n \in 0 .. Cardinality(S2) - 1
               PROVE  \E r \in S2 : Cardinality(Below(S2, r)) = n
    BY DEF Ranked
  <2>1. n \in 0 .. Cardinality(S) - 1 \/ n = Cardinality(S)
    BY <1>1, <1>2
  <2> QED BY <1>3, <1>5, <2>1
<1> QED BY <1>2, <1>4, <1>5, <1>6

\* A row that is appended leaves the latest values of former samples.
LEMMA SinceAppended ==
  ASSUME NEW q \in Rows, NEW x \in [sampling : BOOLEAN, own : BOOLEAN], NEW t \in 1 .. Len(q)
  PROVE  Since(Append(q, x), t) = Since(q, t)
<1> DEFINE q2 == Append(q, x)
<1>1. Len(q) \in Nat /\ \A r \in 1 .. Len(q) : q2[r] = q[r]
  BY DEF Rows
<1>2. DOMAIN q2 = 1 .. Len(q) + 1 /\ DOMAIN q = 1 .. Len(q)
  BY DEF Rows
<1>3. \A r \in 1 .. Len(q) : r \in SampledIn(q2) <=> r \in SampledIn(q)
  BY <1>1, <1>2 DEF SampledIn
<1>4. \A r \in 1 .. t : (\A y \in SampledIn(q2) : y < r \/ y >= t) <=> (\A y \in SampledIn(q) : y < r \/ y >= t)
  <2>1. SampledIn(q2) \subseteq 1 .. Len(q) + 1 /\ SampledIn(q) \subseteq 1 .. Len(q)
    BY <1>2 DEF SampledIn
  <2> QED BY <1>1, <1>3, <2>1
<1> HIDE DEF q2
<1>5. Since(q2, t) = Since(q, t)
  BY <1>1, <1>4 DEF Since
<1> QED BY <1>5 DEF q2

NthRow(q, n) == Nth(SampledIn(q), n)
SampleIn(q, n) == [time |-> NthRow(q, n), value |-> LastIn(Since(q, NthRow(q, n)))]

\* The rows of the values that came in since the last sample.
CachedIn(q) == {r \in 1 .. Len(q) : q[r].own /\ \A x \in SampledIn(q) : x < r}

\* Rows q2 are q, of which there are L and n are sampled, with one row more; new is
\* the set of that row if it has a value of the series.
RowAdded(q, q2, sampling, new, L, n) ==
  /\ q2 \in Rows /\ Len(q2) = L + 1
  /\ Ranked(SampledIn(q2))
  /\ Cardinality(SampledIn(q2)) = IF sampling THEN n + 1 ELSE n
  /\ \A k \in 0 .. n - 1 : SampleIn(q2, k) = SampleIn(q, k)
  /\ sampling => NthRow(q2, n) = L + 1
  /\ sampling => Since(q2, L + 1) = CachedIn(q) \cup new
  /\ CachedIn(q2) = IF sampling THEN {} ELSE CachedIn(q) \cup new

\* What appending a row does to the samples and the cached values.
LEMMA RowAppended ==
  ASSUME NEW q \in Rows, Ranked(SampledIn(q)), NEW sampling \in BOOLEAN, NEW own \in BOOLEAN
  PROVE  RowAdded(q, Append(q, [sampling |-> sampling, own |-> own]), sampling,
                  IF own THEN {Len(q) + 1} ELSE {}, Len(q), Cardinality(SampledIn(q)))
<1> DEFINE x == [sampling |-> sampling, own |-> own]
           q2 == Append(q, x)
           S == SampledIn(q)
           L == Len(q)
           n == Cardinality(S)
<1>1. /\ x \in [sampling : BOOLEAN, own : BOOLEAN] /\ x.sampling = sampling /\ x.own = own
      /\ q2 \in Rows /\ Len(q2) = L + 1 /\ L \in Nat
      /\ \A r \in 1 .. L : q2[r] = q[r]
      /\ q2[L + 1] = x
      /\ DOMAIN q2 = 1 .. L + 1 /\ DOMAIN q = 1 .. L
  BY DEF Rows
<1>2. S \in SUBSET (1 .. L) /\ n \in Nat
  BY SampledFinite
<1>3. SampledIn(q2) = IF sampling THEN S \cup {L + 1} ELSE S
  <2> HIDE DEF x, q2
  <2>1. \A r : r \in SampledIn(q2) <=> r \in 1 .. L + 1 /\ q2[r].sampling
    BY <1>1 DEF SampledIn
  <2>2. \A r : r \in S <=> r \in 1 .. L /\ q[r].sampling
    BY <1>1 DEF SampledIn
  <2>3. \A r \in 1 .. L : r \in SampledIn(q2) <=> r \in S
    BY <1>1, <2>1, <2>2
  <2>4. L + 1 \in SampledIn(q2) <=> sampling
    BY <1>1, <2>1
  <2>5. \A r : r \in 1 .. L + 1 <=> r \in 1 .. L \/ r = L + 1
    BY <1>1
  <2>6. CASE sampling
    <3>1. \A r : r \in SampledIn(q2) <=> r \in S \cup {L + 1}
      BY <2>1, <2>2, <2>3, <2>4, <2>5, <2>6, Zenon
    <3> QED BY <3>1, <2>6, Zenon
  <2>7. CASE ~sampling
    <3>1. \A r : r \in SampledIn(q2) <=> r \in S
      BY <2>1, <2>2, <2>3, <2>4, <2>5, <2>7, Zenon
    <3> QED BY <3>1, <2>7, Zenon
  <2> QED BY <2>6, <2>7
<1>4. /\ Ranked(SampledIn(q2))
      /\ Cardinality(SampledIn(q2)) = IF sampling THEN n + 1 ELSE n
      /\ \A k \in 0 .. n - 1 : NthRow(q2, k) = NthRow(q, k)
      /\ sampling => NthRow(q2, n) = L + 1
  <2>1. CASE sampling
    <3>1. SampledIn(q2) = S \cup {L + 1}
      BY <1>3, <2>1
    <3>2. /\ Cardinality(S \cup {L + 1}) = n + 1 /\ Ranked(S \cup {L + 1})
          /\ \A k \in 0 .. n - 1 : Nth(S \cup {L + 1}, k) = Nth(S, k)
          /\ Nth(S \cup {L + 1}, n) = L + 1
      BY <1>1, <1>2, NthAppended
    <3> QED BY <2>1, <3>1, <3>2, Zenon DEF NthRow
  <2>2. CASE ~sampling
    BY <1>3, <2>2, Zenon DEF NthRow
  <2> QED BY <2>1, <2>2
<1>5. \A k \in 0 .. n - 1 : NthRow(q, k) \in 1 .. L
  BY <1>1, <1>2, NthAppended DEF NthRow
<1>6. \A k \in 0 .. n - 1 : SampleIn(q2, k) = SampleIn(q, k)
  <2> SUFFICES ASSUME NEW k \in 0 .. n - 1 PROVE SampleIn(q2, k) = SampleIn(q, k)
    OBVIOUS
  <2>1. Since(q2, NthRow(q, k)) = Since(q, NthRow(q, k))
    BY <1>1, <1>5, SinceAppended
  <2> QED BY <1>4, <2>1, Zenon DEF SampleIn
<1> DEFINE new == IF own THEN {L + 1} ELSE {}
<1>7. sampling => Since(q2, L + 1) = CachedIn(q) \cup new
  <2> SUFFICES ASSUME sampling, NEW r
               PROVE  r \in Since(q2, L + 1) <=> r \in CachedIn(q) \cup new
    BY Zenon
  <2>1. r \in CachedIn(q) <=> r \in 1 .. L /\ q[r].own /\ \A y \in S : y < r
    BY DEF CachedIn
  <2>2. r \in Since(q2, L + 1) <=> r \in 1 .. L + 1 /\ q2[r].own /\ \A y \in S \cup {L + 1} : y < r \/ y >= L + 1
    BY <1>3 DEF Since
  <2>3. \A y \in S : y \in Nat /\ ~(y >= L + 1)
    BY <1>1, <1>2
  <2>4. L + 1 >= L + 1 /\ (r \in 1 .. L + 1 <=> r \in 1 .. L \/ r = L + 1) /\ \A y \in S : y < L + 1
    BY <1>1, <1>2
  <2>5. L + 1 \notin 1 .. L
    BY <1>1
  <2>6. CASE r \in 1 .. L
    <3>1. q2[r].own <=> q[r].own
      BY <1>1, <2>6, Zenon
    <3>2. r # L + 1
      BY <2>5, <2>6
    <3> HIDE DEF q2, L
    <3>3. (\A y \in S \cup {L + 1} : y < r \/ y >= L + 1) <=> \A y \in S : y < r
      BY <2>3, <2>4, Zenon
    <3> QED BY <2>1, <2>2, <2>4, <2>6, <3>1, <3>2, <3>3, Zenon
  <2>7. CASE r = L + 1
    <3>1. q2[r].own <=> own
      BY <1>1, <2>7, Zenon
    <3> HIDE DEF q2, L
    <3>2. \A y \in S \cup {L + 1} : y < r \/ y >= L + 1
      BY <2>4, <2>7, Zenon
    <3> QED BY <2>1, <2>2, <2>4, <2>5, <2>7, <3>1, <3>2, Zenon
  <2> HIDE DEF q2, L
  <2> QED BY <2>1, <2>2, <2>4, <2>6, <2>7, Zenon
<1>8. CachedIn(q2) = IF sampling THEN {} ELSE CachedIn(q) \cup new
  <2>1. \A r : r \in CachedIn(q2) <=> r \in 1 .. L + 1 /\ q2[r].own /\ \A y \in SampledIn(q2) : y < r
    BY <1>1 DEF CachedIn
  <2>2. \A r : r \in CachedIn(q) <=> r \in 1 .. L /\ q[r].own /\ \A y \in S : y < r
    BY DEF CachedIn
  <2>3. CASE sampling
    <3>1. \A r \in 1 .. L + 1 : ~(L + 1 < r)
      BY <1>1
    <3>2. L + 1 \in SampledIn(q2)
      BY <1>3, <2>3
    <3> HIDE DEF q2, L
    <3>3. \A r : r \notin CachedIn(q2)
      BY <2>1, <3>1, <3>2, Zenon
    <3> QED BY <2>3, <3>3, Zenon
  <2>4. CASE ~sampling
    <3>1. SampledIn(q2) = S
      BY <1>3, <2>4
    <3>2. /\ \A r : r \in 1 .. L + 1 <=> r \in 1 .. L \/ r = L + 1
          /\ \A y \in S : y < L + 1
          /\ L + 1 \notin 1 .. L
      BY <1>1, <1>2
    <3>3. /\ \A r \in 1 .. L : q2[r].own <=> q[r].own
          /\ q2[L + 1].own <=> own
      BY <1>1, Zenon
    <3> HIDE DEF q2, L
    <3>4. \A r : r \in CachedIn(q2) <=> r \in CachedIn(q) \cup new
      BY <2>1, <2>2, <3>1, <3>2, <3>3, Zenon
    <3> QED BY <2>4, <3>4, Zenon
  <2> QED BY <2>3, <2>4
<1> QED BY <1>1, <1>3, <1>4, <1>6, <1>7, <1>8, Zenon DEF RowAdded

\* The last of rows to which a later one is added is that one.
LEMMA LastAdded ==
  ASSUME NEW R \in SUBSET Nat, NEW m \in Nat, \A r \in R : r < m
  PROVE  LastIn(R \cup {m}) = m
<1>1. m \in R \cup {m} /\ \A x \in R \cup {m} : x <= m
  OBVIOUS
<1>2. ASSUME NEW r \in R \cup {m}, \A x \in R \cup {m} : x <= r
      PROVE  r = m
  BY <1>1, <1>2
<1> QED BY <1>1, <1>2, Zenon DEF LastIn

SeriesTypeOK ==
  /\ rows \in Rows /\ Len(rows) <= MaxRows
  /\ have_new_value \in BOOLEAN /\ new_value \in Values
  /\ nr_samples \in Nat /\ sample_cache \in [Slots -> Samples]
  /\ pending \in Samples \cup {None}

\* Every sampled row has its position, and the sample that is being appended is the
\* next one.
SamplesCounted ==
  /\ Ranked(SampledIn(rows))
  /\ nr_samples + (IF pending = None THEN 0 ELSE 1) = Cardinality(SampledIn(rows))

\* The cache has the latest value since the last sample.
CacheIsLatest ==
  /\ have_new_value <=> CachedIn(rows) # {}
  /\ have_new_value => new_value = LastIn(CachedIn(rows))

\* In the ring are the last samples, without the one that is being overwritten.
RingHolds ==
  \A k \in 0 .. nr_samples - 1 :
    k >= nr_samples - ringbuffer_size /\ (pending = None \/ k > nr_samples - ringbuffer_size)
      => sample_cache[Slot(k)] = SampleIn(rows, k)

SamplesKept ==
  /\ value_offset = "number"
  /\ CacheIsLatest
  /\ pending # None => pending = SampleIn(rows, nr_samples)
  /\ RingHolds

SeriesInv == SeriesTypeOK /\ SamplesCounted

\* A sample is the resampled one when time and value are those of its row.
LEMMA IsSampleOf ==
  ASSUME NEW sample, NEW n
  PROVE  IsSample(sample, n) <=> sample = SampleIn(rows, n)
BY OfRows, Zenon DEF IsSample, SampleIn, NthRow

\* What the ring holds is what Resampled says of it.
LEMMA ResampledMeans ==
  ASSUME SeriesInv, RingHolds
  PROVE  Resampled
<1>1. nr_samples + (IF pending = None THEN 0 ELSE 1) = Cardinality(SampledRows)
  BY OfRows DEF SeriesInv, SamplesCounted
<1>2. ASSUME NEW k \in 0 .. nr_samples - 1,
             k >= nr_samples - ringbuffer_size, pending = None \/ k > nr_samples - ringbuffer_size
      PROVE  IsSample(sample_cache[Slot(k)], k)
  BY <1>2, IsSampleOf DEF RingHolds
<1> QED BY <1>1, <1>2 DEF Resampled

\* The state after a row is read.
LEMMA RowRead ==
  ASSUME SeriesInv, NEW sampling \in BOOLEAN, NEW own \in BOOLEAN,
         IF sampling THEN Sample(own) ELSE Skip(own)
  PROVE  /\ SeriesInv' /\ (SeriesKind = "int" /\ SamplesKept => SamplesKept')
         /\ nr_samples' = nr_samples
         /\ \A k \in 0 .. nr_samples - 1 : SampleIn(rows', k) = SampleIn(rows, k)
<1> DEFINE L == Len(rows)
           n == Cardinality(SampledIn(rows))
           new == IF own THEN {L + 1} ELSE {}
           v == SampledValue(L + 1, own)
<1>1. /\ rows' = Append(rows, [sampling |-> sampling, own |-> own])
      /\ pending = None /\ L < MaxRows
      /\ UNCHANGED <<nr_samples, sample_cache>>
  BY DEF Sample, Skip
<1>2. /\ rows \in Rows /\ Ranked(SampledIn(rows)) /\ nr_samples = n /\ n \in Nat /\ L \in Nat /\ MaxRows \in Nat
  BY <1>1, SampledFinite, TimeSeriesAssumption DEF SeriesInv, SeriesTypeOK, SamplesCounted
<1>3. /\ rows' \in Rows /\ Len(rows') = L + 1
      /\ Ranked(SampledIn(rows'))
      /\ Cardinality(SampledIn(rows')) = IF sampling THEN n + 1 ELSE n
      /\ \A k \in 0 .. n - 1 : SampleIn(rows', k) = SampleIn(rows, k)
      /\ sampling => NthRow(rows', n) = L + 1
      /\ sampling => Since(rows', L + 1) = CachedIn(rows) \cup new
      /\ CachedIn(rows') = IF sampling THEN {} ELSE CachedIn(rows) \cup new
  <2>1. RowAdded(rows, Append(rows, [sampling |-> sampling, own |-> own]), sampling, new, L, n)
    BY <1>2, RowAppended, Zenon
  <2>2. RowAdded(rows, rows', sampling, new, L, n)
    BY <1>1, <2>1, Zenon
  <2> QED BY <2>2, Zenon DEF RowAdded
<1>4. L + 1 \in Values /\ Nan \in Values /\ L + 1 \in Nat
  BY <1>1, <1>2 DEF Values
<1>5. v \in Values
  BY <1>4 DEF SampledValue, SeriesInv, SeriesTypeOK
<1> HIDE DEF L, v
<1>6. CASE sampling
  <2>1. pending' = [time |-> L + 1, value |-> IF OffsetAfter(v) = "nan" THEN Nan ELSE v]
    BY <1>6 DEF Sample, L, v
  <2>2. /\ have_new_value' = (have_new_value /\ ~ClearsCache(own)) /\ new_value' = new_value
        /\ value_offset' = OffsetAfter(v)
    BY <1>6, Zenon DEF Sample, v, L
  <2>3. pending' \in Samples /\ pending' # None
    <3>1. pending' \in Samples
      BY <2>1, <1>4, <1>5 DEF Samples
    <3>2. Samples \subseteq [time : Nat, value : Nat \cup {Nan}]
      BY DEF Samples, Values
    <3> QED BY <3>1, <3>2, TimeSeriesAssumption
  <2>4. SeriesInv'
    <3>1. have_new_value' \in BOOLEAN
      BY <2>2
    <3>2. SeriesTypeOK'
      BY <1>1, <1>2, <1>3, <2>2, <2>3, <3>1 DEF SeriesInv, SeriesTypeOK, L
    <3>3. SamplesCounted'
      BY <1>1, <1>2, <1>3, <1>6, <2>3 DEF SamplesCounted
    <3> QED BY <3>2, <3>3 DEF SeriesInv
  <2>5. ASSUME SeriesKind = "int", SamplesKept PROVE SamplesKept'
    <3>1. OffsetAfter(v) = "number" /\ value_offset' = "number"
      BY <2>2, <2>5 DEF SamplesKept, OffsetAfter
    <3>2. ~have_new_value' /\ CachedIn(rows') = {}
      BY <1>3, <1>6, <2>2, <2>5 DEF ClearsCache
    <3>3. v = LastIn(Since(rows', L + 1))
      <4>1. CachedIn(rows) \in SUBSET Nat /\ \A r \in CachedIn(rows) : r < L + 1
        BY <1>2 DEF CachedIn, L
      <4>2. CASE own
        <5>1. Since(rows', L + 1) = CachedIn(rows) \cup {L + 1} /\ v = L + 1
          BY <1>3, <1>6, <4>2 DEF SampledValue, v, L
        <5> QED BY <1>4, <4>1, <5>1, LastAdded
      <4>3. CASE ~own
        <5>1. Since(rows', L + 1) = CachedIn(rows)
          BY <1>3, <1>6, <4>3 DEF L
        <5>2. v = IF have_new_value THEN new_value ELSE Nan
          BY <4>3 DEF SampledValue, v
        <5> QED BY <2>5, <5>1, <5>2, Zenon DEF SamplesKept, CacheIsLatest, LastIn
      <4> QED BY <4>2, <4>3
    <3>4. pending' = SampleIn(rows', nr_samples')
      BY <1>1, <1>2, <1>3, <1>6, <2>1, <3>1, <3>3 DEF SampleIn, L
    <3>5. RingHolds'
      BY <1>1, <1>2, <1>3, <2>3, <2>5 DEF SamplesKept, RingHolds
    <3> QED BY <3>1, <3>2, <3>4, <3>5, Zenon DEF SamplesKept, CacheIsLatest
  <2> QED BY <1>1, <1>2, <1>3, <2>4, <2>5
<1>7. CASE ~sampling
  <2>1. /\ have_new_value' = (have_new_value \/ own)
        /\ new_value' = (IF own THEN L + 1 ELSE new_value)
        /\ value_offset' = value_offset /\ pending' = pending
    BY <1>7 DEF Skip, L
  <2>2. SeriesInv'
    <3>1. have_new_value' \in BOOLEAN
      BY <2>1
    <3>2. new_value' \in Values
      BY <1>4, <2>1 DEF SeriesInv, SeriesTypeOK
    <3>3. SeriesTypeOK'
      BY <1>1, <1>2, <1>3, <2>1, <3>1, <3>2 DEF SeriesInv, SeriesTypeOK, L
    <3>4. SamplesCounted'
      BY <1>1, <1>2, <1>3, <1>7, <2>1 DEF SamplesCounted
    <3> QED BY <3>3, <3>4 DEF SeriesInv
  <2>3. ASSUME SamplesKept PROVE SamplesKept'
    <3>1. have_new_value' <=> CachedIn(rows') # {}
      <4>1. have_new_value <=> CachedIn(rows) # {}
        BY <2>3 DEF SamplesKept, CacheIsLatest
      <4>2. CachedIn(rows') # {} <=> CachedIn(rows) # {} \/ own
        BY <1>3, <1>7
      <4> QED BY <2>1, <4>1, <4>2, Zenon
    <3>2. have_new_value' => new_value' = LastIn(CachedIn(rows'))
      <4>1. CachedIn(rows) \in SUBSET Nat /\ \A r \in CachedIn(rows) : r < L + 1
        BY <1>2 DEF CachedIn, L
      <4>2. CASE own
        <5>1. CachedIn(rows') = CachedIn(rows) \cup {L + 1} /\ new_value' = L + 1
          BY <1>3, <1>7, <2>1, <4>2 DEF L
        <5> QED BY <1>4, <4>1, <5>1, LastAdded
      <4>3. CASE ~own
        <5>1. CachedIn(rows') = CachedIn(rows)
          BY <1>3, <1>7, <4>3
        <5> QED BY <2>1, <2>3, <4>3, <5>1, Zenon DEF SamplesKept, CacheIsLatest
      <4> QED BY <4>2, <4>3
    <3>3. RingHolds'
      BY <1>1, <1>2, <1>3, <2>1, <2>3 DEF SamplesKept, RingHolds
    <3> QED BY <1>1, <2>1, <2>3, <3>1, <3>2, <3>3 DEF SamplesKept, CacheIsLatest
  <2> QED BY <1>1, <1>2, <1>3, <2>2, <2>3
<1> QED BY <1>6, <1>7

\* Two numbers that are less than R apart are in different slots.
LEMMA SlotsDiffer ==
  ASSUME NEW a \in Nat, NEW b \in Nat, a < b, b < a + ringbuffer_size
  PROVE  Slot(a) # Slot(b)
<1> DEFINE R == ringbuffer_size
           k == b - a
<1>1. R \in Nat \ {0} /\ k \in 0 .. R - 1 /\ k # 0 /\ b = a + k /\ a % R \in 0 .. R - 1
  BY TimeSeriesAssumption
<1> HIDE DEF k
<1>2. (a + k) % R = IF (a % R) + k < R THEN (a % R) + k ELSE (a % R) + k - R
  BY <1>1, ModAdd, Zenon
<1> QED BY <1>1, <1>2 DEF Slot

\* Every number has a slot.
LEMMA SlotType == \A n \in Nat : Slot(n) \in Slots
BY TimeSeriesAssumption DEF Slot, Slots

\* The sample that was being appended is in the ring, and the one it overwrote is not
\* one of the last any more.
LEMMA SampleAppended ==
  ASSUME SeriesInv, AppendSample
  PROVE  SeriesInv' /\ (SamplesKept => SamplesKept')
<1>1. /\ pending # None /\ pending' = None /\ nr_samples' = nr_samples + 1
      /\ sample_cache' = [sample_cache EXCEPT ![Slot(nr_samples)] = pending]
      /\ UNCHANGED <<rows, have_new_value, new_value, value_offset>>
  BY DEF AppendSample
<1>2. nr_samples \in Nat /\ Slot(nr_samples) \in Slots /\ pending \in Samples /\ sample_cache \in [Slots -> Samples]
  BY <1>1, SlotType DEF SeriesInv, SeriesTypeOK
<1>3. SeriesTypeOK'
  BY <1>1, <1>2 DEF SeriesInv, SeriesTypeOK
<1>4. SamplesCounted'
  BY <1>1, <1>2 DEF SeriesInv, SamplesCounted
<1>5. ASSUME SamplesKept PROVE RingHolds'
  <2> SUFFICES ASSUME NEW k \in 0 .. nr_samples' - 1, k >= nr_samples' - ringbuffer_size
               PROVE  sample_cache'[Slot(k)] = SampleIn(rows', k)
    BY DEF RingHolds
  <2>k. k \in 0 .. nr_samples /\ k >= nr_samples + 1 - ringbuffer_size /\ rows' = rows
    BY <1>1, <1>2, TimeSeriesAssumption
  <2>1. CASE k = nr_samples
    BY <1>1, <1>2, <1>5, <2>k, <2>1 DEF SamplesKept
  <2>2. CASE k # nr_samples
    <3>1. k \in Nat /\ k < nr_samples /\ nr_samples < k + ringbuffer_size /\ k > nr_samples - ringbuffer_size
      BY <1>2, <2>k, <2>2, TimeSeriesAssumption
    <3>2. Slot(k) # Slot(nr_samples)
      BY <1>2, <3>1, SlotsDiffer
    <3>3. sample_cache[Slot(k)] = SampleIn(rows, k)
      BY <1>2, <1>5, <3>1, TimeSeriesAssumption DEF SamplesKept, RingHolds
    <3> QED BY <1>1, <1>2, <2>k, <3>1, <3>2, <3>3, SlotType
  <2> QED BY <2>1, <2>2
<1> QED BY <1>1, <1>3, <1>4, <1>5 DEF SeriesInv, SamplesKept, CacheIsLatest

\* What the writer does keeps what it has written.
LEMMA WriterStep ==
  ASSUME SeriesInv, SeriesNext
  PROVE  /\ SeriesInv' /\ (SeriesKind = "int" /\ SamplesKept => SamplesKept')
         /\ nr_samples' \in Nat /\ nr_samples' >= nr_samples
         /\ \A k \in 0 .. nr_samples - 1 : SampleIn(rows', k) = SampleIn(rows, k)
<1>n. nr_samples \in Nat
  BY DEF SeriesInv, SeriesTypeOK
<1>1. CASE AppendSample
  BY <1>n, <1>1, SampleAppended DEF AppendSample
<1>2. ASSUME NEW own \in BOOLEAN, Skip(own) PROVE SeriesInv' /\ (SeriesKind = "int" /\ SamplesKept => SamplesKept')
         /\ nr_samples' = nr_samples
         /\ \A k \in 0 .. nr_samples - 1 : SampleIn(rows', k) = SampleIn(rows, k)
  <2>1. IF FALSE THEN Sample(own) ELSE Skip(own)
    BY <1>2
  <2> QED BY <2>1, RowRead
<1>3. ASSUME NEW own \in BOOLEAN, Sample(own) PROVE SeriesInv' /\ (SeriesKind = "int" /\ SamplesKept => SamplesKept')
         /\ nr_samples' = nr_samples
         /\ \A k \in 0 .. nr_samples - 1 : SampleIn(rows', k) = SampleIn(rows, k)
  <2>1. IF TRUE THEN Sample(own) ELSE Skip(own)
    BY <1>3
  <2> QED BY <2>1, RowRead
<1> QED BY <1>n, <1>1, <1>2, <1>3 DEF SeriesNext

\* Before the first row.
LEMMA SeriesStart == SeriesInit => SeriesInv /\ (SeriesKind = "int" => SamplesKept)
<1> SUFFICES ASSUME SeriesInit PROVE SeriesInv /\ (SeriesKind = "int" => SamplesKept)
  OBVIOUS
<1>1. /\ rows = <<>> /\ have_new_value = FALSE /\ new_value = Nan /\ nr_samples = 0 /\ pending = None
      /\ sample_cache = [x \in Slots |-> NoSample]
      /\ SeriesKind = "int" => value_offset = "number"
  BY DEF SeriesInit
<1>2. SampledIn(rows) = {} /\ CachedIn(rows) = {} /\ rows \in Rows /\ Len(rows) = 0
  BY <1>1 DEF SampledIn, CachedIn, Rows
<1>3. Cardinality(SampledIn(rows)) = 0
  BY <1>2, FS_EmptySet
<1>4. NoSample \in Samples /\ MaxRows \in Nat
  BY TimeSeriesAssumption DEF NoSample, Samples, Values
<1>5. SeriesTypeOK
  <2>1. sample_cache \in [Slots -> Samples]
    BY <1>1, <1>4
  <2>2. new_value \in Values /\ have_new_value \in BOOLEAN /\ nr_samples \in Nat /\ pending \in Samples \cup {None}
    BY <1>1 DEF Values
  <2>3. rows \in Rows /\ Len(rows) <= MaxRows
    BY <1>2, <1>4
  <2> QED BY <2>1, <2>2, <2>3, Zenon DEF SeriesTypeOK
<1>6. SamplesCounted
  BY <1>1, <1>3 DEF SamplesCounted, Ranked
<1>7. CacheIsLatest /\ RingHolds
  BY <1>1, <1>2 DEF CacheIsLatest, RingHolds
<1> QED BY <1>1, <1>5, <1>6, <1>7 DEF SeriesInv, SamplesKept

--------------------------------------------------------------------------------
\* The reader.

\* The samples of a frame are there when it starts, and none is gone over twice.
FrameBounds ==
  /\ plotted \in Nat /\ count \in Nat /\ s \in Nat
  /\ frame \in InFrame \cup {"none", "domain"}
  /\ storage \in [Slots -> Samples]
  /\ frame \in InFrame => s < count /\ plotted + count <= nr_samples
  /\ frame \notin InFrame => s = 0 /\ count = 0 /\ plotted <= nr_samples

\* The storage as StorageHolds has it, and the sample that a frame has just read.
StorageInv ==
  /\ \A k \in 0 .. si - 1 :
       k >= si - ringbuffer_size /\ k \notin missed /\ (frame = "add" => k # si - ringbuffer_size)
         => storage[Slot(k)] = SampleIn(rows, k)
  /\ frame = "add" /\ si \notin missed => storage[Slot(si)] = SampleIn(rows, si)

FrameInv == SeriesInv /\ FrameBounds
HoldInv == SamplesKept /\ StorageInv

\* What the storage holds is what StorageHolds says of it.
LEMMA StorageMeans ==
  ASSUME FrameInv, StorageInv
  PROVE  StorageHolds
BY IsSampleOf DEF StorageInv, StorageHolds

\* The writer, seen from the reader.
LEMMA WriterKeeps ==
  ASSUME FrameInv, SeriesKind = "int" => HoldInv, SeriesNext, UNCHANGED plot_vars
  PROVE  FrameInv' /\ (SeriesKind = "int" => HoldInv')
<1>1. /\ SeriesInv' /\ (SeriesKind = "int" => SamplesKept')
      /\ nr_samples' \in Nat /\ nr_samples' >= nr_samples /\ nr_samples \in Nat
      /\ \A k \in 0 .. nr_samples - 1 : SampleIn(rows', k) = SampleIn(rows, k)
  BY WriterStep DEF FrameInv, HoldInv, SeriesInv, SeriesTypeOK
<1>2. /\ plotted' = plotted /\ count' = count /\ s' = s /\ frame' = frame /\ storage' = storage /\ missed' = missed
      /\ si' = si
  BY DEF plot_vars, si
<1>3. FrameBounds'
  BY <1>1, <1>2 DEF FrameInv, FrameBounds
<1>4. ASSUME StorageInv PROVE StorageInv'
  <2>1. si \in Nat /\ si <= nr_samples /\ (frame = "add" => si < nr_samples)
    BY <1>1 DEF FrameInv, FrameBounds, InFrame, si
  <2>2. \A k \in 0 .. si - 1 : SampleIn(rows', k) = SampleIn(rows, k)
    BY <1>1, <2>1
  <2>3. frame = "add" => SampleIn(rows', si) = SampleIn(rows, si)
    BY <1>1, <2>1
  <2> QED BY <1>2, <1>4, <2>2, <2>3 DEF StorageInv
<1> QED BY <1>1, <1>3, <1>4 DEF FrameInv, HoldInv

\* What the reader does while the writer does not.
LEMMA SeriesStays ==
  ASSUME SeriesInv, UNCHANGED series_vars
  PROVE  /\ SeriesInv' /\ (SamplesKept => SamplesKept')
         /\ rows' = rows /\ nr_samples' = nr_samples /\ nr_samples \in Nat
<1>1. UNCHANGED <<rows, have_new_value, new_value, value_offset, nr_samples, sample_cache, pending>>
  BY DEF series_vars
<1> QED BY <1>1 DEF SeriesInv, SeriesTypeOK, SamplesCounted, SamplesKept, CacheIsLatest, RingHolds

\* What the reader reads when it has not missed the sample.
LEMMA ReadsWhole ==
  ASSUME FrameInv, SamplesKept, frame = "read", ~Overwritten(si), NEW sample \in Seen(Slot(si))
  PROVE  sample = SampleIn(rows, si)
<1> DEFINE R == ringbuffer_size
<1>1. /\ si \in Nat /\ nr_samples \in Nat /\ si < nr_samples /\ R \in Nat
      /\ nr_samples + (IF pending = None THEN 0 ELSE 1) <= si + R
  BY TimeSeriesAssumption DEF FrameInv, FrameBounds, SeriesInv, SeriesTypeOK, InFrame, si, Overwritten
<1> HIDE DEF R
<1>2. si \in 0 .. nr_samples - 1 /\ si >= nr_samples - R /\ (pending = None \/ si > nr_samples - R)
  BY <1>1
<1>3. sample_cache[Slot(si)] = SampleIn(rows, si)
  BY <1>2, Zenon DEF SamplesKept, RingHolds, R
<1>4. Seen(Slot(si)) = {sample_cache[Slot(si)]}
  <2>1. CASE pending = None
    BY <2>1 DEF Seen
  <2>2. CASE pending # None
    <3>1. nr_samples < si + R
      BY <1>1, <2>2
    <3>2. Slot(si) # Slot(nr_samples)
      BY <1>1, <3>1, SlotsDiffer DEF R
    <3> QED BY <3>2 DEF Seen
  <2> QED BY <2>1, <2>2
<1> QED BY <1>3, <1>4

\* Any sample that may be read is one by its type.
LEMMA SeenTypes ==
  ASSUME SeriesInv, NEW x \in Slots, NEW sample \in Seen(x)
  PROVE  sample \in Samples
<1>1. sample_cache[x] \in Samples /\ (pending # None => pending \in Samples)
  BY DEF SeriesInv, SeriesTypeOK
<1>2. CASE pending # None /\ Slot(nr_samples) = x
  <2>1. sample \in [time : {sample_cache[x].time, pending.time}, value : {sample_cache[x].value, pending.value}]
    BY <1>2, Zenon DEF Seen
  <2> QED BY <1>1, <1>2, <2>1 DEF Samples
<1>3. CASE ~(pending # None /\ Slot(nr_samples) = x)
  BY <1>1, <1>3 DEF Seen
<1> QED BY <1>2, <1>3

\* One lemma for each step of a frame.
LEMMA StartStep ==
  ASSUME FrameInv, SeriesKind = "int" => HoldInv, FrameStart, UNCHANGED series_vars
  PROVE  FrameInv' /\ (SeriesKind = "int" => HoldInv')
<1>1. /\ SeriesInv' /\ (SamplesKept => SamplesKept') /\ rows' = rows /\ nr_samples' = nr_samples /\ nr_samples \in Nat
  BY SeriesStays DEF FrameInv
<1>2. /\ frame = "none" /\ frame' = "check" /\ s' = 0 /\ count' = nr_samples - plotted /\ nr_samples > plotted
      /\ plotted' = plotted /\ storage' = storage /\ missed' = missed
  BY DEF FrameStart
<1>3. plotted \in Nat /\ s = 0
  BY <1>2 DEF FrameInv, FrameBounds, InFrame
<1>4. FrameBounds'
  BY <1>1, <1>2, <1>3 DEF FrameInv, FrameBounds, InFrame
<1>5. si' = si
  BY <1>2, <1>3 DEF si
<1>6. StorageInv => StorageInv'
  BY <1>1, <1>2, <1>5 DEF StorageInv
<1> QED BY <1>1, <1>4, <1>6 DEF FrameInv, HoldInv

\* A sample that is no longer in the window of the ring is missed.
LEMMA CheckStep ==
  ASSUME FrameInv, SeriesKind = "int" => HoldInv, Check, UNCHANGED series_vars
  PROVE  FrameInv' /\ (SeriesKind = "int" => HoldInv')
<1>1. /\ SeriesInv' /\ (SamplesKept => SamplesKept') /\ rows' = rows /\ nr_samples' = nr_samples /\ nr_samples \in Nat
  BY SeriesStays DEF FrameInv
<1>2. /\ frame = "check" /\ UNCHANGED <<plotted, count, s, storage>> /\ si' = si
      /\ \/ frame' = "read" /\ missed' = missed
         \/ frame' = "add" /\ missed' = missed \cup {si}
  BY DEF Check, si
<1>4. FrameBounds'
  BY <1>1, <1>2 DEF FrameInv, FrameBounds, InFrame
<1>6. StorageInv => StorageInv'
  BY <1>1, <1>2 DEF StorageInv
<1> QED BY <1>1, <1>4, <1>6 DEF FrameInv, HoldInv

\* The sample goes to its slot; the others stay, up to the one it replaces.
LEMMA ReadStep ==
  ASSUME FrameInv, SeriesKind = "int" => HoldInv, Read, UNCHANGED series_vars
  PROVE  FrameInv' /\ (SeriesKind = "int" => HoldInv')
<1>1. /\ SeriesInv' /\ (SamplesKept => SamplesKept') /\ rows' = rows /\ nr_samples' = nr_samples /\ nr_samples \in Nat
  BY SeriesStays DEF FrameInv
<1>2. /\ frame = "read" /\ frame' = "add" /\ UNCHANGED <<plotted, count, s>> /\ si' = si
      /\ missed' = IF Overwritten(si) THEN missed \cup {si} ELSE missed
  BY DEF Read, si
<1>3. PICK sample \in Seen(Slot(si)) : storage' = [storage EXCEPT ![Slot(si)] = sample]
  BY DEF Read
<1>4. si \in Nat /\ Slot(si) \in Slots /\ storage \in [Slots -> Samples]
  BY SlotType DEF FrameInv, FrameBounds, si
<1>5. sample \in Samples
  BY <1>4, SeenTypes DEF FrameInv
<1>6. FrameBounds'
  <2>1. storage' \in [Slots -> Samples]
    BY <1>3, <1>4, <1>5
  <2> QED BY <1>1, <1>2, <2>1 DEF FrameInv, FrameBounds, InFrame
<1>7. ASSUME HoldInv PROVE StorageInv'
  <2>1. storage'[Slot(si)] = sample
    BY <1>3, <1>4
  <2>2. si \notin missed' => storage'[Slot(si)] = SampleIn(rows, si)
    BY <1>2, <1>7, <2>1, ReadsWhole DEF HoldInv
  <2>3. ASSUME NEW k \in 0 .. si - 1, k >= si - ringbuffer_size, k \notin missed', k # si - ringbuffer_size
        PROVE  storage'[Slot(k)] = SampleIn(rows, k)
    <3>1. k \in Nat /\ k < si /\ si < k + ringbuffer_size
      BY <1>4, <2>3, TimeSeriesAssumption
    <3>2. Slot(k) # Slot(si) /\ Slot(k) \in Slots
      BY <1>4, <3>1, SlotsDiffer, SlotType
    <3>3. storage'[Slot(k)] = storage[Slot(k)]
      BY <1>3, <1>4, <3>2
    <3>4. k \notin missed
      BY <1>2, <2>3
    <3>5. storage[Slot(k)] = SampleIn(rows, k)
      BY <1>2, <1>7, <2>3, <3>4 DEF HoldInv, StorageInv
    <3> QED BY <3>3, <3>5
  <2> QED BY <1>1, <1>2, <2>2, <2>3 DEF StorageInv
<1> QED BY <1>1, <1>6, <1>7 DEF FrameInv, HoldInv

\* The sample is done; after the last one the frame is.
LEMMA AddStep ==
  ASSUME FrameInv, SeriesKind = "int" => HoldInv, Add, UNCHANGED series_vars
  PROVE  FrameInv' /\ (SeriesKind = "int" => HoldInv') /\ si' = si + 1 /\ frame' \in {"check", "domain"} /\ storage' = storage
<1>1. /\ SeriesInv' /\ (SamplesKept => SamplesKept') /\ rows' = rows /\ nr_samples' = nr_samples /\ nr_samples \in Nat
  BY SeriesStays DEF FrameInv
<1>2. /\ frame = "add" /\ storage' = storage
      /\ \/ /\ s + 1 < count /\ s' = s + 1 /\ frame' = "check" /\ UNCHANGED <<plotted, count, missed>>
         \/ /\ s + 1 = count /\ plotted' = Plotted /\ frame' = "domain" /\ count' = 0 /\ s' = 0
            /\ missed' = {n \in missed : n >= Plotted - ringbuffer_size}
  BY DEF Add
<1>3. plotted \in Nat /\ count \in Nat /\ s \in Nat /\ storage \in [Slots -> Samples] /\ s < count /\ plotted + count <= nr_samples
      /\ Plotted = plotted + count
  BY <1>2 DEF FrameInv, FrameBounds, InFrame, Plotted
<1>4. FrameBounds'
  BY <1>1, <1>2, <1>3 DEF FrameBounds, InFrame
<1>5. si' = si + 1 /\ si \in Nat
  BY <1>2, <1>3 DEF si
<1>6. ASSUME NEW k \in Nat, k >= si' - ringbuffer_size, k \notin missed'
      PROVE  k \notin missed
  <2>1. s + 1 = count => Plotted = si'
    BY <1>3, <1>5 DEF si
  <2>2. CASE s + 1 < count
    BY <1>2, <1>3, <1>6, <2>2
  <2>3. CASE s + 1 = count
    <3>1. missed' = {n \in missed : n >= si' - ringbuffer_size}
      <4>1. ~(s + 1 < count)
        BY <1>3, <2>3
      <4> QED BY <1>2, <2>1, <2>3, <4>1, Zenon
    <3> QED BY <1>6, <3>1, Zenon
  <2> QED BY <1>2, <2>2, <2>3
<1>7. ASSUME StorageInv PROVE StorageInv'
  <2> SUFFICES ASSUME NEW k \in 0 .. si' - 1, k >= si' - ringbuffer_size, k \notin missed'
               PROVE  storage'[Slot(k)] = SampleIn(rows', k)
    BY <1>2 DEF StorageInv
  <2>1. k \in Nat /\ k \notin missed
    BY <1>5, <1>6
  <2>2. k = si \/ (k \in 0 .. si - 1 /\ k >= si - ringbuffer_size /\ k # si - ringbuffer_size)
    BY <1>5, TimeSeriesAssumption
  <2>3. CASE k = si
    BY <1>1, <1>2, <1>7, <2>1, <2>3 DEF StorageInv
  <2>4. CASE k \in 0 .. si - 1 /\ k >= si - ringbuffer_size /\ k # si - ringbuffer_size
    BY <1>1, <1>2, <1>7, <2>1, <2>4 DEF StorageInv
  <2> QED BY <2>2, <2>3, <2>4
<1> QED BY <1>1, <1>2, <1>4, <1>5, <1>7 DEF FrameInv, HoldInv

\* The end of a frame changes neither ring nor storage.
LEMMA DomainStep ==
  ASSUME FrameInv, SeriesKind = "int" => HoldInv, Domain, UNCHANGED series_vars
  PROVE  FrameInv' /\ (SeriesKind = "int" => HoldInv')
<1>1. /\ SeriesInv' /\ (SamplesKept => SamplesKept') /\ rows' = rows /\ nr_samples' = nr_samples /\ nr_samples \in Nat
  BY SeriesStays DEF FrameInv
<1>2. frame = "domain" /\ frame' = "none" /\ UNCHANGED <<plotted, count, s, storage, missed>> /\ si' = si
  BY DEF Domain, si
<1>4. FrameBounds'
  BY <1>1, <1>2 DEF FrameInv, FrameBounds, InFrame
<1>6. StorageInv => StorageInv'
  BY <1>1, <1>2 DEF StorageInv
<1> QED BY <1>1, <1>4, <1>6 DEF FrameInv, HoldInv

--------------------------------------------------------------------------------
\* The box.

\* Box b is that of the values in q.
BoxOf(b, q) ==
  IF q = <<>> THEN b = None
  ELSE /\ b \in [min : Int, max : Int]
       /\ \E n \in DOMAIN q : Magnitude[q[n]] = b.min
       /\ \E n \in DOMAIN q : Magnitude[q[n]] = b.max
       /\ \A n \in DOMAIN q : b.min <= Magnitude[q[n]] /\ Magnitude[q[n]] <= b.max

\* The cache of the box has the values of the storage, except for the one that a frame
\* has just read; and the box is that of the cache until a value is overwritten.
BoxInv ==
  /\ box_cache \in Seq(Values)
  /\ Len(box_cache) = IF si < ringbuffer_size THEN si ELSE ringbuffer_size
  /\ \A x \in Slots : x < Len(box_cache) /\ ~(frame = "add" /\ x = Slot(si))
       => box_cache[x + 1] = storage[x].value
  /\ outofdate \in BOOLEAN
  /\ ~outofdate => BoxOf(aabb, box_cache)
  /\ outofdate => box_cache # <<>> /\ frame # "none"

\* The values have an order.
LEMMA MagnitudeTypes == \A v \in Values : Magnitude[v] \in Int
BY PlotAssumption DEF Values

\* A value that is added extends the box.
LEMMA BoxExtended ==
  ASSUME NEW q \in Seq(Values), NEW b, BoxOf(b, q), NEW v \in Values
  PROVE  BoxOf(Extended(b, v), Append(q, v))
<1> DEFINE q2 == Append(q, v)
           m == Magnitude[v]
           c == Extended(b, v)
<1>1. /\ Len(q) \in Nat /\ DOMAIN q = 1 .. Len(q) /\ DOMAIN q2 = 1 .. Len(q) + 1
      /\ q2[Len(q) + 1] = v /\ (\A n \in 1 .. Len(q) : q2[n] = q[n] /\ q[n] \in Values) /\ q2 # <<>>
      /\ m \in Int
  BY MagnitudeTypes
<1>2. CASE q = <<>>
  <2>1. b = None /\ Len(q) = 0
    BY <1>2 DEF BoxOf
  <2>2. c = [min |-> m, max |-> m]
    BY <2>1 DEF Extended
  <2> HIDE DEF q2, m, c
  <2>3. c.min = m /\ c.max = m /\ c \in [min : Int, max : Int]
    BY <1>1, <2>2
  <2>4. \A n \in DOMAIN q2 : n = 1
    BY <1>1, <2>1
  <2>5. 1 \in DOMAIN q2 /\ Magnitude[q2[1]] = m
    BY <1>1, <2>1 DEF m
  <2> QED BY <1>1, <2>3, <2>4, <2>5 DEF BoxOf, q2, c
<1>3. CASE q # <<>>
  <2>1. /\ b \in [min : Int, max : Int]
        /\ \E n \in 1 .. Len(q) : Magnitude[q[n]] = b.min
        /\ \E n \in 1 .. Len(q) : Magnitude[q[n]] = b.max
        /\ \A n \in 1 .. Len(q) : b.min <= Magnitude[q[n]] /\ Magnitude[q[n]] <= b.max
    BY <1>1, <1>3 DEF BoxOf
  <2>2. b # None
    BY <2>1, PlotAssumption
  <2>3. c = [min |-> IF m < b.min THEN m ELSE b.min, max |-> IF m > b.max THEN m ELSE b.max]
    BY <2>2 DEF Extended
  <2>4. b.min \in Int /\ b.max \in Int
    BY <2>1
  <2> HIDE DEF q2, m, c
  <2>5. c.min = (IF m < b.min THEN m ELSE b.min) /\ c.max = (IF m > b.max THEN m ELSE b.max)
    BY <2>3
  <2>6. c \in [min : Int, max : Int]
    BY <1>1, <2>3, <2>4
  <2>7. \E n \in DOMAIN q2 : Magnitude[q2[n]] = c.min
    <3>1. CASE m < b.min
      BY <1>1, <2>5, <3>1 DEF m
    <3>2. CASE ~(m < b.min)
      BY <1>1, <2>1, <2>5, <3>2
    <3> QED BY <3>1, <3>2
  <2>8. \E n \in DOMAIN q2 : Magnitude[q2[n]] = c.max
    <3>1. CASE m > b.max
      BY <1>1, <2>5, <3>1 DEF m
    <3>2. CASE ~(m > b.max)
      BY <1>1, <2>1, <2>5, <3>2
    <3> QED BY <3>1, <3>2
  <2>9. ASSUME NEW n \in DOMAIN q2 PROVE c.min <= Magnitude[q2[n]] /\ Magnitude[q2[n]] <= c.max
    <3>1. CASE n = Len(q) + 1
      BY <1>1, <2>4, <2>5, <3>1 DEF m
    <3>2. CASE n # Len(q) + 1
      <4>1. n \in 1 .. Len(q)
        BY <1>1, <3>2
      <4>2. Magnitude[q2[n]] = Magnitude[q[n]] /\ Magnitude[q[n]] \in Int
        BY <1>1, <4>1, MagnitudeTypes
      <4>3. b.min <= Magnitude[q[n]] /\ Magnitude[q[n]] <= b.max
        BY <2>1, <4>1
      <4> QED BY <1>1, <2>4, <2>5, <4>2, <4>3
    <3> QED BY <3>1, <3>2
  <2> QED BY <1>1, <2>6, <2>7, <2>8, <2>9 DEF BoxOf, q2, c
<1> QED BY <1>2, <1>3

\* The box that is computed anew.
LEMMA BoxComputed ==
  ASSUME NEW q \in Seq(Values), q # <<>>, NEW all,
         all = {Magnitude[q[n]] : n \in DOMAIN q}
  PROVE  BoxOf([min |-> CHOOSE m \in all : \A x \in all : m <= x,
                max |-> CHOOSE m \in all : \A x \in all : m >= x], q)
<1> DEFINE f == [n \in 1 .. Len(q) |-> Magnitude[q[n]]]
           lo == CHOOSE m \in all : \A x \in all : m <= x
           hi == CHOOSE m \in all : \A x \in all : m >= x
<1>1. Len(q) \in Nat \ {0} /\ DOMAIN q = 1 .. Len(q) /\ f \in [1 .. Len(q) -> Int]
  BY MagnitudeTypes
<1>2. \A x : x \in all <=> \E n \in 1 .. Len(q) : x = f[n]
  BY <1>1
<1>3. \E m \in all : \A x \in all : m <= x
  <2>1. PICK n \in 1 .. Len(q) : \A k \in 1 .. Len(q) : f[n] <= f[k]
    BY <1>1, LeastOf
  <2> HIDE DEF f
  <2>2. ASSUME NEW x \in all PROVE f[n] <= x
    <3>1. PICK k \in 1 .. Len(q) : x = f[k]
      BY <1>2
    <3> QED BY <2>1, <3>1
  <2>3. f[n] \in all
    BY <1>2
  <2> QED BY <2>2, <2>3
<1>4. \E m \in all : \A x \in all : m >= x
  <2>1. PICK n \in 1 .. Len(q) : \A k \in 1 .. Len(q) : f[n] >= f[k]
    BY <1>1, GreatestOf
  <2> HIDE DEF f
  <2>2. ASSUME NEW x \in all PROVE f[n] >= x
    <3>1. PICK k \in 1 .. Len(q) : x = f[k]
      BY <1>2
    <3> QED BY <2>1, <3>1
  <2>3. f[n] \in all
    BY <1>2
  <2> QED BY <2>2, <2>3
<1>5. /\ lo \in all /\ \A x \in all : lo <= x
      /\ hi \in all /\ \A x \in all : hi >= x
  BY <1>3, <1>4, Zenon
<1> HIDE DEF lo, hi
<1>6. all \subseteq Int
  BY <1>1, <1>2
<1>7. \A n \in DOMAIN q : Magnitude[q[n]] \in all
  OBVIOUS
<1>8. \A x \in all : \E n \in DOMAIN q : Magnitude[q[n]] = x
  OBVIOUS
<1> DEFINE b == [min |-> lo, max |-> hi]
<1>9. b.min = lo /\ b.max = hi /\ b \in [min : Int, max : Int]
  BY <1>5, <1>6
<1> HIDE DEF b
<1>10. \A n \in DOMAIN q : b.min <= Magnitude[q[n]] /\ Magnitude[q[n]] <= b.max
  BY <1>5, <1>6, <1>7, <1>9
<1>11. BoxOf(b, q)
  BY <1>5, <1>8, <1>9, <1>10 DEF BoxOf
<1> QED BY <1>11 DEF b, lo, hi

\* The samples of the window are in all slots, or in those up to the last sample.
LEMMA WindowCovers ==
  ASSUME NEW p \in Nat, NEW x \in Slots, p < ringbuffer_size => x < p
  PROVE  \E n \in 0 .. p - 1 : n >= p - ringbuffer_size /\ Slot(n) = x
<1> DEFINE R == ringbuffer_size
<1>1. R \in Nat \ {0} /\ x \in 0 .. R - 1
  BY TimeSeriesAssumption DEF Slots
<1>2. CASE p < R
  <2>1. x % R = x
    BY <1>1
  <2>2. x \in 0 .. p - 1 /\ x >= p - R
    BY <1>1, <1>2
  <2> QED BY <2>1, <2>2 DEF Slot
<1>3. CASE ~(p < R)
  <2> DEFINE a == p - R
             f == a % R
             k == IF x >= f THEN x - f ELSE x - f + R
  <2>1. a \in Nat /\ f \in 0 .. R - 1
    BY <1>1, <1>3
  <2> HIDE DEF f
  <2>2. k \in 0 .. R - 1
    BY <1>1, <2>1
  <2>3. (a + k) % R = IF f + k < R THEN f + k ELSE f + k - R
    <3> HIDE DEF a, k
    <3> QED BY <1>1, <2>1, <2>2, ModAdd, Zenon DEF f
  <2>4. (a + k) % R = x
    <3> HIDE DEF a
    <3>1. IF f + k < R THEN f + k = x ELSE f + k - R = x
      BY <1>1, <2>1
    <3> HIDE DEF k
    <3> QED BY <2>3, <3>1
  <2>5. a + k \in 0 .. p - 1 /\ a + k >= p - R
    BY <1>1, <1>3, <2>2
  <2> QED BY <2>4, <2>5 DEF Slot
<1> QED BY <1>2, <1>3

\* Before the buffer is full the slot of a sample is its number.
LEMMA SlotOfFirst == \A n \in Nat : n < ringbuffer_size => Slot(n) = n
BY TimeSeriesAssumption DEF Slot

\* The values that are shown are those of the cache of the box.
LEMMA BoxMeans ==
  ASSUME FrameInv, BoxInv
  PROVE  BoxOfStorage
<1> SUFFICES ASSUME frame = "none", plotted > 0 PROVE BoxOfStorage
  BY DEF BoxOfStorage
<1> DEFINE R == ringbuffer_size
           window == {x \in 0 .. plotted - 1 : x >= plotted - R}
           shown == {Magnitude[storage[Slot(n)].value] : n \in window}
<1>1. si = plotted /\ plotted \in Nat \ {0} /\ R \in Nat \ {0} /\ storage \in [Slots -> Samples]
  BY TimeSeriesAssumption DEF FrameInv, FrameBounds, InFrame, si
<1>2. /\ Len(box_cache) = IF plotted < R THEN plotted ELSE R
      /\ box_cache \in Seq(Values)
      /\ \A x \in Slots : x < Len(box_cache) => box_cache[x + 1] = storage[x].value
      /\ BoxOf(aabb, box_cache)
  BY <1>1 DEF BoxInv
<1>3. Len(box_cache) \in Nat \ {0} /\ DOMAIN box_cache = 1 .. Len(box_cache) /\ box_cache # <<>>
  BY <1>1, <1>2
<1>4. /\ aabb \in [min : Int, max : Int]
      /\ \E n \in DOMAIN box_cache : Magnitude[box_cache[n]] = aabb.min
      /\ \E n \in DOMAIN box_cache : Magnitude[box_cache[n]] = aabb.max
      /\ \A n \in DOMAIN box_cache : aabb.min <= Magnitude[box_cache[n]] /\ Magnitude[box_cache[n]] <= aabb.max
  BY <1>2, <1>3 DEF BoxOf
<1>5. ASSUME NEW n \in DOMAIN box_cache PROVE Magnitude[box_cache[n]] \in shown
  <2>1. n - 1 \in Slots /\ n - 1 < Len(box_cache) /\ (plotted < R => n - 1 < plotted)
    BY <1>1, <1>2, <1>3 DEF Slots
  <2>2. box_cache[n - 1 + 1] = storage[n - 1].value
    BY <1>2, <2>1
  <2>3. n - 1 + 1 = n
    BY <1>3
  <2>4. PICK k \in 0 .. plotted - 1 : k >= plotted - R /\ Slot(k) = n - 1
    BY <1>1, <2>1, WindowCovers
  <2> QED BY <2>2, <2>3, <2>4
<1>6. ASSUME NEW k \in window
      PROVE  \E n \in DOMAIN box_cache : box_cache[n] = storage[Slot(k)].value
  <2>1. k \in Nat /\ k < plotted /\ Slot(k) \in Slots
    BY <1>1, SlotType
  <2>2. Slot(k) < Len(box_cache)
    BY <1>1, <1>2, <2>1, SlotOfFirst DEF Slots
  <2>3. Slot(k) + 1 \in DOMAIN box_cache
    BY <1>3, <2>1, <2>2 DEF Slots
  <2> QED BY <1>2, <2>1, <2>2, <2>3
<1>7. aabb.min \in shown /\ aabb.max \in shown
  BY <1>4, <1>5
<1>8. \A m \in shown : aabb.min <= m /\ m <= aabb.max
  BY <1>4, <1>6
<1>9. aabb # None
  BY <1>4, PlotAssumption
<1> QED BY <1>7, <1>8, <1>9 DEF BoxOfStorage

\* Steps that leave cache and box alone, as far as they are concerned.
LEMMA BoxKept ==
  ASSUME BoxInv, UNCHANGED <<box_cache, aabb, outofdate, storage>>, si' = si,
         frame = "add" => frame' = "add", outofdate => frame' # "none"
  PROVE  BoxInv'
BY DEF BoxInv

\* Reading a sample changes one slot of the storage, the one BoxInv leaves out.
LEMMA BoxRead ==
  ASSUME FrameInv, BoxInv, Read
  PROVE  BoxInv'
<1>1. /\ frame = "read" /\ frame' = "add" /\ si' = si /\ UNCHANGED <<box_cache, aabb, outofdate>>
  BY DEF Read, si
<1>2. PICK sample : storage' = [storage EXCEPT ![Slot(si)] = sample]
  BY DEF Read
<1>3. storage \in [Slots -> Samples]
  BY DEF FrameInv, FrameBounds
<1>4. \A x \in Slots : x # Slot(si) => storage'[x] = storage[x]
  BY <1>2, <1>3
<1> QED BY <1>1, <1>4 DEF BoxInv

\* Adding it puts the value into the cache, at the end or over the oldest.
LEMMA BoxAdd ==
  ASSUME FrameInv, BoxInv, Add, UNCHANGED series_vars, si' = si + 1, frame' \in {"check", "domain"}, storage' = storage
  PROVE  BoxInv'
<1> DEFINE R == ringbuffer_size
           v == storage[Slot(si)].value
<1>1. /\ frame = "add" /\ add_samples(v)
  BY DEF Add
<1>2. /\ si \in Nat /\ Slot(si) \in Slots /\ R \in Nat \ {0} /\ v \in Values
  <2>1. plotted \in Nat /\ s \in Nat /\ storage \in [Slots -> Samples]
    BY DEF FrameInv, FrameBounds
  <2>2. si \in Nat /\ Slot(si) \in Slots
    BY <2>1, SlotType DEF si
  <2> QED BY <2>1, <2>2, TimeSeriesAssumption DEF Samples
<1>3. /\ box_cache \in Seq(Values)
      /\ Len(box_cache) = IF si < R THEN si ELSE R
      /\ \A x \in Slots : x < Len(box_cache) /\ x # Slot(si) => box_cache[x + 1] = storage[x].value
      /\ outofdate \in BOOLEAN
      /\ ~outofdate => BoxOf(aabb, box_cache)
  BY <1>1 DEF BoxInv
<1>4. \A x \in Slots : x \in 0 .. R - 1
  BY DEF Slots
<1> HIDE DEF v
<1>5. CASE si < R
  <2>1. box_cache' = Append(box_cache, v) /\ aabb' = Extended(aabb, v) /\ outofdate' = outofdate
    BY <1>1, <1>2, <1>3, <1>5 DEF add_samples
  <2>2. Slot(si) = si /\ Len(box_cache) = si
    BY <1>2, <1>3, <1>5, SlotOfFirst
  <2>3. box_cache' \in Seq(Values) /\ Len(box_cache') = si + 1 /\ box_cache' # <<>>
    BY <1>2, <1>3, <2>1, <2>2
  <2>4. ASSUME NEW x \in Slots, x < si + 1 PROVE box_cache'[x + 1] = storage[x].value
    <3>1. CASE x = si
      BY <1>2, <1>3, <2>1, <2>2, <3>1 DEF v
    <3>2. CASE x # si
      <4>1. x < si /\ x + 1 \in 1 .. si
        BY <1>2, <1>4, <2>4, <3>2
      <4>2. box_cache'[x + 1] = box_cache[x + 1]
        BY <1>3, <2>1, <2>2, <4>1
      <4> QED BY <1>3, <2>2, <4>1, <4>2
    <3> QED BY <3>1, <3>2
  <2>5. ~outofdate => BoxOf(aabb', box_cache')
    BY <1>2, <1>3, <2>1, BoxExtended
  <2>6. Len(box_cache') = IF si' < R THEN si' ELSE R
    BY <1>2, <1>5, <2>3
  <2> QED BY <1>3, <2>1, <2>3, <2>4, <2>5, <2>6 DEF BoxInv
<1>6. CASE ~(si < R)
  <2>1. box_cache' = [box_cache EXCEPT ![Slot(si) + 1] = v] /\ outofdate' = TRUE
    BY <1>1, <1>2, <1>3, <1>6 DEF add_samples
  <2>2. Len(box_cache) = R /\ Slot(si) + 1 \in 1 .. R
    BY <1>2, <1>3, <1>4, <1>6
  <2>3. box_cache' \in Seq(Values) /\ Len(box_cache') = R /\ box_cache' # <<>>
    <3>1. box_cache' \in [1 .. R -> Values] /\ DOMAIN box_cache' = 1 .. R
      BY <1>2, <1>3, <2>1, <2>2
    <3>2. box_cache' \in Seq(Values) /\ Len(box_cache') = R
      BY <1>2, <3>1
    <3> QED BY <1>2, <3>2
  <2>4. ASSUME NEW x \in Slots PROVE box_cache'[x + 1] = storage[x].value
    <3>0. x + 1 \in 1 .. R /\ DOMAIN box_cache = 1 .. R /\ x \in Nat /\ Slot(si) \in Nat /\ x < R
      BY <1>2, <1>3, <1>4, <2>2
    <3>1. CASE x = Slot(si)
      BY <2>1, <2>2, <3>0, <3>1 DEF v
    <3>2. CASE x # Slot(si)
      BY <1>3, <2>1, <2>2, <3>0, <3>2
    <3> QED BY <3>1, <3>2
  <2>6. Len(box_cache') = IF si' < R THEN si' ELSE R
    BY <1>2, <1>6, <2>3
  <2> QED BY <1>3, <2>1, <2>3, <2>4, <2>6 DEF BoxInv
<1> QED BY <1>5, <1>6

\* The box is computed anew when a value was overwritten.
LEMMA BoxDomain ==
  ASSUME FrameInv, BoxInv, Domain
  PROVE  BoxInv'
<1>1. /\ frame = "domain" /\ frame' = "none" /\ si' = si /\ UNCHANGED <<box_cache, storage>>
      /\ outofdate' = FALSE
  BY DEF Domain, si
<1>2. BoxOf(aabb', box_cache)
  <2>1. CASE outofdate
    <3> DEFINE all == {Magnitude[box_cache[n]] : n \in DOMAIN box_cache}
    <3>1. box_cache \in Seq(Values) /\ box_cache # <<>>
      BY <2>1 DEF BoxInv
    <3>2. aabb' = [min |-> CHOOSE m \in all : \A x \in all : m <= x,
                   max |-> CHOOSE m \in all : \A x \in all : m >= x]
      BY <2>1 DEF Domain
    <3>3. BoxOf([min |-> CHOOSE m \in all : \A x \in all : m <= x,
                 max |-> CHOOSE m \in all : \A x \in all : m >= x], box_cache)
      <4> HIDE DEF all
      <4> QED BY <3>1, BoxComputed, Zenon DEF all
    <3> QED BY <3>2, <3>3, Zenon
  <2>2. CASE ~outofdate
    <3>1. aabb' = aabb
      BY <2>2 DEF Domain
    <3> QED BY <2>2, <3>1 DEF BoxInv
  <2> QED BY <2>1, <2>2
<1> QED BY <1>1, <1>2 DEF BoxInv

\* All of it is inductive.
PlotInv == FrameInv /\ (SeriesKind = "int" => HoldInv) /\ BoxInv

\* Nothing is plotted yet.
LEMMA PlotStart == StreamInit => PlotInv
<1> SUFFICES ASSUME StreamInit PROVE PlotInv
  OBVIOUS
<1>1. SeriesInv /\ (SeriesKind = "int" => SamplesKept) /\ nr_samples \in Nat
  BY SeriesStart DEF StreamInit, SeriesInv, SeriesTypeOK
<1>2. /\ plotted = 0 /\ frame = "none" /\ count = 0 /\ s = 0
      /\ storage = [x \in Slots |-> Zeroed]
      /\ box_cache = <<>> /\ aabb = None /\ outofdate = FALSE /\ nr_samples = 0
  BY DEF StreamInit, PlotInit, SeriesInit
<1>3. si = 0
  BY <1>2 DEF si
<1>4. Zeroed \in Samples
  BY TimeSeriesAssumption DEF Zeroed, Samples, Values
<1>5. FrameBounds
  BY <1>1, <1>2, <1>4 DEF FrameBounds, InFrame
<1>6. StorageInv
  BY <1>2, <1>3 DEF StorageInv
<1>7. BoxInv
  <2>1. /\ Len(box_cache) = 0 /\ box_cache \in Seq(Values) /\ DOMAIN box_cache = {}
        /\ 0 <= ringbuffer_size
    BY <1>2, TimeSeriesAssumption
  <2>2. BoxOf(aabb, box_cache)
    BY <1>2, <2>1 DEF BoxOf
  <2>3. Len(box_cache) = IF si < ringbuffer_size THEN si ELSE ringbuffer_size
    BY <1>3, <2>1, TimeSeriesAssumption
  <2>4. ASSUME NEW x \in Slots PROVE ~(x < Len(box_cache))
    BY <2>1, TimeSeriesAssumption DEF Slots
  <2> QED BY <1>2, <2>1, <2>2, <2>3, <2>4, Zenon DEF BoxInv
<1> QED BY <1>1, <1>5, <1>6, <1>7 DEF PlotInv, FrameInv, HoldInv

\* One step per action of the writer, the application and the frame.
LEMMA PlotStep == PlotInv /\ [StreamNext]_stream_vars => PlotInv'
<1> SUFFICES ASSUME PlotInv, [StreamNext]_stream_vars PROVE PlotInv'
  OBVIOUS
<1>p. FrameInv /\ (SeriesKind = "int" => HoldInv) /\ BoxInv
  BY DEF PlotInv
<1>u. ASSUME UNCHANGED plot_vars PROVE BoxInv'
  <2>1. UNCHANGED <<box_cache, aabb, outofdate, storage, frame>> /\ si' = si
    BY <1>u DEF plot_vars, si
  <2> QED BY <1>p, <2>1, BoxKept DEF BoxInv
<1>s. ASSUME UNCHANGED plot_vars, UNCHANGED series_vars PROVE PlotInv'
  <2>1. /\ SeriesInv' /\ (SamplesKept => SamplesKept') /\ rows' = rows /\ nr_samples' = nr_samples
    BY <1>p, <1>s, SeriesStays DEF FrameInv
  <2>2. UNCHANGED <<plotted, count, s, frame, storage, missed>> /\ si' = si
    BY <1>s DEF plot_vars, si
  <2>3. FrameBounds' /\ (StorageInv => StorageInv')
    BY <1>p, <2>1, <2>2 DEF FrameInv, FrameBounds, StorageInv
  <2> QED BY <1>p, <1>s, <1>u, <2>1, <2>3 DEF PlotInv, FrameInv, HoldInv
<1>1. CASE Writer
  <2>1. SeriesNext /\ UNCHANGED plot_vars
    BY <1>1 DEF Writer
  <2> QED BY <1>p, <1>u, <2>1, WriterKeeps DEF PlotInv
<1>2. CASE Application
  BY <1>2, <1>s DEF Application
<1>3. CASE Timer
  BY <1>3, <1>s DEF Timer
<1>4. CASE StartPlot /\ UNCHANGED series_vars
  <2>1. FrameStart /\ frame = "none" /\ frame' = "check" /\ s' = 0 /\ plotted' = plotted
        /\ UNCHANGED <<box_cache, aabb, outofdate, storage>>
    BY <1>4 DEF StartPlot, FrameStart
  <2>2. si' = si
    BY <1>p, <2>1 DEF FrameInv, FrameBounds, InFrame, si
  <2>3. BoxInv'
    BY <1>p, <2>1, <2>2, BoxKept
  <2> QED BY <1>p, <1>4, <2>1, <2>3, StartStep DEF PlotInv
<1>5. CASE Check /\ UNCHANGED series_vars
  <2>1. frame = "check" /\ frame' # "none" /\ si' = si /\ UNCHANGED <<box_cache, aabb, outofdate, storage>>
    BY <1>5 DEF Check, si
  <2>2. BoxInv'
    BY <1>p, <2>1, BoxKept
  <2> QED BY <1>p, <1>5, <2>2, CheckStep DEF PlotInv
<1>6. CASE Read /\ UNCHANGED series_vars
  BY <1>p, <1>6, BoxRead, ReadStep DEF PlotInv
<1>7. CASE Add /\ UNCHANGED series_vars
  BY <1>p, <1>7, BoxAdd, AddStep DEF PlotInv
<1>8. CASE Domain /\ UNCHANGED series_vars
  BY <1>p, <1>8, BoxDomain, DomainStep DEF PlotInv
<1>9. CASE UNCHANGED stream_vars
  BY <1>9, <1>s DEF stream_vars
<1> QED BY <1>1, <1>2, <1>3, <1>4, <1>5, <1>6, <1>7, <1>8, <1>9 DEF StreamNext, Draw, FrameStep

\* Resampled, for any size of the ring, any rate and any rows: unless it is being
\* overwritten, the ring buffer has for each of the last sampling rows the latest value
\* that came after the sampling row before, and nan_value if none did, as
\* extract_from_values and append_sample leave it.
THEOREM StreamResampled == ASSUME SeriesKind = "int" PROVE StreamSpec => []Resampled
<1>1. PlotInv => Resampled
  BY ResampledMeans DEF PlotInv, FrameInv, HoldInv, SamplesKept
<1> QED BY <1>1, PlotStart, PlotStep, PTL DEF StreamSpec

\* StorageHolds, for any interleaving of writer and frames: what update_plot_samples has
\* put into the storage buffer are the resampled values, except for the samples that
\* the writer overwrote before the reader came to them and for the oldest one of a full
\* ring buffer, which is refused while it is there.
THEOREM StreamStorage == ASSUME SeriesKind = "int" PROVE StreamSpec => []StorageHolds
<1>1. PlotInv => StorageHolds
  BY StorageMeans DEF PlotInv, HoldInv
<1> QED BY <1>1, PlotStart, PlotStep, PTL DEF StreamSpec

\* BoxOfStorage: after a frame the box of streaming_aabb_brute_force is that of the
\* values in the storage buffer, whichever of them were replaced and in what order.
THEOREM StreamBox == StreamSpec => []BoxOfStorage
<1>1. PlotInv => BoxOfStorage
  BY BoxMeans DEF PlotInv
<1> QED BY <1>1, PlotStart, PlotStep, PTL DEF StreamSpec
================================================================================
