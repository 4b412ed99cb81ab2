------------------------------- MODULE TimeSeries ------------------------------
(***************************************************************************)
(* The writer of a resampled time series (stream_vis, time_series.h and    *)
(* streaming_time_series.cxx).  In every row of the stream the sampling    *)
(* series and the resampled one may have a value.  The resampled series    *)
(* gets a sample for each value of the sampling series, in the slots of a  *)
(* ring buffer and under a lock that the reader does not take.  A value is *)
(* the row that it came in, and time is the row, too.                      *)
(***************************************************************************)
EXTENDS Integers, Sequences, FiniteSets

CONSTANTS
  ringbuffer_size,
  SeriesKind,     \* "float", "int" or "bool": resampled_float_time_series, ...
  MaxRows,        \* a bound: the rows of the stream
  Nan,            \* nan_value, and for a float series also what is computed from it
  None

ASSUME TimeSeriesAssumption ==
  /\ ringbuffer_size \in Nat \ {0, 1}
  /\ SeriesKind \in {"float", "int", "bool"}
  /\ MaxRows \in Nat
  /\ Nan \notin Nat
  /\ None \notin [time : Nat, value : Nat \cup {Nan}]

VARIABLES
  rows,              \* history: of every row, who had a value
  have_new_value,    \* of the resampled series
  new_value,         \* the value that is cached
  value_offset,      \* "unset", "nan" or "number"
  nr_samples,
  sample_cache,      \* a record of time and value in every slot
  pending            \* the sample append_sample is writing, or None

series_vars == <<rows, have_new_value, new_value, value_offset, nr_samples, sample_cache, pending>>

Slots == 0 .. ringbuffer_size - 1
Slot(si) == si % ringbuffer_size
NoSample == [time |-> 0, value |-> Nan]

SeriesInit ==
  /\ rows = <<>>
  /\ have_new_value = FALSE /\ new_value = Nan
  /\ value_offset = IF SeriesKind = "float" THEN "unset" ELSE "number"
  /\ nr_samples = 0
  /\ sample_cache = [s \in Slots |-> NoSample]
  /\ pending = None

\* construct_stored_value: the first value is the offset of a float series; what is
\* relative to an offset that is nan is nan.
OffsetAfter(v) == IF value_offset # "unset" THEN value_offset
                  ELSE IF v = Nan THEN "nan" ELSE "number"

\* Mutant of ClearsCache: a value of the own series leaves the cache as it is, like
\* in the bool series.
KeepsCache(own) == ~own

\* Whether extract_from_values clears have_new_value when it samples.
ClearsCache(own) == SeriesKind # "bool" \/ ~own

SampledValue(row, own) == IF own THEN row ELSE IF have_new_value THEN new_value ELSE Nan

\* extract_from_values in a row without a value of the sampling series.
Skip(own) ==
  /\ pending = None /\ Len(rows) < MaxRows
  /\ rows' = Append(rows, [sampling |-> FALSE, own |-> own])
  /\ have_new_value' = (have_new_value \/ own)
  /\ new_value' = IF own THEN Len(rows) + 1 ELSE new_value
  /\ UNCHANGED <<value_offset, nr_samples, sample_cache, pending>>

\* extract_from_values in a row with one, up to the assignment in append_sample.
Sample(own) ==
  /\ pending = None /\ Len(rows) < MaxRows
  /\ LET row == Len(rows) + 1
         v == SampledValue(row, own)
     IN /\ rows' = Append(rows, [sampling |-> TRUE, own |-> own])
        /\ value_offset' = OffsetAfter(v)
        /\ pending' = [time |-> row, value |-> IF OffsetAfter(v) = "nan" THEN Nan ELSE v]
  /\ have_new_value' = (have_new_value /\ ~ClearsCache(own))
  /\ UNCHANGED <<new_value, nr_samples, sample_cache>>

\* The rest of append_sample: until this step the slot is being written.
AppendSample ==
  /\ pending # None
  /\ sample_cache' = [sample_cache EXCEPT ![Slot(nr_samples)] = pending]
  /\ nr_samples' = nr_samples + 1
  /\ pending' = None
  /\ UNCHANGED <<rows, have_new_value, new_value, value_offset>>

SeriesNext == AppendSample \/ \E own \in BOOLEAN : Skip(own) \/ Sample(own)

SeriesSpec == SeriesInit /\ [][SeriesNext]_series_vars
--------------------------------------------------------------------------------
\* The rows with a value of the sampling series, and the row of a sample.
SampledRows == {r \in DOMAIN rows : rows[r].sampling}
RowOf(si) == CHOOSE r \in SampledRows : Cardinality({x \in SampledRows : x < r}) = si

\* The latest value since the previous sample, if there is one.
Latest(si) ==
  LET own == {r \in 1 .. RowOf(si) : rows[r].own /\ \A x \in SampledRows : x < r \/ x >= RowOf(si)}
  IN IF own = {} THEN Nan ELSE CHOOSE r \in own : \A x \in own : x <= r

IsSample(sample, si) == sample = [time |-> RowOf(si), value |-> Latest(si)]

\* The resampled series has one sample for each of the sampling series, with the
\* latest value of its own since the sample before, and nan only if there was none:
\* "either store cached new value or nan value" (streaming_time_series.cxx:125).
\* In the ring are the last of them, each in the slot of its index.
Resampled ==
  /\ nr_samples + (IF pending = None THEN 0 ELSE 1) = Cardinality(SampledRows)
  /\ \A si \in 0 .. nr_samples - 1 :
       si >= nr_samples - ringbuffer_size /\ (pending = None \/ si > nr_samples - ringbuffer_size)
         => IsSample(sample_cache[Slot(si)], si)
================================================================================
