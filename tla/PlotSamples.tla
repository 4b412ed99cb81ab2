------------------------------- MODULE PlotSamples -----------------------------
(***************************************************************************)
(* The reader of a time series (stream_vis_context::update_plot_samples)   *)
(* and the box of its values (streaming_aabb.h, brute force).  In every    *)
(* frame it puts the new samples into a storage buffer with the same slots *)
(* and adds what is in the storage then to the box.  It takes no lock, so  *)
(* the writer takes steps between the reader's.                            *)
(***************************************************************************)
EXTENDS TimeSeries

CONSTANT Magnitude      \* the order of the values: those of the rows, Nan, and 0.0f for 0

ASSUME PlotAssumption ==
  /\ Magnitude \in [0 .. MaxRows \cup {Nan} -> Int]
  /\ None \notin [min : Int, max : Int]

VARIABLES
  plotted,       \* time_series_ringbuffer::nr_samples
  frame,         \* the step the frame is at, or "none"
  count, s,      \* its locals
  storage,       \* the storage buffer: a sample in every slot
  vbo,           \* the copy of the storage on the GPU that is drawn
  missed,        \* history: samples in the window that were overwritten, or being so,
                 \* when the reader came to them
  box_cache,     \* streaming_aabb_brute_force::sample_cache
  aabb,          \* a record of min and max, None when invalid
  outofdate      \* whether aabb is to be computed from box_cache

plot_vars == <<plotted, frame, count, s, storage, vbo, missed, box_cache, aabb, outofdate>>

\* What a slot of the storage holds at first, and what one of the GPU's copy does: that is
\* made without data, so its content is that of no sample.
Zeroed == [time |-> 0, value |-> 0]
Undefined == [time |-> None, value |-> None]

PlotInit ==
  /\ plotted = 0 /\ frame = "none" /\ count = 0 /\ s = 0
  /\ storage = [x \in Slots |-> Zeroed] /\ vbo = [x \in Slots |-> Undefined]
  /\ missed = {}
  /\ box_cache = <<>> /\ aabb = None /\ outofdate = FALSE

si == plotted + s

\* convert_to_cached_sample_index succeeds.  The oldest sample in a full ring buffer
\* counts as being outside.
convert_to_cached_sample_index(i) == i < nr_samples /\ nr_samples - i < ringbuffer_size

\* The start of a frame.
FrameStart ==
  /\ frame = "none" /\ nr_samples > plotted
  /\ count' = nr_samples - plotted /\ s' = 0
  /\ frame' = "check"
  /\ UNCHANGED <<plotted, storage, vbo, missed, box_cache, aabb, outofdate>>

\* put_sample_as_float, in two steps.  When it fails the storage stays as it is.
Check ==
  /\ frame = "check"
  /\ frame' = IF convert_to_cached_sample_index(si) THEN "read" ELSE "add"
  /\ missed' = IF convert_to_cached_sample_index(si) THEN missed ELSE missed \cup {si}
  /\ UNCHANGED <<plotted, count, s, storage, vbo, box_cache, aabb, outofdate>>

\* What may be read from a slot: while it is written, any mix of both samples.
Seen(x) ==
  LET now == sample_cache[x]
  IN IF pending # None /\ Slot(nr_samples) = x
     THEN [time : {now.time, pending.time}, value : {now.value, pending.value}]
     ELSE {now}

Overwritten(i) == nr_samples + (IF pending = None THEN 0 ELSE 1) > i + ringbuffer_size

Read ==
  /\ frame = "read"
  /\ \E sample \in Seen(Slot(si)) : storage' = [storage EXCEPT ![Slot(si)] = sample]
  /\ missed' = IF Overwritten(si) THEN missed \cup {si} ELSE missed
  /\ frame' = "add"
  /\ UNCHANGED <<plotted, count, s, vbo, box_cache, aabb, outofdate>>

Extended(box, v) ==
  LET m == Magnitude[v]
  IN IF box = None THEN [min |-> m, max |-> m]
     ELSE [min |-> IF m < box.min THEN m ELSE box.min, max |-> IF m > box.max THEN m ELSE box.max]

\* Mutant of add_samples: an overwritten sample leaves the box as it is.
ForgetfulAdd(v) ==
  IF Len(box_cache) < ringbuffer_size
  THEN /\ box_cache' = Append(box_cache, v) /\ aabb' = Extended(aabb, v) /\ UNCHANGED outofdate
  ELSE box_cache' = [box_cache EXCEPT ![Slot(si) + 1] = v] /\ UNCHANGED <<aabb, outofdate>>

\* streaming_aabb_brute_force::add_samples for one sample, the si-th.
add_samples(v) ==
  IF Len(box_cache) < ringbuffer_size
  THEN /\ box_cache' = Append(box_cache, v) /\ aabb' = Extended(aabb, v) /\ UNCHANGED outofdate
  ELSE box_cache' = [box_cache EXCEPT ![Slot(si) + 1] = v] /\ outofdate' = TRUE /\ UNCHANGED aabb

\* Mutant of Plotted: the samples that came in during the frame count as plotted.
AllPlotted == nr_samples

\* Mutant of Plotted: the last sample that was plotted instead of their number.
LastPlotted == plotted + s

\* nr_samples of the ring buffer after a frame.
Plotted == plotted + count

\* Mutant of UploadedSlots: no second replace command when the new samples wrap.
UnwrappedSlots == {x \in Slots : x >= Slot(plotted) /\ x < plotted + count}

\* The slots that the replace commands of the three cases copy to the GPU.
UploadedSlots ==
  LET csi_fst == Slot(plotted)
      csi_lst == Slot(plotted + count - 1)
  IN IF count >= ringbuffer_size THEN Slots
     ELSE IF csi_lst >= csi_fst THEN csi_fst .. csi_lst
     ELSE (csi_fst .. ringbuffer_size - 1) \cup (0 .. csi_lst)

\* The call of add_samples, and after the last sample the upload of the storage.
Add ==
  /\ frame = "add"
  /\ add_samples(storage[Slot(si)].value)
  /\ \/ s + 1 < count /\ s' = s + 1 /\ frame' = "check" /\ UNCHANGED <<plotted, count, vbo, missed>>
     \/ /\ s + 1 = count
        /\ plotted' = Plotted /\ frame' = "domain" /\ count' = 0 /\ s' = 0
        /\ vbo' = [x \in Slots |-> IF x \in UploadedSlots THEN storage[x] ELSE vbo[x]]
        /\ missed' = {i \in missed : i >= Plotted - ringbuffer_size}
  /\ UNCHANGED storage

\* update_plot_domains: get_aabb.
Domain ==
  /\ frame = "domain" /\ frame' = "none"
  /\ outofdate' = FALSE
  /\ aabb' = IF outofdate
             THEN LET all == {Magnitude[box_cache[i]] : i \in DOMAIN box_cache}
                  IN [min |-> CHOOSE m \in all : \A x \in all : m <= x,
                      max |-> CHOOSE m \in all : \A x \in all : m >= x]
             ELSE aabb
  /\ UNCHANGED <<plotted, count, s, storage, vbo, missed, box_cache>>

FrameStep == Check \/ Read \/ Add \/ Domain
--------------------------------------------------------------------------------
\* The storage holds the latest samples that were plotted, each whole and in its slot,
\* except for those that the writer had overwritten, or begun to, when the reader came
\* to them - and the one that is refused although the ring buffer still has it.
StorageHolds ==
  \A i \in 0 .. si - 1 :
    i >= si - ringbuffer_size /\ i \notin missed /\ (frame = "add" => i # si - ringbuffer_size)
      => IsSample(storage[Slot(i)], i)

\* Between frames the box is that of the values in the storage, torn ones included.
BoxOfStorage ==
  frame = "none" /\ plotted > 0 =>
    LET shown == {Magnitude[storage[Slot(i)].value] : i \in {x \in 0 .. plotted - 1 : x >= plotted - ringbuffer_size}}
    IN /\ aabb # None
       /\ aabb.min \in shown /\ aabb.max \in shown
       /\ \A m \in shown : aabb.min <= m /\ m <= aabb.max

\* When a frame is drawn the GPU has all that the storage holds of the samples, however
\* many came in and wherever they wrap: the slots in front of plotted, or all of them.
UploadMatches ==
  frame \in {"none", "domain"} => \A x \in Slots : x < plotted => vbo[x] = storage[x]
================================================================================
