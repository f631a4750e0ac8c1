---------------------- MODULE StatsPipelineProperties ----------------------
(***************************************************************************)
(* What is claimed of StatsPipeline.                                       *)
(***************************************************************************)
EXTENDS StatsPipeline

Steps == {"idle", "add_measure", "add_measure_locked", "lock_delta",
          "lock_harvester", "consume", "merge_locked", "clear", "add_consumer",
          "add_consumer_locked", "remove_consumer", "remove_consumer_locked"}

Data == [count : Nat, values : SUBSET Nat, last : Nat]

IsDelta(delta) ==
  /\ delta.registered_boundaries \in Seq(SUBSET Boundaries)
  /\ DOMAIN delta.rows \subseteq TagMaps
  /\ \A tags \in DOMAIN delta.rows : delta.rows[tags] \in Seq(Data)

ControlTypeOK ==
  /\ delta_mu_ \in AllThreads \cup {Free}
  /\ harvester_mu_ \in AllThreads \cup {Free}
  /\ mu_ \in AllThreads \cup {Free}
  /\ pc \in [AllThreads -> Steps]
  /\ op \in [AllThreads -> {"none", "AddMeasure", "AddBoundaries", "Flush"}]
  /\ failure \in {"none", "AddMeasure", "Record", "AddBoundaries",
                  "AddToDistribution", "AddConsumer"}

ProgramTypeOK ==
  /\ registered_descriptors_ \in Seq(Names)
  /\ index_ \in [AllThreads -> Nat]
  /\ descriptor_ \in [AllThreads -> Descriptor \cup {Null}]
  /\ handle_ \in [AllThreads -> Handles \cup {Null}]
  /\ held \subseteq Measure
  /\ log \in Seq([measurements : SUBSET Measure, tags : TagMaps])

DataTypeOK ==
  /\ registered_boundaries_ \in Seq(SUBSET Boundaries)
  /\ IsDelta(active_delta_) /\ IsDelta(last_delta_)
  /\ measures_ \in Seq(SUBSET Handles)
  /\ delivered \in [TagMaps -> Seq(Data)]

\* Every variable has a value of its type (the view data in info has that of
\* ViewsComplete).
TypeOK == ControlTypeOK /\ ProgramTypeOK /\ DataTypeOK

----------------------------------------------------------------------------
\* The locks and the deltas.

\* Each mutex is held by the one thread whose step says so, and delta_mu_,
\* harvester_mu_ and mu_ are taken in that order.
MutexOwners ==
  \A t \in AllThreads :
    /\ delta_mu_ = t <=> pc[t] = "lock_harvester"
    /\ harvester_mu_ = t <=> pc[t] \in {"consume", "merge_locked", "clear"}
    /\ mu_ = t <=> pc[t] \in {"add_measure_locked", "merge_locked",
                              "add_consumer_locked", "remove_consumer_locked"}

\* ABSL_ASSERT(last_delta_.delta().empty() && "Last delta was not consumed."):
\* whenever SwapDeltas can run, the delta swapped before has been merged and
\* cleared.
LastDeltaConsumed == harvester_mu_ = Free => DOMAIN last_delta_.rows = {}

\* Record() never meets a delta with mismatched configuration (the comment on
\* delta_mu_): the active delta was started with the present boundaries, and
\* all its rows have one MeasureData per measure.
DeltaConfiguration ==
  /\ active_delta_.registered_boundaries = registered_boundaries_
  /\ \A delta \in {active_delta_, last_delta_} :
       \A tags \in DOMAIN delta.rows :
         DOMAIN delta.rows[tags] = DOMAIN delta.registered_boundaries

\* "There should never be measures in the delta missing from measures_"
\* (MergeDelta): threads that register measures at once may disagree on the
\* order of their ids, but never outrun the StatsManager.
DeltaWithinMeasures ==
  /\ Len(active_delta_.registered_boundaries) <= Len(measures_)
  /\ Len(last_delta_.registered_boundaries) <= Len(measures_)

----------------------------------------------------------------------------
\* The way of a recorded value.

\* The calls that recorded against index i under these tags.
RecordedFor(tags, i) ==
  {n \in DOMAIN log : /\ log[n].tags = tags
                      /\ \E m \in log[n].measurements : m.index = i}

\* Swapped out, and not merged yet.
Pending(tags, i) ==
  IF \E t \in AllThreads : pc[t] = "clear"
  THEN NoData ELSE DataFor(last_delta_, tags, i)

\* What has become of the values recorded against index i under these tags, the
\* oldest first.
Stages(tags, i) ==
  <<delivered[tags][i], Pending(tags, i), DataFor(active_delta_, tags, i)>>

\* Every recorded value is in exactly one place, once: given to the views, in
\* the delta being harvested, or in the active delta.
NothingLostOrDoubled ==
  \A tags \in TagMaps, i \in DOMAIN registered_boundaries_ :
    LET stages == Stages(tags, i) IN
    /\ UNION {stages[k].values : k \in 1 .. 3} = RecordedFor(tags, i)
    /\ stages[1].count + stages[2].count + stages[3].count =
         Cardinality(RecordedFor(tags, i))

\* Values move in the order they were recorded: what has gone further is older,
\* and the last value of a MeasureData is the newest of those it stands for.
RecordingOrderKept ==
  \A tags \in TagMaps, i \in DOMAIN registered_boundaries_ :
    LET stages == Stages(tags, i) IN
    /\ \A j, k \in 1 .. 3 : j < k =>
         \A older \in stages[j].values, newer \in stages[k].values : older < newer
    /\ \A k \in 1 .. 3 : stages[k].count # 0 =>
         /\ stages[k].last \in stages[k].values
         /\ \A v \in stages[k].values : v <= stages[k].last

\* The measurements of one Record() call reach the views together.
CallsMoveWhole ==
  \A n \in DOMAIN log : \A m1, m2 \in log[n].measurements :
    LET given == delivered[log[n].tags] IN
    {m1.index, m2.index} \subseteq DOMAIN given =>
      (n \in given[m1.index].values <=> n \in given[m2.index].values)

----------------------------------------------------------------------------
\* Views and their consumers.

\* A ViewInformation lives exactly as long as a View has a handle to it, is
\* filed under the measure of its descriptor, and is shared by every View with
\* the same descriptor.
ConsumersCounted ==
  /\ \A t \in AllThreads : handle_[t] # Null =>
       /\ handle_[t] \in DOMAIN info
       /\ info[handle_[t]].descriptor = descriptor_[t]
  /\ \A h \in DOMAIN info :
       /\ info[h].num_consumers = Cardinality({t \in AllThreads : handle_[t] = h})
       /\ info[h].num_consumers > 0
       /\ {i \in DOMAIN measures_ : h \in measures_[i]} =
            {info[h].descriptor.measure}
  /\ \A g, h \in DOMAIN info : info[g].descriptor = info[h].descriptor => g = h

\* A view shows what its measure was given since the view was created, under
\* the tag values of the view's columns, each value once and no other.
ViewsComplete ==
  \A h \in DOMAIN info :
    LET v == info[h]
        Shown(k) == {n \in DOMAIN log \ v.since :
                       /\ ProjectTags(log[n].tags, v.descriptor.columns) = k
                       /\ n \in delivered[log[n].tags][v.descriptor.measure].values}
    IN /\ DOMAIN v.data =
            {ProjectTags(log[n].tags, v.descriptor.columns) :
               n \in (UNION {delivered[tags][v.descriptor.measure].values :
                               tags \in TagMaps}) \ v.since}
       /\ \A k \in DOMAIN v.data :
            /\ v.data[k].values = Shown(k)
            /\ v.data[k].count = Cardinality(Shown(k))

----------------------------------------------------------------------------
\* The abstract specification that StatsPipeline implements.

\* The calls of which the views have been given everything.
DeliveredCalls ==
  {n \in DOMAIN log : \A m \in log[n].measurements :
     n \in delivered[log[n].tags][m.index].values}

RecordLog == INSTANCE RecordLog WITH
  MaxCalls <- MaxRecords, recorded <- Len(log), delivered <- DeliveredCalls

\* The pipeline behaves as a log of which the views show a growing prefix.
ImplementsRecordLog == RecordLog!Spec

\* Whatever is recorded reaches the views of its measure in the end: the
\* harvester flushes again and again.
EverythingDelivered == RecordLog!AllDelivered

\* Every call returns: nobody waits for ever for a mutex.
CallsReturn == \A t \in Threads : pc[t] # "idle" ~> pc[t] = "idle"

----------------------------------------------------------------------------
\* What the comments, documents and assertions of the code say and the code
\* does not do.  Each has a run in which TLC refutes it.

\* "We call it before adding the view to avoid errors from the old delta not
\* having a histogram for the new view" (stats_manager.cc, AddConsumer): the
\* assertion in MeasureData::AddToDistribution never fails.
HistogramsExist == failure # "AddToDistribution"

\* ABSL_ASSERT(measures_.size() == MeasureToIndex(measure) + 1) in
\* StatsManager::AddMeasure, with a registry that "is thread-safe".
RegistrationInOrder == failure # "AddMeasure"

=============================================================================
