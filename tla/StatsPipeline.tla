--------------------------- MODULE StatsPipeline ---------------------------
(***************************************************************************)
(* The stats pipeline: MeasureRegistryImpl, DeltaProducer and StatsManager *)
(* as one program run by application threads and by the harvester thread.  *)
(*                                                                         *)
(* A thread runs one operation at a time.  pc[t] names its next step.  A    *)
(* step ends where the thread takes a mutex or lets other threads in; what *)
(* it does while it holds the mutex that guards the data is one step.  The *)
(* mutexes:                                                                *)
(*   delta_mu_      registered_boundaries_ and active_delta_               *)
(*   harvester_mu_  last_delta_; taken while delta_mu_ is held             *)
(*   mu_            StatsManager's measures_ and their ViewInformations    *)
(* The registry's own mutex is held only for the body of RegisterImpl and  *)
(* of the lookups, each of them one step.                                  *)
(*                                                                         *)
(* A failed ABSL_ASSERT, or an access past the end of a vector, ends the   *)
(* behaviour: failure names the place.  With NDEBUG the assertions are     *)
(* compiled out and only the accesses remain.                              *)
(***************************************************************************)
EXTENDS Delta, FiniteSets, SequencesExt

CONSTANTS
  Threads,         \* the application's threads
  Harvester,       \* DeltaProducer's harvester_thread_
  Registrars,      \* the threads that register measures
  Flushers,        \* the threads that call Flush besides the harvester (tests)
  Names,           \* measure names
  TagMaps,         \* the tag sets values are recorded under: key -> value
  Columns,         \* choices of a view's columns: sets of tag keys
  NoTag,           \* the empty string a view shows for an absent tag
  Boundaries,      \* choices of BucketBoundaries
  NotDistribution, \* any aggregation that keeps no histogram
  Handles,         \* addresses of ViewInformations: at least one per thread
  Free, Null,      \* the owner of an unlocked mutex; a null handle
  Lookups,         \* whether the program calls GetMeasure*ByName
  UseInvalid,      \* whether the program records against invalid measures
  NDEBUG,          \* whether ABSL_ASSERT is compiled out
  MaxRecords       \* bound on the Record() calls of a behaviour

ASSUME ThreadsAssumption ==
  /\ IsFiniteSet(Threads) /\ Harvester \notin Threads
  /\ Free \notin Threads \cup {Harvester}
  /\ Registrars \subseteq Threads /\ Flushers \subseteq Threads
ASSUME ParametersAssumption ==
  /\ NotDistribution \notin Boundaries
  /\ Null \notin Handles
  /\ Lookups \in BOOLEAN /\ UseInvalid \in BOOLEAN /\ NDEBUG \in BOOLEAN
  /\ MaxRecords \in Nat

AllThreads == Threads \cup {Harvester}

\* A Measure: the index and the validity bit of its id.
Measure == [index : Nat \ {0}, valid : BOOLEAN]
\* CreateMeasureId(0, false, type): what a failed registration or lookup gives.
InvalidMeasure == [index |-> 1, valid |-> FALSE]
ValidMeasure(index) == [index |-> index, valid |-> TRUE]

\* The parts of a ViewDescriptor that Matches compares, and its measure.  All
\* views here have the cumulative window.
Descriptor ==
  [measure : Nat \ {0}, aggregation : Boundaries \cup {NotDistribution},
   columns : Columns]

VARIABLES
  registered_descriptors_, \* the names registered, in the order of their ids
  measures_,               \* for each measure, the handles of its views_
  info,                    \* the ViewInformation at each allocated handle
  registered_boundaries_,  \* for each measure, the boundaries views asked for
  active_delta_, last_delta_,
  delta_mu_, harvester_mu_, mu_, \* the thread that holds each mutex, or Free
  pc,                      \* each thread's next step
  op,                      \* why a thread is inside the DeltaProducer
  index_,                  \* Register's local: the index of the new measure
  descriptor_, handle_,    \* the View a thread owns: descriptor and handle
  held,                    \* the Measures the program has been given
  failure,                 \* the failed assertion or access, or "none"
  log,                     \* history: the Record() calls, in order
  delivered                \* history: what each measure was given, by tag set

manager  == <<measures_, info, delivered>>
producer == <<registered_boundaries_, active_delta_, last_delta_>>
locks    == <<delta_mu_, harvester_mu_, mu_>>
view     == <<descriptor_, handle_>>
program  == <<held, log>>
vars == <<registered_descriptors_, manager, producer, locks, pc, op, index_,
          view, program, failure>>

Init ==
  /\ registered_descriptors_ = <<>>
  /\ measures_ = <<>> /\ info = <<>>
  /\ registered_boundaries_ = <<>>
  /\ active_delta_ = EmptyDelta /\ last_delta_ = EmptyDelta
  /\ delta_mu_ = Free /\ harvester_mu_ = Free /\ mu_ = Free
  /\ pc = [t \in AllThreads |-> "idle"]
  /\ op = [t \in AllThreads |-> "none"]
  /\ index_ = [t \in AllThreads |-> 0]
  /\ descriptor_ = [t \in AllThreads |-> Null]
  /\ handle_ = [t \in AllThreads |-> Null]
  /\ held = {}
  /\ failure = "none"
  /\ log = <<>>
  /\ delivered = [tags \in TagMaps |-> <<>>]

\* Thread t goes from one step of its operation to another.
Goto(t, from, to) == pc[t] = from /\ pc' = [pc EXCEPT ![t] = to]

\* The program ends in a failed assertion or an out-of-range access.
Fail(where) ==
  /\ failure' = where
  /\ UNCHANGED <<registered_descriptors_, manager, producer, locks, pc, op,
                 index_, view, program>>

----------------------------------------------------------------------------
\* MeasureRegistryImpl.

\* Mutant: the DeltaProducer is told of the measure before the StatsManager.
RegisterWithDeltaFirst(t, name) ==
  /\ t \in Registrars
  /\ name \notin Range(registered_descriptors_)
  /\ Goto(t, "idle", "lock_delta")
  /\ op' = [op EXCEPT ![t] = "AddMeasure"]
  /\ registered_descriptors_' = Append(registered_descriptors_, name)
  /\ index_' = [index_ EXCEPT ![t] = Len(registered_descriptors_) + 1]
  /\ UNCHANGED <<manager, producer, locks, view, program, failure>>

\* RegisterImpl for a new name.  The id is the next index, and lookups by name
\* find it from here on.
RegisterImpl(t, name) ==
  /\ t \in Registrars
  /\ name \notin Range(registered_descriptors_)
  /\ Goto(t, "idle", "add_measure")
  /\ registered_descriptors_' = Append(registered_descriptors_, name)
  /\ index_' = [index_ EXCEPT ![t] = Len(registered_descriptors_) + 1]
  /\ UNCHANGED <<manager, producer, locks, op, view, program, failure>>

\* RegisterImpl for an empty or a registered name.
RegisterFails(t) ==
  /\ t \in Registrars /\ pc[t] = "idle"
  /\ held' = held \cup {InvalidMeasure}
  /\ UNCHANGED <<registered_descriptors_, manager, producer, locks, pc, op,
                 index_, view, failure, log>>

\* GetMeasureDoubleByName and GetMeasureInt64ByName.
GetMeasureByName(t, name) ==
  /\ Lookups /\ pc[t] = "idle"
  /\ held' = held \cup
       IF name \in Range(registered_descriptors_)
       THEN {ValidMeasure(i) : i \in {j \in DOMAIN registered_descriptors_ :
                                        registered_descriptors_[j] = name}}
       ELSE {InvalidMeasure}
  /\ UNCHANGED <<registered_descriptors_, manager, producer, locks, pc, op,
                 index_, view, failure, log>>

----------------------------------------------------------------------------
\* StatsManager's mutex.  The steps named "..._locked" run with mu_ held.
LockMu(t) ==
  /\ mu_ = Free /\ mu_' = t
  /\ \/ Goto(t, "add_measure", "add_measure_locked")
     \/ Goto(t, "consume", "merge_locked")
     \/ Goto(t, "add_consumer", "add_consumer_locked")
     \/ Goto(t, "remove_consumer", "remove_consumer_locked")
  /\ UNCHANGED <<registered_descriptors_, manager, producer, delta_mu_,
                 harvester_mu_, op, index_, view, program, failure>>

\* StatsManager::AddMeasure: the new element is asserted to be at the index of
\* the measure.
ManagerAddMeasure(t) ==
  /\ pc[t] = "add_measure_locked"
  /\ NDEBUG \/ Len(measures_) + 1 = index_[t]
  /\ Goto(t, "add_measure_locked", "lock_delta")
  /\ op' = [op EXCEPT ![t] = "AddMeasure"]
  /\ measures_' = Append(measures_, {})
  /\ delivered' = [tags \in TagMaps |-> Append(delivered[tags], NoData)]
  /\ mu_' = Free
  /\ UNCHANGED <<registered_descriptors_, info, producer, delta_mu_,
                 harvester_mu_, index_, view, program, failure>>

ManagerAddMeasureFails(t) ==
  /\ pc[t] = "add_measure_locked"
  /\ ~NDEBUG /\ Len(measures_) + 1 # index_[t]
  /\ Fail("AddMeasure")

----------------------------------------------------------------------------
\* DeltaProducer.

\* Record, with `indexes` those of its measurements (each at most once) and the
\* lock on delta_mu_ held throughout.  Nothing looks at the validity bit.
Record(t, measurements, tags) ==
  LET indexes == {m.index : m \in measurements} IN
  /\ pc[t] = "idle" /\ delta_mu_ = Free /\ Len(log) < MaxRecords
  /\ RecordInRange(active_delta_, indexes, tags)
  /\ active_delta_' = DeltaRecord(active_delta_, Len(log) + 1, indexes, tags)
  /\ log' = Append(log, [measurements |-> measurements, tags |-> tags])
  /\ UNCHANGED <<registered_descriptors_, manager, registered_boundaries_,
                 last_delta_, locks, pc, op, index_, view, held, failure>>

RecordFails(t, measurements, tags) ==
  /\ pc[t] = "idle" /\ delta_mu_ = Free /\ Len(log) < MaxRecords
  /\ ~RecordInRange(active_delta_, {m.index : m \in measurements}, tags)
  /\ Fail("Record")

\* The measurement lists a program can pass: of measures it was given, no two
\* with the same index.
MeasurementLists ==
  {ms \in SUBSET {m \in held : m.valid \/ UseInvalid} :
     ms # {} /\ \A m, n \in ms : m.index = n.index => m = n}

\* Flush, called by the harvester loop and by testing::TestUtils::Flush.
Flush(t) ==
  /\ Goto(t, "idle", "lock_delta")
  /\ op' = [op EXCEPT ![t] = "Flush"]
  /\ UNCHANGED <<registered_descriptors_, manager, producer, locks, index_,
                 view, program, failure>>

\* delta_mu_.Lock() in AddMeasure and Flush, and in AddBoundaries when the
\* boundaries turn out to be new.
LockDelta(t) ==
  /\ delta_mu_ = Free
  /\ op[t] = "AddBoundaries" =>
       /\ descriptor_[t].measure \in DOMAIN registered_boundaries_
       /\ descriptor_[t].aggregation \notin
            registered_boundaries_[descriptor_[t].measure]
  /\ Goto(t, "lock_delta", "lock_harvester")
  /\ delta_mu_' = t
  /\ UNCHANGED <<registered_descriptors_, manager, producer, harvester_mu_,
                 mu_, op, index_, view, program, failure>>

\* AddBoundaries when the boundaries are there already: delta_mu_ is released
\* at once, whatever the thread that added them is still doing.
BoundariesFound(t) ==
  /\ delta_mu_ = Free /\ op[t] = "AddBoundaries"
  /\ descriptor_[t].measure \in DOMAIN registered_boundaries_
  /\ descriptor_[t].aggregation \in
       registered_boundaries_[descriptor_[t].measure]
  /\ Goto(t, "lock_delta", "add_consumer")
  /\ op' = [op EXCEPT ![t] = "none"]
  /\ UNCHANGED <<registered_descriptors_, manager, producer, locks, index_,
                 view, program, failure>>

\* AddBoundaries for an index past the end of registered_boundaries_.
AddBoundariesFails(t) ==
  /\ pc[t] = "lock_delta" /\ delta_mu_ = Free /\ op[t] = "AddBoundaries"
  /\ descriptor_[t].measure \notin DOMAIN registered_boundaries_
  /\ Fail("AddBoundaries")

\* The new configuration of the operation thread t is in.
NewBoundaries(t) ==
  CASE op[t] = "AddMeasure" -> Append(registered_boundaries_, {})
    [] op[t] = "AddBoundaries" ->
         [registered_boundaries_ EXCEPT ![descriptor_[t].measure] =
            @ \cup {descriptor_[t].aggregation}]
    [] OTHER -> registered_boundaries_

\* push_back, SwapDeltas and delta_mu_.Unlock(), which leave these two deltas.
SwapTo(t, last, active) ==
  /\ Goto(t, "lock_harvester", "consume")
  /\ harvester_mu_' = t
  /\ registered_boundaries_' = NewBoundaries(t)
  /\ last_delta_' = last
  /\ active_delta_' = active
  /\ delta_mu_' = Free
  /\ UNCHANGED <<registered_descriptors_, manager, mu_, op, index_, view,
                 program, failure>>

\* Mutants: harvester_mu_ is not taken; the delta of the old configuration is
\* dropped; the new delta gets the old boundaries.
SwapWithoutWaiting(t) == SwapTo(t, active_delta_, ResetDelta(NewBoundaries(t)))
SwapDropping(t) ==
  /\ harvester_mu_ = Free
  /\ SwapTo(t, IF op[t] = "Flush" THEN active_delta_ ELSE EmptyDelta,
               ResetDelta(NewBoundaries(t)))
SwapTooEarly(t) ==
  harvester_mu_ = Free /\ SwapTo(t, active_delta_, ResetDelta(registered_boundaries_))

\* With harvester_mu_ taken too, the active delta becomes the last one, and an
\* empty one with the new boundaries takes its place.
SwapDeltas(t) ==
  harvester_mu_ = Free /\ SwapTo(t, active_delta_, ResetDelta(NewBoundaries(t)))

\* The end of ConsumeLastDelta, and of the operation of the DeltaProducer.
ConsumedTo(t, last, owner) ==
  /\ Goto(t, "clear", IF op[t] = "AddBoundaries" THEN "add_consumer" ELSE "idle")
  /\ last_delta_' = last
  /\ harvester_mu_' = owner
  /\ op' = [op EXCEPT ![t] = "none"]
  /\ held' = IF op[t] = "AddMeasure" THEN held \cup {ValidMeasure(index_[t])}
                                     ELSE held
  /\ UNCHANGED <<registered_descriptors_, manager, registered_boundaries_,
                 active_delta_, delta_mu_, mu_, index_, view, failure, log>>

\* Mutants: last_delta_ is not cleared; harvester_mu_ is not released.
ClearNothing(t) == ConsumedTo(t, last_delta_, Free)
ClearUnreleased(t) == ConsumedTo(t, EmptyDelta, t)

\* After MergeDelta has returned: last_delta_.clear(), harvester_mu_ released,
\* and back to the caller of the DeltaProducer.
ClearLastDelta(t) == ConsumedTo(t, EmptyDelta, Free)

----------------------------------------------------------------------------
\* StatsManager::MergeDelta.

\* The tag values a view groups a tag set under.
ProjectTags(tags, columns) ==
  [key \in columns |-> IF key \in DOMAIN tags THEN tags[key] ELSE NoTag]

\* Mutant: the loop over the measures ends one too early.
DataForAllButLast(delta, tags, i) ==
  IF tags \in DOMAIN delta.rows /\ i + 1 \in DOMAIN delta.rows[tags]
  THEN delta.rows[tags][i] ELSE NoData

\* The data a delta's row for a tag set has for measure i.
DataFor(delta, tags, i) ==
  IF tags \in DOMAIN delta.rows /\ i \in DOMAIN delta.rows[tags]
  THEN delta.rows[tags][i] ELSE NoData

\* Mutant: the new data replaces the view's.
ReplaceRow(data, row) ==
  [k \in DOMAIN data \cup {row.key} |-> IF k = row.key THEN row.new ELSE data[k]]

\* ViewInformation::MergeMeasureData for one tag set, on the view's data.
MergeRow(data, row) ==
  IF row.new.count = 0 THEN data
  ELSE [k \in DOMAIN data \cup {row.key} |->
          IF k # row.key THEN data[k]
          ELSE IF k \in DOMAIN data THEN Combine(data[k], row.new) ELSE row.new]

\* A distribution view whose boundaries the delta kept no histogram for.
NoHistogram(v, delta) ==
  /\ v.descriptor.aggregation # NotDistribution
  /\ v.descriptor.aggregation \notin
       delta.registered_boundaries[v.descriptor.measure]

\* What a delta has for a view, with the tag sets of the delta in this order.
RowsFor(v, delta, order) ==
  [n \in DOMAIN order |->
     [key |-> ProjectTags(order[n], v.descriptor.columns),
      new |-> DataFor(delta, order[n], v.descriptor.measure)]]

\* What MergeDelta leaves in a view.  Values without a histogram go to the
\* underflow bucket.
MergedView(v, delta, order) ==
  LET rows == RowsFor(v, delta, order)
      new == UNION {rows[n].new.values : n \in DOMAIN rows}
  IN [v EXCEPT
        !.data = FoldLeft(MergeRow, @, rows),
        !.underflow = IF new # {} /\ NoHistogram(v, delta) THEN @ \cup new ELSE @]

\* AddToDistribution would assert for one of the views.
HistogramMissing(delta) ==
  \E h \in DOMAIN info, tags \in DOMAIN delta.rows :
    /\ DataFor(delta, tags, info[h].descriptor.measure).count # 0
    /\ NoHistogram(info[h], delta)

\* The order of the rows is that of an unordered_map: any.
MergeDelta(t) ==
  /\ NDEBUG \/ ~HistogramMissing(last_delta_)
  /\ Goto(t, "merge_locked", "clear")
  /\ \E order \in SetToSeqs(DOMAIN last_delta_.rows) :
       info' = [h \in DOMAIN info |-> MergedView(info[h], last_delta_, order)]
  /\ delivered' = [tags \in TagMaps |->
       [i \in DOMAIN delivered[tags] |->
          LET new == DataFor(last_delta_, tags, i) IN
          IF new.count = 0 THEN delivered[tags][i]
                           ELSE Combine(delivered[tags][i], new)]]
  /\ mu_' = Free
  /\ UNCHANGED <<registered_descriptors_, measures_, producer, delta_mu_,
                 harvester_mu_, op, index_, view, program, failure>>

MergeDeltaFails(t) ==
  /\ pc[t] = "merge_locked"
  /\ ~NDEBUG /\ HistogramMissing(last_delta_)
  /\ Fail("AddToDistribution")

----------------------------------------------------------------------------
\* StatsManager's views, and the View objects that own their handles.  A thread
\* owns at most one View at a time.

\* The View constructor, as far as AddConsumer's first call.
BeginView(t, descriptor, distribution) ==
  /\ handle_[t] = Null
  /\ ValidMeasure(descriptor.measure) \in held
  /\ Goto(t, "idle", IF distribution THEN "lock_delta" ELSE "add_consumer")
  /\ op' = [op EXCEPT ![t] = IF distribution THEN "AddBoundaries" ELSE "none"]
  /\ descriptor_' = [descriptor_ EXCEPT ![t] = descriptor]
  /\ UNCHANGED <<registered_descriptors_, manager, producer, locks, index_,
                 handle_, program, failure>>

\* Mutant: AddBoundaries is called whatever the aggregation is.
AddViewWithBoundaries(t, descriptor) == BeginView(t, descriptor, TRUE)

\* Only a distribution has boundaries to add.  (With an invalid measure
\* AddConsumer returns a null handle and nothing else happens.)
AddView(t, descriptor) ==
  BeginView(t, descriptor, descriptor.aggregation # NotDistribution)

\* ViewInformation::Matches: a descriptor is the fields it compares.
Matching(descriptor) ==
  {h \in measures_[descriptor.measure] : info[h].descriptor = descriptor}

\* A new ViewInformation.  `since` is history: what the measure had been given.
NewView(descriptor) ==
  [descriptor |-> descriptor, num_consumers |-> 1,
   data |-> [k \in {} |-> NoData], underflow |-> {},
   since |-> UNION {delivered[tags][descriptor.measure].values :
                      tags \in TagMaps}]

\* AddConsumer's locked part: share a view that matches, or make one.
ShareWith(t, h, num_consumers) ==
  /\ Goto(t, "add_consumer_locked", "idle")
  /\ descriptor_[t].measure \in DOMAIN measures_
  /\ h \in Matching(descriptor_[t])
  /\ info' = [info EXCEPT ![h].num_consumers = num_consumers]
  /\ handle_' = [handle_ EXCEPT ![t] = h]
  /\ mu_' = Free
  /\ UNCHANGED <<registered_descriptors_, measures_, delivered, producer,
                 delta_mu_, harvester_mu_, op, index_, descriptor_, program,
                 failure>>

\* Mutant: AddConsumer() is not called on the view that is shared.
ShareUncounted(t, h) == ShareWith(t, h, info[h].num_consumers)

ShareView(t, h) == ShareWith(t, h, info[h].num_consumers + 1)

\* The new view's address is any free one, that of an erased view included.
CreateView(t, h) ==
  /\ h \in Handles \ DOMAIN info
  /\ Goto(t, "add_consumer_locked", "idle")
  /\ descriptor_[t].measure \in DOMAIN measures_
  /\ Matching(descriptor_[t]) = {}
  /\ info' = [k \in DOMAIN info \cup {h} |->
                IF k = h THEN NewView(descriptor_[t]) ELSE info[k]]
  /\ measures_' = [measures_ EXCEPT ![descriptor_[t].measure] = @ \cup {h}]
  /\ handle_' = [handle_ EXCEPT ![t] = h]
  /\ mu_' = Free
  /\ UNCHANGED <<registered_descriptors_, delivered, producer, delta_mu_,
                 harvester_mu_, op, index_, descriptor_, program, failure>>

AddConsumerFails(t) ==
  /\ pc[t] = "add_consumer_locked"
  /\ descriptor_[t].measure \notin DOMAIN measures_
  /\ Fail("AddConsumer")

\* The View destructor.
RemoveView(t) ==
  /\ Goto(t, "idle", "remove_consumer")
  /\ handle_[t] # Null
  /\ UNCHANGED <<registered_descriptors_, manager, producer, locks, op, index_,
                 view, program, failure>>

\* RemoveConsumer's locked part: the last consumer's view is erased.
RemoveConsumer(t) ==
  LET h == handle_[t]
      remaining == info[h].num_consumers - 1 IN
  /\ Goto(t, "remove_consumer_locked", "idle")
  /\ IF remaining = 0
     THEN /\ measures_' = [measures_ EXCEPT ![info[h].descriptor.measure] = @ \ {h}]
          /\ info' = [k \in DOMAIN info \ {h} |-> info[k]]
     ELSE /\ info' = [info EXCEPT ![h].num_consumers = remaining]
          /\ UNCHANGED measures_
  /\ handle_' = [handle_ EXCEPT ![t] = Null]
  /\ descriptor_' = [descriptor_ EXCEPT ![t] = Null]
  /\ mu_' = Free
  /\ UNCHANGED <<registered_descriptors_, delivered, producer, delta_mu_,
                 harvester_mu_, op, index_, program, failure>>

----------------------------------------------------------------------------
\* The steps of a call a thread has made.
Continue(t) ==
  \/ LockMu(t)
  \/ ManagerAddMeasure(t) \/ ManagerAddMeasureFails(t)
  \/ LockDelta(t) \/ BoundariesFound(t) \/ AddBoundariesFails(t)
  \/ SwapDeltas(t)
  \/ MergeDelta(t) \/ MergeDeltaFails(t)
  \/ ClearLastDelta(t)
  \/ \E h \in Handles : ShareView(t, h) \/ CreateView(t, h)
  \/ AddConsumerFails(t)
  \/ RemoveConsumer(t)

\* The calls an application thread can make.
Call(t) ==
  \/ \E name \in Names : RegisterImpl(t, name) \/ GetMeasureByName(t, name)
  \/ RegisterFails(t)
  \/ \E measurements \in MeasurementLists, tags \in TagMaps :
       Record(t, measurements, tags) \/ RecordFails(t, measurements, tags)
  \/ \E descriptor \in [measure : {m.index : m \in held},
                        aggregation : Boundaries \cup {NotDistribution},
                        columns : Columns] : AddView(t, descriptor)
  \/ RemoveView(t)

\* RunHarvesterLoop: the thread sleeps for any time between two flushes.
Next ==
  /\ failure = "none"
  /\ \/ \E t \in Threads : Call(t)
     \/ \E t \in Flushers \cup {Harvester} : Flush(t)
     \/ \E t \in AllThreads : Continue(t)

\* The harvester keeps flushing; a thread runs its call to the end, and is not
\* overtaken for ever at a mutex (absl::Mutex queues its waiters).
Fairness ==
  /\ WF_vars(failure = "none" /\ Flush(Harvester))
  /\ \A t \in AllThreads : SF_vars(failure = "none" /\ Continue(t))

Spec == Init /\ [][Next]_vars /\ Fairness
=============================================================================
