------------------------ MODULE StatsPipelineProofs ------------------------
(***************************************************************************)
(* Theorems about StatsPipeline, for every set of threads, measures, tag   *)
(* sets and boundaries.                                                    *)
(***************************************************************************)
EXTENDS StatsPipelineProperties, FiniteSetTheorems, TLAPS

----------------------------------------------------------------------------
\* The control state: which thread is where, and who holds which mutex.

\* At the start no thread is in a call and no mutex is held.
LEMMA ControlInit == Init => ControlTypeOK /\ MutexOwners
  BY ThreadsAssumption
  DEF Init, ControlTypeOK, MutexOwners, Steps, AllThreads

\* Every step takes and releases the mutexes as the step names say.
LEMMA ControlStep ==
  ControlTypeOK /\ MutexOwners /\ [Next]_vars => (ControlTypeOK /\ MutexOwners)'
<1> USE ThreadsAssumption DEF AllThreads, Steps, ControlTypeOK, MutexOwners,
        Goto, Fail, locks
<1> SUFFICES ASSUME ControlTypeOK, MutexOwners, [Next]_vars
             PROVE  (ControlTypeOK /\ MutexOwners)'
  OBVIOUS
<1>1. ASSUME NEW t \in Threads, NEW name \in Names,
             RegisterImpl(t, name) \/ GetMeasureByName(t, name)
      PROVE  (ControlTypeOK /\ MutexOwners)'
  BY <1>1 DEF RegisterImpl, GetMeasureByName
<1>2. ASSUME NEW t \in Threads, RegisterFails(t) \/ RemoveView(t)
      PROVE  (ControlTypeOK /\ MutexOwners)'
  BY <1>2 DEF RegisterFails, RemoveView
<1>3. ASSUME NEW t \in Threads, NEW ms \in MeasurementLists, NEW tags \in TagMaps,
             Record(t, ms, tags) \/ RecordFails(t, ms, tags)
      PROVE  (ControlTypeOK /\ MutexOwners)'
  BY <1>3 DEF Record, RecordFails
<1>4. ASSUME NEW t \in Threads, NEW d, AddView(t, d)
      PROVE  (ControlTypeOK /\ MutexOwners)'
  BY <1>4 DEF AddView, BeginView
<1>5. ASSUME NEW t \in AllThreads, Flush(t)
      PROVE  (ControlTypeOK /\ MutexOwners)'
  BY <1>5 DEF Flush
<1>6. ASSUME NEW t \in AllThreads, LockMu(t)
      PROVE  (ControlTypeOK /\ MutexOwners)'
  BY <1>6 DEF LockMu
<1>7. ASSUME NEW t \in AllThreads,
             ManagerAddMeasure(t) \/ ManagerAddMeasureFails(t)
      PROVE  (ControlTypeOK /\ MutexOwners)'
  BY <1>7 DEF ManagerAddMeasure, ManagerAddMeasureFails
<1>8. ASSUME NEW t \in AllThreads,
             LockDelta(t) \/ BoundariesFound(t) \/ AddBoundariesFails(t)
      PROVE  (ControlTypeOK /\ MutexOwners)'
  BY <1>8 DEF LockDelta, BoundariesFound, AddBoundariesFails
<1>9. ASSUME NEW t \in AllThreads, SwapDeltas(t)
      PROVE  (ControlTypeOK /\ MutexOwners)'
  BY <1>9 DEF SwapDeltas, SwapTo
<1>10. ASSUME NEW t \in AllThreads, MergeDelta(t) \/ MergeDeltaFails(t)
       PROVE  (ControlTypeOK /\ MutexOwners)'
  BY <1>10 DEF MergeDelta, MergeDeltaFails
<1>11. ASSUME NEW t \in AllThreads, ClearLastDelta(t)
       PROVE  (ControlTypeOK /\ MutexOwners)'
  BY <1>11 DEF ClearLastDelta, ConsumedTo
<1>12. ASSUME NEW t \in AllThreads, NEW h \in Handles,
              ShareView(t, h) \/ CreateView(t, h)
       PROVE  (ControlTypeOK /\ MutexOwners)'
  BY <1>12 DEF ShareView, ShareWith, CreateView
<1>13. ASSUME NEW t \in AllThreads, AddConsumerFails(t) \/ RemoveConsumer(t)
       PROVE  (ControlTypeOK /\ MutexOwners)'
  BY <1>13 DEF AddConsumerFails, RemoveConsumer
<1>14. CASE UNCHANGED vars
  BY <1>14 DEF vars
<1> QED
  BY <1>1, <1>2, <1>3, <1>4, <1>5, <1>6, <1>7, <1>8, <1>9, <1>10, <1>11, <1>12,
     <1>13, <1>14 DEF Next, Call, Continue

----------------------------------------------------------------------------
\* The arguments of the calls in progress.

\* A thread is inside the DeltaProducer for a reason, and has the index or the
\* boundaries that this operation works on.
CallsTyped ==
  \A t \in AllThreads :
    /\ op[t] # "none" <=>
         pc[t] \in {"lock_delta", "lock_harvester", "consume", "merge_locked",
                    "clear"}
    /\ pc[t] \in {"add_measure", "add_measure_locked"} \/ op[t] = "AddMeasure"
         => index_[t] # 0
    /\ op[t] = "AddBoundaries" =>
         /\ descriptor_[t] \in Descriptor
         /\ descriptor_[t].aggregation \in Boundaries

ProgramInv == ProgramTypeOK /\ CallsTyped

\* At the start no call has arguments.
LEMMA ProgramInit == Init => ProgramInv
  BY DEF Init, ProgramInv, ProgramTypeOK, CallsTyped

\* Every step keeps the arguments of the calls in progress well typed.
LEMMA ProgramStep ==
  ControlTypeOK /\ ProgramInv /\ [Next]_vars => ProgramInv'
<1> SUFFICES ASSUME ControlTypeOK, ProgramInv, [Next]_vars
             PROVE  ProgramInv'
  OBVIOUS
<1> USE DEF ControlTypeOK, Steps, ProgramInv, ProgramTypeOK, CallsTyped, Goto,
            Fail, view, program
<1> /\ \A i \in Nat \ {0} : ValidMeasure(i) \in Measure
    /\ InvalidMeasure \in Measure
  BY DEF ValidMeasure, InvalidMeasure, Measure
<1> Threads \subseteq AllThreads
  BY DEF AllThreads
<1>1. ASSUME NEW t \in Threads, NEW name \in Names, RegisterImpl(t, name)
      PROVE  ProgramInv'
  BY <1>1 DEF RegisterImpl
<1>2. ASSUME NEW t \in Threads, NEW name \in Names, GetMeasureByName(t, name)
      PROVE  ProgramInv'
  BY <1>2 DEF GetMeasureByName
<1>3. ASSUME NEW t \in Threads, RegisterFails(t) \/ RemoveView(t)
      PROVE  ProgramInv'
  BY <1>3 DEF RegisterFails, RemoveView
<1>4. ASSUME NEW t \in Threads, NEW ms \in MeasurementLists, NEW tags \in TagMaps,
             Record(t, ms, tags)
      PROVE  ProgramInv'
  <2>1. [measurements |-> ms, tags |-> tags] \in
          [measurements : SUBSET Measure, tags : TagMaps]
    BY DEF MeasurementLists
  <2> QED
    BY <1>4, <2>1 DEF Record
<1>5. ASSUME NEW t \in Threads, NEW ms, NEW tags, RecordFails(t, ms, tags)
      PROVE  ProgramInv'
  BY <1>5 DEF RecordFails
<1>6. ASSUME NEW t \in Threads,
             NEW d \in [measure : {m.index : m \in held},
                        aggregation : Boundaries \cup {NotDistribution},
                        columns : Columns],
             AddView(t, d)
      PROVE  ProgramInv'
  <2>1. d \in Descriptor
    BY DEF Measure, Descriptor
  <2>2. d.aggregation # NotDistribution => d.aggregation \in Boundaries
    OBVIOUS
  <2> QED
    BY <1>6, <2>1, <2>2 DEF AddView, BeginView
<1>7. ASSUME NEW t \in AllThreads, Flush(t)
      PROVE  ProgramInv'
  BY <1>7 DEF Flush
<1>8. ASSUME NEW t \in AllThreads, LockMu(t)
      PROVE  ProgramInv'
  BY <1>8 DEF LockMu
<1>9. ASSUME NEW t \in AllThreads,
             ManagerAddMeasure(t) \/ ManagerAddMeasureFails(t)
      PROVE  ProgramInv'
  BY <1>9 DEF ManagerAddMeasure, ManagerAddMeasureFails
<1>10. ASSUME NEW t \in AllThreads,
             LockDelta(t) \/ BoundariesFound(t) \/ AddBoundariesFails(t)
       PROVE  ProgramInv'
  BY <1>10 DEF LockDelta, BoundariesFound, AddBoundariesFails
<1>11. ASSUME NEW t \in AllThreads, SwapDeltas(t)
       PROVE  ProgramInv'
  BY <1>11 DEF SwapDeltas, SwapTo
<1>12. ASSUME NEW t \in AllThreads, MergeDelta(t) \/ MergeDeltaFails(t)
       PROVE  ProgramInv'
  BY <1>12 DEF MergeDelta, MergeDeltaFails
<1>13. ASSUME NEW t \in AllThreads, ClearLastDelta(t)
       PROVE  ProgramInv'
  BY <1>13 DEF ClearLastDelta, ConsumedTo
<1>14. ASSUME NEW t \in AllThreads, NEW h \in Handles,
              ShareView(t, h) \/ CreateView(t, h)
       PROVE  ProgramInv'
  <2>1. /\ UNCHANGED <<registered_descriptors_, op, index_, descriptor_, program>>
        /\ handle_' = [handle_ EXCEPT ![t] = h]
        /\ pc' = [pc EXCEPT ![t] = "idle"]
        /\ pc[t] = "add_consumer_locked"
    BY <1>14 DEF ShareView, ShareWith, CreateView
  <2> QED
    BY <2>1
<1>15. ASSUME NEW t \in AllThreads, AddConsumerFails(t) \/ RemoveConsumer(t)
       PROVE  ProgramInv'
  <2>1. CASE AddConsumerFails(t)
    BY <2>1 DEF AddConsumerFails
  <2>2. CASE RemoveConsumer(t)
    <3>1. /\ UNCHANGED <<registered_descriptors_, op, index_, program>>
          /\ handle_' = [handle_ EXCEPT ![t] = Null]
          /\ descriptor_' = [descriptor_ EXCEPT ![t] = Null]
          /\ pc' = [pc EXCEPT ![t] = "idle"]
          /\ pc[t] = "remove_consumer_locked"
      BY <2>2 DEF RemoveConsumer
    <3>2. op[t] = "none"
      BY <3>1
    <3> QED
      BY <3>1, <3>2
  <2> QED
    BY <1>15, <2>1, <2>2
<1>16. CASE UNCHANGED vars
  BY <1>16 DEF vars
<1> QED
  BY <1>1, <1>2, <1>3, <1>4, <1>5, <1>6, <1>7, <1>8, <1>9, <1>10, <1>11, <1>12,
     <1>13, <1>14, <1>15, <1>16, ThreadsAssumption DEF Next, Call, Continue, AllThreads

----------------------------------------------------------------------------
\* The deltas.

\* The delta being harvested has been merged and waits to be cleared.
Merged == \E t \in AllThreads : pc[t] = "clear"

\* The threads that have told the StatsManager of a measure, and not yet the
\* DeltaProducer.
AddingMeasures ==
  {t \in AllThreads : op[t] = "AddMeasure" /\ pc[t] \in {"lock_delta", "lock_harvester"}}

\* Only five kinds of steps touch what the deltas hold and where it goes.
LEMMA DataSteps ==
  ASSUME ControlTypeOK, [Next]_vars
  PROVE  \/ /\ UNCHANGED <<producer, delivered, log, harvester_mu_>>
            /\ Merged' <=> Merged
            /\ AddingMeasures' = AddingMeasures
         \/ \E t \in Threads, ms \in MeasurementLists, tags \in TagMaps :
              Record(t, ms, tags)
         \/ \E t \in AllThreads :
              \/ ManagerAddMeasure(t) \/ SwapDeltas(t) \/ MergeDelta(t)
              \/ ClearLastDelta(t)
<1> DEFINE Quiet == /\ UNCHANGED <<producer, delivered, log, harvester_mu_>>
                    /\ Merged' <=> Merged
                    /\ AddingMeasures' = AddingMeasures
<1> USE DEF ControlTypeOK, Goto, Fail, manager, locks, program, Merged,
            AddingMeasures
<1> Threads \subseteq AllThreads
  BY DEF AllThreads
<1>1. ASSUME NEW t \in Threads, NEW name,
             RegisterImpl(t, name) \/ GetMeasureByName(t, name)
      PROVE  Quiet
  BY <1>1 DEF RegisterImpl, GetMeasureByName
<1>2. ASSUME NEW t \in Threads, RegisterFails(t) \/ RemoveView(t)
      PROVE  Quiet
  BY <1>2 DEF RegisterFails, RemoveView
<1>3. ASSUME NEW t \in Threads, NEW ms, NEW tags, RecordFails(t, ms, tags)
      PROVE  Quiet
  BY <1>3 DEF RecordFails
<1>4. ASSUME NEW t \in Threads, NEW d, AddView(t, d)
      PROVE  Quiet
  BY <1>4 DEF AddView, BeginView
<1>5. ASSUME NEW t \in AllThreads, Flush(t) \/ LockMu(t)
      PROVE  Quiet
  BY <1>5 DEF Flush, LockMu
<1>6. ASSUME NEW t \in AllThreads,
             \/ ManagerAddMeasureFails(t) \/ LockDelta(t) \/ BoundariesFound(t)
             \/ AddBoundariesFails(t) \/ MergeDeltaFails(t) \/ AddConsumerFails(t)
      PROVE  Quiet
  BY <1>6 DEF ManagerAddMeasureFails, LockDelta, BoundariesFound,
              AddBoundariesFails, MergeDeltaFails, AddConsumerFails
<1>7. ASSUME NEW t \in AllThreads, NEW h \in Handles,
             ShareView(t, h) \/ CreateView(t, h)
      PROVE  Quiet
  BY <1>7 DEF ShareView, ShareWith, CreateView
<1>8. ASSUME NEW t \in AllThreads, RemoveConsumer(t)
      PROVE  Quiet
  BY <1>8 DEF RemoveConsumer
<1>9. CASE UNCHANGED vars
  BY <1>9 DEF vars
<1> QED
  BY <1>1, <1>2, <1>3, <1>4, <1>5, <1>6, <1>7, <1>8, <1>9, ThreadsAssumption
     DEF Next, Call, Continue, Quiet, AllThreads

\* Updating an element of a sequence: its type and its length are kept.
LEMMA UpdateSeq ==
  ASSUME NEW S, NEW s \in Seq(S), NEW i, NEW e, i \in DOMAIN s => e \in S
  PROVE  /\ [s EXCEPT ![i] = e] \in Seq(S)
         /\ Len([s EXCEPT ![i] = e]) = Len(s)
<1> DEFINE n == Len(s)
           new == [s EXCEPT ![i] = e]
<1>1. n \in Nat /\ s \in [1 .. n -> S]
  OBVIOUS
<1> HIDE DEF n
<1>2. new \in [1 .. n -> S]
  BY <1>1
<1>3. new \in Seq(S) /\ Len(new) = n
  BY <1>1, <1>2
<1> QED
  BY <1>3 DEF n

\* The number of measures changes only when one is added.
LEMMA MeasuresSteps ==
  ASSUME measures_ \in Seq(SUBSET Handles), [Next]_vars
  PROVE  /\ measures_' \in Seq(SUBSET Handles)
         /\ \/ Len(measures_') = Len(measures_)
            \/ \E t \in AllThreads : ManagerAddMeasure(t)
<1> DEFINE Same == /\ measures_' \in Seq(SUBSET Handles)
                   /\ Len(measures_') = Len(measures_)
<1>1. ASSUME NEW t \in AllThreads, ManagerAddMeasure(t)
      PROVE  measures_' \in Seq(SUBSET Handles)
  BY <1>1 DEF ManagerAddMeasure
<1>2. ASSUME NEW t \in AllThreads, NEW h \in Handles, CreateView(t, h)
      PROVE  Same
  <2> DEFINE i == descriptor_[t].measure
             e == measures_[i] \cup {h}
  <2>1. i \in DOMAIN measures_ => e \in SUBSET Handles
    OBVIOUS
  <2>2. measures_' = [measures_ EXCEPT ![i] = e]
    BY <1>2 DEF CreateView
  <2> HIDE DEF e
  <2> QED
    BY <2>1, <2>2, UpdateSeq
<1>3. ASSUME NEW t \in AllThreads, RemoveConsumer(t)
      PROVE  Same
  <2>1. CASE UNCHANGED measures_
    BY <2>1
  <2>2. CASE measures_' = [measures_ EXCEPT
                 ![info[handle_[t]].descriptor.measure] = @ \ {handle_[t]}]
    <3> DEFINE i == info[handle_[t]].descriptor.measure
               e == measures_[i] \ {handle_[t]}
    <3>1. i \in DOMAIN measures_ => e \in SUBSET Handles
      OBVIOUS
    <3>2. measures_' = [measures_ EXCEPT ![i] = e]
      BY <2>2
    <3> HIDE DEF e
    <3> QED
      BY <3>1, <3>2, UpdateSeq
  <2> QED
    BY <1>3, <2>1, <2>2 DEF RemoveConsumer
<1>4. ASSUME UNCHANGED measures_
      PROVE  Same
  BY <1>4
<1> HIDE DEF Same
<1>5. ASSUME NEW t \in Threads, Call(t)
      PROVE  Same
  BY <1>4, <1>5
     DEF Call, RegisterImpl, GetMeasureByName, RegisterFails, Record,
         RecordFails, AddView, BeginView, RemoveView, Fail, manager
<1>6. ASSUME NEW t \in AllThreads, Flush(t)
      PROVE  Same
  BY <1>4, <1>6 DEF Flush, manager
<1>7. ASSUME NEW t \in AllThreads, Continue(t), ~ManagerAddMeasure(t)
      PROVE  Same
  BY <1>2, <1>3, <1>4, <1>7
     DEF Continue, LockMu, ManagerAddMeasureFails, LockDelta, BoundariesFound,
         AddBoundariesFails, SwapDeltas, SwapTo, MergeDelta, MergeDeltaFails,
         ClearLastDelta, ConsumedTo, ShareView, ShareWith, AddConsumerFails, Fail, manager
<1> QED
  BY <1>1, <1>4, <1>5, <1>6, <1>7, ThreadsAssumption
     DEF Next, AllThreads, Same, vars, manager

----------------------------------------------------------------------------
\* The operators of Delta keep to their types.

\* MeasureData::Add and merging keep a MeasureData.
LEMMA DataTypes ==
  /\ NoData \in Data
  /\ \A data \in Data, value \in Nat : Add(data, value) \in Data
  /\ \A total, data \in Data : Combine(total, data) \in Data
  BY DEF NoData, Data, Add, Combine

\* The row of a tag set, found or new, is a vector of MeasureData.
LEMMA RowForType ==
  ASSUME NEW delta, IsDelta(delta), NEW tags \in TagMaps
  PROVE  RowFor(delta, tags) \in Seq(Data)
<1>1. CASE tags \in DOMAIN delta.rows
  BY <1>1 DEF RowFor, IsDelta
<1>2. CASE tags \notin DOMAIN delta.rows
  <2>1. [i \in 1 .. Len(delta.registered_boundaries) |-> NoData] \in Seq(Data)
    BY DataTypes DEF IsDelta
  <2> QED
    BY <1>2, <2>1 DEF RowFor
<1> QED
  BY <1>1, <1>2

\* Delta::Record keeps a Delta.
LEMMA DeltaRecordType ==
  ASSUME NEW delta, IsDelta(delta), NEW value \in Nat, NEW indexes,
         NEW tags \in TagMaps
  PROVE  IsDelta(DeltaRecord(delta, value, indexes, tags))
<1> DEFINE row == RowFor(delta, tags)
           new == [i \in DOMAIN row |->
                     IF i \in indexes THEN Add(row[i], value) ELSE row[i]]
<1>1. row \in Seq(Data)
  BY RowForType
<1>2. new \in Seq(Data)
  BY <1>1, DataTypes
<1> HIDE DEF new
<1>3. DeltaRecord(delta, value, indexes, tags) =
        [registered_boundaries |-> delta.registered_boundaries,
         rows |-> [other \in DOMAIN delta.rows \cup {tags} |->
                     IF other = tags THEN new ELSE delta.rows[other]]]
  BY DEF DeltaRecord, new
<1> QED
  BY <1>2, <1>3 DEF IsDelta

\* What a delta has for a measure and a tag set is a MeasureData.
LEMMA DataForType ==
  ASSUME NEW delta, IsDelta(delta), NEW tags, NEW i
  PROVE  DataFor(delta, tags, i) \in Data
  BY DataTypes DEF DataFor, IsDelta

\* AddMeasure makes registered_boundaries_ one longer; AddBoundaries and Flush
\* keep its length.
LEMMA NewBoundariesType ==
  ASSUME DataTypeOK, ProgramInv, NEW t \in AllThreads
  PROVE  /\ NewBoundaries(t) \in Seq(SUBSET Boundaries)
         /\ op[t] # "AddMeasure" => Len(NewBoundaries(t)) = Len(registered_boundaries_)
         /\ op[t] = "AddMeasure" => Len(NewBoundaries(t)) = Len(registered_boundaries_) + 1
<1> USE DEF DataTypeOK
<1>0. registered_boundaries_ \in Seq(SUBSET Boundaries)
  OBVIOUS
<1>1. CASE op[t] = "AddMeasure"
  BY <1>1 DEF NewBoundaries
<1>2. CASE op[t] = "AddBoundaries"
  <2>1. descriptor_[t].aggregation \in Boundaries
    BY <1>2 DEF ProgramInv, CallsTyped
  <2>2. NewBoundaries(t) =
          [registered_boundaries_ EXCEPT ![descriptor_[t].measure] =
             @ \cup {descriptor_[t].aggregation}]
    BY <1>2 DEF NewBoundaries
  <2> DEFINE i == descriptor_[t].measure
             e == registered_boundaries_[i] \cup {descriptor_[t].aggregation}
  <2>3. i \in DOMAIN registered_boundaries_ => e \in SUBSET Boundaries
    BY <2>1
  <2>4. NewBoundaries(t) = [registered_boundaries_ EXCEPT ![i] = e]
    BY <2>2
  <2> HIDE DEF e, i, DataTypeOK
  <2>5. /\ NewBoundaries(t) \in Seq(SUBSET Boundaries)
        /\ Len(NewBoundaries(t)) = Len(registered_boundaries_)
    BY <1>0, <2>3, <2>4, UpdateSeq
  <2> QED
    BY <1>2, <2>5
<1>3. CASE op[t] \notin {"AddMeasure", "AddBoundaries"}
  BY <1>3 DEF NewBoundaries
<1> QED
  BY <1>1, <1>2, <1>3

\* Clearing and resetting leave a Delta without rows.
LEMMA EmptyDeltaType ==
  /\ IsDelta(EmptyDelta)
  /\ DOMAIN EmptyDelta.rows = {}
  /\ \A b \in Seq(SUBSET Boundaries) :
       /\ IsDelta(ResetDelta(b))
       /\ DOMAIN ResetDelta(b).rows = {}
       /\ ResetDelta(b).registered_boundaries = b
  BY DEF EmptyDelta, ResetDelta, IsDelta

----------------------------------------------------------------------------
\* The deltas and their configuration.

DeltaInv == DataTypeOK /\ LastDeltaConsumed /\ DeltaConfiguration

\* The deltas start empty, with no boundaries.
LEMMA DeltaInit == Init => DeltaInv
  BY EmptyDeltaType
  DEF Init, DeltaInv, DataTypeOK, LastDeltaConsumed, DeltaConfiguration, EmptyDelta

\* Every step keeps the deltas well formed, and a thread that finds harvester_mu_
\* free finds last_delta_ empty.
LEMMA DeltaStep ==
  ControlTypeOK /\ MutexOwners /\ ProgramInv /\ DeltaInv /\ [Next]_vars => DeltaInv'
<1> SUFFICES ASSUME ControlTypeOK, MutexOwners, ProgramInv, DeltaInv, [Next]_vars
             PROVE  DeltaInv'
  OBVIOUS
<1> USE DEF DeltaInv
<1>0. measures_' \in Seq(SUBSET Handles)
  BY MeasuresSteps DEF DataTypeOK
<1>1. CASE UNCHANGED <<producer, delivered, log, harvester_mu_>>
  BY <1>0, <1>1
  DEF producer, DataTypeOK, IsDelta, LastDeltaConsumed, DeltaConfiguration
<1>2. ASSUME NEW t \in Threads, NEW ms \in MeasurementLists, NEW tags \in TagMaps,
             Record(t, ms, tags)
      PROVE  DeltaInv'
  <2> DEFINE indexes == {m.index : m \in ms}
             n == Len(log) + 1
  <2>1. /\ active_delta_' = DeltaRecord(active_delta_, n, indexes, tags)
        /\ UNCHANGED <<registered_boundaries_, last_delta_, harvester_mu_, delivered>>
    BY <1>2 DEF Record, manager, locks
  <2>2. n \in Nat
    BY DEF ProgramInv, ProgramTypeOK
  <2> HIDE DEF n, indexes
  <2>3. IsDelta(active_delta_')
    BY <2>1, <2>2, DeltaRecordType DEF DataTypeOK
  <2>4. DataTypeOK'
    BY <1>0, <2>1, <2>3 DEF DataTypeOK, IsDelta
  <2>5. /\ active_delta_'.registered_boundaries = registered_boundaries_
        /\ DOMAIN active_delta_'.rows = DOMAIN active_delta_.rows \cup {tags}
        /\ DOMAIN active_delta_'.rows[tags] = DOMAIN RowFor(active_delta_, tags)
        /\ \A other \in DOMAIN active_delta_.rows \ {tags} :
             active_delta_'.rows[other] = active_delta_.rows[other]
    BY <2>1 DEF DeltaRecord, DeltaConfiguration
  <2>6. DOMAIN RowFor(active_delta_, tags) = DOMAIN registered_boundaries_
    BY DEF RowFor, DeltaConfiguration, DataTypeOK
  <2>7. DeltaConfiguration'
    BY <2>1, <2>5, <2>6 DEF DeltaConfiguration
  <2>8. LastDeltaConsumed'
    BY <2>1 DEF LastDeltaConsumed
  <2> QED
    BY <2>4, <2>7, <2>8
<1>3. ASSUME NEW t \in AllThreads, ManagerAddMeasure(t)
      PROVE  DeltaInv'
  <2>1. /\ delivered' = [tags \in TagMaps |-> Append(delivered[tags], NoData)]
        /\ UNCHANGED <<producer, harvester_mu_>>
    BY <1>3 DEF ManagerAddMeasure
  <2>2. delivered' \in [TagMaps -> Seq(Data)]
    BY <2>1, DataTypes DEF DataTypeOK
  <2> QED
    BY <1>0, <2>1, <2>2
    DEF producer, DataTypeOK, IsDelta, LastDeltaConsumed, DeltaConfiguration
<1>4. ASSUME NEW t \in AllThreads, SwapDeltas(t)
      PROVE  DeltaInv'
  <2>1. /\ registered_boundaries_' = NewBoundaries(t)
        /\ last_delta_' = active_delta_
        /\ active_delta_' = ResetDelta(NewBoundaries(t))
        /\ harvester_mu_' = t
        /\ UNCHANGED delivered
    BY <1>4 DEF SwapDeltas, SwapTo, manager
  <2>2. t # Free
    BY ThreadsAssumption DEF AllThreads
  <2>3. DataTypeOK'
    BY <1>0, <2>1, NewBoundariesType, EmptyDeltaType DEF DataTypeOK, IsDelta
  <2>4. DeltaConfiguration'
    BY <2>1, NewBoundariesType, EmptyDeltaType DEF DeltaConfiguration
  <2> QED
    BY <2>1, <2>2, <2>3, <2>4 DEF LastDeltaConsumed
<1>5. ASSUME NEW t \in AllThreads, MergeDelta(t)
      PROVE  DeltaInv'
  <2>1. /\ UNCHANGED <<producer, harvester_mu_>>
        /\ delivered' = [tags \in TagMaps |->
             [i \in DOMAIN delivered[tags] |->
                LET new == DataFor(last_delta_, tags, i) IN
                IF new.count = 0 THEN delivered[tags][i]
                                 ELSE Combine(delivered[tags][i], new)]]
    BY <1>5 DEF MergeDelta
  <2>2. ASSUME NEW tags \in TagMaps
        PROVE  delivered'[tags] \in Seq(Data)
    <3>1. delivered[tags] \in Seq(Data)
      BY DEF DataTypeOK
    <3>2. \A i : DataFor(last_delta_, tags, i) \in Data
      BY DataForType DEF DataTypeOK
    <3> QED
      BY <2>1, <3>1, <3>2, DataTypes
  <2>3. delivered' \in [TagMaps -> Seq(Data)]
    BY <2>1, <2>2
  <2> QED
    BY <1>0, <2>1, <2>3
    DEF producer, DataTypeOK, IsDelta, LastDeltaConsumed, DeltaConfiguration
<1>6. ASSUME NEW t \in AllThreads, ClearLastDelta(t)
      PROVE  DeltaInv'
  <2>1. /\ last_delta_' = EmptyDelta
        /\ UNCHANGED <<registered_boundaries_, active_delta_, delivered>>
    BY <1>6 DEF ClearLastDelta, ConsumedTo, manager
  <2> QED
    BY <1>0, <2>1, EmptyDeltaType
    DEF DataTypeOK, IsDelta, LastDeltaConsumed, DeltaConfiguration
<1> QED
  BY <1>1, <1>2, <1>3, <1>4, <1>5, <1>6, DataSteps

----------------------------------------------------------------------------
\* Measures and the deltas: the StatsManager has a measure for every element of
\* registered_boundaries_ and one for every registration that is on its way.

MeasuresCounted ==
  /\ Len(measures_) = Len(registered_boundaries_) + Cardinality(AddingMeasures)
  /\ Len(last_delta_.registered_boundaries) <= Len(registered_boundaries_)

\* Finitely many registrations are on their way at any time.
LEMMA AddingFinite == IsFiniteSet(AddingMeasures) /\ Cardinality(AddingMeasures) \in Nat
<1>1. IsFiniteSet(AllThreads)
  BY ThreadsAssumption, FS_AddElement DEF AllThreads
<1> QED
  BY <1>1, FS_Subset, FS_CardinalityType DEF AddingMeasures

\* No measure is known at the start, to anyone.
LEMMA MeasuresInit == Init => MeasuresCounted
<1> SUFFICES ASSUME Init PROVE MeasuresCounted
  OBVIOUS
<1>1. AddingMeasures = {}
  BY DEF Init, AddingMeasures
<1> QED
  BY <1>1, FS_EmptySet DEF Init, MeasuresCounted, EmptyDelta

\* Every step keeps the numbers of measures in balance.
LEMMA MeasuresStep ==
  /\ ControlTypeOK /\ MutexOwners /\ ProgramInv /\ DeltaInv
  /\ MeasuresCounted /\ [Next]_vars
  => MeasuresCounted'
<1> SUFFICES ASSUME ControlTypeOK, MutexOwners, ProgramInv, DeltaInv,
                    MeasuresCounted, [Next]_vars
             PROVE  MeasuresCounted'
  OBVIOUS
<1> USE DEF MeasuresCounted
<1>0. /\ Len(measures_) \in Nat /\ Len(registered_boundaries_) \in Nat
      /\ Len(active_delta_.registered_boundaries) = Len(registered_boundaries_)
      /\ Len(last_delta_.registered_boundaries) \in Nat
  BY DEF DeltaInv, DataTypeOK, IsDelta, DeltaConfiguration
<1>1. ASSUME NEW t \in AllThreads, ManagerAddMeasure(t)
      PROVE  MeasuresCounted'
  <2>1. /\ AddingMeasures' = AddingMeasures \cup {t}
        /\ t \notin AddingMeasures
    BY <1>1 DEF ManagerAddMeasure, AddingMeasures, Goto, ControlTypeOK
  <2>2. Cardinality(AddingMeasures') = Cardinality(AddingMeasures) + 1
    BY <2>1, AddingFinite, FS_AddElement
  <2>3. /\ Len(measures_') = Len(measures_) + 1
        /\ UNCHANGED producer
    BY <1>1 DEF ManagerAddMeasure, DeltaInv, DataTypeOK
  <2> QED
    BY <1>0, <2>2, <2>3, AddingFinite DEF producer
<1>2. ASSUME NEW t \in AllThreads, SwapDeltas(t), op[t] = "AddMeasure"
      PROVE  MeasuresCounted'
  <2>1. /\ AddingMeasures' = AddingMeasures \ {t}
        /\ t \in AddingMeasures
    BY <1>2 DEF SwapDeltas, SwapTo, AddingMeasures, Goto, ControlTypeOK
  <2>2. Cardinality(AddingMeasures') = Cardinality(AddingMeasures) - 1
    BY <2>1, AddingFinite, FS_RemoveElement
  <2>3. /\ registered_boundaries_' = NewBoundaries(t)
        /\ last_delta_' = active_delta_
        /\ measures_' = measures_
    BY <1>2 DEF SwapDeltas, SwapTo, manager
  <2>4. Len(NewBoundaries(t)) = Len(registered_boundaries_) + 1
    BY <1>2, NewBoundariesType DEF DeltaInv
  <2> QED
    BY <1>0, <2>2, <2>3, <2>4, AddingFinite
<1>3. ASSUME NEW t \in AllThreads, SwapDeltas(t), op[t] # "AddMeasure"
      PROVE  MeasuresCounted'
  <2>1. AddingMeasures' = AddingMeasures
    BY <1>3 DEF SwapDeltas, SwapTo, AddingMeasures, Goto, ControlTypeOK
  <2>2. /\ registered_boundaries_' = NewBoundaries(t)
        /\ last_delta_' = active_delta_
        /\ measures_' = measures_
    BY <1>3 DEF SwapDeltas, SwapTo, manager
  <2>3. Len(NewBoundaries(t)) = Len(registered_boundaries_)
    BY <1>3, NewBoundariesType DEF DeltaInv
  <2> QED
    BY <1>0, <2>1, <2>2, <2>3, AddingFinite
<1> DEFINE Adding == \E t \in AllThreads : ManagerAddMeasure(t)
<1>4. ~Adding => Len(measures_') = Len(measures_)
  BY MeasuresSteps DEF DeltaInv, DataTypeOK
<1>5. ASSUME ~Adding, UNCHANGED producer, AddingMeasures' = AddingMeasures
      PROVE  MeasuresCounted'
  BY <1>0, <1>4, <1>5, AddingFinite DEF producer
<1>6. ASSUME ~Adding, NEW t \in Threads, NEW ms \in MeasurementLists,
             NEW tags \in TagMaps, Record(t, ms, tags)
      PROVE  MeasuresCounted'
  <2>1. AddingMeasures' = AddingMeasures
    BY <1>6 DEF Record, AddingMeasures
  <2>2. UNCHANGED <<registered_boundaries_, last_delta_>>
    BY <1>6 DEF Record
  <2> QED
    BY <1>0, <1>4, <1>6, <2>1, <2>2, AddingFinite
<1>7. ASSUME ~Adding, NEW t \in AllThreads, MergeDelta(t)
      PROVE  MeasuresCounted'
  <2>1. AddingMeasures' = AddingMeasures
    BY <1>7 DEF MergeDelta, AddingMeasures, Goto, ControlTypeOK
  <2>2. UNCHANGED producer
    BY <1>7 DEF MergeDelta
  <2> QED
    BY <1>5, <1>7, <2>1, <2>2
<1>8. ASSUME ~Adding, NEW t \in AllThreads, ClearLastDelta(t)
      PROVE  MeasuresCounted'
  <2>1. AddingMeasures' = AddingMeasures
    BY <1>8 DEF ClearLastDelta, ConsumedTo, AddingMeasures, Goto, ControlTypeOK
  <2>2. /\ UNCHANGED registered_boundaries_
        /\ last_delta_' = EmptyDelta
    BY <1>8 DEF ClearLastDelta, ConsumedTo
  <2>3. Len(last_delta_'.registered_boundaries) = 0
    BY <2>2 DEF EmptyDelta
  <2> QED
    BY <1>0, <1>4, <1>8, <2>1, <2>2, <2>3, AddingFinite
<1> QED
  BY <1>1, <1>2, <1>3, <1>5, <1>6, <1>7, <1>8, DataSteps DEF producer, Adding

----------------------------------------------------------------------------
\* The invariant, and what it implies.

Inv == /\ ControlTypeOK /\ MutexOwners /\ ProgramInv /\ DeltaInv
       /\ MeasuresCounted

\* Inv holds in every state of every behaviour.
THEOREM Invariance == Spec => []Inv
<1>1. Init => Inv
  BY ControlInit, ProgramInit, DeltaInit, MeasuresInit DEF Inv
<1>2. Inv /\ [Next]_vars => Inv'
  BY ControlStep, ProgramStep, DeltaStep, MeasuresStep DEF Inv
<1> QED
  BY <1>1, <1>2, PTL DEF Spec

\* Every variable keeps to its type.
THEOREM TypeCorrect == Spec => []TypeOK
<1>1. Inv => TypeOK
  BY DEF Inv, TypeOK, ProgramInv, DeltaInv
<1> QED
  BY <1>1, Invariance, PTL

\* Every mutex is held by the thread whose step says so, and by no other.
THEOREM MutualExclusion == Spec => []MutexOwners
<1>1. Inv => MutexOwners
  BY DEF Inv
<1> QED
  BY <1>1, Invariance, PTL

\* "Last delta was not consumed." (delta_producer.cc, SwapDeltas): the assertion
\* cannot fail, for any number of threads that flush, register and add views.
THEOREM LastDeltaIsConsumed == Spec => []LastDeltaConsumed
<1>1. Inv => LastDeltaConsumed
  BY DEF Inv, DeltaInv
<1> QED
  BY <1>1, Invariance, PTL

\* The comment on delta_mu_: Record() never meets an active delta with a
\* configuration other than registered_boundaries_, and a row always has one
\* MeasureData per measure of its delta.
THEOREM ConfigurationMatches == Spec => []DeltaConfiguration
<1>1. Inv => DeltaConfiguration
  BY DEF Inv, DeltaInv
<1> QED
  BY <1>1, Invariance, PTL

\* The comment in MergeDelta: no delta has a measure that the StatsManager does
\* not know, even when threads race to register measures.
THEOREM NoMeasureMissing == Spec => []DeltaWithinMeasures
<1>1. Inv => DeltaWithinMeasures
  <2> SUFFICES ASSUME Inv PROVE DeltaWithinMeasures
    OBVIOUS
  <2>1. /\ Len(registered_boundaries_) \in Nat
        /\ Len(last_delta_.registered_boundaries) \in Nat
        /\ active_delta_.registered_boundaries = registered_boundaries_
    BY DEF Inv, DeltaInv, DataTypeOK, IsDelta, DeltaConfiguration
  <2> QED
    BY <2>1, AddingFinite DEF Inv, MeasuresCounted, DeltaWithinMeasures
<1> QED
  BY <1>1, Invariance, PTL

----------------------------------------------------------------------------
\* Views and the threads that hold them.

\* The threads that own a View with this handle.
Consumers(h) == {t \in AllThreads : handle_[t] = h}

\* A record with the fields of a ViewInformation.
IsView(v) ==
  v = [descriptor |-> v.descriptor, num_consumers |-> v.num_consumers,
       data |-> v.data, underflow |-> v.underflow, since |-> v.since]

\* info maps addresses to ViewInformations, and every handle that a measure
\* lists has one.
ViewsTyped ==
  /\ info = [h \in DOMAIN info |-> info[h]]
  /\ DOMAIN info \subseteq Handles
  /\ \A h \in DOMAIN info : IsView(info[h])
  /\ \A i \in DOMAIN measures_ : measures_[i] \subseteq DOMAIN info

\* The parts of ConsumersCounted: a handle leads to the view that its View
\* describes, a view counts the threads that have it, is listed under its own
\* measure only, and is the only one with its descriptor.
HandlesLead ==
  \A t \in AllThreads : handle_[t] # Null =>
    /\ handle_[t] \in DOMAIN info
    /\ info[handle_[t]].descriptor = descriptor_[t]
CountsMatch ==
  \A h \in DOMAIN info : /\ info[h].num_consumers = Cardinality(Consumers(h))
                         /\ info[h].num_consumers > 0
Filed ==
  \A h \in DOMAIN info :
    /\ info[h].descriptor.measure \in DOMAIN measures_
    /\ \A i \in DOMAIN measures_ :
         h \in measures_[i] <=> i = info[h].descriptor.measure
Distinct ==
  \A g, h \in DOMAIN info : info[g].descriptor = info[h].descriptor => g = h

Counted == HandlesLead /\ CountsMatch /\ Filed /\ Distinct

\* A thread that adds a View has none yet, and one that removes a View has one.
HandlesHeld ==
  \A t \in AllThreads :
    /\ pc[t] \in {"add_consumer", "add_consumer_locked"} \/ op[t] = "AddBoundaries"
         => handle_[t] = Null
    /\ pc[t] \in {"remove_consumer", "remove_consumer_locked"}
         => handle_[t] # Null

ViewsInv == ViewsTyped /\ HandlesHeld /\ Counted

\* At the start there is no view.
LEMMA ViewsInit == Init => ViewsInv
  BY DEF Init, ViewsInv, ViewsTyped, HandlesHeld, Counted, HandlesLead,
     CountsMatch, Filed, Distinct, AllThreads

\* The parts make up the whole.
LEMMA CountedParts == Counted => ConsumersCounted
<1> SUFFICES ASSUME Counted PROVE ConsumersCounted
  OBVIOUS
<1>1. \A t \in AllThreads : handle_[t] # Null =>
        /\ handle_[t] \in DOMAIN info
        /\ info[handle_[t]].descriptor = descriptor_[t]
  BY DEF Counted, HandlesLead
<1>2. \A h \in DOMAIN info :
        /\ info[h].num_consumers = Cardinality({t \in AllThreads : handle_[t] = h})
        /\ info[h].num_consumers > 0
  BY Zenon DEF Counted, CountsMatch, Consumers
<1>3. \A h \in DOMAIN info :
        {i \in DOMAIN measures_ : h \in measures_[i]} = {info[h].descriptor.measure}
  BY DEF Counted, Filed
<1>4. \A g, h \in DOMAIN info : info[g].descriptor = info[h].descriptor => g = h
  BY DEF Counted, Distinct
<1> QED
  BY <1>1, <1>2, <1>3, <1>4, Zenon DEF ConsumersCounted

\* Any set of threads is finite.
LEMMA ConsumersFinite ==
  ASSUME NEW S \in SUBSET AllThreads
  PROVE  IsFiniteSet(S) /\ Cardinality(S) \in Nat
<1>1. IsFiniteSet(AllThreads)
  BY ThreadsAssumption, FS_AddElement DEF AllThreads
<1> QED
  BY <1>1, FS_Subset, FS_CardinalityType

\* A new count leaves the rest of a ViewInformation as it was.
LEMMA CountSet ==
  ASSUME NEW v, IsView(v), NEW n
  PROVE  LET w == [v EXCEPT !.num_consumers = n] IN
         /\ IsView(w) /\ w.num_consumers = n /\ w.descriptor = v.descriptor
         /\ w.data = v.data /\ w.since = v.since
<1> DEFINE a == v.descriptor
           b == v.num_consumers
           c == v.data
           d == v.underflow
           e == v.since
           r == [descriptor |-> a, num_consumers |-> b, data |-> c,
                 underflow |-> d, since |-> e]
<1>1. v = r
  BY DEF IsView
<1> HIDE DEF a, b, c, d, e
<1>2. [r EXCEPT !.num_consumers = n] =
        [descriptor |-> a, num_consumers |-> n, data |-> c, underflow |-> d,
         since |-> e]
  OBVIOUS
<1> QED
  BY <1>1, <1>2 DEF IsView, a, c, e

\* New data leaves the rest of a ViewInformation as it was.
WithData(v, x, y) == [v EXCEPT !.data = x, !.underflow = y]

LEMMA DataSet ==
  ASSUME NEW v, IsView(v), NEW x, NEW y
  PROVE  /\ IsView(WithData(v, x, y))
         /\ WithData(v, x, y).num_consumers = v.num_consumers
         /\ WithData(v, x, y).descriptor = v.descriptor
         /\ WithData(v, x, y).data = x /\ WithData(v, x, y).since = v.since
<1> DEFINE a == v.descriptor
           b == v.num_consumers
           c == v.data
           d == v.underflow
           e == v.since
           r == [descriptor |-> a, num_consumers |-> b, data |-> c,
                 underflow |-> d, since |-> e]
<1>1. v = r
  BY DEF IsView
<1> HIDE DEF a, b, c, d, e
<1> DEFINE r1 == [descriptor |-> a, num_consumers |-> b, data |-> x,
                  underflow |-> d, since |-> e]
           r2 == [descriptor |-> a, num_consumers |-> b, data |-> x,
                  underflow |-> y, since |-> e]
<1>2. [r EXCEPT !.data = x] = r1 /\ [r1 EXCEPT !.underflow = y] = r2
  OBVIOUS
<1>3. [r EXCEPT !.data = x, !.underflow = y] =
        [[r EXCEPT !.data = x] EXCEPT !.underflow = y]
  OBVIOUS
<1> QED
  BY <1>1, <1>2, <1>3 DEF IsView, WithData, a, b, e

\* The types that the steps below use.
LEMMA ViewTypes ==
  ASSUME Inv
  PROVE  /\ handle_ \in [AllThreads -> Handles \cup {Null}]
         /\ descriptor_ \in [AllThreads -> Descriptor \cup {Null}]
         /\ measures_ \in Seq(SUBSET Handles)
         /\ Null \notin Handles
  BY ParametersAssumption
  DEF Inv, ProgramInv, ProgramTypeOK, DeltaInv, DataTypeOK

\* Sharing a view adds the thread to its consumers.
LEMMA ShareKeeps ==
  ASSUME Inv, ViewsInv, NEW t \in AllThreads, NEW h \in Handles, ShareView(t, h)
  PROVE  ViewsTyped' /\ Counted'
<1>1. /\ pc[t] = "add_consumer_locked"
      /\ h \in measures_[descriptor_[t].measure]
      /\ descriptor_[t].measure \in DOMAIN measures_
      /\ info[h].descriptor = descriptor_[t]
      /\ info' = [info EXCEPT ![h] =
                    [@ EXCEPT !.num_consumers = info[h].num_consumers + 1]]
      /\ handle_' = [handle_ EXCEPT ![t] = h]
      /\ measures_' = measures_ /\ descriptor_' = descriptor_
  BY DEF ShareView, ShareWith, Goto, Matching
<1>2. h \in DOMAIN info /\ h # Null /\ handle_[t] = Null
  BY <1>1, ViewTypes DEF ViewsInv, ViewsTyped, HandlesHeld
<1>3. /\ DOMAIN info' = DOMAIN info
      /\ info' = [g \in DOMAIN info' |-> info'[g]]
      /\ \A g \in DOMAIN info : g # h => info'[g] = info[g]
      /\ info'[h] = [info[h] EXCEPT !.num_consumers = info[h].num_consumers + 1]
  BY <1>1, <1>2
<1>4. /\ IsView(info'[h])
      /\ info'[h].descriptor = info[h].descriptor
      /\ info'[h].num_consumers = info[h].num_consumers + 1
  BY <1>2, <1>3, CountSet DEF ViewsInv, ViewsTyped
<1>5. ViewsTyped'
  BY <1>1, <1>3, <1>4 DEF ViewsInv, ViewsTyped
<1>6. /\ \A g \in DOMAIN info : g # h => Consumers(g)' = Consumers(g)
      /\ Consumers(h)' = Consumers(h) \cup {t}
      /\ t \notin Consumers(h) /\ Consumers(h) \in SUBSET AllThreads
  <2>1. \A u \in AllThreads : handle_'[u] = IF u = t THEN h ELSE handle_[u]
    BY <1>1, ViewTypes
  <2>2. h # handle_[t]
    BY <1>2
  <2>3. \A g \in DOMAIN info : g # handle_[t]
    BY <1>2, ViewTypes DEF ViewsInv, ViewsTyped
  <2> QED
    BY <2>1, <2>2, <2>3 DEF Consumers
<1>7. CountsMatch'
  <2>1. Cardinality(Consumers(h)') = Cardinality(Consumers(h)) + 1
    BY <1>6, ConsumersFinite, FS_AddElement
  <2>2. Cardinality(Consumers(h)) \in Nat
    BY <1>6, ConsumersFinite
  <2>3. ASSUME NEW g \in DOMAIN info', g # h
        PROVE  /\ info'[g].num_consumers = Cardinality(Consumers(g)')
               /\ info'[g].num_consumers > 0
    BY <1>3, <1>6, <2>3 DEF ViewsInv, Counted, CountsMatch
  <2>4. /\ info'[h].num_consumers = Cardinality(Consumers(h)')
        /\ info'[h].num_consumers > 0
    BY <1>2, <1>4, <2>1, <2>2 DEF ViewsInv, Counted, CountsMatch
  <2> QED
    BY <2>3, <2>4 DEF CountsMatch
<1>8. HandlesLead'
  BY <1>1, <1>2, <1>3, <1>4, ViewTypes DEF ViewsInv, Counted, HandlesLead
<1>9. Filed'
  BY <1>1, <1>3, <1>4 DEF ViewsInv, Counted, Filed
<1>10. Distinct'
  <2>1. \A g \in DOMAIN info : info'[g].descriptor = info[g].descriptor
    BY <1>3, <1>4
  <2> QED
    BY <1>3, <2>1 DEF ViewsInv, Counted, Distinct
<1> QED
  BY <1>5, <1>7, <1>8, <1>9, <1>10 DEF Counted

\* A new view has the thread that made it as its consumer, and no other.
LEMMA CreateKeeps ==
  ASSUME Inv, ViewsInv, NEW t \in AllThreads, NEW h \in Handles, CreateView(t, h)
  PROVE  ViewsTyped' /\ Counted'
<1> DEFINE d == descriptor_[t]
<1>1. /\ pc[t] = "add_consumer_locked"
      /\ h \notin DOMAIN info
      /\ d.measure \in DOMAIN measures_
      /\ Matching(d) = {}
      /\ info' = [k \in DOMAIN info \cup {h} |->
                    IF k = h THEN NewView(d) ELSE info[k]]
      /\ measures_' = [measures_ EXCEPT ![d.measure] = @ \cup {h}]
      /\ handle_' = [handle_ EXCEPT ![t] = h]
      /\ descriptor_' = descriptor_
  BY DEF CreateView, Goto
<1>2. h # Null /\ handle_[t] = Null
  BY <1>1, ViewTypes DEF ViewsInv, HandlesHeld
<1>3. /\ DOMAIN info' = DOMAIN info \cup {h}
      /\ info' = [k \in DOMAIN info' |-> info'[k]]
      /\ \A g \in DOMAIN info : g # h /\ info'[g] = info[g]
      /\ info'[h] = NewView(d)
  BY <1>1
<1>4. /\ IsView(NewView(d))
      /\ NewView(d).descriptor = d /\ NewView(d).num_consumers = 1
  BY DEF NewView, IsView
<1>5. /\ DOMAIN measures_' = DOMAIN measures_
      /\ measures_'[d.measure] = measures_[d.measure] \cup {h}
      /\ \A i \in DOMAIN measures_ : i # d.measure => measures_'[i] = measures_[i]
  BY <1>1, ViewTypes
<1>6. ViewsTyped'
  BY <1>3, <1>4, <1>5 DEF ViewsInv, ViewsTyped
<1>7. /\ Consumers(h)' = {t}
      /\ \A g \in DOMAIN info : Consumers(g)' = Consumers(g)
  <2>1. \A u \in AllThreads : handle_[u] # h
    BY <1>1, <1>2 DEF ViewsInv, Counted, HandlesLead
  <2>2. \A g \in DOMAIN info : g # Null
    BY ViewTypes DEF ViewsInv, ViewsTyped
  <2> QED
    BY <1>1, <1>2, <1>3, <2>1, <2>2, ViewTypes DEF Consumers
<1>8. CountsMatch'
  <2>1. Cardinality(Consumers(h)') = 1
    BY <1>7, FS_Singleton
  <2>2. ASSUME NEW g \in DOMAIN info
        PROVE  /\ info'[g].num_consumers = Cardinality(Consumers(g)')
               /\ info'[g].num_consumers > 0
    BY <1>3, <1>7 DEF ViewsInv, Counted, CountsMatch
  <2>3. /\ info'[h].num_consumers = Cardinality(Consumers(h)')
        /\ info'[h].num_consumers > 0
    BY <1>3, <1>4, <2>1
  <2> QED
    BY <1>3, <2>2, <2>3 DEF CountsMatch
<1>9. HandlesLead'
  BY <1>1, <1>2, <1>3, <1>4, ViewTypes DEF ViewsInv, Counted, HandlesLead
<1>10. Filed'
  <2>1. \A i \in DOMAIN measures_ : h \notin measures_[i]
    BY <1>1 DEF ViewsInv, ViewsTyped
  <2> QED
    BY <1>1, <1>3, <1>4, <1>5, <2>1 DEF ViewsInv, Counted, Filed
<1>11. \A g \in DOMAIN info : info[g].descriptor # d
  <2> SUFFICES ASSUME NEW g \in DOMAIN info, info[g].descriptor = d
               PROVE  FALSE
    OBVIOUS
  <2>1. g \in measures_[d.measure]
    BY <1>1 DEF ViewsInv, Counted, Filed
  <2> QED
    BY <1>1, <2>1 DEF Matching
<1>12. Distinct'
  BY <1>3, <1>4, <1>11 DEF ViewsInv, Counted, Distinct
<1> QED
  BY <1>6, <1>8, <1>9, <1>10, <1>12 DEF Counted

\* Removing a View takes one consumer away, and the view goes with the last.
LEMMA RemoveKeeps ==
  ASSUME Inv, ViewsInv, NEW t \in AllThreads, NEW h, h = handle_[t],
         RemoveConsumer(t)
  PROVE  ViewsTyped' /\ Counted'
<1> DEFINE m == info[h].descriptor.measure
<1>1. /\ pc[t] = "remove_consumer_locked"
      /\ handle_' = [handle_ EXCEPT ![t] = Null]
      /\ descriptor_' = [descriptor_ EXCEPT ![t] = Null]
  BY DEF RemoveConsumer, Goto
<1>2. h # Null /\ h \in DOMAIN info /\ m \in DOMAIN measures_
  BY <1>1 DEF ViewsInv, HandlesHeld, Counted, HandlesLead, Filed
<1>3. /\ \A g \in DOMAIN info : g # h => Consumers(g)' = Consumers(g)
      /\ Consumers(h)' = Consumers(h) \ {t}
      /\ t \in Consumers(h) /\ Consumers(h) \in SUBSET AllThreads
  <2>1. \A g \in DOMAIN info : g # Null
    BY ViewTypes DEF ViewsInv, ViewsTyped
  <2> QED
    <3>1. \A u \in AllThreads : handle_'[u] = IF u = t THEN Null ELSE handle_[u]
      BY <1>1, ViewTypes
    <3>2. \A g \in DOMAIN info : g # h => Consumers(g)' = Consumers(g)
      BY <2>1, <3>1 DEF Consumers
    <3>3. Consumers(h)' = Consumers(h) \ {t}
      BY <1>2, <3>1 DEF Consumers
    <3> QED
      BY <3>2, <3>3 DEF Consumers
<1>4. /\ info[h].num_consumers = Cardinality(Consumers(h))
      /\ info[h].num_consumers \in Nat /\ info[h].num_consumers > 0
      /\ Cardinality(Consumers(h)') = info[h].num_consumers - 1
  <2>1. Cardinality(Consumers(h)) \in Nat
    BY <1>3, ConsumersFinite
  <2>2. Cardinality(Consumers(h) \ {t}) = Cardinality(Consumers(h)) - 1
    BY <1>3, ConsumersFinite, FS_RemoveElement
  <2> QED
    BY <1>2, <1>3, <2>1, <2>2 DEF ViewsInv, Counted, CountsMatch
<1>5. ASSUME NEW u \in AllThreads, handle_'[u] # Null
      PROVE  /\ u # t /\ handle_'[u] = handle_[u] /\ descriptor_'[u] = descriptor_[u]
             /\ handle_[u] \in DOMAIN info
             /\ info[handle_[u]].descriptor = descriptor_[u]
  BY <1>1, <1>5, ViewTypes DEF ViewsInv, Counted, HandlesLead
<1>6. CASE info[h].num_consumers - 1 = 0
  <2>1. /\ measures_' = [measures_ EXCEPT ![m] = @ \ {h}]
        /\ info' = [k \in DOMAIN info \ {h} |-> info[k]]
    BY <1>6 DEF RemoveConsumer
  <2>2. /\ DOMAIN info' = DOMAIN info \ {h}
        /\ info' = [k \in DOMAIN info' |-> info'[k]]
        /\ \A g \in DOMAIN info' : g # h /\ info'[g] = info[g]
    BY <2>1
  <2>3. /\ DOMAIN measures_' = DOMAIN measures_
        /\ measures_'[m] = measures_[m] \ {h}
        /\ \A i \in DOMAIN measures_ : i # m => measures_'[i] = measures_[i]
    BY <1>2, <2>1, ViewTypes
  <2>4. \A i \in DOMAIN measures_ : h \in measures_[i] => i = m
    BY <1>2 DEF ViewsInv, Counted, Filed
  <2>5. ViewsTyped'
    <3>1. \A i \in DOMAIN measures_' : measures_'[i] \subseteq DOMAIN info'
      BY <2>2, <2>3, <2>4 DEF ViewsInv, ViewsTyped
    <3> QED
      BY <2>2, <3>1 DEF ViewsInv, ViewsTyped
  <2>6. Consumers(h)' = {}
    <3>1. Consumers(h)' \in SUBSET AllThreads
      BY <1>3
    <3>2. IsFiniteSet(Consumers(h)')
      BY <3>1, ConsumersFinite
    <3> QED
      BY <1>4, <1>6, <3>2, FS_EmptySet
  <2>7. HandlesLead'
    <3>1. ASSUME NEW u \in AllThreads, handle_'[u] # Null
          PROVE  handle_'[u] # h
      BY <1>3, <1>5, <2>6, <3>1 DEF Consumers
    <3> QED
      BY <1>5, <2>2, <3>1 DEF HandlesLead
  <2>8. CountsMatch'
    BY <1>3, <2>2 DEF ViewsInv, Counted, CountsMatch
  <2>9. Filed'
    BY <2>2, <2>3 DEF ViewsInv, Counted, Filed
  <2>10. Distinct'
    BY <2>2 DEF ViewsInv, Counted, Distinct
  <2> QED
    BY <2>5, <2>7, <2>8, <2>9, <2>10 DEF Counted
<1>7. CASE info[h].num_consumers - 1 # 0
  <2>1. /\ measures_' = measures_
        /\ info' = [info EXCEPT ![h] =
                      [@ EXCEPT !.num_consumers = info[h].num_consumers - 1]]
    BY <1>7 DEF RemoveConsumer
  <2>2. /\ DOMAIN info' = DOMAIN info
        /\ info' = [g \in DOMAIN info' |-> info'[g]]
        /\ \A g \in DOMAIN info : g # h => info'[g] = info[g]
        /\ info'[h] = [info[h] EXCEPT !.num_consumers = info[h].num_consumers - 1]
    BY <1>2, <2>1
  <2>3. /\ IsView(info'[h])
        /\ info'[h].descriptor = info[h].descriptor
        /\ info'[h].num_consumers = info[h].num_consumers - 1
    BY <1>2, <2>2, CountSet DEF ViewsInv, ViewsTyped
  <2>4. ViewsTyped'
    BY <2>1, <2>2, <2>3 DEF ViewsInv, ViewsTyped
  <2>5. HandlesLead'
    <3>1. \A g \in DOMAIN info : info'[g].descriptor = info[g].descriptor
      BY <2>2, <2>3
    <3> QED
      BY <1>5, <2>2, <3>1 DEF HandlesLead
  <2>6. CountsMatch'
    <3>1. ASSUME NEW g \in DOMAIN info', g # h
          PROVE  /\ info'[g].num_consumers = Cardinality(Consumers(g)')
                 /\ info'[g].num_consumers > 0
      BY <1>3, <2>2, <3>1 DEF ViewsInv, Counted, CountsMatch
    <3>2. /\ info'[h].num_consumers = Cardinality(Consumers(h)')
          /\ info'[h].num_consumers > 0
      BY <1>4, <1>7, <2>3
    <3> QED
      BY <3>1, <3>2 DEF CountsMatch
  <2>7. Filed'
    BY <2>1, <2>2, <2>3 DEF ViewsInv, Counted, Filed
  <2>8. Distinct'
    <3>1. \A g \in DOMAIN info : info'[g].descriptor = info[g].descriptor
      BY <2>2, <2>3
    <3> QED
      BY <2>2, <3>1 DEF ViewsInv, Counted, Distinct
  <2> QED
    BY <2>4, <2>5, <2>6, <2>7, <2>8 DEF Counted
<1> QED
  BY <1>6, <1>7

\* A merge changes the data of the views, not whose they are.
LEMMA MergeKeeps ==
  ASSUME ViewsInv, NEW t \in AllThreads, MergeDelta(t)
  PROVE  ViewsTyped' /\ Counted'
<1>1. PICK order \in SetToSeqs(DOMAIN last_delta_.rows) :
        info' = [h \in DOMAIN info |-> MergedView(info[h], last_delta_, order)]
  BY DEF MergeDelta
<1>2. measures_' = measures_ /\ handle_' = handle_ /\ descriptor_' = descriptor_
  BY DEF MergeDelta, view
<1>3. ASSUME NEW h \in DOMAIN info
      PROVE  LET v == MergedView(info[h], last_delta_, order) IN
             /\ IsView(v) /\ v.num_consumers = info[h].num_consumers
             /\ v.descriptor = info[h].descriptor
  <2>1. IsView(info[h])
    BY DEF ViewsInv, ViewsTyped
  <2>2. PICK x, y : MergedView(info[h], last_delta_, order) =
                      WithData(info[h], x, y)
    BY Zenon DEF MergedView, WithData
  <2> QED
    BY <2>1, <2>2, DataSet
<1>4. /\ DOMAIN info' = DOMAIN info
      /\ info' = [h \in DOMAIN info' |-> info'[h]]
      /\ \A h \in DOMAIN info : /\ IsView(info'[h])
                                /\ info'[h].descriptor = info[h].descriptor
                                /\ info'[h].num_consumers = info[h].num_consumers
  BY <1>1, <1>3
<1>5. \A h : Consumers(h)' = Consumers(h)
  BY <1>2 DEF Consumers
<1>6. ViewsTyped'
  BY <1>2, <1>4 DEF ViewsInv, ViewsTyped
<1>7. HandlesLead' /\ Filed' /\ Distinct'
  BY <1>2, <1>4 DEF ViewsInv, Counted, HandlesLead, Filed, Distinct
<1>8. CountsMatch'
  BY <1>4, <1>5 DEF ViewsInv, Counted, CountsMatch
<1> QED
  BY <1>6, <1>7, <1>8 DEF Counted

\* A new measure has no views.
LEMMA NewMeasureKeeps ==
  ASSUME Inv, ViewsInv, NEW t \in AllThreads, ManagerAddMeasure(t)
  PROVE  ViewsTyped' /\ Counted'
<1>1. /\ measures_' = Append(measures_, {})
      /\ info' = info /\ handle_' = handle_ /\ descriptor_' = descriptor_
  BY DEF ManagerAddMeasure, view
<1>2. /\ DOMAIN measures_ \subseteq DOMAIN measures_'
      /\ \A i \in DOMAIN measures_ : measures_'[i] = measures_[i]
      /\ \A i \in DOMAIN measures_' : i \notin DOMAIN measures_ => measures_'[i] = {}
  BY <1>1, ViewTypes
<1>3. ViewsTyped'
  BY <1>1, <1>2 DEF ViewsInv, ViewsTyped
<1>4. HandlesLead' /\ Filed' /\ Distinct'
  BY <1>1, <1>2 DEF ViewsInv, Counted, HandlesLead, Filed, Distinct
<1>5. \A h : Consumers(h)' = Consumers(h)
  BY <1>1 DEF Consumers
<1>6. CountsMatch'
  BY <1>1, <1>5 DEF ViewsInv, Counted, CountsMatch
<1> QED
  BY <1>3, <1>4, <1>6 DEF Counted

\* A thread comes to its next step with a handle if and only if that step
\* needs one.
LEMMA HeldStep == Inv /\ ViewsInv /\ [Next]_vars => HandlesHeld'
<1> SUFFICES ASSUME Inv, ViewsInv, [Next]_vars
             PROVE  HandlesHeld'
  OBVIOUS
<1> USE DEF ViewsInv, HandlesHeld, Goto, Fail, view, AllThreads
<1>1. /\ pc \in [AllThreads -> Steps]
      /\ op \in [AllThreads -> {"none", "AddMeasure", "AddBoundaries", "Flush"}]
      /\ handle_ \in [AllThreads -> Handles \cup {Null}]
      /\ Null \notin Handles
      /\ CallsTyped
  BY ParametersAssumption DEF Inv, ControlTypeOK, ProgramInv, ProgramTypeOK
<1> USE <1>1 DEF CallsTyped
<1>2. ASSUME NEW t \in Threads, NEW name \in Names,
             RegisterImpl(t, name) \/ GetMeasureByName(t, name)
      PROVE  HandlesHeld'
  BY <1>2 DEF RegisterImpl, GetMeasureByName
<1>3. ASSUME NEW t \in Threads, RegisterFails(t) \/ RemoveView(t)
      PROVE  HandlesHeld'
  BY <1>3 DEF RegisterFails, RemoveView
<1>4. ASSUME NEW t \in Threads, NEW ms \in MeasurementLists, NEW tags \in TagMaps,
             Record(t, ms, tags) \/ RecordFails(t, ms, tags)
      PROVE  HandlesHeld'
  BY <1>4 DEF Record, RecordFails
<1>5. ASSUME NEW t \in Threads, NEW d, AddView(t, d)
      PROVE  HandlesHeld'
  BY <1>5 DEF AddView, BeginView
<1>6. ASSUME NEW t \in AllThreads, Flush(t)
      PROVE  HandlesHeld'
  BY <1>6 DEF Flush
<1>7. ASSUME NEW t \in AllThreads, LockMu(t)
      PROVE  HandlesHeld'
  BY <1>7 DEF LockMu
<1>8. ASSUME NEW t \in AllThreads,
             ManagerAddMeasure(t) \/ ManagerAddMeasureFails(t)
      PROVE  HandlesHeld'
  BY <1>8 DEF ManagerAddMeasure, ManagerAddMeasureFails
<1>9. ASSUME NEW t \in AllThreads,
             LockDelta(t) \/ BoundariesFound(t) \/ AddBoundariesFails(t)
      PROVE  HandlesHeld'
  BY <1>9 DEF LockDelta, BoundariesFound, AddBoundariesFails
<1>10. ASSUME NEW t \in AllThreads, SwapDeltas(t)
       PROVE  HandlesHeld'
  BY <1>10 DEF SwapDeltas, SwapTo
<1>11. ASSUME NEW t \in AllThreads, MergeDelta(t) \/ MergeDeltaFails(t)
       PROVE  HandlesHeld'
  BY <1>11 DEF MergeDelta, MergeDeltaFails
<1>12. ASSUME NEW t \in AllThreads, ClearLastDelta(t)
       PROVE  HandlesHeld'
  BY <1>12 DEF ClearLastDelta, ConsumedTo
<1>13. ASSUME NEW t \in AllThreads, NEW h \in Handles,
              ShareView(t, h) \/ CreateView(t, h)
       PROVE  HandlesHeld'
  BY <1>13 DEF ShareView, ShareWith, CreateView
<1>14. ASSUME NEW t \in AllThreads, AddConsumerFails(t) \/ RemoveConsumer(t)
       PROVE  HandlesHeld'
  BY <1>14 DEF AddConsumerFails, RemoveConsumer
<1>15. CASE UNCHANGED vars
  BY <1>15 DEF vars
<1> QED
  BY <1>2, <1>3, <1>4, <1>5, <1>6, <1>7, <1>8, <1>9, <1>10, <1>11, <1>12,
     <1>13, <1>14, <1>15, ThreadsAssumption DEF Next, Call, Continue

\* Only five actions touch views, measures or handles; AddView sets the
\* descriptor of a thread that has no handle.
LEMMA CountedStep ==
  Inv /\ ViewsInv /\ [Next]_vars => ViewsTyped' /\ Counted'
<1> SUFFICES ASSUME Inv, ViewsInv, [Next]_vars
             PROVE  ViewsTyped' /\ Counted'
  OBVIOUS
<1>1. ASSUME UNCHANGED <<info, measures_, handle_, descriptor_>>
      PROVE  ViewsTyped' /\ Counted'
  <2>1. \A h : Consumers(h)' = Consumers(h)
    BY <1>1 DEF Consumers
  <2>2. CountsMatch'
    BY <1>1, <2>1 DEF ViewsInv, Counted, CountsMatch
  <2> QED
    BY <1>1, <2>2 DEF ViewsInv, ViewsTyped, Counted, HandlesLead, Filed, Distinct
<1>2. ASSUME NEW t \in Threads, NEW d, AddView(t, d)
      PROVE  ViewsTyped' /\ Counted'
  <2>1. /\ UNCHANGED <<info, measures_, handle_>>
        /\ handle_[t] = Null
        /\ \A u \in AllThreads : handle_[u] # Null => descriptor_'[u] = descriptor_[u]
    <3>1. descriptor_ \in [AllThreads -> Descriptor \cup {Null}]
      BY DEF Inv, ProgramInv, ProgramTypeOK
    <3> QED
      BY <1>2, <3>1 DEF AddView, BeginView, manager
  <2>2. \A h : Consumers(h)' = Consumers(h)
    BY <2>1 DEF Consumers
  <2>3. CountsMatch'
    BY <2>1, <2>2 DEF ViewsInv, Counted, CountsMatch
  <2> QED
    BY <2>1, <2>3 DEF ViewsInv, ViewsTyped, Counted, HandlesLead, Filed, Distinct
<1>3. ASSUME NEW t \in Threads,
             \/ \E name \in Names : RegisterImpl(t, name) \/ GetMeasureByName(t, name)
             \/ RegisterFails(t) \/ RemoveView(t)
             \/ \E ms \in MeasurementLists, tags \in TagMaps :
                  Record(t, ms, tags) \/ RecordFails(t, ms, tags)
      PROVE  ViewsTyped' /\ Counted'
  BY <1>1, <1>3 DEF RegisterImpl, GetMeasureByName, RegisterFails, RemoveView,
     Record, RecordFails, Fail, manager, view
<1>4. ASSUME NEW t \in AllThreads,
             \/ Flush(t) \/ LockMu(t) \/ ManagerAddMeasureFails(t)
             \/ LockDelta(t) \/ BoundariesFound(t) \/ AddBoundariesFails(t)
             \/ SwapDeltas(t) \/ MergeDeltaFails(t) \/ ClearLastDelta(t)
             \/ AddConsumerFails(t)
      PROVE  ViewsTyped' /\ Counted'
  BY <1>1, <1>4 DEF Flush, LockMu, ManagerAddMeasureFails, LockDelta,
     BoundariesFound, AddBoundariesFails, SwapDeltas, SwapTo, MergeDeltaFails,
     ClearLastDelta, ConsumedTo, AddConsumerFails, Fail, manager, view
<1>5. ASSUME NEW t \in AllThreads,
             \/ ManagerAddMeasure(t) \/ MergeDelta(t) \/ RemoveConsumer(t)
             \/ \E h \in Handles : ShareView(t, h) \/ CreateView(t, h)
      PROVE  ViewsTyped' /\ Counted'
  BY <1>5, NewMeasureKeeps, MergeKeeps, RemoveKeeps, ShareKeeps, CreateKeeps
<1>6. CASE UNCHANGED vars
  BY <1>1, <1>6 DEF vars, manager, view
<1> QED
  BY <1>2, <1>3, <1>4, <1>5, <1>6, ThreadsAssumption
  DEF Next, Call, Continue, AllThreads

\* ConsumersCounted holds in every reachable state: StatsManager never erases a
\* ViewInformation that a View still points to, never keeps one that none does,
\* and never makes two for one descriptor.
THEOREM ViewsAreCounted == Spec => []ConsumersCounted
<1>1. Init => ViewsInv
  BY ViewsInit
<1>2. Inv /\ ViewsInv /\ [Next]_vars => ViewsInv'
  BY HeldStep, CountedStep DEF ViewsInv
<1>3. ViewsInv => ConsumersCounted
  BY CountedParts DEF ViewsInv
<1> QED
  BY <1>1, <1>2, <1>3, Invariance, PTL DEF Spec

----------------------------------------------------------------------------
(***************************************************************************)
(* What becomes of the values that are recorded.                           *)
(***************************************************************************)

\* One MeasureData, and three of them that stand for a set of values R: those
\* of d1 are older than those of d2, and these older than those of d3.

Exact(data) ==
  /\ data \in Data
  /\ IsFiniteSet(data.values) /\ data.count = Cardinality(data.values)
  /\ data.count # 0 =>
       data.last \in data.values /\ \A v \in data.values : v <= data.last

Older(data1, data2) ==
  \A v1 \in data1.values, v2 \in data2.values : v1 < v2

Split(d1, d2, d3, R) ==
  /\ Exact(d1) /\ Exact(d2) /\ Exact(d3)
  /\ Older(d1, d2) /\ Older(d1, d3) /\ Older(d2, d3)
  /\ d1.values \cup d2.values \cup d3.values = R

\* A MeasureData as its constructor leaves it stands for no values.
LEMMA ExactNoData == Exact(NoData) /\ NoData.values = {} /\ NoData.count = 0
  BY DataTypes, FS_EmptySet DEF Exact, NoData

\* A MeasureData with count_ zero stands for no values.
LEMMA ExactEmpty ==
  ASSUME NEW data, Exact(data), data.count = 0
  PROVE  data.values = {}
  BY FS_EmptySet DEF Exact

\* Recording a value newer than all others.
LEMMA SplitAdd ==
  ASSUME NEW d1, NEW d2, NEW d3, NEW R \in SUBSET Nat, Split(d1, d2, d3, R),
         NEW n \in Nat, \A v \in R : v < n
  PROVE  Split(d1, d2, Add(d3, n), R \cup {n})
<1>1. n \notin d3.values
  BY DEF Split
<1>2. Cardinality(d3.values \cup {n}) = Cardinality(d3.values) + 1
      /\ IsFiniteSet(d3.values \cup {n})
  BY <1>1, FS_AddElement DEF Split, Exact
<1>3. Exact(Add(d3, n))
  BY <1>2, DataTypes DEF Split, Exact, Add, Data
<1> QED
  BY <1>3 DEF Split, Older, Add

\* Swapping the active delta out, when the last one is consumed.
LEMMA SplitSwap ==
  ASSUME NEW d1, NEW d3, NEW R, Split(d1, NoData, d3, R)
  PROVE  Split(d1, d3, NoData, R)
  BY DEF Split, Older, NoData

\* Merging the delta swapped out.
LEMMA SplitMerge ==
  ASSUME NEW d1, NEW d2, NEW d3, NEW R, Split(d1, d2, d3, R)
  PROVE  Split(IF d2.count = 0 THEN d1 ELSE Combine(d1, d2), NoData, d3, R)
<1>1. CASE d2.count = 0
  <2>1. d2.values = {}
    BY <1>1, ExactEmpty DEF Split
  <2> QED
    BY <1>1, <2>1, ExactNoData DEF Split, Older
<1>2. CASE d2.count # 0
  <2>1. d1.values \cap d2.values = {}
    BY DEF Split, Older, Exact, Data
  <2>2. /\ IsFiniteSet(d1.values \cup d2.values)
        /\ Cardinality(d1.values \cup d2.values) = d1.count + d2.count
    BY <2>1, FS_Union, FS_EmptySet DEF Split, Exact, Data
  <2>3. Combine(d1, d2) \in Data
    BY DataTypes DEF Split, Exact
  <2>4. /\ Combine(d1, d2).values = d1.values \cup d2.values
        /\ Combine(d1, d2).count = d1.count + d2.count
        /\ Combine(d1, d2).last = d2.last
    BY DEF Combine
  <2>5. /\ d2.last \in d1.values \cup d2.values
        /\ \A v \in d1.values \cup d2.values : v <= d2.last
    BY <1>2 DEF Split, Exact, Older, Data
  <2>6. Exact(Combine(d1, d2))
    BY <2>2, <2>3, <2>4, <2>5 DEF Exact
  <2> QED
    BY <1>2, <2>4, <2>6, ExactNoData DEF Split, Older
<1> QED
  BY <1>1, <1>2

----------------------------------------------------------------------------
\* The steps of the pipeline, for one tag set and one measure.

\* The calls recorded against known measures only.
LoggedInRange ==
  \A n \in DOMAIN log : \A m \in log[n].measurements :
    m.index \in DOMAIN registered_boundaries_

SplitInv ==
  /\ LoggedInRange
  /\ \A tags \in TagMaps :
       /\ Len(delivered[tags]) = Len(measures_)
       /\ \A i \in DOMAIN delivered[tags] :
            Split(delivered[tags][i], Pending(tags, i),
                  DataFor(active_delta_, tags, i), RecordedFor(tags, i))

\* Before the first step nothing is recorded.
LEMMA SplitInit == Init => SplitInv
  BY DEF Init, SplitInv, LoggedInRange

\* What a Record() call does to one MeasureData.
LEMMA RecordData ==
  ASSUME NEW delta, IsDelta(delta), NEW value, NEW indexes, NEW tg \in TagMaps,
         \A tags \in DOMAIN delta.rows :
           DOMAIN delta.rows[tags] = DOMAIN delta.registered_boundaries,
         indexes \subseteq DOMAIN delta.registered_boundaries,
         NEW tags, NEW i
  PROVE  DataFor(DeltaRecord(delta, value, indexes, tg), tags, i) =
           IF tags = tg /\ i \in indexes THEN Add(DataFor(delta, tags, i), value)
                                         ELSE DataFor(delta, tags, i)
<1> DEFINE row == RowFor(delta, tg)
           rows == DeltaRecord(delta, value, indexes, tg).rows
<1>1. /\ DOMAIN row = DOMAIN delta.registered_boundaries
      /\ \A j \in DOMAIN row : row[j] = DataFor(delta, tg, j)
  <2>1. CASE tg \in DOMAIN delta.rows
    BY <2>1 DEF RowFor, DataFor
  <2>2. CASE tg \notin DOMAIN delta.rows
    BY <2>2 DEF RowFor, DataFor, IsDelta
  <2> QED
    BY <2>1, <2>2
<1> HIDE DEF row
<1>2. /\ DOMAIN rows = DOMAIN delta.rows \cup {tg}
      /\ rows[tg] = [j \in DOMAIN row |->
                       IF j \in indexes THEN Add(row[j], value) ELSE row[j]]
      /\ \A other \in DOMAIN delta.rows \ {tg} : rows[other] = delta.rows[other]
  BY DEF DeltaRecord, row
<1> HIDE DEF rows
<1>3. CASE tags = tg /\ i \in DOMAIN row
  BY <1>1, <1>2, <1>3 DEF DataFor, rows
<1>4. CASE tags = tg /\ i \notin DOMAIN row
  BY <1>1, <1>2, <1>4 DEF DataFor, rows
<1>5. CASE tags # tg
  BY <1>2, <1>5 DEF DataFor, rows
<1> QED
  BY <1>3, <1>4, <1>5

\* Pending, when the delta being harvested is not merged, or is.
LEMMA PendingCases ==
  ASSUME NEW tags, NEW i
  PROVE  /\ ~Merged => Pending(tags, i) = DataFor(last_delta_, tags, i)
         /\ Merged => Pending(tags, i) = NoData
         /\ DOMAIN last_delta_.rows = {} => Pending(tags, i) = NoData
  BY DEF Pending, Merged, DataFor

\* What an invariant state says of the types.
LEMMA InvTypes ==
  ASSUME Inv
  PROVE  /\ ControlTypeOK /\ MutexOwners /\ ProgramInv /\ DataTypeOK
         /\ DeltaConfiguration /\ LastDeltaConsumed
         /\ log \in Seq([measurements : SUBSET Measure, tags : TagMaps])
         /\ DOMAIN registered_boundaries_ = 1 .. Len(registered_boundaries_)
         /\ DOMAIN registered_boundaries_ \subseteq DOMAIN measures_
         /\ Len(registered_boundaries_) \in Nat /\ Len(measures_) \in Nat
         /\ Len(last_delta_.registered_boundaries) \in Nat
         /\ Len(last_delta_.registered_boundaries) <= Len(measures_)
         /\ Len(registered_boundaries_) <= Len(measures_)
  BY AddingFinite DEF Inv, DeltaInv, MeasuresCounted, DataTypeOK, ProgramInv,
                      ProgramTypeOK, IsDelta

Indexes(ms) == {m.index : m \in ms}

\* Record() adds its value to the active delta, for its tag set and measures.
LEMMA RecordEffect ==
  ASSUME Inv, NEW t \in Threads, NEW ms \in MeasurementLists, NEW tg \in TagMaps,
         Record(t, ms, tg)
  PROVE  /\ UNCHANGED <<registered_boundaries_, delivered, measures_>>
         /\ log' = Append(log, [measurements |-> ms, tags |-> tg])
         /\ Indexes(ms) \subseteq DOMAIN registered_boundaries_
         /\ \A tags, i :
              /\ Pending(tags, i)' = Pending(tags, i)
              /\ DataFor(active_delta_, tags, i)' =
                   IF tags = tg /\ i \in Indexes(ms)
                   THEN Add(DataFor(active_delta_, tags, i), Len(log) + 1)
                   ELSE DataFor(active_delta_, tags, i)
              /\ RecordedFor(tags, i)' =
                   IF tags = tg /\ i \in Indexes(ms)
                   THEN RecordedFor(tags, i) \cup {Len(log) + 1}
                   ELSE RecordedFor(tags, i)
<1> DEFINE indexes == Indexes(ms)
           n == Len(log) + 1
<1>1. /\ active_delta_' = DeltaRecord(active_delta_, n, indexes, tg)
      /\ log' = Append(log, [measurements |-> ms, tags |-> tg])
      /\ RecordInRange(active_delta_, indexes, tg)
      /\ UNCHANGED <<registered_boundaries_, last_delta_, delivered, pc, measures_>>
  BY DEF Record, manager, Indexes
<1> HIDE DEF indexes
<1>2. /\ IsDelta(active_delta_)
      /\ active_delta_.registered_boundaries = registered_boundaries_
      /\ DOMAIN registered_boundaries_ = 1 .. Len(registered_boundaries_)
      /\ \A tags \in DOMAIN active_delta_.rows :
           DOMAIN active_delta_.rows[tags] = DOMAIN active_delta_.registered_boundaries
  BY InvTypes DEF DeltaConfiguration, DataTypeOK
<1>3. indexes \subseteq DOMAIN active_delta_.registered_boundaries
  BY <1>1, <1>2 DEF RecordInRange
<1>4. /\ DOMAIN log' = DOMAIN log \cup {n}
      /\ log'[n] = [measurements |-> ms, tags |-> tg]
      /\ \A k \in DOMAIN log : k < n /\ log'[k] = log[k]
  BY <1>1, InvTypes
<1>5. \A tags, i : RecordedFor(tags, i)' =
        IF tags = tg /\ i \in indexes THEN RecordedFor(tags, i) \cup {n}
                                     ELSE RecordedFor(tags, i)
  BY <1>4 DEF RecordedFor, indexes, Indexes
<1> HIDE DEF n
<1>6. \A tags, i : DataFor(active_delta_, tags, i)' =
        IF tags = tg /\ i \in indexes THEN Add(DataFor(active_delta_, tags, i), n)
                                     ELSE DataFor(active_delta_, tags, i)
  BY <1>1, <1>2, <1>3, RecordData
<1>7. \A tags, i : Pending(tags, i)' = Pending(tags, i)
  BY <1>1 DEF Pending, DataFor
<1> QED
  BY <1>1, <1>2, <1>3, <1>5, <1>6, <1>7 DEF n, indexes

\* A new measure starts with nothing in any place.
LEMMA AddMeasureEffect ==
  ASSUME Inv, LoggedInRange, NEW t \in AllThreads, ManagerAddMeasure(t)
  PROVE  /\ UNCHANGED <<registered_boundaries_, log>>
         /\ measures_' = Append(measures_, {})
         /\ delivered' = [tags \in TagMaps |-> Append(delivered[tags], NoData)]
         /\ \A tags, i :
              /\ Pending(tags, i)' = Pending(tags, i)
              /\ DataFor(active_delta_, tags, i)' = DataFor(active_delta_, tags, i)
              /\ RecordedFor(tags, i)' = RecordedFor(tags, i)
         /\ \A tags : LET i == Len(measures_) + 1 IN
              /\ Pending(tags, i) = NoData
              /\ DataFor(active_delta_, tags, i) = NoData
              /\ RecordedFor(tags, i) = {}
<1>1. /\ delivered' = [tags \in TagMaps |-> Append(delivered[tags], NoData)]
      /\ measures_' = Append(measures_, {})
      /\ pc' = [pc EXCEPT ![t] = "lock_delta"] /\ pc[t] = "add_measure_locked"
      /\ UNCHANGED <<producer, log>>
  BY DEF ManagerAddMeasure, Goto, program
<1>2. Merged' <=> Merged
  BY InvTypes, <1>1 DEF Merged, ControlTypeOK
<1>3. \A tags, i : /\ Pending(tags, i)' = Pending(tags, i)
                  /\ DataFor(active_delta_, tags, i)' = DataFor(active_delta_, tags, i)
                  /\ RecordedFor(tags, i)' = RecordedFor(tags, i)
  BY <1>1, <1>2 DEF Pending, Merged, DataFor, RecordedFor, producer
<1>4. ASSUME NEW tags, NEW i, i = Len(measures_) + 1
      PROVE  /\ Pending(tags, i) = NoData
             /\ DataFor(active_delta_, tags, i) = NoData
             /\ RecordedFor(tags, i) = {}
  <2>1. i \notin DOMAIN registered_boundaries_
    BY InvTypes, <1>4
  <2>2. i \notin DOMAIN last_delta_.registered_boundaries
    BY InvTypes, <1>4 DEF DataTypeOK, IsDelta
  <2> QED
    BY InvTypes, <2>1, <2>2
    DEF RecordedFor, LoggedInRange, Pending, DataFor, DeltaConfiguration
<1> QED
  BY <1>1, <1>3, <1>4 DEF producer

\* SwapDeltas: what was in the active delta is being harvested from here on.
LEMMA SwapEffect ==
  ASSUME Inv, NEW t \in AllThreads, SwapDeltas(t)
  PROVE  /\ UNCHANGED <<delivered, log, measures_>>
         /\ DOMAIN registered_boundaries_ \subseteq DOMAIN registered_boundaries_'
         /\ \A tags, i :
              /\ Pending(tags, i) = NoData
              /\ Pending(tags, i)' = DataFor(active_delta_, tags, i)
              /\ DataFor(active_delta_, tags, i)' = NoData
<1>1. /\ registered_boundaries_' = NewBoundaries(t)
      /\ last_delta_' = active_delta_
      /\ active_delta_' = ResetDelta(NewBoundaries(t))
      /\ harvester_mu_ = Free /\ harvester_mu_' = t
      /\ pc' = [pc EXCEPT ![t] = "consume"]
      /\ UNCHANGED <<delivered, log, measures_>>
  BY DEF SwapDeltas, SwapTo, manager, Goto, program
<1>2. ~Merged'
  BY InvTypes, <1>1, ThreadsAssumption DEF Merged, MutexOwners, ControlTypeOK, AllThreads
<1>3. \A tags, i : Pending(tags, i) = NoData
  BY InvTypes, <1>1, PendingCases DEF LastDeltaConsumed
<1>4. \A tags, i : Pending(tags, i)' = DataFor(active_delta_, tags, i)
  BY <1>1, <1>2 DEF Pending, Merged, DataFor
<1>5. \A tags, i : DataFor(active_delta_, tags, i)' = NoData
  BY <1>1 DEF DataFor, ResetDelta, EmptyDelta
<1>6. DOMAIN registered_boundaries_ \subseteq DOMAIN registered_boundaries_'
  <2>1. /\ NewBoundaries(t) \in Seq(SUBSET Boundaries)
        /\ \/ Len(NewBoundaries(t)) = Len(registered_boundaries_)
           \/ Len(NewBoundaries(t)) = Len(registered_boundaries_) + 1
    BY InvTypes, NewBoundariesType
  <2> QED
    BY InvTypes, <1>1, <2>1
<1> QED
  BY <1>1, <1>3, <1>4, <1>5, <1>6

\* MergeDelta: what was being harvested is given to the views.
LEMMA MergeEffect ==
  ASSUME Inv, NEW t \in AllThreads, MergeDelta(t)
  PROVE  /\ UNCHANGED <<registered_boundaries_, log, measures_>>
         /\ \A tags \in TagMaps :
              /\ Len(delivered'[tags]) = Len(delivered[tags])
              /\ DOMAIN delivered'[tags] = DOMAIN delivered[tags]
              /\ \A i \in DOMAIN delivered[tags] :
                   delivered'[tags][i] =
                     IF Pending(tags, i).count = 0 THEN delivered[tags][i]
                     ELSE Combine(delivered[tags][i], Pending(tags, i))
         /\ \A tags, i :
              /\ Pending(tags, i)' = NoData
              /\ DataFor(active_delta_, tags, i)' = DataFor(active_delta_, tags, i)
              /\ RecordedFor(tags, i)' = RecordedFor(tags, i)
<1>1. /\ delivered' = [tags \in TagMaps |->
           [i \in DOMAIN delivered[tags] |->
              LET new == DataFor(last_delta_, tags, i) IN
              IF new.count = 0 THEN delivered[tags][i]
                               ELSE Combine(delivered[tags][i], new)]]
      /\ pc[t] = "merge_locked" /\ pc' = [pc EXCEPT ![t] = "clear"]
      /\ UNCHANGED <<producer, log, measures_>>
  BY DEF MergeDelta, Goto, program
<1>2. ~Merged /\ Merged'
  BY InvTypes, <1>1 DEF Merged, MutexOwners, ControlTypeOK
<1>3. \A tags, i : /\ Pending(tags, i) = DataFor(last_delta_, tags, i)
                  /\ Pending(tags, i)' = NoData
  BY <1>2 DEF Pending, Merged
<1>4. \A tags, i : /\ DataFor(active_delta_, tags, i)' = DataFor(active_delta_, tags, i)
                  /\ RecordedFor(tags, i)' = RecordedFor(tags, i)
  BY <1>1 DEF DataFor, RecordedFor, producer
<1>5. ASSUME NEW tags \in TagMaps
      PROVE  /\ DOMAIN delivered'[tags] = DOMAIN delivered[tags]
             /\ \A i \in DOMAIN delivered[tags] :
                  delivered'[tags][i] =
                    IF Pending(tags, i).count = 0 THEN delivered[tags][i]
                    ELSE Combine(delivered[tags][i], Pending(tags, i))
  BY <1>1, <1>3
<1>6. ASSUME NEW tags \in TagMaps
      PROVE  Len(delivered'[tags]) = Len(delivered[tags])
  BY InvTypes, <1>1 DEF DataTypeOK
<1> QED
  BY <1>1, <1>3, <1>4, <1>5, <1>6 DEF producer

\* Clearing the merged delta, and every other step, leaves all where it is.
LEMMA ClearEffect ==
  ASSUME NEW t \in AllThreads, ClearLastDelta(t)
  PROVE  /\ UNCHANGED <<delivered, log, active_delta_, registered_boundaries_>>
         /\ \A tags, i : Pending(tags, i)' = Pending(tags, i)
<1>1. /\ last_delta_' = EmptyDelta
      /\ pc[t] = "clear"
      /\ UNCHANGED <<delivered, log, active_delta_, registered_boundaries_>>
  BY DEF ClearLastDelta, ConsumedTo, manager, Goto
<1> QED
  BY <1>1 DEF Pending, DataFor, EmptyDelta

\* Every step keeps SplitInv.
LEMMA SplitStep == Inv /\ SplitInv /\ [Next]_vars => SplitInv'
<1> SUFFICES ASSUME Inv, SplitInv, [Next]_vars
             PROVE  SplitInv'
  OBVIOUS
<1>0. /\ ControlTypeOK /\ DataTypeOK /\ Len(measures_) \in Nat
      /\ log \in Seq([measurements : SUBSET Measure, tags : TagMaps])
  BY InvTypes
<1> DEFINE Adding == \E t \in AllThreads : ManagerAddMeasure(t)
<1>2. ~Adding => Len(measures_') = Len(measures_)
  BY <1>0, MeasuresSteps DEF DataTypeOK
<1> HIDE DEF Adding
<1>9. ASSUME ~Adding, UNCHANGED <<registered_boundaries_, active_delta_, delivered, log>>,
             \A tags, i : Pending(tags, i)' = Pending(tags, i)
      PROVE  SplitInv'
  <2>1. \A tags, i : /\ DataFor(active_delta_, tags, i)' = DataFor(active_delta_, tags, i)
                    /\ RecordedFor(tags, i)' = RecordedFor(tags, i)
    BY <1>9 DEF DataFor, RecordedFor
  <2>2. LoggedInRange'
    BY <1>9 DEF SplitInv, LoggedInRange
  <2> QED
    BY <1>2, <1>9, <2>1, <2>2 DEF SplitInv
<1>3. ASSUME ~Adding, UNCHANGED <<producer, delivered, log>>, Merged' <=> Merged
      PROVE  SplitInv'
  <2>1. \A tags, i : Pending(tags, i)' = Pending(tags, i)
    BY <1>3 DEF Pending, Merged, DataFor, producer
  <2> QED
    BY <1>3, <1>9, <2>1 DEF producer
<1>4. ASSUME NEW t \in Threads, NEW ms \in MeasurementLists, NEW tg \in TagMaps,
             Record(t, ms, tg)
      PROVE  SplitInv'
  <2> DEFINE n == Len(log) + 1
  <2>1. /\ UNCHANGED <<registered_boundaries_, delivered, measures_>>
        /\ log' = Append(log, [measurements |-> ms, tags |-> tg])
        /\ Indexes(ms) \subseteq DOMAIN registered_boundaries_
        /\ n \in Nat
    BY <1>0, <1>4, RecordEffect
  <2>2. /\ DOMAIN log' = DOMAIN log \cup {n}
        /\ log'[n] = [measurements |-> ms, tags |-> tg]
        /\ \A k \in DOMAIN log : k \in Nat /\ k < n /\ log'[k] = log[k]
    BY <1>0, <2>1
  <2>6. LoggedInRange'
    BY <2>1, <2>2 DEF SplitInv, LoggedInRange, Indexes
  <2>7. ASSUME NEW tags \in TagMaps, NEW i \in DOMAIN delivered[tags]
        PROVE  Split(delivered[tags][i], Pending(tags, i)',
                     DataFor(active_delta_, tags, i)', RecordedFor(tags, i)')
    <3>1. Split(delivered[tags][i], Pending(tags, i),
                DataFor(active_delta_, tags, i), RecordedFor(tags, i))
      BY DEF SplitInv
    <3>2. RecordedFor(tags, i) \in SUBSET Nat /\ \A v \in RecordedFor(tags, i) : v < n
      BY <2>2 DEF RecordedFor
    <3> HIDE DEF n
    <3>3. Split(delivered[tags][i], Pending(tags, i),
                Add(DataFor(active_delta_, tags, i), n), RecordedFor(tags, i) \cup {n})
      BY <2>1, <3>1, <3>2, SplitAdd
    <3> QED
      BY <1>4, <3>1, <3>3, RecordEffect DEF n
  <2> QED
    BY <2>1, <2>6, <2>7 DEF SplitInv
<1>5. ASSUME NEW t \in AllThreads, ManagerAddMeasure(t)
      PROVE  SplitInv'
  <2>1. LoggedInRange
    BY DEF SplitInv
  <2>2. /\ UNCHANGED <<registered_boundaries_, log>>
        /\ measures_' = Append(measures_, {})
        /\ \A tags \in TagMaps : delivered'[tags] = Append(delivered[tags], NoData)
    BY <1>5, <2>1, AddMeasureEffect
  <2>3. ASSUME NEW tags \in TagMaps, NEW i \in DOMAIN delivered'[tags]
        PROVE  Split(delivered'[tags][i], Pending(tags, i),
                     DataFor(active_delta_, tags, i), RecordedFor(tags, i))
    <3>1. delivered[tags] \in Seq(Data)
      BY <1>0 DEF DataTypeOK
    <3>2. CASE i \in DOMAIN delivered[tags]
      BY <2>2, <3>1, <3>2 DEF SplitInv
    <3>3. CASE i \notin DOMAIN delivered[tags]
      <4>1. i = Len(measures_) + 1 /\ delivered'[tags][i] = NoData
        BY <2>2, <3>1, <3>3 DEF SplitInv
      <4>2. /\ Pending(tags, i) = NoData
            /\ DataFor(active_delta_, tags, i) = NoData
            /\ RecordedFor(tags, i) = {}
        BY <1>5, <2>1, <4>1, AddMeasureEffect
      <4> QED
        BY <4>1, <4>2, ExactNoData DEF Split, Older
    <3> QED
      BY <3>2, <3>3
  <2>4. \A tags \in TagMaps : Len(delivered'[tags]) = Len(measures_')
    BY <1>0, <2>2 DEF SplitInv, DataTypeOK
  <2>5. LoggedInRange'
    BY <2>1, <2>2 DEF LoggedInRange
  <2>6. \A tags, i : /\ Pending(tags, i)' = Pending(tags, i)
                    /\ DataFor(active_delta_, tags, i)' = DataFor(active_delta_, tags, i)
                    /\ RecordedFor(tags, i)' = RecordedFor(tags, i)
    BY <1>5, <2>1, AddMeasureEffect
  <2> QED
    BY <2>3, <2>4, <2>5, <2>6 DEF SplitInv
<1>6. ASSUME NEW t \in AllThreads, SwapDeltas(t)
      PROVE  SplitInv'
  <2>1. /\ UNCHANGED <<delivered, log, measures_>>
        /\ DOMAIN registered_boundaries_ \subseteq DOMAIN registered_boundaries_'
        /\ \A tags, i :
             /\ Pending(tags, i) = NoData
             /\ Pending(tags, i)' = DataFor(active_delta_, tags, i)
             /\ DataFor(active_delta_, tags, i)' = NoData
    BY <1>6, SwapEffect
  <2>2. LoggedInRange'
    BY <2>1 DEF SplitInv, LoggedInRange
  <2>3. ASSUME NEW tags \in TagMaps, NEW i \in DOMAIN delivered[tags]
        PROVE  Split(delivered[tags][i], DataFor(active_delta_, tags, i), NoData,
                     RecordedFor(tags, i))
    <3>1. Split(delivered[tags][i], NoData, DataFor(active_delta_, tags, i),
                RecordedFor(tags, i))
      BY <2>1 DEF SplitInv
    <3> QED
      BY <3>1, SplitSwap
  <2>4. \A tags, i : RecordedFor(tags, i)' = RecordedFor(tags, i)
    BY <2>1 DEF RecordedFor
  <2> QED
    BY <2>1, <2>2, <2>3, <2>4 DEF SplitInv
<1>7. ASSUME NEW t \in AllThreads, MergeDelta(t)
      PROVE  SplitInv'
  <2>1. LoggedInRange'
    BY <1>7, MergeEffect DEF SplitInv, LoggedInRange
  <2>2. ASSUME NEW tags \in TagMaps, NEW i \in DOMAIN delivered[tags]
        PROVE  Split(delivered'[tags][i], NoData,
                     DataFor(active_delta_, tags, i), RecordedFor(tags, i))
    <3>1. Split(delivered[tags][i], Pending(tags, i),
                DataFor(active_delta_, tags, i), RecordedFor(tags, i))
      BY DEF SplitInv
    <3>2. delivered'[tags][i] =
            IF Pending(tags, i).count = 0 THEN delivered[tags][i]
            ELSE Combine(delivered[tags][i], Pending(tags, i))
      BY <1>7, MergeEffect
    <3> QED
      BY <3>1, <3>2, SplitMerge
  <2>3. /\ UNCHANGED measures_
        /\ \A tags \in TagMaps : /\ Len(delivered'[tags]) = Len(delivered[tags])
                                 /\ DOMAIN delivered'[tags] = DOMAIN delivered[tags]
        /\ \A tags, i :
             /\ Pending(tags, i)' = NoData
             /\ DataFor(active_delta_, tags, i)' = DataFor(active_delta_, tags, i)
             /\ RecordedFor(tags, i)' = RecordedFor(tags, i)
    BY <1>7, MergeEffect
  <2> QED
    BY <2>1, <2>2, <2>3 DEF SplitInv
<1>8. ASSUME ~Adding, NEW t \in AllThreads, ClearLastDelta(t)
      PROVE  SplitInv'
  BY <1>8, <1>9, ClearEffect
<1> QED
  BY <1>0, <1>3, <1>4, <1>5, <1>6, <1>7, <1>8, DataSteps DEF Adding

\* SplitInv is invariant.
LEMMA SplitInvariance == Spec => [](Inv /\ SplitInv)
<1>1. Init => SplitInv
  BY SplitInit
<1>2. Inv /\ SplitInv /\ [Next]_vars => SplitInv'
  BY SplitStep
<1> QED
  BY <1>1, <1>2, Invariance, PTL DEF Spec

\* Every registered measure has its place in what the views were given.
LEMMA SplitAt ==
  ASSUME Inv, SplitInv, NEW tags \in TagMaps, NEW i \in DOMAIN registered_boundaries_
  PROVE  Split(delivered[tags][i], Pending(tags, i),
               DataFor(active_delta_, tags, i), RecordedFor(tags, i))
<1>1. /\ registered_boundaries_ \in Seq(SUBSET Boundaries)
      /\ delivered[tags] \in Seq(Data)
      /\ Len(measures_) \in Nat
      /\ Len(measures_) = Len(registered_boundaries_) + Cardinality(AddingMeasures)
  BY DEF Inv, DeltaInv, DataTypeOK, MeasuresCounted
<1>2. Len(delivered[tags]) = Len(measures_)
  BY DEF SplitInv
<1>3. i \in DOMAIN delivered[tags]
  BY <1>1, <1>2, AddingFinite
<1> QED
  BY <1>3 DEF SplitInv

\* A split of R counts each member of R once.
LEMMA SplitCounts ==
  ASSUME NEW d1, NEW d2, NEW d3, NEW R, Split(d1, d2, d3, R)
  PROVE  d1.count + d2.count + d3.count = Cardinality(R)
<1>1. /\ IsFiniteSet(d1.values) /\ IsFiniteSet(d2.values) /\ IsFiniteSet(d3.values)
      /\ d1.count = Cardinality(d1.values) /\ d2.count = Cardinality(d2.values)
      /\ d3.count = Cardinality(d3.values)
      /\ d1.count \in Nat /\ d2.count \in Nat /\ d3.count \in Nat
      /\ R = (d1.values \cup d2.values) \cup d3.values
  BY DEF Split, Exact, Data
<1>2. /\ d1.values \cap d2.values = {}
      /\ (d1.values \cup d2.values) \cap d3.values = {}
  BY DEF Split, Older, Exact, Data
<1>3. /\ IsFiniteSet(d1.values \cup d2.values)
      /\ Cardinality(d1.values \cup d2.values) = d1.count + d2.count
  BY <1>1, <1>2, FS_Union, FS_EmptySet
<1>4. Cardinality(R) = Cardinality(d1.values \cup d2.values) + d3.count
  <2> DEFINE S == d1.values \cup d2.values
             T == d3.values
  <2>1. IsFiniteSet(S) /\ IsFiniteSet(T) /\ S \cap T = {}
    BY <1>1, <1>2, <1>3
  <2>2. Cardinality(S) \in Nat /\ Cardinality(T) \in Nat
    BY <1>1, <1>3
  <2> HIDE DEF S, T
  <2>3. Cardinality(S \cup T) = Cardinality(S) + Cardinality(T)
    <3>1. Cardinality(S \cap T) = 0
      BY <2>1, FS_EmptySet
    <3>2. Cardinality(S \cup T) = Cardinality(S) + Cardinality(T) - Cardinality(S \cap T)
      BY <2>1, FS_Union
    <3> QED
      BY <2>2, <3>1, <3>2
  <2> QED
    BY <1>1, <2>3 DEF S, T
<1> QED
  BY <1>1, <1>3, <1>4

\* Conservation: a value that Record() put into the active delta is, from then
\* on and with whatever interleaving of flushes and configuration changes, in
\* exactly one of the active delta, the delta being harvested and the views.
THEOREM Conservation == Spec => []NothingLostOrDoubled
<1>1. Inv /\ SplitInv => NothingLostOrDoubled
  <2> SUFFICES ASSUME Inv, SplitInv, NEW tags \in TagMaps,
                      NEW i \in DOMAIN registered_boundaries_
               PROVE  /\ UNION {Stages(tags, i)[k].values : k \in 1 .. 3} =
                           RecordedFor(tags, i)
                      /\ Stages(tags, i)[1].count + Stages(tags, i)[2].count
                           + Stages(tags, i)[3].count =
                           Cardinality(RecordedFor(tags, i))
    BY DEF NothingLostOrDoubled
  <2> DEFINE d1 == delivered[tags][i]
             d2 == Pending(tags, i)
             d3 == DataFor(active_delta_, tags, i)
  <2>1. Split(d1, d2, d3, RecordedFor(tags, i))
    BY SplitAt
  <2>2. Stages(tags, i)[1] = d1 /\ Stages(tags, i)[2] = d2 /\ Stages(tags, i)[3] = d3
    BY DEF Stages
  <2> HIDE DEF d1, d2, d3
  <2>3. UNION {Stages(tags, i)[k].values : k \in 1 .. 3} =
          d1.values \cup d2.values \cup d3.values
    <3>1. 1 .. 3 = {1, 2, 3}
      OBVIOUS
    <3> QED
      BY <2>2, <3>1
  <2> QED
    BY <2>1, <2>2, <2>3, SplitCounts DEF Split
<1> QED
  BY <1>1, SplitInvariance, PTL

\* Order: values reach the views oldest first, and the last value kept for a
\* measure and a tag set is the newest one.
THEOREM OrderKept == Spec => []RecordingOrderKept
<1>1. Inv /\ SplitInv => RecordingOrderKept
  <2> SUFFICES ASSUME Inv, SplitInv, NEW tags \in TagMaps,
                      NEW i \in DOMAIN registered_boundaries_
               PROVE  /\ \A j, k \in 1 .. 3 : j < k =>
                           Older(Stages(tags, i)[j], Stages(tags, i)[k])
                      /\ \A k \in 1 .. 3 : Exact(Stages(tags, i)[k])
    BY DEF RecordingOrderKept, Older, Exact
  <2>1. Split(delivered[tags][i], Pending(tags, i),
              DataFor(active_delta_, tags, i), RecordedFor(tags, i))
    BY SplitAt
  <2>2. 1 .. 3 = {1, 2, 3}
    OBVIOUS
  <2> QED
    BY <2>1, <2>2 DEF Stages, Split
<1> QED
  BY <1>1, SplitInvariance, PTL

----------------------------------------------------------------------------
(***************************************************************************)
(* StatsPipeline implements RecordLog: whatever threads, measures and tag  *)
(* sets there are, the views have always been given the first calls.       *)
(***************************************************************************)

\* Two positions in the order of the calls cut what was recorded, for all
\* measures and tag sets at once: up to a it has been given to the views, from
\* there up to b it is being harvested, and the rest is in the active delta.
Cut(a, b) ==
  /\ a <= b /\ b <= Len(log)
  /\ \A n \in DOMAIN log : log[n].measurements # {}
  /\ \A tags \in TagMaps : \A i \in DOMAIN delivered[tags] :
       /\ delivered[tags][i].values = {n \in RecordedFor(tags, i) : n <= a}
       /\ Pending(tags, i).values = {n \in RecordedFor(tags, i) : a < n /\ n <= b}
       /\ DataFor(active_delta_, tags, i).values =
            {n \in RecordedFor(tags, i) : b < n}

\* At the start nothing is recorded and nothing cut.
LEMMA CutInit == Init => Cut(0, 0)
  BY DEF Init, Cut

\* RecordedFor has numbers of calls.
LEMMA RecordedNumbers ==
  ASSUME Inv, NEW tags, NEW i
  PROVE  RecordedFor(tags, i) \subseteq 1 .. Len(log)
  BY DEF RecordedFor, Inv, ProgramInv, ProgramTypeOK

\* The tag set of a recorded call is one of TagMaps.
LEMMA LoggedTags ==
  ASSUME Inv, NEW n \in DOMAIN log
  PROVE  log[n].tags \in TagMaps
<1> DEFINE Entry == [measurements : SUBSET Measure, tags : TagMaps]
<1>1. log \in Seq(Entry)
  BY InvTypes
<1>2. \A e \in Entry : e.tags \in TagMaps
  OBVIOUS
<1> HIDE DEF Entry
<1>3. log[n] \in Entry
  BY <1>1
<1> QED
  BY <1>2, <1>3

\* With such a cut, the calls delivered are the first a ones.
LEMMA CutDelivers ==
  ASSUME Inv, SplitInv, NEW a \in Nat, NEW b \in Nat, Cut(a, b)
  PROVE  DeliveredCalls = 1 .. a
<1>1. /\ log \in Seq([measurements : SUBSET Measure, tags : TagMaps])
      /\ \A tags \in TagMaps : delivered[tags] \in Seq(Data)
      /\ a <= Len(log) /\ Len(log) \in Nat
  BY InvTypes DEF DataTypeOK, Cut
<1>2. ASSUME NEW n \in DOMAIN log, NEW m \in log[n].measurements
      PROVE  n \in delivered[log[n].tags][m.index].values <=> n <= a
  <2>1. log[n].tags \in TagMaps
    BY LoggedTags
  <2>2. m.index \in DOMAIN registered_boundaries_
    BY DEF SplitInv, LoggedInRange
  <2>3. m.index \in DOMAIN delivered[log[n].tags]
    <3>1. /\ registered_boundaries_ \in Seq(SUBSET Boundaries)
          /\ Len(measures_) = Len(registered_boundaries_) + Cardinality(AddingMeasures)
          /\ Len(delivered[log[n].tags]) = Len(measures_)
      BY <2>1 DEF Inv, DeltaInv, DataTypeOK, MeasuresCounted, SplitInv
    <3> QED
      BY <1>1, <2>1, <2>2, <3>1, AddingFinite
  <2>4. n \in RecordedFor(log[n].tags, m.index)
    BY DEF RecordedFor
  <2> QED
    BY <2>1, <2>3, <2>4 DEF Cut
<1>3. \A n \in DOMAIN log : n \in DeliveredCalls <=> n <= a
  BY <1>2 DEF DeliveredCalls, Cut
<1>4. DOMAIN log = 1 .. Len(log) /\ DeliveredCalls \subseteq DOMAIN log
  BY <1>1 DEF DeliveredCalls
<1>5. \A n \in 1 .. Len(log) : n <= a <=> n \in 1 .. a
  BY <1>1
<1>6. 1 .. a \subseteq 1 .. Len(log)
  BY <1>1
<1> HIDE DEF DeliveredCalls
<1> QED
  BY <1>3, <1>4, <1>5, <1>6

\* A step moves the cut, or records a call beyond it.
LEMMA CutStep ==
  ASSUME Inv, SplitInv, [Next]_vars, NEW a \in Nat, NEW b \in Nat, Cut(a, b)
  PROVE  \E c, d \in Nat :
           /\ Cut(c, d)'
           /\ \/ a <= c /\ log' = log
              \/ a = c /\ Len(log') = Len(log) + 1 /\ Len(log) < MaxRecords
<1>0. /\ ControlTypeOK /\ MutexOwners /\ ProgramInv /\ DeltaInv
      /\ DataTypeOK /\ DeltaConfiguration
      /\ log \in Seq([measurements : SUBSET Measure, tags : TagMaps])
      /\ Len(log) \in Nat
  BY DEF Inv, DeltaInv, ProgramInv, ProgramTypeOK
<1>1. (MutexOwners /\ ControlTypeOK)'
  BY <1>0, ControlStep
<1> DEFINE Adding == \E t \in AllThreads : ManagerAddMeasure(t)
           Goal == \E c, d \in Nat :
                     /\ Cut(c, d)'
                     /\ \/ a <= c /\ log' = log
                        \/ a = c /\ Len(log') = Len(log) + 1 /\ Len(log) < MaxRecords
<1> HIDE DEF Adding, Goal
\* It suffices to give the new cut, when the log stays as it is.
<1>2. ASSUME NEW c \in Nat, NEW d \in Nat, a <= c, c <= d, d <= Len(log),
             UNCHANGED log,
             \A tags \in TagMaps : \A i \in DOMAIN delivered'[tags] :
               /\ delivered'[tags][i].values = {n \in RecordedFor(tags, i) : n <= c}
               /\ Pending(tags, i)'.values =
                    {n \in RecordedFor(tags, i) : c < n /\ n <= d}
               /\ DataFor(active_delta_, tags, i)'.values =
                    {n \in RecordedFor(tags, i) : d < n}
      PROVE  Goal
  <2>1. \A tags, i : RecordedFor(tags, i)' = RecordedFor(tags, i)
    BY <1>2 DEF RecordedFor
  <2>2. Cut(c, d)'
    BY <1>2, <2>1 DEF Cut
  <2> QED
    BY <1>2, <2>2 DEF Goal
<1>3. ASSUME UNCHANGED <<active_delta_, delivered, log>>,
             \A tags, i : Pending(tags, i)' = Pending(tags, i)
      PROVE  Goal
  <2>1. \A tags, i : DataFor(active_delta_, tags, i)' = DataFor(active_delta_, tags, i)
    BY <1>3 DEF DataFor
  <2> QED
    BY <1>2, <1>3, <2>1 DEF Cut
<1>4. ASSUME UNCHANGED <<producer, delivered, log>>, Merged' <=> Merged
      PROVE  Goal
  <2>1. \A tags, i : Pending(tags, i)' = Pending(tags, i)
    BY <1>4 DEF Pending, Merged, DataFor, producer
  <2> QED
    BY <1>3, <1>4, <2>1 DEF producer
<1>5. ASSUME NEW t \in Threads, NEW ms \in MeasurementLists,
             NEW tg \in TagMaps, Record(t, ms, tg)
      PROVE  Goal
  <2> DEFINE n == Len(log) + 1
  <2>1. /\ UNCHANGED delivered
        /\ log' = Append(log, [measurements |-> ms, tags |-> tg])
    BY <1>5, RecordEffect
  <2>2. /\ \A k \in DOMAIN log' : log'[k].measurements # {}
        /\ Len(log') = n /\ n \in Nat
    <3>1. ms # {}
      BY DEF MeasurementLists
    <3> QED
      BY <1>0, <2>1, <3>1 DEF Cut
  <2>3. ASSUME NEW tags \in TagMaps, NEW i \in DOMAIN delivered[tags]
        PROVE  /\ delivered[tags][i].values = {k \in RecordedFor(tags, i)' : k <= a}
               /\ Pending(tags, i)'.values =
                    {k \in RecordedFor(tags, i)' : a < k /\ k <= b}
               /\ DataFor(active_delta_, tags, i)'.values =
                    {k \in RecordedFor(tags, i)' : b < k}
    <3> DEFINE R == RecordedFor(tags, i)
               d == DataFor(active_delta_, tags, i)
    <3>1. /\ delivered[tags][i].values = {k \in R : k <= a}
          /\ Pending(tags, i).values = {k \in R : a < k /\ k <= b}
          /\ d.values = {k \in R : b < k}
          /\ a < n /\ b < n
      BY <1>0 DEF Cut
    <3>2. Add(d, n).values = d.values \cup {n}
      BY DEF Add
    <3>3. /\ Pending(tags, i)' = Pending(tags, i)
          /\ \/ d' = d /\ R' = R
             \/ d' = Add(d, n) /\ R' = R \cup {n}
      BY <1>5, RecordEffect
    <3> HIDE DEF R, d, n
    <3> QED
      BY <2>2, <3>1, <3>2, <3>3 DEF R, d
  <2>4. Cut(a, b)'
    BY <1>0, <2>1, <2>2, <2>3 DEF Cut
  <2>5. Len(log) < MaxRecords
    BY <1>5 DEF Record
  <2> QED
    BY <2>2, <2>4, <2>5 DEF Goal
<1>6. ASSUME NEW t \in AllThreads, ManagerAddMeasure(t)
      PROVE  Goal
  <2>1. LoggedInRange
    BY DEF SplitInv
  <2>2. /\ UNCHANGED log
        /\ \A tags \in TagMaps : delivered'[tags] = Append(delivered[tags], NoData)
        /\ \A tags, i :
             /\ Pending(tags, i)' = Pending(tags, i)
             /\ DataFor(active_delta_, tags, i)' = DataFor(active_delta_, tags, i)
    BY <1>6, <2>1, AddMeasureEffect
  <2>3. ASSUME NEW tags \in TagMaps, NEW i \in DOMAIN delivered'[tags]
        PROVE  /\ delivered'[tags][i].values = {n \in RecordedFor(tags, i) : n <= a}
               /\ Pending(tags, i).values =
                    {n \in RecordedFor(tags, i) : a < n /\ n <= b}
               /\ DataFor(active_delta_, tags, i).values =
                    {n \in RecordedFor(tags, i) : b < n}
    <3>1. delivered[tags] \in Seq(Data) /\ Len(delivered[tags]) = Len(measures_)
      BY <1>0 DEF DataTypeOK, SplitInv
    <3>2. CASE i \in DOMAIN delivered[tags]
      <4>1. delivered'[tags][i] = delivered[tags][i]
        BY <2>2, <3>1, <3>2
      <4> QED
        BY <3>2, <4>1 DEF Cut
    <3>3. CASE i \notin DOMAIN delivered[tags]
      <4>1. i = Len(measures_) + 1 /\ delivered'[tags][i] = NoData
        BY <2>2, <3>1, <3>3
      <4>2. /\ Pending(tags, i) = NoData
            /\ DataFor(active_delta_, tags, i) = NoData
            /\ RecordedFor(tags, i) = {}
        BY <1>6, <2>1, <4>1, AddMeasureEffect
      <4> QED
        BY <4>1, <4>2 DEF NoData
    <3> QED
      BY <3>2, <3>3
  <2>4. ASSUME NEW tags \in TagMaps, NEW i \in DOMAIN delivered'[tags]
        PROVE  /\ delivered'[tags][i].values = {n \in RecordedFor(tags, i) : n <= a}
               /\ Pending(tags, i)'.values =
                    {n \in RecordedFor(tags, i) : a < n /\ n <= b}
               /\ DataFor(active_delta_, tags, i)'.values =
                    {n \in RecordedFor(tags, i) : b < n}
    BY <2>2, <2>3
  <2>5. a <= a /\ a <= b /\ b <= Len(log)
    BY DEF Cut
  <2> QED
    BY <1>2, <2>2, <2>4, <2>5
<1>7. ASSUME NEW t \in AllThreads, SwapDeltas(t)
      PROVE  Goal
  <2>1. /\ UNCHANGED <<delivered, log>>
        /\ \A tags, i :
             /\ Pending(tags, i) = NoData
             /\ Pending(tags, i)' = DataFor(active_delta_, tags, i)
             /\ DataFor(active_delta_, tags, i)' = NoData
    BY <1>7, SwapEffect
  <2>2. ASSUME NEW tags \in TagMaps, NEW i \in DOMAIN delivered[tags]
        PROVE  LET R == RecordedFor(tags, i) IN
               /\ delivered[tags][i].values = {n \in R : n <= a}
               /\ DataFor(active_delta_, tags, i).values =
                    {n \in R : a < n /\ n <= Len(log)}
               /\ NoData.values = {n \in R : Len(log) < n}
    <3> DEFINE R == RecordedFor(tags, i)
               P == Pending(tags, i).values
               D == DataFor(active_delta_, tags, i).values
    <3>1. P = {} /\ NoData.values = {}
      BY <2>1 DEF NoData
    <3>2. /\ delivered[tags][i].values = {n \in R : n <= a}
          /\ P = {n \in R : a < n /\ n <= b}
          /\ D = {n \in R : b < n}
          /\ a <= b
      BY DEF Cut
    <3>3. R \subseteq 1 .. Len(log)
      BY RecordedNumbers
    <3> HIDE DEF R, P, D
    <3>4. \A n \in R : /\ n \in Nat /\ n <= Len(log) /\ ~(Len(log) < n)
                       /\ b < n <=> a < n
      BY <1>0, <3>1, <3>2, <3>3
    <3> QED
      BY <3>1, <3>2, <3>4 DEF R, D
  <2> QED
    BY <1>0, <1>2, <2>1, <2>2 DEF Cut
<1>8. ASSUME NEW t \in AllThreads, MergeDelta(t)
      PROVE  Goal
  <2>1. /\ UNCHANGED log
        /\ \A tags \in TagMaps : DOMAIN delivered'[tags] = DOMAIN delivered[tags]
        /\ \A tags, i :
             /\ Pending(tags, i)' = NoData
             /\ DataFor(active_delta_, tags, i)' = DataFor(active_delta_, tags, i)
    BY <1>8, MergeEffect
  <2>2. ASSUME NEW tags \in TagMaps, NEW i \in DOMAIN delivered[tags]
        PROVE  LET R == RecordedFor(tags, i) IN
               /\ delivered'[tags][i].values = {n \in R : n <= b}
               /\ NoData.values = {n \in R : b < n /\ n <= b}
               /\ DataFor(active_delta_, tags, i).values = {n \in R : b < n}
    <3> DEFINE R == RecordedFor(tags, i)
               old == delivered[tags][i]
               new == Pending(tags, i)
    <3>1. delivered'[tags][i] = IF new.count = 0 THEN old ELSE Combine(old, new)
      BY <1>8, MergeEffect
    <3>2. Exact(new)
      BY DEF SplitInv, Split
    <3>3. delivered'[tags][i].values = old.values \cup new.values
      BY <3>1, <3>2, ExactEmpty DEF Combine
    <3>4. /\ old.values = {n \in R : n <= a}
          /\ new.values = {n \in R : a < n /\ n <= b}
          /\ DataFor(active_delta_, tags, i).values = {n \in R : b < n}
          /\ a <= b
      BY DEF Cut
    <3>5. R \subseteq Nat
      BY RecordedNumbers
    <3> HIDE DEF R, old, new
    <3>6. \A n \in R : /\ n <= b <=> n <= a \/ (a < n /\ n <= b)
                       /\ ~(b < n /\ n <= b)
      BY <3>4, <3>5
    <3> QED
      BY <3>3, <3>4, <3>6 DEF R, NoData
  <2> QED
    BY <1>0, <1>2, <2>1, <2>2 DEF Cut
<1>9. ASSUME NEW t \in AllThreads, ClearLastDelta(t)
      PROVE  Goal
  BY <1>3, <1>9, ClearEffect
<1>10. Goal
  BY <1>0, <1>4, <1>5, <1>6, <1>7, <1>8, <1>9, DataSteps
<1> QED
  BY <1>10 DEF Goal

CutKnown == \A a, b \in Nat : Cut(a, b) => DeliveredCalls = 1 .. a

\* The same, as one state formula.
LEMMA CutIsKnown == Inv /\ SplitInv => CutKnown
  BY CutDelivers DEF CutKnown

\* The invariant of the refinement, which has the cut hidden.
CutInv == \E a, b \in Nat : Cut(a, b)

\* There is a cut in every state of every behaviour.
LEMMA CutInvariance == Spec => [](Inv /\ SplitInv /\ CutInv)
<1>1. Init => CutInv
  BY CutInit DEF CutInv
<1>2. Inv /\ SplitInv /\ CutInv /\ [Next]_vars => CutInv'
  <2> SUFFICES ASSUME Inv, SplitInv, NEW a \in Nat, NEW b \in Nat, Cut(a, b),
                      [Next]_vars
               PROVE  \E c, d \in Nat : Cut(c, d)'
    BY DEF CutInv
  <2> QED
    BY CutStep
<1> QED
  BY <1>1, <1>2, SplitInvariance, PTL DEF Spec

\* Calls move whole: the views of all measures of a Record() call are given its
\* values in one step, whatever measures and views are added meanwhile.
THEOREM CallsAreWhole == Spec => []CallsMoveWhole
<1>1. Inv /\ SplitInv /\ CutInv => CallsMoveWhole
  <2> SUFFICES ASSUME Inv, NEW a \in Nat, NEW b \in Nat, Cut(a, b),
                      NEW n \in DOMAIN log,
                      NEW m1 \in log[n].measurements, NEW m2 \in log[n].measurements,
                      m1.index \in DOMAIN delivered[log[n].tags],
                      m2.index \in DOMAIN delivered[log[n].tags]
               PROVE  n \in delivered[log[n].tags][m1.index].values
                        <=> n \in delivered[log[n].tags][m2.index].values
    BY DEF CutInv, CallsMoveWhole
  <2>1. log[n].tags \in TagMaps
    BY LoggedTags
  <2>2. /\ n \in RecordedFor(log[n].tags, m1.index)
        /\ n \in RecordedFor(log[n].tags, m2.index)
    BY DEF RecordedFor
  <2> QED
    BY <2>1, <2>2 DEF Cut
<1> QED
  BY <1>1, CutInvariance, PTL

\* Refinement: seen through the number of calls and the calls whose values the
\* views have all been given, every step of the pipeline is a step of RecordLog
\* or changes neither.
THEOREM Refinement == Spec => ImplementsRecordLog
<1>1. Init => RecordLog!Init
  BY DEF Init, RecordLog!Init, DeliveredCalls
<1>2. ASSUME Inv, SplitInv, CutInv, CutKnown', [Next]_vars
      PROVE  [RecordLog!Record \/ RecordLog!Harvest]_<<Len(log), DeliveredCalls>>
  <2>1. PICK a \in Nat, b \in Nat : Cut(a, b)
    BY <1>2 DEF CutInv
  <2>2. PICK c \in Nat, d \in Nat :
          /\ Cut(c, d)'
          /\ \/ a <= c /\ log' = log
             \/ a = c /\ Len(log') = Len(log) + 1 /\ Len(log) < MaxRecords
    BY <1>2, <2>1, CutStep
  <2>3. DeliveredCalls = 1 .. a
    BY <1>2, <2>1, CutDelivers
  <2>4. DeliveredCalls' = 1 .. c
    BY <1>2, <2>2 DEF CutKnown
  <2>5. Len(log) \in Nat /\ Len(log') \in Nat /\ c <= Len(log')
    BY <1>2, <2>2, InvTypes DEF Cut
  <2>6. CASE a = c /\ log' = log
    BY <2>3, <2>4, <2>6
  <2>7. CASE a < c /\ log' = log
    <3>1. c \in 1 .. Len(log) /\ 1 .. a \subseteq 1 .. c
      BY <2>5, <2>7
    <3> QED
      BY <2>3, <2>4, <2>7, <3>1 DEF RecordLog!Harvest
  <2>8. CASE a = c /\ Len(log') = Len(log) + 1 /\ Len(log) < MaxRecords
    BY <2>3, <2>4, <2>8 DEF RecordLog!Record
  <2> QED
    BY <2>2, <2>6, <2>7, <2>8
<1> QED
  BY <1>1, <1>2, CutIsKnown, CutInvariance, PTL DEF Spec, ImplementsRecordLog, RecordLog!Spec

----------------------------------------------------------------------------
(***************************************************************************)
(* What the views show.                                                    *)
(***************************************************************************)

\* MergedView folds MergeRow over the rows of the delta, the last one outermost.
MergedRow(row, data) == MergeRow(data, row)

Merges == INSTANCE FoldUnfolds WITH op <- MergedRow, choose <- Max

MergedRows(data, rows) == FoldLeft(MergeRow, data, rows)

\* The data of a view after the first k rows.
AfterRows(data, rows, k) == Merges!Fold(rows, data, 1 .. k)

\* The greatest number of an initial segment is the last.
LEMMA LastRow ==
  ASSUME NEW n \in Nat
  PROVE  /\ IsFiniteSet(1 .. n) /\ Merges!Chooses(1 .. n)
         /\ n > 0 => Max(1 .. n) = n /\ (1 .. n) \ {n} = 1 .. n - 1
<1>1. IsFiniteSet(1 .. n)
  BY FS_Interval
<1>2. ASSUME NEW s \in SUBSET (1 .. n), s # {} PROVE Max(s) \in s
  <2>1. \E x \in s : \A y \in s : x >= y
    <3>1. \A x \in s : x \in 0 .. n
      OBVIOUS
    <3> QED
      BY <1>2, <3>1, Merges!GreatestNumber
  <2> QED
    BY <2>1 DEF Max
<1>3. n > 0 => Max(1 .. n) = n /\ (1 .. n) \ {n} = 1 .. n - 1
  BY DEF Max
<1> QED
  BY <1>1, <1>2, <1>3 DEF Merges!Chooses

\* The rows are merged one after the other.
LEMMA RowByRow ==
  ASSUME NEW data, NEW rows, NEW n \in Nat, DOMAIN rows = 1 .. n
  PROVE  /\ MergedRows(data, rows) = AfterRows(data, rows, n)
         /\ AfterRows(data, rows, 0) = data
         /\ \A k \in 1 .. n :
              AfterRows(data, rows, k) = MergeRow(AfterRows(data, rows, k - 1), rows[k])
<1>1. MergedRows(data, rows) = AfterRows(data, rows, n)
  BY DEF MergedRows, FoldLeft, AfterRows, MergedRow, Merges!Fold, Merges!MapThenFoldSet,
         MapThenFoldSet
<1>2. ASSUME NEW k \in Nat
      PROVE  AfterRows(data, rows, k) =
               IF k = 0 THEN data ELSE MergeRow(AfterRows(data, rows, k - 1), rows[k])
  <2>1. IsFiniteSet(1 .. k) /\ Merges!Chooses(1 .. k)
    BY LastRow
  <2>2. Merges!Unfolds(rows, data, 1 .. k)
    BY <2>1, Merges!FoldUnfolds DEF IsFiniteSet, Merges!IsFiniteSet
  <2>3. CASE k = 0
    BY <2>2, <2>3 DEF Merges!Unfolds, AfterRows
  <2>4. CASE k > 0
    <3>1. Max(1 .. k) = k /\ (1 .. k) \ {k} = 1 .. k - 1 /\ 1 .. k # {}
      BY <2>4, LastRow
    <3>2. Merges!Fold(rows, data, 1 .. k) =
            MergedRow(rows[k], Merges!Fold(rows, data, 1 .. k - 1))
      BY <2>2, <3>1 DEF Merges!Unfolds
    <3> QED
      BY <2>4, <3>2 DEF AfterRows, MergedRow
  <2> QED
    BY <2>3, <2>4
<1> QED
  BY <1>1, <1>2

----------------------------------------------------------------------------
\* The row in which a view shows a call.
RowOf(n, columns) == ProjectTags(log[n].tags, columns)

InRow(N, k, columns) == {n \in N : RowOf(n, columns) = k}

\* A view with these columns shows the calls N, and no others.
Shows(data, columns, N) ==
  /\ DOMAIN data = {RowOf(n, columns) : n \in N}
  /\ \A k \in DOMAIN data :
       /\ data[k].values = InRow(N, k, columns)
       /\ IsFiniteSet(data[k].values)
       /\ data[k].count = Cardinality(data[k].values)

\* The calls that a view has been given since it was created.
Given(v) ==
  {n \in DOMAIN log \ v.since :
     n \in delivered[log[n].tags][v.descriptor.measure].values}

\* A view of a measure that was given other calls before it was created.
Complete(v) ==
  /\ v.descriptor.measure \in DOMAIN measures_
  /\ v.since \subseteq UNION {delivered[tags][v.descriptor.measure].values : tags \in TagMaps}
  /\ Shows(v.data, v.descriptor.columns, Given(v))

RowsFinite ==
  IsFiniteSet(DOMAIN active_delta_.rows) /\ IsFiniteSet(DOMAIN last_delta_.rows)

ShownInv == RowsFinite /\ \A h \in DOMAIN info : Complete(info[h])

\* Merging what was recorded under one tag set.
LEMMA MergeRowShows ==
  ASSUME NEW data, NEW columns, NEW N, Shows(data, columns, N),
         NEW tags, NEW new, Exact(new), new.values \cap N = {},
         \A n \in new.values : log[n].tags = tags
  PROVE  Shows(MergeRow(data, [key |-> ProjectTags(tags, columns), new |-> new]),
               columns, N \cup new.values)
<1> SUFFICES ASSUME NEW key, key = ProjectTags(tags, columns),
                    NEW merged, merged = MergeRow(data, [key |-> key, new |-> new])
             PROVE  Shows(merged, columns, N \cup new.values)
  OBVIOUS
<1>1. \A n \in new.values : RowOf(n, columns) = key
  BY DEF RowOf
<1>2. CASE new.count = 0
  <2>1. new.values = {}
    BY <1>2, ExactEmpty
  <2>2. merged = data
    BY <1>2 DEF MergeRow
  <2> QED
    BY <2>1, <2>2
<1>3. CASE new.count # 0
  <2>1. merged = [k \in DOMAIN data \cup {key} |->
                    IF k # key THEN data[k]
                    ELSE IF k \in DOMAIN data THEN Combine(data[k], new) ELSE new]
    BY <1>3 DEF MergeRow
  <2>2. new.last \in new.values
    BY <1>3 DEF Exact
  <2>3. DOMAIN merged = {RowOf(n, columns) : n \in N \cup new.values}
    BY <1>1, <2>1, <2>2 DEF Shows
  <2>4. ASSUME NEW k \in DOMAIN merged, k # key
        PROVE  /\ merged[k] = data[k] /\ k \in DOMAIN data
               /\ InRow(N \cup new.values, k, columns) = InRow(N, k, columns)
    BY <1>1, <2>1, <2>4 DEF InRow
  <2>5. InRow(N \cup new.values, key, columns) = InRow(N, key, columns) \cup new.values
    BY <1>1 DEF InRow
  <2>6. CASE key \notin DOMAIN data
    <3>1. InRow(N, key, columns) = {} /\ merged[key] = new
      BY <2>1, <2>6 DEF InRow, Shows
    <3>2. merged[key].values = InRow(N \cup new.values, key, columns)
      BY <2>5, <3>1
    <3>3. IsFiniteSet(new.values) /\ new.count = Cardinality(new.values)
      BY DEF Exact
    <3> QED
      BY <2>3, <2>4, <3>1, <3>2, <3>3 DEF Shows
  <2>7. CASE key \in DOMAIN data
    <3>1. /\ merged[key].values = data[key].values \cup new.values
          /\ merged[key].count = data[key].count + new.count
      BY <2>1, <2>7 DEF Combine
    <3>2. /\ IsFiniteSet(data[key].values) /\ IsFiniteSet(new.values)
          /\ data[key].values \cap new.values = {}
          /\ data[key].values = InRow(N, key, columns)
          /\ data[key].count = Cardinality(data[key].values)
          /\ new.count = Cardinality(new.values)
      BY <2>7 DEF Shows, Exact, InRow
    <3>3. /\ IsFiniteSet(merged[key].values)
          /\ merged[key].count = Cardinality(merged[key].values)
      <4>1. Cardinality({}) = 0
        BY FS_EmptySet
      <4>2. /\ Cardinality(data[key].values) \in Nat
            /\ Cardinality(new.values) \in Nat
        BY <3>2, FS_CardinalityType
      <4> QED
        <5>1. /\ IsFiniteSet(data[key].values \cup new.values)
              /\ Cardinality(data[key].values \cup new.values) =
                   Cardinality(data[key].values) + Cardinality(new.values)
                     - Cardinality(data[key].values \cap new.values)
          BY <3>2, FS_Union
        <5>2. /\ IsFiniteSet(merged[key].values)
              /\ Cardinality(merged[key].values) =
                   Cardinality(data[key].values) + Cardinality(new.values) - 0
          BY <3>1, <3>2, <4>1, <5>1
        <5>3. merged[key].count = Cardinality(data[key].values) + Cardinality(new.values)
          BY <3>1, <3>2
        <5> QED
          BY <4>2, <5>2, <5>3
    <3>4. merged[key].values = InRow(N \cup new.values, key, columns)
      BY <2>5, <3>1, <3>2
    <3> QED
      BY <2>3, <2>4, <3>3, <3>4 DEF Shows
  <2> QED
    BY <2>6, <2>7
<1> QED
  BY <1>2, <1>3

\* The rows of a delta, in some order of their tag sets, are of calls that a view does
\* not show yet.
NewRows(rows, order, n, columns, N) ==
  /\ n \in Nat /\ DOMAIN rows = 1 .. n
  /\ \A k \in 1 .. n :
       /\ rows[k] = [key |-> ProjectTags(order[k], columns), new |-> rows[k].new]
       /\ Exact(rows[k].new) /\ rows[k].new.values \cap N = {}
       /\ \A m \in rows[k].new.values : log[m].tags = order[k]
  /\ \A j, k \in 1 .. n : j # k => order[j] # order[k]

\* Merging the rows of a delta one after the other.
LEMMA MergeRowsShow ==
  ASSUME NEW data, NEW columns, NEW N, Shows(data, columns, N),
         NEW rows, NEW order, NEW n, NewRows(rows, order, n, columns, N)
  PROVE  Shows(MergedRows(data, rows), columns,
               N \cup UNION {rows[k].new.values : k \in 1 .. n})
<1>0. /\ MergedRows(data, rows) = AfterRows(data, rows, n)
      /\ AfterRows(data, rows, 0) = data
      /\ \A k \in 1 .. n :
           AfterRows(data, rows, k) = MergeRow(AfterRows(data, rows, k - 1), rows[k])
  <2>1. n \in Nat /\ DOMAIN rows = 1 .. n
    BY DEF NewRows
  <2> QED
    BY ONLY <2>1, RowByRow
<1> USE DEF NewRows
<1> DEFINE Seen(k) == N \cup UNION {rows[j].new.values : j \in 1 .. k}
           Good(k) == Shows(AfterRows(data, rows, k), columns, Seen(k))
           Wrong == {k \in 0 .. n : ~Good(k)}
<1>1. Good(0)
  <2>1. Seen(0) = N
    OBVIOUS
  <2>2. AfterRows(data, rows, 0) = data
    BY <1>0
  <2> HIDE DEF Seen
  <2> QED
    BY <2>1, <2>2
<1>2. ASSUME NEW k \in 1 .. n, Good(k - 1) PROVE Good(k)
  <2> DEFINE new == rows[k].new
  <2>1. Seen(k) = Seen(k - 1) \cup new.values
    <3>1. 1 .. k = (1 .. k - 1) \cup {k}
      OBVIOUS
    <3> QED
      BY <3>1
  <2>2. new.values \cap Seen(k - 1) = {}
    <3>1. \A j \in 1 .. k - 1 : j \in 1 .. n /\ j # k
      OBVIOUS
    <3> QED
      BY <3>1
  <2>3. AfterRows(data, rows, k) = MergeRow(AfterRows(data, rows, k - 1), rows[k])
    BY <1>0
  <2>4. /\ rows[k] = [key |-> ProjectTags(order[k], columns), new |-> new]
        /\ Exact(new) /\ \A m \in new.values : log[m].tags = order[k]
    OBVIOUS
  <2> HIDE DEF new, Seen
  <2>5. Shows(MergeRow(AfterRows(data, rows, k - 1),
                       [key |-> ProjectTags(order[k], columns), new |-> new]),
              columns, Seen(k - 1) \cup new.values)
    BY <1>2, <2>2, <2>4, MergeRowShows
  <2> QED
    BY <2>1, <2>3, <2>4, <2>5
<1> HIDE DEF Good
<1>3. Wrong = {}
  <2> SUFFICES ASSUME Wrong # {} PROVE FALSE
    OBVIOUS
  <2>1. PICK k \in Wrong : \A j \in Wrong : k <= j
    <3>1. Wrong \in SUBSET Nat
      OBVIOUS
    <3> HIDE DEF Wrong
    <3> QED
      BY <3>1, Merges!SmallestNumber
  <2>2. k \in 1 .. n /\ k - 1 \in 0 .. n
    BY <1>1, <2>1
  <2>3. Good(k - 1)
    BY <2>1, <2>2
  <2> QED
    BY <1>2, <2>1, <2>2, <2>3
<1>4. Good(n)
  BY <1>3
<1> QED
  <2>1. MergedRows(data, rows) = AfterRows(data, rows, n)
    BY <1>0
  <2> QED
    BY <1>4, <2>1 DEF Good

----------------------------------------------------------------------------
\* Which views a step leaves, and which it makes.
SameView(v, w) ==
  v.descriptor = w.descriptor /\ v.data = w.data /\ v.since = w.since

\* Where no delta is merged, a view is kept or new.
LEMMA ViewSteps ==
  ASSUME ViewsInv, [Next]_vars
  PROVE  \/ \E t \in AllThreads : MergeDelta(t)
         \/ \A h \in DOMAIN info' :
              \/ h \in DOMAIN info /\ SameView(info'[h], info[h])
              \/ \E d : /\ d.measure \in DOMAIN measures_
                        /\ info'[h] = NewView(d)
                        /\ UNCHANGED <<delivered, log>>
<1> DEFINE Kept == \A h \in DOMAIN info' :
                     \/ h \in DOMAIN info /\ SameView(info'[h], info[h])
                     \/ \E d : /\ d.measure \in DOMAIN measures_
                               /\ info'[h] = NewView(d)
                               /\ UNCHANGED <<delivered, log>>
<1>1. ASSUME info' = info PROVE Kept
  BY <1>1 DEF SameView
<1>2. ASSUME NEW t \in Threads, Call(t) PROVE Kept
  <2>1. info' = info
    BY <1>2 DEF Call, RegisterImpl, GetMeasureByName, RegisterFails, Record, RecordFails,
       AddView, BeginView, RemoveView, Fail, manager
  <2> QED
    BY <1>1, <2>1
<1>3. ASSUME NEW t \in AllThreads,
             \/ Flush(t) \/ LockMu(t) \/ ManagerAddMeasure(t) \/ ManagerAddMeasureFails(t)
             \/ LockDelta(t) \/ BoundariesFound(t) \/ AddBoundariesFails(t)
             \/ SwapDeltas(t) \/ MergeDeltaFails(t) \/ ClearLastDelta(t)
             \/ AddConsumerFails(t)
      PROVE  Kept
  <2>1. info' = info
    BY <1>3 DEF Flush, LockMu, ManagerAddMeasure, ManagerAddMeasureFails, LockDelta,
       BoundariesFound, AddBoundariesFails, SwapDeltas, SwapTo, MergeDeltaFails,
       ClearLastDelta, ConsumedTo, AddConsumerFails, Fail, manager
  <2> QED
    BY <1>1, <2>1
<1>4. \A h \in DOMAIN info : IsView(info[h]) /\ info = [k \in DOMAIN info |-> info[k]]
  BY DEF ViewsInv, ViewsTyped
<1>5. ASSUME NEW h \in DOMAIN info, NEW n, info' = [info EXCEPT ![h].num_consumers = n]
      PROVE  Kept
  <2>1. /\ DOMAIN info' = DOMAIN info
        /\ info'[h] = [info[h] EXCEPT !.num_consumers = n]
        /\ \A k \in DOMAIN info : k # h => info'[k] = info[k]
    BY <1>4, <1>5
  <2>2. SameView(info'[h], info[h])
    BY <1>4, <2>1, CountSet DEF SameView
  <2> QED
    BY <2>1, <2>2 DEF SameView
<1>6. ASSUME NEW t \in AllThreads, NEW h \in Handles, ShareView(t, h) PROVE Kept
  <2>1. h \in DOMAIN info
    BY <1>6 DEF ShareView, ShareWith, Matching, ViewsInv, ViewsTyped
  <2> QED
    BY <1>5, <1>6, <2>1 DEF ShareView, ShareWith
<1>7. ASSUME NEW t \in AllThreads, NEW h \in Handles, CreateView(t, h) PROVE Kept
  <2>1. /\ descriptor_[t].measure \in DOMAIN measures_ /\ UNCHANGED <<delivered, log>>
        /\ info' = [k \in DOMAIN info \cup {h} |->
                      IF k = h THEN NewView(descriptor_[t]) ELSE info[k]]
    BY <1>7 DEF CreateView, program
  <2> QED
    BY <2>1 DEF SameView
<1>8. ASSUME NEW t \in AllThreads, RemoveConsumer(t) PROVE Kept
  <2> DEFINE h == handle_[t]
  <2>1. \/ info' = [k \in DOMAIN info \ {h} |-> info[k]]
        \/ info' = [info EXCEPT ![h].num_consumers = info[h].num_consumers - 1]
    BY <1>8 DEF RemoveConsumer
  <2>2. h \in DOMAIN info
    BY <1>8 DEF RemoveConsumer, Goto, ViewsInv, HandlesHeld, Counted, HandlesLead
  <2>3. CASE info' = [k \in DOMAIN info \ {h} |-> info[k]]
    BY <2>3 DEF SameView
  <2> QED
    BY <1>5, <2>1, <2>2, <2>3
<1>9. ASSUME UNCHANGED vars PROVE Kept
  BY <1>1, <1>9 DEF vars, manager
<1> HIDE DEF Kept
<1>10. Kept \/ \E t \in AllThreads : MergeDelta(t)
  <2>1. ASSUME NEW t \in AllThreads, Continue(t), ~MergeDelta(t) PROVE Kept
    BY <1>3, <1>6, <1>7, <1>8, <2>1 DEF Continue
  <2>2. ASSUME NEW t \in Flushers \cup {Harvester}, Flush(t) PROVE Kept
    BY <1>3, <2>2, ThreadsAssumption DEF AllThreads
  <2>3. CASE Next
    <3>1. \/ \E t \in Threads : Call(t)
          \/ \E t \in Flushers \cup {Harvester} : Flush(t)
          \/ \E t \in AllThreads : Continue(t)
      BY <2>3, Zenon DEF Next
    <3> QED
      BY <1>2, <2>1, <2>2, <3>1, Zenon
  <2> QED
    BY <1>9, <2>3
<1> QED
  BY <1>10 DEF Kept

----------------------------------------------------------------------------
\* What the stages say of the calls: those that were delivered, and those in a delta,
\* were recorded, each under its tag set.
LEMMA StagesLogged ==
  ASSUME Inv, SplitInv, NEW tags \in TagMaps, NEW i \in DOMAIN delivered[tags],
         NEW n \in delivered[tags][i].values \cup Pending(tags, i).values
  PROVE  n \in DOMAIN log /\ n \in Nat /\ log[n].tags = tags
<1>1. Split(delivered[tags][i], Pending(tags, i), DataFor(active_delta_, tags, i),
            RecordedFor(tags, i))
  BY DEF SplitInv
<1>2. n \in RecordedFor(tags, i)
  BY <1>1 DEF Split
<1> QED
  BY <1>2, InvTypes DEF RecordedFor

LEMMA DeliveredDomain ==
  ASSUME Inv, SplitInv
  PROVE  \A tags \in TagMaps : DOMAIN delivered[tags] = DOMAIN measures_
  BY InvTypes DEF SplitInv, DataTypeOK

\* A step that gives a view nothing, whatever else is recorded.
LEMMA CompleteKept ==
  ASSUME NEW v, NEW w, SameView(v, w), Complete(w),
         DOMAIN measures_ \subseteq DOMAIN measures_',
         DOMAIN log \subseteq DOMAIN log', \A n \in DOMAIN log : log'[n] = log[n],
         \A tags \in TagMaps :
           delivered'[tags][w.descriptor.measure] = delivered[tags][w.descriptor.measure],
         \A n \in DOMAIN log' :
           /\ log'[n].tags \in TagMaps
           /\ n \in delivered[log'[n].tags][w.descriptor.measure].values => n \in DOMAIN log
  PROVE  Complete(v)'
<1> SUFFICES ASSUME NEW N, N = Given(w) PROVE Complete(v)'
  OBVIOUS
<1>1. Given(v)' = N
  BY DEF Given, SameView
<1>2. \A n \in N : RowOf(n, w.descriptor.columns)' = RowOf(n, w.descriptor.columns)
  BY DEF Given, RowOf
<1>3. Shows(w.data, w.descriptor.columns, N)
  BY DEF Complete
<1>4. Shows(w.data, w.descriptor.columns, N)'
  <2>1. {RowOf(n, w.descriptor.columns) : n \in N}' = {RowOf(n, w.descriptor.columns) : n \in N}
    BY <1>2
  <2>2. \A k : InRow(N, k, w.descriptor.columns)' = InRow(N, k, w.descriptor.columns)
    BY <1>2 DEF InRow
  <2> QED
    BY <1>3, <2>1, <2>2 DEF Shows
<1>5. v.since \subseteq UNION {delivered'[tags][v.descriptor.measure].values : tags \in TagMaps}
  BY DEF Complete, SameView
<1>6. v.descriptor.measure \in DOMAIN measures_'
  BY DEF Complete, SameView
<1>7. (v.data = w.data /\ v.descriptor = w.descriptor) => Shows(v.data, v.descriptor.columns, N)'
  BY <1>4
<1>8. Shows(v.data, v.descriptor.columns, Given(v))'
  BY <1>1, <1>7 DEF SameView, Shows, InRow
<1> QED
  BY <1>5, <1>6, <1>8 DEF Complete

\* A view that is created has been given nothing.
LEMMA CompleteNew ==
  ASSUME Inv, SplitInv, NEW d, d.measure \in DOMAIN measures_,
         DOMAIN measures_ \subseteq DOMAIN measures_', UNCHANGED <<delivered, log>>,
         NEW v, v = NewView(d)
  PROVE  Complete(v)'
<1>1. /\ v.descriptor = d /\ v.data = [k \in {} |-> NoData]
      /\ v.since = UNION {delivered[tags][d.measure].values : tags \in TagMaps}
  BY DEF NewView
<1>2. \A n \in DOMAIN log : log[n].tags \in TagMaps
  BY LoggedTags
<1>3. Given(v)' = {}
  BY <1>1, <1>2 DEF Given
<1>4. Shows(v.data, v.descriptor.columns, {})'
  BY <1>1 DEF Shows
<1>5. v.since \subseteq UNION {delivered'[tags][v.descriptor.measure].values : tags \in TagMaps}
  BY <1>1
<1>6. v.descriptor.measure \in DOMAIN measures_'
  BY <1>1
<1>7. Shows(v.data, v.descriptor.columns, Given(v))'
  BY <1>3, <1>4 DEF Shows, InRow
<1> QED
  BY <1>5, <1>6, <1>7 DEF Complete

\* The order in which MergeDelta visits the rows is one of all of them, each once.
LEMMA OrderOfRows ==
  ASSUME NEW S, IsFiniteSet(S), NEW order \in SetToSeqs(S), NEW n, n = Cardinality(S)
  PROVE  /\ n \in Nat /\ DOMAIN order = 1 .. n
         /\ \A j, k \in 1 .. n : j # k => order[j] # order[k]
         /\ \A x : x \in S <=> \E k \in 1 .. n : order[k] = x
<1>1. n \in Nat
  BY FS_CardinalityType
<1>2. order \in [1 .. n -> S] /\ \A j, k \in 1 .. n : j # k => order[j] # order[k]
  BY DEF SetToSeqs
<1>3. order \in Injection(1 .. n, S)
  BY <1>2 DEF Injection, IsInjective
<1>4. Cardinality(1 .. n) = n
  <2>1. \A m \in Nat : Cardinality(1 .. m) = m
    <3> SUFFICES ASSUME NEW m \in Nat PROVE Cardinality(1 .. m) = m
      OBVIOUS
    <3>1. Cardinality(1 .. m) = IF 1 > m THEN 0 ELSE m - 1 + 1
      BY FS_Interval
    <3> QED
      BY <3>1
  <2> QED
    BY <1>1, <2>1
<1>5. order \in Surjection(1 .. n, S)
  <2> DEFINE D == 1 .. n
  <2>1. order \in Injection(D, S) /\ Cardinality(D) = Cardinality(S)
    BY <1>3, <1>4
  <2> HIDE DEF D
  <2>2. order \in Surjection(D, S)
    BY <2>1, FS_Injection
  <2> QED
    BY <2>2 DEF D
<1> QED
  BY <1>1, <1>2, <1>5 DEF Surjection

\* MergeDelta gives a view what the delta has for its measure.
LEMMA CompleteMerged ==
  ASSUME Inv, SplitInv, RowsFinite, NEW t \in AllThreads, MergeDelta(t),
         NEW w, IsView(w), Complete(w),
         NEW order \in SetToSeqs(DOMAIN last_delta_.rows),
         NEW v, v = MergedView(w, last_delta_, order)
  PROVE  Complete(v)'
<1> SUFFICES ASSUME NEW N, N = Given(w), NEW rows, rows = RowsFor(w, last_delta_, order),
                    NEW n, n = Cardinality(DOMAIN last_delta_.rows),
                    NEW i, i = w.descriptor.measure,
                    NEW columns, columns = w.descriptor.columns,
                    NEW P, P = [tags \in TagMaps |-> Pending(tags, i).values],
                    NEW D, D = [tags \in TagMaps |-> delivered[tags][i].values]
             PROVE  Complete(v)'
  OBVIOUS
<1>1. /\ n \in Nat /\ DOMAIN order = 1 .. n
      /\ \A j, k \in 1 .. n : j # k => order[j] # order[k]
      /\ \A tags : tags \in DOMAIN last_delta_.rows <=> \E k \in 1 .. n : order[k] = tags
  BY OrderOfRows DEF RowsFinite
<1>2. i \in DOMAIN measures_ /\ \A tags \in TagMaps : i \in DOMAIN delivered[tags]
  BY DeliveredDomain DEF Complete
<1>3. DOMAIN last_delta_.rows \subseteq TagMaps
  BY InvTypes DEF DataTypeOK, IsDelta
<1>4. ~Merged
  BY InvTypes DEF MergeDelta, Goto, Merged, MutexOwners, ControlTypeOK
<1>5. /\ DOMAIN rows = 1 .. n
      /\ \A k \in 1 .. n :
           /\ order[k] \in TagMaps
           /\ rows[k] = [key |-> ProjectTags(order[k], columns), new |-> rows[k].new]
           /\ rows[k].new = Pending(order[k], i)
           /\ rows[k].new.values = P[order[k]]
  <2>1. \A tags : Pending(tags, i) = DataFor(last_delta_, tags, i)
    BY <1>4, PendingCases
  <2> QED
    BY <1>1, <1>3, <2>1 DEF RowsFor
<1>6. \A tags \in TagMaps :
        /\ Exact(Pending(tags, i)) /\ Older(delivered[tags][i], Pending(tags, i))
        /\ \A m \in D[tags] \cup P[tags] :
             m \in DOMAIN log /\ m \in Nat /\ log[m].tags = tags
  BY <1>2, StagesLogged DEF SplitInv, Split
<1>7. \A tags \in TagMaps : P[tags] \cap D[tags] = {}
  BY <1>6 DEF Older
<1>8. \A tags \in TagMaps : tags \notin DOMAIN last_delta_.rows => P[tags] = {}
  BY <1>4, PendingCases DEF DataFor, NoData
<1>9. \A tags \in TagMaps : delivered'[tags][i].values = D[tags] \cup P[tags]
  <2> SUFFICES ASSUME NEW tags \in TagMaps
               PROVE  delivered'[tags][i].values = D[tags] \cup P[tags]
    OBVIOUS
  <2>1. delivered'[tags][i] = IF Pending(tags, i).count = 0 THEN delivered[tags][i]
                              ELSE Combine(delivered[tags][i], Pending(tags, i))
    BY <1>2, MergeEffect
  <2>2. Pending(tags, i).count = 0 => P[tags] = {}
    BY <1>6, ExactEmpty
  <2> QED
    BY <2>1, <2>2 DEF Combine
<1>10. w.since \subseteq UNION {D[tags] : tags \in TagMaps}
  BY DEF Complete
<1>11. \A tags \in TagMaps : P[tags] \cap w.since = {}
  BY <1>6, <1>7, <1>10
<1>12. \A m : m \in N <=> /\ m \in DOMAIN log /\ m \notin w.since
                          /\ log[m].tags \in TagMaps /\ m \in D[log[m].tags]
  BY LoggedTags DEF Given
<1>13. /\ v.data = MergedRows(w.data, rows)
       /\ v.descriptor = w.descriptor /\ v.since = w.since
  <2>1. PICK y : v = WithData(w, MergedRows(w.data, rows), y)
    BY Zenon DEF MergedView, WithData, MergedRows
  <2> QED
    BY <2>1, DataSet
<1>14. log' = log /\ measures_' = measures_
  BY MergeEffect
<1>15. Given(v)' = N \cup UNION {P[tags] : tags \in TagMaps}
  <2>1. \A m : m \in Given(v)' <=>
                 /\ m \in DOMAIN log /\ m \notin w.since
                 /\ m \in D[log[m].tags] \cup P[log[m].tags] /\ log[m].tags \in TagMaps
    BY <1>9, <1>13, <1>14, LoggedTags DEF Given
  <2>2. \A tags \in TagMaps : \A m \in P[tags] :
          m \in DOMAIN log /\ log[m].tags = tags /\ m \notin w.since
    BY <1>6, <1>11
  <2> QED
    BY <1>12, <2>1, <2>2
<1>16. UNION {P[tags] : tags \in TagMaps} = UNION {rows[k].new.values : k \in 1 .. n}
  <2>1. ASSUME NEW tags \in TagMaps, NEW m \in P[tags]
        PROVE  \E k \in 1 .. n : m \in rows[k].new.values
    <3>1. tags \in DOMAIN last_delta_.rows
      BY <1>8, <2>1
    <3>2. PICK k \in 1 .. n : order[k] = tags
      BY <1>1, <3>1
    <3> QED
      BY <1>5, <3>2
  <2>2. ASSUME NEW k \in 1 .. n PROVE order[k] \in TagMaps /\ rows[k].new.values = P[order[k]]
    BY <1>5
  <2> QED
    BY <2>1, <2>2
<1>17. \A k \in 1 .. n :
         /\ Exact(rows[k].new) /\ rows[k].new.values \cap N = {}
         /\ \A m \in rows[k].new.values : log[m].tags = order[k]
  BY <1>5, <1>6, <1>7, <1>12
<1>18. Shows(MergedRows(w.data, rows), columns, N \cup UNION {rows[k].new.values : k \in 1 .. n})
  <2>1. Shows(w.data, columns, N)
    BY DEF Complete
  <2>2. NewRows(rows, order, n, columns, N)
    BY <1>1, <1>5, <1>17 DEF NewRows
  <2> QED
    BY <2>1, <2>2, MergeRowsShow
<1>19. Shows(v.data, v.descriptor.columns, Given(v))'
  <2> SUFFICES ASSUME NEW M, M = Given(v)'
               PROVE  Shows(v.data, v.descriptor.columns, M)'
    BY DEF Shows, InRow
  <2>1. Shows(v.data, columns, M)
    BY <1>13, <1>15, <1>16, <1>18
  <2> QED
    BY <1>13, <1>14, <2>1 DEF Shows, InRow, RowOf
<1>20. v.since \subseteq UNION {delivered'[tags][v.descriptor.measure].values : tags \in TagMaps}
  BY <1>9, <1>10, <1>13
<1> QED
  BY <1>2, <1>13, <1>14, <1>19, <1>20 DEF Complete

\* No step makes infinitely many rows.
LEMMA RowsStep ==
  Inv /\ RowsFinite /\ [Next]_vars => RowsFinite'
<1> SUFFICES ASSUME Inv, RowsFinite, [Next]_vars PROVE RowsFinite'
  OBVIOUS
<1>1. ASSUME UNCHANGED producer PROVE RowsFinite'
  BY <1>1 DEF producer, RowsFinite
<1>2. ASSUME NEW t \in Threads, NEW ms \in MeasurementLists, NEW tags \in TagMaps,
             Record(t, ms, tags)
      PROVE  RowsFinite'
  <2>1. /\ DOMAIN active_delta_'.rows = DOMAIN active_delta_.rows \cup {tags}
        /\ last_delta_' = last_delta_
    BY <1>2 DEF Record, DeltaRecord
  <2> QED
    BY <2>1, FS_AddElement DEF RowsFinite
<1>3. ASSUME NEW t \in AllThreads, SwapDeltas(t) PROVE RowsFinite'
  <2>1. DOMAIN active_delta_'.rows = {} /\ last_delta_' = active_delta_
    BY <1>3 DEF SwapDeltas, SwapTo, ResetDelta, EmptyDelta
  <2> QED
    BY <2>1, FS_EmptySet DEF RowsFinite
<1>4. ASSUME NEW t \in AllThreads, ClearLastDelta(t) PROVE RowsFinite'
  <2>1. DOMAIN last_delta_'.rows = {} /\ active_delta_' = active_delta_
    BY <1>4 DEF ClearLastDelta, ConsumedTo, EmptyDelta
  <2> QED
    BY <2>1, FS_EmptySet DEF RowsFinite
<1>5. ASSUME NEW t \in AllThreads, ManagerAddMeasure(t) \/ MergeDelta(t)
      PROVE  UNCHANGED producer
  BY <1>5 DEF ManagerAddMeasure, MergeDelta
<1> QED
  BY <1>1, <1>2, <1>3, <1>4, <1>5, DataSteps, InvTypes

\* What a view is given in a step it shows after the step.
LEMMA ShownStep ==
  Inv /\ SplitInv /\ ViewsInv /\ ShownInv /\ [Next]_vars => ShownInv'
<1> SUFFICES ASSUME Inv, SplitInv, ViewsInv, ShownInv, [Next]_vars PROVE ShownInv'
  OBVIOUS
<1>1. RowsFinite'
  BY RowsStep DEF ShownInv
<1>2. ASSUME NEW h \in DOMAIN info', NEW v, v = info'[h], Complete(v)'
      PROVE  Complete(info[h])'
  BY <1>2 DEF Complete, Given, Shows, InRow, RowOf
<1>3. ASSUME NEW t \in AllThreads, MergeDelta(t), NEW h \in DOMAIN info'
      PROVE  Complete(info[h])'
  <2>1. PICK order \in SetToSeqs(DOMAIN last_delta_.rows) :
          info' = [k \in DOMAIN info |-> MergedView(info[k], last_delta_, order)]
    BY <1>3 DEF MergeDelta
  <2>2. h \in DOMAIN info /\ info'[h] = MergedView(info[h], last_delta_, order)
    BY <1>3, <2>1
  <2>3. IsView(info[h]) /\ Complete(info[h]) /\ RowsFinite
    BY <2>2 DEF ViewsInv, ViewsTyped, ShownInv
  <2> SUFFICES ASSUME NEW v, v = info'[h], NEW w, w = info[h] PROVE Complete(v)'
    BY <1>2, <1>3
  <2>4. v = MergedView(w, last_delta_, order) /\ IsView(w) /\ Complete(w)
    BY <2>2, <2>3
  <2> QED
    BY <1>3, <2>3, <2>4, CompleteMerged
<1>4. DOMAIN measures_ \subseteq DOMAIN measures_'
  <2>1. measures_ \in Seq(SUBSET Handles)
    BY InvTypes DEF DataTypeOK
  <2>2. ASSUME NEW t \in AllThreads, ManagerAddMeasure(t)
        PROVE  DOMAIN measures_ \subseteq DOMAIN measures_'
    BY <2>1, <2>2 DEF ManagerAddMeasure
  <2> QED
    BY <2>1, <2>2, MeasuresSteps
<1>5. ASSUME NEW i \in DOMAIN measures_, \A t \in AllThreads : ~MergeDelta(t)
      PROVE  /\ DOMAIN log \subseteq DOMAIN log'
             /\ \A n \in DOMAIN log : log'[n] = log[n]
             /\ \A tags \in TagMaps : delivered'[tags][i] = delivered[tags][i]
             /\ \A n \in DOMAIN log' :
                  /\ log'[n].tags \in TagMaps
                  /\ n \in delivered[log'[n].tags][i].values => n \in DOMAIN log
  <2>1. \A tags \in TagMaps : i \in DOMAIN delivered[tags]
    BY <1>5, DeliveredDomain
  <2>2. ASSUME UNCHANGED log
        PROVE  \A n \in DOMAIN log' :
                 /\ log'[n].tags \in TagMaps
                 /\ n \in delivered[log'[n].tags][i].values => n \in DOMAIN log
    BY <2>2, LoggedTags
  <2>3. ASSUME NEW t \in Threads, NEW ms \in MeasurementLists, NEW tg \in TagMaps,
               Record(t, ms, tg)
        PROVE  /\ DOMAIN log \subseteq DOMAIN log' /\ delivered' = delivered
               /\ \A n \in DOMAIN log : log'[n] = log[n]
               /\ \A n \in DOMAIN log' :
                    /\ log'[n].tags \in TagMaps
                    /\ n \in delivered[log'[n].tags][i].values => n \in DOMAIN log
    <3>1. /\ log' = Append(log, [measurements |-> ms, tags |-> tg])
          /\ delivered' = delivered
      BY <2>3, RecordEffect
    <3>2. /\ DOMAIN log' = DOMAIN log \cup {Len(log) + 1}
          /\ log'[Len(log) + 1].tags = tg
          /\ \A n \in DOMAIN log : log'[n] = log[n]
      BY <3>1, InvTypes
    <3>3. ASSUME NEW n \in delivered[tg][i].values PROVE n \in DOMAIN log
      BY <2>1, StagesLogged
    <3> QED
      BY <3>1, <3>2, <3>3, LoggedTags
  <2>4. ASSUME NEW t \in AllThreads, ManagerAddMeasure(t)
        PROVE  log' = log /\ \A tags \in TagMaps : delivered'[tags][i] = delivered[tags][i]
    <3>1. /\ log' = log
          /\ \A tags \in TagMaps : delivered'[tags] = Append(delivered[tags], NoData)
      BY <2>4, AddMeasureEffect DEF SplitInv
    <3>2. \A tags \in TagMaps : delivered[tags] \in Seq(Data)
      BY InvTypes DEF DataTypeOK
    <3> QED
      BY <2>1, <3>1, <3>2
  <2>5. ASSUME NEW t \in AllThreads, SwapDeltas(t) \/ ClearLastDelta(t)
        PROVE  UNCHANGED <<delivered, log>>
    BY <2>5, SwapEffect, ClearEffect
  <2> QED
    BY <1>5, <2>2, <2>3, <2>4, <2>5, DataSteps, InvTypes
<1>6. ASSUME \A t \in AllThreads : ~MergeDelta(t), NEW h \in DOMAIN info'
      PROVE  Complete(info[h])'
  <2>1. CASE h \in DOMAIN info /\ SameView(info'[h], info[h])
    <3> SUFFICES ASSUME NEW v, v = info'[h], NEW w, w = info[h] PROVE Complete(v)'
      BY <1>2, <1>6
    <3>1. SameView(v, w) /\ Complete(w)
      BY <2>1 DEF ShownInv
    <3>2. w.descriptor.measure \in DOMAIN measures_
      BY <3>1 DEF Complete
    <3> QED
      BY <1>4, <1>5, <1>6, <3>1, <3>2, CompleteKept
  <2>2. ASSUME NEW d, d.measure \in DOMAIN measures_, info'[h] = NewView(d),
               UNCHANGED <<delivered, log>>
        PROVE  Complete(info[h])'
    <3> SUFFICES ASSUME NEW v, v = info'[h] PROVE Complete(v)'
      BY <1>2, <1>6
    <3> QED
      BY <1>4, <2>2, CompleteNew
  <2> QED
    BY <1>6, <2>1, <2>2, ViewSteps
<1> QED
  BY <1>1, <1>3, <1>6 DEF ShownInv

\* ViewsComplete holds in every reachable state: what GetData shows is what was recorded
\* since the view was created and has been harvested, whatever other tags the rows that
\* are merged have, and in any order of the rows.
THEOREM ViewsShowAll == Spec => []ViewsComplete
<1>1. Init => ShownInv
  BY FS_EmptySet DEF Init, ShownInv, RowsFinite, EmptyDelta
<1>2. Inv /\ SplitInv /\ ViewsInv /\ ShownInv /\ [Next]_vars => ShownInv'
  BY ShownStep
<1>3. Inv /\ SplitInv /\ ShownInv => ViewsComplete
  <2> SUFFICES ASSUME Inv, SplitInv, ShownInv, NEW h \in DOMAIN info
               PROVE  LET v == info[h]
                          Shown(k) == {n \in DOMAIN log \ v.since :
                            /\ ProjectTags(log[n].tags, v.descriptor.columns) = k
                            /\ n \in delivered[log[n].tags][v.descriptor.measure].values}
                      IN /\ DOMAIN v.data =
                              {ProjectTags(log[n].tags, v.descriptor.columns) :
                                 n \in (UNION {delivered[tags][v.descriptor.measure].values :
                                                 tags \in TagMaps}) \ v.since}
                         /\ \A k \in DOMAIN v.data :
                              /\ v.data[k].values = Shown(k)
                              /\ v.data[k].count = Cardinality(Shown(k))
    BY DEF ViewsComplete
  <2>1. Complete(info[h])
    BY DEF ShownInv
  <2>2. (UNION {delivered[tags][info[h].descriptor.measure].values : tags \in TagMaps})
          \ info[h].since = Given(info[h])
    <3>1. \A tags \in TagMaps : info[h].descriptor.measure \in DOMAIN delivered[tags]
      BY <2>1, DeliveredDomain DEF Complete
    <3>2. \A tags \in TagMaps :
            \A n \in delivered[tags][info[h].descriptor.measure].values :
              n \in DOMAIN log /\ log[n].tags = tags
      BY <3>1, StagesLogged
    <3>3. \A n \in DOMAIN log : log[n].tags \in TagMaps
      BY LoggedTags
    <3> SUFFICES ASSUME NEW v, v = info[h], NEW i, i = v.descriptor.measure
                 PROVE  (UNION {delivered[tags][i].values : tags \in TagMaps}) \ v.since
                          = {n \in DOMAIN log \ v.since : n \in delivered[log[n].tags][i].values}
      BY DEF Given
    <3> DEFINE U == UNION {delivered[tags][i].values : tags \in TagMaps}
    <3>4. \A n : n \in U <=> n \in DOMAIN log /\ n \in delivered[log[n].tags][i].values
      BY <3>2, <3>3
    <3> QED
      BY <3>4, Zenon
  <2>3. Shows(info[h].data, info[h].descriptor.columns, Given(info[h]))
    BY <2>1 DEF Complete
  <2> DEFINE v == info[h]
             Shown(k) == {n \in DOMAIN log \ v.since :
               /\ ProjectTags(log[n].tags, v.descriptor.columns) = k
               /\ n \in delivered[log[n].tags][v.descriptor.measure].values}
  <2>4. \A k : Shown(k) = InRow(Given(v), k, v.descriptor.columns)
    BY DEF InRow, Given, RowOf
  <2>5. DOMAIN v.data = {ProjectTags(log[n].tags, v.descriptor.columns) : n \in Given(v)}
    BY <2>3 DEF Shows, RowOf
  <2>6. \A k \in DOMAIN v.data :
          /\ v.data[k].values = InRow(Given(v), k, v.descriptor.columns)
          /\ v.data[k].count = Cardinality(v.data[k].values)
    BY <2>3 DEF Shows
  <2> HIDE DEF Shown
  <2>7. \A k \in DOMAIN v.data : /\ v.data[k].values = Shown(k)
                                 /\ v.data[k].count = Cardinality(Shown(k))
    BY <2>4, <2>6
  <2> QED
    BY <2>2, <2>5, <2>7 DEF Shown
<1>4. Spec => []ViewsInv
  <2>1. Inv /\ ViewsInv /\ [Next]_vars => ViewsInv'
    BY HeldStep, CountedStep DEF ViewsInv
  <2> QED
    BY <2>1, ViewsInit, Invariance, PTL DEF Spec
<1> QED
  BY <1>1, <1>2, <1>3, <1>4, SplitInvariance, PTL DEF Spec
=============================================================================
