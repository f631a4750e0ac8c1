--------------------------- MODULE Registrations ---------------------------
(***************************************************************************)
(* Measures, ViewDescriptors and Views: what names, ids and types say of   *)
(* each other, through MeasureRegistryImpl and StatsManager.  One call at   *)
(* a time; StatsPipeline has the threads and the data.                     *)
(*                                                                         *)
(* The id of a measure is an index with a type bit and a validity bit      *)
(* above it.  Vectors are sequences, so index i of the code is i + 1 here.  *)
(***************************************************************************)
EXTENDS Integers, Sequences, FiniteSets, SequencesExt, ViewTypes

CONSTANTS
  kIndexes,     \* kIndexMask + 1, 2^62
  MeasureNames, \* names that are registered and looked up
  Units,        \* the description and the units of a measure
  Descriptors,  \* the program's ViewDescriptors
  Locals,       \* the program's Views
  ViewNames,    \* names given to set_name
  Aggregations, AggregationWindows, Columns, ExpiryDurations, \* given to the other setters
  UnsetMeasures, \* whether Views are made of descriptors without a measure
  MaxCalls      \* bound

ASSUME IndexAssumption == kIndexes \in Nat \ {0}

VARIABLES
  registered_descriptors_, id_map_, \* MeasureRegistryImpl
  measures_,   \* StatsManager: the ViewInformations of each measure
  held,        \* the Measures the program has, with what it asked for
  descriptors, \* the ViewDescriptors
  views_,      \* the Views of the program, and those of the exporter by name
  made, calls  \* history: the ViewInformations made, and the calls

registrationVars ==
  <<registered_descriptors_, id_map_, measures_, held, descriptors, views_, made, calls>>

Null == 0
Types == {"double", "int64"}

\* Aggregation and AggregationWindow: values, compared field by field.
NoBuckets == <<>>
Aggregation(type, boundaries) == [type |-> type, bucket_boundaries |-> boundaries]
InfiniteDuration == 1000
Window(type, duration) == [type |-> type, duration |-> duration]

Sum == Aggregation("sum", NoBuckets)
Cumulative == Window("cumulative", InfiniteDuration)

----------------------------------------------------------------------------
\* Measure ids.
kIntType == kIndexes
kValid == 2 * kIndexes

CreateMeasureId(index, is_valid, type) ==
  index + (IF is_valid THEN kValid ELSE 0) + (IF type = "double" THEN 0 ELSE kIntType)

IdValid(id) == (id \div kValid) % 2 = 1
IdToIndex(id) == id % kIndexes
IdToType(id) == IF (id \div kIntType) % 2 = 0 THEN "double" ELSE "int64"

\* MeasureDouble::IsValid, MeasureInt64::IsValid: the id's type is the measure's.
IsValid(measure) == IdValid(measure.id) /\ IdToType(measure.id) = measure.type

----------------------------------------------------------------------------
\* MeasureRegistryImpl.
MeasureDescriptor(name, units, type) == [name |-> name, units |-> units, type |-> type]
DefaultDescriptor == MeasureDescriptor("", "", "double")

\* What is at the index of an id.
AtIndex(id) == registered_descriptors_[IdToIndex(id) + 1]

GetIdByName(name) ==
  IF name \in DOMAIN id_map_ THEN id_map_[name] ELSE CreateMeasureId(0, FALSE, "double")

GetDescriptorByName(name) ==
  IF name \in DOMAIN id_map_ THEN AtIndex(id_map_[name]) ELSE DefaultDescriptor

GetDescriptor(measure) == IF IsValid(measure) THEN AtIndex(measure.id) ELSE DefaultDescriptor

\* A call, within the bound.
Call == calls < MaxCalls /\ calls' = calls + 1

\* The program is given a measure of `type` by the name it asked for; known is what
\* it may expect: the type under which this call or an earlier one registered it.
Give(name, type, id, known) ==
  held' = held \cup {[name |-> name, type |-> type, id |-> id, known |-> known]}

\* StatsManager::AddMeasure, with a MeasureInformation that has no views.
NoViews == <<>>
AddMeasure(measures) == Append(measures, NoViews)

\* Register, and RegisterImpl: a new name, told to the StatsManager.
Register(name, units, type) ==
  LET id == CreateMeasureId(Len(registered_descriptors_), TRUE, type) IN
  /\ Call /\ name # "" /\ name \notin DOMAIN id_map_
  /\ Len(registered_descriptors_) < kIndexes
  /\ id_map_' = [n \in DOMAIN id_map_ \cup {name} |-> IF n = name THEN id ELSE id_map_[n]]
  /\ registered_descriptors_' =
       Append(registered_descriptors_, MeasureDescriptor(name, units, type))
  /\ measures_' = AddMeasure(measures_)
  /\ Give(name, type, id, type)
  /\ UNCHANGED <<descriptors, views_, made>>

\* An empty name, or one that is registered.
RegisterFails(name, type) ==
  /\ Call /\ name \in {""} \cup DOMAIN id_map_
  /\ Give(name, type, CreateMeasureId(0, FALSE, type), "none")
  /\ UNCHANGED <<registered_descriptors_, id_map_, measures_, descriptors, views_, made>>

\* GetMeasureDoubleByName, GetMeasureInt64ByName: of any type, if there is one.
GetMeasureByName(name, type) ==
  /\ Call
  /\ Give(name, type, GetIdByName(name),
          IF name \in DOMAIN id_map_ THEN GetDescriptorByName(name).type ELSE "none")
  /\ UNCHANGED <<registered_descriptors_, id_map_, measures_, descriptors, views_, made>>

----------------------------------------------------------------------------
\* ViewDescriptor.

\* The constructor gives no value to measure_id_: it has what is in memory, the id of
\* a destroyed descriptor for instance.
NewViewDescriptor(memory) ==
  [name |-> "", measure_name |-> "", measure_id |-> memory, aggregation |-> Sum,
   window |-> Cumulative, columns |-> <<>>, expiry_duration |-> 0]

Memory == {0} \cup {id_map_[name] : name \in DOMAIN id_map_}

\* set_measure looks the id up once, and keeps it.
SetMeasure(descriptor, name) ==
  [descriptor EXCEPT !.measure_name = name, !.measure_id = GetIdByName(name)]

\* The setters, and SetAggregationWindow.
Changed(d) ==
  {SetMeasure(d, name) : name \in MeasureNames}
    \cup {[d EXCEPT !.name = name] : name \in ViewNames}
    \cup {[d EXCEPT !.aggregation = aggregation] : aggregation \in Aggregations}
    \cup {[d EXCEPT !.window = window] : window \in AggregationWindows}
    \cup {[d EXCEPT !.columns = Append(@, column)] : column \in Columns}
    \cup {[d EXCEPT !.expiry_duration = expiry] : expiry \in ExpiryDurations}

Declare(k) ==
  /\ Call
  /\ \E memory \in Memory : descriptors' = [descriptors EXCEPT ![k] = NewViewDescriptor(memory)]
  /\ UNCHANGED <<registered_descriptors_, id_map_, measures_, held, views_, made>>

SetDescriptor(k) ==
  /\ Call
  /\ \E d \in Changed(descriptors[k]) : descriptors' = [descriptors EXCEPT ![k] = d]
  /\ UNCHANGED <<registered_descriptors_, id_map_, measures_, held, views_, made>>

\* operator==: of the measure only the id.
SameDescriptor(a, b) ==
  /\ a.name = b.name /\ a.measure_id = b.measure_id /\ a.aggregation = b.aggregation
  /\ a.window = b.window /\ a.columns = b.columns /\ a.expiry_duration = b.expiry_duration

----------------------------------------------------------------------------
\* StatsManager and View.

\* The measure whose type the data takes is looked up by name, when it is made.
DataType(d) ==
  TypeForDescriptor([window |-> d.window.type, aggregation |-> d.aggregation.type,
                     measure |-> GetDescriptorByName(d.measure_name).type])

\* Mutant: the window is not compared.
MatchesInAnyWindow(info, d) ==
  /\ info.descriptor.aggregation = d.aggregation
  /\ info.descriptor.columns = d.columns

\* ViewInformation::Matches
Matches(info, d) ==
  /\ info.descriptor.aggregation = d.aggregation
  /\ info.descriptor.window = d.window
  /\ info.descriptor.columns = d.columns

NewViewInformation(d) ==
  [id |-> made + 1, descriptor |-> d, type |-> DataType(d), num_consumers |-> 1]

\* MeasureInformation::AddConsumer: the first that matches, or a new one, and its handle.
Consumed(infos, d) ==
  LET found == {i \in DOMAIN infos : Matches(infos[i], d)}
      first == Min(found)
  IN IF found = {} THEN [views |-> Append(infos, NewViewInformation(d)), handle |-> made + 1]
     ELSE [views |-> [infos EXCEPT ![first].num_consumers = @ + 1], handle |-> infos[first].id]

\* StatsManager::AddConsumer: the measures after it, and the handle.
AddConsumer(d) ==
  LET index == IdToIndex(d.measure_id) + 1 IN
  IF ~IdValid(d.measure_id) THEN [measures |-> measures_, handle |-> Null]
  ELSE LET consumed == Consumed(measures_[index], d) IN
       [measures |-> [measures_ EXCEPT ![index] = consumed.views], handle |-> consumed.handle]

\* MeasureInformation::RemoveView erases the first that is the handle, if one is.
RemoveView(infos, handle) ==
  LET found == {i \in DOMAIN infos : infos[i].id = handle} IN
  IF found = {} THEN infos ELSE RemoveAt(infos, Min(found))

\* StatsManager::RemoveConsumer: with the last one the ViewInformation goes, from the
\* measure of its descriptor.
RemoveConsumer(measures, handle) ==
  LET at == CHOOSE p \in UNION {{i} \X DOMAIN measures[i] : i \in DOMAIN measures} :
              measures[p[1]][p[2]].id = handle
      info == measures[at[1]][at[2]]
      index == IdToIndex(info.descriptor.measure_id) + 1
  IN IF handle = Null THEN measures
     ELSE IF info.num_consumers = 1
     THEN [measures EXCEPT ![index] = RemoveView(@, handle)]
     ELSE [measures EXCEPT ![at[1]][at[2]].num_consumers = @ - 1]

\* A View under a key, with the destruction of the one that was there.
PutView(key, d) ==
  LET added == AddConsumer(d) IN
  /\ made' = made + 1
  /\ views_' = [k \in DOMAIN views_ \cup {key} |->
                 IF k = key THEN [descriptor |-> d, handle |-> added.handle] ELSE views_[k]]
  /\ measures_' = IF key \in DOMAIN views_
                  THEN RemoveConsumer(added.measures, views_[key].handle) ELSE added.measures

\* Whether the program makes a View of a descriptor.
Viewed(d) == UnsetMeasures \/ d.measure_name # ""

\* View::View
MakeView(v, k) ==
  /\ Call /\ Viewed(descriptors[k]) /\ <<"local", v>> \notin DOMAIN views_
  /\ PutView(<<"local", v>>, descriptors[k])
  /\ UNCHANGED <<registered_descriptors_, id_map_, held, descriptors>>

\* View::~View: an invalid View, without a handle, has no consumer to remove.
DestroyView(v) ==
  LET key == <<"local", v>> IN
  /\ Call /\ key \in DOMAIN views_
  /\ views_' = [other \in DOMAIN views_ \ {key} |-> views_[other]]
  /\ measures_' = RemoveConsumer(measures_, views_[key].handle)
  /\ UNCHANGED <<registered_descriptors_, id_map_, held, descriptors, made>>

\* RegisterForExport: the exporter keeps a View by the name of the descriptor.
RegisterForExport(k) ==
  /\ Call /\ Viewed(descriptors[k]) /\ Exported([window |-> descriptors[k].window.type])
  /\ PutView(<<"exported", descriptors[k].name>>, descriptors[k])
  /\ UNCHANGED <<registered_descriptors_, id_map_, held, descriptors>>

RegistrationInit ==
  /\ registered_descriptors_ = <<>> /\ id_map_ = <<>> /\ measures_ = <<>>
  /\ held = {}
  /\ descriptors = [k \in Descriptors |-> NewViewDescriptor(0)]
  /\ views_ = <<>> /\ made = 0 /\ calls = 0

\* The calls of the program: of Measure, of MeasureRegistry, of ViewDescriptor and of View.
MeasureCalls ==
  \E name \in MeasureNames, type \in Types :
    \/ \E units \in Units : Register(name, units, type)
    \/ RegisterFails(name, type)

RegistryCalls == \E name \in MeasureNames, type \in Types : GetMeasureByName(name, type)

DescriptorCalls ==
  \E k \in Descriptors : Declare(k) \/ SetDescriptor(k) \/ RegisterForExport(k)

ViewCalls == \E v \in Locals : DestroyView(v) \/ \E k \in Descriptors : MakeView(v, k)

RegistrationNext == MeasureCalls \/ RegistryCalls \/ DescriptorCalls \/ ViewCalls

RegistrationSpec == RegistrationInit /\ [][RegistrationNext]_registrationVars

----------------------------------------------------------------------------
\* A name stands for one measure for ever: its id has the index and the type of its
\* descriptor, and a Measure that the program was given is valid just if a measure of
\* its own type had the name by then, and is that measure.
MeasuresAgree ==
  /\ Len(registered_descriptors_) = Cardinality(DOMAIN id_map_)
  /\ Len(measures_) = Len(registered_descriptors_)
  /\ \A name \in DOMAIN id_map_ : LET id == id_map_[name] IN
       /\ IdValid(id) /\ IdToIndex(id) < Len(registered_descriptors_)
       /\ AtIndex(id).name = name /\ AtIndex(id).type = IdToType(id)
  /\ \A measure \in held :
       /\ IsValid(measure) <=> measure.known = measure.type
       /\ GetDescriptor(measure) =
            IF IsValid(measure) THEN GetDescriptorByName(measure.name) ELSE DefaultDescriptor

\* A View of a measure that was set is valid just if it was registered by then.  It is
\* one of the consumers of one ViewInformation, of its measure and of its descriptor,
\* whose data has the type its aggregation and measure call for; equal descriptors
\* share it, and it has no other consumers.
ViewsAgree ==
  LET Infos(index) == {measures_[index][i] : i \in DOMAIN measures_[index]}
      all == UNION {Infos(index) : index \in DOMAIN measures_} IN
  /\ \A info \in all :
       info.num_consumers = Cardinality({v \in DOMAIN views_ : views_[v].handle = info.id})
  /\ \A v \in DOMAIN views_ : LET d == views_[v].descriptor IN
       /\ views_[v].handle = Null <=> ~IdValid(d.measure_id)
       /\ views_[v].handle # Null =>
            /\ d.measure_id = id_map_[d.measure_name]
            /\ \E info \in Infos(IdToIndex(d.measure_id) + 1) :
                 /\ info.id = views_[v].handle /\ info.type = DataType(d)
                 /\ info.descriptor.columns = d.columns
       /\ \A w \in DOMAIN views_ :
            SameDescriptor(d, views_[w].descriptor) => views_[w].handle = views_[v].handle

RegistrationsAgree == MeasuresAgree /\ ViewsAgree
=============================================================================
