------------------------ MODULE StatsExporterProofs ------------------------
(***************************************************************************)
(* Theorems about StatsExporter, for every set of names, descriptors,      *)
(* handlers and pullers.                                                   *)
(***************************************************************************)
EXTENDS StatsExporterProperties, FiniteSetTheorems, TLAPS

----------------------------------------------------------------------------
\* Counting consumers.

\* The views of a descriptor, and the consumers that StatsManager counts for it.
Users(views, d) == {name \in DOMAIN views : views[name] = d}
Consumers(map, d) == IF d \in DOMAIN map THEN map[d].num_consumers ELSE 0

\* A map of ViewInformations; the ones in use have consumers.
IsInfo(map) ==
  /\ map \in [DOMAIN map -> [id : Nat, num_consumers : Nat, merges : Nat]]
  /\ \A d \in DOMAIN map : map[d].num_consumers > 0

\* AddConsumer counts one more, and keeps the data of all that were in use.
LEMMA WithConsumerCounts ==
  ASSUME NEW map, IsInfo(map), NEW d, made \in Nat
  PROVE  LET with == WithConsumer(map, d) IN
         /\ IsInfo(with)
         /\ DOMAIN with = DOMAIN map \cup {d}
         /\ \A e : Consumers(with, e) = Consumers(map, e) + (IF e = d THEN 1 ELSE 0)
         /\ \A e \in DOMAIN map : with[e].id = map[e].id /\ with[e].merges = map[e].merges
         /\ d \notin DOMAIN map => with[d].id = made + 1 /\ with[d].merges = 0
<1>1. CASE d \in DOMAIN map
  <2> DEFINE with == [map EXCEPT ![d].num_consumers = @ + 1]
  <2>1. /\ with \in [DOMAIN map -> [id : Nat, num_consumers : Nat, merges : Nat]]
        /\ DOMAIN with = DOMAIN map
        /\ \A e \in DOMAIN map :
             /\ with[e].id = map[e].id /\ with[e].merges = map[e].merges
             /\ with[e].num_consumers = map[e].num_consumers + (IF e = d THEN 1 ELSE 0)
    BY <1>1 DEF IsInfo
  <2>2. WithConsumer(map, d) = with
    BY <1>1 DEF WithConsumer
  <2> HIDE DEF with
  <2>3. IsInfo(with)
    BY <2>1 DEF IsInfo
  <2>4. \A e : Consumers(with, e) = Consumers(map, e) + (IF e = d THEN 1 ELSE 0)
    BY <1>1, <2>1 DEF Consumers, IsInfo
  <2> QED
    BY <1>1, <2>1, <2>2, <2>3, <2>4
<1>2. CASE d \notin DOMAIN map
  <2> DEFINE with == With(map, d, [id |-> made + 1, num_consumers |-> 1, merges |-> 0])
  <2>1. /\ with \in [DOMAIN with -> [id : Nat, num_consumers : Nat, merges : Nat]]
        /\ DOMAIN with = DOMAIN map \cup {d}
        /\ \A e \in DOMAIN map : with[e] = map[e]
        /\ with[d] = [id |-> made + 1, num_consumers |-> 1, merges |-> 0]
    BY <1>2 DEF With, IsInfo
  <2>2. WithConsumer(map, d) = with
    BY <1>2 DEF WithConsumer
  <2> HIDE DEF with
  <2>3. IsInfo(with)
    BY <2>1 DEF IsInfo
  <2>4. \A e : Consumers(with, e) = Consumers(map, e) + (IF e = d THEN 1 ELSE 0)
    BY <1>2, <2>1 DEF Consumers, IsInfo
  <2> QED
    BY <1>2, <2>1, <2>2, <2>3, <2>4
<1> QED
  BY <1>1, <1>2

\* RemoveConsumer counts one less, and frees the data that nobody uses any more.
LEMMA WithoutConsumerCounts ==
  ASSUME NEW map, IsInfo(map), NEW d \in DOMAIN map
  PROVE  LET without == WithoutConsumer(map, d) IN
         /\ IsInfo(without)
         /\ DOMAIN without \subseteq DOMAIN map
         /\ \A e : Consumers(without, e) = Consumers(map, e) - (IF e = d THEN 1 ELSE 0)
         /\ \A e \in DOMAIN without :
              without[e].id = map[e].id /\ without[e].merges = map[e].merges
<1>1. CASE map[d].num_consumers = 1
  <2> DEFINE without == Without(map, d)
  <2>1. /\ DOMAIN without = DOMAIN map \ {d}
        /\ \A e \in DOMAIN without : without[e] = map[e]
        /\ without \in [DOMAIN without -> [id : Nat, num_consumers : Nat, merges : Nat]]
    BY DEF Without, IsInfo
  <2>2. WithoutConsumer(map, d) = without
    BY <1>1 DEF WithoutConsumer
  <2> HIDE DEF without
  <2>3. IsInfo(without)
    BY <2>1 DEF IsInfo
  <2>4. \A e : Consumers(without, e) = Consumers(map, e) - (IF e = d THEN 1 ELSE 0)
    BY <1>1, <2>1 DEF Consumers, IsInfo
  <2> QED
    BY <2>1, <2>2, <2>3, <2>4
<1>2. CASE map[d].num_consumers # 1
  <2> DEFINE without == [map EXCEPT ![d].num_consumers = @ - 1]
  <2>1. /\ without \in [DOMAIN map -> [id : Nat, num_consumers : Nat, merges : Nat]]
        /\ DOMAIN without = DOMAIN map
        /\ \A e \in DOMAIN map :
             /\ without[e].id = map[e].id /\ without[e].merges = map[e].merges
             /\ without[e].num_consumers = map[e].num_consumers - (IF e = d THEN 1 ELSE 0)
    BY DEF IsInfo
  <2>2. WithoutConsumer(map, d) = without
    BY <1>2 DEF WithoutConsumer
  <2> HIDE DEF without
  <2>3. IsInfo(without)
    BY <1>2, <2>1 DEF IsInfo
  <2>4. \A e : Consumers(without, e) = Consumers(map, e) - (IF e = d THEN 1 ELSE 0)
    BY <2>1 DEF Consumers, IsInfo
  <2> QED
    BY <2>1, <2>2, <2>3, <2>4
<1> QED
  BY <1>1, <1>2

\* Consumers are counted right when each descriptor has as many as it has views.
LEMMA CountedMatch ==
  ASSUME IsInfo(info), IsFiniteSet(DOMAIN views_),
         \A d : Consumers(info, d) = Cardinality(Users(views_, d))
  PROVE  ConsumersMatch
<1>1. \A d : IsFiniteSet(Users(views_, d))
  BY FS_Subset DEF Users
<1>2. \A d : Cardinality(Users(views_, d)) = 0 <=> Users(views_, d) = {}
  BY <1>1, FS_EmptySet
<1>3. \A d : d \in DOMAIN info <=> Consumers(info, d) # 0
  BY DEF IsInfo, Consumers
<1>4. \A d : d \in Range(views_) <=> Users(views_, d) # {}
  BY DEF Range, Users
<1>5. Range(views_) = DOMAIN info
  BY <1>2, <1>3, <1>4
<1> QED
  BY <1>5 DEF ConsumersMatch, Consumers, Users

LEMMA MatchCounted ==
  ASSUME ConsumersMatch
  PROVE  \A d : Consumers(info, d) = Cardinality(Users(views_, d))
<1>1. ASSUME NEW d, d \notin DOMAIN info
      PROVE  Users(views_, d) = {}
  BY <1>1 DEF ConsumersMatch, Range, Users
<1> QED
  BY <1>1, FS_EmptySet DEF ConsumersMatch, Consumers, Users

----------------------------------------------------------------------------
\* The inductive invariant.

Typed ==
  /\ handlers_ \in Seq(Handlers) /\ next \in Nat \ {0} /\ made \in Nat
  /\ IsInfo(info) /\ IsFiniteSet(DOMAIN views_)
  /\ pc \in [Readers -> {"not_started", "start", "idle", "copy", "call", "export", "sleep"}]
  /\ \A t \in Pullers : pc[t] \in {"idle", "copy"}
  /\ DOMAIN data = Readers /\ DOMAIN exported = Handlers

\* A ViewInformation is told from all that there have been by its id.
IdsUnique ==
  /\ \A d \in DOMAIN info : info[d].id <= made
  /\ \A d, e \in DOMAIN info : info[d].id = info[e].id => d = e

\* Only a reader has copies.
Copies ==
  /\ \A t \in Readers : pc[t] \notin {"copy", "call"} => DOMAIN data[t] = {}
  /\ \A t \in Readers : \A name \in DOMAIN data[t] :
       data[t][name].id \in Nat /\ data[t][name].merges \in Nat

\* What a handler was given last is not newer than the view, or than the worker's copy.
Exports ==
  \A h \in Handlers : \A name \in DOMAIN exported[h] :
    LET last == exported[h][name] IN
    /\ last.id \in Nat /\ last.id <= made /\ last.merges \in Nat
    /\ \A d \in DOMAIN info : info[d].id = last.id => last.merges <= info[d].merges
    /\ name \in DOMAIN data[Worker] /\ data[Worker][name].id = last.id =>
         last.merges <= data[Worker][name].merges

StatsExporterInv ==
  Typed /\ IdsUnique /\ ConsumersMatch /\ ExportsComplete /\ Copies /\ Exports

\* What a step may not do to the data: DataKept is [][Kept]_vars.
Kept ==
  /\ \A name \in DOMAIN views_ \cap DOMAIN views_' :
       views_[name] = views_'[name] => info'[views_[name]].id = info[views_[name]].id
  /\ \A h \in Handlers :
       \A name \in DOMAIN exported[h] \cap DOMAIN exported'[h] :
         exported[h][name].id = exported'[h][name].id =>
           exported[h][name].merges <= exported'[h][name].merges

\* At the start there is no view and no handler.
LEMMA StatsExporterInit == Init => StatsExporterInv
<1> SUFFICES ASSUME Init PROVE StatsExporterInv
  OBVIOUS
<1> USE DEF Init
<1>1. /\ DOMAIN info = {} /\ DOMAIN views_ = {} /\ IsFiniteSet(DOMAIN views_)
      /\ \A t \in Readers : DOMAIN data[t] = {} /\ pc[t] \in {"not_started", "idle"}
      /\ \A h \in Handlers : DOMAIN exported[h] = {}
  BY FS_EmptySet DEF Nothing
<1>2. IsInfo(info)
  BY DEF IsInfo, Nothing
<1>3. Typed
  BY <1>1, <1>2, ExporterAssumption DEF Typed, Readers
<1>4. ConsumersMatch
  BY <1>1 DEF ConsumersMatch, Range
<1>5. Worker \in Readers
  BY DEF Readers
<1> QED
  BY <1>1, <1>3, <1>4, <1>5 DEF StatsExporterInv, IdsUnique, ExportsComplete, Copies, Exports

----------------------------------------------------------------------------
\* Every step preserves the invariant and keeps the data.

\* A step that touches neither views nor copies.
LEMMA QuietStep ==
  ASSUME StatsExporterInv, UNCHANGED <<views_, info, made, data, exported>>,
         handlers_' \in Seq(Handlers), next' = next,
         pc' \in [Readers -> {"not_started", "start", "idle", "copy", "call", "export", "sleep"}],
         \A t \in Readers :
           \/ pc'[t] = pc[t]
           \/ t = Worker /\ DOMAIN data[t] = {} /\ pc'[t] \notin {"idle", "copy", "call"}
  PROVE  StatsExporterInv' /\ Kept
<1> USE DEF StatsExporterInv
<1>1. Worker \in Readers /\ Worker \notin Pullers
  BY ExporterAssumption DEF Readers
<1>2. Typed'
  BY <1>1 DEF Typed, Readers
<1>3. IdsUnique' /\ ConsumersMatch' /\ Exports'
  BY DEF IdsUnique, ConsumersMatch, Exports
<1>4. ExportsComplete'
  BY <1>1 DEF ExportsComplete
<1>5. Copies'
  BY DEF Copies
<1>6. Kept
  BY <1>1 DEF Kept, Exports
<1> QED
  BY <1>2, <1>3, <1>4, <1>5, <1>6

\* A harvest: the views' data grows.
LEMMA MergeKeeps ==
  ASSUME StatsExporterInv, NEW d, Merge(d)
  PROVE  StatsExporterInv' /\ Kept
<1> USE DEF StatsExporterInv
<1>1. /\ UNCHANGED <<handlers_, views_, made, pc, data, next, exported>> /\ d \in DOMAIN info
      /\ info' = [info EXCEPT ![d].merges = @ + 1]
  BY DEF Merge, settings, reading
<1>2. /\ info' \in [DOMAIN info -> [id : Nat, num_consumers : Nat, merges : Nat]]
      /\ DOMAIN info' = DOMAIN info
      /\ \A e \in DOMAIN info :
           /\ info'[e].id = info[e].id /\ info'[e].num_consumers = info[e].num_consumers
           /\ info[e].merges <= info'[e].merges
           /\ info[e].merges \in Nat /\ info'[e].merges \in Nat
  <2>1. info \in [DOMAIN info -> [id : Nat, num_consumers : Nat, merges : Nat]]
    BY DEF Typed, IsInfo
  <2>2. info'[d] = [info[d] EXCEPT !.merges = @ + 1] /\ \A e \in DOMAIN info : e # d => info'[e] = info[e]
    BY <1>1, <2>1
  <2>3. DOMAIN info' = DOMAIN info
    BY <1>1, <2>1
  <2>4. \A e \in DOMAIN info :
           /\ info'[e].id = info[e].id /\ info'[e].num_consumers = info[e].num_consumers
           /\ info[e].merges <= info'[e].merges
           /\ info[e].merges \in Nat /\ info'[e].merges \in Nat
    BY <2>1, <2>2
  <2>5. info' \in [DOMAIN info -> [id : Nat, num_consumers : Nat, merges : Nat]]
    BY <1>1, <2>1
  <2> QED
    BY <2>3, <2>4, <2>5
<1>3. IsInfo(info')
  BY <1>2 DEF Typed, IsInfo
<1>4. Typed'
  BY <1>1, <1>3 DEF Typed
<1>5. IdsUnique' /\ ConsumersMatch'
  BY <1>1, <1>2 DEF IdsUnique, ConsumersMatch
<1>6. \A name \in DOMAIN views_ : views_[name] \in DOMAIN info
  BY DEF ConsumersMatch, Range
<1>7. ExportsComplete'
  BY <1>1, <1>2, <1>6 DEF ExportsComplete, Copies
<1>8. Copies'
  BY <1>1 DEF Copies
<1>9. Exports'
  BY <1>1, <1>2 DEF Exports
<1>10. Kept
  BY <1>1, <1>2, <1>6 DEF Kept, Exports
<1> QED
  BY <1>4, <1>5, <1>7, <1>8, <1>9, <1>10

\* Views come and go while nobody reads: what stays in use keeps its data, and what is
\* new has an id of its own.
LEMMA ViewsChange ==
  ASSUME StatsExporterInv, NotShared, UNCHANGED <<handlers_, pc, data, next, exported>>,
         made' \in Nat, made <= made', IsInfo(info'), IsFiniteSet(DOMAIN views_'), ConsumersMatch',
         \A d \in DOMAIN info' :
           IF d \in DOMAIN info
           THEN info'[d].id = info[d].id /\ info'[d].merges = info[d].merges
           ELSE info'[d].id = made + 1 /\ made' = made + 1,
         \A d, e \in DOMAIN info' : d \notin DOMAIN info /\ e \notin DOMAIN info => d = e
  PROVE  StatsExporterInv' /\ Kept
<1> USE DEF StatsExporterInv
<1>1. Worker \in Readers
  BY DEF Readers
<1>2. \A t \in Readers : pc[t] \notin {"copy", "call"} /\ DOMAIN data[t] = {}
  BY DEF NotShared, Copies
<1>3. Typed'
  BY DEF Typed
<1>4. \A d \in DOMAIN info : info[d].id \in Nat /\ info[d].id <= made
  BY DEF Typed, IsInfo, IdsUnique
<1>5. IdsUnique'
  BY <1>4 DEF IdsUnique, Typed
<1>6. ExportsComplete' /\ Copies'
  BY <1>1, <1>2 DEF ExportsComplete, Copies
<1>7. Exports'
  BY <1>1, <1>2 DEF Exports, Typed
<1>8. Kept
  <2>1. \A name \in DOMAIN views_ \cap DOMAIN views_' :
          views_[name] \in DOMAIN info /\ views_'[name] \in DOMAIN info'
    BY DEF ConsumersMatch, Range
  <2> QED
    BY <2>1 DEF Kept, Exports
<1> QED
  BY <1>3, <1>5, <1>6, <1>7, <1>8

\* The views of each descriptor, when one is registered or removed.
LEMMA UsersWith ==
  ASSUME IsFiniteSet(DOMAIN views_), NEW name, NEW d
  PROVE  LET with == With(views_, name, d) IN
         /\ IsFiniteSet(DOMAIN with)
         /\ \A e : Cardinality(Users(with, e)) =
                    Cardinality(Users(views_, e)) + (IF e = d THEN 1 ELSE 0)
                    - (IF name \in DOMAIN views_ /\ e = views_[name] THEN 1 ELSE 0)
<1> DEFINE with == With(views_, name, d)
<1>1. /\ DOMAIN with = DOMAIN views_ \cup {name} /\ with[name] = d
      /\ \A x \in DOMAIN views_ : x # name => with[x] = views_[x]
  BY DEF With
<1> HIDE DEF with
<1>2. IsFiniteSet(DOMAIN with)
  BY <1>1, FS_AddElement
<1>3. ASSUME NEW e
      PROVE  Cardinality(Users(with, e)) =
               Cardinality(Users(views_, e)) + (IF e = d THEN 1 ELSE 0)
               - (IF name \in DOMAIN views_ /\ e = views_[name] THEN 1 ELSE 0)
  <2> DEFINE others == {x \in DOMAIN views_ : x # name /\ views_[x] = e}
  <2>1. IsFiniteSet(others) /\ Cardinality(others) \in Nat /\ name \notin others
    BY FS_Subset, FS_CardinalityType
  <2>2. Users(with, e) = IF e = d THEN others \cup {name} ELSE others
    BY <1>1 DEF Users
  <2>3. Users(views_, e) = IF name \in DOMAIN views_ /\ e = views_[name]
                           THEN others \cup {name} ELSE others
    BY DEF Users
  <2> HIDE DEF others
  <2>4. Cardinality(others \cup {name}) = Cardinality(others) + 1
    BY <2>1, FS_AddElement
  <2> QED
    BY <2>1, <2>2, <2>3, <2>4
<1> QED
  BY <1>2, <1>3 DEF with

LEMMA UsersWithout ==
  ASSUME IsFiniteSet(DOMAIN views_), NEW name \in DOMAIN views_
  PROVE  LET without == Without(views_, name) IN
         /\ IsFiniteSet(DOMAIN without)
         /\ \A e : Cardinality(Users(without, e)) =
                    Cardinality(Users(views_, e)) - (IF e = views_[name] THEN 1 ELSE 0)
<1> DEFINE without == Without(views_, name)
<1>1. /\ DOMAIN without = DOMAIN views_ \ {name}
      /\ \A x \in DOMAIN without : without[x] = views_[x]
  BY DEF Without
<1> HIDE DEF without
<1>2. IsFiniteSet(DOMAIN without)
  BY <1>1, FS_RemoveElement
<1>3. ASSUME NEW e
      PROVE  Cardinality(Users(without, e)) =
               Cardinality(Users(views_, e)) - (IF e = views_[name] THEN 1 ELSE 0)
  <2> DEFINE others == {x \in DOMAIN views_ : x # name /\ views_[x] = e}
  <2>1. IsFiniteSet(others) /\ Cardinality(others) \in Nat /\ name \notin others
    BY FS_Subset, FS_CardinalityType
  <2>2. Users(without, e) = others
    BY <1>1 DEF Users
  <2>3. Users(views_, e) = IF e = views_[name] THEN others \cup {name} ELSE others
    BY DEF Users
  <2> HIDE DEF others
  <2>4. Cardinality(others \cup {name}) = Cardinality(others) + 1
    BY <2>1, FS_AddElement
  <2> QED
    BY <2>1, <2>2, <2>3, <2>4
<1> QED
  BY <1>2, <1>3 DEF without

\* CountedMatch of the next state.
LEMMA CountedMatchNext ==
  ASSUME IsInfo(info'), IsFiniteSet(DOMAIN views_'),
         \A d : Consumers(info', d) = Cardinality(Users(views_', d))
  PROVE  ConsumersMatch'
<1>1. \A d : IsFiniteSet(Users(views_', d))
  BY FS_Subset DEF Users
<1>2. \A d : Cardinality(Users(views_', d)) = 0 <=> Users(views_', d) = {}
  BY <1>1, FS_EmptySet
<1>3. \A d : d \in DOMAIN info' <=> Consumers(info', d) # 0
  BY DEF IsInfo, Consumers
<1>4. \A d : d \in Range(views_') <=> Users(views_', d) # {}
  BY DEF Range, Users
<1>5. Range(views_') = DOMAIN info'
  BY <1>2, <1>3, <1>4
<1> QED
  BY <1>5 DEF ConsumersMatch, Consumers, Users

\* AddView: the new View is made before the one of the same name is destroyed, so that a
\* descriptor that both have keeps its data.
LEMMA AddViewKeeps ==
  ASSUME StatsExporterInv, NEW name, NEW d, AddView(name, d)
  PROVE  StatsExporterInv' /\ Kept
<1> DEFINE with == WithConsumer(info, d)
<1>1. /\ NotShared /\ UNCHANGED <<handlers_, pc, data, next, exported>>
      /\ views_' = With(views_, name, d) /\ info' = Register(info, name, d) /\ made' = made + 1
      /\ made \in Nat /\ IsInfo(info) /\ IsFiniteSet(DOMAIN views_)
  BY DEF AddView, settings, reading, StatsExporterInv, Typed
<1>2. /\ IsInfo(with)
      /\ DOMAIN with = DOMAIN info \cup {d}
      /\ \A e : Consumers(with, e) = Consumers(info, e) + (IF e = d THEN 1 ELSE 0)
      /\ \A e \in DOMAIN info : with[e].id = info[e].id /\ with[e].merges = info[e].merges
      /\ d \notin DOMAIN info => with[d].id = made + 1 /\ with[d].merges = 0
  BY <1>1, WithConsumerCounts
<1>3. name \in DOMAIN views_ => views_[name] \in DOMAIN info
  BY DEF StatsExporterInv, ConsumersMatch, Range
<1>4. info' = IF name \in DOMAIN views_ THEN WithoutConsumer(with, views_[name]) ELSE with
  BY <1>1 DEF Register
<1> HIDE DEF with
<1>5. /\ IsInfo(info') /\ DOMAIN info' \subseteq DOMAIN info \cup {d}
      /\ \A e : Consumers(info', e) = Consumers(info, e) + (IF e = d THEN 1 ELSE 0)
                    - (IF name \in DOMAIN views_ /\ e = views_[name] THEN 1 ELSE 0)
      /\ \A e \in DOMAIN info' : info'[e].id = with[e].id /\ info'[e].merges = with[e].merges
  <2>1. CASE name \in DOMAIN views_
    <3> DEFINE old == views_[name]
    <3>1. old \in DOMAIN with
      BY <1>2, <1>3, <2>1
    <3>2. /\ IsInfo(info') /\ DOMAIN info' \subseteq DOMAIN with
          /\ \A e : Consumers(info', e) = Consumers(with, e) - (IF e = old THEN 1 ELSE 0)
          /\ \A e \in DOMAIN info' : info'[e].id = with[e].id /\ info'[e].merges = with[e].merges
      BY <1>2, <1>4, <2>1, <3>1, WithoutConsumerCounts
    <3>3. \A e : Consumers(info, e) \in Nat
      BY <1>1 DEF Consumers, IsInfo
    <3>4. \A e : Consumers(info', e) = Consumers(info, e) + (IF e = d THEN 1 ELSE 0)
                    - (IF name \in DOMAIN views_ /\ e = views_[name] THEN 1 ELSE 0)
      BY <1>2, <2>1, <3>2, <3>3
    <3>5. IsInfo(info') /\ DOMAIN info' \subseteq DOMAIN info \cup {d}
      BY <1>2, <3>2
    <3> QED
      BY <3>2, <3>4, <3>5
  <2>2. CASE name \notin DOMAIN views_
    <3>1. \A e : Consumers(info, e) \in Nat
      BY <1>1 DEF Consumers, IsInfo
    <3> QED
      BY <1>2, <1>4, <2>2, <3>1
  <2> QED
    BY <2>1, <2>2
<1>6. \A e : Consumers(info, e) = Cardinality(Users(views_, e))
  BY MatchCounted DEF StatsExporterInv
<1>7. /\ IsFiniteSet(DOMAIN views_')
      /\ \A e : Cardinality(Users(views_', e)) =
                 Cardinality(Users(views_, e)) + (IF e = d THEN 1 ELSE 0)
                 - (IF name \in DOMAIN views_ /\ e = views_[name] THEN 1 ELSE 0)
  BY <1>1, UsersWith
<1>8. ConsumersMatch'
  BY <1>5, <1>6, <1>7, CountedMatchNext
<1>9. \A e \in DOMAIN info' :
        IF e \in DOMAIN info
        THEN info'[e].id = info[e].id /\ info'[e].merges = info[e].merges
        ELSE info'[e].id = made + 1 /\ made' = made + 1
  BY <1>1, <1>2, <1>5
<1>10. \A e, f \in DOMAIN info' : e \notin DOMAIN info /\ f \notin DOMAIN info => e = f
  BY <1>5
<1> QED
  BY <1>1, <1>5, <1>7, <1>8, <1>9, <1>10, ViewsChange

\* RemoveView: its consumer goes, and the data with the last one.
LEMMA RemoveViewKeeps ==
  ASSUME StatsExporterInv, NEW name, RemoveView(name)
  PROVE  StatsExporterInv' /\ Kept
<1>1. /\ NotShared /\ UNCHANGED <<handlers_, made, pc, data, next, exported>>
      /\ name \in DOMAIN views_ /\ views_' = Without(views_, name)
      /\ info' = WithoutConsumer(info, views_[name])
      /\ made \in Nat /\ IsInfo(info) /\ IsFiniteSet(DOMAIN views_)
  BY DEF RemoveView, settings, reading, StatsExporterInv, Typed
<1>2. views_[name] \in DOMAIN info
  BY <1>1 DEF StatsExporterInv, ConsumersMatch, Range
<1>3. /\ IsInfo(info') /\ DOMAIN info' \subseteq DOMAIN info
      /\ \A e : Consumers(info', e) = Consumers(info, e) - (IF e = views_[name] THEN 1 ELSE 0)
      /\ \A e \in DOMAIN info' : info'[e].id = info[e].id /\ info'[e].merges = info[e].merges
  BY <1>1, <1>2, WithoutConsumerCounts
<1>4. \A e : Consumers(info, e) = Cardinality(Users(views_, e))
  BY MatchCounted DEF StatsExporterInv
<1>5. /\ IsFiniteSet(DOMAIN views_')
      /\ \A e : Cardinality(Users(views_', e)) =
                 Cardinality(Users(views_, e)) - (IF e = views_[name] THEN 1 ELSE 0)
  BY <1>1, UsersWithout
<1>6. ConsumersMatch'
  BY <1>3, <1>4, <1>5, CountedMatchNext
<1> QED
  BY <1>1, <1>3, <1>5, <1>6, ViewsChange

\* StartCopy: the copy of before is dropped.
LEMMA StartCopyKeeps ==
  ASSUME StatsExporterInv, NEW t \in Readers, StartCopy(t)
  PROVE  StatsExporterInv' /\ Kept
<1> USE DEF StatsExporterInv
<1>1. /\ UNCHANGED <<handlers_, views_, info, made, next, exported>>
      /\ pc[t] \in {"export", "idle"} /\ pc' = [pc EXCEPT ![t] = "copy"]
      /\ data' = [data EXCEPT ![t] = Nothing]
  BY DEF StartCopy, Goto, settings, manager
<1>2. /\ Worker \in Readers /\ DOMAIN Nothing = {} /\ DOMAIN data' = Readers
      /\ DOMAIN data'[t] = {} /\ \A u \in Readers : u # t => data'[u] = data[u]
      /\ pc'[t] = "copy" /\ \A u \in Readers : u # t => pc'[u] = pc[u]
      /\ DOMAIN pc = Readers
  BY <1>1 DEF Nothing, Readers, Typed
<1>3. Typed'
  BY <1>1, <1>2 DEF Typed
<1>4. IdsUnique' /\ ConsumersMatch'
  BY <1>1 DEF IdsUnique, ConsumersMatch
<1>5. ExportsComplete' /\ Copies'
  BY <1>1, <1>2 DEF ExportsComplete, Copies
<1>6. Exports'
  BY <1>1, <1>2 DEF Exports
<1>7. Kept
  BY <1>1 DEF Kept, Exports
<1> QED
  BY <1>3, <1>4, <1>5, <1>6, <1>7

\* CopyView: the copy is of the data of the view as it is now.
LEMMA CopyViewKeeps ==
  ASSUME StatsExporterInv, NEW t \in Readers, NEW name, CopyView(t, name)
  PROVE  StatsExporterInv' /\ Kept
<1> USE DEF StatsExporterInv
<1> DEFINE d    == views_[name]
           copy == [descriptor |-> d, id |-> info[d].id, merges |-> info[d].merges]
<1>1. /\ UNCHANGED <<handlers_, views_, info, made, pc, next, exported>>
      /\ pc[t] = "copy" /\ name \in DOMAIN views_ \ DOMAIN data[t]
      /\ data' = [data EXCEPT ![t] = With(data[t], name, copy)]
  BY DEF CopyView, settings, manager
<1>2. /\ DOMAIN data' = Readers /\ \A u \in Readers : u # t => data'[u] = data[u]
      /\ data'[t] = With(data[t], name, copy)
  BY <1>1 DEF Typed
<1>3. /\ DOMAIN data'[t] = DOMAIN data[t] \cup {name} /\ data'[t][name] = copy
      /\ \A x \in DOMAIN data[t] : data'[t][x] = data[t][x]
  BY <1>1, <1>2 DEF With
<1>4. /\ d \in DOMAIN info /\ info[d].id \in Nat /\ info[d].merges \in Nat
  BY <1>1 DEF ConsumersMatch, Range, Typed, IsInfo
<1>5. copy.descriptor = d /\ copy.id = info[d].id /\ copy.merges = info[d].merges
  OBVIOUS
<1> HIDE DEF copy
<1>6. Typed'
  BY <1>1, <1>2 DEF Typed
<1>7. IdsUnique' /\ ConsumersMatch'
  BY <1>1 DEF IdsUnique, ConsumersMatch
<1>8. ExportsComplete'
  <2>1. ASSUME NEW u \in Readers, NEW x \in DOMAIN data'[u]
        PROVE  /\ x \in DOMAIN views_ /\ data'[u][x].descriptor = views_[x]
               /\ data'[u][x].id = info[data'[u][x].descriptor].id
               /\ data'[u][x].merges <= info[data'[u][x].descriptor].merges
    <3>1. CASE u = t /\ x = name
      BY <1>1, <1>3, <1>4, <1>5, <3>1
    <3>2. CASE ~(u = t /\ x = name)
      BY <1>2, <1>3, <2>1, <3>2 DEF ExportsComplete
    <3> QED
      BY <3>1, <3>2
  <2>2. pc[Worker] = "call" => DOMAIN data'[Worker] = DOMAIN views_
    BY <1>1, <1>2 DEF ExportsComplete, Readers
  <2> QED
    BY <1>1, <2>1, <2>2 DEF ExportsComplete
<1>9. Copies'
  BY <1>1, <1>2, <1>3, <1>4, <1>5 DEF Copies
<1>10. Exports'
  <2> SUFFICES ASSUME NEW h \in Handlers, NEW x \in DOMAIN exported[h],
                      x \in DOMAIN data'[Worker], data'[Worker][x].id = exported[h][x].id
               PROVE  exported[h][x].merges <= data'[Worker][x].merges
    BY <1>1 DEF Exports
  <2>1. Worker \in Readers
    BY DEF Readers
  <2>2. CASE t = Worker /\ x = name
    BY <1>3, <1>4, <1>5, <2>2 DEF Exports
  <2>3. CASE ~(t = Worker /\ x = name)
    BY <1>2, <1>3, <2>1, <2>3 DEF Exports
  <2> QED
    BY <2>2, <2>3
<1>11. Kept
  BY <1>1 DEF Kept, Exports
<1> QED
  BY <1>6, <1>7, <1>8, <1>9, <1>10, <1>11

\* Return and ExportDone: a reader is done with its copy.
LEMMA ReaderDone ==
  ASSUME StatsExporterInv, NEW t \in Readers,
         UNCHANGED <<handlers_, views_, info, made, next, exported>>,
         NEW to, to = IF t = Worker THEN "sleep" ELSE "idle",
         pc' = [pc EXCEPT ![t] = to], data' = [data EXCEPT ![t] = Nothing]
  PROVE  StatsExporterInv' /\ Kept
<1> USE DEF StatsExporterInv
<1>1. /\ Worker \in Readers /\ DOMAIN Nothing = {} /\ DOMAIN data' = Readers
      /\ DOMAIN data'[t] = {} /\ \A u \in Readers : u # t => data'[u] = data[u]
      /\ pc'[t] = to /\ \A u \in Readers : u # t => pc'[u] = pc[u]
      /\ DOMAIN pc = Readers /\ Worker \notin Pullers
  BY ExporterAssumption DEF Nothing, Readers, Typed
<1>2. Typed'
  BY <1>1 DEF Typed, Readers
<1>3. IdsUnique' /\ ConsumersMatch'
  BY DEF IdsUnique, ConsumersMatch
<1>4. ExportsComplete' /\ Copies'
  BY <1>1 DEF ExportsComplete, Copies
<1>5. Exports'
  BY <1>1 DEF Exports
<1>6. Kept
  BY DEF Kept, Exports
<1> QED
  BY <1>2, <1>3, <1>4, <1>5, <1>6

\* StartHandlers: all views that are registered are copied.
LEMMA StartHandlersKeeps ==
  ASSUME StatsExporterInv, StartHandlers
  PROVE  StatsExporterInv' /\ Kept
<1> USE DEF StatsExporterInv
<1>1. /\ UNCHANGED <<handlers_, views_, info, made, data, exported>> /\ next' = 1
      /\ DOMAIN views_ \subseteq DOMAIN data[Worker]
      /\ pc[Worker] = "copy" /\ pc' = [pc EXCEPT ![Worker] = "call"]
  BY DEF StartHandlers, Goto, settings, manager
<1>2. /\ Worker \in Readers /\ Worker \notin Pullers /\ DOMAIN pc = Readers
      /\ pc'[Worker] = "call" /\ \A u \in Readers : u # Worker => pc'[u] = pc[u]
  BY <1>1, ExporterAssumption DEF Readers, Typed
<1>3. Typed'
  BY <1>1, <1>2 DEF Typed, Readers
<1>4. IdsUnique' /\ ConsumersMatch' /\ Exports'
  BY <1>1 DEF IdsUnique, ConsumersMatch, Exports
<1>5. ExportsComplete'
  <2>1. DOMAIN data[Worker] = DOMAIN views_
    BY <1>1, <1>2 DEF ExportsComplete
  <2> QED
    BY <1>1, <1>2, <2>1 DEF ExportsComplete
<1>6. Copies'
  BY <1>1, <1>2 DEF Copies
<1>7. Kept
  BY <1>1 DEF Kept, Exports
<1> QED
  BY <1>3, <1>4, <1>5, <1>6, <1>7

\* CallHandler: the worker's copy is not older than what this handler was given before.
LEMMA CallHandlerKeeps ==
  ASSUME StatsExporterInv, CallHandler
  PROVE  StatsExporterInv' /\ Kept
<1> USE DEF StatsExporterInv
<1> DEFINE g == handlers_[next]
<1>1. /\ UNCHANGED <<handlers_, views_, info, made, pc, data>> /\ next' = next + 1
      /\ next <= Len(handlers_) /\ exported' = [exported EXCEPT ![g] = data[Worker]]
  BY DEF CallHandler, settings, manager
<1>2. /\ Worker \in Readers /\ g \in Handlers /\ DOMAIN exported' = Handlers
      /\ exported'[g] = data[Worker] /\ \A h \in Handlers : h # g => exported'[h] = exported[h]
  BY <1>1 DEF Readers, Typed
<1> HIDE DEF g
<1>3. Typed'
  BY <1>1, <1>2 DEF Typed
<1>4. IdsUnique' /\ ConsumersMatch' /\ ExportsComplete' /\ Copies'
  BY <1>1 DEF IdsUnique, ConsumersMatch, ExportsComplete, Copies
<1>5. ASSUME NEW name \in DOMAIN data[Worker]
      PROVE  LET last == data[Worker][name] IN
             /\ last.id \in Nat /\ last.id <= made /\ last.merges \in Nat
             /\ \A d \in DOMAIN info : info[d].id = last.id => last.merges <= info[d].merges
  <2> DEFINE last == data[Worker][name]
  <2>1. /\ last.id \in Nat /\ last.merges \in Nat
        /\ last.descriptor = views_[name] /\ name \in DOMAIN views_
        /\ last.id = info[last.descriptor].id /\ last.merges <= info[last.descriptor].merges
    BY <1>2, <1>5 DEF Copies, ExportsComplete
  <2>2. last.descriptor \in DOMAIN info
    BY <2>1 DEF ConsumersMatch, Range
  <2> HIDE DEF last
  <2>3. /\ last.id <= made
        /\ \A d \in DOMAIN info : info[d].id = last.id => last.merges <= info[d].merges
    BY <2>1, <2>2 DEF IdsUnique
  <2> QED
    BY <2>1, <2>3 DEF last
<1>6. Exports'
  <2> SUFFICES ASSUME NEW h \in Handlers, NEW name \in DOMAIN exported'[h]
               PROVE  LET last == exported'[h][name] IN
                      /\ last.id \in Nat /\ last.id <= made /\ last.merges \in Nat
                      /\ \A d \in DOMAIN info : info[d].id = last.id => last.merges <= info[d].merges
                      /\ name \in DOMAIN data[Worker] /\ data[Worker][name].id = last.id =>
                           last.merges <= data[Worker][name].merges
    BY <1>1 DEF Exports
  <2>1. CASE h = g
    BY <1>2, <1>5, <2>1
  <2>2. CASE h # g
    BY <1>2, <2>2 DEF Exports
  <2> QED
    BY <2>1, <2>2
<1>7. Kept
  <2>1. \A h \in Handlers : \A name \in DOMAIN exported[h] \cap DOMAIN exported'[h] :
          exported[h][name].id = exported'[h][name].id =>
            exported[h][name].merges <= exported'[h][name].merges
    <3> SUFFICES ASSUME NEW h \in Handlers,
                        NEW name \in DOMAIN exported[h] \cap DOMAIN exported'[h],
                        exported[h][name].id = exported'[h][name].id
                 PROVE  exported[h][name].merges <= exported'[h][name].merges
      OBVIOUS
    <3>1. CASE h = g
      BY <1>2, <3>1 DEF Exports
    <3>2. CASE h # g
      BY <1>2, <3>2 DEF Exports
    <3> QED
      BY <3>1, <3>2
  <2> QED
    BY <1>1, <2>1 DEF Kept
<1> QED
  BY <1>3, <1>4, <1>6, <1>7

----------------------------------------------------------------------------
\* The theorems.

LEMMA StatsExporterStep ==
  ASSUME StatsExporterInv, [Next]_vars
  PROVE  StatsExporterInv' /\ Kept
<1>1. /\ Worker \in Readers /\ Worker \notin Pullers /\ Pullers \subseteq Readers
      /\ handlers_ \in Seq(Handlers)
      /\ pc \in [Readers -> {"not_started", "start", "idle", "copy", "call", "export", "sleep"}]
      /\ \A t \in Readers : pc[t] \notin {"copy", "call"} => DOMAIN data[t] = {}
  BY ExporterAssumption DEF Readers, StatsExporterInv, Typed, Copies
<1>2. ASSUME NEW interval \in Intervals, SetInterval(interval)
      PROVE  StatsExporterInv' /\ Kept
  BY <1>1, <1>2, QuietStep DEF SetInterval, manager, reading
<1>3. ASSUME NEW h \in Handlers, RegisterPushHandler(h)
      PROVE  StatsExporterInv' /\ Kept
  <2>1. /\ UNCHANGED <<views_, info, made, data, next, exported>>
        /\ handlers_' \in Seq(Handlers)
        /\ pc' = IF thread_started_ THEN pc ELSE [pc EXCEPT ![Worker] = "start"]
        /\ pc[Worker] \notin {"copy", "call"}
    BY <1>1, <1>3 DEF RegisterPushHandler, manager, NotShared
  <2> QED
    BY <1>1, <2>1, QuietStep
<1>4. ASSUME StartWorker \/ WakeUp
      PROVE  StatsExporterInv' /\ Kept
  <2>1. /\ UNCHANGED <<handlers_, views_, info, made, data, next, exported>>
        /\ pc[Worker] \in {"start", "sleep"}
        /\ \E to \in {"sleep", "export"} : pc' = [pc EXCEPT ![Worker] = to]
    BY <1>4 DEF StartWorker, WakeUp, Goto, settings, manager
  <2> QED
    BY <1>1, <2>1, QuietStep
<1>5. ASSUME Tick \/ UNCHANGED vars
      PROVE  StatsExporterInv' /\ Kept
  <2>1. UNCHANGED <<handlers_, views_, info, made, pc, data, next, exported>>
    BY <1>5 DEF Tick, vars, settings, manager, reading
  <2> QED
    BY <1>1, <2>1, QuietStep
<1>6. ASSUME NEW t \in Pullers, Return(t)
      PROVE  StatsExporterInv' /\ Kept
  <2>1. /\ t \in Readers /\ t # Worker
        /\ UNCHANGED <<handlers_, views_, info, made, next, exported>>
        /\ pc' = [pc EXCEPT ![t] = "idle"] /\ data' = [data EXCEPT ![t] = Nothing]
    BY <1>1, <1>6 DEF Return, Goto, settings, manager
  <2> QED
    BY <2>1, ReaderDone
<1>7. ASSUME ExportDone
      PROVE  StatsExporterInv' /\ Kept
  <2>1. /\ UNCHANGED <<handlers_, views_, info, made, next, exported>>
        /\ pc' = [pc EXCEPT ![Worker] = "sleep"] /\ data' = [data EXCEPT ![Worker] = Nothing]
    BY <1>7 DEF ExportDone, Goto, settings, manager
  <2> QED
    BY <1>1, <2>1, ReaderDone
<1>8. ASSUME NEW t \in Pullers, StartCopy(t) \/ Continue(t)
      PROVE  StatsExporterInv' /\ Kept
  BY <1>1, <1>6, <1>8, StartCopyKeeps, CopyViewKeeps DEF Continue
<1>9. ASSUME RunWorkerLoop
      PROVE  StatsExporterInv' /\ Kept
  BY <1>1, <1>4, <1>7, <1>9, StartCopyKeeps, CopyViewKeeps, StartHandlersKeeps, CallHandlerKeeps
     DEF RunWorkerLoop
<1> QED
  BY <1>2, <1>3, <1>5, <1>8, <1>9, AddViewKeeps, RemoveViewKeeps, MergeKeeps DEF Next

\* The invariant holds always.
THEOREM StatsExporterInvariant == Spec => []StatsExporterInv
<1>1. StatsExporterInv /\ [Next]_vars => StatsExporterInv'
  BY StatsExporterStep
<1> QED
  BY <1>1, StatsExporterInit, PTL DEF Spec

\* StatsManager keeps data for exactly the descriptors that a registered view has, with
\* as many consumers as views.
THEOREM ViewsHaveConsumers == Spec => []ConsumersMatch
<1>1. StatsExporterInv => ConsumersMatch
  BY DEF StatsExporterInv
<1> QED
  BY <1>1, StatsExporterInvariant, PTL

\* A handler is called with all the views that are registered and no others.
THEOREM ExportsAreComplete == Spec => []ExportsComplete
<1>1. StatsExporterInv => ExportsComplete
  BY DEF StatsExporterInv
<1> QED
  BY <1>1, StatsExporterInvariant, PTL

\* The data of a view that stays is kept, and what a handler is given never goes back.
THEOREM ExportsNeverGoBack == Spec => DataKept
<1>1. StatsExporterInv /\ [Next]_vars => Kept
  BY StatsExporterStep
<1> QED
  BY <1>1, StatsExporterInvariant, PTL DEF Spec, Kept, DataKept

=============================================================================
