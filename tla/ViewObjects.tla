----------------------------- MODULE ViewObjects -----------------------------
(***************************************************************************)
(* The objects that hold a view's data: the ViewDataImpl of its            *)
(* ViewInformation, the snapshots taken of it, and the ViewData that own    *)
(* them; which member of its union an object has constructed, and whose     *)
(* BucketBoundaries its Distributions refer to.                             *)
(*                                                                         *)
(* An address is used once, so a pointer that outlives its object shows.   *)
(* An interval view of last values asserts and is left out.                 *)
(***************************************************************************)
EXTENDS Integers, FiniteSets, ViewTypes

CONSTANTS
  ViewKinds,  \* the windows, aggregations and measures tried, and durations of intervals
  TagRows,    \* tag values
  MaxSteps    \* bound

VARIABLES
  kind,      \* of the view: constant
  heap,      \* the ViewDataImpls alive, by address; that of the view is at Source
  view_data, \* the ViewData alive: address of impl_, end_time_; when and of what made (history)
  clock, steps

objectVars == <<kind, heap, view_data, clock, steps>>

Source == 1
Null == 0

Members == {"kDouble", "kInt64", "kDistribution", "kStatsObject"}

\* A datum: the number of merges it is made of, of which an interval view shows those in
\* its interval (see StatsObject), and a Distribution's buckets_, the address of the
\* object whose aggregation_ has them.
Datum(merges, buckets) == [merges |-> merges, buckets |-> buckets]

NoRows == [row \in {} |-> Datum(0, Null)]

\* A ViewDataImpl with one member of its union constructed.
Object(type, member, rows, start_times, start_time) ==
  [type_ |-> type, member |-> member, rows |-> rows, start_times_ |-> start_times,
   start_time_ |-> start_time]

\* ViewDataImpl(start_time, descriptor)
NewObject(start_time) ==
  LET type == TypeForDescriptor(kind) IN
  Object(type, type, NoRows, [row \in {} |-> 0], start_time)

\* The copy constructor, for what is not a StatsObject: each Distribution is copied
\* with its pointer.
CopyOf(object) ==
  Object(object.type_, object.type_, object.rows, object.start_times_, object.start_time_)

\* std::max of a time and the start of an interval.
NotBefore(time, start) == IF time < start THEN start ELSE time

\* The constructor for the data of an interval view at `now`: new Distributions, which
\* refer to the boundaries of the new object; other data become doubles; and no time is
\* before the interval that ends now.
Converted(object, address) ==
  LET type == IF kind.aggregation = "distribution" THEN "kDistribution" ELSE "kDouble"
      buckets == IF type = "kDistribution" THEN address ELSE Null
      start == clock - kind.duration IN
  Object(type, type,
         [row \in DOMAIN object.rows |-> Datum(object.rows[row].merges, buckets)],
         [row \in DOMAIN object.start_times_ |-> NotBefore(object.start_times_[row], start)],
         NotBefore(object.start_time_, start))

\* Mutant: the data goes to the new object with its type, and the member is not made.
SwappedUnmade(object) ==
  Object(object.type_, "none", object.rows, object.start_times_, object.start_time_)

\* The constructor behind GetDeltaAndReset: the maps are swapped, with all in them.
Swapped(object) ==
  Object(object.type_, object.type_, object.rows, object.start_times_, object.start_time_)

\* ... and what it leaves in the source.
Drained(object) ==
  [object EXCEPT !.rows = NoRows, !.start_time_ = clock,
                 !.start_times_ = [row \in DOMAIN @ |-> clock]]

----------------------------------------------------------------------------
Step == steps < MaxSteps /\ steps' = steps + 1

\* The address of what a step makes.
Fresh == steps + 2

WithKey(map, key, value) == [k \in DOMAIN map \cup {key} |-> IF k = key THEN value ELSE map[k]]
WithoutKey(map, key) == [k \in DOMAIN map \ {key} |-> map[k]]

\* Merge, of a row into the view's object: a new row has a Distribution with the
\* boundaries of that object.
MergeIntoRow(row) ==
  LET object == heap[Source]
      buckets == IF object.type_ = "kDistribution" THEN Source ELSE Null
      datum == IF row \in DOMAIN object.rows THEN object.rows[row] ELSE Datum(0, buckets)
      rows == WithKey(object.rows, row, Datum(datum.merges + 1, datum.buckets))
      times == IF row \in DOMAIN object.start_times_ THEN object.start_times_
               ELSE WithKey(object.start_times_, row, clock)
  IN
  /\ Step /\ Source \in DOMAIN heap
  /\ heap' = [heap EXCEPT ![Source] = [object EXCEPT !.rows = rows, !.start_times_ = times]]
  /\ UNCHANGED <<kind, view_data, clock>>

\* View::GetData and ViewInformation::GetData, by type and window, with the ViewData
\* around the result: the address of its impl_, its end_time_, and (history) the view
\* and the time it was made, and the rows and times that the view had then.
GetData ==
  LET object == heap[Source]
      delta == object.type_ # "kStatsObject" /\ kind.window = "delta"
      taken == IF object.type_ = "kStatsObject" THEN Converted(object, Fresh)
               ELSE IF delta THEN Swapped(object) ELSE CopyOf(object)
  IN
  /\ Step /\ Source \in DOMAIN heap
  /\ heap' = WithKey(IF delta THEN [heap EXCEPT ![Source] = Drained(@)] ELSE heap, Fresh, taken)
  /\ view_data' = view_data \cup
       {[impl |-> Fresh, end_time_ |-> clock, view |-> kind, made |-> clock,
         rows |-> object.rows, times |-> object.start_times_]}
  /\ UNCHANGED <<kind, clock>>

\* ViewData's copy constructor: another object, and another end_time_.
CopyViewData(d) ==
  /\ Step
  /\ heap' = WithKey(heap, Fresh, CopyOf(heap[d.impl]))
  /\ view_data' = view_data \cup {[d EXCEPT !.impl = Fresh, !.end_time_ = clock]}
  /\ UNCHANGED <<kind, clock>>

\* A ViewData is destroyed, and its object.
DestroyViewData(d) ==
  /\ Step
  /\ heap' = WithoutKey(heap, d.impl)
  /\ view_data' = view_data \ {d}
  /\ UNCHANGED <<kind, clock>>

\* The last View is destroyed, and the ViewInformation with its object.
RemoveView ==
  /\ Step /\ Source \in DOMAIN heap
  /\ heap' = WithoutKey(heap, Source)
  /\ UNCHANGED <<kind, view_data, clock>>

TimePasses == Step /\ clock' = clock + 1 /\ UNCHANGED <<kind, heap, view_data>>

ObjectInit ==
  /\ kind \in ViewKinds
  /\ heap = WithKey(<<>>, Source, NewObject(0))
  /\ view_data = {} /\ clock = 0 /\ steps = 0

ObjectNext ==
  \/ \E row \in TagRows : MergeIntoRow(row)
  \/ GetData
  \/ \E d \in view_data : CopyViewData(d) \/ DestroyViewData(d)
  \/ RemoveView \/ TimePasses

ObjectSpec == ObjectInit /\ [][ObjectNext]_objectVars

----------------------------------------------------------------------------
\* What the stdout exporter prints of a ViewData: for the accessor of its type, a line
\* for each row, with the start time it looks up (at() throws if there is none).
Accessible(object, accessor) == IF object.type_ = accessor THEN object.rows ELSE NoRows

Printed(d) ==
  LET object == heap[d.impl]
      rows == Accessible(object, object.type_) IN
  {[row |-> row, from |-> object.start_times_[row], to |-> d.end_time_,
    merges |-> rows[row].merges] : row \in DOMAIN rows}

\* A row is shown from its time on; of an interval view, at most for the interval before
\* the data was made, however late it is copied or printed.
ShownFrom(d, row) ==
  IF TypeForDescriptor(d.view) = "kStatsObject"
  THEN NotBefore(d.times[row], d.made - d.view.duration) ELSE d.times[row]

\* Every object has constructed just the member of its type, which its destructor
\* destroys; a ViewData is of a type with an accessor and goes on showing what the view
\* held when it was made, whatever is merged, copied or destroyed, each row from the time
\* it had then or the start of the interval; and objects have Distributions with
\* boundaries just if their type says so.
ObjectsKept ==
  /\ \A a \in DOMAIN heap :
       /\ heap[a].member = heap[a].type_
       /\ \A row \in DOMAIN heap[a].rows : LET datum == heap[a].rows[row] IN
            datum.buckets # Null <=> heap[a].type_ = "kDistribution"
  /\ \A d \in view_data :
       /\ d.impl \in DOMAIN heap /\ heap[d.impl].type_ # "kStatsObject"
       /\ DOMAIN d.rows \subseteq DOMAIN heap[d.impl].start_times_
       /\ Printed(d) = {[row |-> row, from |-> ShownFrom(d, row), to |-> d.end_time_,
                         merges |-> d.rows[row].merges] : row \in DOMAIN d.rows}
  /\ \A d, e \in view_data : d.impl = e.impl => d = e

\* "buckets must outlive the Distribution" (distribution.h).  TLC refutes it.
BoundariesAlive ==
  \A a \in DOMAIN heap : \A row \in DOMAIN heap[a].rows :
    heap[a].rows[row].buckets \in {Null} \cup DOMAIN heap
=============================================================================
