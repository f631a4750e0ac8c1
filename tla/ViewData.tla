------------------------------ MODULE ViewData ------------------------------
(***************************************************************************)
(* ViewDataImpl: the data of one view, in which the harvester merges rows  *)
(* and from which readers take snapshots through View::GetData.            *)
(*                                                                         *)
(* A merge is named by its number; the data of a row is the set of the     *)
(* merges it stands for, of which a sum, a count, a last value or a         *)
(* Distribution is a function (what an interval's StatsObject makes of it   *)
(* depends on the time, too, and is not modelled here).                    *)
(*                                                                         *)
(* StatsManager's mu_ is held by the harvester for the whole of MergeDelta, *)
(* so a harvest is one step.  Readers share it, and their steps interleave. *)
(***************************************************************************)
EXTENDS Naturals, Sequences, FiniteSets, SequencesExt, FiniteSetsExt

CONSTANTS
  Rows,      \* the tag values of the view's columns
  Windows,   \* the types of aggregation windows tried
  Duration,  \* the duration of an interval
  Expiries,  \* the expiry durations tried; 0 if it is not set
  Readers,   \* the threads that call GetData
  MaxTime, MaxMerges, MaxReads \* bounds

ASSUME ViewAssumption ==
  Duration \in Nat /\ Expiries \subseteq Nat /\ IsFiniteSet(Readers)

VARIABLES
  aggregation_window_, expiry_duration_, \* of the view's descriptor: constant
  now,      \* the clock
  impl,     \* the rest of the ViewDataImpl
  pc,       \* each reader's next step
  time,     \* the `now` a reader passes to GetDeltaAndReset
  snapshot, \* the ViewDataImpl a reader has constructed
  merged,   \* history: the row and the time of each merge
  expired,  \* history: the merges whose data was purged
  views     \* history: the ViewData the readers were given

descriptor == <<aggregation_window_, expiry_duration_>>
readers == <<pc, time, snapshot>>
vars == <<descriptor, now, impl, readers, merged, expired, views>>

Empty == [row \in {} |-> {}]

NewViewDataImpl(start_time) ==
  [data |-> Empty, start_times |-> Empty, start_time |-> start_time,
   update_times |-> <<>>]

Init ==
  /\ aggregation_window_ \in Windows /\ expiry_duration_ \in Expiries
  /\ now = 0
  /\ impl = NewViewDataImpl(0)
  /\ pc = [t \in Readers |-> "idle"]
  /\ time = [t \in Readers |-> 0]
  /\ snapshot = [t \in Readers |-> NewViewDataImpl(0)]
  /\ merged = <<>> /\ expired = {} /\ views = <<>>

\* absl::Now() does not go back.
Tick ==
  /\ now < MaxTime /\ now' = now + 1
  /\ UNCHANGED <<descriptor, impl, readers, merged, expired, views>>

----------------------------------------------------------------------------
\* Merge.
Put(map, row, value) ==
  [r \in DOMAIN map \cup {row} |-> IF r = row THEN value ELSE map[r]]

Without(map, rows) == [r \in DOMAIN map \ rows |-> map[r]]

SetStartTimeIfUnset(start_times, row) ==
  IF row \in DOMAIN start_times THEN start_times ELSE Put(start_times, row, now)

\* Mutant: a row that is tracked stays where it is in the list.
SetUpdateTimeInPlace(update_times, row) ==
  IF expiry_duration_ = 0 THEN update_times
  ELSE IF \E i \in DOMAIN update_times : update_times[i].row = row
  THEN [i \in DOMAIN update_times |->
          IF update_times[i].row = row THEN [row |-> row, time |-> now]
          ELSE update_times[i]]
  ELSE <<[row |-> row, time |-> now]>> \o update_times

\* The row goes to the front of the list, whether it was tracked or not.
SetUpdateTime(update_times, row) ==
  IF expiry_duration_ = 0 THEN update_times
  ELSE LET tracked == {i \in DOMAIN update_times : update_times[i].row = row}
           others == IF tracked = {} THEN update_times
                     ELSE RemoveAt(update_times, CHOOSE i \in tracked : TRUE)
       IN <<[row |-> row, time |-> now]>> \o others

Old(entry) == now - entry.time > expiry_duration_

\* How many entries PurgeExpired leaves: it removes those at the back of the list, up
\* to the first one that is not old.  (The one at the front has just been updated.)
Remaining(update_times) ==
  IF expiry_duration_ = 0 THEN Len(update_times)
  ELSE Max({i \in DOMAIN update_times : ~Old(update_times[i])})

PurgeExpired(v) ==
  LET n == Remaining(v.update_times)
      rows == {v.update_times[i].row : i \in n + 1 .. Len(v.update_times)}
  IN [v EXCEPT !.start_times = Without(@, rows),
               !.data = Without(@, rows),
               !.update_times = SubSeq(@, 1, n)]

MergesOf(data) == UNION {data[row] : row \in DOMAIN data}

\* Merge for the n-th merge, into `row`; `lost` collects what is purged.
Merge(acc, row) ==
  LET timed == [acc.impl EXCEPT !.start_times = SetStartTimeIfUnset(@, row),
                                !.update_times = SetUpdateTime(@, row)]
      purged == PurgeExpired(timed)
      n == Len(acc.merged) + 1
      old == IF row \in DOMAIN purged.data THEN purged.data[row] ELSE {}
  IN [impl |-> [purged EXCEPT !.data = Put(@, row, old \cup {n})],
      merged |-> Append(acc.merged, [row |-> row, time |-> now]),
      lost |-> acc.lost \cup (MergesOf(timed.data) \ MergesOf(purged.data))]

\* Nobody holds mu_.
Unlocked == \A t \in Readers : pc[t] # "reset"

\* MergeDelta, for a delta with data for these rows: several tag sets may have
\* the same values for the view's columns.
MergeDelta(rows) ==
  LET result == FoldLeft(Merge, [impl |-> impl, merged |-> merged, lost |-> {}],
                         rows) IN
  /\ Unlocked
  /\ Len(merged) + Len(rows) <= MaxMerges
  /\ impl' = result.impl
  /\ merged' = result.merged
  /\ expired' = expired \cup result.lost
  /\ UNCHANGED <<descriptor, now, readers, views>>

----------------------------------------------------------------------------
\* GetData.
Goto(t, from, to) == pc[t] = from /\ pc' = [pc EXCEPT ![t] = to]

\* A thread calls GetData.
Reading(t) == pc[t] = "idle" /\ Len(views) < MaxReads

\* GetData of a cumulative view: the copy constructor.
GetCumulative(t) ==
  /\ aggregation_window_ = "cumulative" /\ Reading(t)
  /\ Goto(t, "idle", "view")
  /\ snapshot' = [snapshot EXCEPT ![t] = [impl EXCEPT !.update_times = <<>>]]
  /\ UNCHANGED <<descriptor, now, impl, time, merged, expired, views>>

\* The constructor that converts an interval view.
Later(a, b) == IF a > b THEN a ELSE b

Clipped(start) == IF now < Duration THEN start ELSE Later(start, now - Duration)

GetInterval(t) ==
  /\ aggregation_window_ = "interval" /\ Reading(t)
  /\ Goto(t, "idle", "view")
  /\ snapshot' = [snapshot EXCEPT ![t] =
       [data |-> impl.data,
        start_times |-> [row \in DOMAIN impl.start_times |->
                           Clipped(impl.start_times[row])],
        start_time |-> Clipped(impl.start_time),
        update_times |-> <<>>]]
  /\ UNCHANGED <<descriptor, now, impl, time, merged, expired, views>>

\* GetDeltaAndReset for a delta view.  Its constructor reads the source and
\* writes to it under a lock that readers share.  First the times are copied
\* and the data is taken...
GetDelta(t) ==
  /\ aggregation_window_ = "delta" /\ Reading(t)
  /\ Goto(t, "idle", "reset")
  /\ time' = [time EXCEPT ![t] = now]
  /\ snapshot' = [snapshot EXCEPT ![t] = [impl EXCEPT !.update_times = <<>>]]
  /\ UNCHANGED <<descriptor, now, impl, merged, expired, views>>

\* Mutants: the data stays; only the start time of the view is set.
ResetNothing(v, start) ==
  [v EXCEPT !.start_time = start,
            !.start_times = [row \in DOMAIN @ |-> start]]
ResetTotalOnly(v, start) == [v EXCEPT !.data = Empty, !.start_time = start]

\* ... then the source is left with empty data and new start times.
Reset(v, start) ==
  [v EXCEPT !.data = Empty, !.start_time = start,
            !.start_times = [row \in DOMAIN @ |-> start]]

ResetSource(t) ==
  /\ Goto(t, "reset", "view")
  /\ impl' = Reset(impl, time[t])
  /\ UNCHANGED <<descriptor, now, time, snapshot, merged, expired, views>>

\* The ViewData is constructed around the snapshot, without a lock.
MakeViewData(t) ==
  /\ Goto(t, "view", "idle")
  /\ views' = Append(views,
       [data |-> snapshot[t].data, start_times |-> snapshot[t].start_times,
        start_time |-> snapshot[t].start_time, end_time |-> now])
  /\ snapshot' = [snapshot EXCEPT ![t] = NewViewDataImpl(0)]
  /\ UNCHANGED <<descriptor, now, impl, time, merged, expired>>

----------------------------------------------------------------------------
\* The rows a delta has data for, in any order: one, or two that may be equal.
Deltas == {<<row>> : row \in Rows} \cup (Rows \X Rows)

Next ==
  \/ Tick
  \/ \E rows \in Deltas : MergeDelta(rows)
  \/ \E t \in Readers :
       \/ GetCumulative(t) \/ GetInterval(t) \/ GetDelta(t)
       \/ ResetSource(t) \/ MakeViewData(t)

Spec == Init /\ [][Next]_vars

----------------------------------------------------------------------------
\* What is claimed of it.

\* The merges a reader has taken away and not yet been given as a ViewData.
OnTheWay(t) == IF pc[t] = "view" THEN MergesOf(snapshot[t].data) ELSE {}

Given(k) == MergesOf(views[k].data)

\* Every merge is in one place, once: in the data of its row, gone with a row
\* that had expired, or, for a delta view, in one of the deltas readers were
\* given.
EachMergeOnce ==
  LET kept == <<MergesOf(impl.data), expired>>
      taken == [k \in DOMAIN views |-> Given(k)]
      under_way == {OnTheWay(t) : t \in Readers} \ {{}}
      places == IF aggregation_window_ = "delta"
                THEN kept \o taken \o SetToSeq(under_way) ELSE kept
  IN /\ UNION Range(places) = DOMAIN merged
     /\ \A j, k \in DOMAIN places : j # k => places[j] \cap places[k] = {}
     /\ \A v \in {impl} \cup Range(views) : \A row \in DOMAIN v.data :
          v.data[row] # {} /\ \A n \in v.data[row] : merged[n].row = row

\* The period a reader is told of contains the times of all merges it is given,
\* for the view and for each of its rows; the next period of a delta view starts
\* no later than the last one ended, so no time is left out.
PeriodsHold ==
  /\ aggregation_window_ # "interval" =>
       \A k \in DOMAIN views : LET v == views[k] IN \A row \in DOMAIN v.data :
         /\ v.start_time <= v.start_times[row]
         /\ \A n \in v.data[row] :
              merged[n].time \in v.start_times[row] .. v.end_time
  /\ aggregation_window_ = "delta" /\ Cardinality(Readers) = 1 =>
       \A k \in DOMAIN views : k > 1 =>
         /\ views[k].start_time <= views[k - 1].end_time
         /\ \A n \in Given(k - 1), m \in Given(k) : n < m

\* Exporters look up the start time of each row that has data and take it for
\* granted; rows are tracked for expiry once each, the newest first, as long as
\* they have a start time.
RowsTimed ==
  /\ \A v \in {impl} \cup Range(views) :
       DOMAIN v.data \subseteq DOMAIN v.start_times
  /\ expiry_duration_ > 0 =>
       LET entries == impl.update_times IN
       /\ {entries[i].row : i \in DOMAIN entries} = DOMAIN impl.start_times
       /\ Len(entries) = Cardinality(DOMAIN impl.start_times)
       /\ \A i, j \in DOMAIN entries :
            i < j => entries[i].time >= entries[j].time

\* "start_times" and "start_time" agree with the data, in the view and in all copies.
TimesHold == PeriodsHold /\ RowsTimed

\* The time of the last merge into a row that has one.
LastMerge(history, row) ==
  Max({history[n].time : n \in {k \in DOMAIN history : history[k].row = row}})

\* A merge removes exactly the rows that were not updated for longer than the
\* expiry, and nothing else removes any but the reset of a delta view.
PurgesExact ==
  /\ merged' # merged /\ expiry_duration_ > 0 =>
       \A row \in DOMAIN impl.start_times :
         row \in DOMAIN impl'.start_times <=> now - LastMerge(merged', row) <= expiry_duration_
  /\ \A row \in DOMAIN impl.data \ DOMAIN impl'.data :
       \/ /\ merged' # merged /\ expiry_duration_ > 0
          /\ now - LastMerge(merged, row) > expiry_duration_
       \/ merged' = merged /\ aggregation_window_ = "delta"

ExpiryExact == [][PurgesExact]_vars

\* "Each recorded value appears in exactly one delta" (aggregation_window.h).
\* TLC refutes it for two readers.
OneDelta ==
  aggregation_window_ = "delta" =>
    \A j, k \in DOMAIN views : j # k => Given(j) \cap Given(k) = {}
=============================================================================
