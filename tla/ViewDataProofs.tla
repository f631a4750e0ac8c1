--------------------------- MODULE ViewDataProofs ---------------------------
(***************************************************************************)
(* Theorems about ViewData, for every set of rows, windows, expiries and   *)
(* readers, and about the objects that ViewData is read in (ViewObjects).  *)
(***************************************************************************)
EXTENDS ViewData, ViewObjects, FiniteSetTheorems, TLAPS

\* MergeDelta folds Merge over the rows of a delta, the last one outermost.
MergeRow(row, acc) == Merge(acc, row)

Unfold == INSTANCE FoldUnfolds WITH op <- MergeRow, choose <- Max

IsMap(f, S) == DOMAIN f \subseteq Rows /\ f \in [DOMAIN f -> S]

Entries == [row : Rows, time : Nat]

IsImpl(v) ==
  /\ v = [data |-> v.data, start_times |-> v.start_times, start_time |-> v.start_time,
          update_times |-> v.update_times]
  /\ IsMap(v.data, SUBSET Nat) /\ IsMap(v.start_times, Nat)
  /\ v.start_time \in Nat /\ v.update_times \in Seq(Entries)

\* Each row has merges, and merges of that row only.
Labelled(data, history) ==
  \A row \in DOMAIN data :
    data[row] # {} /\ \A n \in data[row] : n \in DOMAIN history /\ history[n].row = row

\* The times of a view and of its rows, up to `end`, contain those of the merges.
Timed(v, history, end) ==
  /\ v.start_time <= end
  /\ \A row \in DOMAIN v.start_times :
       v.start_time <= v.start_times[row] /\ v.start_times[row] <= end
  /\ \A row \in DOMAIN v.data : \A n \in v.data[row] :
       v.start_times[row] <= history[n].time /\ history[n].time <= end

\* The last merge into the row was at this time.
LastAt(history, row, t) ==
  /\ \E n \in DOMAIN history : history[n].row = row /\ history[n].time = t
  /\ \A n \in DOMAIN history : history[n].row = row => history[n].time <= t

\* The list has each row that has a start time once, with the time of its last
\* merge, the newest first.
Tracked(entries, rows, history) ==
  /\ \A i \in DOMAIN entries :
       entries[i].row \in rows /\ LastAt(history, entries[i].row, entries[i].time)
  /\ \A row \in rows : \E i \in DOMAIN entries : entries[i].row = row
  /\ \A i, j \in DOMAIN entries :
       i < j => entries[i].row # entries[j].row /\ entries[i].time >= entries[j].time

----------------------------------------------------------------------------
\* The list.

\* A merge is the last into its row when it is made, and changes no other row's.
LEMMA LastAtAppend ==
  ASSUME NEW history \in Seq(Entries), NEW row \in Rows, NEW t \in Nat,
         \A n \in DOMAIN history : history[n].time <= t
  PROVE  /\ LastAt(Append(history, [row |-> row, time |-> t]), row, t)
         /\ \A r \in Rows, s \in Nat : r # row =>
              (LastAt(Append(history, [row |-> row, time |-> t]), r, s)
               <=> LastAt(history, r, s))
<1> DEFINE e == [row |-> row, time |-> t]
           h == Append(history, e)
<1>1. /\ DOMAIN h = 1 .. Len(history) + 1 /\ DOMAIN history = 1 .. Len(history)
      /\ h[Len(history) + 1] = e /\ \A n \in DOMAIN history : h[n] = history[n]
      /\ Len(history) \in Nat
  OBVIOUS
<1>2. e.row = row /\ e.time = t
  OBVIOUS
<1> HIDE DEF h, e
<1>3. LastAt(h, row, t)
  BY <1>1, <1>2 DEF LastAt
<1>4. ASSUME NEW r \in Rows, NEW s \in Nat, r # row
      PROVE  LastAt(h, r, s) <=> LastAt(history, r, s)
  BY <1>1, <1>2, <1>4 DEF LastAt
<1> QED
  BY <1>3, <1>4 DEF h, e

\* The list without the entry of a row that is tracked once, or not at all.
Others(entries, row) ==
  LET tracked == {i \in DOMAIN entries : entries[i].row = row} IN
  IF tracked = {} THEN entries ELSE RemoveAt(entries, CHOOSE i \in tracked : TRUE)

\* Removing the entry of a row leaves the others, in their order.
LEMMA OthersAre ==
  ASSUME NEW entries \in Seq(Entries), NEW row,
         \A i, j \in DOMAIN entries : i < j => entries[i].row # entries[j].row
  PROVE  /\ Others(entries, row) \in Seq(Entries)
         /\ \A i \in DOMAIN Others(entries, row) : \E k \in DOMAIN entries :
              Others(entries, row)[i] = entries[k] /\ entries[k].row # row
         /\ \A k \in DOMAIN entries : entries[k].row # row =>
              \E i \in DOMAIN Others(entries, row) : Others(entries, row)[i] = entries[k]
         /\ \A i, j \in DOMAIN Others(entries, row) : i < j =>
              \E k, l \in DOMAIN entries :
                /\ k < l
                /\ Others(entries, row)[i] = entries[k] /\ Others(entries, row)[j] = entries[l]
<1> DEFINE tracked == {i \in DOMAIN entries : entries[i].row = row}
           c == CHOOSE i \in tracked : TRUE
           rest == RemoveAt(entries, c)
<1>1. CASE tracked = {}
  <2>1. Others(entries, row) = entries
    BY <1>1 DEF Others
  <2> QED
    BY <1>1, <2>1
<1>2. CASE tracked # {}
  <2>1. c \in 1 .. Len(entries) /\ entries[c].row = row /\ Len(entries) \in Nat
    BY <1>2
  <2>2. Others(entries, row) = rest
    BY <1>2 DEF Others
  <2> HIDE DEF c, tracked
  <2>3. /\ rest \in Seq(Entries) /\ DOMAIN rest = 1 .. Len(entries) - 1
        /\ \A i \in 1 .. Len(entries) - 1 :
             rest[i] = IF i < c THEN entries[i] ELSE entries[i + 1]
    <3> DEFINE p == SubSeq(entries, 1, c - 1)
               q == SubSeq(entries, c + 1, Len(entries))
    <3>1. /\ p \in Seq(Entries) /\ Len(p) = c - 1
          /\ \A i \in 1 .. c - 1 : p[i] = entries[i]
      BY <2>1
    <3>2. /\ q \in Seq(Entries) /\ Len(q) = Len(entries) - c
          /\ \A i \in 1 .. Len(entries) - c : q[i] = entries[c + i]
      BY <2>1
    <3> HIDE DEF p, q
    <3>3. rest = p \o q
      BY DEF RemoveAt, p, q
    <3>4. /\ p \o q \in Seq(Entries) /\ Len(p \o q) = Len(p) + Len(q)
          /\ \A i \in 1 .. Len(p) + Len(q) :
               (p \o q)[i] = IF i <= Len(p) THEN p[i] ELSE q[i - Len(p)]
      <4>1. p \in Seq(Entries) /\ q \in Seq(Entries)
        BY <3>1, <3>2
      <4> QED
        BY <4>1
    <3>5. \A i \in 1 .. Len(entries) - 1 : i >= c => i - (c - 1) \in 1 .. Len(entries) - c /\ c + (i - (c - 1)) = i + 1
      BY <2>1
    <3> QED
      BY <2>1, <3>1, <3>2, <3>3, <3>4, <3>5
  <2> HIDE DEF rest
  <2> DEFINE from == [i \in 1 .. Len(entries) - 1 |-> IF i < c THEN i ELSE i + 1]
  <2>4. /\ \A i \in 1 .. Len(entries) - 1 :
             from[i] \in DOMAIN entries /\ from[i] # c /\ rest[i] = entries[from[i]]
        /\ \A i, j \in 1 .. Len(entries) - 1 : i < j => from[i] < from[j]
    BY <2>1, <2>3
  <2>5. \A k \in DOMAIN entries : k # c => \E i \in 1 .. Len(entries) - 1 : from[i] = k
    <3> SUFFICES ASSUME NEW k \in DOMAIN entries, k # c
                 PROVE  \E i \in 1 .. Len(entries) - 1 : from[i] = k
      OBVIOUS
    <3>1. CASE k < c
      <4>1. k \in 1 .. Len(entries) - 1 /\ from[k] = k
        BY <2>1, <3>1
      <4> QED
        BY <4>1
    <3>2. CASE k > c
      <4>1. k - 1 \in 1 .. Len(entries) - 1 /\ from[k - 1] = k
        BY <2>1, <3>2
      <4> QED
        BY <4>1
    <3> QED
      BY <2>1, <3>1, <3>2
  <2> HIDE DEF from
  <2>6. \A k \in DOMAIN entries : k # c => entries[k].row # row
    BY <2>1
  <2>7. \A i \in DOMAIN rest : \E k \in DOMAIN entries :
              rest[i] = entries[k] /\ entries[k].row # row
    BY <2>3, <2>4, <2>6
  <2>8. \A k \in DOMAIN entries : entries[k].row # row =>
              \E i \in DOMAIN rest : rest[i] = entries[k]
    <3> SUFFICES ASSUME NEW k \in DOMAIN entries, entries[k].row # row
                 PROVE  \E i \in DOMAIN rest : rest[i] = entries[k]
      OBVIOUS
    <3>1. PICK i \in 1 .. Len(entries) - 1 : from[i] = k
      BY <2>1, <2>5
    <3> QED
      BY <2>3, <2>4, <3>1
  <2>9. \A i, j \in DOMAIN rest : i < j =>
              \E k, l \in DOMAIN entries :
                k < l /\ rest[i] = entries[k] /\ rest[j] = entries[l]
    <3> SUFFICES ASSUME NEW i \in DOMAIN rest, NEW j \in DOMAIN rest, i < j
                 PROVE  \E k, l \in DOMAIN entries :
                          k < l /\ rest[i] = entries[k] /\ rest[j] = entries[l]
      OBVIOUS
    <3>1. /\ from[i] \in DOMAIN entries /\ from[j] \in DOMAIN entries /\ from[i] < from[j]
          /\ rest[i] = entries[from[i]] /\ rest[j] = entries[from[j]]
      BY <2>3, <2>4
    <3> QED
      BY <3>1
  <2> QED
    BY <2>2, <2>3, <2>7, <2>8, <2>9
<1> QED
  BY <1>1, <1>2

\* SetUpdateTime keeps the list as it should be for one merge more.
LEMMA SetUpdateTimeTracks ==
  ASSUME expiry_duration_ \in Nat, expiry_duration_ > 0, now \in Nat,
         NEW entries \in Seq(Entries), NEW rows \in SUBSET Rows, NEW history \in Seq(Entries),
         \A n \in DOMAIN history : history[n].time <= now,
         Tracked(entries, rows, history), NEW row \in Rows
  PROVE  /\ SetUpdateTime(entries, row) \in Seq(Entries)
         /\ SetUpdateTime(entries, row) # <<>>
         /\ SetUpdateTime(entries, row)[1] = [row |-> row, time |-> now]
         /\ Tracked(SetUpdateTime(entries, row), rows \cup {row},
                    Append(history, [row |-> row, time |-> now]))
<1> DEFINE e == [row |-> row, time |-> now]
           o == Others(entries, row)
           h == Append(history, e)
<1>1. /\ o \in Seq(Entries)
      /\ \A i \in DOMAIN o : \E k \in DOMAIN entries :
           o[i] = entries[k] /\ entries[k].row # row
      /\ \A k \in DOMAIN entries : entries[k].row # row => \E i \in DOMAIN o : o[i] = entries[k]
      /\ \A i, j \in DOMAIN o : i < j =>
           \E k, l \in DOMAIN entries : k < l /\ o[i] = entries[k] /\ o[j] = entries[l]
  BY OthersAre DEF Tracked
<1>2. e \in Entries /\ e.row = row /\ e.time = now
  BY DEF Entries
<1>0. SetUpdateTime(entries, row) = <<e>> \o o
  BY DEF SetUpdateTime, Others
<1> SUFFICES ASSUME NEW w, w = <<e>> \o o
             PROVE  w \in Seq(Entries) /\ w # <<>> /\ w[1] = e /\ Tracked(w, rows \cup {row}, h)
  BY <1>0
<1>3. /\ LastAt(h, row, now)
      /\ \A r \in Rows, s \in Nat : r # row => (LastAt(h, r, s) <=> LastAt(history, r, s))
  BY LastAtAppend
<1> HIDE DEF e, o, h
<1>4. /\ w \in Seq(Entries) /\ Len(w) = Len(o) + 1 /\ Len(o) \in Nat
      /\ DOMAIN w = 1 .. Len(o) + 1 /\ DOMAIN o = 1 .. Len(o)
      /\ w[1] = e /\ \A i \in DOMAIN w : i # 1 => i - 1 \in DOMAIN o /\ w[i] = o[i - 1]
  BY <1>1, <1>2
<1>5. \A i \in DOMAIN o : o[i + 1 - 1] = o[i] /\ i + 1 \in DOMAIN w /\ w[i + 1] = o[i]
  BY <1>4
<1>6. \A k \in DOMAIN entries :
        entries[k].row \in rows /\ LastAt(history, entries[k].row, entries[k].time)
        /\ entries[k].time \in Nat /\ entries[k].time <= now
  <2> SUFFICES ASSUME NEW k \in DOMAIN entries
               PROVE  entries[k].row \in rows /\ LastAt(history, entries[k].row, entries[k].time)
                      /\ entries[k].time \in Nat /\ entries[k].time <= now
    OBVIOUS
  <2>1. entries[k].row \in rows /\ LastAt(history, entries[k].row, entries[k].time)
    BY DEF Tracked
  <2>2. entries[k] \in Entries
    OBVIOUS
  <2> QED
    BY <2>1, <2>2 DEF LastAt, Entries
<1>7. \A i \in DOMAIN w : w[i].row \in rows \cup {row} /\ LastAt(h, w[i].row, w[i].time)
  <2> SUFFICES ASSUME NEW i \in DOMAIN w
               PROVE  w[i].row \in rows \cup {row} /\ LastAt(h, w[i].row, w[i].time)
    OBVIOUS
  <2>1. CASE i = 1
    BY <1>2, <1>3, <1>4, <2>1
  <2>2. CASE i # 1
    <3>1. PICK k \in DOMAIN entries : w[i] = entries[k] /\ entries[k].row # row
      BY <1>1, <1>4, <2>2
    <3> QED
      BY <1>3, <1>6, <3>1
  <2> QED
    BY <2>1, <2>2
<1>8. \A r \in rows \cup {row} : \E i \in DOMAIN w : w[i].row = r
  <2> SUFFICES ASSUME NEW r \in rows \cup {row}
               PROVE  \E i \in DOMAIN w : w[i].row = r
    OBVIOUS
  <2>1. CASE r = row
    <3>1. 1 \in DOMAIN w
      BY <1>4
    <3> QED
      BY <1>2, <1>4, <2>1, <3>1
  <2>2. CASE r # row
    <3>1. PICK k \in DOMAIN entries : entries[k].row = r
      BY <2>2 DEF Tracked
    <3>2. PICK i \in DOMAIN o : o[i] = entries[k]
      BY <1>1, <2>2, <3>1
    <3> QED
      BY <1>5, <3>1, <3>2
  <2> QED
    BY <2>1, <2>2
<1>9. \A i, j \in DOMAIN w : i < j => w[i].row # w[j].row /\ w[i].time >= w[j].time
  <2> SUFFICES ASSUME NEW i \in DOMAIN w, NEW j \in DOMAIN w, i < j
               PROVE  w[i].row # w[j].row /\ w[i].time >= w[j].time
    OBVIOUS
  <2>1. j # 1 /\ (i # 1 => i - 1 < j - 1)
    BY <1>4
  <2>2. CASE i = 1
    <3>1. PICK k \in DOMAIN entries : w[j] = entries[k] /\ entries[k].row # row
      BY <1>1, <1>4, <2>1
    <3> QED
      BY <1>2, <1>4, <1>6, <2>2, <3>1
  <2>3. CASE i # 1
    <3>1. PICK k \in DOMAIN entries, l \in DOMAIN entries :
            k < l /\ o[i - 1] = entries[k] /\ o[j - 1] = entries[l]
      BY <1>1, <1>4, <2>1, <2>3
    <3>2. w[i] = entries[k] /\ w[j] = entries[l]
      BY <1>4, <2>1, <2>3, <3>1
    <3> QED
      BY <3>1, <3>2 DEF Tracked
  <2> QED
    BY <2>2, <2>3
<1>10. w # <<>>
  BY <1>4
<1> QED
  BY <1>4, <1>7, <1>8, <1>9, <1>10 DEF Tracked

\* PurgeExpired keeps the entries that are not old, which are those in front.
Sorted(entries) ==
  \A i, j \in DOMAIN entries : i < j => entries[i].time >= entries[j].time

\* The entries that stay are those up to the last one that is not old.
LEMMA RemainingIs ==
  ASSUME expiry_duration_ \in Nat, expiry_duration_ > 0, now \in Nat,
         NEW entries \in Seq(Entries), entries # <<>>, ~ Old(entries[1]), Sorted(entries)
  PROVE  /\ Remaining(entries) \in 1 .. Len(entries)
         /\ \A i \in DOMAIN entries : Old(entries[i]) <=> i > Remaining(entries)
<1> DEFINE young == {i \in DOMAIN entries : ~ Old(entries[i])}
           L == Len(entries)
<1>1. L \in Nat /\ DOMAIN entries = 1 .. L /\ 1 \in young
  OBVIOUS
<1>2. \A i \in DOMAIN entries : entries[i].time \in Nat
  <2>1. \A i \in DOMAIN entries : entries[i] \in Entries
    OBVIOUS
  <2> QED
    BY <2>1 DEF Entries
<1>3. young \in SUBSET (0 .. L) /\ young # {}
  BY <1>1
<1> HIDE DEF young
<1>4. \E x \in young : \A y \in young : x >= y
  BY <1>1, <1>3, Unfold!GreatestNumber
<1> DEFINE m == Max(young)
<1>5. m \in young /\ \A y \in young : m >= y
  BY <1>4 DEF Max
<1>6. Remaining(entries) = m
  BY DEF Remaining, young
<1> HIDE DEF m
<1>7. ASSUME NEW i \in DOMAIN entries, i <= m PROVE ~ Old(entries[i])
  <2>1. m \in DOMAIN entries /\ ~ Old(entries[m])
    BY <1>5 DEF young
  <2>2. entries[i].time >= entries[m].time
    BY <1>1, <1>2, <1>7, <2>1 DEF Sorted
  <2> QED
    BY <1>2, <2>1, <2>2 DEF Old
<1>8. ASSUME NEW i \in DOMAIN entries, i > m PROVE Old(entries[i])
  BY <1>1, <1>5, <1>8 DEF young
<1>9. m \in 1 .. L
  BY <1>1, <1>5 DEF young
<1> QED
  BY <1>1, <1>6, <1>7, <1>8, <1>9

\* The rows PurgeExpired removes.
Purged(entries) ==
  {entries[i].row : i \in Remaining(entries) + 1 .. Len(entries)}

\* PurgeExpired leaves the list right for the rows it leaves, and none that is old.
LEMMA PurgeTracks ==
  ASSUME expiry_duration_ \in Nat, expiry_duration_ > 0, now \in Nat,
         NEW entries \in Seq(Entries), entries # <<>>, ~ Old(entries[1]),
         NEW rows, NEW history, Tracked(entries, rows, history)
  PROVE  LET left == SubSeq(entries, 1, Remaining(entries)) IN
         /\ left \in Seq(Entries)
         /\ Tracked(left, rows \ Purged(entries), history)
         /\ \A i \in DOMAIN left : ~ Old(left[i])
         /\ \A r \in Purged(entries) : \E t \in Nat :
              LastAt(history, r, t) /\ now - t > expiry_duration_
         /\ entries[1].row \notin Purged(entries)
<1> DEFINE m == Remaining(entries)  P == Purged(entries)
           left == SubSeq(entries, 1, m)
<1>1. m \in 1 .. Len(entries) /\ \A i \in DOMAIN entries : Old(entries[i]) <=> i > m
  BY RemainingIs DEF Tracked, Sorted
<1>2. DOMAIN entries = 1 .. Len(entries) /\ Len(entries) \in Nat
  OBVIOUS
<1>3. P = {entries[i].row : i \in m + 1 .. Len(entries)}
  BY DEF Purged
<1> HIDE DEF m, P
<1>4. /\ left \in Seq(Entries) /\ DOMAIN left = 1 .. m
      /\ \A i \in 1 .. m : left[i] = entries[i] /\ i \in DOMAIN entries
  BY <1>1, <1>2
<1> HIDE DEF left
<1>5. ASSUME NEW i \in 1 .. m PROVE entries[i].row \notin P
  <2> SUFFICES ASSUME NEW j \in m + 1 .. Len(entries), entries[i].row = entries[j].row
               PROVE  FALSE
    BY <1>3
  <2>1. i \in DOMAIN entries /\ j \in DOMAIN entries /\ i < j
    BY <1>1, <1>2
  <2> QED
    BY <2>1 DEF Tracked
<1>6. \A r \in rows \ P : \E i \in DOMAIN left : left[i].row = r
  <2> SUFFICES ASSUME NEW r \in rows, r \notin P
               PROVE  \E i \in DOMAIN left : left[i].row = r
    OBVIOUS
  <2>1. PICK i \in DOMAIN entries : entries[i].row = r
    BY DEF Tracked
  <2>2. ~ (i \in m + 1 .. Len(entries))
    BY <1>3, <2>1
  <2>3. i \in 1 .. m
    BY <1>1, <1>2, <2>2
  <2> QED
    BY <1>4, <2>1, <2>3
<1>7. Tracked(left, rows \ P, history)
  BY <1>4, <1>5, <1>6 DEF Tracked
<1>8. \A i \in DOMAIN left : ~ Old(left[i])
  BY <1>1, <1>4
<1>9. \A r \in P : \E t \in Nat : LastAt(history, r, t) /\ now - t > expiry_duration_
  <2> SUFFICES ASSUME NEW i \in m + 1 .. Len(entries)
               PROVE  \E t \in Nat : LastAt(history, entries[i].row, t) /\ now - t > expiry_duration_
    BY <1>3
  <2>1. i \in DOMAIN entries /\ i > m
    BY <1>1, <1>2
  <2>2. Old(entries[i]) /\ LastAt(history, entries[i].row, entries[i].time)
    BY <1>1, <2>1 DEF Tracked
  <2>3. entries[i] \in Entries
    BY <2>1
  <2> QED
    BY <2>2, <2>3 DEF Old, Entries
<1>10. entries[1].row \notin P
  BY <1>1, <1>5
<1> QED
  BY <1>4, <1>7, <1>8, <1>9, <1>10 DEF left, P, m

----------------------------------------------------------------------------
\* One merge.

History(history) ==
  history \in Seq(Entries) /\ \A n \in DOMAIN history : history[n].time <= now

\* What holds of the ViewDataImpl, with the history of its merges.
DataInv(v, history) ==
  /\ IsImpl(v)
  /\ DOMAIN v.data \subseteq DOMAIN v.start_times
  /\ Labelled(v.data, history) /\ Timed(v, history, now)
  /\ expiry_duration_ > 0 => Tracked(v.update_times, DOMAIN v.start_times, history)

\* `after` is `acc` after a merge into `row` that has purged the rows of P.
Purging(acc, row, P, after) ==
  /\ IsImpl(after.impl)
  /\ after.impl.start_time = acc.impl.start_time
  /\ after.impl.data = Put(Without(acc.impl.data, P), row,
       (IF row \in DOMAIN acc.impl.data THEN acc.impl.data[row] ELSE {})
         \cup {Len(acc.merged) + 1})
  /\ after.impl.start_times = Without(SetStartTimeIfUnset(acc.impl.start_times, row), P)
  /\ after.merged = Append(acc.merged, [row |-> row, time |-> now])
  /\ after.lost = acc.lost \cup (MergesOf(acc.impl.data) \ MergesOf(Without(acc.impl.data, P)))
  /\ row \notin P
  /\ expiry_duration_ = 0 => P = {}
  /\ expiry_duration_ > 0 =>
       /\ Tracked(after.impl.update_times, DOMAIN after.impl.start_times, after.merged)
       /\ \A i \in DOMAIN after.impl.update_times : ~ Old(after.impl.update_times[i])
       /\ \A r \in P : \E t \in Nat : LastAt(after.merged, r, t) /\ now - t > expiry_duration_

\* Put and Without keep a map a map.
LEMMA PutIsMap ==
  ASSUME NEW S, NEW f, IsMap(f, S), NEW row \in Rows, NEW x \in S
  PROVE  IsMap(Put(f, row, x), S)
  BY DEF IsMap, Put

LEMMA WithoutIsMap ==
  ASSUME NEW S, NEW f, IsMap(f, S), NEW P
  PROVE  IsMap(Without(f, P), S)
  BY DEF IsMap, Without

\* Changing two fields of a ViewDataImpl leaves the others.
LEMMA TimesChanged ==
  ASSUME NEW v, NEW starts, NEW entries,
         v = [data |-> v.data, start_times |-> v.start_times, start_time |-> v.start_time,
              update_times |-> v.update_times]
  PROVE  [v EXCEPT !.start_times = starts, !.update_times = entries] =
           [data |-> v.data, start_times |-> starts, start_time |-> v.start_time,
            update_times |-> entries]
<1> DEFINE w == [v EXCEPT !.start_times = starts, !.update_times = entries]
<1>1. DOMAIN w = {"data", "start_times", "start_time", "update_times"}
  OBVIOUS
<1>2. /\ w.data = v.data /\ w.start_times = starts
      /\ w.start_time = v.start_time /\ w.update_times = entries
  OBVIOUS
<1>3. w = [field \in DOMAIN w |-> w[field]]
  OBVIOUS
<1> HIDE DEF w
<1>4. w = [data |-> v.data, start_times |-> starts, start_time |-> v.start_time,
           update_times |-> entries]
  BY <1>1, <1>2, <1>3
<1> QED
  BY <1>4 DEF w

\* Merge does what Purging says.
LEMMA MergeIs ==
  ASSUME expiry_duration_ \in Nat, now \in Nat, NEW acc, NEW row \in Rows,
         History(acc.merged), DataInv(acc.impl, acc.merged)
  PROVE  \E P : Purging(acc, row, P, Merge(acc, row))
<1> DEFINE v == acc.impl
           h == Append(acc.merged, [row |-> row, time |-> now])
           starts == SetStartTimeIfUnset(v.start_times, row)
           entries == SetUpdateTime(v.update_times, row)
           timed == [v EXCEPT !.start_times = starts, !.update_times = entries]
           m == Remaining(entries)
           P == {entries[i].row : i \in m + 1 .. Len(entries)}
           left == SubSeq(entries, 1, m)
           old == IF row \in DOMAIN v.data THEN v.data[row] ELSE {}
           n == Len(acc.merged) + 1
           kept == Without(v.data, P)
           old2 == IF row \in DOMAIN kept THEN kept[row] ELSE {}
<1>1. IsImpl(v) /\ acc.merged \in Seq(Entries) /\ n \in Nat
  BY DEF DataInv, History
<1>2. timed = [data |-> v.data, start_times |-> starts, start_time |-> v.start_time,
               update_times |-> entries]
  BY <1>1, TimesChanged DEF IsImpl
<1>3. PurgeExpired(timed) =
        [data |-> kept, start_times |-> Without(starts, P), start_time |-> v.start_time,
         update_times |-> left]
  <2> HIDE DEF timed, starts, entries
  <2>1. PurgeExpired(timed) =
        [timed EXCEPT !.start_times = Without(@, P), !.data = Without(@, P),
                      !.update_times = SubSeq(@, 1, m)]
    BY <1>2 DEF PurgeExpired
  <2> HIDE DEF m, P
  <2> QED
    BY <1>2, <2>1
<1>4. Merge(acc, row) =
        [impl |-> [data |-> Put(kept, row, old2 \cup {n}), start_times |-> Without(starts, P),
                   start_time |-> v.start_time, update_times |-> left],
         merged |-> h,
         lost |-> acc.lost \cup (MergesOf(v.data) \ MergesOf(kept))]
  <2>1. Merge(acc, row) =
        [impl |-> [PurgeExpired(timed) EXCEPT !.data =
                     Put(@, row, (IF row \in DOMAIN PurgeExpired(timed).data
                                  THEN PurgeExpired(timed).data[row] ELSE {}) \cup {n})],
         merged |-> h,
         lost |-> acc.lost \cup (MergesOf(timed.data) \ MergesOf(PurgeExpired(timed).data))]
    BY DEF Merge
  <2> HIDE DEF h, starts, entries, P, left, n
  <2>2. timed.data = v.data
    BY <1>2
  <2> HIDE DEF timed
  <2> QED
    BY <1>3, <2>1, <2>2
<1> HIDE DEF timed
<1>5. IsMap(starts, Nat)
  BY <1>1, PutIsMap DEF SetStartTimeIfUnset, IsImpl
<1>6. /\ entries \in Seq(Entries) /\ left \in Seq(Entries)
      /\ row \notin P
      /\ expiry_duration_ = 0 => P = {}
      /\ expiry_duration_ > 0 =>
           /\ Tracked(left, DOMAIN starts \ P, h)
           /\ \A i \in DOMAIN left : ~ Old(left[i])
           /\ \A r \in P : \E t \in Nat : LastAt(h, r, t) /\ now - t > expiry_duration_
  <2>1. CASE expiry_duration_ = 0
    <3>1. entries = v.update_times /\ entries \in Seq(Entries)
      BY <1>1, <2>1 DEF SetUpdateTime, IsImpl
    <3>2. m = Len(entries) /\ Len(entries) \in Nat
      BY <2>1, <3>1 DEF Remaining
    <3> HIDE DEF entries, m
    <3>3. P = {}
      BY <3>2
    <3>4. left \in Seq(Entries)
      BY <3>1, <3>2
    <3> QED
      <4> HIDE DEF P, left, h, starts
      <4> QED
        BY <2>1, <3>1, <3>3, <3>4
  <2>2. CASE expiry_duration_ > 0
    <3>1. /\ v.update_times \in Seq(Entries) /\ DOMAIN v.start_times \in SUBSET Rows
          /\ Tracked(v.update_times, DOMAIN v.start_times, acc.merged)
          /\ \A k \in DOMAIN acc.merged : acc.merged[k].time <= now
      BY <1>1, <2>2 DEF IsImpl, IsMap, DataInv, History
    <3>2. /\ entries \in Seq(Entries) /\ entries # <<>>
          /\ entries[1] = [row |-> row, time |-> now]
          /\ Tracked(entries, DOMAIN v.start_times \cup {row}, h)
      BY <1>1, <2>2, <3>1, SetUpdateTimeTracks
    <3>3. DOMAIN starts = DOMAIN v.start_times \cup {row}
      BY DEF SetStartTimeIfUnset, Put
    <3>4. ~ Old(entries[1]) /\ entries[1].row = row
      BY <2>2, <3>2 DEF Old
    <3> HIDE DEF entries, h, starts
    <3>5. P = Purged(entries)
      BY DEF Purged
    <3> HIDE DEF P
    <3>6. /\ left \in Seq(Entries)
          /\ Tracked(left, (DOMAIN v.start_times \cup {row}) \ Purged(entries), h)
          /\ \A i \in DOMAIN left : ~ Old(left[i])
          /\ \A r \in Purged(entries) : \E t \in Nat :
               LastAt(h, r, t) /\ now - t > expiry_duration_
          /\ entries[1].row \notin Purged(entries)
      BY <2>2, <3>2, <3>4, PurgeTracks
    <3> HIDE DEF left
    <3> QED
      BY <2>2, <3>2, <3>3, <3>4, <3>5, <3>6
  <2> HIDE DEF starts, entries, left, P, h
  <2> QED
    BY <2>1, <2>2
<1> HIDE DEF starts, entries, left, P, h
<1>7. old2 = old /\ IsMap(kept, SUBSET Nat) /\ old \cup {n} \in SUBSET Nat
  <2>1. old2 = old
    BY <1>6 DEF Without
  <2>2. IsMap(v.data, SUBSET Nat)
    BY <1>1 DEF IsImpl
  <2>3. old \in SUBSET Nat
    BY <2>2 DEF IsMap
  <2> QED
    BY <1>1, <2>1, <2>2, <2>3, WithoutIsMap
<1>8. IsMap(Put(kept, row, old \cup {n}), SUBSET Nat) /\ IsMap(Without(starts, P), Nat)
  BY <1>5, <1>7, PutIsMap, WithoutIsMap
<1> DEFINE after == Merge(acc, row)
<1>9. /\ after.impl = [data |-> Put(kept, row, old \cup {n}), start_times |-> Without(starts, P),
                   start_time |-> v.start_time, update_times |-> left]
      /\ after.merged = h
      /\ after.lost = acc.lost \cup (MergesOf(v.data) \ MergesOf(kept))
  <2> HIDE DEF kept, old, old2, n
  <2> QED
    BY <1>4, <1>7
<1> HIDE DEF after
<1>10. IsImpl(after.impl)
  <2> HIDE DEF kept, old, n
  <2> QED
    BY <1>1, <1>6, <1>8, <1>9 DEF IsImpl
<1>11. DOMAIN Without(starts, P) = DOMAIN starts \ P
  BY DEF Without
<1>12. Purging(acc, row, P, after)
  BY <1>6, <1>9, <1>10, <1>11 DEF Purging, starts, h
<1> QED
  BY <1>12 DEF after

----------------------------------------------------------------------------
\* A merge keeps what holds of the data.
LEMMA PurgingKeepsData ==
  ASSUME expiry_duration_ \in Nat, now \in Nat, NEW acc, NEW row \in Rows, NEW P, NEW after,
         History(acc.merged), DataInv(acc.impl, acc.merged), Purging(acc, row, P, after)
  PROVE  History(after.merged) /\ DataInv(after.impl, after.merged)
<1> DEFINE n == Len(acc.merged) + 1
           e == [row |-> row, time |-> now]
           d == acc.impl.data
           starts == acc.impl.start_times
<1>1. /\ acc.merged \in Seq(Entries) /\ e \in Entries /\ e.row = row /\ e.time = now
      /\ after.merged = Append(acc.merged, e)
  BY DEF History, Purging, Entries
<1> HIDE DEF e
<1>2. /\ after.merged \in Seq(Entries) /\ n \in Nat /\ n > 0
      /\ DOMAIN acc.merged = 1 .. n - 1 /\ DOMAIN after.merged = 1 .. n
      /\ after.merged[n] = e /\ \A k \in 1 .. n - 1 : after.merged[k] = acc.merged[k]
  BY <1>1
<1>3. History(after.merged)
  <2> SUFFICES ASSUME NEW k \in 1 .. n PROVE after.merged[k].time <= now
    BY <1>2 DEF History
  <2>1. CASE k = n
    BY <1>1, <1>2, <2>1
  <2>2. CASE k # n
    <3>1. k \in 1 .. n - 1
      BY <1>2, <2>2
    <3> QED
      BY <1>2, <3>1 DEF History
  <2> QED
    BY <2>1, <2>2
<1> DEFINE D == after.impl.data  S == after.impl.start_times
           old == IF row \in DOMAIN d THEN d[row] ELSE {}
<1>4. /\ DOMAIN D = (DOMAIN d \ P) \cup {row}
      /\ \A r \in DOMAIN D : D[r] = IF r = row THEN old \cup {n} ELSE d[r]
  BY DEF Purging, Put, Without
<1>5. /\ DOMAIN S = (DOMAIN starts \ P) \cup {row}
      /\ \A r \in DOMAIN S : S[r] = IF r \in DOMAIN starts THEN starts[r] ELSE now
  BY DEF Purging, Put, Without, SetStartTimeIfUnset
<1>6. /\ DOMAIN d \subseteq DOMAIN starts /\ Labelled(d, acc.merged)
      /\ Timed(acc.impl, acc.merged, now) /\ starts \in [DOMAIN starts -> Nat]
      /\ acc.impl.start_time \in Nat
  BY DEF DataInv, IsImpl, IsMap
<1> HIDE DEF n, d, starts, D, S
<1>7. \A r \in DOMAIN d : \A k \in d[r] : k \in 1 .. n - 1 /\ after.merged[k] = acc.merged[k]
  BY <1>2, <1>6 DEF Labelled
<1>8. \A r \in DOMAIN D : \A k \in D[r] :
        \/ r \in DOMAIN d /\ k \in d[r]
        \/ r = row /\ k = n
  BY <1>4
<1>9. Labelled(D, after.merged)
  <2> SUFFICES ASSUME NEW r \in DOMAIN D
               PROVE  D[r] # {} /\ \A k \in D[r] : k \in DOMAIN after.merged /\ after.merged[k].row = r
    BY DEF Labelled
  <2>1. D[r] # {}
    <3>1. CASE r = row
      BY <1>4, <3>1
    <3>2. CASE r # row
      <4>1. r \in DOMAIN d /\ D[r] = d[r]
        BY <1>4, <3>2
      <4> QED
        BY <1>6, <4>1 DEF Labelled
    <3> QED
      BY <3>1, <3>2
  <2>2. ASSUME NEW k \in D[r] PROVE k \in DOMAIN after.merged /\ after.merged[k].row = r
    <3>1. CASE r \in DOMAIN d /\ k \in d[r]
      <4>1. k \in 1 .. n - 1 /\ after.merged[k] = acc.merged[k] /\ acc.merged[k].row = r
        BY <1>6, <1>7, <3>1 DEF Labelled
      <4> QED
        BY <1>2, <4>1
    <3>2. CASE r = row /\ k = n
      BY <1>1, <1>2, <3>2
    <3> QED
      BY <1>8, <3>1, <3>2
  <2> QED
    BY <2>1, <2>2
<1>10. DOMAIN D \subseteq DOMAIN S
  BY <1>4, <1>5, <1>6
<1>11. Timed(after.impl, after.merged, now)
  <2>1. after.impl.start_time = acc.impl.start_time
    BY DEF Purging
  <2>2. ASSUME NEW r \in DOMAIN S
        PROVE  acc.impl.start_time <= S[r] /\ S[r] <= now
    BY <1>5, <1>6, <2>2 DEF Timed, starts
  <2>3. ASSUME NEW r \in DOMAIN D, NEW k \in D[r]
        PROVE  S[r] <= after.merged[k].time /\ after.merged[k].time <= now
    <3>1. CASE r \in DOMAIN d /\ k \in d[r]
      <4>1. /\ after.merged[k] = acc.merged[k]
            /\ starts[r] <= acc.merged[k].time /\ acc.merged[k].time <= now
        BY <1>6, <1>7, <3>1 DEF Timed, d, starts
      <4>2. S[r] = starts[r]
        BY <1>5, <1>6, <1>10, <3>1
      <4> QED
        BY <4>1, <4>2
    <3>2. CASE r = row /\ k = n
      <4>1. S[r] <= now
        BY <1>10, <2>2
      <4> QED
        BY <1>1, <1>2, <3>2, <4>1
    <3> QED
      BY <1>8, <3>1, <3>2
  <2>4. acc.impl.start_time <= now
    BY <1>6 DEF Timed
  <2> QED
    BY <2>1, <2>2, <2>3, <2>4 DEF Timed, D, S
<1> QED
  BY <1>3, <1>9, <1>10, <1>11 DEF DataInv, Purging, D, S

----------------------------------------------------------------------------
\* What MergeDelta has done so far.

\* The merges were all made now.
Extends(history) ==
  /\ Len(merged) <= Len(history)
  /\ \A n \in DOMAIN history :
       IF n <= Len(merged) THEN history[n] = merged[n] ELSE history[n].time = now

\* A row is gone if it had expired.
Gone(v, history) ==
  \A row \in DOMAIN impl.start_times \ DOMAIN v.start_times :
    /\ expiry_duration_ > 0
    /\ \E t \in Nat : /\ LastAt(merged, row, t) /\ LastAt(history, row, t)
                      /\ now - t > expiry_duration_

\* The data of a row goes when its start time goes.
GoneTogether(v) == DOMAIN impl.data \cap DOMAIN v.start_times \subseteq DOMAIN v.data

\* No row is left that is old.
Settled(v, history) ==
  history # merged /\ expiry_duration_ > 0 =>
    \A i \in DOMAIN v.update_times : ~ Old(v.update_times[i])

\* What was merged is in the data of a row or lost, once.
Accounted(v, lost, history) ==
  /\ MergesOf(v.data) \cup lost = MergesOf(impl.data) \cup (Len(merged) + 1 .. Len(history))
  /\ MergesOf(v.data) \cap lost = {}

Harvest(acc) ==
  /\ History(acc.merged) /\ DataInv(acc.impl, acc.merged)
  /\ acc.impl.start_time = impl.start_time
  /\ Extends(acc.merged) /\ Gone(acc.impl, acc.merged) /\ GoneTogether(acc.impl)
  /\ Settled(acc.impl, acc.merged) /\ Accounted(acc.impl, acc.lost, acc.merged)

\* At first nothing has been merged.
LEMMA HarvestStarts ==
  ASSUME History(merged), DataInv(impl, merged)
  PROVE  Harvest([impl |-> impl, merged |-> merged, lost |-> {}])
<1>1. Extends(merged) /\ Gone(impl, merged) /\ GoneTogether(impl) /\ Settled(impl, merged)
  BY DEF Extends, Gone, GoneTogether, Settled, History
<1>2. Accounted(impl, {}, merged)
  BY DEF Accounted, History
<1> QED
  BY <1>1, <1>2 DEF Harvest

\* A merge is in the data if it is in that of a row.
LEMMA InMergesOf ==
  ASSUME NEW data, NEW n
  PROVE  n \in MergesOf(data) <=> \E row \in DOMAIN data : n \in data[row]
  BY DEF MergesOf

\* One merge more, and some of those there were lost.
LEMMA OneMoreKept ==
  ASSUME NEW held, NEW kept, NEW lost, NEW before, NEW since, NEW n,
         held \cup lost = before \cup since, held \cap lost = {},
         kept \subseteq held, n \notin held \cup lost
  PROVE  /\ (kept \cup {n}) \cup (lost \cup (held \ kept)) = before \cup (since \cup {n})
         /\ (kept \cup {n}) \cap (lost \cup (held \ kept)) = {}
OBVIOUS

\* A merge goes to the data of its row; what is purged is lost.
LEMMA PurgingAccounts ==
  ASSUME NEW acc, NEW row \in Rows, NEW P, NEW after, Harvest(acc), Purging(acc, row, P, after),
         History(merged), DataInv(impl, merged)
  PROVE  Accounted(after.impl, after.lost, after.merged)
<1> DEFINE n == Len(acc.merged) + 1
           d == acc.impl.data
           kept == Without(d, P)
           old == IF row \in DOMAIN d THEN d[row] ELSE {}
           D == after.impl.data
<1>1. /\ D = Put(kept, row, old \cup {n})
      /\ after.lost = acc.lost \cup (MergesOf(d) \ MergesOf(kept))
      /\ row \notin P
  BY DEF Purging
<1>2. /\ Len(acc.merged) \in Nat /\ Len(merged) \in Nat /\ Len(merged) <= Len(acc.merged)
      /\ Len(after.merged) = n /\ DOMAIN acc.merged = 1 .. n - 1
  BY DEF Harvest, History, Extends, Purging
<1>3. /\ MergesOf(d) \cup acc.lost = MergesOf(impl.data) \cup (Len(merged) + 1 .. n - 1)
      /\ MergesOf(d) \cap acc.lost = {}
  BY <1>2 DEF Harvest, Accounted
<1> HIDE DEF D, d
<1>4. MergesOf(D) = MergesOf(kept) \cup {n}
  <2>1. ASSUME NEW k PROVE k \in MergesOf(D) <=> k \in MergesOf(kept) \/ k = n
    <3>1. k \in MergesOf(D) <=> \E r \in DOMAIN D : k \in D[r]
      BY InMergesOf
    <3>2. k \in MergesOf(kept) <=> \E r \in DOMAIN kept : k \in kept[r]
      BY InMergesOf
    <3>3. /\ DOMAIN D = DOMAIN kept \cup {row} /\ D[row] = old \cup {n}
          /\ \A r \in DOMAIN kept : r # row => D[r] = kept[r]
          /\ row \in DOMAIN kept => kept[row] = old
          /\ row \notin DOMAIN kept => old = {}
      BY <1>1 DEF Put, Without
    <3> HIDE DEF kept, old, n
    <3> QED
      BY <3>1, <3>2, <3>3
  <2> QED
    BY <2>1
<1>5. MergesOf(kept) \subseteq MergesOf(d)
  <2>1. ASSUME NEW k \in MergesOf(kept) PROVE k \in MergesOf(d)
    BY InMergesOf DEF Without
  <2> QED
    BY <2>1
<1>6. n \notin MergesOf(d) \cup acc.lost
  <2>1. ASSUME NEW k \in MergesOf(impl.data) PROVE k \in 1 .. Len(merged)
    <3>1. PICK r \in DOMAIN impl.data : k \in impl.data[r]
      BY InMergesOf
    <3> QED
      BY <1>2, <3>1 DEF DataInv, Labelled, History
  <2> QED
    BY <1>2, <1>3, <2>1
<1>7. Len(merged) + 1 .. n = (Len(merged) + 1 .. n - 1) \cup {n}
  BY <1>2
<1> HIDE DEF n, kept
<1>8. /\ MergesOf(D) \cup after.lost =
           MergesOf(impl.data) \cup (Len(merged) + 1 .. Len(after.merged))
      /\ MergesOf(D) \cap after.lost = {}
  <2>1. after.lost = acc.lost \cup (MergesOf(d) \ MergesOf(kept)) /\ Len(after.merged) = n
    BY <1>1, <1>2
  <2>2. /\ (MergesOf(kept) \cup {n}) \cup (acc.lost \cup (MergesOf(d) \ MergesOf(kept))) =
              MergesOf(impl.data) \cup ((Len(merged) + 1 .. n - 1) \cup {n})
        /\ (MergesOf(kept) \cup {n}) \cap (acc.lost \cup (MergesOf(d) \ MergesOf(kept))) = {}
    BY <1>3, <1>5, <1>6, OneMoreKept
  <2> QED
    BY <1>4, <1>7, <2>1, <2>2
<1> QED
  BY <1>8 DEF Accounted, D

\* A row that goes had expired when MergeDelta began, as it was not merged into since.
LEMMA PurgingRemoves ==
  ASSUME expiry_duration_ \in Nat, now \in Nat,
         NEW acc, NEW row \in Rows, NEW P, NEW after, Harvest(acc), Purging(acc, row, P, after),
         History(merged), DataInv(impl, merged)
  PROVE  /\ Extends(after.merged) /\ Gone(after.impl, after.merged)
         /\ GoneTogether(after.impl) /\ Settled(after.impl, after.merged)
<1> DEFINE n == Len(acc.merged) + 1
           e == [row |-> row, time |-> now]
           S == after.impl.start_times
           starts == acc.impl.start_times
<1>1. /\ acc.merged \in Seq(Entries) /\ merged \in Seq(Entries) /\ e \in Entries
      /\ e.row = row /\ e.time = now /\ after.merged = Append(acc.merged, e)
  BY DEF Harvest, History, Purging, Entries
<1> HIDE DEF e
<1>2. /\ after.merged \in Seq(Entries) /\ n \in Nat /\ n > 0 /\ Len(after.merged) = n
      /\ DOMAIN acc.merged = 1 .. n - 1 /\ DOMAIN after.merged = 1 .. n
      /\ after.merged[n] = e /\ \A k \in 1 .. n - 1 : after.merged[k] = acc.merged[k]
      /\ Len(merged) \in Nat /\ DOMAIN merged = 1 .. Len(merged)
  BY <1>1
<1>3. Len(merged) < n
  BY <1>2 DEF Harvest, Extends
<1>4. Extends(after.merged)
  <2> SUFFICES ASSUME NEW k \in 1 .. n
               PROVE  IF k <= Len(merged) THEN after.merged[k] = merged[k]
                      ELSE after.merged[k].time = now
    BY <1>2, <1>3 DEF Extends
  <2>1. CASE k = n
    BY <1>1, <1>2, <1>3, <2>1
  <2>2. CASE k # n
    <3>1. k \in 1 .. n - 1
      BY <1>2, <2>2
    <3> QED
      BY <1>2, <3>1 DEF Harvest, Extends
  <2> QED
    BY <2>1, <2>2
<1>5. /\ DOMAIN S = (DOMAIN starts \ P) \cup {row} /\ row \notin P
      /\ DOMAIN after.impl.data = (DOMAIN acc.impl.data \ P) \cup {row}
  BY DEF Purging, Put, Without, SetStartTimeIfUnset
<1>6. GoneTogether(after.impl)
  BY <1>5 DEF Harvest, GoneTogether
<1>7. Settled(after.impl, after.merged)
  BY DEF Settled, Purging
<1>8. ASSUME NEW r \in DOMAIN impl.start_times, r \notin DOMAIN S
      PROVE  /\ expiry_duration_ > 0
             /\ \E t \in Nat : /\ LastAt(merged, r, t) /\ LastAt(after.merged, r, t)
                               /\ now - t > expiry_duration_
  <2>1. r # row /\ r \in Rows
    BY <1>5, <1>8 DEF DataInv, IsImpl, IsMap
  <2>2. \A t \in Nat : LastAt(after.merged, r, t) <=> LastAt(acc.merged, r, t)
    <3>1. History(acc.merged)
      BY DEF Harvest
    <3>2. /\ acc.merged \in Seq(Entries)
          /\ \A k \in DOMAIN acc.merged : acc.merged[k].time <= now
      BY <3>1 DEF History
    <3>3. \A q \in Rows, t \in Nat : q # row =>
            (LastAt(Append(acc.merged, [row |-> row, time |-> now]), q, t)
             <=> LastAt(acc.merged, q, t))
      BY <3>2, LastAtAppend
    <3> QED
      BY <1>1, <2>1, <3>3 DEF e
  <2>3. CASE r \notin DOMAIN starts
    BY <1>8, <2>2, <2>3 DEF Harvest, Gone, starts
  <2>4. CASE r \in DOMAIN starts
    <3>1. r \in P
      BY <1>5, <1>8, <2>4
    <3>2. expiry_duration_ > 0
      BY <3>1 DEF Purging
    <3>3. PICK t \in Nat : LastAt(after.merged, r, t) /\ now - t > expiry_duration_
      BY <3>1, <3>2 DEF Purging
    <3>4. LastAt(acc.merged, r, t) /\ t < now
      BY <2>2, <3>2, <3>3
    <3>5. /\ \A k \in DOMAIN acc.merged :
               IF k <= Len(merged) THEN acc.merged[k] = merged[k] ELSE acc.merged[k].time = now
          /\ DOMAIN merged \subseteq DOMAIN acc.merged
      BY <1>2, <1>3 DEF Harvest, Extends
    <3>6. LastAt(merged, r, t)
      <4>1. PICK k \in DOMAIN acc.merged : acc.merged[k].row = r /\ acc.merged[k].time = t
        BY <3>4 DEF LastAt
      <4>2. k \in DOMAIN merged /\ merged[k] = acc.merged[k]
        BY <1>2, <3>4, <3>5, <4>1
      <4>3. \A j \in DOMAIN merged : merged[j] = acc.merged[j]
        BY <1>2, <3>5
      <4> QED
        BY <3>4, <3>5, <4>1, <4>2, <4>3 DEF LastAt
    <3> QED
      BY <3>2, <3>3, <3>6
  <2> QED
    BY <2>3, <2>4
<1> QED
  BY <1>4, <1>6, <1>7, <1>8 DEF Gone

\* Every merge keeps what MergeDelta has done.
LEMMA HarvestStep ==
  ASSUME expiry_duration_ \in Nat, now \in Nat, History(merged), DataInv(impl, merged),
         NEW acc, Harvest(acc), NEW row \in Rows
  PROVE  Harvest(Merge(acc, row)) /\ Len(Merge(acc, row).merged) > Len(merged)
<1>1. History(acc.merged) /\ DataInv(acc.impl, acc.merged) /\ acc.impl.start_time = impl.start_time
  BY DEF Harvest
<1>2. PICK P : Purging(acc, row, P, Merge(acc, row))
  BY <1>1, MergeIs
<1> DEFINE after == Merge(acc, row)
<1> HIDE DEF after
<1>3. Purging(acc, row, P, after)
  BY <1>2 DEF after
<1>4. History(after.merged) /\ DataInv(after.impl, after.merged)
  BY <1>1, <1>3, PurgingKeepsData
<1>5. Accounted(after.impl, after.lost, after.merged)
  BY <1>3, PurgingAccounts
<1>6. /\ Extends(after.merged) /\ Gone(after.impl, after.merged)
      /\ GoneTogether(after.impl) /\ Settled(after.impl, after.merged)
  BY <1>3, PurgingRemoves
<1>7. after.impl.start_time = impl.start_time
  BY <1>1, <1>3 DEF Purging
<1>8. Len(after.merged) > Len(merged)
  <2>1. /\ acc.merged \in Seq(Entries) /\ merged \in Seq(Entries) /\ Len(merged) <= Len(acc.merged)
        /\ after.merged = Append(acc.merged, [row |-> row, time |-> now])
    BY <1>3 DEF Harvest, History, Extends, Purging
  <2> QED
    BY <2>1
<1> QED
  BY <1>1, <1>4, <1>5, <1>6, <1>7, <1>8 DEF Harvest, after

----------------------------------------------------------------------------
\* MergeDelta.

MergedRows(acc, rows) == FoldLeft(Merge, acc, rows)

\* A fold over one row or two is one merge, or one after the other.
LEMMA FoldOfRows ==
  ASSUME NEW acc
  PROVE  /\ \A r : MergedRows(acc, <<r>>) = Merge(acc, r)
         /\ \A r, s : MergedRows(acc, <<r, s>>) = Merge(Merge(acc, r), s)
<1>1. ASSUME NEW n \in Nat
      PROVE  /\ Unfold!Chooses(1 .. n) /\ IsFiniteSet(1 .. n)
             /\ n > 0 => Max(1 .. n) = n /\ (1 .. n) \ {n} = 1 .. n - 1
  <2>1. IsFiniteSet(1 .. n)
    BY FS_Interval
  <2>2. ASSUME NEW s \in SUBSET (1 .. n), s # {} PROVE Max(s) \in s
    <3>1. s \in SUBSET (0 .. n)
      OBVIOUS
    <3>2. \E x \in s : \A y \in s : x >= y
      BY <2>2, <3>1, Unfold!GreatestNumber
    <3> QED
      BY <3>2 DEF Max
  <2>3. n > 0 => Max(1 .. n) = n /\ (1 .. n) \ {n} = 1 .. n - 1
    BY DEF Max
  <2> QED
    BY <2>1, <2>2, <2>3 DEF Unfold!Chooses
<1>2. ASSUME NEW n \in Nat, NEW m \in Nat, n = m + 1, NEW rows
      PROVE  Unfold!Fold(rows, acc, 1 .. n) = Merge(Unfold!Fold(rows, acc, 1 .. m), rows[n])
  <2>1. Unfold!Unfolds(rows, acc, 1 .. n)
    BY <1>1, Unfold!FoldUnfolds DEF IsFiniteSet, Unfold!IsFiniteSet
  <2>2. Max(1 .. n) = n /\ (1 .. n) \ {n} = 1 .. m /\ 1 .. n # {}
    BY <1>1, <1>2
  <2> QED
    BY <2>1, <2>2 DEF Unfold!Unfolds, MergeRow
<1>3. ASSUME NEW rows PROVE Unfold!Fold(rows, acc, 1 .. 0) = acc
  <2>1. Unfold!Unfolds(rows, acc, 1 .. 0)
    BY <1>1, Unfold!FoldUnfolds DEF IsFiniteSet, Unfold!IsFiniteSet
  <2> QED
    BY <2>1 DEF Unfold!Unfolds
<1>4. ASSUME NEW rows PROVE MergedRows(acc, rows) = Unfold!Fold(rows, acc, DOMAIN rows)
  BY DEF MergedRows, FoldLeft, MapThenFoldSet, Unfold!Fold, Unfold!MapThenFoldSet, MergeRow
<1>5. ASSUME NEW r PROVE MergedRows(acc, <<r>>) = Merge(acc, r)
  <2>1. MergedRows(acc, <<r>>) = Unfold!Fold(<<r>>, acc, 1 .. 1)
    BY <1>4
  <2>2. Unfold!Fold(<<r>>, acc, 1 .. 1) = Merge(Unfold!Fold(<<r>>, acc, 1 .. 0), <<r>>[1])
    <3>1. 1 = 0 + 1
      OBVIOUS
    <3> QED
      BY <1>2, <3>1
  <2> QED
    BY <1>3, <2>1, <2>2
<1>6. ASSUME NEW r, NEW s PROVE MergedRows(acc, <<r, s>>) = Merge(Merge(acc, r), s)
  <2> DEFINE rows == <<r, s>>
  <2>1. MergedRows(acc, rows) = Unfold!Fold(rows, acc, 1 .. 2) /\ rows[1] = r /\ rows[2] = s
    BY <1>4
  <2> HIDE DEF rows
  <2>0. 1 = 0 + 1 /\ 2 = 1 + 1
    OBVIOUS
  <2>2. Unfold!Fold(rows, acc, 1 .. 2) = Merge(Unfold!Fold(rows, acc, 1 .. 1), rows[2])
    BY <1>2, <2>0
  <2>3. Unfold!Fold(rows, acc, 1 .. 1) = Merge(Unfold!Fold(rows, acc, 1 .. 0), rows[1])
    BY <1>2, <2>0
  <2> QED
    BY <1>3, <2>1, <2>2, <2>3 DEF rows
<1> QED
  BY <1>5, <1>6

\* After one or two rows.
LEMMA HarvestEnds ==
  ASSUME expiry_duration_ \in Nat, now \in Nat, History(merged), DataInv(impl, merged),
         NEW rows \in Deltas
  PROVE  LET result == MergedRows([impl |-> impl, merged |-> merged, lost |-> {}], rows)
         IN  Harvest(result) /\ Len(result.merged) > Len(merged)
<1> DEFINE acc == [impl |-> impl, merged |-> merged, lost |-> {}]
<1>1. Harvest(acc)
  BY HarvestStarts
<1> HIDE DEF acc
<1>2. ASSUME NEW r \in Rows, rows = <<r>>
      PROVE  Harvest(MergedRows(acc, rows)) /\ Len(MergedRows(acc, rows).merged) > Len(merged)
  <2>1. Harvest(Merge(acc, r)) /\ Len(Merge(acc, r).merged) > Len(merged)
    BY <1>1, HarvestStep
  <2> QED
    BY <1>2, <2>1, FoldOfRows
<1>3. ASSUME NEW r \in Rows, NEW s \in Rows, rows = <<r, s>>
      PROVE  Harvest(MergedRows(acc, rows)) /\ Len(MergedRows(acc, rows).merged) > Len(merged)
  <2>1. Harvest(Merge(acc, r))
    BY <1>1, HarvestStep
  <2>2. Harvest(Merge(Merge(acc, r), s)) /\ Len(Merge(Merge(acc, r), s).merged) > Len(merged)
    BY <2>1, HarvestStep
  <2> QED
    BY <1>3, <2>2, FoldOfRows
<1>4. (\E r \in Rows : rows = <<r>>) \/ (\E r, s \in Rows : rows = <<r, s>>)
  BY DEF Deltas
<1> QED
  BY <1>2, <1>3, <1>4 DEF acc

----------------------------------------------------------------------------
\* The view and its readers.

\* What a reader is given of a view, at a time up to `end`.
Copied(v, history, end) ==
  /\ DOMAIN v.data \subseteq DOMAIN v.start_times
  /\ Labelled(v.data, history)
  /\ aggregation_window_ # "interval" =>
       Timed(v, history, end) /\ IsMap(v.start_times, Nat) /\ v.start_time \in Nat

\* What a reader has constructed.
Snapshot(v) == Copied(v, merged, now)

ViewInv ==
  /\ expiry_duration_ \in Nat /\ now \in Nat
  /\ pc \in [Readers -> {"idle", "reset", "view"}]
  /\ time \in [Readers -> Nat] /\ \A t \in Readers : time[t] <= now
  /\ \A t \in Readers : pc[t] = "reset" => aggregation_window_ = "delta"
  /\ History(merged) /\ DataInv(impl, merged)
  /\ DOMAIN snapshot = Readers
  /\ \A t \in Readers : Snapshot(snapshot[t])
  /\ \E S : views \in Seq(S)
  /\ \A k \in DOMAIN views :
       views[k].end_time \in Nat /\ Copied(views[k], merged, views[k].end_time)

\* A new ViewDataImpl has no rows.
LEMMA NewIs ==
  LET v == NewViewDataImpl(0) IN
  /\ IsImpl(v) /\ DOMAIN v.data = {} /\ DOMAIN v.start_times = {}
  /\ v.start_time = 0 /\ v.update_times = <<>>
<1>1. Empty \in [{} -> Nat] /\ Empty \in [{} -> SUBSET Nat] /\ DOMAIN Empty = {}
  BY DEF Empty
<1>2. <<>> \in Seq(Entries)
  OBVIOUS
<1> QED
  BY <1>1, <1>2 DEF NewViewDataImpl, IsImpl, IsMap

\* The invariant holds at first.
LEMMA ViewInit ==
  ASSUME Init
  PROVE  ViewInv
<1> DEFINE v == NewViewDataImpl(0)
<1>1. /\ IsImpl(v) /\ DOMAIN v.data = {} /\ DOMAIN v.start_times = {}
      /\ v.start_time = 0 /\ v.update_times = <<>>
  BY NewIs
<1>2. /\ aggregation_window_ \in Windows /\ expiry_duration_ \in Nat /\ now = 0
      /\ impl = v /\ pc = [t \in Readers |-> "idle"] /\ time = [t \in Readers |-> 0]
      /\ snapshot = [t \in Readers |-> v] /\ merged = <<>> /\ views = <<>>
  BY ViewAssumption DEF Init
<1> HIDE DEF v
<1>3. Labelled(v.data, <<>>) /\ Timed(v, <<>>, 0) /\ Tracked(v.update_times, DOMAIN v.start_times, <<>>)
  BY <1>1 DEF Labelled, Timed, Tracked
<1>4. History(merged) /\ DataInv(impl, merged)
  <2>1. History(merged)
    BY <1>2 DEF History
  <2>2. v.start_times = v.start_times /\ DOMAIN v.data \subseteq DOMAIN v.start_times
    BY <1>1
  <2> QED
    BY <1>1, <1>2, <1>3, <2>1, <2>2 DEF DataInv
<1>5. Copied(v, merged, now) /\ IsMap(v.start_times, Nat) /\ v.start_time \in Nat
  BY <1>1, <1>2, <1>3 DEF Copied, IsImpl
<1>6. views \in Seq({}) /\ DOMAIN views = {}
  BY <1>2
<1> QED
  BY <1>2, <1>4, <1>5, <1>6 DEF ViewInv, Snapshot

\* What MergeDelta does.
LEMMA MergeDeltaHarvests ==
  ASSUME ViewInv, NEW rows \in Deltas, MergeDelta(rows)
  PROVE  /\ Unlocked
         /\ History(merged') /\ DataInv(impl', merged') /\ impl'.start_time = impl.start_time
         /\ Extends(merged') /\ Gone(impl', merged') /\ GoneTogether(impl')
         /\ Settled(impl', merged') /\ Len(merged') > Len(merged)
         /\ \E lost : Accounted(impl', lost, merged') /\ expired' = expired \cup lost
<1> DEFINE result == MergedRows([impl |-> impl, merged |-> merged, lost |-> {}], rows)
<1>1. Harvest(result) /\ Len(result.merged) > Len(merged)
  BY HarvestEnds DEF ViewInv
<1>2. /\ Unlocked /\ impl' = result.impl /\ merged' = result.merged
      /\ expired' = expired \cup result.lost
  BY DEF MergeDelta, MergedRows
<1> HIDE DEF result
<1> QED
  BY <1>1, <1>2 DEF Harvest

\* Merges into the view change nothing that readers have been given.
LEMMA CopiedExtends ==
  ASSUME NEW v, NEW end, NEW history, Copied(v, merged, end), Extends(history),
         merged \in Seq(Entries), history \in Seq(Entries)
  PROVE  Copied(v, history, end)
<1>1. \A n \in DOMAIN merged : n \in DOMAIN history /\ history[n] = merged[n]
  BY DEF Extends
<1> QED
  BY <1>1 DEF Copied, Labelled, Timed

\* Time passes.
LEMMA TimedLater ==
  ASSUME NEW v, NEW history, NEW end \in Nat, NEW later \in Nat, end <= later,
         Timed(v, history, end), Labelled(v.data, history), history \in Seq(Entries),
         IsMap(v.start_times, Nat), v.start_time \in Nat
  PROVE  Timed(v, history, later)
<1>1. \A row \in DOMAIN v.start_times : v.start_times[row] \in Nat
  BY DEF IsMap
<1>2. \A row \in DOMAIN v.data : \A n \in v.data[row] : history[n].time \in Nat
  <2>1. \A n \in DOMAIN history : history[n] \in Entries
    OBVIOUS
  <2> QED
    BY <2>1 DEF Labelled, Entries
<1> QED
  BY <1>1, <1>2 DEF Timed

IsReset(v, start, w) ==
  /\ w.data = Empty /\ w.start_time = start
  /\ w.start_times = [row \in DOMAIN v.start_times |-> start]
  /\ w.update_times = v.update_times
  /\ w = [data |-> w.data, start_times |-> w.start_times,
          start_time |-> w.start_time, update_times |-> w.update_times]

\* What GetDeltaAndReset leaves behind.
LEMMA ResetIs ==
  ASSUME NEW v, IsImpl(v), NEW start
  PROVE  IsReset(v, start, Reset(v, start))
<1> DEFINE w == Reset(v, start)
<1>1. v = [data |-> v.data, start_times |-> v.start_times, start_time |-> v.start_time,
           update_times |-> v.update_times]
  BY DEF IsImpl
<1>2. /\ DOMAIN w = {"data", "start_times", "start_time", "update_times"}
      /\ w.data = Empty /\ w.start_time = start
      /\ w.start_times = [row \in DOMAIN v.start_times |-> start]
      /\ w.update_times = v.update_times
  BY <1>1 DEF Reset
<1>3. w = [field \in DOMAIN w |-> w[field]]
  BY DEF Reset
<1> HIDE DEF w
<1>4. IsReset(v, start, w)
  BY <1>2, <1>3 DEF IsReset
<1> QED
  BY <1>4 DEF w

\* Every step keeps the invariant.
LEMMA ViewStep ==
  ASSUME ViewInv, [Next]_vars
  PROVE  ViewInv'
<1>1. ASSUME Tick PROVE ViewInv'
  <2>1. /\ now \in Nat /\ now' \in Nat /\ now <= now'
        /\ UNCHANGED <<aggregation_window_, expiry_duration_, impl, pc, time, snapshot, merged,
                       expired, views>>
    BY <1>1 DEF Tick, ViewInv, descriptor, readers
  <2>2. History(merged)' /\ merged \in Seq(Entries)
    <3>1. \A n \in DOMAIN merged : merged[n] \in Entries
      BY DEF ViewInv, History
    <3> QED
      BY <2>1, <3>1 DEF ViewInv, History, Entries
  <2>3. Timed(impl, merged, now')
    BY <2>1, <2>2, TimedLater DEF ViewInv, DataInv, IsImpl
  <2>4. DataInv(impl, merged)'
    BY <2>1, <2>3 DEF ViewInv, DataInv
  <2>5. ASSUME NEW t \in Readers PROVE Copied(snapshot[t], merged, now')
    BY <2>1, <2>2, TimedLater DEF ViewInv, Copied, Snapshot
  <2>6. \A t \in Readers : Snapshot(snapshot[t])'
    BY <2>1, <2>5 DEF Copied, ViewInv, Snapshot
  <2>7. \A k \in DOMAIN views : Copied(views[k], merged, views[k].end_time)'
    BY <2>1 DEF Copied, ViewInv
  <2>8. \A t \in Readers : time[t] <= now'
    BY <2>1 DEF ViewInv
  <2> QED
    BY <2>1, <2>2, <2>4, <2>6, <2>7, <2>8 DEF ViewInv
<1>2. ASSUME NEW rows \in Deltas, MergeDelta(rows) PROVE ViewInv'
  <2>1. /\ History(merged') /\ DataInv(impl', merged') /\ Extends(merged')
    BY <1>2, MergeDeltaHarvests
  <2>2. UNCHANGED <<aggregation_window_, expiry_duration_, now, pc, time, snapshot, views>>
    BY <1>2 DEF MergeDelta, descriptor, readers
  <2>3. History(merged)' /\ DataInv(impl, merged)'
    BY <2>1, <2>2 DEF History, DataInv
  <2>4. merged \in Seq(Entries) /\ merged' \in Seq(Entries)
    BY <2>1 DEF ViewInv, History
  <2>5. \A t \in Readers : Copied(snapshot[t], merged', now)
    BY <2>1, <2>4, CopiedExtends DEF ViewInv, Snapshot
  <2>6. \A k \in DOMAIN views : Copied(views[k], merged', views[k].end_time)
    BY <2>1, <2>4, CopiedExtends DEF ViewInv
  <2>7. /\ \A t \in Readers : Snapshot(snapshot[t])'
        /\ \A k \in DOMAIN views : Copied(views[k], merged, views[k].end_time)'
    BY <2>2, <2>5, <2>6 DEF Copied, ViewInv, Snapshot
  <2> QED
    BY <2>2, <2>3, <2>7 DEF ViewInv
\* The steps of a reader.
<1>3. ASSUME UNCHANGED <<aggregation_window_, expiry_duration_, now, merged>>,
             DataInv(impl', merged),
             pc' \in [Readers -> {"idle", "reset", "view"}],
             \A t \in Readers : pc'[t] = "reset" => aggregation_window_ = "delta",
             time' \in [Readers -> Nat], \A t \in Readers : time'[t] <= now,
             DOMAIN snapshot' = Readers,
             \A t \in Readers : snapshot'[t] = snapshot[t] \/ Snapshot(snapshot'[t]),
             \E S : views' \in Seq(S),
             \A k \in DOMAIN views' : /\ views'[k].end_time \in Nat
                                      /\ Copied(views'[k], merged, views'[k].end_time)
      PROVE  ViewInv'
  <2>1. History(merged)' /\ DataInv(impl, merged)'
    BY <1>3 DEF ViewInv, History, DataInv
  <2>2. \A t \in Readers : Snapshot(snapshot'[t])
    BY <1>3 DEF ViewInv
  <2>3. /\ \A t \in Readers : Snapshot(snapshot[t])'
        /\ \A k \in DOMAIN views' : Copied(views'[k], merged', views'[k].end_time)
    BY <1>3, <2>2 DEF Copied, Snapshot
  <2>4. ASSUME NEW k \in DOMAIN views' PROVE Copied(views[k], merged, views[k].end_time)'
    BY <1>3, <2>3 DEF Copied
  <2> QED
    BY <1>3, <2>1, <2>2, <2>3, <2>4 DEF ViewInv
<1>4. ASSUME NEW t \in Readers,
             GetCumulative(t) \/ GetInterval(t) \/ GetDelta(t)
      PROVE  ViewInv'
  <2>1. /\ UNCHANGED <<aggregation_window_, expiry_duration_, now, merged, impl, views>>
        /\ \/ pc' = [pc EXCEPT ![t] = "view"]
           \/ pc' = [pc EXCEPT ![t] = "reset"] /\ aggregation_window_ = "delta"
        /\ time' = time \/ time' = [time EXCEPT ![t] = now]
    BY <1>4 DEF GetCumulative, GetInterval, GetDelta, Goto, descriptor
  <2>2. /\ DOMAIN snapshot' = Readers
        /\ \A u \in Readers : u # t => snapshot'[u] = snapshot[u]
        /\ \/ snapshot'[t] = [impl EXCEPT !.update_times = <<>>]
           \/ /\ aggregation_window_ = "interval"
              /\ snapshot'[t].data = impl.data
              /\ DOMAIN snapshot'[t].start_times = DOMAIN impl.start_times
    <3>1. CASE GetCumulative(t) \/ GetDelta(t)
      BY <3>1 DEF ViewInv, GetCumulative, GetDelta
    <3>2. CASE GetInterval(t)
      BY <3>2 DEF ViewInv, GetInterval
    <3> QED
      BY <1>4, <3>1, <3>2
  <2>3. LET v == [impl EXCEPT !.update_times = <<>>] IN
        v.data = impl.data /\ v.start_times = impl.start_times /\ v.start_time = impl.start_time
    BY DEF ViewInv, DataInv, IsImpl
  <2>4. Snapshot(snapshot'[t])
    BY <2>2, <2>3 DEF Snapshot, ViewInv, DataInv, IsImpl, Copied, Timed
  <2>5. /\ pc' \in [Readers -> {"idle", "reset", "view"}]
        /\ \A u \in Readers : pc'[u] = "reset" => aggregation_window_ = "delta"
        /\ time' \in [Readers -> Nat] /\ \A u \in Readers : time'[u] <= now
    <3>1. pc' \in [Readers -> {"idle", "reset", "view"}]
      BY <2>1 DEF ViewInv
    <3>2. ASSUME NEW u \in Readers, pc'[u] = "reset" PROVE aggregation_window_ = "delta"
      <4>1. CASE pc' = [pc EXCEPT ![t] = "view"]
        BY <3>2, <4>1 DEF ViewInv
      <4>2. CASE aggregation_window_ = "delta"
        BY <4>2
      <4> QED
        BY <2>1, <4>1, <4>2
    <3>3. CASE time' = time
      BY <3>1, <3>2, <3>3 DEF ViewInv
    <3>4. CASE time' = [time EXCEPT ![t] = now]
      <4>1. now \in Nat /\ time \in [Readers -> Nat] /\ \A u \in Readers : time[u] <= now
        BY DEF ViewInv
      <4>2. time' \in [Readers -> Nat] /\ \A u \in Readers : time'[u] <= now
        BY <3>4, <4>1
      <4> QED
        BY <3>1, <3>2, <4>2
    <3> QED
      BY <2>1, <3>3, <3>4
  <2>6. /\ DataInv(impl', merged) /\ \E S : views' \in Seq(S)
        /\ \A k \in DOMAIN views' : /\ views'[k].end_time \in Nat
                                     /\ Copied(views'[k], merged, views'[k].end_time)
    BY <2>1 DEF ViewInv
  <2>7. \A u \in Readers : snapshot'[u] = snapshot[u] \/ Snapshot(snapshot'[u])
    BY <2>2, <2>4
  <2> QED
    BY <1>3, <2>1, <2>2, <2>5, <2>6, <2>7
<1>5. ASSUME NEW t \in Readers, ResetSource(t)
      PROVE  ViewInv'
  <2>1. /\ UNCHANGED <<aggregation_window_, expiry_duration_, now, merged, time, snapshot, views>>
        /\ pc' = [pc EXCEPT ![t] = "view"] /\ impl' = Reset(impl, time[t])
    BY <1>5 DEF ResetSource, Goto, descriptor
  <2>2. IsReset(impl, time[t], impl')
    BY <2>1, ResetIs, Zenon DEF ViewInv, DataInv
  <2>3. time[t] \in Nat /\ time[t] <= now /\ Empty \in [{} -> SUBSET Nat] /\ DOMAIN Empty = {}
    BY DEF ViewInv, Empty
  <2>4. IsImpl(impl')
    BY <2>2, <2>3 DEF IsReset, ViewInv, DataInv, IsImpl, IsMap
  <2>5. Labelled(impl'.data, merged) /\ Timed(impl', merged, now)
    BY <2>2, <2>3 DEF IsReset, Labelled, Timed
  <2>6. DataInv(impl', merged)
    BY <2>2, <2>3, <2>4, <2>5 DEF IsReset, ViewInv, DataInv
  <2> QED
    BY <1>3, <2>1, <2>6 DEF ViewInv
<1>6. ASSUME NEW t \in Readers, MakeViewData(t)
      PROVE  ViewInv'
  <2> DEFINE x == [data |-> snapshot[t].data, start_times |-> snapshot[t].start_times,
                   start_time |-> snapshot[t].start_time, end_time |-> now]
  <2>1. /\ UNCHANGED <<aggregation_window_, expiry_duration_, now, merged, time, impl>>
        /\ pc' = [pc EXCEPT ![t] = "idle"] /\ views' = Append(views, x)
        /\ snapshot' = [snapshot EXCEPT ![t] = NewViewDataImpl(0)]
    BY <1>6 DEF MakeViewData, Goto, descriptor
  <2>2. x.end_time \in Nat /\ Copied(x, merged, x.end_time)
    BY DEF ViewInv, Snapshot, Copied, Timed
  <2> HIDE DEF x
  <2>3. /\ \E S : views' \in Seq(S)
        /\ \A k \in DOMAIN views' : /\ views'[k].end_time \in Nat
                                     /\ Copied(views'[k], merged, views'[k].end_time)
    <3>1. PICK S : views \in Seq(S)
      BY DEF ViewInv
    <3>2. views \in Seq(S \cup {x})
      BY <3>1
    <3>3. /\ views' \in Seq(S \cup {x}) /\ DOMAIN views' = 1 .. Len(views) + 1
          /\ views'[Len(views) + 1] = x /\ Len(views) \in Nat /\ DOMAIN views = 1 .. Len(views)
          /\ \A k \in 1 .. Len(views) : views'[k] = views[k]
      BY <2>1, <3>2
    <3>4. ASSUME NEW k \in DOMAIN views'
          PROVE  views'[k].end_time \in Nat /\ Copied(views'[k], merged, views'[k].end_time)
      <4>1. CASE k = Len(views) + 1
        BY <2>2, <3>3, <4>1
      <4>2. CASE k # Len(views) + 1
        <5>1. k \in DOMAIN views /\ views'[k] = views[k]
          BY <3>3, <4>2
        <5> QED
          BY <5>1 DEF ViewInv
      <4> QED
        BY <4>1, <4>2
    <3> QED
      BY <3>3, <3>4
  <2>4. Snapshot(NewViewDataImpl(0))
    BY NewIs DEF Snapshot, Copied, Labelled, Timed, IsImpl, ViewInv
  <2>5. /\ pc' \in [Readers -> {"idle", "reset", "view"}]
        /\ \A u \in Readers : pc'[u] = "reset" => aggregation_window_ = "delta"
        /\ DOMAIN snapshot' = Readers
        /\ \A u \in Readers : snapshot'[u] = snapshot[u] \/ snapshot'[u] = NewViewDataImpl(0)
        /\ DataInv(impl', merged) /\ time' \in [Readers -> Nat]
        /\ \A u \in Readers : time'[u] <= now
    BY <2>1 DEF ViewInv
  <2>6. UNCHANGED <<aggregation_window_, expiry_duration_, now, merged>>
    BY <2>1
  <2> QED
    BY <1>3, <2>3, <2>4, <2>5, <2>6
<1>7. CASE UNCHANGED vars
  <2>1. UNCHANGED <<aggregation_window_, expiry_duration_, now, impl, pc, time, snapshot, merged, views>>
    BY <1>7 DEF vars, descriptor, readers
  <2> QED
    BY <2>1 DEF ViewInv, History, DataInv, Copied, Snapshot
<1> QED
  BY <1>1, <1>2, <1>4, <1>5, <1>6, <1>7 DEF Next

\* The data of the view, its start times and its list of updates always agree
\* with each other and with the merges made, and so do the copies of readers.
THEOREM ViewInvariant == Spec => []ViewInv
<1>1. Init => ViewInv
  BY ViewInit
<1>2. ViewInv /\ [Next]_vars => ViewInv'
  BY ViewStep
<1> QED
  BY <1>1, <1>2, PTL DEF Spec

----------------------------------------------------------------------------
\* Rows expire.

\* LastMerge is the time that LastAt speaks of.
LEMMA LastMergeIs ==
  ASSUME NEW history \in Seq(Entries), NEW row, NEW t \in Nat, LastAt(history, row, t)
  PROVE  LastMerge(history, row) = t
<1> DEFINE S == {history[n].time : n \in {k \in DOMAIN history : history[k].row = row}}
<1>1. t \in S /\ \A s \in S : s <= t
  BY DEF LastAt
<1>2. \A n \in DOMAIN history : history[n].time \in Nat
  <2>1. \A n \in DOMAIN history : history[n] \in Entries
    OBVIOUS
  <2> QED
    BY <2>1 DEF Entries
<1>3. \A s \in S : s \in Nat
  BY <1>2
<1>4. LastMerge(history, row) = Max(S)
  BY DEF LastMerge
<1> HIDE DEF S
<1>5. Max(S) \in S /\ \A s \in S : Max(S) >= s
  BY <1>1 DEF Max
<1>6. Max(S) \in Nat /\ Max(S) <= t /\ Max(S) >= t
  BY <1>1, <1>3, <1>5
<1> QED
  BY <1>4, <1>6

\* MergeDelta purges the rows that are old, and no others.
LEMMA MergePurges ==
  ASSUME ViewInv, NEW rows \in Deltas, MergeDelta(rows)
  PROVE  PurgesExact
<1>1. /\ History(merged') /\ DataInv(impl', merged') /\ Gone(impl', merged')
      /\ GoneTogether(impl') /\ Settled(impl', merged') /\ Len(merged') > Len(merged)
  BY MergeDeltaHarvests
<1>2. merged \in Seq(Entries) /\ merged' \in Seq(Entries) /\ merged' # merged /\ now \in Nat
      /\ expiry_duration_ \in Nat /\ Len(merged) \in Nat /\ expiry_duration_' = expiry_duration_
  <2>1. merged \in Seq(Entries) /\ merged' \in Seq(Entries)
    BY <1>1 DEF ViewInv, History
  <2> QED
    BY <1>1, <2>1 DEF ViewInv, MergeDelta, descriptor
\* A row that is still there is in the list, and not old...
<1>3. ASSUME expiry_duration_ > 0, NEW row \in DOMAIN impl'.start_times
      PROVE  now - LastMerge(merged', row) <= expiry_duration_
  <2>1. PICK i \in DOMAIN impl'.update_times :
          impl'.update_times[i].row = row
    BY <1>1, <1>3 DEF DataInv, Tracked
  <2>2. LastAt(merged', row, impl'.update_times[i].time)
    BY <1>1, <1>3, <2>1 DEF DataInv, Tracked
  <2>3. impl'.update_times[i] \in Entries
    BY <1>1 DEF DataInv, IsImpl
  <2>4. impl'.update_times[i].time \in Nat
    BY <2>3 DEF Entries
  <2>5. LastMerge(merged', row) = impl'.update_times[i].time
    BY <1>2, <2>2, <2>4, LastMergeIs
  <2>6. ~ Old(impl'.update_times[i])
    BY <1>1, <1>2, <1>3 DEF Settled
  <2> QED
    BY <1>2, <2>4, <2>5, <2>6 DEF Old
\* ... and one that is not was.
<1>4. ASSUME NEW row \in DOMAIN impl.start_times, row \notin DOMAIN impl'.start_times
      PROVE  /\ expiry_duration_ > 0
             /\ now - LastMerge(merged, row) > expiry_duration_
             /\ now - LastMerge(merged', row) > expiry_duration_
  <2>1. /\ expiry_duration_ > 0
        /\ \E t \in Nat : /\ LastAt(merged, row, t) /\ LastAt(merged', row, t)
                          /\ now - t > expiry_duration_
    BY <1>1, <1>4 DEF Gone
  <2>2. PICK t \in Nat : /\ LastAt(merged, row, t) /\ LastAt(merged', row, t)
                         /\ now - t > expiry_duration_
    BY <2>1
  <2>3. LastMerge(merged, row) = t /\ LastMerge(merged', row) = t
    BY <1>2, <2>2, LastMergeIs
  <2> QED
    BY <2>1, <2>2, <2>3
<1>5. ASSUME expiry_duration_ > 0, NEW row \in DOMAIN impl.start_times
      PROVE  row \in DOMAIN impl'.start_times <=> now - LastMerge(merged', row) <= expiry_duration_
  <2>1. CASE row \in DOMAIN impl'.start_times
    BY <1>3, <1>5, <2>1
  <2>2. CASE row \notin DOMAIN impl'.start_times
    <3>1. row \notin DOMAIN impl'.start_times /\ now - LastMerge(merged', row) > expiry_duration_
      BY <1>4, <2>2
    <3>2. now - LastMerge(merged', row) \in Int
      <4>1. PICK t \in Nat : LastAt(merged', row, t)
        BY <1>1, <2>2 DEF Gone
      <4>2. LastMerge(merged', row) = t
        BY <1>2, <4>1, LastMergeIs
      <4> QED
        BY <1>2, <4>2
    <3> QED
      BY <1>2, <3>1, <3>2
  <2> QED
    BY <2>1, <2>2
<1>6. ASSUME NEW row \in DOMAIN impl.data \ DOMAIN impl'.data
      PROVE  expiry_duration_ > 0 /\ now - LastMerge(merged, row) > expiry_duration_
  <2>1. row \in DOMAIN impl.start_times /\ row \notin DOMAIN impl'.start_times
    BY <1>1, <1>6 DEF ViewInv, DataInv, GoneTogether
  <2> QED
    BY <1>4, <2>1
<1> QED
  BY <1>2, <1>5, <1>6 DEF PurgesExact

\* No other step removes a row, but the reset.
LEMMA ExpiryStep ==
  ASSUME ViewInv, [Next]_vars
  PROVE  PurgesExact
<1>1. ASSUME NEW rows \in Deltas, MergeDelta(rows) PROVE PurgesExact
  BY <1>1, MergePurges
<1>2. ASSUME NEW t \in Readers, ResetSource(t) PROVE PurgesExact
  <2>1. merged' = merged /\ aggregation_window_ = "delta"
    BY <1>2 DEF ResetSource, Goto, ViewInv
  <2> QED
    BY <2>1 DEF PurgesExact
<1>3. ASSUME merged' = merged, impl' = impl PROVE PurgesExact
  BY <1>3 DEF PurgesExact
<1>4. Tick => merged' = merged /\ impl' = impl
  BY DEF Tick
<1>5. \A t \in Readers : GetCumulative(t) \/ GetInterval(t) \/ GetDelta(t) \/ MakeViewData(t) =>
        merged' = merged /\ impl' = impl
  BY DEF GetCumulative, GetInterval, GetDelta, MakeViewData
<1>6. UNCHANGED vars => merged' = merged /\ impl' = impl
  BY DEF vars
<1> QED
  BY <1>1, <1>2, <1>3, <1>4, <1>5, <1>6 DEF Next

\* A merge removes from the view exactly the rows that expired, and apart from it
\* only the reset of a delta view removes data.
THEOREM ExpiryIsExact == Spec => ExpiryExact
<1>1. Spec => []ViewInv
  BY ViewInvariant
<1>2. ViewInv /\ [Next]_vars => [PurgesExact]_vars
  BY ExpiryStep
<1> QED
  BY <1>1, <1>2, PTL DEF Spec, ExpiryExact

----------------------------------------------------------------------------
\* Each merge is in one place.

Precede(A, B) == \A n \in A, m \in B : n < m

Delivered == UNION {Given(k) : k \in DOMAIN views}

\* What the only reader of a delta view was given, what it is about to be given
\* and what the view has follow each other.
OneReader(t) ==
  /\ pc[t] = "reset" => snapshot[t].data = impl.data /\ snapshot[t].start_time = impl.start_time
  /\ \A j, k \in DOMAIN views : j < k => Precede(Given(j), Given(k))
  /\ \A k \in DOMAIN views :
       Precede(Given(k), OnTheWay(t)) /\ Precede(Given(k), MergesOf(impl.data))
  /\ Precede(OnTheWay(t), MergesOf(impl.data))
  /\ (OnTheWay(t) \cup Delivered) \cap expired = {}
  /\ MergesOf(impl.data) \cup expired \cup OnTheWay(t) \cup Delivered = DOMAIN merged

OnceInv ==
  /\ expired \subseteq DOMAIN merged /\ MergesOf(impl.data) \cap expired = {}
  /\ aggregation_window_ # "delta" => MergesOf(impl.data) \cup expired = DOMAIN merged
  /\ aggregation_window_ = "delta" => \A t \in Readers : Readers = {t} => OneReader(t)

\* No rows, no merges.
LEMMA MergesOfEmpty == MergesOf(Empty) = {}
  BY DEF MergesOf, Empty

\* What a reader has or is given was merged before.
LEMMA MergedBefore ==
  ASSUME ViewInv
  PROVE  /\ MergesOf(impl.data) \subseteq DOMAIN merged
         /\ \A k \in DOMAIN views : Given(k) \subseteq DOMAIN merged
         /\ \A t \in Readers : OnTheWay(t) \subseteq DOMAIN merged
<1>1. ASSUME NEW data, Labelled(data, merged) PROVE MergesOf(data) \subseteq DOMAIN merged
  BY <1>1 DEF Labelled, MergesOf
<1>2. /\ Labelled(impl.data, merged)
      /\ \A k \in DOMAIN views : Labelled(views[k].data, merged)
      /\ \A t \in Readers : Labelled(snapshot[t].data, merged)
  BY DEF ViewInv, DataInv, Snapshot, Copied
<1> QED
  BY <1>1, <1>2 DEF Given, OnTheWay

\* At first there are no merges.
LEMMA OnceInit ==
  ASSUME Init
  PROVE  OnceInv
<1>1. impl = NewViewDataImpl(0) /\ merged = <<>> /\ expired = {} /\ views = <<>>
      /\ \A t \in Readers : pc[t] = "idle"
  BY DEF Init
<1>2. MergesOf(impl.data) = {}
  BY <1>1, MergesOfEmpty DEF NewViewDataImpl
<1>3. DOMAIN merged = {} /\ DOMAIN views = {} /\ Delivered = {}
  BY <1>1 DEF Delivered
<1>4. \A t \in Readers : OnTheWay(t) = {} /\ pc[t] # "reset"
  BY <1>1 DEF OnTheWay
<1>5. \A t \in Readers : OneReader(t)
  BY <1>1, <1>2, <1>3, <1>4 DEF OneReader, Precede
<1> QED
  BY <1>1, <1>2, <1>3, <1>5 DEF OnceInv

\* A harvest puts its merges into the data, and what it purges is lost.
LEMMA MergeKeepsOnce ==
  ASSUME ViewInv, OnceInv, NEW rows \in Deltas, MergeDelta(rows)
  PROVE  OnceInv'
<1> DEFINE A == MergesOf(impl.data)
           B == MergesOf(impl'.data)
           fresh == Len(merged) + 1 .. Len(merged')
<1>1. PICK lost : /\ B \cup lost = A \cup fresh /\ B \cap lost = {}
                  /\ expired' = expired \cup lost
  BY MergeDeltaHarvests DEF Accounted
<1>2. /\ DOMAIN merged = 1 .. Len(merged) /\ DOMAIN merged' = DOMAIN merged \cup fresh
      /\ DOMAIN merged \cap fresh = {} /\ \A n \in DOMAIN merged, m \in fresh : n < m
  <2>1. merged \in Seq(Entries) /\ merged' \in Seq(Entries) /\ Len(merged) <= Len(merged')
    BY MergeDeltaHarvests DEF ViewInv, History, Extends
  <2>2. /\ DOMAIN merged = 1 .. Len(merged) /\ DOMAIN merged' = 1 .. Len(merged')
        /\ Len(merged) \in Nat /\ Len(merged') \in Nat
    BY <2>1
  <2> QED
    BY <2>1, <2>2
<1>3. /\ aggregation_window_' = aggregation_window_ /\ pc' = pc /\ snapshot' = snapshot
      /\ views' = views /\ \A t \in Readers : pc[t] # "reset"
  BY DEF MergeDelta, Unlocked, descriptor, readers
<1>4. /\ A \subseteq DOMAIN merged /\ \A k \in DOMAIN views : Given(k) \subseteq DOMAIN merged
      /\ \A t \in Readers : OnTheWay(t) \subseteq DOMAIN merged
  BY MergedBefore
<1>5. A \cap expired = {} /\ expired \subseteq DOMAIN merged
  BY DEF OnceInv
<1> HIDE DEF A, B, fresh
<1>6. B \cap (expired \cup lost) = {} /\ expired \cup lost \subseteq DOMAIN merged \cup fresh
  BY <1>1, <1>2, <1>4, <1>5
<1>7. ASSUME NEW t \in Readers, Readers = {t}, OneReader(t) PROVE OneReader(t)'
  <2>1. /\ OnTheWay(t)' = OnTheWay(t) /\ DOMAIN views' = DOMAIN views
        /\ \A k \in DOMAIN views : MergesOf(views'[k].data) = Given(k)
    BY <1>3 DEF OnTheWay, Given
  <2>2. Delivered' = Delivered
    BY <1>3 DEF Delivered, Given
  <2>3. \A k \in DOMAIN views : Given(k) \subseteq Delivered
    BY DEF Delivered
  <2>4. /\ \A k \in DOMAIN views : Precede(Given(k), A)
        /\ Precede(OnTheWay(t), A) /\ (OnTheWay(t) \cup Delivered) \cap expired = {}
        /\ A \cup expired \cup OnTheWay(t) \cup Delivered = DOMAIN merged
    BY <1>7 DEF OneReader, A
  <2>5. B \subseteq A \cup fresh /\ lost \subseteq A \cup fresh
    BY <1>1
  <2>6. ASSUME NEW C, C \subseteq DOMAIN merged, Precede(C, A)
        PROVE  Precede(C, B) /\ C \cap lost = {}
    <3>1. \A n \in C, m \in A \cup fresh : n < m
      BY <1>2, <2>6 DEF Precede
    <3>2. \A n \in C : n \in Nat
      BY <1>2, <2>6
    <3> QED
      BY <2>5, <3>1, <3>2 DEF Precede
  <2>7. /\ Precede(OnTheWay(t), B) /\ OnTheWay(t) \cap lost = {}
        /\ \A k \in DOMAIN views : Precede(Given(k), B) /\ Given(k) \cap lost = {}
    BY <1>4, <2>4, <2>6
  <2>8. Delivered \cap lost = {}
    BY <2>7 DEF Delivered
  <2>9. B \cup (expired \cup lost) \cup OnTheWay(t) \cup Delivered = DOMAIN merged \cup fresh
    BY <1>1, <2>4
  <2>10. /\ \A j, k \in DOMAIN views : j < k => Precede(Given(j), Given(k))
         /\ \A k \in DOMAIN views : Precede(Given(k), OnTheWay(t))
    BY <1>7 DEF OneReader
  <2>11. (OnTheWay(t) \cup Delivered) \cap (expired \cup lost) = {}
    BY <2>4, <2>7, <2>8
  <2>12. /\ (\A j, k \in DOMAIN views : j < k => Precede(Given(j), Given(k)))'
         /\ (\A k \in DOMAIN views :
              Precede(Given(k), OnTheWay(t)) /\ Precede(Given(k), MergesOf(impl.data)))'
    BY <1>3, <2>1, <2>7, <2>10 DEF Given, Precede, B
  <2>13. Precede(OnTheWay(t), MergesOf(impl.data))'
    BY <2>1, <2>7 DEF Precede, B
  <2>14. (MergesOf(impl.data) \cup expired \cup OnTheWay(t) \cup Delivered = DOMAIN merged)'
    BY <1>1, <1>2, <2>1, <2>2, <2>9 DEF B
  <2>15. ((OnTheWay(t) \cup Delivered) \cap expired = {})'
    BY <1>1, <2>1, <2>2, <2>11
  <2> QED
    BY <1>3, <2>12, <2>13, <2>14, <2>15 DEF OneReader
<1>8. ASSUME aggregation_window_ # "delta" PROVE B \cup (expired \cup lost) = DOMAIN merged \cup fresh
  <2>1. A \cup expired = DOMAIN merged
    BY <1>8 DEF OnceInv, A
  <2> QED
    BY <1>1, <2>1
<1> QED
  BY <1>1, <1>2, <1>3, <1>6, <1>7, <1>8 DEF OnceInv, B

\* A reader takes the data of the view...
LEMMA GetKeepsOnce ==
  ASSUME ViewInv, OnceInv, NEW t \in Readers, GetDelta(t)
  PROVE  OnceInv'
<1>1. /\ pc[t] = "idle" /\ pc' = [pc EXCEPT ![t] = "reset"]
      /\ snapshot' = [snapshot EXCEPT ![t] = [impl EXCEPT !.update_times = <<>>]]
      /\ UNCHANGED <<aggregation_window_, impl, merged, expired, views>>
  BY DEF GetDelta, Goto, descriptor
<1>2. ASSUME Readers = {t}, OneReader(t) PROVE OneReader(t)'
  <2>1. DOMAIN snapshot = Readers /\ DOMAIN pc = Readers
    BY DEF ViewInv
  <2>2. [impl EXCEPT !.update_times = <<>>].data = impl.data
        /\ [impl EXCEPT !.update_times = <<>>].start_time = impl.start_time
    BY DEF ViewInv, DataInv, IsImpl
  <2>3. snapshot'[t].data = impl.data /\ snapshot'[t].start_time = impl.start_time
    BY <1>1, <2>1, <2>2
  <2>4. pc'[t] = "reset"
    BY <1>1, <2>1
  <2>5. OnTheWay(t) = {} /\ OnTheWay(t)' = {}
    BY <1>1, <2>4 DEF OnTheWay
  <2>6. Delivered' = Delivered /\ \A k \in DOMAIN views : Given(k)' = Given(k)
    BY <1>1 DEF Delivered, Given
  <2> QED
    BY <1>1, <1>2, <2>3, <2>5, <2>6 DEF OneReader, Given
<1> QED
  BY <1>1, <1>2 DEF OnceInv

\* ... empties it...
LEMMA ResetKeepsOnce ==
  ASSUME ViewInv, OnceInv, NEW t \in Readers, ResetSource(t)
  PROVE  OnceInv'
<1>1. /\ pc[t] = "reset" /\ pc' = [pc EXCEPT ![t] = "view"]
      /\ impl' = Reset(impl, time[t])
      /\ UNCHANGED <<aggregation_window_, snapshot, merged, expired, views>>
  BY DEF ResetSource, Goto, descriptor
<1>2. aggregation_window_ = "delta" /\ DOMAIN pc = Readers
  BY <1>1 DEF ViewInv
<1>3. IsReset(impl, time[t], impl')
  BY <1>1, ResetIs, Zenon DEF ViewInv, DataInv
<1>4. MergesOf(impl'.data) = {}
  BY <1>3, MergesOfEmpty DEF IsReset
<1>5. ASSUME Readers = {t}, OneReader(t) PROVE OneReader(t)'
  <2>1. pc'[t] = "view"
    BY <1>1, <1>2
  <2>2. OnTheWay(t) = {} /\ OnTheWay(t)' = MergesOf(impl.data)
    BY <1>1, <1>5, <2>1 DEF OnTheWay, OneReader
  <2>3. Delivered' = Delivered /\ \A k \in DOMAIN views : Given(k)' = Given(k)
    BY <1>1 DEF Delivered, Given
  <2>4. MergesOf(impl.data) \cap expired = {}
    BY DEF OnceInv
  <2>5. /\ (\A j, k \in DOMAIN views : j < k => Precede(Given(j), Given(k)))'
        /\ (\A k \in DOMAIN views :
              Precede(Given(k), OnTheWay(t)) /\ Precede(Given(k), MergesOf(impl.data)))'
    BY <1>1, <1>4, <1>5, <2>2, <2>3 DEF OneReader, Given, Precede
  <2>6. Precede(OnTheWay(t), MergesOf(impl.data))'
    BY <1>4 DEF Precede
  <2>7. /\ ((OnTheWay(t) \cup Delivered) \cap expired = {})'
        /\ (MergesOf(impl.data) \cup expired \cup OnTheWay(t) \cup Delivered = DOMAIN merged)'
    BY <1>1, <1>4, <1>5, <2>2, <2>3, <2>4 DEF OneReader
  <2> QED
    BY <2>1, <2>5, <2>6, <2>7 DEF OneReader
<1> QED
  BY <1>1, <1>2, <1>4, <1>5 DEF OnceInv

\* ... and is given it.
LEMMA MakeKeepsOnce ==
  ASSUME ViewInv, OnceInv, NEW t \in Readers, MakeViewData(t)
  PROVE  OnceInv'
<1> DEFINE x == [data |-> snapshot[t].data, start_times |-> snapshot[t].start_times,
                 start_time |-> snapshot[t].start_time, end_time |-> now]
<1>1. /\ pc[t] = "view" /\ pc' = [pc EXCEPT ![t] = "idle"] /\ views' = Append(views, x)
      /\ UNCHANGED <<aggregation_window_, impl, merged, expired>>
  BY DEF MakeViewData, Goto, descriptor
<1>2. ASSUME Readers = {t}, OneReader(t) PROVE OneReader(t)'
  <2> DEFINE W == OnTheWay(t)
             A == MergesOf(impl.data)
  <2>0. PICK last : last = Len(views) + 1
    OBVIOUS
  <2>1. pc'[t] = "idle"
    BY <1>1 DEF ViewInv
  <2>2. MergesOf(x.data) = W /\ OnTheWay(t)' = {}
    BY <1>1, <2>1 DEF OnTheWay
  <2> HIDE DEF x
  <2>3. /\ DOMAIN views' = DOMAIN views \cup {last} /\ views'[last] = x
        /\ \A k \in DOMAIN views : k < last /\ k \in Nat
        /\ \A k \in DOMAIN views : views'[k] = views[k]
    <3>1. PICK S : views \in Seq(S)
      BY DEF ViewInv
    <3>2. views \in Seq(S \cup {x})
      BY <3>1
    <3> QED
      BY <1>1, <2>0, <3>2
  <2>4. /\ \A k \in DOMAIN views : Given(k)' = Given(k)
        /\ Given(last)' = W
    BY <2>2, <2>3 DEF Given
  <2>5. /\ \A j, k \in DOMAIN views : j < k => Precede(Given(j), Given(k))
        /\ \A k \in DOMAIN views : Precede(Given(k), W) /\ Precede(Given(k), A)
        /\ Precede(W, A)
        /\ (W \cup Delivered) \cap expired = {}
        /\ A \cup expired \cup W \cup Delivered = DOMAIN merged
    BY <1>2 DEF OneReader
  <2>6. Delivered' = Delivered \cup W
    <3>1. ASSUME NEW n PROVE n \in Delivered' <=> n \in Delivered \cup W
      BY <2>3, <2>4 DEF Delivered
    <3> QED
      BY <3>1
  <2> HIDE DEF W
  <2>7. ASSUME NEW j \in DOMAIN views', NEW k \in DOMAIN views', j < k
        PROVE  Precede(Given(j), Given(k))'
    <3>1. j \in DOMAIN views
      BY <2>0, <2>3, <2>7
    <3>2. CASE k \in DOMAIN views
      <4>1. Precede(Given(j), Given(k)) /\ Given(j)' = Given(j) /\ Given(k)' = Given(k)
        BY <2>4, <2>5, <2>7, <3>1, <3>2
      <4> QED
        BY <4>1 DEF Precede
    <3>3. CASE k = last
      <4>1. Precede(Given(j), W) /\ Given(j)' = Given(j) /\ Given(k)' = W
        BY <2>4, <2>5, <3>1, <3>3
      <4> QED
        BY <4>1 DEF Precede
    <3> QED
      BY <2>3, <3>2, <3>3
  <2>8. ASSUME NEW k \in DOMAIN views' PROVE Precede(Given(k), MergesOf(impl.data))'
    <3>1. CASE k \in DOMAIN views
      BY <1>1, <2>4, <2>5, <3>1 DEF Precede
    <3>2. CASE k = last
      BY <1>1, <2>4, <2>5, <3>2 DEF Precede
    <3> QED
      BY <2>3, <3>1, <3>2
  <2>9. /\ \A k \in DOMAIN views' : Precede(Given(k), OnTheWay(t))'
        /\ Precede(OnTheWay(t), MergesOf(impl.data))'
    BY <2>2 DEF Precede
  <2>10. /\ ((OnTheWay(t) \cup Delivered) \cap expired = {})'
         /\ (MergesOf(impl.data) \cup expired \cup OnTheWay(t) \cup Delivered = DOMAIN merged)'
    BY <1>1, <2>2, <2>5, <2>6
  <2> QED
    BY <2>1, <2>7, <2>8, <2>9, <2>10 DEF OneReader
<1> QED
  BY <1>1, <1>2 DEF OnceInv

\* Every step keeps OnceInv.
LEMMA OnceStep ==
  ASSUME ViewInv, OnceInv, [Next]_vars
  PROVE  OnceInv'
<1>1. ASSUME UNCHANGED <<aggregation_window_, impl, pc, snapshot, merged, expired, views>>
      PROVE  OnceInv'
  BY <1>1 DEF OnceInv, OneReader, OnTheWay, Delivered, Given, Precede
<1>2. ASSUME UNCHANGED <<aggregation_window_, impl, merged, expired, views>>,
             aggregation_window_ # "delta"
      PROVE  OnceInv'
  BY <1>2 DEF OnceInv
<1>3. Tick => OnceInv'
  BY <1>1 DEF Tick, descriptor, readers
<1>4. \A rows \in Deltas : MergeDelta(rows) => OnceInv'
  BY MergeKeepsOnce
<1>5. \A t \in Readers : GetCumulative(t) \/ GetInterval(t) => OnceInv'
  BY <1>2 DEF GetCumulative, GetInterval, descriptor
<1>6. \A t \in Readers : GetDelta(t) \/ ResetSource(t) \/ MakeViewData(t) => OnceInv'
  BY GetKeepsOnce, ResetKeepsOnce, MakeKeepsOnce
<1>7. UNCHANGED vars => OnceInv'
  BY <1>1 DEF vars, descriptor, readers
<1> QED
  BY <1>3, <1>4, <1>5, <1>6, <1>7 DEF Next

\* The reader is on the way with its data, or with none.
LEMMA SetToSeqOfOne ==
  ASSUME NEW W
  PROVE  SetToSeq({W} \ {{}}) = IF W = {} THEN <<>> ELSE <<W>>
<1>1. CASE W = {}
  <2>1. {W} \ {{}} = {} /\ Cardinality({}) = 0
    BY <1>1, FS_EmptySet
  <2>2. <<>> \in [1 .. 0 -> {}] /\ IsInjective(<<>>)
    BY DEF IsInjective
  <2>3. \A f \in [1 .. 0 -> {}] : f = <<>>
    OBVIOUS
  <2>4. SetToSeq({}) = <<>>
    BY <2>1, <2>2, <2>3 DEF SetToSeq
  <2> QED
    BY <1>1, <2>1, <2>4
<1>2. CASE W # {}
  <2>1. {W} \ {{}} = {W} /\ Cardinality({W}) = 1
    BY <1>2, FS_Singleton
  <2>2. <<W>> \in [1 .. 1 -> {W}] /\ IsInjective(<<W>>)
    BY DEF IsInjective
  <2>3. \A f \in [1 .. 1 -> {W}] : f = <<W>>
    OBVIOUS
  <2>4. SetToSeq({W}) = <<W>>
    BY <2>1, <2>2, <2>3 DEF SetToSeq
  <2> QED
    BY <1>2, <2>1, <2>4
<1> QED
  BY <1>1, <1>2

\* Sets that precede each other have no member in common.
LEMMA PrecedeApart ==
  ASSUME NEW A \in SUBSET Nat, NEW B \in SUBSET Nat, Precede(A, B)
  PROVE  A \cap B = {}
  BY DEF Precede

\* With one reader, the places of a delta view hold each merge once.
LEMMA DeltaPlaces ==
  ASSUME ViewInv, OnceInv, NEW t, Readers = {t}, aggregation_window_ = "delta"
  PROVE  LET kept == <<MergesOf(impl.data), expired>>
             taken == [k \in DOMAIN views |-> Given(k)]
             under_way == {OnTheWay(r) : r \in Readers} \ {{}}
             places == kept \o taken \o SetToSeq(under_way)
         IN  /\ UNION Range(places) = DOMAIN merged
             /\ \A j, k \in DOMAIN places : j # k => places[j] \cap places[k] = {}
<1> DEFINE A == MergesOf(impl.data)
           W == OnTheWay(t)
           taken == [k \in DOMAIN views |-> Given(k)]
           tail == SetToSeq({OnTheWay(r) : r \in Readers} \ {{}})
           places == <<A, expired>> \o taken \o tail
           n == Len(views)
<1>1. OneReader(t) /\ A \cap expired = {}
  BY DEF OnceInv
<1>2. tail = IF W = {} THEN <<>> ELSE <<W>>
  <2>1. {OnTheWay(r) : r \in Readers} = {W}
    OBVIOUS
  <2> QED
    BY <2>1, SetToSeqOfOne
<1>3. DOMAIN merged \subseteq Nat
  <2>1. merged \in Seq(Entries)
    BY DEF ViewInv, History
  <2> QED
    BY <2>1
<1>4. /\ A \subseteq Nat /\ expired \subseteq Nat /\ W \subseteq Nat
      /\ \A k \in DOMAIN views : Given(k) \subseteq Nat
  BY <1>3, MergedBefore DEF OnceInv
<1>5. DOMAIN views = 1 .. n /\ n \in Nat
  BY DEF ViewInv
<1>6. /\ \A j, k \in 1 .. n : j # k => Given(j) \cap Given(k) = {}
      /\ \A k \in 1 .. n : /\ Given(k) \cap W = {} /\ Given(k) \cap A = {}
                           /\ Given(k) \cap expired = {}
      /\ W \cap A = {} /\ W \cap expired = {}
      /\ A \cup expired \cup W \cup UNION {Given(k) : k \in 1 .. n} = DOMAIN merged
  <2>1. ASSUME NEW j \in 1 .. n, NEW k \in 1 .. n, j < k PROVE Given(j) \cap Given(k) = {}
    BY <1>1, <1>4, <1>5, <2>1, PrecedeApart DEF OneReader
  <2>2. \A j, k \in 1 .. n : j # k => Given(j) \cap Given(k) = {}
    <3>1. \A j, k \in 1 .. n : j # k => j < k \/ k < j
      BY <1>5
    <3> QED
      BY <2>1, <3>1
  <2>3. \A k \in 1 .. n : Given(k) \cap W = {} /\ Given(k) \cap A = {}
    BY <1>1, <1>4, <1>5, PrecedeApart DEF OneReader
  <2>4. W \cap A = {}
    BY <1>1, <1>4, PrecedeApart DEF OneReader
  <2>5. \A k \in 1 .. n : Given(k) \subseteq Delivered
    BY <1>5 DEF Delivered
  <2>6. (W \cup Delivered) \cap expired = {} /\ A \cup expired \cup W \cup Delivered = DOMAIN merged
    BY <1>1 DEF OneReader
  <2> QED
    BY <1>5, <2>2, <2>3, <2>4, <2>5, <2>6 DEF Delivered
<1>7. /\ DOMAIN places = 1 .. (n + 2 + IF W = {} THEN 0 ELSE 1)
      /\ places[1] = A /\ places[2] = expired
      /\ \A k \in 1 .. n : places[k + 2] = Given(k)
      /\ W # {} => places[n + 3] = W
  <2> DEFINE head == <<A, expired>> \o taken
  <2>1. taken \in Seq(SUBSET Nat) /\ Len(taken) = n /\ \A k \in 1 .. n : taken[k] = Given(k)
    BY <1>4, <1>5
  <2>2. <<A, expired>> \in Seq(SUBSET Nat)
    BY <1>4
  <2> HIDE DEF taken, A, W, n, tail
  <2>3. /\ head \in Seq(SUBSET Nat) /\ Len(head) = n + 2 /\ head[1] = A /\ head[2] = expired
        /\ \A k \in 1 .. n : head[k + 2] = Given(k)
    BY <1>5, <2>1, <2>2
  <2> HIDE DEF head
  <2>4. places = head \o tail
    BY DEF head
  <2>5. tail \in Seq(SUBSET Nat) /\ Len(tail) = (IF W = {} THEN 0 ELSE 1)
        /\ (W # {} => tail[1] = W)
    <3>1. CASE W = {}
      BY <1>2, <3>1
    <3>2. CASE W # {}
      <4>1. tail = <<W>> /\ <<W>> \in Seq(SUBSET Nat)
        <5>1. tail = <<W>>
          BY <1>2, <3>2, Zenon
        <5>2. W \in SUBSET Nat
          BY <1>4
        <5> QED
          BY <5>1, <5>2
      <4> QED
        BY <3>2, <4>1
    <3> QED
      BY <3>1, <3>2
  <2> HIDE DEF places
  <2>6. /\ DOMAIN places = 1 .. Len(head) + Len(tail) /\ Len(head) \in Nat
        /\ \A i \in 1 .. Len(head) : places[i] = head[i]
        /\ \A i \in 1 .. Len(tail) : places[Len(head) + i] = tail[i]
    BY <2>3, <2>4, <2>5
  <2>7. /\ DOMAIN places = 1 .. (n + 2 + IF W = {} THEN 0 ELSE 1)
        /\ places[1] = A /\ places[2] = expired
        /\ \A k \in 1 .. n : places[k + 2] = Given(k)
    BY <1>5, <2>3, <2>5, <2>6
  <2>8. ASSUME W # {} PROVE places[n + 3] = W
    <3>1. 1 \in 1 .. Len(tail) /\ tail[1] = W /\ Len(head) + 1 = n + 3
      BY <1>5, <2>3, <2>5, <2>8
    <3> QED
      BY <2>6, <3>1
  <2> QED
    BY <2>7, <2>8 DEF places
<1> HIDE DEF places, n, A, W, taken, tail
<1>8. ASSUME NEW k \in DOMAIN places
      PROVE  \/ k = 1 /\ places[k] = A
             \/ k = 2 /\ places[k] = expired
             \/ k - 2 \in 1 .. n /\ places[k] = Given(k - 2)
             \/ k = n + 3 /\ W # {} /\ places[k] = W
  <2>1. \A i \in 1 .. n : \A m : m = i + 2 => places[m] = Given(i)
    BY <1>7
  <2>2. k \in Nat /\ k >= 1 /\ k <= n + 3 /\ (W = {} => k <= n + 2)
    BY <1>5, <1>7
  <2>3. CASE k - 2 \in 1 .. n
    <3>1. k = (k - 2) + 2
      BY <2>2
    <3> QED
      BY <2>1, <2>3, <3>1
  <2>4. CASE k - 2 \notin 1 .. n
    <3>1. k = 1 \/ k = 2 \/ (k = n + 3 /\ W # {})
      BY <1>5, <2>2, <2>4
    <3> QED
      BY <1>7, <3>1
  <2> QED
    BY <2>3, <2>4
<1>9. ASSUME NEW j \in DOMAIN places, NEW k \in DOMAIN places, j # k
      PROVE  places[j] \cap places[k] = {}
  <2>1. j \in Nat /\ k \in Nat
    BY <1>5, <1>7
  <2>2. j - 2 # k - 2
    BY <1>9, <2>1
  <2> QED
    BY <1>1, <1>6, <1>8, <1>9, <2>2
<1>10. UNION Range(places) = DOMAIN merged
  <2>1. ASSUME NEW m \in UNION Range(places) PROVE m \in DOMAIN merged
    <3>1. PICK k \in DOMAIN places : m \in places[k]
      BY <2>1 DEF Range
    <3> QED
      BY <1>6, <1>8, <3>1
  <2>2. ASSUME NEW m \in DOMAIN merged PROVE \E k \in DOMAIN places : m \in places[k]
    <3>1. CASE m \in A
      <4>1. 1 \in DOMAIN places
        BY <1>5, <1>7
      <4> QED
        BY <1>7, <3>1, <4>1
    <3>2. CASE m \in expired
      <4>1. 2 \in DOMAIN places
        BY <1>5, <1>7
      <4> QED
        BY <1>7, <3>2, <4>1
    <3>3. CASE m \in W
      <4>1. n + 3 \in DOMAIN places /\ W # {}
        BY <1>5, <1>7, <3>3
      <4> QED
        BY <1>7, <3>3, <4>1
    <3>4. ASSUME NEW i \in 1 .. n, m \in Given(i) PROVE \E k \in DOMAIN places : m \in places[k]
      <4>1. i + 2 \in DOMAIN places
        BY <1>5, <1>7
      <4> QED
        BY <1>7, <3>4, <4>1
    <3> QED
      BY <1>6, <3>1, <3>2, <3>3, <3>4
  <2> QED
    BY <2>1, <2>2 DEF Range
<1> QED
  BY <1>9, <1>10 DEF places, A, W, taken, tail

\* OnceInv implies the property.
LEMMA OnceIsEnough ==
  ASSUME ViewInv, OnceInv,
         aggregation_window_ = "delta" => \E t : Readers = {t}
  PROVE  EachMergeOnce
<1> DEFINE kept == <<MergesOf(impl.data), expired>>
           taken == [k \in DOMAIN views |-> Given(k)]
           under_way == {OnTheWay(t) : t \in Readers} \ {{}}
           places == IF aggregation_window_ = "delta"
                     THEN kept \o taken \o SetToSeq(under_way) ELSE kept
<1>1. /\ UNION Range(places) = DOMAIN merged
      /\ \A j, k \in DOMAIN places : j # k => places[j] \cap places[k] = {}
  <2>1. CASE aggregation_window_ = "delta"
    <3>1. PICK t : Readers = {t}
      BY <2>1
    <3>2. places = kept \o taken \o SetToSeq(under_way)
      BY <2>1
    <3> QED
      BY <2>1, <3>1, <3>2, DeltaPlaces, Zenon
  <2>2. CASE aggregation_window_ # "delta"
    <3>1. places = kept
      BY <2>2
    <3>2. UNION Range(kept) = MergesOf(impl.data) \cup expired
      BY DEF Range
    <3>3. \A j, k \in DOMAIN kept : j # k => kept[j] \cap kept[k] = {}
      BY DEF OnceInv
    <3> HIDE DEF places, kept
    <3>4. MergesOf(impl.data) \cup expired = DOMAIN merged
      BY <2>2 DEF OnceInv
    <3> QED
      BY <3>1, <3>2, <3>3, <3>4
  <2> QED
    BY <2>1, <2>2
<1>2. \A v \in {impl} \cup Range(views) : \A row \in DOMAIN v.data :
        v.data[row] # {} /\ \A n \in v.data[row] : merged[n].row = row
  BY DEF ViewInv, DataInv, Copied, Labelled, Range
<1> QED
  BY <1>1, <1>2 DEF EachMergeOnce

\* OnceInv holds always.
THEOREM OnceInvariant == Spec => []OnceInv
<1>1. Init => OnceInv
  BY OnceInit
<1>2. ViewInv /\ OnceInv /\ [Next]_vars => OnceInv'
  BY OnceStep
<1>3. Spec => []ViewInv
  BY ViewInvariant
<1> QED
  BY <1>1, <1>2, <1>3, PTL DEF Spec

\* Each merge into the view is in the data of its own row, was purged with its row,
\* or was given to the reader in one delta: none is lost, none is reported twice.
\* It is claimed of delta views with one reader only: two readers may be given the
\* same data (OneDelta).
THEOREM EachMergeInOnePlace ==
  ("delta" \in Windows => \E t : Readers = {t}) => (Spec => []EachMergeOnce)
<1> SUFFICES ASSUME "delta" \in Windows => \E t : Readers = {t}
             PROVE  Spec => []EachMergeOnce
  OBVIOUS
<1>1. Init => aggregation_window_ \in Windows
  BY DEF Init
<1>2. aggregation_window_ \in Windows /\ [Next]_vars => (aggregation_window_ \in Windows)'
  BY DEF Next, vars, descriptor, Tick, MergeDelta, GetCumulative, GetInterval, GetDelta,
         ResetSource, MakeViewData
<1>3. ViewInv /\ OnceInv /\ aggregation_window_ \in Windows => EachMergeOnce
  BY OnceIsEnough
<1>4. Spec => []ViewInv
  BY ViewInvariant
<1>5. Spec => []OnceInv
  BY OnceInvariant
<1> QED
  BY <1>1, <1>2, <1>3, <1>4, <1>5, PTL DEF Spec

----------------------------------------------------------------------------
\* The times of the views.

\* The next period starts no later than the last one ended.
StartOf(t) == IF pc[t] = "view" THEN snapshot[t].start_time ELSE impl.start_time

PeriodInv ==
  /\ \A k \in DOMAIN views : k > 1 => views[k].start_time <= views[k - 1].end_time
  /\ \A k \in DOMAIN views : k = Len(views) =>
       \A t \in Readers : StartOf(t) <= views[k].end_time

\* It is about one reader of a delta view.
Periods == aggregation_window_ = "delta" => \A t \in Readers : Readers = {t} => PeriodInv

\* Every step keeps the periods adjacent.
LEMMA PeriodsStep ==
  ASSUME ViewInv, OnceInv, Periods, [Next]_vars
  PROVE  Periods'
<1>1. ASSUME UNCHANGED <<aggregation_window_, pc, snapshot, views>>, impl'.start_time = impl.start_time
      PROVE  Periods'
  BY <1>1 DEF Periods, PeriodInv, StartOf
<1>2. Tick => Periods'
  BY <1>1 DEF Tick, descriptor, readers
<1>3. \A rows \in Deltas : MergeDelta(rows) => Periods'
  BY <1>1, MergeDeltaHarvests DEF MergeDelta, descriptor, readers
<1>4. ASSUME NEW t \in Readers, GetCumulative(t) \/ GetInterval(t) PROVE Periods'
  BY <1>4 DEF GetCumulative, GetInterval, descriptor, Periods
<1>5. ASSUME NEW t \in Readers, GetDelta(t) PROVE Periods'
  <2>1. /\ pc[t] = "idle" /\ pc' = [pc EXCEPT ![t] = "reset"] /\ DOMAIN pc = Readers
        /\ UNCHANGED <<aggregation_window_, impl, views>>
    BY <1>5 DEF GetDelta, Goto, descriptor, ViewInv
  <2>2. StartOf(t)' = StartOf(t)
    BY <2>1 DEF StartOf
  <2>3. ASSUME Readers = {t}, PeriodInv PROVE PeriodInv'
    BY <2>1, <2>2, <2>3 DEF PeriodInv
  <2> QED
    BY <2>1, <2>3 DEF Periods
<1>6. ASSUME NEW t \in Readers, ResetSource(t) PROVE Periods'
  <2>1. /\ pc[t] = "reset" /\ pc' = [pc EXCEPT ![t] = "view"] /\ DOMAIN pc = Readers
        /\ UNCHANGED <<aggregation_window_, snapshot, views>>
        /\ aggregation_window_ = "delta"
    BY <1>6 DEF ResetSource, Goto, descriptor, ViewInv
  <2>2. ASSUME Readers = {t}, PeriodInv PROVE PeriodInv'
    <3>1. snapshot[t].start_time = impl.start_time
      BY <2>1, <2>2 DEF OnceInv, OneReader
    <3>2. StartOf(t)' = StartOf(t)
      BY <2>1, <3>1 DEF StartOf
    <3> QED
      BY <2>1, <2>2, <3>2 DEF PeriodInv
  <2> QED
    BY <2>1, <2>2 DEF Periods
<1>7. ASSUME NEW t \in Readers, MakeViewData(t) PROVE Periods'
  <2> DEFINE x == [data |-> snapshot[t].data, start_times |-> snapshot[t].start_times,
                   start_time |-> snapshot[t].start_time, end_time |-> now]
  <2>1. /\ pc[t] = "view" /\ pc' = [pc EXCEPT ![t] = "idle"] /\ DOMAIN pc = Readers
        /\ views' = Append(views, x)
        /\ UNCHANGED <<aggregation_window_, impl>>
    BY <1>7 DEF MakeViewData, Goto, descriptor, ViewInv
  <2>2. x.start_time = StartOf(t) /\ x.end_time = now
    BY <2>1 DEF StartOf
  <2> HIDE DEF x
  <2>3. ASSUME Readers = {t}, PeriodInv PROVE PeriodInv'
    <3>1. PICK last : last = Len(views) + 1
      OBVIOUS
    <3>2. /\ Len(views') = last /\ DOMAIN views' = 1 .. last /\ views'[last] = x
          /\ Len(views) \in Nat /\ DOMAIN views = 1 .. Len(views)
          /\ \A k \in DOMAIN views : views'[k] = views[k]
      <4>1. PICK S : views \in Seq(S)
        BY DEF ViewInv
      <4>2. views \in Seq(S \cup {x})
        BY <4>1
      <4> QED
        BY <2>1, <3>1, <4>2
    <3>3. StartOf(t)' = impl.start_time /\ impl.start_time <= now
      BY <2>1 DEF StartOf, ViewInv, DataInv, Timed
    <3>4. ASSUME NEW k \in DOMAIN views', k > 1
          PROVE  views'[k].start_time <= views'[k - 1].end_time
      <4>1. k - 1 \in DOMAIN views /\ views'[k - 1] = views[k - 1]
        BY <3>1, <3>2, <3>4
      <4>2. CASE k = last
        <5>1. StartOf(t) <= views[k - 1].end_time
          <6>1. k - 1 = Len(views)
            BY <3>1, <3>2, <4>2
          <6> QED
            BY <2>3, <4>1, <6>1 DEF PeriodInv
        <5> QED
          BY <2>2, <3>2, <4>1, <4>2, <5>1
      <4>3. CASE k # last
        <5>1. k \in DOMAIN views
          BY <3>1, <3>2, <4>3
        <5> QED
          BY <2>3, <3>2, <3>4, <4>1, <5>1 DEF PeriodInv
      <4> QED
        BY <4>2, <4>3
    <3>5. \A k \in DOMAIN views' : k = Len(views') => StartOf(t)' <= views'[k].end_time
      BY <2>2, <3>2, <3>3
    <3> QED
      BY <2>3, <3>4, <3>5 DEF PeriodInv
  <2> QED
    BY <2>1, <2>3 DEF Periods
<1>8. UNCHANGED vars => Periods'
  BY <1>1 DEF vars, descriptor, readers
<1> QED
  BY <1>2, <1>3, <1>4, <1>5, <1>6, <1>7, <1>8 DEF Next

\* At first there are no views.
LEMMA PeriodsInit ==
  ASSUME Init
  PROVE  Periods
<1>1. DOMAIN views = {}
  BY DEF Init
<1> QED
  BY <1>1 DEF Periods, PeriodInv

\* The list is as long as there are rows in it.
LEMMA ListedOnce ==
  ASSUME NEW entries \in Seq(Entries), NEW rows, NEW history, Tracked(entries, rows, history)
  PROVE  /\ {entries[i].row : i \in DOMAIN entries} = rows
         /\ Len(entries) = Cardinality(rows)
         /\ \A i, j \in DOMAIN entries : i < j => entries[i].time >= entries[j].time
<1>1. DOMAIN entries = 1 .. Len(entries) /\ Len(entries) \in Nat
  OBVIOUS
<1>2. /\ \A i \in DOMAIN entries : entries[i].row \in rows
      /\ \A row \in rows : \E i \in DOMAIN entries : entries[i].row = row
      /\ \A i, j \in DOMAIN entries :
           i < j => entries[i].row # entries[j].row /\ entries[i].time >= entries[j].time
  BY DEF Tracked
<1> DEFINE f == [i \in 1 .. Len(entries) |-> entries[i].row]
<1>3. f \in Bijection(1 .. Len(entries), rows)
  <2>1. f \in Injection(1 .. Len(entries), rows)
    <3>1. ASSUME NEW i \in 1 .. Len(entries), NEW j \in 1 .. Len(entries), f[i] = f[j]
          PROVE  i = j
      <4>1. ~ (i < j) /\ ~ (j < i)
        BY <1>1, <1>2, <3>1
      <4> QED
        BY <4>1
    <3> QED
      BY <1>1, <1>2, <3>1 DEF Injection, IsInjective
  <2>2. f \in Surjection(1 .. Len(entries), rows)
    BY <1>1, <1>2 DEF Surjection
  <2> QED
    BY <2>1, <2>2 DEF Bijection
<1>4. IsFiniteSet(1 .. Len(entries)) /\ Cardinality(1 .. Len(entries)) = Len(entries)
  BY <1>1, FS_Interval
<1>5. Cardinality(rows) = Len(entries)
  BY <1>3, <1>4, FS_Bijection DEF ExistsBijection
<1>6. {entries[i].row : i \in DOMAIN entries} = rows
  BY <1>2
<1> QED
  BY <1>2, <1>5, <1>6

\* The three invariants imply the property.
LEMMA TimesAreEnough ==
  ASSUME ViewInv, OnceInv, Periods
  PROVE  TimesHold
<1>1. ASSUME aggregation_window_ # "interval", NEW k \in DOMAIN views,
             NEW row \in DOMAIN views[k].data
      PROVE  /\ views[k].start_time <= views[k].start_times[row]
             /\ \A n \in views[k].data[row] :
                  merged[n].time \in views[k].start_times[row] .. views[k].end_time
  <2> DEFINE v == views[k]
  <2>1. /\ v.end_time \in Nat /\ Timed(v, merged, v.end_time) /\ IsMap(v.start_times, Nat)
        /\ row \in DOMAIN v.start_times /\ Labelled(v.data, merged)
    BY <1>1 DEF ViewInv, Copied
  <2>2. v.start_times[row] \in Nat
    BY <2>1 DEF IsMap
  <2>3. ASSUME NEW n \in v.data[row] PROVE merged[n].time \in v.start_times[row] .. v.end_time
    <3>1. n \in DOMAIN merged
      BY <2>1 DEF Labelled
    <3>2. merged[n] \in Entries
      BY <3>1 DEF ViewInv, History
    <3>3. merged[n].time \in Nat
      BY <3>2 DEF Entries
    <3> QED
      BY <2>1, <2>2, <3>3 DEF Timed
  <2> QED
    BY <2>1, <2>3 DEF Timed
<1>2. ASSUME aggregation_window_ = "delta", Cardinality(Readers) = 1, NEW k \in DOMAIN views, k > 1
      PROVE  /\ views[k].start_time <= views[k - 1].end_time
             /\ \A n \in Given(k - 1), m \in Given(k) : n < m
  <2>1. PICK t \in Readers : Readers = {t}
    BY <1>2, FS_Singleton, ViewAssumption
  <2>2. k - 1 \in DOMAIN views /\ k - 1 < k
    BY <1>2 DEF ViewInv
  <2>3. Precede(Given(k - 1), Given(k))
    BY <1>2, <2>1, <2>2 DEF OnceInv, OneReader
  <2>4. views[k].start_time <= views[k - 1].end_time
    BY <1>2, <2>1 DEF Periods, PeriodInv
  <2> QED
    BY <2>3, <2>4 DEF Precede
<1>3. PeriodsHold
  BY <1>1, <1>2 DEF PeriodsHold
<1>4. \A v \in {impl} \cup Range(views) : DOMAIN v.data \subseteq DOMAIN v.start_times
  BY DEF ViewInv, DataInv, Copied, Range
<1>5. ASSUME expiry_duration_ > 0
      PROVE  LET entries == impl.update_times IN
             /\ {entries[i].row : i \in DOMAIN entries} = DOMAIN impl.start_times
             /\ Len(entries) = Cardinality(DOMAIN impl.start_times)
             /\ \A i, j \in DOMAIN entries : i < j => entries[i].time >= entries[j].time
  <2>1. impl.update_times \in Seq(Entries)
        /\ Tracked(impl.update_times, DOMAIN impl.start_times, merged)
    BY <1>5 DEF ViewInv, DataInv, IsImpl
  <2> QED
    BY <2>1, ListedOnce
<1> QED
  BY <1>3, <1>4, <1>5 DEF TimesHold, RowsTimed

\* start_times and start_time agree with the data in the view and in all that
\* GetData returns, for any number of readers; the periods of the deltas that one
\* reader is given leave no time out.
THEOREM TimesAlwaysHold == Spec => []TimesHold
<1>1. Init => Periods
  BY PeriodsInit
<1>2. ViewInv /\ OnceInv /\ Periods /\ [Next]_vars => Periods'
  BY PeriodsStep
<1>3. ViewInv /\ OnceInv /\ Periods => TimesHold
  BY TimesAreEnough
<1>4. Spec => []ViewInv
  BY ViewInvariant
<1>5. Spec => []OnceInv
  BY OnceInvariant
<1> QED
  BY <1>1, <1>2, <1>3, <1>4, <1>5, PTL DEF Spec

----------------------------------------------------------------------------
----------------------------------------------------------------------------
\* ViewObjects: views of any kind and rows, and any number of objects and of ViewData.

\* An object with the member of its type, each row with its time, and Distributions
\* just if they are its data.
WellMade(object) ==
  /\ object = Object(object.type_, object.type_, object.rows, object.start_times_,
                     object.start_time_)
  /\ DOMAIN object.rows \subseteq DOMAIN object.start_times_
  /\ \A row \in DOMAIN object.rows :
       object.rows[row].buckets # Null <=> object.type_ = "kDistribution"

\* A ViewData has an object of its own, with what the view held when it was made, and
\* its times.
Shows(objects, d) ==
  /\ d = [impl |-> d.impl, end_time_ |-> d.end_time_, view |-> d.view, made |-> d.made,
          rows |-> d.rows, times |-> d.times]
  /\ d.impl \in DOMAIN objects /\ d.impl # Source
  /\ LET object == objects[d.impl] IN
     /\ object.type_ # "kStatsObject"
     /\ DOMAIN object.rows = DOMAIN d.rows
     /\ \A row \in DOMAIN d.rows :
          /\ object.rows[row].merges = d.rows[row].merges
          /\ object.start_times_[row] = ShownFrom(d, row)

ObjectInv ==
  /\ steps \in Nat /\ DOMAIN heap \subseteq 1 .. steps + 1
  /\ Source \in DOMAIN heap => heap[Source].type_ = TypeForDescriptor(kind)
  /\ \A a \in DOMAIN heap : WellMade(heap[a])
  /\ \A d \in view_data : Shows(heap, d)
  /\ \A d, e \in view_data : d.impl = e.impl => d = e

\* Fields that are assigned, of an object and of a ViewData.
LEMMA FieldsAssigned ==
  ASSUME NEW object, WellMade(object), NEW rows, NEW times
  PROVE  [object EXCEPT !.rows = rows, !.start_times_ = times] =
           Object(object.type_, object.type_, rows, times, object.start_time_)
<1> DEFINE p == [object EXCEPT !.rows = rows, !.start_times_ = times]
           Objects(r, s) == [type_ : {object.type_}, member : {object.type_}, rows : {r},
                             start_times_ : {s}, start_time_ : {object.start_time_}]
<1>1. object \in Objects(object.rows, object.start_times_)
  BY DEF WellMade, Object
<1>2. p \in Objects(rows, times)
  BY <1>1
<1> HIDE DEF p
<1>3. p = Object(object.type_, object.type_, rows, times, object.start_time_)
  BY <1>2 DEF Object
<1> QED
  BY <1>3 DEF p

LEMMA CopiedWith ==
  ASSUME NEW d, NEW address, NEW end,
         d = [impl |-> d.impl, end_time_ |-> d.end_time_, view |-> d.view, made |-> d.made,
              rows |-> d.rows, times |-> d.times]
  PROVE  [d EXCEPT !.impl = address, !.end_time_ = end] =
           [impl |-> address, end_time_ |-> end, view |-> d.view, made |-> d.made,
            rows |-> d.rows, times |-> d.times]
<1> DEFINE p == [d EXCEPT !.impl = address, !.end_time_ = end]
           Data(i, t) == [impl : {i}, end_time_ : {t}, view : {d.view}, made : {d.made},
                          rows : {d.rows}, times : {d.times}]
<1>1. d \in Data(d.impl, d.end_time_)
  OBVIOUS
<1>2. p \in Data(address, end)
  BY <1>1
<1> HIDE DEF p
<1>3. p = [impl |-> address, end_time_ |-> end, view |-> d.view, made |-> d.made,
           rows |-> d.rows, times |-> d.times]
  BY <1>2
<1> QED
  BY <1>3 DEF p

\* What is made of an object that is well made is well made, and has its rows, and its
\* times or the start of the interval.
LEMMA MadeOfWellMade ==
  ASSUME NEW object, WellMade(object)
  PROVE  /\ CopyOf(object) = object
         /\ Swapped(object) = object
         /\ WellMade(Drained(object)) /\ Drained(object).type_ = object.type_
         /\ \A address \in Nat \ {Null} :
              LET taken == Converted(object, address) IN
              /\ WellMade(taken) /\ taken.type_ # "kStatsObject"
              /\ DOMAIN taken.rows = DOMAIN object.rows
              /\ \A row \in DOMAIN object.rows :
                   taken.rows[row].merges = object.rows[row].merges
              /\ taken.start_times_ = [row \in DOMAIN object.start_times_ |->
                   NotBefore(object.start_times_[row], clock - kind.duration)]
<1>1. CopyOf(object) = object /\ Swapped(object) = object
  BY DEF WellMade, CopyOf, Swapped
<1>2. WellMade(Drained(object)) /\ Drained(object).type_ = object.type_
  <2> DEFINE times == [row \in DOMAIN object.start_times_ |-> clock]
  <2>1. Drained(object) = Object(object.type_, object.type_, NoRows, times, clock)
    <3> DEFINE Objects(r, s, t) ==
                 [type_ : {object.type_}, member : {object.type_}, rows : {r},
                  start_times_ : {s}, start_time_ : {t}]
               drained == Drained(object)
    <3>1. object \in Objects(object.rows, object.start_times_, object.start_time_)
      BY DEF WellMade, Object
    <3>2. drained \in Objects(NoRows, times, clock)
      BY <3>1 DEF Drained
    <3> HIDE DEF drained, times
    <3>3. drained = Object(object.type_, object.type_, NoRows, times, clock)
      BY <3>2 DEF Object
    <3> QED
      BY <3>3 DEF drained
  <2>2. DOMAIN NoRows = {}
    BY DEF NoRows
  <2> HIDE DEF times
  <2> QED
    BY <2>1, <2>2 DEF WellMade, Object
<1>3. ASSUME NEW address \in Nat \ {Null}
      PROVE  LET taken == Converted(object, address) IN
             /\ WellMade(taken) /\ taken.type_ # "kStatsObject"
             /\ DOMAIN taken.rows = DOMAIN object.rows
             /\ \A row \in DOMAIN object.rows :
                  taken.rows[row].merges = object.rows[row].merges
             /\ taken.start_times_ = [row \in DOMAIN object.start_times_ |->
                  NotBefore(object.start_times_[row], clock - kind.duration)]
  <2> DEFINE type == IF kind.aggregation = "distribution" THEN "kDistribution" ELSE "kDouble"
             buckets == IF type = "kDistribution" THEN address ELSE Null
             rows == [row \in DOMAIN object.rows |-> Datum(object.rows[row].merges, buckets)]
             start == clock - kind.duration
             times == [row \in DOMAIN object.start_times_ |->
                         NotBefore(object.start_times_[row], start)]
             taken == Converted(object, address)
  <2>1. taken = Object(type, type, rows, times, NotBefore(object.start_time_, start))
    BY Zenon DEF Converted
  <2>2. /\ DOMAIN rows = DOMAIN object.rows
        /\ \A row \in DOMAIN rows : /\ rows[row].merges = object.rows[row].merges
                                    /\ rows[row].buckets = buckets
    BY DEF Datum
  <2>3. type # "kStatsObject" /\ (buckets # Null <=> type = "kDistribution")
    BY DEF Null
  <2>4. /\ DOMAIN object.rows \subseteq DOMAIN object.start_times_
        /\ DOMAIN times = DOMAIN object.start_times_
    BY DEF WellMade
  <2> HIDE DEF type, buckets, rows, times, taken
  <2>5. /\ taken.type_ = type /\ taken.member = type /\ taken.rows = rows
        /\ taken.start_times_ = times
        /\ taken.start_time_ = NotBefore(object.start_time_, start)
    BY <2>1 DEF Object
  <2>6. WellMade(taken)
    BY <2>1, <2>2, <2>3, <2>4, <2>5 DEF WellMade
  <2> QED
    BY <2>2, <2>3, <2>5, <2>6 DEF taken, times
<1> QED
  BY <1>1, <1>2, <1>3

\* A ViewData shows what it did while its object is kept.
LEMMA ShowsStill ==
  ASSUME NEW d, NEW before, NEW after, Shows(before, d),
         d.impl \in DOMAIN after, after[d.impl] = before[d.impl]
  PROVE  Shows(after, d)
BY DEF Shows

LEMMA ObjectInvStarts == ObjectInit => ObjectInv
<1> SUFFICES ASSUME ObjectInit PROVE ObjectInv
  OBVIOUS
<1> DEFINE type == TypeForDescriptor(kind)
           none == [row \in {} |-> 0]
<1>1. NewObject(0) = Object(type, type, NoRows, none, 0)
  BY Zenon DEF NewObject
<1>2. DOMAIN NoRows = {} /\ DOMAIN none = {}
  BY DEF NoRows
<1> HIDE DEF type, none
<1>3. WellMade(NewObject(0))
  BY <1>1, <1>2 DEF WellMade, Object
<1>4. DOMAIN <<>> = {}
  OBVIOUS
<1>5. DOMAIN heap = {Source} /\ heap[Source] = NewObject(0)
  BY <1>4 DEF WithKey, ObjectInit
<1>6. view_data = {} /\ steps = 0
  BY DEF ObjectInit
<1>7. heap[Source].type_ = TypeForDescriptor(kind)
  BY <1>1, <1>5 DEF Object, type
<1> QED
  BY <1>3, <1>5, <1>6, <1>7 DEF ObjectInv, Source

\* An object is made at a new address, and a ViewData of it.
LEMMA OneMoreViewData ==
  ASSUME ObjectInv, steps' = steps + 1, kind' = kind, NEW made, NEW d, d.impl = Fresh,
         NEW kept, DOMAIN kept = DOMAIN heap,
         Source \in DOMAIN heap => kept[Source].type_ = heap[Source].type_,
         \A a \in DOMAIN heap : WellMade(kept[a]),
         \A a \in DOMAIN heap \ {Source} : kept[a] = heap[a],
         heap' = WithKey(kept, Fresh, made), WellMade(made),
         view_data' = view_data \cup {d}, Shows(heap', d)
  PROVE  ObjectInv'
<1> USE DEF ObjectInv
<1>1. Fresh \notin DOMAIN heap /\ Fresh # Source /\ Fresh = steps + 2
  BY DEF Fresh, Source
<1>2. /\ DOMAIN heap' = DOMAIN heap \cup {Fresh} /\ heap'[Fresh] = made
      /\ \A a \in DOMAIN heap : heap'[a] = kept[a]
  BY <1>1 DEF WithKey, WithoutKey
<1>3. steps' \in Nat /\ DOMAIN heap' \subseteq 1 .. steps' + 1
  BY <1>1, <1>2
<1>4. \A a \in DOMAIN heap' : WellMade(heap'[a])
  BY <1>2
<1>s. Source \in DOMAIN heap' => heap'[Source].type_ = TypeForDescriptor(kind')
  BY <1>1, <1>2
<1>5. ASSUME NEW e \in view_data
      PROVE  Shows(heap', e) /\ e.impl # Fresh
  <2>1. Shows(heap, e) /\ e.impl \in DOMAIN heap /\ e.impl # Source
    BY DEF Shows
  <2>2. e.impl \in DOMAIN heap' /\ heap'[e.impl] = heap[e.impl]
    BY <1>2, <2>1
  <2> QED
    BY <1>1, <2>1, <2>2, ShowsStill
<1> HIDE DEF ObjectInv
<1>6. \A e \in view_data' : Shows(heap', e)
  BY <1>5
<1>7. \A e, f \in view_data' : e.impl = f.impl => e = f
  BY <1>5 DEF ObjectInv
<1> QED
  BY <1>3, <1>4, <1>s, <1>6, <1>7 DEF ObjectInv

\* Objects go, which no ViewData has that is left.
LEMMA OneFewerObject ==
  ASSUME ObjectInv, steps' = steps + 1, kind' = kind, NEW a, heap' = WithoutKey(heap, a),
         view_data' \subseteq view_data, \A d \in view_data' : d.impl # a
  PROVE  ObjectInv'
<1> USE DEF ObjectInv
<1>1. DOMAIN heap' = DOMAIN heap \ {a} /\ \A b \in DOMAIN heap' : heap'[b] = heap[b]
  BY DEF WithKey, WithoutKey
<1>2. ASSUME NEW d \in view_data' PROVE Shows(heap', d)
  <2>1. Shows(heap, d) /\ d.impl \in DOMAIN heap
    BY DEF Shows
  <2> QED
    BY <1>1, <2>1, ShowsStill
<1> QED
  BY <1>1, <1>2

LEMMA ObjectInvIsKept == ObjectInv /\ [ObjectNext]_objectVars => ObjectInv'
<1> SUFFICES ASSUME ObjectInv, [ObjectNext]_objectVars PROVE ObjectInv'
  OBVIOUS
<1>0. /\ steps \in Nat /\ DOMAIN heap \subseteq 1 .. steps + 1
      /\ Source \in DOMAIN heap => heap[Source].type_ = TypeForDescriptor(kind)
      /\ \A a \in DOMAIN heap : WellMade(heap[a])
      /\ \A d \in view_data : Shows(heap, d)
      /\ \A d, e \in view_data : d.impl = e.impl => d = e
  BY DEF ObjectInv
<1>f. Fresh \in Nat \ {Null}
  BY <1>0 DEF Fresh, Null
<1>1. ASSUME NEW row \in TagRows, MergeIntoRow(row) PROVE ObjectInv'
  <2> DEFINE object == heap[Source]
             buckets == IF object.type_ = "kDistribution" THEN Source ELSE Null
             datum == IF row \in DOMAIN object.rows THEN object.rows[row]
                      ELSE Datum(0, buckets)
             rows == WithKey(object.rows, row, Datum(datum.merges + 1, datum.buckets))
             times == IF row \in DOMAIN object.start_times_ THEN object.start_times_
                      ELSE WithKey(object.start_times_, row, clock)
             filled == [object EXCEPT !.rows = rows, !.start_times_ = times]
  <2>1. /\ steps' = steps + 1 /\ Source \in DOMAIN heap /\ view_data' = view_data
        /\ kind' = kind /\ heap' = [heap EXCEPT ![Source] = filled]
    BY <1>1 DEF MergeIntoRow, Step
  <2>2. WellMade(object)
    BY <1>0, <2>1
  <2>3. datum.buckets # Null <=> object.type_ = "kDistribution"
    BY <2>2 DEF WellMade, Datum, Source, Null
  <2>4. rows[row].buckets = datum.buckets
    BY DEF WithKey, Datum
  <2>5. /\ DOMAIN rows = DOMAIN object.rows \cup {row}
        /\ \A r \in DOMAIN object.rows \ {row} : rows[r] = object.rows[r]
    BY DEF WithKey, WithoutKey
  <2>6. DOMAIN times = DOMAIN object.start_times_ \cup {row}
    BY DEF WithKey, WithoutKey
  <2> HIDE DEF rows, times, datum
  <2>7. filled = Object(object.type_, object.type_, rows, times, object.start_time_)
    BY <2>2, FieldsAssigned
  <2>8. /\ filled.type_ = object.type_ /\ filled.rows = rows
        /\ filled.start_times_ = times /\ filled.start_time_ = object.start_time_
    BY <2>7 DEF Object
  <2>t. filled.type_ = TypeForDescriptor(kind)
    BY <1>0, <2>1, <2>8
  <2> HIDE DEF filled, object
  <2>9. WellMade(filled)
    BY <2>2, <2>3, <2>4, <2>5, <2>6, <2>7, <2>8 DEF WellMade
  <2>10. DOMAIN heap' = DOMAIN heap /\ heap'[Source] = filled
         /\ \A a \in DOMAIN heap \ {Source} : heap'[a] = heap[a]
    BY <2>1
  <2>11. ASSUME NEW d \in view_data PROVE Shows(heap', d)
    <3>1. Shows(heap, d) /\ d.impl \in DOMAIN heap /\ d.impl # Source
      BY <1>0 DEF Shows
    <3> QED
      BY <2>10, <3>1, ShowsStill
  <2> QED
    <3>1. steps' \in Nat /\ DOMAIN heap' \subseteq 1 .. steps' + 1
      BY <1>0, <2>1, <2>10
    <3>2. \A a \in DOMAIN heap' : WellMade(heap'[a])
      BY <1>0, <2>9, <2>10
    <3>3. heap'[Source].type_ = TypeForDescriptor(kind')
      BY <2>1, <2>t, <2>10
    <3> QED
      BY <1>0, <2>1, <2>11, <3>1, <3>2, <3>3 DEF ObjectInv
<1>2. ASSUME GetData PROVE ObjectInv'
  <2> DEFINE object == heap[Source]
             delta == object.type_ # "kStatsObject" /\ kind.window = "delta"
             taken == IF object.type_ = "kStatsObject" THEN Converted(object, Fresh)
                      ELSE IF delta THEN Swapped(object) ELSE CopyOf(object)
             kept == IF delta THEN [heap EXCEPT ![Source] = Drained(object)] ELSE heap
             d == [impl |-> Fresh, end_time_ |-> clock, view |-> kind, made |-> clock,
                   rows |-> object.rows, times |-> object.start_times_]
  <2>1. /\ steps' = steps + 1 /\ Source \in DOMAIN heap /\ kind' = kind
        /\ heap' = WithKey(kept, Fresh, taken) /\ view_data' = view_data \cup {d}
    BY <1>2 DEF GetData, Step
  <2>2. WellMade(object) /\ object.type_ = TypeForDescriptor(kind)
    BY <1>0, <2>1
  <2>3. /\ WellMade(taken) /\ taken.type_ # "kStatsObject"
        /\ DOMAIN taken.rows = DOMAIN object.rows
        /\ \A row \in DOMAIN object.rows :
             /\ taken.rows[row].merges = object.rows[row].merges
             /\ taken.start_times_[row] = ShownFrom(d, row)
    <3>1. CASE object.type_ = "kStatsObject"
      <4>1. taken = Converted(object, Fresh)
        BY <3>1
      <4>2. /\ d.times = object.start_times_ /\ d.made = clock /\ d.view = kind
            /\ DOMAIN object.rows \subseteq DOMAIN object.start_times_
        BY <2>2 DEF WellMade
      <4> HIDE DEF taken, object, d
      <4>3. /\ WellMade(taken) /\ taken.type_ # "kStatsObject"
            /\ DOMAIN taken.rows = DOMAIN object.rows
            /\ \A row \in DOMAIN object.rows : taken.rows[row].merges = object.rows[row].merges
            /\ taken.start_times_ = [row \in DOMAIN object.start_times_ |->
                 NotBefore(object.start_times_[row], clock - kind.duration)]
        BY <1>f, <2>2, <4>1, MadeOfWellMade
      <4>4. \A row \in DOMAIN object.rows : taken.start_times_[row] = ShownFrom(d, row)
        BY <2>2, <3>1, <4>2, <4>3 DEF ShownFrom
      <4> QED
        BY <4>3, <4>4
    <3>2. CASE object.type_ # "kStatsObject"
      <4>1. taken = object
        BY <2>2, <3>2, MadeOfWellMade
      <4>2. d.times = object.start_times_ /\ d.view = kind
        OBVIOUS
      <4> HIDE DEF taken, object, d
      <4>3. \A row \in DOMAIN object.rows : taken.start_times_[row] = ShownFrom(d, row)
        BY <2>2, <3>2, <4>1, <4>2 DEF ShownFrom
      <4> QED
        BY <2>2, <3>2, <4>1, <4>3
    <3> QED
      BY <3>1, <3>2
  <2>4. /\ DOMAIN kept = DOMAIN heap
        /\ \A a \in DOMAIN heap : WellMade(kept[a])
        /\ \A a \in DOMAIN heap \ {Source} : kept[a] = heap[a]
        /\ kept[Source].type_ = heap[Source].type_
    <3>1. WellMade(Drained(object)) /\ Drained(object).type_ = object.type_
      BY <2>2, MadeOfWellMade
    <3>2. object = heap[Source]
      OBVIOUS
    <3> HIDE DEF object
    <3> QED
      BY <1>0, <2>1, <3>1, <3>2
  <2>5. Fresh # Source
    BY <1>0 DEF Fresh, Source
  <2>6. d.impl = Fresh /\ d.rows = object.rows /\ d.times = object.start_times_
    OBVIOUS
  <2>7. d = [impl |-> d.impl, end_time_ |-> d.end_time_, view |-> d.view, made |-> d.made,
             rows |-> d.rows, times |-> d.times]
    OBVIOUS
  <2> HIDE DEF taken, kept, d, object
  <2>8. Fresh \in DOMAIN heap' /\ heap'[Fresh] = taken
    BY <2>1 DEF WithKey, WithoutKey
  <2>9. Shows(heap', d)
    BY <2>3, <2>5, <2>6, <2>7, <2>8 DEF Shows
  <2> QED
    BY <2>1, <2>3, <2>4, <2>6, <2>9, OneMoreViewData
<1>3. ASSUME NEW d \in view_data, CopyViewData(d) PROVE ObjectInv'
  <2> DEFINE copy == [d EXCEPT !.impl = Fresh, !.end_time_ = clock]
             object == heap[d.impl]
  <2>1. /\ steps' = steps + 1 /\ kind' = kind /\ heap' = WithKey(heap, Fresh, CopyOf(object))
        /\ view_data' = view_data \cup {copy}
    BY <1>3 DEF CopyViewData, Step
  <2>2. Shows(heap, d) /\ d.impl \in DOMAIN heap /\ WellMade(object)
    BY <1>0 DEF Shows
  <2>3. CopyOf(object) = object
    BY <2>2, MadeOfWellMade
  <2>4. copy = [impl |-> Fresh, end_time_ |-> clock, view |-> d.view, made |-> d.made,
                rows |-> d.rows, times |-> d.times]
    <3>1. d = [impl |-> d.impl, end_time_ |-> d.end_time_, view |-> d.view, made |-> d.made,
               rows |-> d.rows, times |-> d.times]
      BY <2>2, Zenon DEF Shows
    <3> QED
      BY <3>1, CopiedWith, Zenon
  <2>5. Fresh # Source
    BY <1>0 DEF Fresh, Source
  <2> HIDE DEF copy
  <2>6. /\ copy.impl = Fresh /\ copy.end_time_ = clock
        /\ copy.rows = d.rows /\ copy.times = d.times
        /\ copy.view = d.view /\ copy.made = d.made
        /\ \A row \in DOMAIN d.rows : ShownFrom(copy, row) = ShownFrom(d, row)
    BY <2>4 DEF ShownFrom
  <2>7. Fresh \in DOMAIN heap' /\ heap'[Fresh] = object
    BY <2>1, <2>3 DEF WithKey, WithoutKey
  <2>8. Shows(heap', copy)
    BY <2>2, <2>4, <2>5, <2>6, <2>7 DEF Shows
  <2> HIDE DEF object
  <2> QED
    BY <1>0, <2>1, <2>2, <2>3, <2>6, <2>8, OneMoreViewData
<1>4. ASSUME NEW d \in view_data, DestroyViewData(d) PROVE ObjectInv'
  <2>1. /\ steps' = steps + 1 /\ kind' = kind
        /\ heap' = WithoutKey(heap, d.impl) /\ view_data' = view_data \ {d}
    BY <1>4 DEF DestroyViewData, Step
  <2>2. \A e \in view_data' : e.impl # d.impl
    BY <1>0, <2>1
  <2> QED
    BY <2>1, <2>2, OneFewerObject
<1>5. ASSUME RemoveView PROVE ObjectInv'
  <2>1. /\ steps' = steps + 1 /\ kind' = kind
        /\ heap' = WithoutKey(heap, Source) /\ view_data' = view_data
    BY <1>5 DEF RemoveView, Step
  <2>2. \A e \in view_data' : e.impl # Source
    BY <1>0, <2>1 DEF Shows
  <2> QED
    BY <2>1, <2>2, OneFewerObject
<1>6. CASE TimePasses
  BY <1>0, <1>6 DEF TimePasses, Step, ObjectInv
<1>7. CASE UNCHANGED objectVars
  BY <1>0, <1>7 DEF objectVars, ObjectInv
<1> QED
  BY <1>1, <1>2, <1>3, <1>4, <1>5, <1>6, <1>7, Zenon DEF ObjectNext

\* What is printed of a ViewData is what the view held.
LEMMA PrintedIs ==
  ASSUME NEW d, Shows(heap, d)
  PROVE  Printed(d) = {[row |-> row, from |-> ShownFrom(d, row), to |-> d.end_time_,
                        merges |-> d.rows[row].merges] : row \in DOMAIN d.rows}
<1> DEFINE object == heap[d.impl]
           line(row) == [row |-> row, from |-> object.start_times_[row], to |-> d.end_time_,
                         merges |-> object.rows[row].merges]
           held(row) == [row |-> row, from |-> ShownFrom(d, row), to |-> d.end_time_,
                         merges |-> d.rows[row].merges]
<1>1. Printed(d) = {line(row) : row \in DOMAIN object.rows}
  BY Zenon DEF Printed, Accessible
<1>2. DOMAIN object.rows = DOMAIN d.rows /\ \A row \in DOMAIN d.rows : line(row) = held(row)
  BY DEF Shows
<1> HIDE DEF object, line
<1>3. \A row \in DOMAIN d.rows : line(row) = held(row)
  BY <1>2
<1> HIDE DEF held
<1>4. Printed(d) = {held(row) : row \in DOMAIN d.rows}
  BY <1>1, <1>2, <1>3
<1> QED
  BY <1>4 DEF held

LEMMA ObjectInvKeeps == ObjectInv => ObjectsKept
<1> SUFFICES ASSUME ObjectInv PROVE ObjectsKept
  OBVIOUS
<1> USE DEF ObjectInv
<1>1. ASSUME NEW a \in DOMAIN heap
      PROVE  /\ heap[a].member = heap[a].type_
             /\ \A row \in DOMAIN heap[a].rows :
                  heap[a].rows[row].buckets # Null <=> heap[a].type_ = "kDistribution"
  <2>1. WellMade(heap[a])
    OBVIOUS
  <2> QED
    BY <2>1 DEF WellMade, Object
<1>2. ASSUME NEW d \in view_data
      PROVE  /\ d.impl \in DOMAIN heap /\ heap[d.impl].type_ # "kStatsObject"
             /\ DOMAIN d.rows \subseteq DOMAIN heap[d.impl].start_times_
             /\ Printed(d) = {[row |-> row, from |-> ShownFrom(d, row), to |-> d.end_time_,
                               merges |-> d.rows[row].merges] : row \in DOMAIN d.rows}
  <2>1. Shows(heap, d) /\ WellMade(heap[d.impl])
    BY DEF Shows
  <2>2. /\ d.impl \in DOMAIN heap /\ heap[d.impl].type_ # "kStatsObject"
        /\ DOMAIN d.rows \subseteq DOMAIN heap[d.impl].start_times_
    BY <2>1 DEF Shows, WellMade
  <2> QED
    BY <2>1, <2>2, PrintedIs
<1> QED
  BY <1>1, <1>2 DEF ObjectsKept

\* Whatever views are merged into, read, copied and destroyed, in any order: each object
\* has the member of its type, and each ViewData goes on showing what the view held when
\* it was made, each row from the time it had then, or from the start of the interval
\* that an interval view was shown for.
THEOREM ObjectsAlwaysKept == ObjectSpec => []ObjectsKept
<1>1. ObjectInit => ObjectInv
  BY ObjectInvStarts
<1>2. ObjectInv /\ [ObjectNext]_objectVars => ObjectInv'
  BY ObjectInvIsKept
<1>3. ObjectInv => ObjectsKept
  BY ObjectInvKeeps
<1> QED
  BY <1>1, <1>2, <1>3, PTL DEF ObjectSpec
=============================================================================
