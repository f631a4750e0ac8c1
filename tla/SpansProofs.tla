---------------------------- MODULE SpansProofs ----------------------------
(***************************************************************************)
(* Theorems about Spans, for every set of threads, spans, keys and limits. *)
(***************************************************************************)
EXTENDS SpansProperties, SequenceTheorems, FiniteSetTheorems, TLAPS

----------------------------------------------------------------------------
\* The inductive invariant.

Ending == {"remove", "store", "export"}

FiledSpans == {filed[i].span : i \in DOMAIN filed}

\* Which spans there are; a span that has ended was handed out by StartSpan.
Exists ==
  /\ known \subseteq started /\ DOMAIN impl \subseteq started /\ started \subseteq SpanIds
  /\ \A s \in DOMAIN impl :
       /\ "has_ended" \in DOMAIN impl[s] /\ impl[s].has_ended \in BOOLEAN
       /\ impl[s].has_ended => s \in known

\* A thread in StartSpan has a span that nobody else has; a thread in End has one that
\* only it ends.
Owned ==
  /\ pc \in [Threads -> {"idle", "link"} \cup Ending]
  /\ span \in [Threads -> SpanIds \cup {NoSpan}]
  /\ \A t \in Threads :
       /\ pc[t] = "link" => span[t] \in started \ known
       /\ pc[t] \in Ending => span[t] \in DOMAIN impl /\ impl[span[t]].has_ended
  /\ \A t, u \in Threads :
       pc[t] # "idle" /\ pc[u] # "idle" /\ span[t] = span[u] => t = u

\* The running store has the recording spans that have not ended, and those about
\* to be removed.
Running ==
  /\ running_ \subseteq known
  /\ \A s \in known : IsRecording(s) /\ ~impl[s].has_ended => s \in running_
  /\ \A t \in Threads : pc[t] \in {"store", "export"} => span[t] \notin running_

\* A span is filed in the third step of its end and handed over in the fourth.
Filed ==
  /\ filed \in Seq(Range(filed)) /\ handed \in Seq(SpanIds)
  /\ \A s \in FiledSpans :
       /\ s \in DOMAIN impl /\ impl[s].has_ended /\ s \notin running_
       /\ \A t \in Threads : pc[t] \in {"remove", "store"} => span[t] # s
  /\ \A s \in Range(handed) :
       s \in FiledSpans /\ \A t \in Threads : pc[t] = "export" => span[t] # s
  /\ \A t \in Threads : pc[t] = "export" => span[t] \in FiledSpans

SpansInv == Exists /\ Owned /\ Running /\ Filed /\ EndedOnce

\* At the start there are no spans.
LEMMA SpansInit == Init => SpansInv
<1> SUFFICES ASSUME Init PROVE SpansInv
  OBVIOUS
<1> USE DEF Init
<1>1. Exists /\ Owned /\ Running
  <2>1. DOMAIN impl = {} /\ \A t \in Threads : pc[t] = "idle"
    OBVIOUS
  <2>2. Exists
    BY <2>1 DEF Exists
  <2>3. Owned
    BY <2>1 DEF Owned, Ending
  <2>4. Running
    BY <2>1 DEF Running
  <2> QED
    BY <2>2, <2>3, <2>4
<1>2. FiledSpans = {} /\ Range(handed) = {} /\ filed \in Seq(Range(filed)) /\ handed \in Seq(SpanIds)
  BY DEF FiledSpans, Range
<1>3. Filed
  BY <1>2 DEF Filed
<1>4. EndedOnce
  BY <1>2 DEF EndedOnce, IsInjective, FiledSpans
<1> QED
  BY <1>1, <1>3, <1>4 DEF SpansInv

----------------------------------------------------------------------------
\* What the steps do to a span's SpanImpl.

\* A change of a span's contents, by the program, changes neither which spans there are
\* nor whether they have ended, and nothing of one that has.
ContentsOnly ==
  /\ DOMAIN impl' = DOMAIN impl
  /\ \A s \in DOMAIN impl :
       /\ "has_ended" \in DOMAIN impl'[s] /\ impl'[s].has_ended = impl[s].has_ended
       /\ impl[s].has_ended => impl'[s] = impl[s]

LEMMA ChangeContents ==
  ASSUME SpansInv, NEW t \in Threads, NEW s,
         \/ \E queue \in Queues : AddEventTo(t, s, queue)
         \/ \E key \in Keys : AddAttributes(t, s, key)
         \/ SetStatus(t, s)
         \/ SetName(t, s)
  PROVE  /\ ContentsOnly /\ s \in DOMAIN impl
         /\ UNCHANGED <<started, limits, known, stores, locals, handed>>
<1>1. s \in DOMAIN impl /\ UNCHANGED <<started, limits, known, stores, locals, handed>>
  BY DEF AddEventTo, AddAttributes, SetStatus, SetName, Change, IsRecording
<1>2. \A x \in DOMAIN impl : "has_ended" \in DOMAIN impl[x]
  BY DEF SpansInv, Exists
<1>3. ASSUME NEW queue \in Queues, AddEventTo(t, s, queue)
      PROVE  ContentsOnly
  BY <1>1, <1>2, <1>3 DEF AddEventTo, WithEvent, Queues, ContentsOnly
<1>4. ASSUME NEW key \in Keys, AddAttributes(t, s, key)
      PROVE  ContentsOnly
  BY <1>1, <1>2, <1>4 DEF AddAttributes, ContentsOnly
<1>5. CASE SetStatus(t, s) \/ SetName(t, s)
  BY <1>1, <1>2, <1>5 DEF SetStatus, SetName, ContentsOnly
<1> QED
  BY <1>1, <1>3, <1>4, <1>5

\* A link is added to the span that is being started, which cannot have ended, or to a
\* parent that has not.
LEMMA LinkContents ==
  ASSUME SpansInv, NEW t \in Threads, Link(t)
  PROVE  ContentsOnly
<1>1. \A x \in DOMAIN impl : "has_ended" \in DOMAIN impl[x]
  BY DEF SpansInv, Exists
<1>2. span[t] \notin known /\ \A x \in DOMAIN impl : impl[x].has_ended => x \in known
  BY DEF Link, SpansInv, Owned, Exists
<1> QED
  BY <1>1, <1>2 DEF Link, ContentsOnly, IsRecording

----------------------------------------------------------------------------
\* Every step preserves the invariant.

\* A step that changes only what spans contain.
LEMMA ContentsKeep ==
  ASSUME SpansInv, ContentsOnly,
         UNCHANGED <<started, known, running_, filed, handed, pc, span>>
  PROVE  SpansInv'
<1> USE DEF SpansInv, ContentsOnly
<1>1. Exists'
  BY DEF Exists
<1>2. Owned'
  BY DEF Owned
<1>3. Running'
  BY DEF Running, IsRecording
<1>4. FiledSpans' = FiledSpans
  BY DEF FiledSpans
<1>5. Filed'
  BY <1>4 DEF Filed
<1>6. EndedOnce'
  BY DEF EndedOnce
<1> QED
  BY <1>1, <1>2, <1>3, <1>5, <1>6

\* A span is new: nobody has it but the thread that starts it.
LEMMA StartSpanKeeps ==
  ASSUME SpansInv, NEW t \in Threads, NEW s \in SpanIds, NEW parent, NEW sampled \in BOOLEAN,
         NEW params, NEW parents, StartSpan(t, s, parent, sampled, params, parents)
  PROVE  SpansInv' /\ \A x \in DOMAIN impl : x \in DOMAIN impl' /\ impl'[x] = impl[x]
<1> USE DEF SpansInv
<1>1. /\ s \notin started /\ started' = started \cup {s} /\ s \notin DOMAIN impl /\ s \notin known
      /\ pc[t] = "idle" /\ pc' = [pc EXCEPT ![t] = "link"] /\ span' = [span EXCEPT ![t] = s]
      /\ UNCHANGED <<known, running_, filed, handed>>
  BY DEF StartSpan, Goto, stores, Exists
<1>2. /\ DOMAIN impl' \subseteq DOMAIN impl \cup {s} /\ DOMAIN impl \subseteq DOMAIN impl'
      /\ \A x \in DOMAIN impl : impl'[x] = impl[x]
      /\ s \in DOMAIN impl' => "has_ended" \in DOMAIN impl'[s] /\ impl'[s].has_ended = FALSE
  BY <1>1 DEF StartSpan, Extend, NewSpanImpl
<1>3. Exists'
  BY <1>1, <1>2 DEF Exists
<1>4. \A u \in Threads : pc[u] # "idle" => span[u] \in started
  BY DEF Owned, Exists, Ending
<1>5. Owned'
  <2>1. /\ pc' \in [Threads -> {"idle", "link"} \cup Ending]
        /\ span' \in [Threads -> SpanIds \cup {NoSpan}]
    BY <1>1 DEF Owned
  <2>2. \A u \in Threads :
          /\ pc'[u] = "link" => span'[u] \in started' \ known'
          /\ pc'[u] \in Ending => span'[u] \in DOMAIN impl' /\ impl'[span'[u]].has_ended
    BY <1>1, <1>2 DEF Owned, Ending
  <2>3. \A u, v \in Threads :
          pc'[u] # "idle" /\ pc'[v] # "idle" /\ span'[u] = span'[v] => u = v
    BY <1>1, <1>4 DEF Owned
  <2> QED
    BY <2>1, <2>2, <2>3 DEF Owned
<1>6. Running'
  BY <1>1, <1>2 DEF Running, Owned, IsRecording
<1>7. FiledSpans' = FiledSpans
  BY <1>1 DEF FiledSpans
<1>8. Filed'
  <2>1. \A u \in Threads : pc'[u] \in Ending => pc'[u] = pc[u] /\ span'[u] = span[u]
    BY <1>1 DEF Owned, Ending
  <2> QED
    BY <1>1, <1>2, <1>7, <2>1 DEF Filed, Ending
<1>9. EndedOnce'
  BY <1>1 DEF EndedOnce
<1> QED
  BY <1>2, <1>3, <1>5, <1>6, <1>8, <1>9

\* The new span is given to the program, and is running.
LEMMA StartedKeeps ==
  ASSUME SpansInv, NEW t \in Threads, Started(t)
  PROVE  SpansInv' /\ impl' = impl
<1> USE DEF SpansInv
<1> DEFINE s == span[t]
<1>1. /\ s \in started \ known /\ started \subseteq SpanIds
      /\ known' = known \cup {s} /\ running_' = Tracked(s)
      /\ pc[t] = "link" /\ pc' = [pc EXCEPT ![t] = "idle"]
      /\ span' = [span EXCEPT ![t] = NoSpan]
      /\ UNCHANGED <<impl, started, filed, handed>>
  BY DEF Started, Goto, Owned, Exists
<1>2. s \in DOMAIN impl => ~ impl[s].has_ended
  BY <1>1 DEF Exists
<1> HIDE DEF s
<1>3. Exists'
  BY <1>1 DEF Exists
<1>4. \A u \in Threads : u # t /\ pc[u] # "idle" => span[u] # s
  BY <1>1 DEF Owned, s
<1>5. Owned'
  BY <1>1, <1>4 DEF Owned, Ending
<1>6. Running'
  BY <1>1, <1>2, <1>4 DEF Running, Owned, Tracked, IsRecording
<1>7. FiledSpans' = FiledSpans
  BY <1>1 DEF FiledSpans
<1>8. Filed'
  <2>1. s \notin FiledSpans
    BY <1>2 DEF Filed
  <2>2. running_' \subseteq running_ \cup {s}
    BY <1>1 DEF Tracked
  <2>3. \A u \in Threads : pc'[u] \in Ending => pc'[u] = pc[u] /\ span'[u] = span[u]
    BY <1>1 DEF Owned, Ending
  <2> QED
    BY <1>1, <1>7, <2>1, <2>2, <2>3 DEF Filed, Ending
<1>9. EndedOnce'
  BY <1>1 DEF EndedOnce
<1> QED
  BY <1>1, <1>3, <1>5, <1>6, <1>8, <1>9

\* The first End takes the span; others find that it has ended.
LEMMA EndKeeps ==
  ASSUME SpansInv, NEW t \in Threads, NEW s, End(t, s)
  PROVE  /\ SpansInv' /\ DOMAIN impl' = DOMAIN impl
         /\ \A x \in DOMAIN impl : impl[x].has_ended => impl'[x] = impl[x]
<1> USE DEF SpansInv
<1>1. /\ s \in known /\ s \in SpanIds /\ s \in DOMAIN impl /\ ~ impl[s].has_ended
      /\ pc[t] = "idle" /\ pc' = [pc EXCEPT ![t] = "remove"] /\ span' = [span EXCEPT ![t] = s]
      /\ UNCHANGED <<started, known, running_, filed, handed>>
  BY DEF End, Goto, IsRecording, stores, Exists
<1>2. /\ DOMAIN impl' = DOMAIN impl
      /\ \A x \in DOMAIN impl : x # s => impl'[x] = impl[x]
      /\ "has_ended" \in DOMAIN impl'[s] /\ impl'[s].has_ended = TRUE
  BY <1>1 DEF End, Exists
<1>3. Exists'
  BY <1>1, <1>2 DEF Exists
<1>4. \A u \in Threads : pc[u] # "idle" => span[u] # s
  BY <1>1 DEF Owned, Ending
<1>5. Owned'
  BY <1>1, <1>2, <1>4 DEF Owned, Ending
<1>6. Running'
  BY <1>1, <1>2 DEF Running, Owned, IsRecording
<1>7. FiledSpans' = FiledSpans
  BY <1>1 DEF FiledSpans
<1>8. Filed'
  <2>1. s \notin FiledSpans
    BY <1>1 DEF Filed
  <2>2. \A u \in Threads : u # t => pc'[u] = pc[u] /\ span'[u] = span[u]
    BY <1>1 DEF Owned
  <2>3. pc'[t] = "remove" /\ span'[t] = s
    BY <1>1 DEF Owned
  <2>4. \A x \in FiledSpans : /\ x \in DOMAIN impl' /\ impl'[x].has_ended /\ x \notin running_'
                              /\ \A u \in Threads : pc'[u] \in {"remove", "store"} => span'[u] # x
    BY <1>1, <1>2, <2>1, <2>2, <2>3 DEF Filed
  <2> QED
    BY <1>1, <1>7, <2>2, <2>3, <2>4 DEF Filed
<1>9. EndedOnce'
  BY <1>1 DEF EndedOnce
<1> QED
  BY <1>1, <1>2, <1>3, <1>5, <1>6, <1>8, <1>9

\* The span leaves the running store.
LEMMA RemoveSpanKeeps ==
  ASSUME SpansInv, NEW t \in Threads, RemoveSpan(t)
  PROVE  SpansInv' /\ impl' = impl
<1> USE DEF SpansInv
<1>1. /\ pc[t] = "remove" /\ pc' = [pc EXCEPT ![t] = "store"] /\ running_' = running_ \ {span[t]}
      /\ UNCHANGED <<started, impl, known, filed, handed, span>>
  BY DEF RemoveSpan, Goto, spans
<1>2. Exists'
  BY <1>1 DEF Exists
<1>3. Owned'
  BY <1>1 DEF Owned, Ending
<1>4. Running'
  BY <1>1 DEF Running, Owned, Ending, IsRecording
<1>5. FiledSpans' = FiledSpans
  BY <1>1 DEF FiledSpans
<1>6. Filed'
  BY <1>1, <1>5 DEF Filed, Owned
<1>7. EndedOnce'
  BY <1>1 DEF EndedOnce
<1> QED
  BY <1>1, <1>2, <1>3, <1>4, <1>6, <1>7

\* One more element of a sequence.
LEMMA AppendAny ==
  ASSUME NEW f, f \in Seq(Range(f)), NEW e
  PROVE  /\ Append(f, e) \in Seq(Range(Append(f, e)))
         /\ DOMAIN f = 1 .. Len(f) /\ Len(f) \in Nat
         /\ DOMAIN Append(f, e) = 1 .. Len(f) + 1
         /\ \A i \in 1 .. Len(f) : Append(f, e)[i] = f[i]
         /\ Append(f, e)[Len(f) + 1] = e
<1> DEFINE S == Range(f) \cup {e}
<1>1. f \in Seq(S)
  BY SeqMonotonic, Range(f) \subseteq S
<1> HIDE DEF S
<1>2. e \in S
  BY DEF S
<1> DEFINE g == Append(f, e)
<1>3. /\ g \in Seq(S) /\ DOMAIN f = 1 .. Len(f) /\ Len(f) \in Nat
      /\ Len(g) = Len(f) + 1 /\ DOMAIN g = 1 .. Len(f) + 1
      /\ \A i \in 1 .. Len(f) : g[i] = f[i]
      /\ g[Len(f) + 1] = e
  BY <1>1, <1>2
<1> HIDE DEF g
<1>4. \A i \in 1 .. Len(g) : g[i] \in Range(g)
  BY <1>3 DEF Range
<1>5. g \in Seq(Range(g))
  BY <1>3, <1>4
<1> QED
  BY <1>3, <1>5 DEF g

\* A copy of the span is filed, for the first time, as no other thread ends it.
LEMMA AddToLocalStoreKeeps ==
  ASSUME SpansInv, NEW t \in Threads, AddToLocalStore(t)
  PROVE  SpansInv' /\ impl' = impl
<1> USE DEF SpansInv
<1> DEFINE s == span[t]
           copy == [span |-> s, data |-> ToSpanData(impl[s])]
<1>1. /\ pc[t] = "store" /\ pc' = [pc EXCEPT ![t] = "export"] /\ filed' = Append(filed, copy)
      /\ UNCHANGED <<started, impl, known, running_, handed, span>>
  BY DEF AddToLocalStore, Goto, spans
<1>2. copy.span = s
  OBVIOUS
<1>3. s \in DOMAIN impl /\ impl[s].has_ended /\ s \notin running_ /\ s \notin FiledSpans
  BY <1>1 DEF Owned, Running, Filed, Ending
<1>4. /\ filed' \in Seq(Range(filed')) /\ DOMAIN filed = 1 .. Len(filed) /\ Len(filed) \in Nat
      /\ DOMAIN filed' = 1 .. Len(filed) + 1
      /\ \A i \in 1 .. Len(filed) : filed'[i] = filed[i]
      /\ filed'[Len(filed) + 1].span = s
  <2> HIDE DEF copy
  <2> QED
    BY <1>1, <1>2, AppendAny DEF Filed
<1>5. FiledSpans' = FiledSpans \cup {s}
  <2> HIDE DEF s
  <2> QED
    BY <1>4 DEF FiledSpans
<1>6. \A u \in Threads : u # t /\ pc[u] # "idle" => span[u] # s
  BY <1>1 DEF Owned
<1> HIDE DEF s, copy
<1>7. Exists' /\ Running'
  BY <1>1, <1>3 DEF Exists, Running, IsRecording, Owned, s
<1>8. Owned'
  BY <1>1 DEF Owned, Ending
<1>9. Filed'
  <2>1. pc'[t] = "export" /\ \A u \in Threads : u # t => pc'[u] = pc[u]
    BY <1>1 DEF Owned
  <2>2. \A x \in FiledSpans' :
          /\ x \in DOMAIN impl /\ impl[x].has_ended /\ x \notin running_
          /\ \A u \in Threads : pc'[u] \in {"remove", "store"} => span[u] # x
    BY <1>3, <1>5, <1>6, <2>1 DEF Filed
  <2>3. \A x \in Range(handed) :
          x \in FiledSpans' /\ \A u \in Threads : pc'[u] = "export" => span[u] # x
    BY <1>3, <1>5, <2>1 DEF Filed, s
  <2>4. \A u \in Threads : pc'[u] = "export" => span[u] \in FiledSpans'
    BY <1>5, <2>1 DEF Filed, s
  <2> QED
    BY <1>1, <1>4, <2>2, <2>3, <2>4 DEF Filed
<1>10. EndedOnce'
  <2>1. IsInjective([i \in DOMAIN filed' |-> filed'[i].span])
    <3>1. \A i \in DOMAIN filed : filed[i].span # s
      BY <1>3 DEF FiledSpans
    <3>2. \A i, j \in DOMAIN filed : filed[i].span = filed[j].span => i = j
      BY DEF EndedOnce, IsInjective
    <3>3. \A i, j \in DOMAIN filed' : filed'[i].span = filed'[j].span => i = j
      BY <1>4, <3>1, <3>2
    <3> QED
      BY <3>3 DEF IsInjective
  <2>2. Range(handed) \subseteq FiledSpans'
    BY <1>5 DEF EndedOnce, FiledSpans
  <2> QED
    BY <1>1, <2>1, <2>2 DEF EndedOnce, FiledSpans
<1> QED
  BY <1>1, <1>7, <1>8, <1>9, <1>10

\* The span is handed over, for the first time.
LEMMA HandToExporterKeeps ==
  ASSUME SpansInv, NEW t \in Threads, HandToExporter(t)
  PROVE  SpansInv' /\ impl' = impl
<1> USE DEF SpansInv
<1> DEFINE s == span[t]
<1>1. /\ pc[t] = "export" /\ pc' = [pc EXCEPT ![t] = "idle"] /\ span' = [span EXCEPT ![t] = NoSpan]
      /\ handed' = Append(handed, s)
      /\ UNCHANGED <<started, impl, known, running_, filed>>
  BY DEF HandToExporter, Goto, spans, stores
<1>2. s \in SpanIds /\ s \in FiledSpans /\ s \notin Range(handed)
  BY <1>1 DEF Owned, Filed, Exists, Ending
<1>3. /\ handed' \in Seq(SpanIds) /\ DOMAIN handed = 1 .. Len(handed) /\ Len(handed) \in Nat
      /\ DOMAIN handed' = 1 .. Len(handed) + 1
      /\ \A i \in 1 .. Len(handed) : handed'[i] = handed[i]
      /\ handed'[Len(handed) + 1] = s
  <2> HIDE DEF s
  <2> QED
    BY <1>1, <1>2 DEF Filed
<1>4. Range(handed') = Range(handed) \cup {s}
  <2> HIDE DEF s
  <2> QED
    BY <1>3 DEF Range
<1>5. \A u \in Threads : u # t /\ pc[u] # "idle" => span[u] # s
  BY <1>1 DEF Owned
<1> HIDE DEF s
<1>6. FiledSpans' = FiledSpans
  BY <1>1 DEF FiledSpans
<1>7. /\ pc'[t] = "idle" /\ \A u \in Threads : u # t => pc'[u] = pc[u] /\ span'[u] = span[u]
  BY <1>1 DEF Owned
<1>8. Exists' /\ Owned' /\ Running'
  <2>1. Exists'
    BY <1>1 DEF Exists
  <2>2. Owned'
    BY <1>1, <1>7 DEF Owned, Ending
  <2>3. Running'
    BY <1>1, <1>7 DEF Running, IsRecording
  <2> QED
    BY <2>1, <2>2, <2>3
<1>9. Filed'
  <2>1. \A x \in FiledSpans :
          /\ x \in DOMAIN impl /\ impl[x].has_ended /\ x \notin running_
          /\ \A u \in Threads : pc'[u] \in {"remove", "store"} => span'[u] # x
    BY <1>7 DEF Filed
  <2>2. \A x \in Range(handed') :
          x \in FiledSpans /\ \A u \in Threads : pc'[u] = "export" => span'[u] # x
    BY <1>2, <1>4, <1>5, <1>7 DEF Filed
  <2>3. \A u \in Threads : pc'[u] = "export" => span'[u] \in FiledSpans
    BY <1>7 DEF Filed
  <2> QED
    BY <1>1, <1>3, <1>6, <2>1, <2>2, <2>3 DEF Filed
<1>10. EndedOnce'
  <2>1. \A i \in DOMAIN handed : handed[i] # s
    BY <1>2 DEF Range
  <2>2. \A i, j \in DOMAIN handed : handed[i] = handed[j] => i = j
    BY DEF EndedOnce, IsInjective
  <2>3. \A i, j \in DOMAIN handed' : handed'[i] = handed'[j] => i = j
    BY <1>3, <2>1, <2>2
  <2>4. IsInjective(handed')
    BY <2>3 DEF IsInjective
  <2>5. Range(handed') \subseteq FiledSpans
    BY <1>2, <1>4 DEF EndedOnce, FiledSpans
  <2> QED
    BY <1>1, <2>4, <2>5 DEF EndedOnce, FiledSpans
<1> QED
  BY <1>1, <1>8, <1>9, <1>10

----------------------------------------------------------------------------
\* The theorems.

\* Every step preserves the invariant, and leaves the spans that have ended alone.
Frozen == \A s \in DOMAIN impl : impl[s].has_ended => impl'[s] = impl[s]

LEMMA SpansStep == SpansInv /\ [Next]_vars => SpansInv' /\ Frozen
<1> SUFFICES ASSUME SpansInv, [Next]_vars PROVE SpansInv' /\ Frozen
  OBVIOUS
<1> USE DEF Frozen
<1>1. ASSUME NEW t \in Threads, NEW s,
             \/ \E queue \in Queues : AddEventTo(t, s, queue)
             \/ \E key \in Keys : AddAttributes(t, s, key)
             \/ SetStatus(t, s)
             \/ SetName(t, s)
      PROVE  SpansInv' /\ Frozen
  <2>1. ContentsOnly /\ UNCHANGED <<started, known, running_, filed, handed, pc, span>>
    BY <1>1, ChangeContents DEF stores, locals
  <2> QED
    BY <2>1, ContentsKeep DEF ContentsOnly
<1>2. ASSUME NEW t \in Threads, Link(t)
      PROVE  SpansInv' /\ Frozen
  <2>1. ContentsOnly /\ UNCHANGED <<started, known, running_, filed, handed, pc, span>>
    BY <1>2, LinkContents DEF Link, stores
  <2> QED
    BY <2>1, ContentsKeep DEF ContentsOnly
<1>3. ASSUME NEW t \in Threads, NEW s \in SpanIds, NEW parent, NEW sampled \in BOOLEAN,
             NEW params, NEW parents, StartSpan(t, s, parent, sampled, params, parents)
      PROVE  SpansInv' /\ Frozen
  BY <1>3, StartSpanKeeps
<1>4. ASSUME NEW t \in Threads, Started(t)
      PROVE  SpansInv' /\ Frozen
  BY <1>4, StartedKeeps
<1>5. ASSUME NEW t \in Threads, NEW s, End(t, s)
      PROVE  SpansInv' /\ Frozen
  BY <1>5, EndKeeps
<1>6. ASSUME NEW t \in Threads, RemoveSpan(t)
      PROVE  SpansInv' /\ Frozen
  BY <1>6, RemoveSpanKeeps
<1>7. ASSUME NEW t \in Threads, AddToLocalStore(t)
      PROVE  SpansInv' /\ Frozen
  BY <1>7, AddToLocalStoreKeeps
<1>8. ASSUME NEW t \in Threads, HandToExporter(t)
      PROVE  SpansInv' /\ Frozen
  BY <1>8, HandToExporterKeeps
<1>9. CASE UNCHANGED vars
  <2>1. ContentsOnly /\ UNCHANGED <<started, known, running_, filed, handed, pc, span>>
    BY <1>9 DEF vars, spans, stores, locals, ContentsOnly, SpansInv, Exists
  <2> QED
    BY <2>1, ContentsKeep DEF ContentsOnly
<1> QED
  BY <1>1, <1>2, <1>3, <1>4, <1>5, <1>6, <1>7, <1>8, <1>9 DEF Next, Call, Continue, EndAgain

\* Which thread owns which span, and where each span is on its way from StartSpan to the
\* exporter, holds in every state.
THEOREM SpansInvariant == Spec => []SpansInv
  BY SpansInit, SpansStep, PTL DEF Spec

\* However many threads call Span::End, a span is filed and handed to the exporter once:
\* SpanImpl::End lets one of them through.
THEOREM EndedOnlyOnce == Spec => []EndedOnce
  BY SpansInvariant, PTL DEF SpansInv

\* The RunningSpanStore has every recording span until its end, and none that the exporter
\* was given.
THEOREM RunningIsTracked == Spec => []RunningTracked
<1>1. SpansInv => RunningTracked
  BY DEF SpansInv, Running, Filed, RunningTracked
<1> QED
  BY <1>1, SpansInvariant, PTL

\* No call changes a span after its end, not even the link that a child adds to it.
THEOREM EndedIsFrozen == Spec => FrozenAfterEnd
<1>1. SpansInv /\ [Next]_vars => [Frozen]_vars
  BY SpansStep
<1> QED
  BY <1>1, SpansInvariant, PTL DEF Spec, FrozenAfterEnd, Frozen

----------------------------------------------------------------------------
\* What a span keeps: the inductive invariant.

\* A suffix, by its elements.
LEMMA SuffixDef ==
  ASSUME NEW S, NEW s \in Seq(S), NEW t \in Seq(S)
  PROVE  IsSuffix(s, t) <=>
           /\ Len(s) <= Len(t)
           /\ \A i \in 1 .. Len(s) : s[i] = t[Len(t) - Len(s) + i]
<1> DEFINE r == Reverse(s)  q == Reverse(t)
<1>1. /\ r \in Seq(S) /\ Len(r) = Len(s)
      /\ \A i \in 1 .. Len(s) : r[i] = s[Len(s) - i + 1]
  BY DEF Reverse
<1>2. /\ q \in Seq(S) /\ Len(q) = Len(t)
      /\ \A i \in 1 .. Len(t) : q[i] = t[Len(t) - i + 1]
  BY DEF Reverse
<1> HIDE DEF r, q
<1>3. IsSuffix(s, t) <=> Len(r) <= Len(q) /\ SubSeq(r, 1, Len(r)) = SubSeq(q, 1, Len(r))
  BY DEF IsSuffix, IsPrefix, r, q
<1>4. SubSeq(r, 1, Len(r)) = r
  BY <1>1, SubSeqFull
<1>5. ASSUME Len(r) <= Len(q)
      PROVE  /\ SubSeq(q, 1, Len(r)) \in Seq(S) /\ Len(SubSeq(q, 1, Len(r))) = Len(r)
             /\ \A i \in 1 .. Len(r) : SubSeq(q, 1, Len(r))[i] = q[i]
  BY <1>1, <1>2, <1>5
<1>6. IsSuffix(s, t) <=> Len(s) <= Len(t) /\ \A i \in 1 .. Len(s) : r[i] = q[i]
  BY <1>1, <1>2, <1>3, <1>4, <1>5, SeqEqual
<1>7. ASSUME Len(s) <= Len(t)
      PROVE  (\A i \in 1 .. Len(s) : r[i] = q[i])
             <=> \A i \in 1 .. Len(s) : s[i] = t[Len(t) - Len(s) + i]
  <2>1. ASSUME \A i \in 1 .. Len(s) : r[i] = q[i], NEW i \in 1 .. Len(s)
        PROVE  s[i] = t[Len(t) - Len(s) + i]
    <3> DEFINE k == Len(s) - i + 1
    <3>1. k \in 1 .. Len(s) /\ Len(s) - k + 1 = i /\ Len(t) - k + 1 = Len(t) - Len(s) + i
      OBVIOUS
    <3> HIDE DEF k
    <3>2. r[k] = s[i]
      BY <1>1, <3>1
    <3>3. k \in 1 .. Len(t)
      BY <1>7, <3>1
    <3>4. q[k] = t[Len(t) - Len(s) + i]
      BY <1>2, <3>1, <3>3
    <3> QED
      BY <2>1, <3>1, <3>2, <3>4
  <2>2. ASSUME \A i \in 1 .. Len(s) : s[i] = t[Len(t) - Len(s) + i], NEW i \in 1 .. Len(s)
        PROVE  r[i] = q[i]
    <3> DEFINE k == Len(s) - i + 1
    <3>1. k \in 1 .. Len(s) /\ Len(t) - i + 1 = Len(t) - Len(s) + k
      OBVIOUS
    <3>2. r[i] = s[k] /\ q[i] = t[Len(t) - Len(s) + k]
      BY <1>1, <1>2, <1>7, <3>1
    <3> HIDE DEF k
    <3> QED
      BY <2>2, <3>1, <3>2
  <2> QED
    BY <2>1, <2>2
<1> QED
  BY <1>6, <1>7

\* What may be added to a queue: an event that the program numbers, or a link of StartSpan.
Items == [type : {"event", "parent", "child"}, id : Nat \cup SpanIds]

\* What is in a sequence that has one element more.
LEMMA AppendRange ==
  ASSUME NEW S, NEW f \in Seq(S), NEW e \in S
  PROVE  Range(Append(f, e)) = Range(f) \cup {e}
<1>1. /\ DOMAIN f = 1 .. Len(f) /\ Len(f) \in Nat /\ DOMAIN Append(f, e) = 1 .. Len(f) + 1
      /\ \A i \in 1 .. Len(f) : Append(f, e)[i] = f[i]
      /\ Append(f, e)[Len(f) + 1] = e
  OBVIOUS
<1>2. \A i \in 1 .. Len(f) + 1 : i = Len(f) + 1 \/ i \in 1 .. Len(f)
  BY <1>1
<1>3. Len(f) + 1 \in 1 .. Len(f) + 1 /\ \A i \in 1 .. Len(f) : i \in 1 .. Len(f) + 1
  BY <1>1
<1> QED
  BY <1>1, <1>2, <1>3 DEF Range

\* The last of the events offered, max at most.
LastOnes(events, offered, max) ==
  /\ Len(events) = IF Len(offered) < max THEN Len(offered) ELSE max
  /\ \A i \in 1 .. Len(events) : events[i] = offered[Len(offered) - Len(events) + i]

\* A queue with limit max keeps the newest of the events offered to it, and counts all.
Newest(queue, offered, max) ==
  /\ queue.events \in Seq(Items) /\ offered \in Seq(Items) /\ max \in Nat
  /\ DOMAIN queue = {"events", "total"}
  /\ queue.total = IF max = 0 THEN 0 ELSE Len(offered)
  /\ LastOnes(queue.events, offered, max)

\* The attribute list with limit max, of the attributes offered to it.
KeysOf(offered) == {offered[i].key : i \in DOMAIN offered}

IsLast(offered, key, value) ==
  \E i \in DOMAIN offered :
    /\ offered[i] = [key |-> key, value |-> value]
    /\ \A j \in i + 1 .. Len(offered) : offered[j].key # key

Attribute == [key : Keys, value : Nat]

LastAttributes(list, offered, max) ==
  LET keys == KeysOf(offered)
      map == list.map
  IN /\ DOMAIN list = {"map", "total"} /\ list.total \in Nat /\ max \in Nat
     /\ offered \in Seq(Attribute)
     /\ IsFiniteSet(DOMAIN map) /\ DOMAIN map \subseteq keys
     /\ \A key \in DOMAIN map : IsLast(offered, key, map[key])
     /\ Cardinality(DOMAIN map) = IF Cardinality(keys) < max THEN Cardinality(keys) ELSE max
     /\ Cardinality(keys) <= max => list.total = Cardinality(DOMAIN map)
     /\ max > 0 => list.total >= Cardinality(DOMAIN map) + Cardinality(keys \ DOMAIN map)

Fields == {"name", "status", "has_ended", "annotations", "message_events", "links", "attributes"}
Parts == Queues \cup {"attributes"}

\* Every SpanImpl has its parts and limits; what has none was offered nothing.
Shaped ==
  /\ DOMAIN limits = DOMAIN impl /\ changes \in Nat
  /\ \A s \in DOMAIN impl : DOMAIN impl[s] = Fields /\ limits[s] \in TraceParams
  /\ DOMAIN attempts = SpanIds
  /\ \A s \in SpanIds : DOMAIN attempts[s] = Parts
  /\ \A s \in SpanIds \ DOMAIN impl : \A q \in Parts : attempts[s][q] = <<>>

QueuesNewest ==
  \A s \in DOMAIN impl, q \in Queues : Newest(impl[s][q], attempts[s][q], limits[s][q])

AttributesLast ==
  \A s \in DOMAIN impl :
    LastAttributes(impl[s].attributes, attempts[s]["attributes"], limits[s]["attributes"])

\* The links that a span and its parent were offered name each other, and spans that there are.
Offers(s, link) == link \in Range(attempts[s]["links"])

LinksOffered ==
  /\ \A s, x \in SpanIds : Offers(s, ParentLink(x)) \/ Offers(s, ChildLink(x)) => x \in started
  /\ \A p, c \in DOMAIN impl :
       /\ Offers(p, ChildLink(c)) => Offers(c, ParentLink(p))
       /\ Offers(c, ParentLink(p)) /\ ~ impl[p].has_ended => Offers(p, ChildLink(c))

\* The parents that a thread is about to link were handed out by StartSpan.
ParentsKnown ==
  DOMAIN links_ = Threads /\ \A t \in Threads : links_[t] \in Seq(known)

KeptInv == Shaped /\ QueuesNewest /\ AttributesLast /\ LinksOffered /\ ParentsKnown

\* One event more, when there is room for it or the oldest one is dropped.
LEMMA LastOnesAppend ==
  ASSUME NEW S, NEW kept \in Seq(S), NEW offered \in Seq(S), NEW e \in S, NEW max \in Nat \ {0},
         Len(kept) <= Len(offered),
         \A i \in 1 .. Len(kept) : kept[i] = offered[Len(offered) - Len(kept) + i],
         Len(kept) + 1 = IF Len(offered) + 1 < max THEN Len(offered) + 1 ELSE max
  PROVE  LastOnes(Append(kept, e), Append(offered, e), max)
<1> DEFINE after == Append(kept, e)
           more  == Append(offered, e)
           k     == Len(kept)
           n     == Len(offered)
<1>1. /\ Len(after) = k + 1 /\ after[k + 1] = e /\ \A i \in 1 .. k : after[i] = kept[i]
      /\ Len(more) = n + 1 /\ more[n + 1] = e /\ \A i \in 1 .. n : more[i] = offered[i]
      /\ k \in Nat /\ n \in Nat /\ k <= n
      /\ \A i \in 1 .. k : kept[i] = offered[n - k + i]
      /\ k + 1 = IF n + 1 < max THEN n + 1 ELSE max
  OBVIOUS
<1> HIDE DEF after, more, k, n
<1>2. ASSUME NEW i \in 1 .. k + 1
      PROVE  after[i] = more[(n + 1) - (k + 1) + i]
  <2>1. (n + 1) - (k + 1) + i = n - k + i
    BY <1>1
  <2>2. CASE i = k + 1
    <3>1. n - k + i = n + 1
      BY <1>1, <2>2
    <3> QED
      BY <1>1, <2>1, <2>2, <3>1
  <2>3. CASE i \in 1 .. k
    <3>1. n - k + i \in 1 .. n
      BY <1>1, <2>3
    <3> QED
      BY <1>1, <2>1, <2>3, <3>1
  <2>4. i = k + 1 \/ i \in 1 .. k
    BY <1>1
  <2> QED
    BY <2>2, <2>3, <2>4
<1>3. LastOnes(after, more, max)
  BY <1>1, <1>2 DEF LastOnes
<1> QED
  BY <1>3 DEF after, more

LEMMA LastOnesMore ==
  ASSUME NEW S, NEW events \in Seq(S), NEW offered \in Seq(S), NEW max \in Nat \ {0}, NEW e \in S,
         LastOnes(events, offered, max)
  PROVE  LastOnes(Append(IF Len(events) >= max THEN Tail(events) ELSE events, e),
                  Append(offered, e), max)
<1>1. Len(offered) \in Nat /\ Len(events) \in Nat
  OBVIOUS
<1>2. CASE Len(events) >= max
  <2> DEFINE tail == Tail(events)
  <2>1. Len(events) = max /\ ~ (Len(offered) < max)
    BY <1>1, <1>2 DEF LastOnes
  <2>2. events # <<>>
    BY <2>1
  <2>3. /\ tail \in Seq(S) /\ Len(tail) = max - 1
        /\ \A i \in 1 .. max - 1 : tail[i] = events[i + 1]
    BY <2>1, <2>2, HeadTailProperties
  <2> HIDE DEF tail
  <2>4. ASSUME NEW i \in 1 .. Len(tail)
        PROVE  tail[i] = offered[Len(offered) - Len(tail) + i]
    <3>1. i + 1 \in 1 .. Len(events) /\ i \in 1 .. max - 1
      BY <2>1, <2>3
    <3>2. Len(offered) - Len(events) + (i + 1) = Len(offered) - Len(tail) + i
      BY <1>1, <2>1, <2>3
    <3>3. events[i + 1] = offered[Len(offered) - Len(events) + (i + 1)]
      BY <3>1 DEF LastOnes
    <3> QED
      BY <2>3, <3>1, <3>2, <3>3
  <2>5. /\ Len(tail) <= Len(offered)
        /\ Len(tail) + 1 = IF Len(offered) + 1 < max THEN Len(offered) + 1 ELSE max
    BY <1>1, <2>1, <2>3
  <2>6. LastOnes(Append(tail, e), Append(offered, e), max)
    BY <2>3, <2>4, <2>5, LastOnesAppend
  <2> QED
    BY <1>2, <2>6 DEF tail
<1>3. CASE ~ (Len(events) >= max)
  <2>1. Len(events) = Len(offered) /\ Len(offered) < max
    BY <1>1, <1>3 DEF LastOnes
  <2>2. /\ Len(events) <= Len(offered)
        /\ Len(events) + 1 = IF Len(offered) + 1 < max THEN Len(offered) + 1 ELSE max
    BY <1>1, <2>1
  <2>3. \A i \in 1 .. Len(events) : events[i] = offered[Len(offered) - Len(events) + i]
    BY DEF LastOnes
  <2>4. LastOnes(Append(events, e), Append(offered, e), max)
    BY <2>2, <2>3, LastOnesAppend
  <2> QED
    BY <1>3, <2>4
<1> QED
  BY <1>2, <1>3

\* AddEvent keeps the newest.
LEMMA AddEventNewest ==
  ASSUME NEW queue, NEW offered, NEW max, Newest(queue, offered, max), NEW e \in Items
  PROVE  Newest(AddEvent(queue, e, max), Append(offered, e), max)
<1> DEFINE more == Append(offered, e)
<1>1. /\ queue.events \in Seq(Items) /\ offered \in Seq(Items) /\ max \in Nat
      /\ DOMAIN queue = {"events", "total"} /\ LastOnes(queue.events, offered, max)
      /\ queue.total = IF max = 0 THEN 0 ELSE Len(offered)
  BY DEF Newest
<1>2. /\ more \in Seq(Items) /\ Len(more) = Len(offered) + 1 /\ Len(offered) \in Nat
  BY <1>1
<1> HIDE DEF more
<1>3. CASE max = 0
  <2>1. AddEvent(queue, e, max) = queue
    BY <1>3 DEF AddEvent
  <2>2. Len(queue.events) = 0
    BY <1>1, <1>2, <1>3 DEF LastOnes
  <2>3. LastOnes(queue.events, more, max)
    BY <1>2, <1>3, <2>2 DEF LastOnes
  <2> QED
    BY <1>1, <1>2, <1>3, <2>1, <2>3 DEF Newest, more
<1>4. CASE max # 0
  <2> DEFINE kept  == IF Len(queue.events) >= max THEN Tail(queue.events) ELSE queue.events
             after == Append(kept, e)
  <2>1. AddEvent(queue, e, max) = [events |-> after, total |-> queue.total + 1]
    BY <1>4 DEF AddEvent
  <2>2. LastOnes(after, more, max)
    BY <1>1, <1>4, LastOnesMore DEF more
  <2>3. kept \in Seq(Items)
    <3>1. CASE Len(queue.events) >= max
      <4>1. queue.events # <<>>
        BY <1>1, <1>4, <3>1
      <4> QED
        BY <1>1, <3>1, <4>1, HeadTailProperties
    <3>2. CASE ~ (Len(queue.events) >= max)
      BY <1>1, <3>2
    <3> QED
      BY <3>1, <3>2
  <2> HIDE DEF kept
  <2>4. after \in Seq(Items)
    BY <2>3
  <2> HIDE DEF after
  <2>5. Newest([events |-> after, total |-> queue.total + 1], more, max)
    BY <1>1, <1>2, <1>4, <2>2, <2>4 DEF Newest
  <2> QED
    BY <2>1, <2>5 DEF more
<1> QED
  BY <1>3, <1>4

\* The keys of a sequence of attributes.
LEMMA KeysFinite ==
  ASSUME NEW offered \in Seq(Attribute)
  PROVE  IsFiniteSet(KeysOf(offered)) /\ Cardinality(KeysOf(offered)) \in Nat
<1>1. IsFiniteSet(1 .. Len(offered))
  BY FS_Interval
<1>2. KeysOf(offered) = {offered[i].key : i \in 1 .. Len(offered)}
  BY DEF KeysOf
<1>3. IsFiniteSet({offered[i].key : i \in 1 .. Len(offered)})
  <2> DEFINE f == [i \in 1 .. Len(offered) |-> offered[i].key]
  <2>1. f \in Surjection(1 .. Len(offered), KeysOf(offered))
    BY <1>2 DEF Surjection
  <2> QED
    BY <1>1, <1>2, <2>1, FS_Surjection
<1> QED
  BY <1>2, <1>3, FS_CardinalityType

\* One attribute more.
LEMMA MoreAttributes ==
  ASSUME NEW offered \in Seq(Attribute), NEW key \in Keys, NEW value \in Nat
  PROVE  LET more == Append(offered, [key |-> key, value |-> value]) IN
         /\ more \in Seq(Attribute)
         /\ KeysOf(more) = KeysOf(offered) \cup {key}
         /\ IsLast(more, key, value)
         /\ \A k, v : k # key /\ IsLast(offered, k, v) => IsLast(more, k, v)
<1> DEFINE a    == [key |-> key, value |-> value]
           more == Append(offered, a)
           n    == Len(offered)
<1>1. a \in Attribute /\ a.key = key
  BY DEF Attribute
<1> HIDE DEF a
<1>2. /\ more \in Seq(Attribute) /\ Len(more) = n + 1 /\ more[n + 1] = a
      /\ n \in Nat /\ DOMAIN more = 1 .. n + 1 /\ DOMAIN offered = 1 .. n
      /\ \A i \in 1 .. n : more[i] = offered[i]
  BY <1>1
<1> HIDE DEF more, n
<1>3. KeysOf(more) = KeysOf(offered) \cup {key}
  <2>1. \A i \in 1 .. n + 1 : i = n + 1 \/ i \in 1 .. n
    BY <1>2
  <2>2. \A i \in 1 .. n : i \in 1 .. n + 1
    BY <1>2
  <2>3. n + 1 \in 1 .. n + 1
    BY <1>2
  <2> QED
    BY <1>1, <1>2, <2>1, <2>2, <2>3 DEF KeysOf
<1>4. IsLast(more, key, value)
  <2>1. n + 1 \in 1 .. n + 1 /\ (n + 1) + 1 .. n + 1 = {}
    BY <1>2
  <2> QED
    BY <1>2, <2>1 DEF IsLast, a
<1>5. ASSUME NEW k, NEW v, k # key, IsLast(offered, k, v)
      PROVE  IsLast(more, k, v)
  <2>1. PICK i \in 1 .. n :
          /\ offered[i] = [key |-> k, value |-> v]
          /\ \A j \in i + 1 .. n : offered[j].key # k
    BY <1>2, <1>5 DEF IsLast, n
  <2>2. i \in DOMAIN more /\ more[i] = [key |-> k, value |-> v]
    BY <1>2, <2>1
  <2>3. ASSUME NEW j \in i + 1 .. n + 1
        PROVE  more[j].key # k
    <3>1. CASE j = n + 1
      BY <1>1, <1>2, <1>5, <3>1
    <3>2. CASE j \in i + 1 .. n
      <4>1. j \in 1 .. n
        BY <1>2, <3>2
      <4> QED
        BY <1>2, <2>1, <3>2, <4>1
    <3> QED
      BY <1>2, <3>1, <3>2
  <2> QED
    BY <1>2, <2>2, <2>3 DEF IsLast
<1> QED
  BY <1>2, <1>3, <1>4, <1>5 DEF more, a

\* AddAttribute keeps the last values, drops only when it is full, and counts what it drops.
LEMMA AddAttributeLast ==
  ASSUME NEW list, NEW offered, NEW max, LastAttributes(list, offered, max),
         NEW key \in Keys, NEW value \in Nat, NEW new \in AddAttribute(list, key, value, max)
  PROVE  LastAttributes(new, Append(offered, [key |-> key, value |-> value]), max)
<1> DEFINE more == Append(offered, [key |-> key, value |-> value])
           map  == list.map
           keys == KeysOf(offered)
           all  == KeysOf(more)
           held == DOMAIN map
<1>1. /\ DOMAIN list = {"map", "total"} /\ list.total \in Nat /\ max \in Nat
      /\ offered \in Seq(Attribute)
      /\ IsFiniteSet(held) /\ held \subseteq keys
      /\ \A k \in held : IsLast(offered, k, map[k])
      /\ Cardinality(held) = IF Cardinality(keys) < max THEN Cardinality(keys) ELSE max
      /\ Cardinality(keys) <= max => list.total = Cardinality(held)
      /\ max > 0 => list.total >= Cardinality(held) + Cardinality(keys \ held)
  BY DEF LastAttributes
<1>2. /\ more \in Seq(Attribute) /\ all = keys \cup {key} /\ IsLast(more, key, value)
      /\ \A k, v : k # key /\ IsLast(offered, k, v) => IsLast(more, k, v)
  BY <1>1, MoreAttributes
<1> HIDE DEF more
<1>3. IsFiniteSet(keys) /\ IsFiniteSet(all)
  BY <1>1, <1>2, KeysFinite
<1> HIDE DEF keys, all
<1>4. /\ Cardinality(keys) \in Nat /\ Cardinality(held) \in Nat
      /\ IsFiniteSet(keys \ held) /\ Cardinality(keys \ held) \in Nat
      /\ Cardinality(all) = IF key \in keys THEN Cardinality(keys) ELSE Cardinality(keys) + 1
  <2>1. key \in keys => all = keys
    BY <1>2
  <2> QED
    BY <1>1, <1>2, <1>3, <2>1, FS_AddElement, FS_CardinalityType, FS_Difference
<1>5. CASE max = 0
  <2>1. new = list
    BY <1>5 DEF AddAttribute
  <2>2. Cardinality(held) = 0 /\ Cardinality(all) >= 1
    <3>1. Cardinality(held) = 0
      BY <1>1, <1>4, <1>5
    <3>2. all # {}
      BY <1>2
    <3> QED
      BY <1>3, <1>4, <3>1, <3>2, FS_EmptySet, FS_CardinalityType
  <2>3. held = {}
    BY <1>1, <2>2, FS_EmptySet
  <2>4. /\ Cardinality(held) = IF Cardinality(all) < max THEN Cardinality(all) ELSE max
        /\ ~ (Cardinality(all) <= max) /\ ~ (max > 0)
    BY <1>4, <1>5, <2>2
  <2>5. held \subseteq all /\ \A k \in held : IsLast(more, k, map[k])
    BY <2>3
  <2>6. LastAttributes(list, more, max)
    BY <1>1, <1>2, <2>4, <2>5 DEF LastAttributes, all
  <2> QED
    BY <2>1, <2>6 DEF more
<1>6. CASE max # 0 /\ key \in held
  <2> DEFINE put == [map EXCEPT ![key] = value]
  <2>1. new = [list EXCEPT !.map = put]
    BY <1>6 DEF AddAttribute
  <2>2. DOMAIN put = held /\ put[key] = value /\ \A k \in held : k # key => put[k] = map[k]
    BY <1>6
  <2> HIDE DEF put
  <2>3. DOMAIN new = {"map", "total"} /\ new.map = put /\ new.total = list.total
    BY <1>1, <2>1
  <2>4. all = keys
    BY <1>1, <1>2, <1>6
  <2>5. \A k \in held : IsLast(more, k, put[k])
    BY <1>1, <1>2, <2>2
  <2> HIDE DEF held
  <2>6. LastAttributes(new, more, max)
    BY <1>1, <1>2, <2>2, <2>3, <2>4, <2>5 DEF LastAttributes, all
  <2> QED
    BY <2>6 DEF more
<1>7. CASE max # 0 /\ key \notin held /\ Cardinality(held) < max
  <2> DEFINE put == Put(map, key, value)
  <2>1. new = [map |-> put, total |-> list.total + 1]
    BY <1>7 DEF AddAttribute
  <2>2. /\ DOMAIN put = held \cup {key} /\ put[key] = value
        /\ \A k \in held : k # key => put[k] = map[k]
    BY DEF Put
  <2> HIDE DEF put
  <2>3. Cardinality(keys) = Cardinality(held)
    BY <1>1, <1>4, <1>7
  <2>4. held = keys
    BY <1>1, <1>3, <2>3, FS_Subset
  <2>5. /\ DOMAIN put = all /\ Cardinality(all) = Cardinality(held) + 1
        /\ Cardinality(all \ DOMAIN put) = 0
    BY <1>2, <1>4, <1>7, <2>2, <2>3, <2>4, FS_EmptySet
  <2>6. \A k \in all : IsLast(more, k, put[k])
    BY <1>1, <1>2, <2>2, <2>4
  <2>7. list.total = Cardinality(held)
    BY <1>1, <1>4, <1>7, <2>3
  <2> HIDE DEF held
  <2>8. LastAttributes([map |-> put, total |-> list.total + 1], more, max)
    BY <1>1, <1>2, <1>3, <1>4, <1>7, <2>5, <2>6, <2>7 DEF LastAttributes, all
  <2> QED
    BY <2>1, <2>8 DEF more
<1>8. CASE max # 0 /\ key \notin held /\ ~ (Cardinality(held) < max)
  <2>1. PICK victim \in held :
          new = [map |-> Put([k \in held \ {victim} |-> map[k]], key, value),
                 total |-> list.total + 1]
    BY <1>8 DEF AddAttribute
  <2> DEFINE put == Put([k \in held \ {victim} |-> map[k]], key, value)
  <2>2. /\ DOMAIN put = (held \ {victim}) \cup {key} /\ put[key] = value
        /\ \A k \in held \ {victim} : put[k] = map[k]
    BY <1>8 DEF Put
  <2> HIDE DEF put
  <2>3. Cardinality(held) = max /\ max <= Cardinality(keys)
    BY <1>1, <1>4, <1>8
  <2>4. IsFiniteSet(DOMAIN put) /\ Cardinality(DOMAIN put) = max
    <3>1. IsFiniteSet(held \ {victim}) /\ Cardinality(held \ {victim}) = max - 1
      BY <1>1, <2>1, <2>3, FS_RemoveElement
    <3>2. key \notin held \ {victim}
      BY <1>8
    <3>3. Cardinality(DOMAIN put) = Cardinality(held \ {victim}) + 1 /\ IsFiniteSet(DOMAIN put)
      BY <2>2, <3>1, <3>2, FS_AddElement
    <3> QED
      BY <1>1, <3>1, <3>3
  <2>5. DOMAIN put \subseteq all /\ \A k \in DOMAIN put : IsLast(more, k, put[k])
    BY <1>1, <1>2, <1>8, <2>2
  <2>6. Cardinality(all) > max
    <3>1. CASE key \in keys
      <4>1. Cardinality(keys) # Cardinality(held)
        BY <1>1, <1>3, <1>8, <3>1, FS_Subset
      <4> QED
        BY <1>1, <1>4, <2>3, <3>1, <4>1
    <3>2. CASE key \notin keys
      BY <1>1, <1>4, <2>3, <3>2
    <3> QED
      BY <3>1, <3>2
  <2>7. /\ Cardinality(all \ DOMAIN put) \in Nat
        /\ Cardinality(all \ DOMAIN put) <= Cardinality(keys \ held) + 1
    <3> DEFINE left == (keys \ held) \cup {victim}
    <3>1. all \ DOMAIN put \subseteq left
      BY <1>2, <2>2
    <3>2. IsFiniteSet(left) /\ Cardinality(left) = Cardinality(keys \ held) + 1
      <4>1. victim \notin keys \ held
        BY <2>1
      <4> QED
        BY <1>4, <4>1, FS_AddElement
    <3> HIDE DEF left
    <3> QED
      BY <3>1, <3>2, FS_Subset, FS_CardinalityType
  <2> HIDE DEF held
  <2>8. LastAttributes([map |-> put, total |-> list.total + 1], more, max)
    BY <1>1, <1>2, <1>3, <1>4, <1>8, <2>3, <2>4, <2>5, <2>6, <2>7 DEF LastAttributes, all
  <2> QED
    BY <2>1, <2>8 DEF more, put
<1> QED
  BY <1>5, <1>6, <1>7, <1>8

\* At the end: what SpansProperties says follows from the invariant.
LEMMA NewestKept == ASSUME KeptInv PROVE EventsAreNewest
<1> SUFFICES ASSUME NEW s \in DOMAIN impl, NEW q \in Queues
             PROVE  LET max == limits[s][q]
                        offered == attempts[s][q]
                        kept == impl[s][q].events
                    IN /\ Len(kept) = IF Len(offered) < max THEN Len(offered) ELSE max
                       /\ IsSuffix(kept, offered)
                       /\ NumEventsDropped(impl[s][q]) =
                            IF max = 0 THEN 0 ELSE Len(offered) - Len(kept)
  BY DEF EventsAreNewest
<1> DEFINE max == limits[s][q]
           offered == attempts[s][q]
           kept == impl[s][q].events
           total == impl[s][q].total
<1>1. /\ kept \in Seq(Items) /\ offered \in Seq(Items) /\ max \in Nat
      /\ total = IF max = 0 THEN 0 ELSE Len(offered)
      /\ Len(kept) = IF Len(offered) < max THEN Len(offered) ELSE max
      /\ \A i \in 1 .. Len(kept) : kept[i] = offered[Len(offered) - Len(kept) + i]
  BY DEF KeptInv, QueuesNewest, Newest, LastOnes
<1>2. NumEventsDropped(impl[s][q]) = total - Len(kept)
  BY DEF NumEventsDropped
<1> HIDE DEF max, offered, kept, total
<1>3. Len(kept) \in Nat /\ Len(offered) \in Nat /\ Len(kept) <= Len(offered)
  BY <1>1
<1>4. IsSuffix(kept, offered)
  BY <1>1, <1>3, SuffixDef
<1>5. total - Len(kept) = IF max = 0 THEN 0 ELSE Len(offered) - Len(kept)
  <2>1. CASE max = 0
    <3>1. Len(kept) = 0 /\ total = 0
      BY <1>1, <1>3, <2>1
    <3> QED
      BY <2>1, <3>1
  <2>2. CASE max # 0
    BY <1>1, <2>2
  <2> QED
    BY <2>1, <2>2
<1> QED
  BY <1>1, <1>2, <1>4, <1>5 DEF max, offered, kept

LEMMA LastKept == ASSUME KeptInv PROVE AttributesAreLast
<1> SUFFICES ASSUME NEW s \in DOMAIN impl
             PROVE
    LET max == limits[s]["attributes"]
        list == impl[s].attributes
        offered == attempts[s]["attributes"]
        keys == {offered[i].key : i \in DOMAIN offered}
        LastOf(key) == CHOOSE v \in {a.value : a \in Range(offered)} :
          \E i \in DOMAIN offered :
            /\ offered[i] = [key |-> key, value |-> v]
            /\ \A j \in i + 1 .. Len(offered) : offered[j].key # key
    IN /\ DOMAIN list.map \subseteq keys
       /\ \A key \in DOMAIN list.map : list.map[key] = LastOf(key)
       /\ Cardinality(DOMAIN list.map) =
            IF Cardinality(keys) < max THEN Cardinality(keys) ELSE max
       /\ Cardinality(keys) <= max => NumAttributesDropped(list) = 0
       /\ max > 0 => NumAttributesDropped(list) >= Cardinality(keys \ DOMAIN list.map)
  BY DEF AttributesAreLast
<1> DEFINE max == limits[s]["attributes"]
           list == impl[s].attributes
           offered == attempts[s]["attributes"]
           keys == KeysOf(offered)
           LastOf(key) == CHOOSE v \in {a.value : a \in Range(offered)} : IsLast(offered, key, v)
<1>1. LastAttributes(list, offered, max)
  BY DEF KeptInv, AttributesLast
<1> HIDE DEF max, list, offered
<1>2. ASSUME NEW key \in DOMAIN list.map
      PROVE  list.map[key] = LastOf(key)
  <2> DEFINE v == list.map[key]
  <2>1. IsLast(offered, key, v) /\ offered \in Seq(Attribute)
    BY <1>1 DEF LastAttributes
  <2> HIDE DEF v
  <2>2. v \in {a.value : a \in Range(offered)}
    BY <2>1 DEF IsLast, Range
  <2>3. ASSUME NEW w, IsLast(offered, key, w)
        PROVE  w = v
    <3>1. PICK i \in DOMAIN offered :
            /\ offered[i] = [key |-> key, value |-> v]
            /\ \A j \in i + 1 .. Len(offered) : offered[j].key # key
      BY <2>1 DEF IsLast
    <3>2. PICK k \in DOMAIN offered :
            /\ offered[k] = [key |-> key, value |-> w]
            /\ \A j \in k + 1 .. Len(offered) : offered[j].key # key
      BY <2>3 DEF IsLast
    <3>3. i \in 1 .. Len(offered) /\ k \in 1 .. Len(offered)
      BY <2>1
    <3>4. i = k
      BY <3>1, <3>2, <3>3
    <3> QED
      BY <3>1, <3>2, <3>4
  <2> QED
    BY <2>1, <2>2, <2>3 DEF v
<1>3. /\ IsFiniteSet(DOMAIN list.map) /\ DOMAIN list.map \subseteq keys /\ max \in Nat
      /\ Cardinality(DOMAIN list.map) = IF Cardinality(keys) < max THEN Cardinality(keys) ELSE max
      /\ Cardinality(keys) <= max => list.total = Cardinality(DOMAIN list.map)
      /\ max > 0 => list.total >= Cardinality(DOMAIN list.map) + Cardinality(keys \ DOMAIN list.map)
      /\ list.total \in Nat /\ offered \in Seq(Attribute)
  BY <1>1 DEF LastAttributes
<1>4. IsFiniteSet(keys)
  BY <1>3, KeysFinite
<1>5. /\ Cardinality(DOMAIN list.map) \in Nat /\ Cardinality(keys \ DOMAIN list.map) \in Nat
  BY <1>3, <1>4, FS_CardinalityType, FS_Difference
<1> DEFINE n == Cardinality(DOMAIN list.map)  left == Cardinality(keys \ DOMAIN list.map)
           size == Cardinality(keys)
<1>6. /\ size <= max => list.total - n = 0
      /\ max > 0 => list.total - n >= left
  <2> HIDE DEF n, left, size
  <2>1. /\ size <= max => list.total = n
        /\ max > 0 => list.total >= n + left
        /\ n \in Nat /\ left \in Nat /\ list.total \in Nat
    BY <1>3, <1>5 DEF n, left, size
  <2> QED
    BY <2>1
<1>7. NumAttributesDropped(list) = list.total - n
  BY DEF NumAttributesDropped
<1> QED
  BY <1>2, <1>3, <1>6, <1>7 DEF max, list, offered, KeysOf, IsLast

\* Links that were never dropped are those that were offered.
LEMMA MutualKept == ASSUME SpansInv, KeptInv PROVE LinksMutual
<1>1. ASSUME NEW s \in DOMAIN impl, NEW link, Has(s, link)
      PROVE  Offers(s, link)
  <2> DEFINE kept == impl[s]["links"].events
             offered == attempts[s]["links"]
             max == limits[s]["links"]
  <2>1. kept \in Seq(Items) /\ offered \in Seq(Items) /\ max \in Nat /\ LastOnes(kept, offered, max)
    BY DEF KeptInv, QueuesNewest, Newest, Queues
  <2>2. link \in Range(kept)
    BY <1>1 DEF Has
  <2> HIDE DEF kept, offered, max
  <2>3. PICK i \in 1 .. Len(kept) : kept[i] = link
    BY <2>1, <2>2 DEF Range
  <2>4. Len(kept) <= Len(offered) /\ kept[i] = offered[Len(offered) - Len(kept) + i]
    <3>1. /\ Len(kept) = IF Len(offered) < max THEN Len(offered) ELSE max
          /\ kept[i] = offered[Len(offered) - Len(kept) + i]
      BY <2>1 DEF LastOnes
    <3>2. Len(kept) \in Nat /\ Len(offered) \in Nat
      BY <2>1
    <3> QED
      BY <2>1, <3>1, <3>2
  <2>5. Len(offered) - Len(kept) + i \in DOMAIN offered
    BY <2>1, <2>4
  <2>6. link \in Range(offered)
    BY <2>3, <2>4, <2>5 DEF Range
  <2> QED
    BY <2>6 DEF Offers, offered
<1>2. ASSUME NEW s \in DOMAIN impl, Complete(s), NEW link, Offers(s, link)
      PROVE  Has(s, link)
  <2> DEFINE kept == impl[s]["links"].events
             offered == attempts[s]["links"]
             max == limits[s]["links"]
             total == impl[s]["links"].total
  <2>1. /\ kept \in Seq(Items) /\ offered \in Seq(Items) /\ max \in Nat
        /\ LastOnes(kept, offered, max) /\ total = IF max = 0 THEN 0 ELSE Len(offered)
    BY DEF KeptInv, QueuesNewest, Newest, Queues
  <2>2. total - Len(kept) = 0 /\ max > 0
    BY <1>2 DEF Complete, NumEventsDropped
  <2>3. link \in Range(offered)
    BY <1>2 DEF Offers
  <2> HIDE DEF kept, offered, max, total
  <2>4. Len(kept) = Len(offered) /\ Len(offered) \in Nat
    BY <2>1, <2>2
  <2>5. \A i \in 1 .. Len(offered) : kept[i] = offered[i]
    <3>1. \A i \in 1 .. Len(kept) : kept[i] = offered[Len(offered) - Len(kept) + i]
      BY <2>1 DEF LastOnes
    <3>2. \A i \in 1 .. Len(offered) : Len(offered) - Len(kept) + i = i
      BY <2>1, <2>4
    <3> QED
      BY <2>4, <3>1, <3>2
  <2>6. link \in Range(kept)
    BY <2>1, <2>3, <2>4, <2>5 DEF Range
  <2> QED
    BY <2>6 DEF Has, kept
<1> QED
  BY <1>1, <1>2 DEF LinksMutual, KeptInv, LinksOffered

----------------------------------------------------------------------------
\* Every step preserves it.

\* What a step may do to a part of a span: nothing, or offer it one element.
Same(s, q) == impl'[s][q] = impl[s][q] /\ attempts'[s][q] = attempts[s][q]

Offered(s, q, e) ==
  /\ impl'[s][q] = AddEvent(impl[s][q], e, limits[s][q])
  /\ attempts'[s][q] = Append(attempts[s][q], e)

AttributeOffered(s, key, value) ==
  /\ impl'[s].attributes \in AddAttribute(impl[s].attributes, key, value, limits[s]["attributes"])
  /\ attempts'[s]["attributes"] = Append(attempts[s]["attributes"], [key |-> key, value |-> value])

PartsChange(s) ==
  /\ \A q \in Queues : Same(s, q) \/ \E e \in Items : Offered(s, q, e)
  /\ Same(s, "attributes") \/ \E key \in Keys, value \in Nat : AttributeOffered(s, key, value)

LEMMA PartsKept ==
  ASSUME KeptInv, DOMAIN impl' = DOMAIN impl, limits' = limits, changes' \in Nat,
         DOMAIN attempts' = SpanIds, \A s \in SpanIds : DOMAIN attempts'[s] = Parts,
         \A s \in SpanIds \ DOMAIN impl : \A q \in Parts : attempts'[s][q] = attempts[s][q],
         \A s \in DOMAIN impl : DOMAIN impl'[s] = Fields /\ PartsChange(s)
  PROVE  Shaped' /\ QueuesNewest' /\ AttributesLast'
<1>1. Shaped'
  BY DEF KeptInv, Shaped
<1>2. QueuesNewest'
  <2> SUFFICES ASSUME NEW s \in DOMAIN impl, NEW q \in Queues
               PROVE  Newest(impl'[s][q], attempts'[s][q], limits[s][q])
    BY DEF QueuesNewest
  <2>1. Newest(impl[s][q], attempts[s][q], limits[s][q])
    BY DEF KeptInv, QueuesNewest
  <2>2. CASE Same(s, q)
    BY <2>1, <2>2 DEF Same
  <2>3. ASSUME NEW e \in Items, Offered(s, q, e)
        PROVE  Newest(impl'[s][q], attempts'[s][q], limits[s][q])
    BY <2>1, <2>3, AddEventNewest DEF Offered
  <2> QED
    BY <2>2, <2>3 DEF PartsChange
<1>3. AttributesLast'
  <2> SUFFICES ASSUME NEW s \in DOMAIN impl
               PROVE  LastAttributes(impl'[s].attributes, attempts'[s]["attributes"],
                                     limits[s]["attributes"])
    BY DEF AttributesLast
  <2>1. LastAttributes(impl[s].attributes, attempts[s]["attributes"], limits[s]["attributes"])
    BY DEF KeptInv, AttributesLast
  <2>2. CASE Same(s, "attributes")
    BY <2>1, <2>2 DEF Same
  <2>3. ASSUME NEW key \in Keys, NEW value \in Nat, AttributeOffered(s, key, value)
        PROVE  LastAttributes(impl'[s].attributes, attempts'[s]["attributes"],
                              limits[s]["attributes"])
    BY <2>1, <2>3, AddAttributeLast DEF AttributeOffered
  <2> QED
    BY <2>2, <2>3 DEF PartsChange
<1> QED
  BY <1>1, <1>2, <1>3

\* A step that offers no span another link of StartSpan.
LEMMA LinksStay ==
  ASSUME KeptInv, DOMAIN impl' = DOMAIN impl, DOMAIN impl \subseteq SpanIds,
         started \subseteq started',
         \A s \in DOMAIN impl : ~ impl'[s].has_ended => ~ impl[s].has_ended,
         \A s \in SpanIds :
           \/ attempts'[s]["links"] = attempts[s]["links"]
           \/ \E n \in Nat : attempts'[s]["links"] = Append(attempts[s]["links"], Event(n))
                             /\ attempts[s]["links"] \in Seq(Items)
  PROVE  LinksOffered'
<1>1. ASSUME NEW s \in SpanIds, NEW x, NEW link \in {ParentLink(x), ChildLink(x)}
      PROVE  Offers(s, link)' <=> Offers(s, link)
  <2>1. CASE attempts'[s]["links"] = attempts[s]["links"]
    BY <2>1 DEF Offers
  <2>2. ASSUME NEW n \in Nat, attempts'[s]["links"] = Append(attempts[s]["links"], Event(n)),
               attempts[s]["links"] \in Seq(Items)
        PROVE  Offers(s, link)' <=> Offers(s, link)
    <3> DEFINE before == attempts[s]["links"]
    <3>1. Event(n) \in Items /\ link # Event(n)
      BY DEF Items, Event, ParentLink, ChildLink
    <3> HIDE DEF before
    <3>2. Range(Append(before, Event(n))) = Range(before) \cup {Event(n)}
      BY <2>2, <3>1, AppendRange DEF before
    <3> QED
      BY <2>2, <3>1, <3>2 DEF Offers, before
  <2> QED
    BY <2>1, <2>2
<1>2. \A s, x \in SpanIds : /\ Offers(s, ParentLink(x))' <=> Offers(s, ParentLink(x))
                            /\ Offers(s, ChildLink(x))' <=> Offers(s, ChildLink(x))
  BY <1>1
<1> QED
  BY <1>2 DEF KeptInv, LinksOffered

\* Nothing is offered.
LEMMA NothingOffered ==
  ASSUME SpansInv, KeptInv, DOMAIN impl' = DOMAIN impl, limits' = limits, changes' \in Nat,
         attempts' = attempts, started' = started,
         \A s \in DOMAIN impl :
           /\ DOMAIN impl'[s] = Fields /\ \A q \in Parts : impl'[s][q] = impl[s][q]
           /\ ~ impl'[s].has_ended => ~ impl[s].has_ended
  PROVE  Shaped' /\ QueuesNewest' /\ AttributesLast' /\ LinksOffered'
<1>1. \A s \in DOMAIN impl : PartsChange(s)
  BY DEF PartsChange, Same, Parts
<1>2. Shaped' /\ QueuesNewest' /\ AttributesLast'
  BY <1>1, PartsKept DEF KeptInv, Shaped
<1>3. DOMAIN impl \subseteq SpanIds
  BY DEF SpansInv, Exists
<1>4. LinksOffered'
  BY <1>3, LinksStay
<1> QED
  BY <1>2, <1>4

\* The program adds an event or an attribute, or sets the status or the name.
LEMMA ChangeKept ==
  ASSUME SpansInv, KeptInv, NEW t \in Threads, NEW s,
         \/ \E queue \in Queues : AddEventTo(t, s, queue)
         \/ \E key \in Keys : AddAttributes(t, s, key)
         \/ SetStatus(t, s) \/ SetName(t, s)
  PROVE  KeptInv'
<1>1. /\ s \in DOMAIN impl /\ changes' = changes + 1
      /\ UNCHANGED <<started, limits, known, links_>>
  BY DEF AddEventTo, AddAttributes, SetStatus, SetName, Change, IsRecording, locals
<1>2. /\ changes \in Nat /\ changes' \in Nat /\ DOMAIN attempts = SpanIds
      /\ DOMAIN impl \subseteq SpanIds
      /\ \A x \in DOMAIN impl : DOMAIN impl[x] = Fields
      /\ \A x \in SpanIds : DOMAIN attempts[x] = Parts
  BY <1>1 DEF KeptInv, Shaped, SpansInv, Exists
<1>3. ParentsKnown'
  BY <1>1 DEF KeptInv, ParentsKnown
<1>4. ASSUME NEW queue \in Queues, AddEventTo(t, s, queue)
      PROVE  Shaped' /\ QueuesNewest' /\ AttributesLast' /\ LinksOffered'
  <2>1. CASE impl[s].has_ended
    <3>1. UNCHANGED <<impl, attempts>>
      BY <1>4, <2>1 DEF AddEventTo, WithEvent
    <3> QED
      BY <1>1, <1>2, <3>1, NothingOffered
  <2>2. CASE ~ impl[s].has_ended
    <3> DEFINE e == Event(changes + 1)
    <3>1. /\ impl' = [impl EXCEPT ![s][queue] = AddEvent(impl[s][queue], e, limits[s][queue])]
          /\ attempts' = [attempts EXCEPT ![s][queue] = Append(attempts[s][queue], e)]
      BY <1>4, <2>2 DEF AddEventTo, WithEvent
    <3>2. e \in Items
      BY <1>2 DEF Items, Event
    <3> HIDE DEF e
    <3>3. /\ DOMAIN impl' = DOMAIN impl /\ DOMAIN attempts' = SpanIds
          /\ \A x \in DOMAIN impl : DOMAIN impl'[x] = Fields /\ (x # s => impl'[x] = impl[x])
          /\ \A x \in SpanIds : DOMAIN attempts'[x] = Parts /\ (x # s => attempts'[x] = attempts[x])
      BY <1>1, <1>2, <3>1
    <3>4. /\ queue \in Fields /\ queue \in Parts /\ queue # "attributes" /\ queue # "has_ended"
          /\ s \in SpanIds
      BY <1>1, <1>2 DEF Queues, Fields, Parts
    <3>5. /\ Offered(s, queue, e)
          /\ \A q \in Fields : q # queue => impl'[s][q] = impl[s][q]
          /\ \A q \in Parts : q # queue => attempts'[s][q] = attempts[s][q]
      BY <1>1, <1>2, <3>1, <3>4 DEF Offered
    <3>6. \A x \in DOMAIN impl : PartsChange(x)
      BY <3>2, <3>3, <3>4, <3>5, <1>2 DEF PartsChange, Same, Parts, Queues, Fields
    <3>7. Shaped' /\ QueuesNewest' /\ AttributesLast'
      BY <1>1, <1>2, <3>3, <3>6, PartsKept
    <3>8. \A x \in DOMAIN impl : impl'[x].has_ended = impl[x].has_ended
      BY <3>3, <3>4, <3>5 DEF Fields
    <3>9. attempts[s]["links"] \in Seq(Items)
      BY <1>1 DEF KeptInv, QueuesNewest, Newest, Queues
    <3>10. \A x \in SpanIds :
             \/ attempts'[x]["links"] = attempts[x]["links"]
             \/ \E n \in Nat : attempts'[x]["links"] = Append(attempts[x]["links"], Event(n))
                               /\ attempts[x]["links"] \in Seq(Items)
      BY <1>2, <3>3, <3>5, <3>9 DEF Offered, Parts, Queues, e
    <3>11. LinksOffered'
      BY <1>1, <1>2, <3>3, <3>8, <3>10, LinksStay
    <3> QED
      BY <3>7, <3>11
  <2> QED
    BY <2>1, <2>2
<1>5. ASSUME NEW key \in Keys, AddAttributes(t, s, key)
      PROVE  Shaped' /\ QueuesNewest' /\ AttributesLast' /\ LinksOffered'
  <2>1. CASE impl[s].has_ended
    <3>1. UNCHANGED <<impl, attempts>>
      BY <1>5, <2>1 DEF AddAttributes
    <3> QED
      BY <1>1, <1>2, <3>1, NothingOffered
  <2>2. CASE ~ impl[s].has_ended
    <3>1. PICK list \in AddAttribute(impl[s].attributes, key, changes + 1, limits[s]["attributes"]) :
            impl' = [impl EXCEPT ![s].attributes = list]
      BY <1>5, <2>2 DEF AddAttributes
    <3>2. attempts' = [attempts EXCEPT ![s]["attributes"] =
                         Append(attempts[s]["attributes"], [key |-> key, value |-> changes + 1])]
      BY <1>5, <2>2 DEF AddAttributes
    <3>3. /\ DOMAIN impl' = DOMAIN impl /\ DOMAIN attempts' = SpanIds
          /\ \A x \in DOMAIN impl : DOMAIN impl'[x] = Fields /\ (x # s => impl'[x] = impl[x])
          /\ \A x \in SpanIds : DOMAIN attempts'[x] = Parts /\ (x # s => attempts'[x] = attempts[x])
      BY <1>1, <1>2, <3>1, <3>2
    <3>4. /\ AttributeOffered(s, key, changes + 1) /\ changes + 1 \in Nat
          /\ \A q \in Fields : q # "attributes" => impl'[s][q] = impl[s][q]
          /\ \A q \in Parts : q # "attributes" => attempts'[s][q] = attempts[s][q]
      BY <1>1, <1>2, <3>1, <3>2 DEF AttributeOffered, Fields, Parts
    <3>5. \A x \in DOMAIN impl : PartsChange(x)
      BY <3>3, <3>4, <1>2 DEF PartsChange, Same, Parts, Queues, Fields
    <3>6. Shaped' /\ QueuesNewest' /\ AttributesLast'
      BY <1>1, <1>2, <3>3, <3>5, PartsKept
    <3>7. \A x \in DOMAIN impl : impl'[x].has_ended = impl[x].has_ended
      BY <3>3, <3>4 DEF Fields
    <3>8. \A x \in SpanIds : attempts'[x]["links"] = attempts[x]["links"]
      BY <3>3, <3>4 DEF Parts, Queues
    <3>9. LinksOffered'
      BY <1>1, <1>2, <3>3, <3>7, <3>8, LinksStay
    <3> QED
      BY <3>6, <3>9
  <2> QED
    BY <2>1, <2>2
<1>6. CASE SetStatus(t, s) \/ SetName(t, s)
  <2>1. /\ DOMAIN impl' = DOMAIN impl /\ attempts' = attempts
        /\ \A x \in DOMAIN impl :
             /\ DOMAIN impl'[x] = Fields /\ impl'[x].has_ended = impl[x].has_ended
             /\ \A q \in Parts : impl'[x][q] = impl[x][q]
    BY <1>1, <1>2, <1>6 DEF SetStatus, SetName, Fields, Parts, Queues
  <2> QED
    BY <1>1, <1>2, <1>3, <2>1, NothingOffered DEF KeptInv
<1> QED
  BY <1>3, <1>4, <1>5, <1>6 DEF KeptInv

\* A span is new, and empty.
LEMMA StartSpanKept ==
  ASSUME SpansInv, KeptInv, NEW t \in Threads, NEW s \in SpanIds, NEW parent,
         NEW sampled \in BOOLEAN, NEW params \in Params, NEW parents \in ParentLists,
         StartSpan(t, s, parent, sampled, params, parents)
  PROVE  KeptInv'
<1>1. /\ s \notin started /\ started' = started \cup {s} /\ s \notin DOMAIN impl
      /\ DOMAIN impl \subseteq started
      /\ impl' = IF sampled THEN Extend(impl, s, NewSpanImpl(0)) ELSE impl
      /\ limits' = IF sampled THEN Extend(limits, s, params) ELSE limits
      /\ links_' = [links_ EXCEPT ![t] = parents]
      /\ UNCHANGED <<known, changes, attempts>>
  BY DEF StartSpan, SpansInv, Exists
<1>2. /\ DOMAIN limits = DOMAIN impl
      /\ \A q \in Parts : attempts[s][q] = <<>>
  BY <1>1 DEF KeptInv, Shaped
<1>3. /\ DOMAIN limits' = DOMAIN impl' /\ DOMAIN impl' \subseteq DOMAIN impl \cup {s}
      /\ DOMAIN impl \subseteq DOMAIN impl'
      /\ \A x \in DOMAIN impl : impl'[x] = impl[x] /\ limits'[x] = limits[x]
      /\ s \in DOMAIN impl' => impl'[s] = NewSpanImpl(0) /\ limits'[s] = params
  BY <1>1, <1>2 DEF Extend
<1>4. params \in TraceParams
  BY SpansAssumption
<1>5. Shaped'
  <2>1. DOMAIN NewSpanImpl(0) = Fields
    BY DEF NewSpanImpl, Fields
  <2>2. \A x \in DOMAIN impl' : DOMAIN impl'[x] = Fields /\ limits'[x] \in TraceParams
    BY <1>3, <1>4, <2>1 DEF KeptInv, Shaped
  <2> QED
    BY <1>1, <1>3, <2>2 DEF KeptInv, Shaped
<1>6. QueuesNewest'
  <2>1. ASSUME NEW q \in Queues
        PROVE  Newest(NewSpanImpl(0)[q], <<>>, params[q])
    <3>1. NewSpanImpl(0)[q] = NewEvents /\ params[q] \in Nat
      BY <1>4 DEF NewSpanImpl, Queues, TraceParams
    <3>2. /\ NewEvents.events = <<>> /\ NewEvents.total = 0 /\ DOMAIN NewEvents = {"events", "total"}
          /\ <<>> \in Seq(Items) /\ Len(<<>>) = 0 /\ 1 .. 0 = {}
      BY DEF NewEvents
    <3> DEFINE max == params[q]
    <3>3. 0 = IF 0 < max THEN 0 ELSE max
      BY <3>1
    <3> HIDE DEF max
    <3>4. LastOnes(<<>>, <<>>, max)
      BY <3>2, <3>3 DEF LastOnes
    <3>5. Newest(NewEvents, <<>>, max)
      BY <3>1, <3>2, <3>4 DEF Newest, max
    <3> QED
      BY <3>1, <3>5 DEF max
  <2> QED
    BY <1>1, <1>2, <1>3, <2>1 DEF KeptInv, QueuesNewest, Parts
<1>7. AttributesLast'
  <2>1. LastAttributes(NewSpanImpl(0).attributes, <<>>, params["attributes"])
    <3> DEFINE list == NewSpanImpl(0).attributes
    <3>1. DOMAIN list = {"map", "total"} /\ list.total = 0 /\ DOMAIN list.map = {}
      BY DEF NewSpanImpl, NewAttributes
    <3>2. KeysOf(<<>>) = {} /\ <<>> \in Seq(Attribute)
      BY DEF KeysOf
    <3>3. params["attributes"] \in Nat
      BY <1>4 DEF TraceParams
    <3>4. IsFiniteSet({}) /\ Cardinality({}) = 0 /\ {} \ {} = {}
      BY FS_EmptySet
    <3> HIDE DEF list
    <3> DEFINE max == params["attributes"]
    <3>5. 0 = IF 0 < max THEN 0 ELSE max
      BY <3>3
    <3> HIDE DEF max
    <3>6. LastAttributes(list, <<>>, max)
      <4>1. /\ IsFiniteSet(DOMAIN list.map) /\ Cardinality(DOMAIN list.map) = 0
            /\ Cardinality(KeysOf(<<>>)) = 0 /\ Cardinality(KeysOf(<<>>) \ DOMAIN list.map) = 0
        BY <3>1, <3>2, <3>4
      <4>2. max \in Nat
        BY <3>3 DEF max
      <4> QED
        BY <3>1, <3>2, <3>5, <4>1, <4>2 DEF LastAttributes
    <3> QED
      BY <3>6 DEF list, max
  <2> QED
    BY <1>1, <1>2, <1>3, <2>1 DEF KeptInv, AttributesLast, Parts
<1>8. LinksOffered'
  <2>1. \A link : ~ Offers(s, link)
    BY <1>2 DEF Offers, Range, Parts, Queues
  <2>2. \A x \in SpanIds : ~ Offers(x, ParentLink(s)) /\ ~ Offers(x, ChildLink(s))
    BY <1>1 DEF KeptInv, LinksOffered
  <2>3. \A x, link : Offers(x, link)' <=> Offers(x, link)
    BY <1>1 DEF Offers
  <2>4. DOMAIN impl' \subseteq SpanIds
    BY <1>1, <1>3 DEF SpansInv, Exists
  <2>5. \A x, y \in SpanIds : Offers(x, ParentLink(y))' \/ Offers(x, ChildLink(y))' => y \in started'
    BY <1>1, <2>3 DEF KeptInv, LinksOffered
  <2>6. \A p, c \in DOMAIN impl' :
          /\ Offers(p, ChildLink(c)) => Offers(c, ParentLink(p))
          /\ Offers(c, ParentLink(p)) /\ ~ impl'[p].has_ended => Offers(p, ChildLink(c))
    BY <1>3, <2>1, <2>2, <2>4 DEF KeptInv, LinksOffered
  <2> QED
    BY <2>3, <2>5, <2>6 DEF LinksOffered
<1>9. ParentsKnown'
  <2>1. parents \in Seq(known)
    <3>1. PICK m \in 0 .. 2 : parents \in [1 .. m -> known]
      BY DEF ParentLists, BoundedSeq, SeqOf
    <3> QED
      BY <3>1
  <2> QED
    BY <1>1, <2>1 DEF KeptInv, ParentsKnown
<1> QED
  BY <1>5, <1>6, <1>7, <1>8, <1>9 DEF KeptInv

\* SetToSeq of nothing and of one element.
LEMMA SetToSeqOfOne ==
  /\ SetToSeq({}) = <<>>
  /\ \A e : SetToSeq({e}) = <<e>>
<1>1. SetToSeq({}) = <<>>
  <2>1. Cardinality({}) = 0
    BY FS_EmptySet
  <2>2. \A f \in [1 .. 0 -> {}] : f = <<>>
    OBVIOUS
  <2>3. <<>> \in [1 .. 0 -> {}] /\ IsInjective(<<>>)
    BY DEF IsInjective
  <2> QED
    BY <2>1, <2>2, <2>3 DEF SetToSeq
<1>2. ASSUME NEW e
      PROVE  SetToSeq({e}) = <<e>>
  <2>1. Cardinality({e}) = 1
    BY FS_Singleton
  <2>2. \A f \in [1 .. 1 -> {e}] : f = <<e>>
    OBVIOUS
  <2>3. <<e>> \in [1 .. 1 -> {e}] /\ IsInjective(<<e>>)
    BY DEF IsInjective
  <2> QED
    BY <2>1, <2>2, <2>3 DEF SetToSeq
<1> QED
  BY <1>1, <1>2

\* StartSpan links the new span and a parent, if they have a SpanImpl each, to each other.
LEMMA LinkKept ==
  ASSUME SpansInv, KeptInv, NEW t \in Threads, Link(t)
  PROVE  KeptInv'
<1> DEFINE s == span[t]
           p == Head(links_[t])
           told == IsRecording(p) /\ ~ impl[p].has_ended
           new(x) == CASE x = s /\ IsRecording(s) -> {ParentLink(p)}
                       [] x = p /\ told -> {LinkForParent(s)}
                       [] OTHER -> {}
<1>1. /\ links_[t] # <<>> /\ pc[t] = "link"
      /\ impl' = [x \in DOMAIN impl |->
           IF new(x) = {} THEN impl[x]
           ELSE [impl[x] EXCEPT !.links =
                   AddEvent(impl[x].links, CHOOSE e \in new(x) : TRUE, limits[x]["links"])]]
      /\ attempts' = [x \in SpanIds |->
           [attempts[x] EXCEPT !["links"] = attempts[x]["links"] \o SetToSeq(new(x))]]
      /\ links_' = [links_ EXCEPT ![t] = Tail(links_[t])]
      /\ UNCHANGED <<started, limits, known, changes>>
  BY DEF Link
<1>2. /\ links_[t] \in Seq(known) /\ DOMAIN links_ = Threads
      /\ known \subseteq started /\ started \subseteq SpanIds /\ DOMAIN impl \subseteq SpanIds
      /\ changes \in Nat /\ DOMAIN attempts = SpanIds
      /\ \A x \in DOMAIN impl : DOMAIN impl[x] = Fields
      /\ \A x \in SpanIds : DOMAIN attempts[x] = Parts
  BY DEF KeptInv, Shaped, ParentsKnown, SpansInv, Exists
<1>3. /\ p \in known /\ Tail(links_[t]) \in Seq(known) /\ s \in started /\ s \notin known /\ p # s
  BY <1>1, <1>2, HeadTailProperties DEF SpansInv, Owned
<1>4. ParentsKnown'
  BY <1>1, <1>2, <1>3 DEF KeptInv, ParentsKnown
<1>5. /\ IsRecording(s) => new(s) = {ParentLink(p)}
      /\ told => new(p) = {ChildLink(s)}
      /\ \A x : ~ (x = s /\ IsRecording(s)) /\ ~ (x = p /\ told) => new(x) = {}
  BY <1>3 DEF LinkForParent
<1>6. ParentLink(p) \in Items /\ ChildLink(s) \in Items
  BY <1>2, <1>3 DEF Items, ParentLink, ChildLink
<1>7. \A x \in DOMAIN impl : attempts[x]["links"] \in Seq(Items)
  BY DEF KeptInv, QueuesNewest, Newest, Queues
<1>8. \A x \in SpanIds \ DOMAIN impl : attempts[x]["links"] = <<>>
  BY DEF KeptInv, Shaped, Parts, Queues
<1> HIDE DEF s, p, told, new
<1>9. /\ DOMAIN impl' = DOMAIN impl /\ DOMAIN attempts' = SpanIds
      /\ \A x \in DOMAIN impl :
           /\ DOMAIN impl'[x] = Fields
           /\ \A q \in Fields : q # "links" => impl'[x][q] = impl[x][q]
      /\ \A x \in SpanIds :
           /\ DOMAIN attempts'[x] = Parts
           /\ \A q \in Parts : q # "links" => attempts'[x][q] = attempts[x][q]
  BY <1>1, <1>2
<1>10. ASSUME NEW x \in DOMAIN impl, NEW e \in Items, new(x) = {e}
       PROVE  Offered(x, "links", e)
  <2>1. (CHOOSE f \in new(x) : TRUE) = e /\ SetToSeq(new(x)) = <<e>> /\ new(x) # {}
    BY <1>10, SetToSeqOfOne
  <2>2. x \in SpanIds /\ "links" \in Parts /\ "links" \in Fields
    BY <1>2 DEF Parts, Queues, Fields
  <2>3. impl'[x]["links"] = AddEvent(impl[x]["links"], e, limits[x]["links"])
    BY <1>1, <1>2, <2>1, <2>2
  <2>4. attempts'[x]["links"] = attempts[x]["links"] \o <<e>>
    BY <1>1, <1>2, <2>1, <2>2
  <2>5. attempts[x]["links"] \o <<e>> = Append(attempts[x]["links"], e)
    BY <1>7
  <2> QED
    BY <2>3, <2>4, <2>5 DEF Offered
<1>11. ASSUME NEW x \in SpanIds, new(x) = {}
       PROVE  /\ \A q \in Parts : attempts'[x][q] = attempts[x][q]
              /\ x \in DOMAIN impl => impl'[x] = impl[x]
  <2>1. attempts[x]["links"] \o <<>> = attempts[x]["links"]
    <3>1. CASE x \in DOMAIN impl
      BY <1>7, <3>1
    <3>2. CASE x \notin DOMAIN impl
      BY <1>8, <3>2
    <3> QED
      BY <3>1, <3>2
  <2>2. attempts'[x]["links"] = attempts[x]["links"]
    BY <1>1, <1>2, <1>11, <2>1, SetToSeqOfOne DEF Parts, Queues
  <2> QED
    BY <1>1, <1>9, <1>11, <2>2
<1>12. \A x \in DOMAIN impl : PartsChange(x)
  <2> SUFFICES ASSUME NEW x \in DOMAIN impl
               PROVE  Same(x, "links") \/ \E e \in Items : Offered(x, "links", e)
    BY <1>2, <1>9 DEF PartsChange, Same, Parts, Queues, Fields
  <2>1. x \in SpanIds
    BY <1>2
  <2> QED
    BY <1>5, <1>6, <1>10, <1>11, <2>1 DEF Same, Parts, Queues
<1>13. \A x \in SpanIds \ DOMAIN impl : \A q \in Parts : attempts'[x][q] = attempts[x][q]
  BY <1>3, <1>5, <1>11 DEF IsRecording, told
<1>14. Shaped' /\ QueuesNewest' /\ AttributesLast'
  BY <1>1, <1>2, <1>9, <1>12, <1>13, PartsKept
<1>15. \A x \in DOMAIN impl : impl'[x].has_ended = impl[x].has_ended
  BY <1>9 DEF Fields
<1>16. ASSUME NEW x \in SpanIds, NEW link
       PROVE  Offers(x, link)' <=> Offers(x, link) \/ (x = s /\ IsRecording(s) /\ link = ParentLink(p))
                                     \/ (x = p /\ told /\ link = ChildLink(s))
  <2>1. ASSUME NEW e \in Items, x \in DOMAIN impl, new(x) = {e}
        PROVE  Offers(x, link)' <=> Offers(x, link) \/ link = e
    <3> DEFINE before == attempts[x]["links"]
    <3>1. attempts'[x]["links"] = Append(before, e) /\ before \in Seq(Items)
      BY <1>7, <1>10, <2>1 DEF Offered
    <3> HIDE DEF before
    <3>2. Range(Append(before, e)) = Range(before) \cup {e}
      BY <2>1, <3>1, AppendRange
    <3> QED
      BY <3>1, <3>2 DEF Offers, before
  <2>2. new(x) = {} => (Offers(x, link)' <=> Offers(x, link))
    BY <1>11 DEF Offers, Parts, Queues
  <2> QED
    BY <1>3, <1>5, <1>6, <2>1, <2>2 DEF IsRecording, told
<1>17. \A x, y : /\ ParentLink(x) # ChildLink(y)
                 /\ ParentLink(x) = ParentLink(y) => x = y
                 /\ ChildLink(x) = ChildLink(y) => x = y
  BY DEF ParentLink, ChildLink
<1>18. LinksOffered'
  <2>1. \A a, x \in SpanIds :
          Offers(a, ParentLink(x))' \/ Offers(a, ChildLink(x))' => x \in started'
    BY <1>1, <1>2, <1>3, <1>16, <1>17 DEF KeptInv, LinksOffered
  <2>2. ASSUME NEW a \in DOMAIN impl, NEW c \in DOMAIN impl, Offers(a, ChildLink(c))'
        PROVE  Offers(c, ParentLink(a))'
    BY <1>2, <1>16, <1>17, <2>2 DEF KeptInv, LinksOffered, IsRecording
  <2>3. ASSUME NEW a \in DOMAIN impl, NEW c \in DOMAIN impl, Offers(c, ParentLink(a))',
               ~ impl[a].has_ended
        PROVE  Offers(a, ChildLink(c))'
    BY <1>2, <1>16, <1>17, <2>3 DEF KeptInv, LinksOffered, IsRecording, told
  <2>4. \A a, c \in DOMAIN impl' :
          /\ Offers(a, ChildLink(c))' => Offers(c, ParentLink(a))'
          /\ Offers(c, ParentLink(a))' /\ ~ impl'[a].has_ended => Offers(a, ChildLink(c))'
    BY <1>9, <1>15, <2>2, <2>3
  <2> QED
    BY <2>1, <2>4 DEF LinksOffered
<1> QED
  BY <1>4, <1>14, <1>18 DEF KeptInv

LEMMA KeptInit == Init => KeptInv
<1> SUFFICES ASSUME Init PROVE KeptInv
  OBVIOUS
<1>1. /\ DOMAIN impl = {} /\ DOMAIN limits = {} /\ changes = 0
      /\ links_ = [t \in Threads |-> <<>>]
      /\ attempts = [s \in SpanIds |-> [q \in Parts |-> <<>>]]
  BY DEF Init, Parts
<1>2. Shaped /\ QueuesNewest /\ AttributesLast
  BY <1>1 DEF Shaped, QueuesNewest, AttributesLast
<1>3. \A s \in SpanIds : \A link : ~ Offers(s, link)
  BY <1>1 DEF Offers, Range, Parts, Queues
<1>4. LinksOffered /\ ParentsKnown
  BY <1>1, <1>3 DEF LinksOffered, ParentsKnown
<1> QED
  BY <1>2, <1>4 DEF KeptInv

\* A step that changes no span, or marks one as ended.
LEMMA QuietKept ==
  ASSUME SpansInv, KeptInv, UNCHANGED <<started, limits, changes, attempts, links_>>,
         known \subseteq known',
         \/ impl' = impl
         \/ \E s \in DOMAIN impl : impl' = [impl EXCEPT ![s].has_ended = TRUE]
  PROVE  KeptInv'
<1>1. changes' \in Nat /\ \A x \in DOMAIN impl : DOMAIN impl[x] = Fields
  BY DEF KeptInv, Shaped
<1>2. /\ DOMAIN impl' = DOMAIN impl
      /\ \A x \in DOMAIN impl :
           /\ DOMAIN impl'[x] = Fields /\ \A q \in Parts : impl'[x][q] = impl[x][q]
           /\ ~ impl'[x].has_ended => ~ impl[x].has_ended
  BY <1>1 DEF Fields, Parts, Queues
<1>3. ParentsKnown'
  BY SeqMonotonic DEF KeptInv, ParentsKnown
<1> QED
  BY <1>1, <1>2, <1>3, NothingOffered DEF KeptInv

LEMMA KeptStep == SpansInv /\ KeptInv /\ [Next]_vars => KeptInv'
<1> SUFFICES ASSUME SpansInv, KeptInv, [Next]_vars PROVE KeptInv'
  OBVIOUS
<1>1. ASSUME NEW t \in Threads, NEW s \in known,
             \/ \E queue \in Queues : AddEventTo(t, s, queue)
             \/ \E key \in Keys : AddAttributes(t, s, key)
             \/ SetStatus(t, s) \/ SetName(t, s)
      PROVE  KeptInv'
  BY <1>1, ChangeKept
<1>2. ASSUME NEW t \in Threads, NEW s \in SpanIds, NEW parent, NEW sampled \in BOOLEAN,
             NEW params \in Params, NEW parents \in ParentLists,
             StartSpan(t, s, parent, sampled, params, parents)
      PROVE  KeptInv'
  BY <1>2, StartSpanKept
<1>3. ASSUME NEW t \in Threads, Link(t)
      PROVE  KeptInv'
  BY <1>3, LinkKept
<1>4. ASSUME NEW t \in Threads, NEW s, End(t, s)
      PROVE  KeptInv'
  <2>1. /\ UNCHANGED <<started, limits, changes, attempts, links_, known>> /\ s \in DOMAIN impl
        /\ impl' = [impl EXCEPT ![s].has_ended = TRUE]
    BY <1>4 DEF End, IsRecording
  <2> QED
    BY <2>1, QuietKept
<1>5. ASSUME NEW t \in Threads,
             Started(t) \/ RemoveSpan(t) \/ AddToLocalStore(t) \/ HandToExporter(t)
      PROVE  KeptInv'
  <2>1. /\ UNCHANGED <<started, impl, limits, changes, attempts, links_>> /\ known \subseteq known'
    BY <1>5 DEF Started, RemoveSpan, AddToLocalStore, HandToExporter, spans
  <2> QED
    BY <2>1, QuietKept
<1>6. CASE UNCHANGED vars
  <2>1. UNCHANGED <<started, impl, limits, changes, attempts, links_, known>>
    BY <1>6 DEF vars, spans, locals
  <2> QED
    BY <2>1, QuietKept
<1> QED
  BY <1>1, <1>2, <1>3, <1>4, <1>5, <1>6 DEF Next, Call, Continue, EndAgain

\* What spans have of what they were offered holds in every state.
THEOREM ContentsInvariant == Spec => []KeptInv
  BY KeptInit, KeptStep, SpansInvariant, PTL DEF Spec

\* Whatever its limits, 0 included, a span has the newest events and the last values of its
\* attributes, and counts the events and attributes that TraceEvents and AttributeList drop.
THEOREM LimitsAreKept == Spec => []LimitsKept
<1>1. KeptInv => LimitsKept
  BY NewestKept, LastKept DEF LimitsKept
<1> QED
  BY <1>1, ContentsInvariant, PTL

\* Span::StartSpan links a span and its parents to each other, while other threads add links to
\* the parents and end them.
THEOREM LinksAreMutual == Spec => []LinksMutual
<1>1. SpansInv /\ KeptInv => LinksMutual
  BY MutualKept
<1> QED
  BY <1>1, SpansInvariant, ContentsInvariant, PTL
=============================================================================
