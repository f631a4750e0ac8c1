--------------------------- MODULE RunningSpanStore ---------------------------
(***************************************************************************)
(* RunningSpanStoreImpl: the recorded spans that have not ended, with the  *)
(* two queries that zPages asks.  A query holds the store's mu_ from its   *)
(* first line to its last, but each name() and ToSpanData() takes the mu_  *)
(* of a SpanImpl anew, and SetName may come between.                       *)
(***************************************************************************)
EXTENDS Integers, Sequences, SequencesExt, FiniteSets, Functions

CONSTANTS
  RunningSpans, \* addresses of SpanImpls
  RunningNames, \* names of spans; a filter has "" for all of them
  Limits,       \* max_spans_to_return, an int
  MaxRenames    \* bound on the calls of SetName

ASSUME RunningAssumption == IsFiniteSet(RunningSpans) /\ Limits \subseteq Int

VARIABLES
  mu_,       \* who holds the store's mutex: nobody, or the query
  running_,  \* spans_
  names,     \* name_ of each SpanImpl
  has_ended, \* the SpanImpls whose End has been called, or that do not exist
  renames,   \* history: the number of calls of SetName
  query,     \* the filter, the spans yet to be visited, whether the next matched
  running_spans, \* what the query has put together
  names_seen \* history: the names that each span has had since the query began

runningVars == <<mu_, running_, names, has_ended, renames, query, running_spans, names_seen>>

Query(type, span_name, max_spans_to_return, to_visit) ==
  [type |-> type, span_name |-> span_name, max_spans_to_return |-> max_spans_to_return,
   to_visit |-> to_visit, matched |-> FALSE]
NoQuery == Query("none", "", -1, <<>>)

\* A span is added when it starts; its address may be that of one that was removed.
AddRunningSpan(span) ==
  /\ mu_ = "free" /\ span \notin running_ /\ span \in has_ended
  /\ running_' = running_ \cup {span}
  /\ has_ended' = has_ended \ {span}
  /\ UNCHANGED <<mu_, names, renames, query, running_spans, names_seen>>

\* Span::End calls SpanImpl::End, which takes the mutex of the span only, ...
End(span) ==
  /\ span \in RunningSpans \ has_ended
  /\ has_ended' = has_ended \cup {span}
  /\ UNCHANGED <<mu_, running_, names, renames, query, running_spans, names_seen>>

\* ... and then removes the span, if it is tracked.
RemoveSpan(span) ==
  /\ mu_ = "free" /\ span \in has_ended
  /\ running_' = running_ \ {span}
  /\ UNCHANGED <<mu_, names, has_ended, renames, query, running_spans, names_seen>>

\* Tests empty the store; a span that was in it runs on, and ends untracked.
ClearRunningForTesting ==
  /\ mu_ = "free" /\ running_' = {}
  /\ UNCHANGED <<mu_, names, has_ended, renames, query, running_spans, names_seen>>

\* SpanImpl::SetName, which takes the mutex of the span only.
SetName(span, name) ==
  /\ span \in RunningSpans \ has_ended /\ renames < MaxRenames /\ names[span] # name
  /\ names' = [names EXCEPT ![span] = name]
  /\ renames' = renames + 1
  /\ names_seen' = [names_seen EXCEPT ![span] = @ \cup {name}]
  /\ UNCHANGED <<mu_, running_, has_ended, query, running_spans>>

\* A query begins: the order of the hash map is any.
Begin(type, span_name, max_spans_to_return) ==
  /\ mu_ = "free" /\ mu_' = "query"
  /\ \E order \in SetToSeqs(running_) :
       query' = Query(type, span_name, max_spans_to_return, order)
  /\ running_spans' = <<>>
  /\ names_seen' = [span \in RunningSpans |-> {names[span]}]
  /\ UNCHANGED <<running_, names, has_ended, renames>>

\* A summary has no filter.
BeginGetSummary == Begin("summary", "", -1)

BeginGetRunningSpans(span_name, max_spans_to_return) ==
  Begin("spans", span_name, max_spans_to_return)

\* size_t is compared with int: a negative limit is a huge number.
Full ==
  /\ query.type = "spans" /\ query.max_spans_to_return >= 0
  /\ Len(running_spans) >= query.max_spans_to_return

\* GetSummary counts the next span under the name it has now.
CountSpan ==
  /\ query.type = "summary" /\ query.to_visit # <<>>
  /\ running_spans' = Append(running_spans, [span |-> Head(query.to_visit),
                                             name |-> names[Head(query.to_visit)]])
  /\ query' = [query EXCEPT !.to_visit = Tail(@)]
  /\ UNCHANGED <<mu_, running_, names, has_ended, renames, names_seen>>

\* GetRunningSpans compares the name of the next span, and then copies the span.
CompareName ==
  /\ query.type = "spans" /\ query.to_visit # <<>> /\ ~query.matched /\ ~Full
  /\ LET span == Head(query.to_visit) IN
     query' = IF query.span_name \in {"", names[span]}
              THEN [query EXCEPT !.matched = TRUE]
              ELSE [query EXCEPT !.to_visit = Tail(@)]
  /\ UNCHANGED <<mu_, running_, names, has_ended, renames, running_spans, names_seen>>

CopySpan ==
  /\ query.type = "spans" /\ query.matched
  /\ running_spans' = Append(running_spans, [span |-> Head(query.to_visit),
                                             name |-> names[Head(query.to_visit)]])
  /\ query' = [query EXCEPT !.to_visit = Tail(@), !.matched = FALSE]
  /\ UNCHANGED <<mu_, running_, names, has_ended, renames, names_seen>>

QueryDone == query.type # "none" /\ ~query.matched /\ (query.to_visit = <<>> \/ Full)

Return ==
  /\ QueryDone
  /\ mu_' = "free" /\ query' = NoQuery /\ running_spans' = <<>>
  /\ UNCHANGED <<running_, names, has_ended, renames, names_seen>>

RunningInit ==
  /\ mu_ = "free" /\ running_ = {} /\ has_ended = RunningSpans /\ renames = 0
  /\ names \in [RunningSpans -> RunningNames]
  /\ query = NoQuery /\ running_spans = <<>>
  /\ names_seen = [span \in RunningSpans |-> {names[span]}]

RunningNext ==
  \/ \E span \in RunningSpans : AddRunningSpan(span) \/ End(span) \/ RemoveSpan(span)
  \/ \E span \in RunningSpans, name \in RunningNames : SetName(span, name)
  \/ ClearRunningForTesting
  \/ BeginGetSummary
  \/ \E span_name \in RunningNames \cup {""}, max \in Limits : BeginGetRunningSpans(span_name, max)
  \/ CountSpan \/ CompareName \/ CopySpan \/ Return

RunningSpec == RunningInit /\ [][RunningNext]_runningVars

----------------------------------------------------------------------------
\* What a query returns is about spans that are stored, each once; a summary counts all of
\* them; spans are at most as many as asked for, and fewer only if no more match.  A
\* span is named as it was at some time during the query, and one that never had
\* another name than the filter's is not missed, nor one returned that never had it.
RunningAnswers ==
  QueryDone =>
  LET returned == {running_spans[i].span : i \in DOMAIN running_spans}
      Matches(names_of) == query.span_name \in names_of \cup {""}
  IN
  /\ Cardinality(returned) = Len(running_spans) /\ returned \subseteq running_
  /\ \A i \in DOMAIN running_spans :
       /\ running_spans[i].name \in names_seen[running_spans[i].span]
       /\ Matches(names_seen[running_spans[i].span])
  /\ Full \/ \A span \in running_ \ returned :
               ~Matches(names_seen[span]) \/ Cardinality(names_seen[span]) > 1
  /\ Full => Len(running_spans) = query.max_spans_to_return
=============================================================================
