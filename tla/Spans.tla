------------------------------- MODULE Spans -------------------------------
(***************************************************************************)
(* Span, SpanImpl, RunningSpanStoreImpl and the way of a span from         *)
(* StartSpan to End, with spans shared by threads.                         *)
(*                                                                         *)
(* Each method of SpanImpl and of the stores holds the mutex of its object *)
(* for its whole body and is one step.  Span::StartSpan and Span::End make *)
(* several such calls, and other threads run between them.                 *)
(*                                                                         *)
(* A span has a SpanImpl when it is sampled.  Limits are read from         *)
(* TraceConfig field by field, while other threads store them field by     *)
(* field, so those of a span are any mix of values that were set.  In a    *)
(* debug build a second End fails an assertion; here it is ignored, as     *)
(* with NDEBUG, so a debug run is the beginning of one of these.           *)
(***************************************************************************)
EXTENDS SpanContents, SequencesExt

Queues == {"annotations", "message_events", "links"}
TraceParams == [Queues \cup {"attributes"} -> Nat]

CONSTANTS
  Threads,
  SpanIds,    \* the spans the program starts
  NoSpan,     \* no parent
  Params,     \* the limits a SpanImpl may be made with
  kMaxSpans,  \* the size of the LocalSpanStore
  Keys,       \* attribute keys
  MaxChanges  \* bound on the changes the program makes to spans

ASSUME SpansAssumption ==
  /\ NoSpan \notin SpanIds /\ Params \subseteq TraceParams
  /\ kMaxSpans \in Nat \ {0} /\ MaxChanges \in Nat

VARIABLES
  started,  \* the spans whose SpanContext exists
  impl,     \* the SpanImpl of each span that is sampled
  limits,   \* the limits each SpanImpl was made with
  running_, \* RunningSpanStoreImpl's spans_
  local_,   \* LocalSpanStoreImpl's spans_: copies of spans that ended
  known,    \* the spans whose StartSpan has returned
  pc, span, \* each thread's next step, and the span it is about
  links_,   \* StartSpan's parent links still to be added
  changes,  \* history: the number of changes
  attempts, \* history: what each queue, and the attributes, were offered
            \* before the span had ended
  filed,    \* history: the copies given to the LocalSpanStore, in order
  handed    \* history: the spans handed to the SpanExporter, in order

spans  == <<started, impl, limits, known>>
stores == <<running_, local_, filed>>
locals == <<pc, span, links_>>
vars == <<spans, stores, locals, changes, attempts, handed>>

Init ==
  /\ started = {} /\ impl = [s \in {} |-> 0]
  /\ limits = [s \in {} |-> 0]
  /\ running_ = {} /\ local_ = <<>> /\ filed = <<>>
  /\ known = {}
  /\ pc = [t \in Threads |-> "idle"]
  /\ span = [t \in Threads |-> NoSpan]
  /\ links_ = [t \in Threads |-> <<>>]
  /\ changes = 0
  /\ attempts = [s \in SpanIds |-> [q \in Queues \cup {"attributes"} |-> <<>>]]
  /\ handed = <<>>

Goto(t, from, to) == pc[t] = from /\ pc' = [pc EXCEPT ![t] = to]

Extend(f, s, value) == [x \in DOMAIN f \cup {s} |-> IF x = s THEN value ELSE f[x]]

\* Events are told apart by a number, links also by the span they name.
Event(n)      == [type |-> "event", id |-> n]
ParentLink(s) == [type |-> "parent", id |-> s]
ChildLink(s)  == [type |-> "child", id |-> s]

IsRecording(s) == s \in DOMAIN impl

----------------------------------------------------------------------------
\* SpanImpl's methods.

\* Mutant: events are added to a span that has ended.
WithEventAlways(s, queue, event) ==
  /\ impl' = [impl EXCEPT ![s][queue] = AddEvent(@, event, limits[s][queue])]
  /\ attempts' = [attempts EXCEPT ![s][queue] = Append(@, event)]

\* AddAnnotation, AddMessageEvent and AddLink.
WithEvent(s, queue, event) ==
  IF impl[s].has_ended THEN UNCHANGED <<impl, attempts>>
  ELSE /\ impl' = [impl EXCEPT ![s][queue] = AddEvent(@, event, limits[s][queue])]
       /\ attempts' = [attempts EXCEPT ![s][queue] = Append(@, event)]

\* A change the program makes through a Span; without a SpanImpl it does nothing.
Change(t, s) ==
  /\ pc[t] = "idle" /\ s \in known /\ IsRecording(s) /\ changes < MaxChanges
  /\ changes' = changes + 1
  /\ UNCHANGED <<started, limits, known, stores, locals, handed>>

\* Span::AddAnnotation, AddSentMessageEvent, AddReceivedMessageEvent,
\* AddParentLink and AddChildLink.
AddEventTo(t, s, queue) ==
  Change(t, s) /\ WithEvent(s, queue, Event(changes + 1))

\* AddAttribute, and AddAttributes with one attribute.
AddAttributes(t, s, key) ==
  /\ Change(t, s)
  /\ IF impl[s].has_ended THEN UNCHANGED <<impl, attempts>>
     ELSE /\ \E list \in AddAttribute(impl[s].attributes, key, changes + 1,
                                      limits[s]["attributes"]) :
               impl' = [impl EXCEPT ![s].attributes = list]
          /\ attempts' = [attempts EXCEPT ![s]["attributes"] =
                            Append(@, [key |-> key, value |-> changes + 1])]

SetStatus(t, s) ==
  /\ Change(t, s)
  /\ impl' = IF impl[s].has_ended THEN impl ELSE [impl EXCEPT ![s].status = changes + 1]
  /\ UNCHANGED attempts

SetName(t, s) ==
  /\ Change(t, s)
  /\ impl' = IF impl[s].has_ended THEN impl ELSE [impl EXCEPT ![s].name = changes + 1]
  /\ UNCHANGED attempts

----------------------------------------------------------------------------
\* Span::StartSpan and StartSpanWithRemoteParent.

\* Generate up to the links: the sampler, which may say anything, is asked unless
\* the parent is sampled.  A remote parent is no span of this program.
StartSpan(t, s, parent, sampled, params, parents) ==
  /\ s \notin started
  /\ parent \in DOMAIN impl => sampled
  /\ Goto(t, "idle", "link")
  /\ started' = started \cup {s}
  /\ impl' = IF sampled THEN Extend(impl, s, NewSpanImpl(0)) ELSE impl
  /\ limits' = IF sampled THEN Extend(limits, s, params) ELSE limits
  /\ span' = [span EXCEPT ![t] = s]
  /\ links_' = [links_ EXCEPT ![t] = parents]
  /\ UNCHANGED <<known, stores, changes, attempts, handed>>

\* Mutant: the parent gets a link of the wrong type.
LinkOfWrongType(s) == ParentLink(s)

\* What a parent is told of: AddChildLink(context)
LinkForParent(s) == ChildLink(s)

\* One parent link: AddLink on the new span, which nobody else has yet, and
\* AddChildLink on the parent, which may be recording or not, or have ended.
Link(t) ==
  LET s == span[t]
      p == Head(links_[t])
      told == IsRecording(p) /\ ~impl[p].has_ended
      \* The links that x gets.
      new(x) == CASE x = s /\ IsRecording(s) -> {ParentLink(p)}
                  [] x = p /\ told -> {LinkForParent(s)}
                  [] OTHER -> {}
  IN
  /\ pc[t] = "link" /\ links_[t] # <<>>
  /\ impl' = [x \in DOMAIN impl |->
       IF new(x) = {} THEN impl[x]
       ELSE [impl[x] EXCEPT !.links =
               AddEvent(@, CHOOSE e \in new(x) : TRUE, limits[x]["links"])]]
  /\ attempts' = [x \in SpanIds |->
       [attempts[x] EXCEPT !["links"] = @ \o SetToSeq(new(x))]]
  /\ links_' = [links_ EXCEPT ![t] = Tail(@)]
  /\ UNCHANGED <<started, limits, known, stores, pc, span, changes, handed>>

\* The running store after AddSpan.
Tracked(s) == IF IsRecording(s) THEN running_ \cup {s} ELSE running_

\* The constructor of Span: the running store learns of a recording span.
Started(t) ==
  LET s == span[t] IN
  /\ links_[t] = <<>>
  /\ Goto(t, "link", "idle")
  /\ running_' = Tracked(s)
  /\ known' = known \cup {s}
  /\ span' = [span EXCEPT ![t] = NoSpan]
  /\ UNCHANGED <<started, impl, limits, local_, filed, links_, changes,
                 attempts, handed>>

----------------------------------------------------------------------------
\* Span::End.

\* Mutant: has_ended_ is read, and the mutex released, before it is set.
EndUnguarded(t, s) ==
  /\ s \in known /\ IsRecording(s)
  /\ Goto(t, "idle", "remove")
  /\ impl' = [impl EXCEPT ![s].has_ended = TRUE]
  /\ span' = [span EXCEPT ![t] = s]
  /\ UNCHANGED <<started, limits, known, stores, links_, changes,
                 attempts, handed>>

\* SpanImpl::End, for the first time.
End(t, s) ==
  /\ s \in known /\ IsRecording(s) /\ ~impl[s].has_ended
  /\ Goto(t, "idle", "remove")
  /\ impl' = [impl EXCEPT ![s].has_ended = TRUE]
  /\ span' = [span EXCEPT ![t] = s]
  /\ UNCHANGED <<started, limits, known, stores, links_, changes,
                 attempts, handed>>

\* A second End is ignored.
EndAgain(t, s) ==
  /\ pc[t] = "idle" /\ s \in known /\ IsRecording(s) /\ impl[s].has_ended
  /\ UNCHANGED vars

\* Mutant: the span stays in the running store.
RemoveNothing(t) == Goto(t, "remove", "store") /\ UNCHANGED <<spans, stores, span,
                      links_, changes, attempts, handed>>

\* RunningSpanStoreImpl::RemoveSpan
RemoveSpan(t) ==
  /\ Goto(t, "remove", "store")
  /\ running_' = running_ \ {span[t]}
  /\ UNCHANGED <<spans, local_, filed, span, links_, changes, attempts,
                 handed>>

\* LocalSpanStoreImpl::AddSpan: a copy is kept, the oldest one makes room.
AddToLocalStore(t) ==
  LET copy == [span |-> span[t], data |-> ToSpanData(impl[span[t]])] IN
  /\ Goto(t, "store", "export")
  /\ local_' = <<copy>> \o (IF Len(local_) >= kMaxSpans THEN Front(local_) ELSE local_)
  /\ filed' = Append(filed, copy)
  /\ UNCHANGED <<spans, running_, span, links_, changes, attempts,
                 handed>>

\* SpanExporterImpl::AddSpan
HandToExporter(t) ==
  /\ Goto(t, "export", "idle")
  /\ handed' = Append(handed, span[t])
  /\ span' = [span EXCEPT ![t] = NoSpan]
  /\ UNCHANGED <<spans, stores, links_, changes, attempts>>

----------------------------------------------------------------------------
\* The parent links of a StartSpan: no two to the same span.
ParentLists == {parents \in BoundedSeq(known, 2) : IsInjective(parents)}

Call(t) ==
  \/ \E s \in SpanIds, parent \in known \cup {NoSpan}, sampled \in BOOLEAN,
        params \in Params, parents \in ParentLists :
       StartSpan(t, s, parent, sampled, params, parents)
  \/ \E s \in known :
       \/ \E queue \in Queues : AddEventTo(t, s, queue)
       \/ \E key \in Keys : AddAttributes(t, s, key)
       \/ SetStatus(t, s) \/ SetName(t, s)
       \/ End(t, s) \/ EndAgain(t, s)

\* Up to the hand-over to the exporter, which Tracing joins with its AddSpan.
Continue(t) == Link(t) \/ Started(t) \/ RemoveSpan(t) \/ AddToLocalStore(t)

Next ==
  \E t \in Threads : Call(t) \/ Continue(t) \/ HandToExporter(t)

Fairness ==
  \A t \in Threads :
    WF_vars(Continue(t) \/ HandToExporter(t))

Spec == Init /\ [][Next]_vars /\ Fairness
=============================================================================
