---------------------------- MODULE SpanContents ----------------------------
(***************************************************************************)
(* What a SpanImpl keeps of a span: TraceEvents, bounded queues of events, *)
(* and AttributeList, a bounded map.                                       *)
(***************************************************************************)
EXTENDS Naturals, Sequences, FiniteSets

----------------------------------------------------------------------------
\* TraceEvents: `total` counts the events that were not refused.
NewEvents == [events |-> <<>>, total |-> 0]

AddEvent(queue, event, max) ==
  IF max = 0 THEN queue
  ELSE [events |-> Append(IF Len(queue.events) >= max THEN Tail(queue.events)
                                                      ELSE queue.events, event),
        total |-> queue.total + 1]

NumEventsDropped(queue) == queue.total - Len(queue.events)

----------------------------------------------------------------------------
\* AttributeList.
NewAttributes == [map |-> [key \in {} |-> 0], total |-> 0]

Put(map, key, value) ==
  [k \in DOMAIN map \cup {key} |-> IF k = key THEN value ELSE map[k]]

\* Mutant: an update counts as a new attribute.
AddAttributeCounting(list, key, value, max) ==
  IF max = 0 THEN {list}
  ELSE IF key \in DOMAIN list.map \/ Cardinality(DOMAIN list.map) < max
  THEN {[map |-> Put(list.map, key, value), total |-> list.total + 1]}
  ELSE {[map |-> Put([k \in DOMAIN list.map \ {victim} |-> list.map[k]], key, value),
         total |-> list.total + 1] : victim \in DOMAIN list.map}

\* The lists that AddAttribute can leave: a new key evicts the first element of
\* an unordered_map that is full, which is any.
AddAttribute(list, key, value, max) ==
  IF max = 0 THEN {list}
  ELSE IF key \in DOMAIN list.map
  THEN {[list EXCEPT !.map[key] = value]}
  ELSE IF Cardinality(DOMAIN list.map) < max
  THEN {[map |-> Put(list.map, key, value), total |-> list.total + 1]}
  ELSE {[map |-> Put([k \in DOMAIN list.map \ {victim} |-> list.map[k]], key, value),
         total |-> list.total + 1] : victim \in DOMAIN list.map}

NumAttributesDropped(list) == list.total - Cardinality(DOMAIN list.map)

----------------------------------------------------------------------------
\* SpanImpl's constructor.
NewSpanImpl(name) ==
  [name |-> name, status |-> 0,
   annotations |-> NewEvents, message_events |-> NewEvents, links |-> NewEvents,
   attributes |-> NewAttributes, has_ended |-> FALSE]

\* CopyTraceEvents and CopyEventWithTime, with the count that goes with the copy.
CopyEvents(queue) == [events |-> queue.events, dropped |-> NumEventsDropped(queue)]

\* SpanData's constructor: the rest of a span is in it as it is in the SpanImpl.
SpanData(span_impl, annotations, message_events, links, attributes) ==
  [span_impl EXCEPT !.annotations = annotations, !.message_events = message_events,
                    !.links = links, !.attributes = attributes]

\* SpanImpl::ToSpanData: a copy in which what was dropped is a number.
ToSpanData(span_impl) ==
  SpanData(span_impl, CopyEvents(span_impl.annotations),
           CopyEvents(span_impl.message_events), CopyEvents(span_impl.links),
           [map |-> span_impl.attributes.map,
            dropped |-> NumAttributesDropped(span_impl.attributes)])
=============================================================================
