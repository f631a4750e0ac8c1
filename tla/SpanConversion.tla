--------------------------- MODULE SpanConversion ---------------------------
(***************************************************************************)
(* What the trace exporters send of a span: the Span protos of the OC      *)
(* agent and of Stackdriver, Zipkin's JSON, and the text on stdout.  A     *)
(* string stands for its length, a JSON object for its members in order.   *)
(***************************************************************************)
EXTENDS SpanContents, SpanValues, Functions

CONSTANTS
  MaxEvents,     \* the limits of the span's TraceParams
  MaxAttributes,
  Strings,       \* lengths of names
  Annotations,   \* what AddAnnotation is given: a description and pairs of attributes
  Messages,      \* Add...MessageEvent: a type, an id and two sizes
  Links,         \* Add...Link: a type, the context of a span, and pairs of attributes
  Attributes,    \* what AddAttribute is given: keys and values
  Statuses,      \* what SetStatus is given last: a code and a message
  kDisplayNameStringLen, kAnnotationStringLen, kAttributeStringLen,
  kAgentKey,     \* the attribute that the Stackdriver exporter adds
  kAgentValue,   \* the length of its value
  MaxFills       \* bound on the changes of the span

VARIABLES
  recorded, \* the SpanImpl
  offered   \* history: what the span was offered, by kind, in order

fillVars == <<recorded, offered>>

Kinds == {"annotations", "message_events", "links"}

\* The number of changes is the time.
Fills == Len(offered.attributes) +
         Len(offered.annotations) + Len(offered.message_events) + Len(offered.links)

\* The parent's id is 0 if there is none.
FillInit ==
  /\ recorded \in {[context |-> [trace_id |-> 1, span_id |-> 7], parent |-> p,
                    remote_parent |-> r, start_time |-> 0, end_time |-> 0,
                    status |-> OkStatus] @@ NewSpanImpl(n) :
                     p \in {0, 1}, r \in BOOLEAN, n \in Strings}
  /\ offered = [kind \in Kinds \cup {"attributes", "status"} |-> <<>>]

\* A SpanImpl that has ended is not changed.
Offer(kind, item) ==
  /\ ~recorded.has_ended /\ Fills < MaxFills
  /\ offered' = [offered EXCEPT ![kind] = Append(@, [time |-> Fills, item |-> item])]

Keep(kind, event) ==
  recorded' = [recorded EXCEPT ![kind] = AddEvent(@, EventWithTime(Fills, event), MaxEvents)]

AddAnnotation(annotation) ==
  /\ Offer("annotations", annotation)
  /\ Keep("annotations",
          Annotation(annotation.description, CopyAttributes(annotation.attributes)))

\* AddSentMessageEvent and AddReceivedMessageEvent.
AddMessageEvent(message) ==
  /\ Offer("message_events", message)
  /\ Keep("message_events",
          MessageEvent(message.type, message.message_id, message.compressed_message_size,
                       message.uncompressed_message_size))

\* AddChildLink and AddParentLink.  (The time of a link is not sent.)
AddLink(link) ==
  /\ Offer("links", link)
  /\ Keep("links", Link(link.context, link.type, CopyAttributes(link.attributes)))

SetAttribute(attribute) ==
  /\ Offer("attributes", attribute)
  /\ \E list \in AddAttribute(recorded.attributes, attribute.key, attribute.value,
                              MaxAttributes) :
       recorded' = [recorded EXCEPT !.attributes = list]

\* The last SetStatus, if there is one, and End.
EndSpan ==
  /\ ~recorded.has_ended
  /\ \E set \in {<<>>} \cup {<<status>> : status \in Statuses} :
       /\ offered' = [offered EXCEPT !.status = set]
       /\ recorded' = [recorded EXCEPT
            !.has_ended = TRUE, !.end_time = Fills,
            !.status = IF set = <<>> THEN @ ELSE Status(set[1].code, set[1].message)]

FillNext ==
  \/ \E annotation \in Annotations : AddAnnotation(annotation)
  \/ \E message \in Messages : AddMessageEvent(message)
  \/ \E link \in Links : AddLink(link)
  \/ \E attribute \in Attributes : SetAttribute(attribute)
  \/ EndSpan

----------------------------------------------------------------------------
\* The conversions, of a SpanData.  A value of an attribute is a record of its type
\* and, for a string, its length.

\* Mutant: the count is of the bytes kept.
CountKept(length, max_len) ==
  IF length > max_len
  THEN [value |-> max_len, truncated_byte_count |-> max_len]
  ELSE [value |-> length, truncated_byte_count |-> 0]

SetTruncatableString(length, max_len) ==
  IF length > max_len
  THEN [value |-> max_len, truncated_byte_count |-> length - max_len]
  ELSE [value |-> length, truncated_byte_count |-> 0]

PopulateAttributes(attributes, attribute_map) ==
  [key \in DOMAIN attributes |->
     LET attribute == attributes[key] IN
     IF attribute.type = "string"
     THEN [string_value |-> SetTruncatableString(attribute.value, kAttributeStringLen)]
     ELSE IF attribute.type = "bool" THEN [bool_value |-> attribute.value]
     ELSE [int_value |-> attribute.value]]
  @@ attribute_map

ConvertLinkType(type) ==
  IF type = "kChildLinkedSpan" THEN "CHILD_LINKED_SPAN" ELSE "PARENT_LINKED_SPAN"

ConvertMessageType(type) == IF type \in {"SENT", "RECEIVED"} THEN type ELSE "TYPE_UNSPECIFIED"

ConvertMessageEvent(event) ==
  [type |-> ConvertMessageType(event.type), id |-> event.id,
   uncompressed_size |-> event.uncompressed_size, compressed_size |-> event.compressed_size]

\* ConvertTimeEvents: the annotations, and after them the message events.
ConvertTimeEvents(span) ==
  [time_event |->
     [i \in DOMAIN span.annotations.events |->
        LET annotation == span.annotations.events[i] IN
        [time |-> annotation.time, type |-> "annotation",
         description |-> SetTruncatableString(annotation.event.description,
                                              kAnnotationStringLen),
         attributes |-> PopulateAttributes(annotation.event.attributes, <<>>)]]
     \o [i \in DOMAIN span.message_events.events |->
           [time |-> span.message_events.events[i].time, type |-> "message_event",
            message_event |-> ConvertMessageEvent(span.message_events.events[i].event)]],
   dropped_annotations_count |-> span.annotations.dropped,
   dropped_message_events_count |-> span.message_events.dropped]

\* ConvertAttributes, and then ConvertLinks, which puts the attributes of the links
\* among those of the span.
ConvertAttributes(span) ==
  FoldLeft(LAMBDA attribute_map, link : PopulateAttributes(link.event.attributes, attribute_map),
           PopulateAttributes(span.attributes.map, <<>>), span.links.events)

ConvertLinks(span) ==
  [link |-> [i \in DOMAIN span.links.events |->
               [trace_id |-> span.links.events[i].event.trace_id,
                span_id |-> span.links.events[i].event.span_id,
                type |-> ConvertLinkType(span.links.events[i].event.type)]],
   dropped_links_count |-> span.links.dropped]

\* The agent's ConvertSpans: no parent, no parent_span_id.
OcAgentSpan(span) ==
  [trace_id |-> span.context.trace_id, span_id |-> span.context.span_id,
   name |-> SetTruncatableString(span.name, kDisplayNameStringLen),
   parent_span_id |-> IF span.parent # 0 THEN {span.parent} ELSE {},
   start_time |-> span.start_time, end_time |-> span.end_time,
   attribute_map |-> ConvertAttributes(span),
   dropped_attributes_count |-> span.attributes.dropped,
   time_events |-> ConvertTimeEvents(span), links |-> ConvertLinks(span),
   status |-> [code |-> span.status.code, message |-> span.status.error_message],
   same_process_as_parent_span |-> ~span.remote_parent]

\* Stackdriver's: it always writes a parent, zeros if there is none, and adds an
\* attribute of its own.
StackdriverSpan(span) ==
  [OcAgentSpan(span) EXCEPT
     !.parent_span_id = {span.parent},
     !.attribute_map = (kAgentKey :> [string_value |->
                          SetTruncatableString(kAgentValue, kAttributeStringLen)]) @@ @]

\* Zipkin's texts, as the sequences of what is put together for them.
AttributeValueToString(value) ==
  IF value.type = "bool" THEN <<IF value.value = 1 THEN "true" ELSE "false">>
                         ELSE <<value.value>>

SerializeMessageEvent(event) == <<event.type, event.id, event.compressed_size>>

\* The attributes are in the order of a hash map.
SerializeAnnotation(annotation) ==
  <<annotation.description>> \o
  FlattenSeq([i \in DOMAIN SetToSeq(DOMAIN annotation.attributes) |->
    LET key == SetToSeq(DOMAIN annotation.attributes)[i]
    IN <<key>> \o AttributeValueToString(annotation.attributes[key])])

JsonEvents(time_events, Serialize(_)) ==
  IF time_events.events = <<>> THEN <<>>
  ELSE <<[key |-> "annotations",
          value |-> [i \in DOMAIN time_events.events |->
            [timestamp |-> time_events.events[i].time,
             value |-> Serialize(time_events.events[i].event)]]]>>

\* SerializeJson: the members of the object for a span, in their order.  Those that
\* are the same for all spans are left out.
ZipkinSpan(span) ==
  <<[key |-> "name", value |-> span.name]>>
  \o (IF span.parent # 0 THEN <<[key |-> "parentId", value |-> span.parent]>> ELSE <<>>)
  \o JsonEvents(span.annotations, SerializeAnnotation)
  \o JsonEvents(span.message_events, SerializeMessageEvent)
  \o (IF DOMAIN span.attributes.map = {} THEN <<>>
      ELSE <<[key |-> "tags",
              value |-> [key \in DOMAIN span.attributes.map |->
                           AttributeValueToString(span.attributes.map[key])]]>>)
  \o <<[key |-> "timestamp", value |-> span.start_time],
       [key |-> "duration", value |-> span.end_time - span.start_time]>>

\* SpanData::DebugString, which StdoutExporter writes for each span: headings, each
\* with the lines below it.
StdoutSpan(span) ==
  LET Lines(heading, dropped, lines) ==
        [heading |-> heading, dropped |-> dropped, lines |-> lines]
  IN [span |-> <<span.name, span.context, span.parent, span.remote_parent,
                 span.start_time, span.end_time, span.has_ended>>,
      attributes |-> Lines("Attributes", span.attributes.dropped, span.attributes.map),
      annotations |-> Lines("Annotations", span.annotations.dropped, span.annotations.events),
      message_events |-> Lines("Message events", span.message_events.dropped,
                               span.message_events.events),
      links |-> Lines("Links", span.links.dropped,
                      [i \in DOMAIN span.links.events |->
                         [type |-> span.links.events[i].event.type,
                          trace_id |-> span.links.events[i].event.trace_id,
                          span_id |-> span.links.events[i].event.span_id]]),
      status |-> StatusToString(span.status)]

----------------------------------------------------------------------------
\* A string is cut at its limit, and what was cut off is counted.
Whole(t_str, length, max_len) ==
  /\ t_str.value + t_str.truncated_byte_count = length
  /\ t_str.value <= max_len
  /\ t_str.truncated_byte_count > 0 => t_str.value = max_len

\* A value is sent with its type, a string whole or cut.
SentAs(sent, value) ==
  CASE value.type = "string" ->
         "string_value" \in DOMAIN sent /\ Whole(sent.string_value, value.value, kAttributeStringLen)
    [] value.type = "bool" -> sent = [bool_value |-> value.value]
    [] value.type = "int" -> sent = [int_value |-> value.value]

\* Attributes are sent with their keys.
AllSentAs(attribute_map, attributes) ==
  /\ DOMAIN attribute_map = DOMAIN attributes
  /\ \A key \in DOMAIN attributes : SentAs(attribute_map[key], attributes[key])

\* The value that pairs of attributes give a key.
Given(pairs) ==
  [key \in {pairs[i].key : i \in DOMAIN pairs} |->
     Last(SelectSeq(pairs, LAMBDA pair : pair.key = key)).value]

\* The events of a kind that are sent are the last that were offered, in order.
LastOffered(events, dropped, kind, Same(_, _)) ==
  /\ Len(events) + dropped = Len(offered[kind])
  /\ \A i \in DOMAIN events : Same(events[i], offered[kind][dropped + i])

SameAnnotation(sent, annotation) ==
  /\ sent.time = annotation.time
  /\ Whole(sent.description, annotation.item.description, kAnnotationStringLen)
  /\ AllSentAs(sent.attributes, Given(annotation.item.attributes))

SameMessageEvent(sent, message) ==
  /\ sent.time = message.time
  /\ sent.message_event.type = message.item.type
  /\ sent.message_event.id = message.item.message_id
  /\ sent.message_event.compressed_size = message.item.compressed_message_size
  /\ sent.message_event.uncompressed_size = message.item.uncompressed_message_size

SameLink(sent, link) ==
  /\ sent.span_id = link.item.context.span_id /\ sent.trace_id = link.item.context.trace_id
  /\ sent.type = "CHILD_LINKED_SPAN" <=> link.item.type = "kChildLinkedSpan"

EventsOf(span, type) == SelectSeq(span.time_events.time_event, LAMBDA e : e.type = type)

LastValue(key) ==
  Last(SelectSeq(offered.attributes, LAMBDA a : a.item.key = key)).item.value

\* What the links that were offered after the first ones give keys.
GivenByLinks(dropped) ==
  LET links == SubSeq(offered.links, dropped + 1, Len(offered.links)) IN
  Given(FlattenSeq([i \in DOMAIN links |-> links[i].item.attributes]))

\* The last status that was set, with its message unless it is OK.
StatusSent(code, message) ==
  IF offered.status = <<>> THEN code = 0 /\ message = 0
  ELSE /\ code = offered.status[1].code
       /\ message = IF code = 0 THEN 0 ELSE offered.status[1].message

\* All that a span was offered is sent to the agent and to Stackdriver or counted as
\* dropped; events in their order, attributes with the last value they were given, or
\* that of a link with the same key, strings whole or cut and counted.  Zipkin is sent
\* the same events at the same times.  On stdout there is as much of each kind, with
\* the name of each status but OK.
SpanAccounted ==
  recorded.has_ended =>
  LET data == ToSpanData(recorded) IN
  /\ \A span \in {OcAgentSpan(data), StackdriverSpan(data)} :
    /\ Whole(span.name, recorded.name, kDisplayNameStringLen)
    /\ StatusSent(span.status.code, span.status.message)
    /\ LastOffered(EventsOf(span, "annotation"), span.time_events.dropped_annotations_count,
                   "annotations", SameAnnotation)
    /\ LastOffered(EventsOf(span, "message_event"),
                   span.time_events.dropped_message_events_count,
                   "message_events", SameMessageEvent)
    /\ LastOffered(span.links.link, span.links.dropped_links_count, "links", SameLink)
    /\ LET linked == GivenByLinks(span.links.dropped_links_count)
           own == DOMAIN recorded.attributes.map IN
       /\ DOMAIN span.attribute_map \ {kAgentKey} = (own \cup DOMAIN linked) \ {kAgentKey}
       /\ \A key \in DOMAIN span.attribute_map \ {kAgentKey} :
            SentAs(span.attribute_map[key],
                   IF key \in DOMAIN linked THEN linked[key] ELSE LastValue(key))
  /\ LET members == SelectSeq(ZipkinSpan(data), LAMBDA m : m.key = "annotations")
         sent == FlattenSeq([i \in DOMAIN members |-> members[i].value])
     IN [i \in DOMAIN sent |-> sent[i].timestamp] =
          [i \in DOMAIN OcAgentSpan(data).time_events.time_event |->
             OcAgentSpan(data).time_events.time_event[i].time]
  /\ LET text == StdoutSpan(data) IN
     /\ \A kind \in Kinds : Len(text[kind].lines) + text[kind].dropped = Len(offered[kind])
     /\ text.attributes.dropped + Cardinality(DOMAIN text.attributes.lines) >=
          Cardinality({a.item.key : a \in ToSet(offered.attributes)})
     /\ text.status = <<"OK">> <=> offered.status = <<>> \/ offered.status[1].code = 0
     /\ text.status[1] \in ToSet(StatusCode)
=============================================================================
