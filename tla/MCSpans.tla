------------------------------ MODULE MCSpans ------------------------------
(* Small instances of Spans for TLC. *)
EXTENDS SpansProperties

Limit(annotations, message_events, links, attributes) ==
  [q \in Queues \cup {"attributes"} |->
     CASE q = "annotations" -> annotations [] q = "message_events" -> message_events
       [] q = "links" -> links [] OTHER -> attributes]

\* Every queue at its limit, or with none, after two changes.
Several == {Limit(1, 0, 1, 1), Limit(2, 1, 0, 2)}

=============================================================================
