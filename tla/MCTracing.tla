----------------------------- MODULE MCTracing -----------------------------
(* Small instances of Tracing for TLC. *)
EXTENDS Tracing

Roomy == {[q \in Queues \cup {"attributes"} |-> 1]}
=============================================================================
