------------------------- MODULE ComponentProperties -------------------------
(***************************************************************************)
(* Components that share no state with any other, and what those of one    *)
(* part of the library promise together.  MCComponents runs one of them at *)
(* a time; ComponentsProofs is about each.                                 *)
(***************************************************************************)
EXTENDS Contexts, Sampling, AttributeValues, Identifiers, LocalSpanStore, RunningSpanStore,
        Registrations, StackdriverStats

\* The LocalSpanStore keeps the newest spans when it is full, and its summary and
\* queries are about the spans it keeps; the RunningSpanStore's queries are about the
\* spans in it, under names that they have while the query runs.
SpanStoresAnswer == StoreAnswers /\ RunningAnswers

\* Under a sampled span all spans are sampled, in any process, and with one probability
\* a trace is decided as its root is; spans are told apart by ids that no other span was
\* given, in all the forms that an id takes; and the values of a span's attributes
\* survive the copies and moves on their way to the exporters.
SpanDataAgrees == SamplingConsistent /\ IdentitiesAgree /\ ValuesKept
=============================================================================
