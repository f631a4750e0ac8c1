------------------------------ MODULE SpanValues ------------------------------
(***************************************************************************)
(* The values a SpanData is put together from: statuses, links,            *)
(* annotations, message events and the attributes of each.  A text stands  *)
(* for its length, a span's context for its two ids and its options.       *)
(***************************************************************************)
EXTENDS Integers, Sequences, SequencesExt

----------------------------------------------------------------------------
\* The StatusCodes, in the order of their numbers, which are counted from 0.
StatusCode ==
  <<"OK", "CANCELLED", "UNKNOWN", "INVALID_ARGUMENT", "DEADLINE_EXCEEDED", "NOT_FOUND",
    "ALREADY_EXISTS", "PERMISSION_DENIED", "RESOURCE_EXHAUSTED", "FAILED_PRECONDITION",
    "ABORTED", "OUT_OF_RANGE", "UNIMPLEMENTED", "INTERNAL", "UNAVAILABLE", "DATA_LOSS",
    "UNAUTHENTICATED">>

\* The switch of CodeToString has a case for each; a number may be cast to a code.
CodeToString(code) == IF code < Len(StatusCode) THEN StatusCode[code + 1] ELSE ""

\* Status's constructors: a status that is OK has no message.
OkStatus == [code |-> 0, error_message |-> 0]

Status(code, message) ==
  [code |-> code, error_message |-> IF code = 0 THEN 0 ELSE message]

\* Status::ToString and operator==.
StatusToString(status) ==
  IF status.code = 0 THEN <<"OK">>
  ELSE <<CodeToString(status.code), ": ", status.error_message>>

SameStatus(status, that) ==
  status.code = that.code /\ status.error_message = that.error_message

----------------------------------------------------------------------------
\* CopyAttributes: of several pairs with one key the last is kept.
CopyAttributes(pairs) ==
  FoldLeft(LAMBDA out, pair :
             [key \in DOMAIN out \cup {pair.key} |->
                IF key = pair.key THEN pair.value ELSE out[key]],
           <<>>, pairs)

\* The constructors.  A Link takes the ids of the context, and not its options.
Annotation(description, attributes) ==
  [description |-> description, attributes |-> attributes]

MessageEvent(type, id, compressed_size, uncompressed_size) ==
  [type |-> type, id |-> id, compressed_size |-> compressed_size,
   uncompressed_size |-> uncompressed_size]

Link(context, type, attributes) ==
  [type |-> type, trace_id |-> context.trace_id, span_id |-> context.span_id,
   attributes |-> attributes]

EventWithTime(time, event) == [time |-> time, event |-> event]
=============================================================================
