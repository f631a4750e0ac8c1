---------------------------- MODULE Propagation ----------------------------
(***************************************************************************)
(* A request that carries a SpanContext and a TagMap from one service to   *)
(* the next, each time in one of the header formats of trace/propagation   *)
(* and tags/propagation.  Hexadecimal and decimal digits stand for their   *)
(* numbers, so a trace header is a record of its fields; the tags' header  *)
(* is a sequence of bytes, of Bits + 1 bits each.                          *)
(***************************************************************************)
EXTENDS Integers, Sequences, SequencesExt, FiniteSets, FiniteSetsExt, Folds

CONSTANTS
  Halves,    \* what 8 of the 16 bytes of a trace id can be; 0 is all zeros
  SpanIds,   \* span ids, as big-endian numbers
  Options,   \* the byte of trace options; an odd one is sampled
  Bits,      \* bits of a number in a byte of a varint (7)
  IntWidth,  \* bits of a number (32)
  kMaxLen,   \* the longest header of tags (8192)
  TagNames,  \* names of tag keys, as sequences of bytes
  TagValues, \* values of tags, as sequences of bytes
  MaxHops    \* bound on the services

VARIABLES
  context,  \* the SpanContext at the present service
  expected, \* history: the ids and the decision that were handed on
  rejected, \* history: a header of the context was damaged
  registered_tag_keys_, \* the names of the tag keys, by id
  tags,     \* the TagMap at the present service, from name to value
  sent,     \* history: the TagMap of the first service
  hops      \* history: how often the request was passed on

requestVars ==
  <<context, expected, rejected, registered_tag_keys_, tags, sent, hops>>

----------------------------------------------------------------------------
\* SpanContext.

SpanContext == [trace : Halves \X Halves, span : SpanIds, options : Options]
InvalidContext == [trace |-> <<0, 0>>, span |-> 0, options |-> 0]
IsValid(ctx) == ctx.trace # <<0, 0>> /\ ctx.span # 0
HasIds(ctx) == ctx.trace # <<0, 0>> \/ ctx.span # 0
IsSampled(ctx) == ctx.options % 2 = 1

\* digits says how the ids are written: in lower case, in upper case, or with
\* something that is not a digit, or not the right number of them.
ToB3Headers(ctx) ==
  [trace |-> ctx.trace, span |-> ctx.span, digits |-> "lower",
   sampled |-> IF IsSampled(ctx) THEN "1" ELSE "0", flags |-> ""]

FromB3Headers(h) ==
  IF \/ h.sampled \notin {"1", "0", ""}
     \/ h.flags \notin {"1", ""}
     \/ h.digits = "bad"
  THEN InvalidContext
  ELSE [trace |-> IF Len(h.trace) = 2 THEN h.trace ELSE <<0>> \o h.trace,
        span |-> h.span,
        options |-> IF "1" \in {h.sampled, h.flags} THEN 1 ELSE 0]

ToCloudTraceContextHeader(ctx) ==
  [trace |-> ctx.trace, span |-> ctx.span, digits |-> "lower",
   sampled |-> IF IsSampled(ctx) THEN "1" ELSE "0"]

\* The options are digits '0' to '3', or are left out; the span id must be a
\* decimal number other than zero.
FromCloudTraceContextHeader(h) ==
  IF \/ h.sampled \notin {"0", "1", "2", "3", ""}
     \/ h.span = 0
     \/ h.digits = "bad"
  THEN InvalidContext
  ELSE [trace |-> h.trace, span |-> h.span,
        options |-> IF h.sampled \in {"1", "3"} THEN 1 ELSE 0]

ToTraceParentHeader(ctx) ==
  [trace |-> ctx.trace, span |-> ctx.span, digits |-> "lower", version |-> 0,
   options |-> ctx.options]

FromTraceParentHeader(h) ==
  IF h.version # 0 \/ h.digits # "lower" THEN InvalidContext
  ELSE [trace |-> h.trace, span |-> h.span, options |-> h.options]

\* Bytes, not digits: a header that goes on after the options is not bad.
ToGrpcTraceBinHeader(ctx) ==
  [trace |-> ctx.trace, span |-> ctx.span, digits |-> "none", version |-> 0,
   options |-> ctx.options]

FromGrpcTraceBinHeader(h) ==
  IF h.version # 0 \/ h.digits = "bad" THEN InvalidContext
  ELSE [trace |-> h.trace, span |-> h.span, options |-> h.options % 2]

----------------------------------------------------------------------------
\* Varints: numbers of IntWidth bits, Bits at a time, the low ones first.

More == 2^Bits \* the bit of a byte that says that another one follows

AppendVarint32[i \in 0 .. 2^IntWidth - 1] ==
  IF i < More THEN <<i>> ELSE <<More + (i % More)>> \o AppendVarint32[i \div More]

\* The number of bytes of the largest number; its last byte has few bits.
LongestVarint == (IntWidth - 1) \div Bits + 1
LastBits == IntWidth - Bits * (LongestVarint - 1)

Malformed == [ok |-> FALSE, value |-> 0, rest |-> <<>>]

ParseVarint32(input) ==
  LET ends == {i \in DOMAIN input : input[i] < More}
      n == Min(ends)
  IN IF \/ ends = {} \/ n > LongestVarint
        \/ n = LongestVarint /\ input[n] >= 2^LastBits
     THEN Malformed
     ELSE [ok |-> TRUE, rest |-> SubSeq(input, n + 1, Len(input)),
           value |-> FoldLeftDomain(LAMBDA value, i :
                       value + (input[i] % More) * More^(i - 1),
                       0, SubSeq(input, 1, n))]

----------------------------------------------------------------------------
\* Tags.

\* The bytes of a key or of a value: their number, and themselves.
Counted(bytes) == AppendVarint32[Len(bytes)] \o bytes

Entry(key, value) == <<0>> \o Counted(key) \o Counted(value)

\* Tags are sorted by key, and keys by id.
SortedKeys(map) == SelectSeq(registered_tag_keys_, LAMBDA key : key \in DOMAIN map)

\* Mutant: the limit is checked before the last tag is written.
ToGrpcTagsBinHeaderUnchecked(map) ==
  FoldLeft(LAMBDA out, key : IF Len(out) > kMaxLen THEN <<>>
                             ELSE out \o Entry(key, map[key]),
           <<0>>, SortedKeys(map))

ToGrpcTagsBinHeader(map) ==
  LET out == FoldLeft(LAMBDA bytes, key : bytes \o Entry(key, map[key]), <<0>>,
                      SortedKeys(map))
  IN IF Len(out) > kMaxLen THEN <<>> ELSE out

EmptyMap == [key \in {} |-> <<>>]

\* A number, and that many bytes.
ParseCounted(input) ==
  LET n == ParseVarint32(input) IN
  IF ~n.ok \/ n.value > Len(n.rest) THEN [ok |-> FALSE, bytes |-> <<>>, rest |-> <<>>]
  ELSE [ok |-> TRUE, bytes |-> SubSeq(n.rest, 1, n.value),
        rest |-> SubSeq(n.rest, n.value + 1, Len(n.rest))]

\* The loop over the tags: of equal keys the last counts, empty ones are dropped.
RECURSIVE ParseTags(_, _)
ParseTags(header, keys_vals) ==
  IF header = <<>> THEN [ok |-> TRUE, map |-> keys_vals]
  ELSE LET key == ParseCounted(Tail(header))
           val == ParseCounted(key.rest)
       IN IF Head(header) # 0 \/ ~key.ok \/ ~val.ok
          THEN [ok |-> FALSE, map |-> EmptyMap]
          ELSE ParseTags(val.rest,
                 IF key.bytes = <<>> THEN keys_vals
                 ELSE [k \in DOMAIN keys_vals \cup {key.bytes} |->
                         IF k = key.bytes THEN val.bytes ELSE keys_vals[k]])

FromGrpcTagsBinHeader(header) ==
  IF header = <<>> \/ Len(header) > kMaxLen \/ Head(header) # 0
  THEN [ok |-> FALSE, map |-> EmptyMap]
  ELSE ParseTags(Tail(header), EmptyMap)

----------------------------------------------------------------------------
RequestInit ==
  /\ context \in SpanContext
  /\ expected = [trace |-> context.trace, span |-> context.span,
                 sampled |-> IsSampled(context)]
  /\ rejected = FALSE
  /\ tags \in UNION {[keys -> TagValues] : keys \in SUBSET TagNames}
  /\ sent = tags
  /\ registered_tag_keys_ = SetToSeq(DOMAIN tags)
  /\ hops = 0

Arrive(ctx) == context' = ctx /\ hops' = hops + 1 /\ UNCHANGED <<registered_tag_keys_, tags, sent>>

\* A header arrives as it was sent, but perhaps in upper case.
HopB3 ==
  LET header == ToB3Headers(context) IN
  \/ \E digits \in {"lower", "upper"} :
       /\ Arrive(FromB3Headers([header EXCEPT !.digits = digits]))
       /\ UNCHANGED <<expected, rejected>>
  \* A service between has ids of 64 bits ...
  \/ /\ Arrive(FromB3Headers([header EXCEPT !.trace = <<@[2]>>]))
     /\ expected' = [expected EXCEPT !.trace = <<0, @[2]>>]
     /\ UNCHANGED rejected
  \* ... or leaves the decision to the next service, or wants the trace.
  \/ \E flags \in {"", "1"} :
       /\ Arrive(FromB3Headers([header EXCEPT !.sampled = "", !.flags = flags]))
       /\ expected' = [expected EXCEPT !.sampled = (flags = "1")]
       /\ UNCHANGED rejected
  \/ \E damaged \in {[header EXCEPT !.digits = "bad"], [header EXCEPT !.sampled = "true"],
                     [header EXCEPT !.flags = "0"]} :
       /\ Arrive(FromB3Headers(damaged))
       /\ rejected' = TRUE /\ UNCHANGED expected

HopCloudTraceContext ==
  LET header == ToCloudTraceContextHeader(context) IN
  \/ \E digits \in {"lower", "upper"} :
       /\ Arrive(FromCloudTraceContextHeader([header EXCEPT !.digits = digits]))
       /\ UNCHANGED <<expected, rejected>>
  \/ \E sampled \in {"", "2", "3"} :
       /\ Arrive(FromCloudTraceContextHeader([header EXCEPT !.sampled = sampled]))
       /\ expected' = [expected EXCEPT !.sampled = (sampled = "3")]
       /\ UNCHANGED rejected
  \/ \E damaged \in {[header EXCEPT !.digits = "bad"], [header EXCEPT !.sampled = "4"]} :
       /\ Arrive(FromCloudTraceContextHeader(damaged))
       /\ rejected' = TRUE /\ UNCHANGED expected

HopTraceParent ==
  LET header == ToTraceParentHeader(context) IN
  \/ /\ Arrive(FromTraceParentHeader(header))
     /\ UNCHANGED <<expected, rejected>>
  \/ \E damaged \in {[header EXCEPT !.digits = "upper"], [header EXCEPT !.digits = "bad"],
                     [header EXCEPT !.version = 1]} :
       /\ Arrive(FromTraceParentHeader(damaged))
       /\ rejected' = TRUE /\ UNCHANGED expected

HopGrpcTraceBin ==
  LET header == ToGrpcTraceBinHeader(context) IN
  \/ /\ Arrive(FromGrpcTraceBinHeader(header))
     /\ UNCHANGED <<expected, rejected>>
  \/ \E damaged \in {[header EXCEPT !.digits = "bad"], [header EXCEPT !.version = 1]} :
       /\ Arrive(FromGrpcTraceBinHeader(damaged))
       /\ rejected' = TRUE /\ UNCHANGED expected

\* The tags arrive, or less than their header does, in a service that registers
\* their keys in any order.
HopGrpcTagsBin ==
  LET header == ToGrpcTagsBinHeader(tags) IN
  \E n \in 0 .. Len(header) :
    LET parsed == FromGrpcTagsBinHeader(SubSeq(header, 1, n)) IN
    /\ tags' = IF parsed.ok THEN parsed.map ELSE EmptyMap
    /\ registered_tag_keys_' \in SetToSeqs(DOMAIN tags')
    /\ hops' = hops + 1
    /\ UNCHANGED <<context, expected, rejected, sent>>

RequestNext ==
  /\ hops < MaxHops
  /\ HopB3 \/ HopCloudTraceContext \/ HopTraceParent \/ HopGrpcTraceBin \/ HopGrpcTagsBin

----------------------------------------------------------------------------
\* Whatever formats the services use, a span context arrives with its ids and its
\* decision or not at all, and a valid one arrives if its headers were not damaged.
ContextCarried ==
  /\ \/ ~HasIds(context)
     \/ /\ context.trace = expected.trace /\ context.span = expected.span
        /\ IsSampled(context) = expected.sampled
  /\ ~HasIds(context) /\ ~rejected =>
       expected.trace = <<0, 0>> \/ expected.span = 0

NonEmpty(map) == [key \in DOMAIN map \ {<<>>} |-> map[key]]

\* Every number is read as it was written, whatever follows it.
NumbersRead ==
  \A i \in 0 .. 2^IntWidth - 1 : \A rest \in {<<>>, <<0>>, <<More>>} :
    ParseVarint32(AppendVarint32[i] \o rest) = [ok |-> TRUE, value |-> i, rest |-> rest]

\* Tags are written if they fit, and are then read as they were, but for an empty
\* key; of a header that was cut off no wrong tag is read.
TagsCarried ==
  LET header == ToGrpcTagsBinHeader(tags) IN
  /\ \A key \in DOMAIN tags : key \in DOMAIN sent /\ tags[key] = sent[key]
  /\ header = <<>> <=>
       FoldSet(LAMBDA key, n : n + Len(Entry(key, tags[key])), 1, DOMAIN tags)
         > kMaxLen
  /\ header # <<>> => FromGrpcTagsBinHeader(header) = [ok |-> TRUE, map |-> NonEmpty(tags)]
  /\ NumbersRead

\* Both headers of a request arrive with what they carry.
HeadersCarry == ContextCarried /\ TagsCarried
=============================================================================
