---------------------------- MODULE Identifiers ----------------------------
(***************************************************************************)
(* SpanIds, TraceIds and TraceOptions as bytes: from the random generator, *)
(* through SpanContexts, copies and children, to hex digits.               *)
(*                                                                         *)
(* The values the generator gives are told apart by their number, so one   *)
(* that is used twice shows; a value may also happen to be zero.           *)
(***************************************************************************)
EXTENDS Integers, Sequences, FiniteSets

CONSTANTS
  WordBytes,   \* sizeof(uint64_t): 8
  SpanIdSize, TraceIdSize, \* SpanId::kSize, TraceId::kSize: 8 and 16
  OptionBits,  \* of the byte of TraceOptions: 8
  MaxContexts  \* bound

\* A span id is a word, and a trace id two.
ASSUME SizesAssumption ==
  /\ WordBytes \in Nat \ {0} /\ SpanIdSize = WordBytes /\ TraceIdSize = 2 * WordBytes

VARIABLES
  drawn,    \* the number of values the generator has given
  span_contexts \* the SpanContexts, with the index of that they were made from (history)

identifierVars == <<drawn, span_contexts>>

Zero == <<0, 0>>

\* Generator::Random64: the bytes of a value; the n-th one, or zero.
Word(n) == [j \in 1 .. WordBytes |-> <<n, j>>]
ZeroWord == [j \in 1 .. WordBytes |-> Zero]
Random64(n) == {Word(n), ZeroWord}

WordsIn(size) == (size + WordBytes - 1) \div WordBytes

\* Mutant: the second word is copied from the first value.
BufferOfOneValue(words, size) ==
  [k \in 1 .. size |-> words[1][((k - 1) % WordBytes) + 1]]

\* What the words leave in a buffer, the last one as far as it goes.
Buffer(words, size) ==
  [k \in 1 .. size |-> words[((k - 1) \div WordBytes) + 1][((k - 1) % WordBytes) + 1]]

\* GenerateRandomBuffer: word by word, of the values after the first n.
GenerateRandomBuffer(n, size) ==
  {Buffer(words, size) : words \in
     {w \in [1 .. WordsIn(size) -> UNION {Random64(m) : m \in n + 1 .. n + WordsIn(size)}] :
        \A i \in DOMAIN w : w[i] \in Random64(n + i)}}

\* Two hex digits for each byte.
BytesToHexString(bytes) == [k \in 1 .. 2 * Len(bytes) |-> <<bytes[(k + 1) \div 2], k % 2>>]

\* A part of an id as the integer that its bytes are copied to.
IsZero(id, from) == \A k \in from .. from + WordBytes - 1 : id[k] = Zero

\* SpanId, of one word.
BlankSpanId == [k \in 1 .. SpanIdSize |-> Zero]
SpanIdValid(span_id) == ~IsZero(span_id, 1)
SpanIdToHex(span_id) == BytesToHexString(span_id)

\* TraceId, of two.
BlankTraceId == [k \in 1 .. TraceIdSize |-> Zero]
TraceIdValid(trace_id) == ~IsZero(trace_id, 1) \/ ~IsZero(trace_id, WordBytes + 1)
TraceIdToHex(trace_id) == BytesToHexString(trace_id)

\* TraceOptions: bit 0 of the byte says that the trace is sampled.
NoOptions == 0
IsSampled(options) == options % 2 = 1
WithSampling(options, is_sampled) == options - (options % 2) + (IF is_sampled THEN 1 ELSE 0)
OptionsToHex(options) == <<options>>

\* SpanContext: operator== looks at the ids, and IsValid at both of them.
SpanContext(trace_id, span_id, trace_options) ==
  [trace_id |-> trace_id, span_id |-> span_id, trace_options |-> trace_options]
SameContext(a, b) == a.trace_id = b.trace_id /\ a.span_id = b.span_id
ContextIsValid(c) == TraceIdValid(c.trace_id) /\ SpanIdValid(c.span_id)
ContextToString(c) ==
  <<TraceIdToHex(c.trace_id), SpanIdToHex(c.span_id), OptionsToHex(c.trace_options)>>

----------------------------------------------------------------------------
\* A context, with the one it was made from, and whether for a span of its own (history).
More(c, parent, generated) ==
  /\ Len(span_contexts) < MaxContexts
  /\ span_contexts' = Append(span_contexts, [context |-> c, parent |-> parent,
                                             generated |-> generated])

\* GenerateRandomSpanId, GenerateRandomTraceId; the words that one takes.
RandomSpanIds == GenerateRandomBuffer(drawn, SpanIdSize)
RandomTraceIds == GenerateRandomBuffer(drawn + WordsIn(SpanIdSize), TraceIdSize)

\* SpanGenerator::Generate of a root: a span id, then a trace id; the sampler decides.
StartRoot(is_sampled) ==
  \E span_id \in RandomSpanIds, trace_id \in RandomTraceIds :
    /\ More(SpanContext(trace_id, span_id, WithSampling(NoOptions, is_sampled)), 0, TRUE)
    /\ drawn' = drawn + WordsIn(SpanIdSize) + WordsIn(TraceIdSize)

\* ... of a child: the trace id and the options are the parent's, and a sampler is
\* asked only if it is not sampled.
StartChild(p, is_sampled) ==
  LET parent == span_contexts[p].context
      options == parent.trace_options IN
  \E span_id \in RandomSpanIds :
    /\ More(SpanContext(parent.trace_id, span_id,
                        IF IsSampled(options) THEN options ELSE WithSampling(options, is_sampled)),
            p, TRUE)
    /\ drawn' = drawn + WordsIn(SpanIdSize)

\* CopyTo and the constructors from a buffer: a context that is sent and received, with
\* options that another process may have set.
Received(p, trace_options) ==
  LET sent == span_contexts[p].context IN
  /\ More(SpanContext(sent.trace_id, sent.span_id, trace_options), p, FALSE)
  /\ UNCHANGED drawn

\* A blank context, and no value drawn.
IdentifierInit ==
  /\ drawn = 0
  /\ span_contexts = <<[context |-> SpanContext(BlankTraceId, BlankSpanId, NoOptions),
                        parent |-> 0, generated |-> FALSE]>>

IdentifierNext ==
  \/ \E is_sampled \in BOOLEAN :
       StartRoot(is_sampled) \/ \E p \in DOMAIN span_contexts : StartChild(p, is_sampled)
  \/ \E p \in DOMAIN span_contexts, options \in 0 .. 2^OptionBits - 1 : Received(p, options)

IdentifierSpec == IdentifierInit /\ [][IdentifierNext]_identifierVars

----------------------------------------------------------------------------
\* Every span that is generated has an id of its own, unless it is zero, and no part of
\* an id is the copy of another; the hex digits tell ids apart as operator== does,
\* whatever the options; and a child is in its parent's trace, with all its options, and
\* sampled if the parent is.
IdentitiesAgree ==
  /\ \A i, j \in DOMAIN span_contexts :
       LET a == span_contexts[i].context b == span_contexts[j].context IN
       /\ SameContext(a, b) <=> SubSeq(ContextToString(a), 1, 2) = SubSeq(ContextToString(b), 1, 2)
       /\ i # j /\ span_contexts[i].generated /\ span_contexts[j].generated
          /\ SpanIdValid(a.span_id)
            => ~SameContext(a, b)
       /\ span_contexts[i].generated /\ span_contexts[i].parent = 0 =>
            \A k \in DOMAIN a.trace_id, m \in DOMAIN b.span_id : a.trace_id[k] # Zero =>
              /\ a.trace_id[k] # b.span_id[m]
              /\ \A n \in DOMAIN a.trace_id \ {k} : a.trace_id[n] # a.trace_id[k]
  /\ \A i \in DOMAIN span_contexts :
       LET c == span_contexts[i].context parent == span_contexts[span_contexts[i].parent].context IN
       /\ ContextIsValid(c) <=> c.trace_id # BlankTraceId /\ c.span_id # BlankSpanId
       /\ span_contexts[i].generated /\ span_contexts[i].parent # 0 =>
            /\ c.trace_id = parent.trace_id
            /\ c.trace_options \div 2 = parent.trace_options \div 2
            /\ IsSampled(parent.trace_options) => IsSampled(c.trace_options)
=============================================================================
