------------------------------ MODULE Contexts ------------------------------
(***************************************************************************)
(* Each thread's current Context, and the scoped objects WithContext,      *)
(* WithSpan and WithTagMap that change it.  Scopes are allocated on the    *)
(* stack, as their documentation asks, so a thread leaves the last one     *)
(* first.                                                                  *)
(***************************************************************************)
EXTENDS Integers, Sequences, SequencesExt, FiniteSets, FiniteSetsExt

CONSTANTS
  Threads,   \* threads of the program
  Spans,     \* spans given to WithSpan
  BlankSpan, \* Span::BlankSpan()
  TagMaps,   \* tag maps given to WithTagMap
  NoTags,    \* TagMap({})
  MaxScopes, \* bound on the scopes that threads are in
  MaxWraps   \* bound on the calls of Wrap

VARIABLES
  current, \* g_wrapper: the Context of each thread
  scopes,  \* the scoped objects each thread has constructed and not destroyed
  wrapped, \* what Wrap has returned: the Contexts captured
  ended    \* history: the spans that scopes have ended

contextVars == <<current, scopes, wrapped, ended>>

DefaultContext == [tags |-> NoTags, span |-> BlankSpan]
Context == [tags : TagMaps \cup {NoTags}, span : Spans \cup {BlankSpan}]

ContextInit ==
  /\ current = [t \in Threads |-> DefaultContext]
  /\ scopes = [t \in Threads |-> <<>>]
  /\ wrapped = <<>>
  /\ ended = {}

\* What ConditionalSwap leaves in the current context, and in the scope.
SwapIn(scope, ctx) ==
  IF ~scope.cond THEN ctx
  ELSE CASE scope.kind = "context" -> scope.swapped
         [] scope.kind = "span" -> [ctx EXCEPT !.span = scope.swapped.span]
         [] scope.kind = "tags" -> [ctx EXCEPT !.tags = scope.swapped.tags]

\* Mutant: the old value is not kept.
SwapOutNothing(scope, ctx) == scope

SwapOut(scope, ctx) ==
  IF ~scope.cond THEN scope
  ELSE CASE scope.kind = "context" -> [scope EXCEPT !.swapped = ctx]
         [] scope.kind = "span" -> [scope EXCEPT !.swapped.span = ctx.span]
         [] scope.kind = "tags" -> [scope EXCEPT !.swapped.tags = ctx.tags]

\* A scope is constructed: before and given are history.
Enter(t, kind, ctx, cond, end_span) ==
  LET scope == [kind |-> kind, cond |-> cond, end_span |-> end_span,
                swapped |-> IF kind = "context" /\ ~cond THEN DefaultContext ELSE ctx,
                before |-> current[t], given |-> ctx]
  IN /\ FoldSet(LAMBDA u, n : n + Len(scopes[u]), 0, Threads) < MaxScopes
     /\ current' = [current EXCEPT ![t] = SwapIn(scope, @)]
     /\ scopes' = [scopes EXCEPT ![t] = Append(@, SwapOut(scope, current[t]))]

WithContext(t, ctx, cond) ==
  Enter(t, "context", ctx, cond, FALSE) /\ UNCHANGED <<wrapped, ended>>

WithSpan(t, span, cond, end_span) ==
  /\ Enter(t, "span", [DefaultContext EXCEPT !.span = span], cond, end_span)
  /\ UNCHANGED <<wrapped, ended>>

WithTagMap(t, tags, cond) ==
  /\ Enter(t, "tags", [DefaultContext EXCEPT !.tags = tags], cond, FALSE)
  /\ UNCHANGED <<wrapped, ended>>

\* The destructor of the last scope: WithSpan ends the span that is current.
Leave(t) ==
  LET scope == Last(scopes[t]) IN
  /\ scopes[t] # <<>>
  /\ ended' = IF scope.cond /\ scope.end_span THEN ended \cup {current[t].span}
              ELSE ended
  /\ current' = [current EXCEPT ![t] = SwapIn(scope, @)]
  /\ scopes' = [scopes EXCEPT ![t] = Front(@)]
  /\ UNCHANGED wrapped

\* ctx.Wrap(fn) captures the current context, whatever ctx is.
Wrap(t) ==
  /\ Len(wrapped) < MaxWraps
  /\ wrapped' = Append(wrapped, current[t])
  /\ UNCHANGED <<current, scopes, ended>>

\* A wrapped function is called, on any thread, and runs in a WithContext.
CallWrapped(t, i) ==
  Enter(t, "context", wrapped[i], TRUE, FALSE) /\ UNCHANGED <<wrapped, ended>>

ContextNext ==
  \E t \in Threads :
    \/ \E ctx \in {current[u] : u \in Threads}, cond \in BOOLEAN :
         WithContext(t, ctx, cond)
    \/ \E span \in Spans, cond, end_span \in BOOLEAN : WithSpan(t, span, cond, end_span)
    \/ \E tags \in TagMaps, cond \in BOOLEAN : WithTagMap(t, tags, cond)
    \/ Leave(t)
    \/ Wrap(t)
    \/ \E i \in DOMAIN wrapped : CallWrapped(t, i)

ContextSpec == ContextInit /\ [][ContextNext]_contextVars

----------------------------------------------------------------------------
\* What the context of t is when it has left all scopes but the first n.
After(t, n) ==
  MapThenFoldSet(LAMBDA scope, ctx : SwapIn(scope, ctx), current[t],
                 LAMBDA i : scopes[t][i], Min, n + 1 .. Len(scopes[t]))

\* "until the WithContext object is destroyed", whatever other scopes were nested
\* in it: each scope will leave the context that it found, and meanwhile the part
\* it governs is what it was given, so that a WithSpan ends its own span.
ScopesRestore ==
  \A t \in Threads : \A n \in DOMAIN scopes[t] :
    LET scope == scopes[t][n] IN
    /\ After(t, n - 1) = scope.before
    /\ scope.cond =>
         /\ scope.kind \in {"context", "span"} => After(t, n).span = scope.given.span
         /\ scope.kind \in {"context", "tags"} => After(t, n).tags = scope.given.tags
=============================================================================
