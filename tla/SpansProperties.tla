-------------------------- MODULE SpansProperties --------------------------
(***************************************************************************)
(* What is claimed of Spans.                                               *)
(***************************************************************************)
EXTENDS Spans

----------------------------------------------------------------------------
\* Ending a span.

\* "No further changes can be made to the Span after End is called" (span.h).
FrozenAfterEnd ==
  [][\A s \in DOMAIN impl : impl[s].has_ended => impl'[s] = impl[s]]_vars

\* However many threads call End, a span is filed once and handed over once, and
\* in that order.
EndedOnce ==
  /\ IsInjective(handed)
  /\ IsInjective([i \in DOMAIN filed |-> filed[i].span])
  /\ Range(handed) \subseteq {filed[i].span : i \in DOMAIN filed}

\* The running store has every recording span whose StartSpan has returned until
\* it ends, and no span that the exporter has.
RunningTracked ==
  /\ \A s \in known : IsRecording(s) /\ ~impl[s].has_ended => s \in running_
  /\ running_ \cap Range(handed) = {}

----------------------------------------------------------------------------
\* What a span keeps.

\* The events kept are the newest that were added before the end, as many as the
\* limit allows; the rest are counted as dropped, but not when the limit is 0.
EventsAreNewest ==
  \A s \in DOMAIN impl, q \in Queues :
    LET max == limits[s][q]
        offered == attempts[s][q]
        kept == impl[s][q].events
    IN /\ Len(kept) = IF Len(offered) < max THEN Len(offered) ELSE max
       /\ IsSuffix(kept, offered)
       /\ NumEventsDropped(impl[s][q]) =
            IF max = 0 THEN 0 ELSE Len(offered) - Len(kept)

\* An attribute that is kept has the value it was given last; attributes are
\* dropped only to stay within the limit, and what was dropped is counted.
AttributesAreLast ==
  \A s \in DOMAIN impl :
    LET max == limits[s]["attributes"]
        list == impl[s].attributes
        offered == attempts[s]["attributes"]
        keys == {offered[i].key : i \in DOMAIN offered}
        LastOf(key) == CHOOSE v \in {a.value : a \in Range(offered)} :
          \E i \in DOMAIN offered :
            /\ offered[i] = [key |-> key, value |-> v]
            /\ \A j \in i + 1 .. Len(offered) : offered[j].key # key
    IN /\ DOMAIN list.map \subseteq keys
       /\ \A key \in DOMAIN list.map : list.map[key] = LastOf(key)
       /\ Cardinality(DOMAIN list.map) =
            IF Cardinality(keys) < max THEN Cardinality(keys) ELSE max
       /\ Cardinality(keys) <= max => NumAttributesDropped(list) = 0
       /\ max > 0 => NumAttributesDropped(list) >= Cardinality(keys \ DOMAIN list.map)

\* Whatever the limits of a span, and whoever changes it, what is dropped to keep them
\* is the oldest, or an attribute for a new one, and is counted.
LimitsKept == EventsAreNewest /\ AttributesAreLast

Has(s, link) == link \in Range(impl[s].links.events)
Complete(s) == s \in known /\ NumEventsDropped(impl[s].links) = 0
                           /\ limits[s]["links"] > 0

\* A span started with a parent link and its parent know of each other, unless
\* one of them had ended or has dropped links.
LinksMutual ==
  \A p, c \in DOMAIN impl :
    /\ Has(p, ChildLink(c)) /\ Complete(c) => Has(c, ParentLink(p))
    /\ Has(c, ParentLink(p)) /\ c \in known /\ Complete(p) /\ ~impl[p].has_ended =>
         Has(p, ChildLink(c))

=============================================================================
