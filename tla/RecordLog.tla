----------------------------- MODULE RecordLog -----------------------------
(***************************************************************************)
(* What the stats pipeline promises of Record(): the calls have an order,  *)
(* in which they are numbered from 1; the calls the views have been given  *)
(* are always the first ones of that order; they are never taken back, and *)
(* in the end they are all of them.  StatsPipeline implements this with    *)
(* two deltas, three mutexes and a harvester thread.                       *)
(***************************************************************************)
EXTENDS Naturals

CONSTANT MaxCalls \* bound on the number of calls

VARIABLES recorded, \* the number of calls so far
          delivered \* the calls the views have been given

Init == recorded = 0 /\ delivered = {}

Record ==
  /\ recorded < MaxCalls
  /\ recorded' = recorded + 1
  /\ UNCHANGED delivered

\* A harvest gives the views all the calls up to some point.
Harvest ==
  /\ \E n \in 1 .. recorded : delivered \subseteq 1 .. n /\ delivered' = 1 .. n
  /\ UNCHANGED recorded

Spec == Init /\ [][Record \/ Harvest]_<<recorded, delivered>>

\* Every call is delivered in the end.
AllDelivered == \A n \in 1 .. MaxCalls : n <= recorded ~> n \in delivered
=============================================================================
