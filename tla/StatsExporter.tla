--------------------------- MODULE StatsExporter ---------------------------
(***************************************************************************)
(* StatsExporterImpl: views registered for export by name, and a worker    *)
(* that hands their data to the registered handlers again and again.       *)
(*                                                                         *)
(* mu_ is shared by those that read the views (the worker's Export, and    *)
(* GetViewData) for as long as they copy the data, view by view, and call  *)
(* the handlers; all else takes it exclusively, for one step.              *)
(*                                                                         *)
(* A View holds one of the consumers of a ViewInformation of StatsManager, *)
(* shared by all views whose descriptors match, whatever their names.  Of  *)
(* its data only the number of merges matters here.                        *)
(***************************************************************************)
EXTENDS Naturals, Sequences, FiniteSets, SequencesExt

CONSTANTS
  Names,       \* of views
  Descriptors, \* the parts of ViewDescriptors that Matches compares
  Handlers,    \* push handlers
  Pullers,     \* the threads that call GetViewData
  Worker,      \* the export thread t_
  Intervals,   \* the intervals the program sets, in ticks
  MaxMerges, MaxViews \* bounds: merges into a view, views that are made

ASSUME ExporterAssumption ==
  Worker \notin Pullers /\ Intervals # {} /\ Intervals \subseteq Nat

Readers == Pullers \cup {Worker}

VARIABLES
  export_interval_, handlers_, views_, thread_started_,
  info,     \* StatsManager: the ViewInformation of each descriptor in use
  made,     \* history: the number of ViewInformations made so far
  pc,       \* each reader's next step
  data,     \* the data a reader has copied so far, by name
  next,     \* the index of the handler the worker calls next
  wait,     \* the ticks until next_export_time
  exported  \* history: what each handler was given last, by name

settings == <<export_interval_, handlers_, thread_started_>>
manager  == <<info, made>>
reading  == <<pc, data, next>>
vars == <<settings, views_, manager, reading, wait, exported>>

Nothing == [name \in {} |-> 0]

Init ==
  /\ export_interval_ \in Intervals
  /\ handlers_ = <<>> /\ views_ = Nothing /\ thread_started_ = FALSE
  /\ info = Nothing /\ made = 0
  /\ pc = [t \in Readers |-> IF t = Worker THEN "not_started" ELSE "idle"]
  /\ data = [t \in Readers |-> Nothing]
  /\ next = 1 /\ wait = 0
  /\ exported = [h \in Handlers |-> Nothing]

Goto(t, from, to) == pc[t] = from /\ pc' = [pc EXCEPT ![t] = to]

With(map, k, value) == [x \in DOMAIN map \cup {k} |-> IF x = k THEN value ELSE map[x]]
Without(map, k) == [x \in DOMAIN map \ {k} |-> map[x]]

\* Mutant: writers do not wait for readers.
NeverShared == TRUE

\* Nobody holds mu_ shared.
NotShared == \A t \in Readers : pc[t] \notin {"copy", "call"}

----------------------------------------------------------------------------
\* StatsManager, as the Views of this component use it.

\* A harvest merges data into a view.
Merge(d) ==
  /\ d \in DOMAIN info /\ info[d].merges < MaxMerges
  /\ info' = [info EXCEPT ![d].merges = @ + 1]
  /\ UNCHANGED <<settings, views_, made, reading, wait, exported>>

\* StatsManager::AddConsumer
WithConsumer(map, d) ==
  IF d \in DOMAIN map THEN [map EXCEPT ![d].num_consumers = @ + 1]
  ELSE With(map, d, [id |-> made + 1, num_consumers |-> 1, merges |-> 0])

\* StatsManager::RemoveConsumer
WithoutConsumer(map, d) ==
  IF map[d].num_consumers = 1 THEN Without(map, d)
  ELSE [map EXCEPT ![d].num_consumers = @ - 1]

----------------------------------------------------------------------------
\* The program's calls.
SetInterval(interval) ==
  /\ NotShared
  /\ export_interval_' = interval
  /\ UNCHANGED <<handlers_, thread_started_, views_, manager, reading, wait,
                 exported>>

\* Mutants: the View of the same name is not destroyed; it is destroyed before
\* the new one is made.
RegisterLeaking(map, name, d) == WithConsumer(map, d)

Replace(map, name, d) ==
  WithConsumer(IF name \in DOMAIN views_ THEN WithoutConsumer(map, views_[name])
                                         ELSE map, d)

\* The new View is made, then the one of the same name is destroyed.
Register(map, name, d) ==
  LET with == WithConsumer(map, d) IN
  IF name \in DOMAIN views_ THEN WithoutConsumer(with, views_[name]) ELSE with

AddView(name, d) ==
  /\ NotShared /\ made < MaxViews
  /\ views_' = With(views_, name, d)
  /\ info' = Register(info, name, d)
  /\ made' = made + 1
  /\ UNCHANGED <<settings, reading, wait, exported>>

RemoveView(name) ==
  /\ NotShared /\ name \in DOMAIN views_
  /\ views_' = Without(views_, name)
  /\ info' = WithoutConsumer(info, views_[name])
  /\ UNCHANGED <<settings, made, reading, wait, exported>>

\* The first handler starts the worker.
RegisterPushHandler(h) ==
  /\ NotShared /\ h \notin Range(handlers_)
  /\ handlers_' = Append(handlers_, h)
  /\ thread_started_' = TRUE
  /\ pc' = IF thread_started_ THEN pc ELSE [pc EXCEPT ![Worker] = "start"]
  /\ UNCHANGED <<export_interval_, views_, manager, data, next, wait, exported>>

----------------------------------------------------------------------------
\* Reading the views, by the worker (Export) or by a puller (GetViewData).
StartCopy(t) ==
  /\ Goto(t, IF t = Worker THEN "export" ELSE "idle", "copy")
  /\ data' = [data EXCEPT ![t] = Nothing]
  /\ UNCHANGED <<settings, views_, manager, next, wait, exported>>

\* GetData of one more view.  A harvest may come between two views.
CopyView(t, name) ==
  LET d == views_[name] IN
  /\ pc[t] = "copy" /\ name \in DOMAIN views_ \ DOMAIN data[t]
  /\ data' = [data EXCEPT ![t] =
       With(@, name, [descriptor |-> d, id |-> info[d].id,
                      merges |-> info[d].merges])]
  /\ UNCHANGED <<settings, views_, manager, pc, next, wait, exported>>

\* GetViewData returns.
Return(t) ==
  /\ t \in Pullers /\ DOMAIN views_ \subseteq DOMAIN data[t]
  /\ Goto(t, "copy", "idle")
  /\ data' = [data EXCEPT ![t] = Nothing]
  /\ UNCHANGED <<settings, views_, manager, next, wait, exported>>

StartHandlers ==
  /\ DOMAIN views_ \subseteq DOMAIN data[Worker]
  /\ Goto(Worker, "copy", "call")
  /\ next' = 1
  /\ UNCHANGED <<settings, views_, manager, data, wait, exported>>

\* handler->ExportViewData(data)
CallHandler ==
  /\ pc[Worker] = "call" /\ next <= Len(handlers_)
  /\ exported' = [exported EXCEPT ![handlers_[next]] = data[Worker]]
  /\ next' = next + 1
  /\ UNCHANGED <<settings, views_, manager, pc, data, wait>>

\* Export returns.
ExportDone ==
  /\ next > Len(handlers_)
  /\ Goto(Worker, "call", "sleep")
  /\ data' = [data EXCEPT ![Worker] = Nothing]
  /\ UNCHANGED <<settings, views_, manager, next, wait, exported>>

----------------------------------------------------------------------------
\* RunWorkerLoop.

\* GetNextExportTime, with mu_ held exclusively.
GetNextExportTime == NotShared /\ wait' = export_interval_

StartWorker ==
  /\ Goto(Worker, "start", "sleep")
  /\ GetNextExportTime
  /\ UNCHANGED <<settings, views_, manager, data, next, exported>>

\* The time has come: the next one is computed before this export.
WakeUp ==
  /\ wait = 0
  /\ Goto(Worker, "sleep", "export")
  /\ GetNextExportTime
  /\ UNCHANGED <<settings, views_, manager, data, next, exported>>

Tick ==
  /\ wait > 0 /\ wait' = wait - 1
  /\ UNCHANGED <<settings, views_, manager, reading, exported>>

\* Mutant: the worker ends after its first export.
RunOnce ==
  \/ StartWorker \/ (WakeUp /\ exported = [h \in Handlers |-> Nothing])
  \/ StartCopy(Worker) \/ (\E name \in Names : CopyView(Worker, name))
  \/ StartHandlers \/ CallHandler \/ ExportDone

RunWorkerLoop ==
  \/ StartWorker \/ WakeUp
  \/ StartCopy(Worker) \/ (\E name \in Names : CopyView(Worker, name))
  \/ StartHandlers \/ CallHandler \/ ExportDone

Continue(t) == Return(t) \/ \E name \in Names : CopyView(t, name)

Next ==
  \/ \E interval \in Intervals : SetInterval(interval)
  \/ \E name \in Names, d \in Descriptors : AddView(name, d)
  \/ \E name \in Names : RemoveView(name)
  \/ \E h \in Handlers : RegisterPushHandler(h)
  \/ \E t \in Pullers : StartCopy(t) \/ Continue(t)
  \/ RunWorkerLoop
  \/ Tick
  \/ \E d \in Descriptors : Merge(d)

\* Threads run on, time passes, and mu_ is not withheld for ever from the worker.
Fairness ==
  /\ SF_vars(RunWorkerLoop) /\ WF_vars(Tick)
  /\ \A t \in Pullers : WF_vars(Continue(t))

Spec == Init /\ [][Next]_vars /\ Fairness
=============================================================================
