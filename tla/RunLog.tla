------------------------------- MODULE RunLog -------------------------------
(***************************************************************************)
(* The event log of one agent run (run-event-writer.ts, run-events.ts) and *)
(* the check that the log describes the row (run-projection-check.ts).     *)
(*                                                                         *)
(* writeRun locks the row, works out what the change does to the row as    *)
(* locked, numbers the events from headSeq + 1 and writes row and events   *)
(* in one transaction; one action here.  Its callers are the actions       *)
(* below: the worker of a step, on the copy it loaded, and everybody who   *)
(* writes while a step runs.  One of them writes around it: a schedule     *)
(* that records its webhook's outcome saves the metadata it read earlier.  *)
(* After the commit the pod that wrote folds the events onto the           *)
(* projection it keeps, or onto the row as locked, and compares.           *)
(*                                                                         *)
(* A step is its type and whether its result is in; the metadata are the   *)
(* keys that are set; waiting_input and waiting_approval are "waiting",    *)
(* and a timeout is "failed".                                              *)
(* Working memory, output and the totals are logged as metadata and error  *)
(* are, and left out.  The clock of the lease and the nudges are in        *)
(* DurableRun.                                                             *)
(***************************************************************************)
EXTENDS Naturals, Sequences, FiniteSets

CONSTANTS Pods,       \* the processes
          NoPod,      \* leaseOwner is null
          MaxSteps,   \* bound on the steps of the run
          MaxTakeovers, \* RUN_LEASE_MAX_TAKEOVERS
          MaxOutside, \* bound on the writes made outside a step
          MaxOwed,    \* bound on committed writes whose listeners have not run
          Faults      \* "lapse", "crash", "webhook"

AllFaults == {"lapse", "crash", "webhook"}

ASSUME RunLogAssumption ==
    /\ NoPod \notin Pods /\ MaxSteps \in Nat \ {0} /\ MaxOutside \in Nat /\ MaxOwed \in Nat \ {0}
    /\ MaxTakeovers \in Nat \ {0} /\ Faults \subseteq AllFaults

VARIABLES row,     \* the logged columns and headSeq
          holder,  \* leaseOwner
          taken,   \* takeovers since the last commit
          log,     \* agent_run_events in seq order
          work,    \* each pod's step: where it is, and its copy of the run
          told,    \* committed writes whose listeners have not run yet
          cache,   \* each pod's cached projection
          alarms,  \* run_projection_mismatch reports
          around,  \* writes made around writeRun
          deliver, \* deliverScheduledRun: where it is, and the metadata it read
          outside, \* writes made outside a step so far
          team     \* the agent is a collaboration's orchestrator

vars == <<row, holder, taken, log, work, told, cache, alarms, around, deliver, outside, team>>

Terminal == {"completed", "failed", "cancelled"}
Status   == {"running", "waiting"} \cup Terminal
Error    == {"", "error"}
Keys     == {"limitTrip", "aiDisclosureSent", "webhookDelivery", "channelDelivery"}

-----------------------------------------------------------------------------
\* commitEvents: what a write changes, as events, in order.

Step(t)  == [type |-> t, result |-> TRUE]
Called(s) == [s EXCEPT !.result = FALSE]

StateOf(r) == [status |-> r.status, step |-> r.step, steps |-> r.steps, meta |-> r.meta, error |-> r.error]

Opening(base) == IF base.head = 0 THEN <<[type |-> "run_started", state |-> StateOf(base)]>> ELSE <<>>

\* stepEvents: a call and its result are two events.
Recorded(s, i) ==
    IF s.type = "tool_call"
    THEN <<[type |-> "tool_call", index |-> i, step |-> Called(s)], [type |-> "tool_result", index |-> i]>>
    ELSE <<[type |-> "step_recorded", index |-> i, step |-> s]>>

StepEvent(base, next, i) ==
    IF i > Len(base.steps) THEN Recorded(next.steps[i], i)
    ELSE IF next.steps[i] = base.steps[i] THEN <<>>
    ELSE <<[type |-> "step_replaced", index |-> i, step |-> next.steps[i]]>>

\* The events of the first i steps.
StepEvents(base, next) ==
    LET upto[i \in 0..Len(next.steps)] == IF i = 0 THEN <<>> ELSE upto[i - 1] \o StepEvent(base, next, i)
    IN  upto

StepsChanged(base, next) ==
    IF Len(next.steps) < Len(base.steps) THEN <<[type |-> "steps_reset", steps |-> next.steps]>>
    ELSE StepEvents(base, next)[Len(next.steps)]

\* diffObject
MetadataChanged(base, next) ==
    IF next.meta = base.meta THEN <<>>
    ELSE <<[type |-> "metadata_changed", set |-> next.meta \ base.meta, unset |-> base.meta \ next.meta]>>

StatusChanged(base, next) == IF next.status = base.status THEN <<>> ELSE <<[type |-> "status_changed"]>>

\* Always last: the row's scalars; the error only when it changed.
Committed(base, next) ==
    <<[type |-> "step_committed", status |-> next.status, step |-> next.step,
       error |-> IF next.error = base.error THEN {} ELSE {next.error}]>>

CommitEvents(base, next, notes) ==
    Opening(base) \o notes \o StepsChanged(base, next) \o MetadataChanged(base, next)
        \o StatusChanged(base, next) \o Committed(base, next)

Note(t) == <<[type |-> t]>>

-----------------------------------------------------------------------------
\* foldRunEvents: onto a projection, or onto nothing from the log's start.
\* What makes the fold throw gives Refused.

Blank   == [status |-> "running", step |-> 0, steps |-> <<>>, meta |-> {}, error |-> ""]
Nothing == [is |-> "nothing", head |-> 0, state |-> Blank]
Refused == [is |-> "refused", head |-> 0, state |-> Blank]
Projection(head, st) == [is |-> "at", head |-> head, state |-> st]

FoldOne(st, e) ==
    CASE e.type \in {"tool_call", "step_recorded"} -> [st EXCEPT !.steps = Append(@, e.step)]
      [] e.type = "tool_result"      -> [st EXCEPT !.steps[e.index].result = TRUE]
      [] e.type = "step_replaced"    -> [st EXCEPT !.steps[e.index] = e.step]
      [] e.type = "steps_reset"      -> [st EXCEPT !.steps = e.steps]
      [] e.type = "metadata_changed" -> [st EXCEPT !.meta = (@ \cup e.set) \ e.unset]
      [] e.type = "step_committed"   -> [st EXCEPT !.status = e.status, !.step = e.step,
                                            !.error = IF e.error = {} THEN @ ELSE CHOOSE x \in e.error : TRUE]
      [] OTHER -> st

OutOfOrder(st, e) == e.type \in {"tool_call", "step_recorded"} /\ e.index # Len(st.steps) + 1

FoldEvent(p, e) ==
    IF p = Refused THEN Refused
    ELSE IF e.type = "run_started" THEN IF p = Nothing THEN Projection(1, e.state) ELSE Refused
    ELSE IF p = Nothing \/ OutOfOrder(p.state, e) THEN Refused
    ELSE Projection(p.head + 1, FoldOne(p.state, e))

\* What the first i events make of the projection.
FoldOf(p, events) ==
    LET fold[i \in 0..Len(events)] == IF i = 0 THEN p ELSE FoldEvent(fold[i - 1], events[i])
    IN  fold

\* The events after seq `from`; they must continue the projection.
FoldRunEvents(p, from, events) == IF p.head # from THEN Refused ELSE FoldOf(p, events)[Len(events)]

ProjectRunEvents(events) == FoldRunEvents(Nothing, 0, events)

-----------------------------------------------------------------------------
\* writeRun by pod p: `next` is the locked row with the change applied.
\* The baseline of the diff is the row as locked.
Baseline_Loaded(p) == [work[p].copy EXCEPT !.head = row.head] \* mutant
Baseline(p) == row

\* The row's headSeq advances to the last of the events.
HeadAfter(events) == row.head + Len(events)

WriteRun(p, next, notes) ==
    LET events == CommitEvents(Baseline(p), next, notes)
        after  == [next EXCEPT !.head = HeadAfter(events)]
    IN  /\ Cardinality(told) < MaxOwed
        /\ row' = after
        /\ log' = log \o events
        /\ told' = told \cup {[pod |-> p, before |-> row, after |-> after, events |-> events]}

New  == [status |-> "running", step |-> 0, steps |-> <<>>, meta |-> {}, error |-> "", head |-> 0]
Idle == [pc |-> "idle", copy |-> New]

Init ==
    /\ team \in BOOLEAN
    /\ row = New
    /\ holder = NoPod /\ taken = 0
    /\ log = <<>>
    /\ work = [p \in Pods |-> Idle]
    /\ told = {}
    /\ cache = [p \in Pods |-> Nothing]
    /\ alarms = 0 /\ around = 0 /\ outside = 0
    /\ deliver = [pod |-> NoPod, pc |-> "idle", meta |-> {}]

Delivered == [pod |-> NoPod, pc |-> "done", meta |-> {}]

At(p, pc) == work[p].pc = pc
To(p, pc) == work' = [work EXCEPT ![p].pc = pc]

\* A claim writes lease columns only: no event, and headSeq stays.
Claim(p) ==
    /\ At(p, "idle") /\ row.status = "running" /\ holder = NoPod
    /\ holder' = p
    /\ To(p, "load")
    /\ UNCHANGED <<row, taken, log, told, cache, alarms, around, deliver, outside, team>>

\* A lapsed lease is taken over, with a note on the log; at the cap the run
\* fails instead.
TakeOver(p) ==
    /\ "lapse" \in Faults
    /\ At(p, "idle") /\ row.status = "running" /\ holder \notin {NoPod, p}
    /\ taken' = taken + 1
    /\ IF taken' < MaxTakeovers
       THEN /\ WriteRun(p, row, Note("lease_taken_over"))
            /\ holder' = p
            /\ To(p, "load")
       ELSE /\ WriteRun(p, [row EXCEPT !.status = "failed", !.error = "error"], Note("lease_taken_over"))
            /\ holder' = NoPod
            /\ UNCHANGED work
    /\ UNCHANGED <<cache, alarms, around, deliver, outside, team>>

Load(p) ==
    /\ At(p, "load")
    /\ work' = [work EXCEPT ![p] = [pc |-> IF row.status \in Terminal THEN "release" ELSE "step", copy |-> row]]
    /\ UNCHANGED <<row, holder, taken, log, told, cache, alarms, around, deliver, outside, team>>

\* What a step makes of its copy.
Outcomes(c) ==
    {[c EXCEPT !.step = @ + 1, !.steps = @ \o <<Step("tool_call"), Step("llm_call")>>, !.status = s] :
        s \in {"running", "waiting"}}
    \cup {[c EXCEPT !.step = @ + 1, !.steps = Append(@, Step("llm_call")), !.status = "completed"],
          [c EXCEPT !.status = "failed", !.error = "error", !.steps = Append(@, Step("error"))],
          [c EXCEPT !.status = "failed", !.error = "error", !.meta = @ \cup {"limitTrip"}]}

\* commitStep, guarded by the step number, the status and the lease. Of a
\* collaboration it commits only what ends the step before the hand-over.
MayCommit(p) == holder = p /\ row.step = work[p].copy.step /\ row.status \notin Terminal

CommitStep(p) ==
    /\ At(p, "step") /\ work[p].copy.step < MaxSteps
    /\ \E next \in Outcomes(work[p].copy) :
        /\ team => next.status = "failed"
        /\ IF MayCommit(p)
           THEN /\ WriteRun(p, next, <<>>)
                /\ taken' = 0
                /\ work' = [work EXCEPT ![p] = [pc |-> IF next.status = "completed" THEN "memory" ELSE "release", copy |-> next]]
           ELSE To(p, "release") /\ UNCHANGED <<row, taken, log, told>>
    /\ UNCHANGED <<holder, cache, alarms, around, deliver, outside, team>>

\* memory.afterRun: the memory_save step and the loaded run's metadata,
\* guarded by the lease alone.
SaveMemory(p) ==
    /\ At(p, "memory")
    /\ IF holder = p
       THEN WriteRun(p, [row EXCEPT !.steps = Append(work[p].copy.steps, Step("memory_save")), !.meta = work[p].copy.meta], <<>>)
       ELSE UNCHANGED <<row, log, told>>
    /\ To(p, "release")
    /\ UNCHANGED <<holder, taken, cache, alarms, around, deliver, outside, team>>

\* The collaboration helper's persist: the whole loaded run, guarded by the
\* lease alone.
Persist(p) ==
    /\ team
    /\ At(p, "step") /\ work[p].copy.step < MaxSteps
    /\ \E next \in Outcomes(work[p].copy) :
        IF holder = p THEN WriteRun(p, next, <<>>) /\ taken' = 0 ELSE UNCHANGED <<row, taken, log, told>>
    /\ To(p, "release")
    /\ UNCHANGED <<holder, cache, alarms, around, deliver, outside, team>>

Release(p) ==
    /\ At(p, "release")
    /\ holder' = IF holder = p THEN NoPod ELSE holder
    /\ work' = [work EXCEPT ![p] = Idle]
    /\ UNCHANGED <<row, taken, log, told, cache, alarms, around, deliver, outside, team>>

\* The pod restarts: its step, its cache and the listeners it owed are gone.
Crash(p) ==
    /\ "crash" \in Faults
    /\ ~At(p, "idle") \/ \E w \in told : w.pod = p
    /\ work' = [work EXCEPT ![p] = Idle]
    /\ cache' = [cache EXCEPT ![p] = Nothing]
    /\ told' = {w \in told : w.pod # p}
    /\ deliver' = IF deliver.pod = p THEN Delivered ELSE deliver
    /\ UNCHANGED <<row, holder, taken, log, alarms, around, outside, team>>

-----------------------------------------------------------------------------
\* The writers outside a step, each on some pod.
Outside == outside < MaxOutside /\ outside' = outside + 1
Kept    == UNCHANGED <<holder, taken, work, cache, alarms, around, deliver, team>>

\* cancelRun, and a race cancelling its losers.
CancelRun(p) ==
    /\ Outside /\ row.status \notin Terminal
    /\ WriteRun(p, [row EXCEPT !.status = "cancelled"], <<>>)
    /\ Kept

\* An approval request pauses the run, whatever it is doing.
PauseRun(p) ==
    /\ Outside
    /\ WriteRun(p, [row EXCEPT !.status = "waiting"], Note("approval_requested"))
    /\ Kept

\* sendInput, and an approval's decision: carried on, or cancelled.
Resume(p) ==
    /\ Outside /\ row.status = "waiting"
    /\ \/ WriteRun(p, [row EXCEPT !.status = "running"], Note("input_received"))
       \/ WriteRun(p, [row EXCEPT !.status = "cancelled", !.error = "error"], Note("approval_decided"))
    /\ Kept

\* The queue gives up: its error step goes after the steps as locked.
GiveUp(p) ==
    /\ Outside /\ row.status \notin Terminal
    /\ WriteRun(p, [row EXCEPT !.status = "failed", !.error = "error", !.steps = Append(@, Step("error"))], <<>>)
    /\ Kept

\* The reaper's write.
Reap(p) ==
    /\ Outside /\ row.status = "running"
    /\ WriteRun(p, [row EXCEPT !.status = "failed", !.error = "error"], <<>>)
    /\ Kept

\* mergeMetadata: the one key, on the row as locked.
MergeKey(p, k) == WriteRun(p, [row EXCEPT !.meta = @ \cup {k}], <<>>)

Disclose(p) == Outside /\ MergeKey(p, "aiDisclosureSent") /\ Kept

\* deliverScheduledRun: the run is read, its delivery claimed, and the
\* outcome recorded: a channel's merged, a webhook's around writeRun over
\* the metadata read at first.
Deliver(p, pc) == deliver.pc = pc /\ deliver.pod = p /\ UNCHANGED <<holder, taken, work, cache, alarms, outside, team>>

ReadFinished(p) ==
    /\ Deliver(NoPod, "idle") /\ row.status \in Terminal
    /\ deliver' = [pod |-> p, pc |-> "claim", meta |-> row.meta]
    /\ UNCHANGED <<row, log, told, around>>

ClaimDelivery(p) ==
    /\ Deliver(p, "claim")
    /\ WriteRun(p, row, Note("delivery_claimed"))
    /\ deliver' = [deliver EXCEPT !.pc = "record"]
    /\ UNCHANGED around

RecordChannel(p) ==
    /\ Deliver(p, "record")
    /\ MergeKey(p, "channelDelivery")
    /\ deliver' = Delivered
    /\ UNCHANGED around

RecordWebhook(p) ==
    /\ "webhook" \in Faults
    /\ Deliver(p, "record")
    /\ row' = [row EXCEPT !.meta = deliver.meta \cup {"webhookDelivery"}]
    /\ around' = around + 1
    /\ deliver' = Delivered
    /\ UNCHANGED <<log, told>>

-----------------------------------------------------------------------------
\* RunProjectionChecker.check: from the cached projection when it is at the
\* head the write started from, else from the row as locked.
Start_AnyCached(w) == \* mutant
    IF cache[w.pod] # Nothing THEN cache[w.pod]
    ELSE IF w.before.head = 0 THEN Nothing
    ELSE Projection(w.before.head, StateOf(w.before))
Start(w) ==
    IF cache[w.pod] # Nothing /\ cache[w.pod].head = w.before.head THEN cache[w.pod]
    ELSE IF w.before.head = 0 THEN Nothing
    ELSE Projection(w.before.head, StateOf(w.before))

\* After a difference the next check starts from the row; a finished run is
\* not kept.
Check(w) ==
    LET projection == FoldRunEvents(Start(w), w.before.head, w.events)
        written    == Projection(w.after.head, StateOf(w.after))
    IN  /\ w \in told
        /\ told' = told \ {w}
        /\ alarms' = IF projection = written THEN alarms ELSE alarms + 1
        /\ cache' = [cache EXCEPT ![w.pod] = IF w.after.status \in Terminal THEN Nothing ELSE written]
        /\ UNCHANGED <<row, holder, taken, log, work, around, deliver, outside, team>>

\* A projection is dropped to keep the cache within its bytes.
Evict(p) ==
    /\ cache[p] # Nothing
    /\ cache' = [cache EXCEPT ![p] = Nothing]
    /\ UNCHANGED <<row, holder, taken, log, work, told, alarms, around, deliver, outside, team>>

Next ==
    \/ \E p \in Pods :
        \/ Claim(p) \/ TakeOver(p) \/ Load(p) \/ CommitStep(p) \/ SaveMemory(p) \/ Persist(p) \/ Release(p) \/ Crash(p)
        \/ CancelRun(p) \/ PauseRun(p) \/ Resume(p) \/ GiveUp(p) \/ Reap(p) \/ Disclose(p)
        \/ ReadFinished(p) \/ ClaimDelivery(p) \/ RecordChannel(p) \/ RecordWebhook(p)
        \/ Evict(p)
    \/ \E w \in told : Check(w)

Spec == Init /\ [][Next]_vars

-----------------------------------------------------------------------------
StepSet    == [type : {"llm_call", "tool_call", "error", "memory_save"}, result : BOOLEAN]
State      == [status : Status, step : Nat, steps : Seq(StepSet), meta : SUBSET Keys, error : Error]
Row        == [status : Status, step : Nat, steps : Seq(StepSet), meta : SUBSET Keys, error : Error, head : Nat]

\* Type invariant.
TypeOK ==
    /\ team \in BOOLEAN
    /\ row \in Row
    /\ holder \in Pods \cup {NoPod} /\ taken \in Nat
    /\ work \in [Pods -> [pc : {"idle", "load", "step", "memory", "release"}, copy : Row]]
    /\ cache \in [Pods -> [is : {"at", "nothing"}, head : Nat, state : State]]
    /\ \A w \in told : w.pod \in Pods /\ w.after.head = w.before.head + Len(w.events)
    /\ alarms \in Nat /\ around \in Nat /\ outside \in 0..MaxOutside
    /\ deliver \in [pod : Pods \cup {NoPod}, pc : {"idle", "claim", "record", "done"}, meta : SUBSET Keys]

\* writeRun's promise: whoever wrote, and however stale the copy it wrote
\* from, folding the log from its start reaches the row's head and the row's
\* columns; only a write made around it can leave the metadata different.
LogTellsTheRow ==
    \/ row.head = 0 /\ log = <<>>
    \/ LET p == ProjectRunEvents(log)
       IN  /\ p.is = "at" /\ p.head = row.head
           /\ [p.state EXCEPT !.meta = row.meta] = StateOf(row)
           /\ around = 0 => p.state.meta = row.meta

\* The projection check never cries wolf: it reports no more differences
\* than there were writes around writeRun, whichever pods wrote, in whatever
\* order their listeners ran, and whatever their caches dropped.
AlarmsAreTrue == alarms <= around

\* What the writer's comment and the design say: the log folds back into
\* exactly what the row holds.
LogFoldsToRow == row.head > 0 => ProjectRunEvents(log) = Projection(row.head, StateOf(row))
=============================================================================
