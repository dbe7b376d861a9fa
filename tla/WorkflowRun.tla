---------------------------- MODULE WorkflowRun ----------------------------
(***************************************************************************)
(* Workflow runs that wait for a person.  An engine walks a pipeline layer *)
(* by layer (AgentExecutionEngine); a Tool call step that an approval rule *)
(* holds, and a Code step whose script staged changes, file an approval    *)
(* request and stop the run in waiting_approval.  A decision is handled by *)
(* a task in the process that took it: the gate makes the call once        *)
(* (ToolApprovalGateService.runHeld), or code mode makes the changes       *)
(* (CodeModeService.decideHeld), and then the runs that wait on the        *)
(* request carry on (WorkflowApprovalResumeService).  Cancels and the      *)
(* reaper write the same run rows.                                         *)
(*                                                                         *)
(* An action is what happens between two awaits that other processes can   *)
(* see: one read or one write of the database, or one call.                *)
(***************************************************************************)
EXTENDS Naturals, FiniteSets

CONSTANTS Runs,        \* executions of one agent: the same node makes the same call
          Nodes,       \* the pipeline's steps
          Edges,       \* its edges, pairs of nodes
          Branch,      \* an edge's handle: "yes" and "no" leave a condition, else "any"
          Kind,        \* "plain", "output", "condition", "tool_call" (held), "code"
          MaxRequests, \* bound: approval requests ever filed
          Changes,     \* calls in a change set
          Take,        \* waiting runs one decision looks at (500 in the code)
          Faults       \* what the environment may do, a subset of AllFaults

AllFaults == {"fail",       \* a step, a call or a change fails
              "crash",      \* a process dies
              "early",      \* a person decides before the asking run is saved as waiting
              "cancel",     \* somebody cancels the run
              "disconnect", \* the client that started the run goes away
              "limit",      \* the run meets its time limit or its budget
              "refuse"}     \* the run may not carry on: its agent or its access is gone

Requests == 1..MaxRequests
NoRequest == 0

ASSUME WorkflowAssumption ==
    /\ Runs # {} /\ Nodes # {}
    /\ Edges \subseteq Nodes \X Nodes
    /\ Branch \in [Edges -> {"any", "yes", "no"}]
    /\ Kind \in [Nodes -> {"plain", "output", "condition", "tool_call", "code"}]
    /\ MaxRequests \in Nat
    /\ Changes \in Nat \ {0}
    /\ Take \in Nat \ {0}
    /\ Faults \subseteq AllFaults

VARIABLES row,    \* the execution rows
          eng,    \* the engine walking a run, if one is
          req,    \* the approval requests, with the script row of a change set
          task,   \* what a decision set going in the process that took it
          cancel, \* a cancel under way, with the row it read
          sent,   \* the cancel signals on the Redis channel
          old,    \* whether a run was created longer ago than the reaper allows
          made,   \* history: calls made for a request
          ran     \* history: how often a run's step ran and left an output, a request or a failure
vars == <<row, eng, req, task, cancel, sent, old, made, ran>>

-----------------------------------------------------------------------------
\* Rows and in-process state

Terminal == {"completed", "failed", "cancelled", "timeout"}
Done == {"ok", "yes", "no"}              \* a step with an output
Ended == Done \cup {"blank"}             \* or without: an undefined one leaves no key in the row
Saved == Ended \cup {"todo", "failed", "rejected", "waiting", "skipped"}
Local == Saved \cup {"asking", "attaching"}

Row == [status : Terminal \cup {"none", "running", "waiting_approval"},
        res : [Nodes -> Saved],
        ask : [Nodes -> Requests \cup {NoRequest}]]

Engine == [pc : {"off", "walk", "commit"},
           res : [Nodes -> Local],       \* nodeResults
           ask : [Nodes -> Requests \cup {NoRequest}], \* waitingSteps
           prior : [Nodes -> Saved],     \* what a resumed run does not run again
           layer : SUBSET Nodes,
           verdict : Terminal \cup {"none", "waiting_approval"},
           signal : {"none", "aborted", "cancelled"}]

Request == [status : {"none", "pending", "approved", "refused"},
            kind : {"tool_call", "code"},
            call : Nodes,
            run : Runs,
            claimed : BOOLEAN,           \* resultAt
            result : {"none", "ok", "failed"},
            script : {"waiting_approval", "running", "approved", "rejected"},
            attached : BOOLEAN]          \* the script row names this request

TaskPc == {"off", "claim_call", "call", "keep", "settle", "apply", "keep_set",
           "find", "next", "check", "claim", "enter", "walk", "done", "dead"}
Task == [pc : TaskPc,
         left : SUBSET Runs,
         run : Runs,
         seen : Row,
         out : {"none", "ok", "failed"}]

Nothing == [n \in Nodes |-> "todo"]
NoAsks == [n \in Nodes |-> NoRequest]
NewRow == [status |-> "none", res |-> Nothing, ask |-> NoAsks]
Engaged(prior) == [pc |-> "walk", res |-> Nothing, ask |-> NoAsks, prior |-> prior,
                   layer |-> {}, verdict |-> "none", signal |-> "none"]
Off == [Engaged(Nothing) EXCEPT !.pc = "off"]

AnyRun == CHOOSE r \in Runs : TRUE
NotFiled == [status |-> "none", kind |-> "code", call |-> CHOOSE n \in Nodes : TRUE, run |-> AnyRun,
             claimed |-> FALSE, result |-> "none", script |-> "waiting_approval", attached |-> FALSE]
NoTask == [pc |-> "off", left |-> {}, run |-> AnyRun, seen |-> NewRow, out |-> "none"]

Init ==
    /\ row = [r \in Runs |-> NewRow]
    /\ eng = [r \in Runs |-> Off]
    /\ req = [q \in Requests |-> NotFiled]
    /\ task = [q \in Requests |-> NoTask]
    /\ cancel = [r \in Runs |-> [pc |-> "idle", seen |-> NewRow]]
    /\ sent = {}
    /\ old = {}
    /\ made = [q \in Requests |-> 0]
    /\ ran = [r \in Runs |-> [n \in Nodes |-> 0]]

-----------------------------------------------------------------------------
\* The engine: layers of a pipeline

Preds(n) == {p \in Nodes : <<p, n>> \in Edges}

\* Kahn's layers: the steps left whose predecessors are all behind.
NextLayer(res) == {n \in Nodes : res[n] = "todo" /\ \A p \in Preds(n) : res[p] # "todo"}

\* markBranchAsSkipped: a step with one incoming edge is skipped with it; a
\* step with several only when all of them come from skipped steps.
NotTaken_GoesOn(res, p, n) == \* mutant
    \/ res[p] \in {"failed", "rejected"}
    \/ res[p] \in {"yes", "no"} /\ Branch[<<p, n>>] \notin {"any", res[p]}
NotTaken(res, p, n) ==
    \/ res[p] \in {"failed", "rejected", "waiting"}
    \/ res[p] \in {"yes", "no"} /\ Branch[<<p, n>>] \notin {"any", res[p]}
IsSkipped(res, n) ==
    \/ Preds(n) # {} /\ \A p \in Preds(n) : res[p] = "skipped"
    \/ \E p \in Preds(n) : Preds(n) = {p} /\ NotTaken(res, p, n)

\* A layer begins: skipped steps are marked, and a resumed run takes over
\* what it had (the replayed steps and the decided ones).
Entered(e, layer) ==
    [n \in Nodes |-> IF n \notin layer THEN e.res[n]
                     ELSE IF IsSkipped(e.res, n) THEN "skipped" ELSE e.prior[n]]

Open == {"todo", "asking", "attaching"}
Walking(r) == eng[r].pc = "walk"
AtBoundary(r) ==
    Walking(r) /\ \A n \in eng[r].layer : eng[r].res[n] \notin Open

\* execute: the row is created running.
Start(r) ==
    /\ row[r].status = "none"
    /\ row' = [row EXCEPT ![r].status = "running"]
    /\ eng' = [eng EXCEPT ![r] = Engaged(Nothing)]
    /\ UNCHANGED <<req, task, cancel, sent, old, made, ran>>

\* What the engine decides to write (commitTerminal follows).
Conclude(r, verdict) ==
    /\ eng' = [eng EXCEPT ![r].pc = "commit", ![r].verdict = verdict]
    /\ UNCHANGED <<row, req, task, cancel, sent, old, made, ran>>

EnterLayer(r) ==
    LET layer == NextLayer(eng[r].res)
    IN /\ AtBoundary(r)
       /\ eng[r].signal = "none"
       /\ layer # {}
       /\ eng' = [eng EXCEPT ![r].layer = layer, ![r].res = Entered(eng[r], layer)]
       /\ UNCHANGED <<row, req, task, cancel, sent, old, made, ran>>

LayerCancelled(r) ==
    /\ AtBoundary(r)
    /\ eng[r].signal # "none"
    /\ NextLayer(eng[r].res) # {}
    /\ Conclude(r, "cancelled")

\* The time limit (before a layer or within one), the run's budget, and the
\* agent's budget policy, which ends the run as completed.
LimitMet(r) ==
    /\ "limit" \in Faults
    /\ Walking(r)
    /\ \/ Conclude(r, "timeout")
       \/ AtBoundary(r) /\ eng[r].signal = "none" /\ Conclude(r, "failed")
       \/ AtBoundary(r) /\ eng[r].signal = "none" /\ NextLayer(eng[r].res) # {} /\ Conclude(r, "completed")

\* After the last layer.
Verdict(e) ==
    LET Is(o) == \E n \in Nodes : e.res[n] = o
        output == \E n \in Nodes : Kind[n] = "output" /\ e.res[n] \in Ended
    IN IF e.signal = "cancelled" THEN "cancelled"
       ELSE IF Is("waiting") /\ ~Is("failed") /\ ~Is("rejected") THEN "waiting_approval"
       ELSE IF Is("rejected") /\ ~Is("failed") /\ ~output THEN "cancelled"
       ELSE IF (Is("failed") \/ Is("rejected")) /\ ~output THEN "failed"
       ELSE "completed"

Finish(r) ==
    /\ AtBoundary(r)
    /\ NextLayer(eng[r].res) = {}
    /\ Conclude(r, Verdict(eng[r]))

\* The layer a time limit cut short: a step of it that has its result leaves
\* no entry, and every other one that was not skipped, the ones that wait
\* included, is a failed one.
CutShort(e) ==
    {n \in Nodes : \/ e.res[n] \in {"asking", "attaching"}
                   \/ n \in e.layer /\ e.res[n] # "skipped" /\ \E m \in e.layer : e.res[m] \in Open}

Recorded_InFlight(e) == e.res \* mutant
Recorded(e) ==
    [n \in Nodes |-> IF n \notin CutShort(e) THEN e.res[n]
                     ELSE IF e.res[n] \in Ended THEN "todo" ELSE "failed"]

\* commitTerminal, and the engine's end: the write is guarded on the status,
\* and dropped when somebody else has ended the run.  A task that walked the
\* run goes on to its next one.
WalkEnds(r, pc) == [q \in Requests |-> IF task[q].pc = "walk" /\ task[q].run = r
                                       THEN [task[q] EXCEPT !.pc = pc] ELSE task[q]]

MayCommit_Unguarded(r) == TRUE \* mutant
MayCommit(r) == row[r].status \in {"running", eng[r].verdict}

Commit(r) ==
    LET e == eng[r]
    IN /\ e.pc = "commit"
       /\ row' = IF MayCommit(r)
                 THEN [row EXCEPT ![r] =
                         [status |-> e.verdict, res |-> Recorded(e),
                          ask |-> IF e.verdict = "waiting_approval" THEN e.ask ELSE NoAsks]]
                 ELSE row
       /\ eng' = [eng EXCEPT ![r] = Off]
       /\ task' = WalkEnds(r, "next")
       /\ UNCHANGED <<req, cancel, sent, old, made, ran>>

-----------------------------------------------------------------------------
\* The engine: one step of the pipeline

Ready(r, n) == Walking(r) /\ n \in eng[r].layer /\ eng[r].res[n] = "todo"
Failing == IF "fail" \in Faults THEN {"failed"} ELSE {}

Outcomes(n) ==
    (CASE Kind[n] = "condition" -> {"yes", "no"}
       [] Kind[n] \in {"plain", "output"} -> {"ok", "blank"}
       [] Kind[n] = "code" -> {"ok"}
       [] OTHER -> {}) \cup Failing

\* A step that asks nobody, a script that staged no change, or a step that
\* failed before it could ask.
RunNode(r, n) ==
    /\ Ready(r, n)
    /\ \E o \in Outcomes(n) :
        /\ eng' = [eng EXCEPT ![r].res[n] = o]
        /\ ran' = IF o = "blank" THEN ran ELSE [ran EXCEPT ![r][n] = @ + 1]
    /\ UNCHANGED <<row, req, task, cancel, sent, old, made>>

PendingFor(n) == {q \in Requests : req[q].status = "pending" /\ req[q].kind = "tool_call" /\ req[q].call = n}

\* hold, the lookup: the same call that already waits is the request.
HoldLookup(r, n) ==
    /\ Ready(r, n)
    /\ Kind[n] = "tool_call"
    /\ IF PendingFor(n) = {}
       THEN eng' = [eng EXCEPT ![r].res[n] = "asking"]
       ELSE \E q \in PendingFor(n) : eng' = [eng EXCEPT ![r].res[n] = "waiting", ![r].ask[n] = q]
    /\ ran' = [ran EXCEPT ![r][n] = @ + 1]
    /\ UNCHANGED <<row, req, task, cancel, sent, old, made>>

Fresh(q) == /\ req[q].status = "none"
            /\ \A p \in Requests : p < q => req[p].status # "none"

File(q, kind, r, n) ==
    req' = [req EXCEPT ![q].status = "pending", ![q].kind = kind, ![q].call = n, ![q].run = r]

\* hold, the insert: nothing stops a second request for the same call.
HoldCreate(r, n) ==
    /\ Walking(r)
    /\ eng[r].res[n] = "asking"
    /\ \E q \in Requests :
        /\ Fresh(q)
        /\ File(q, "tool_call", r, n)
        /\ eng' = [eng EXCEPT ![r].res[n] = "waiting", ![r].ask[n] = q]
    /\ UNCHANGED <<row, task, cancel, sent, old, made, ran>>

\* holdChangeSet: the script staged changes and waits; its request is filed,
StageChanges(r, n) ==
    /\ Ready(r, n)
    /\ Kind[n] = "code"
    /\ \E q \in Requests :
        /\ Fresh(q)
        /\ File(q, "code", r, n)
        /\ eng' = [eng EXCEPT ![r].res[n] = "attaching", ![r].ask[n] = q]
    /\ ran' = [ran EXCEPT ![r][n] = @ + 1]
    /\ UNCHANGED <<row, task, cancel, sent, old, made>>

\* and only then does the script row name the request (attachApproval).
AttachApproval(r, n) ==
    /\ Walking(r)
    /\ eng[r].res[n] = "attaching"
    /\ req' = [req EXCEPT ![eng[r].ask[n]].attached = TRUE]
    /\ eng' = [eng EXCEPT ![r].res[n] = "waiting"]
    /\ UNCHANGED <<row, task, cancel, sent, old, made, ran>>

-----------------------------------------------------------------------------
\* A decision, and the task it sets going

Unsaved(q) == \E r \in Runs, n \in Nodes : eng[r].pc # "off" /\ eng[r].ask[n] = q

\* Who listens: code mode for a change set; for a held call the gate when it
\* was approved, the resume service when it was not.
Listener_AnyDecision(q, decision) == IF req[q].kind = "code" THEN "settle" ELSE "claim_call" \* mutant
Listener(q, decision) ==
    IF req[q].kind = "code" THEN "settle"
    ELSE IF decision = "approved" THEN "claim_call" ELSE "find"

\* A person decides, or nobody does in time (refused stands for rejected and
\* expired).  'approval.decided' reaches the listeners of this process only.
Decide(q, decision) ==
    /\ req[q].status = "pending"
    /\ "early" \in Faults \/ ~Unsaved(q)
    /\ req' = [req EXCEPT ![q].status = decision]
    /\ task' = [task EXCEPT ![q].pc = Listener(q, decision)]
    /\ UNCHANGED <<row, eng, cancel, sent, old, made, ran>>

\* runHeld: the result is claimed before the call is made,
ClaimCall(q) ==
    /\ task[q].pc = "claim_call"
    /\ IF req[q].claimed
       THEN task' = [task EXCEPT ![q].pc = "done"] /\ UNCHANGED req
       ELSE task' = [task EXCEPT ![q].pc = "call"] /\ req' = [req EXCEPT ![q].claimed = TRUE]
    /\ UNCHANGED <<row, eng, cancel, sent, old, made, ran>>

MakeCall(q) ==
    /\ task[q].pc = "call"
    /\ \E o \in {"ok"} \cup Failing : task' = [task EXCEPT ![q].pc = "keep", ![q].out = o]
    /\ made' = [made EXCEPT ![q] = @ + 1]
    /\ UNCHANGED <<row, eng, req, cancel, sent, old, ran>>

\* its outcome is kept, and then announced (HELD_CALL_SETTLED).
KeepResult_Silent(q) == \* mutant
    /\ task[q].pc = "keep"
    /\ req' = [req EXCEPT ![q].result = task[q].out]
    /\ task' = [task EXCEPT ![q].pc = "done"]
    /\ UNCHANGED <<row, eng, cancel, sent, old, made, ran>>
KeepResult(q) ==
    /\ task[q].pc = "keep"
    /\ req' = [req EXCEPT ![q].result = task[q].out]
    /\ task' = [task EXCEPT ![q].pc = "find"]
    /\ UNCHANGED <<row, eng, cancel, sent, old, made, ran>>

\* onDecided and decideHeld: a refused set is marked; an approved one is
\* claimed by the script row, which must name this request.
ToResume(q) == [task EXCEPT ![q].pc = "next", ![q].left = {req[q].run}]

SettleSet(q) ==
    /\ task[q].pc = "settle"
    /\ IF req[q].status = "refused"
       THEN req' = [req EXCEPT ![q].script = "rejected"] /\ task' = ToResume(q)
       ELSE IF req[q].script = "waiting_approval" /\ req[q].attached
            THEN req' = [req EXCEPT ![q].script = "running"] /\ task' = [task EXCEPT ![q].pc = "apply"]
            ELSE UNCHANGED req /\ task' = ToResume(q)
    /\ UNCHANGED <<row, eng, cancel, sent, old, made, ran>>

\* applyChangeSet: the calls in order, up to the first that fails.
ApplyChange(q) ==
    /\ task[q].pc = "apply"
    /\ made' = [made EXCEPT ![q] = @ + 1]
    /\ \E o \in {"ok"} \cup Failing :
        task' = IF o = "ok" /\ made[q] + 1 < Changes THEN task
                ELSE [task EXCEPT ![q].pc = "keep_set", ![q].out = o]
    /\ UNCHANGED <<row, eng, req, cancel, sent, old, ran>>

KeepSet(q) ==
    /\ task[q].pc = "keep_set"
    /\ req' = [req EXCEPT ![q].script = "approved", ![q].result = task[q].out]
    /\ task' = ToResume(q)
    /\ UNCHANGED <<row, eng, cancel, sent, old, made, ran>>

\* onHeldCallDecided: at most Take waiting runs are looked at, in no order.
Waiting == {r \in Runs : row[r].status = "waiting_approval"}
Asks(rw, q) == \E n \in Nodes : rw.ask[n] = q

FindWaiting(q) ==
    /\ task[q].pc = "find"
    /\ \E found \in SUBSET Waiting :
        /\ Cardinality(found) = IF Cardinality(Waiting) < Take THEN Cardinality(Waiting) ELSE Take
        /\ task' = [task EXCEPT ![q].pc = "next", ![q].left = {r \in found : Asks(row[r], q)}]
    /\ UNCHANGED <<row, eng, req, cancel, sent, old, made, ran>>

\* resumeIfDecided reads the run,
ReadRun(q) ==
    /\ task[q].pc = "next"
    /\ \/ task[q].left = {} /\ task' = [task EXCEPT ![q].pc = "done"]
       \/ \E r \in task[q].left :
            task' = IF row[r].status = "waiting_approval" /\ row[r].ask # NoAsks
                    THEN [task EXCEPT ![q].pc = "check", ![q].left = @ \ {r},
                                      ![q].run = r, ![q].seen = row[r]]
                    ELSE [task EXCEPT ![q].left = @ \ {r}]
    /\ UNCHANGED <<row, eng, req, cancel, sent, old, made, ran>>

\* then what became of everything it waits on,
IsSettled(p) ==
    /\ req[p].status \in {"approved", "refused"}
    /\ req[p].kind = "tool_call" => (req[p].status = "approved" => req[p].result # "none")
    /\ req[p].kind = "code" => req[p].script \in {"approved", "rejected"}

CheckSettled(q) ==
    /\ task[q].pc = "check"
    /\ task' = [task EXCEPT ![q].pc =
                  IF \A n \in Nodes : task[q].seen.ask[n] # NoRequest => IsSettled(task[q].seen.ask[n])
                  THEN "claim" ELSE "next"]
    /\ UNCHANGED <<row, eng, req, cancel, sent, old, made, ran>>

\* then claims the run (waiting_approval -> running),
Claimable_NotOver(r) == row[r].status \notin Terminal \* mutant
Claimable(r) == row[r].status = "waiting_approval"

ClaimRun(q) ==
    LET r == task[q].run
    IN /\ task[q].pc = "claim"
       /\ IF Claimable(r)
          THEN row' = [row EXCEPT ![r].status = "running"] /\ task' = [task EXCEPT ![q].pc = "enter"]
          ELSE UNCHANGED row /\ task' = [task EXCEPT ![q].pc = "next"]
       /\ UNCHANGED <<eng, req, cancel, sent, old, made, ran>>

\* and hands what it read to the engine: steps with an output are replayed,
\* one that ended without runs again, and the steps that waited have what
\* settledHeldCall and settledCodeStep say.
Settlement_Approved(p) == IF req[p].status = "refused" THEN "rejected" ELSE "ok" \* mutant
Settlement(p) ==
    IF req[p].status = "refused" THEN "rejected"
    ELSE IF req[p].result = "ok" THEN "ok" ELSE "failed"

Prior_HeldOnly(seen) == \* mutant
    [n \in Nodes |-> IF seen.ask[n] # NoRequest THEN Settlement(seen.ask[n]) ELSE "todo"]
Prior(seen) ==
    [n \in Nodes |-> IF seen.ask[n] # NoRequest THEN Settlement(seen.ask[n])
                     ELSE IF seen.res[n] \in Done THEN seen.res[n] ELSE "todo"]

EnterEngine(q) ==
    /\ task[q].pc = "enter"
    /\ eng' = [eng EXCEPT ![task[q].run] = Engaged(Prior(task[q].seen))]
    /\ task' = [task EXCEPT ![q].pc = "walk"]
    /\ UNCHANGED <<row, req, cancel, sent, old, made, ran>>

\* The agent is gone, or its principal may no longer run it.
ResumeRefused(q) ==
    /\ "refuse" \in Faults
    /\ task[q].pc = "enter"
    /\ row' = IF row[task[q].run].status = "running"
              THEN [row EXCEPT ![task[q].run].status = "failed"] ELSE row
    /\ task' = [task EXCEPT ![q].pc = "next"]
    /\ UNCHANGED <<eng, req, cancel, sent, old, made, ran>>

-----------------------------------------------------------------------------
\* Cancels, the reaper and faults

Abort(r, how) == IF eng[r].pc = "off" THEN eng ELSE [eng EXCEPT ![r].signal = how]

\* cancel reads the row, refuses a run that is over, and stops an engine of
\* its own process,
CancelRead(r) ==
    /\ "cancel" \in Faults
    /\ cancel[r].pc = "idle"
    /\ row[r].status \notin Terminal \cup {"none"}
    /\ cancel' = [cancel EXCEPT ![r] = [pc |-> "save", seen |-> row[r]]]
    /\ eng' \in {eng, Abort(r, "cancelled")}
    /\ UNCHANGED <<row, req, task, sent, old, made, ran>>

\* then saves the entity it read, whatever the row has become (save writes
\* every column that differs), and publishes the signal.
CancelSave(r) ==
    /\ cancel[r].pc = "save"
    /\ row' = [row EXCEPT ![r] = [cancel[r].seen EXCEPT !.status = "cancelled"]]
    /\ cancel' = [cancel EXCEPT ![r] = [pc |-> "done", seen |-> NewRow]]
    /\ sent' = sent \cup {r}
    /\ UNCHANGED <<eng, req, task, old, made, ran>>

\* applyRemoteCancel, on the replica that walks the run; a signal may be lost.
CancelHeard(r) ==
    /\ r \in sent
    /\ sent' = sent \ {r}
    /\ eng' = Abort(r, "cancelled")
    /\ UNCHANGED <<row, req, task, cancel, old, made, ran>>

Disconnect(r) ==
    /\ "disconnect" \in Faults
    /\ Walking(r)
    /\ eng[r].signal = "none"
    /\ \A q \in Requests : ~(task[q].pc = "walk" /\ task[q].run = r) \* a resumed run has no client
    /\ eng' = Abort(r, "aborted")
    /\ UNCHANGED <<row, req, task, cancel, sent, old, made, ran>>

\* Time passes.  An engine's own limit ends a first walk long before the
\* reaper's window is over; a run that waited carries on with its old age.
Age(r) ==
    /\ r \notin old
    /\ row[r].status \in {"running", "waiting_approval"}
    /\ row[r].status = "running" => eng[r].pc = "off"
    /\ old' = old \cup {r}
    /\ UNCHANGED <<row, eng, req, task, cancel, sent, made, ran>>

Stuck_Waiting(r) == r \in old /\ row[r].status = "waiting_approval" \* mutant
Stuck(r) == r \in old /\ row[r].status = "running"

Reap(r) ==
    /\ Stuck(r)
    /\ row' = [row EXCEPT ![r].status = "timeout"]
    /\ UNCHANGED <<eng, req, task, cancel, sent, old, made, ran>>

\* The process that walks a run dies, and the task that walks it with it.
CrashEngine(r) ==
    /\ "crash" \in Faults
    /\ eng[r].pc # "off"
    /\ eng' = [eng EXCEPT ![r] = Off]
    /\ task' = WalkEnds(r, "dead")
    /\ UNCHANGED <<row, req, cancel, sent, old, made, ran>>

CrashTask(q) ==
    /\ "crash" \in Faults
    /\ task[q].pc \notin {"off", "walk", "done", "dead"}
    /\ task' = [task EXCEPT ![q].pc = "dead"]
    /\ UNCHANGED <<row, eng, req, cancel, sent, old, made, ran>>

-----------------------------------------------------------------------------
RunStep(r) ==
    \/ Start(r) \/ EnterLayer(r) \/ LayerCancelled(r) \/ LimitMet(r) \/ Finish(r) \/ Commit(r)
    \/ \E n \in Nodes : \/ RunNode(r, n) \/ HoldLookup(r, n) \/ HoldCreate(r, n)
                        \/ StageChanges(r, n) \/ AttachApproval(r, n)

TaskStep(q) ==
    \/ ClaimCall(q) \/ MakeCall(q) \/ KeepResult(q) \/ SettleSet(q) \/ ApplyChange(q) \/ KeepSet(q)
    \/ FindWaiting(q) \/ ReadRun(q) \/ CheckSettled(q) \/ ClaimRun(q)
    \/ EnterEngine(q) \/ ResumeRefused(q)

Others(r) ==
    \/ CancelRead(r) \/ CancelSave(r) \/ CancelHeard(r) \/ Disconnect(r)
    \/ Age(r) \/ Reap(r) \/ CrashEngine(r)

Next ==
    \/ \E r \in Runs : RunStep(r) \/ Others(r)
    \/ \E q \in Requests : TaskStep(q) \/ CrashTask(q) \/ \E d \in {"approved", "refused"} : Decide(q, d)

Spec == Init /\ [][Next]_vars

\* Live processes go on, the clock runs and the reaper's interval fires; no
\* person has to decide, and a lost signal is a signal nobody hears.
FairSpec ==
    /\ Spec
    /\ \A r \in Runs : WF_vars(RunStep(r)) /\ WF_vars(Age(r)) /\ WF_vars(Reap(r))
    /\ \A q \in Requests : WF_vars(TaskStep(q))

-----------------------------------------------------------------------------
\* Type invariant.
TypeOK ==
    /\ row \in [Runs -> Row]
    /\ eng \in [Runs -> Engine]
    /\ req \in [Requests -> Request]
    /\ task \in [Requests -> Task]
    /\ cancel \in [Runs -> [pc : {"idle", "save", "done"}, seen : Row]]
    /\ sent \subseteq Runs
    /\ old \subseteq Runs
    /\ made \in [Requests -> Nat]
    /\ ran \in [Runs -> [Nodes -> Nat]]

\* A call or a change set runs only for a request a person approved, and
\* at most once: no task, retry or crash makes a held call twice, or more
\* calls than the approved set has (runHeld's and decideHeld's claims).
ApprovedAndOnce ==
    \A q \in Requests :
        /\ made[q] <= IF req[q].kind = "code" THEN Changes ELSE 1
        /\ made[q] > 0 => req[q].status = "approved"

\* A waiting run is carried on by one task, and no task hands the engine a
\* run that is still walked (resumeIfDecided's claim).
CarriedOnByOne ==
    \A q \in Requests : task[q].pc \in {"enter", "walk"} =>
        /\ \A p \in Requests \ {q} : task[p].pc \in {"enter", "walk"} => task[p].run # task[q].run
        /\ task[q].pc = "enter" => eng[task[q].run].pc = "off"

\* What a run's record says of a held step is what became of its request: an
\* output only after every approved call of it was made and worked, and
\* "Rejected" only when none was made (settledHeldCall, settledCodeStep).
HeldFor(r, n) ==
    {q \in Requests : /\ req[q].status # "none" /\ req[q].call = n
                      /\ req[q].kind = "code" => req[q].run = r}
RecordIsTrue ==
    \A r \in Runs, n \in Nodes :
        /\ row[r].res[n] = "ok" /\ HeldFor(r, n) # {} =>
            \E q \in HeldFor(r, n) :
                /\ req[q].status = "approved" /\ req[q].result = "ok"
                /\ made[q] = IF req[q].kind = "code" THEN Changes ELSE 1
        /\ row[r].res[n] = "rejected" =>
            \E q \in HeldFor(r, n) : req[q].status = "refused" /\ made[q] = 0

\* Carrying a run on runs no step again that left an output or asked: what is
\* in the record is replayed, what waited is decided, and the claim lets one of
\* two decisions that land together carry the run on.  A step that ended
\* without an output is not counted: its record has no output key, and the
\* resumed engine runs it again.
StepsRunOnce == \A r \in Runs, n \in Nodes : ran[r][n] <= 1

\* What comes after a waiting step waits too.
WhatFollowsWaits ==
    \A r \in Runs : \A e \in Edges :
        row[r].status = "waiting_approval" /\ row[r].res[e[1]] = "waiting" => row[r].res[e[2]] \notin Ended

\* The same call held twice while the first is pending is one request.
OneRequestPerCall == \A n \in Nodes : Cardinality(PendingFor(n)) <= 1

StandsUnlessCancelled(r) ==
    row[r].status \in Terminal /\ row'[r].status # row[r].status =>
        row'[r].status = "cancelled" /\ cancel[r].pc = "save"
OutcomesStand == \A r \in Runs : StandsUnlessCancelled(r)

\* The outcome of a run that is over stands, against late engines, resumed
\* runs and the reaper; only a cancel that had read the run before it ended
\* writes over it (commitTerminal, reapStuckExecutions, cancel).
OnlyLateCancelRewrites == [][OutcomesStand]_vars

\* A run whose requests are all decided leaves waiting_approval, unless the
\* process of a decision died.
DecidedRunCarriesOn ==
    \A r \in Runs :
        (/\ row[r].status = "waiting_approval"
         /\ \A n \in Nodes : row[r].ask[n] # NoRequest => req[row[r].ask[n]].status # "pending")
        ~> (row[r].status # "waiting_approval" \/ \E q \in Requests : task[q].pc = "dead")

\* No run stays running: its engine ends it, or it waits, or the reaper ends
\* what a dead process left.
RunsEnd == \A r \in Runs : row[r].status = "running" ~> row[r].status # "running"
=============================================================================
