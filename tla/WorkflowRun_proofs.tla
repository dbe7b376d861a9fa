------------------------ MODULE WorkflowRun_proofs ------------------------
(***************************************************************************)
(* Proofs about WorkflowRun, for any runs, any pipeline and any number of  *)
(* requests, and with any of the faults:                                   *)
(*   - the type invariant;                                                 *)
(*   - a held call is made once, and only when it was approved;            *)
(*   - a waiting run is carried on by one task;                            *)
(*   - only a late cancel writes over the outcome of a run;                *)
(*   - what the record says of a held step is what became of its request.  *)
(***************************************************************************)
EXTENDS WorkflowRun, TLAPS

-----------------------------------------------------------------------------
(* The type invariant.                                                     *)

Asked == [Nodes -> Requests \cup {NoRequest}]

LEMMA NoneTypes ==
    /\ Nothing \in [Nodes -> Saved] /\ NoAsks \in Asked
    /\ NewRow \in Row
    /\ Off \in Engine
    /\ NotFiled \in Request
    /\ NoTask \in Task
<1>1. AnyRun \in Runs /\ (CHOOSE n \in Nodes : TRUE) \in Nodes
    BY WorkflowAssumption DEF AnyRun
<1>2. Nothing \in [Nodes -> Saved] /\ NoAsks \in Asked
    BY DEF Nothing, Saved, NoAsks, Asked
<1>3. NewRow \in Row
    BY <1>2 DEF NewRow, Row, Asked
<1>4. Nothing \in [Nodes -> Local]
    BY DEF Nothing, Local, Saved
<1>5. Engaged(Nothing) \in Engine
    BY <1>2, <1>4 DEF Engaged, Engine, Asked
<1>8. Off \in Engine
    BY <1>5 DEF Off, Engine
<1>6. NotFiled \in Request
    BY <1>1 DEF NotFiled, Request
<1>7. NoTask \in Task
    BY <1>1, <1>3 DEF NoTask, Task, TaskPc
<1> QED
    BY <1>2, <1>3, <1>8, <1>6, <1>7

LEMMA EngagedType ==
    ASSUME NEW prior \in [Nodes -> Saved]
    PROVE  Engaged(prior) \in Engine
<1>1. Nothing \in [Nodes -> Local] /\ NoAsks \in [Nodes -> Requests \cup {NoRequest}]
    BY NoneTypes DEF Asked, Nothing, Local, Saved
<1> QED
    BY <1>1 DEF Engaged, Engine

(* What the writes do to one record of each kind. *)

LEMMA RowWith ==
    ASSUME NEW rw \in Row, NEW s \in Terminal \cup {"none", "running", "waiting_approval"}
    PROVE  [rw EXCEPT !.status = s] \in Row
BY DEF Row

LEMMA EngineWithVerdict ==
    ASSUME NEW e \in Engine, NEW v \in Terminal \cup {"none", "waiting_approval"}
    PROVE  [e EXCEPT !.pc = "commit", !.verdict = v] \in Engine
BY DEF Engine

LEMMA EngineWithSignal ==
    ASSUME NEW e \in Engine, NEW how \in {"aborted", "cancelled"}
    PROVE  [e EXCEPT !.signal = how] \in Engine
BY DEF Engine

LEMMA EngineWithLayer ==
    ASSUME NEW e \in Engine, NEW layer \in SUBSET Nodes, NEW res \in [Nodes -> Local]
    PROVE  [e EXCEPT !.layer = layer, !.res = res] \in Engine
BY DEF Engine

LEMMA EngineWithResult ==
    ASSUME NEW e \in Engine, NEW n \in Nodes, NEW o \in Local
    PROVE  [e EXCEPT !.res[n] = o] \in Engine
<1>1. [e.res EXCEPT ![n] = o] \in [Nodes -> Local]
    BY DEF Engine
<1>2. [e EXCEPT !.res = [e.res EXCEPT ![n] = o]] \in Engine
    BY <1>1 DEF Engine
<1> QED
    BY <1>2

LEMMA EngineWithRequest ==
    ASSUME NEW e \in Engine, NEW n \in Nodes, NEW o \in Local, NEW q \in Requests
    PROVE  [e EXCEPT !.res[n] = o, !.ask[n] = q] \in Engine
<1>1. [e.res EXCEPT ![n] = o] \in [Nodes -> Local]
    BY DEF Engine
<1>2. [e.ask EXCEPT ![n] = q] \in [Nodes -> Requests \cup {NoRequest}]
    BY DEF Engine
<1>3. [e EXCEPT !.res = [e.res EXCEPT ![n] = o], !.ask = [e.ask EXCEPT ![n] = q]] \in Engine
    BY <1>1, <1>2 DEF Engine
<1> QED
    BY <1>3

LEMMA RequestWithStatus ==
    ASSUME NEW x \in Request, NEW s \in {"none", "pending", "approved", "refused"}
    PROVE  [x EXCEPT !.status = s] \in Request
BY DEF Request

LEMMA RequestFiled ==
    ASSUME NEW x \in Request, NEW k \in {"tool_call", "code"}, NEW n \in Nodes, NEW r \in Runs
    PROVE  [x EXCEPT !.status = "pending", !.kind = k, !.call = n, !.run = r] \in Request
BY DEF Request

LEMMA RequestWithFlags ==
    ASSUME NEW x \in Request
    PROVE  [x EXCEPT !.attached = TRUE] \in Request /\ [x EXCEPT !.claimed = TRUE] \in Request
<1>1. TRUE \in BOOLEAN
    OBVIOUS
<1>2. [x EXCEPT !.attached = TRUE] \in Request
    BY <1>1 DEF Request
<1>3. [x EXCEPT !.claimed = TRUE] \in Request
    BY <1>1 DEF Request
<1> QED
    BY <1>2, <1>3

LEMMA RequestWithResult ==
    ASSUME NEW x \in Request, NEW o \in {"none", "ok", "failed"}
    PROVE  [x EXCEPT !.result = o] \in Request
BY DEF Request

LEMMA RequestWithScript ==
    ASSUME NEW x \in Request, NEW s \in {"waiting_approval", "running", "approved", "rejected"}
    PROVE  [x EXCEPT !.script = s] \in Request
BY DEF Request

LEMMA TaskAt ==
    ASSUME NEW t \in Task, NEW p \in TaskPc
    PROVE  [t EXCEPT !.pc = p] \in Task
BY DEF Task

LEMMA TaskWithOutcome ==
    ASSUME NEW t \in Task, NEW p \in TaskPc, NEW o \in {"none", "ok", "failed"}
    PROVE  [t EXCEPT !.pc = p, !.out = o] \in Task
BY DEF Task

LEMMA TaskWithRuns ==
    ASSUME NEW t \in Task, NEW p \in TaskPc, NEW S \in SUBSET Runs
    PROVE  [t EXCEPT !.pc = p, !.left = S] \in Task
BY DEF Task

LEMMA TaskWithFewer ==
    ASSUME NEW t \in Task, NEW S \in SUBSET Runs
    PROVE  [t EXCEPT !.left = S] \in Task
BY DEF Task

LEMMA TaskWithRun ==
    ASSUME NEW t \in Task, NEW p \in TaskPc, NEW S \in SUBSET Runs, NEW r \in Runs, NEW rw \in Row
    PROVE  [t EXCEPT !.pc = p, !.left = S, !.run = r, !.seen = rw] \in Task
BY DEF Task

(* And to the variables. *)

LEMMA TaskGoes ==
    ASSUME TypeOK, NEW q \in Requests, NEW p \in TaskPc
    PROVE  [task EXCEPT ![q].pc = p] \in [Requests -> Task]
<1>1. [task[q] EXCEPT !.pc = p] \in Task
    BY TaskAt DEF TypeOK
<1> QED
    BY <1>1 DEF TypeOK

LEMMA RowGoes ==
    ASSUME TypeOK, NEW r \in Runs, NEW s \in Terminal \cup {"none", "running", "waiting_approval"}
    PROVE  [row EXCEPT ![r].status = s] \in [Runs -> Row]
<1>1. [row[r] EXCEPT !.status = s] \in Row
    BY RowWith DEF TypeOK
<1> QED
    BY <1>1 DEF TypeOK

LEMMA TaskPcs ==
    {"off", "claim_call", "call", "keep", "settle", "apply", "keep_set", "find", "next",
     "check", "claim", "enter", "walk", "done", "dead"} \subseteq TaskPc
BY DEF TaskPc

LEMMA TypeInit == Init => TypeOK
BY NoneTypes DEF Init, TypeOK

LEMMA TypeConclude ==
    ASSUME TypeOK, NEW r \in Runs, NEW v \in Terminal \cup {"none", "waiting_approval"}, Conclude(r, v)
    PROVE  TypeOK'
<1>1. [eng[r] EXCEPT !.pc = "commit", !.verdict = v] \in Engine
    BY EngineWithVerdict DEF TypeOK
<1>2. eng' \in [Runs -> Engine]
    BY <1>1 DEF Conclude, TypeOK
<1> QED
    BY <1>2 DEF Conclude, TypeOK

LEMMA EnteredType ==
    ASSUME NEW e \in Engine, NEW layer \in SUBSET Nodes
    PROVE  Entered(e, layer) \in [Nodes -> Local]
BY DEF Entered, Engine, Local, Saved

LEMMA VerdictType ==
    ASSUME NEW e
    PROVE  Verdict(e) \in Terminal \cup {"none", "waiting_approval"}
BY DEF Verdict, Terminal

LEMMA RecordedType ==
    ASSUME NEW e \in Engine
    PROVE  Recorded(e) \in [Nodes -> Saved]
BY DEF Recorded, CutShort, Engine, Local, Saved

LEMMA WalkEndsType ==
    ASSUME TypeOK, NEW r \in Runs, NEW p \in {"next", "dead"}
    PROVE  WalkEnds(r, p) \in [Requests -> Task]
<1>1. \A q \in Requests : task[q] \in Task
    BY DEF TypeOK
<1>2. \A q \in Requests : [task[q] EXCEPT !.pc = p] \in Task
    BY <1>1, TaskAt, TaskPcs
<1> QED
    BY <1>1, <1>2 DEF WalkEnds

LEMMA EngineType ==
    ASSUME TypeOK, NEW r \in Runs, NEW e \in Engine
    PROVE  [eng EXCEPT ![r] = e] \in [Runs -> Engine]
BY DEF TypeOK

LEMMA TypeLayers ==
    ASSUME TypeOK, NEW r \in Runs,
           \/ Start(r) \/ EnterLayer(r) \/ LayerCancelled(r) \/ LimitMet(r) \/ Finish(r) \/ Commit(r)
    PROVE  TypeOK'
<1>1. CASE Start(r)
    <2>1. row' \in [Runs -> Row]
        BY <1>1, RowGoes DEF Start
    <2>2. eng' \in [Runs -> Engine]
        BY <1>1, EngagedType, EngineType, NoneTypes DEF Start
    <2> QED
        BY <1>1, <2>1, <2>2 DEF Start, TypeOK
<1>2. CASE EnterLayer(r)
    <2> DEFINE layer == NextLayer(eng[r].res)
    <2>1. layer \in SUBSET Nodes /\ eng[r] \in Engine
        BY DEF NextLayer, TypeOK
    <2>2. Entered(eng[r], layer) \in [Nodes -> Local]
        BY <2>1, EnteredType
    <2>3. eng' = [eng EXCEPT ![r].layer = layer, ![r].res = Entered(eng[r], layer)]
        BY <1>2 DEF EnterLayer
    <2> HIDE DEF layer
    <2>4. [eng[r] EXCEPT !.layer = layer, !.res = Entered(eng[r], layer)] \in Engine
        BY <2>1, <2>2, EngineWithLayer
    <2>5. eng' \in [Runs -> Engine]
        BY <2>3, <2>4 DEF TypeOK
    <2> QED
        BY <1>2, <2>5 DEF EnterLayer, TypeOK
<1>3. CASE LayerCancelled(r)
    BY <1>3, TypeConclude DEF LayerCancelled, Terminal
<1>4. CASE LimitMet(r)
    BY <1>4, TypeConclude DEF LimitMet, Terminal
<1>5. CASE Finish(r)
    BY <1>5, TypeConclude, VerdictType DEF Finish
<1>6. CASE Commit(r)
    <2>1. eng[r] \in Engine /\ eng[r].verdict \in Terminal \cup {"none", "waiting_approval"}
             /\ eng[r].ask \in Asked
        BY DEF TypeOK, Engine, Asked
    <2>2. [status |-> eng[r].verdict, res |-> Recorded(eng[r]),
           ask |-> IF eng[r].verdict = "waiting_approval" THEN eng[r].ask ELSE NoAsks] \in Row
        BY <2>1, RecordedType, NoneTypes DEF Row, Asked
    <2>3. row' \in [Runs -> Row]
        BY <1>6, <2>2 DEF Commit, TypeOK
    <2>4. task' \in [Requests -> Task]
        BY <1>6, WalkEndsType DEF Commit
    <2>5. eng' \in [Runs -> Engine]
        BY <1>6, EngineType, NoneTypes DEF Commit
    <2> QED
        BY <1>6, <2>3, <2>4, <2>5 DEF Commit, TypeOK
<1> QED
    BY <1>1, <1>2, <1>3, <1>4, <1>5, <1>6

\* A step of the pipeline sets one result, and perhaps one request.
LEMMA SetsResult ==
    ASSUME TypeOK, NEW r \in Runs, NEW n \in Nodes, NEW o \in Local
    PROVE  [eng EXCEPT ![r].res[n] = o] \in [Runs -> Engine]
<1>1. [eng[r] EXCEPT !.res[n] = o] \in Engine
    BY EngineWithResult DEF TypeOK
<1> QED
    BY <1>1 DEF TypeOK

LEMMA SetsRequest ==
    ASSUME TypeOK, NEW r \in Runs, NEW n \in Nodes, NEW o \in Local, NEW q \in Requests
    PROVE  [eng EXCEPT ![r].res[n] = o, ![r].ask[n] = q] \in [Runs -> Engine]
<1>1. [eng[r] EXCEPT !.res[n] = o, !.ask[n] = q] \in Engine
    BY EngineWithRequest DEF TypeOK
<1> QED
    BY <1>1 DEF TypeOK

LEMMA CountsRan ==
    ASSUME TypeOK, NEW r \in Runs, NEW n \in Nodes
    PROVE  [ran EXCEPT ![r][n] = @ + 1] \in [Runs -> [Nodes -> Nat]]
<1>1. ran[r] \in [Nodes -> Nat] /\ ran[r][n] + 1 \in Nat
    BY DEF TypeOK
<1>2. [ran[r] EXCEPT ![n] = ran[r][n] + 1] \in [Nodes -> Nat]
    BY <1>1
<1> QED
    BY <1>2 DEF TypeOK

LEMMA FileType ==
    ASSUME TypeOK, NEW r \in Runs, NEW n \in Nodes, NEW q \in Requests,
           NEW k \in {"tool_call", "code"}, File(q, k, r, n)
    PROVE  req' \in [Requests -> Request]
<1>1. [req[q] EXCEPT !.status = "pending", !.kind = k, !.call = n, !.run = r] \in Request
    BY RequestFiled DEF TypeOK
<1> QED
    BY <1>1 DEF File, TypeOK

LEMMA TypeNode ==
    ASSUME TypeOK, NEW r \in Runs, NEW n \in Nodes,
           \/ RunNode(r, n) \/ HoldLookup(r, n) \/ HoldCreate(r, n)
           \/ StageChanges(r, n) \/ AttachApproval(r, n)
    PROVE  TypeOK'
<1>0. {"asking", "attaching", "waiting"} \subseteq Local /\ \A o \in Outcomes(n) : o \in Local
    BY WorkflowAssumption DEF Local, Saved, Ended, Done, Outcomes, Failing
<1>1. CASE RunNode(r, n)
    <2>1. eng' \in [Runs -> Engine]
        BY <1>1, <1>0, SetsResult DEF RunNode
    <2>2. ran' \in [Runs -> [Nodes -> Nat]]
        <3>1. ran' = ran \/ ran' = [ran EXCEPT ![r][n] = @ + 1]
            BY <1>1 DEF RunNode
        <3>2. ran' = ran => ran' \in [Runs -> [Nodes -> Nat]]
            BY DEF TypeOK
        <3> QED
            BY <3>1, <3>2, CountsRan
    <2> QED
        BY <1>1, <2>1, <2>2 DEF RunNode, TypeOK
<1>2. CASE HoldLookup(r, n)
    <2>1. eng' \in [Runs -> Engine]
        <3>1. CASE PendingFor(n) = {}
            <4>1. eng' = [eng EXCEPT ![r].res[n] = "asking"]
                BY <1>2, <3>1 DEF HoldLookup
            <4> QED
                BY <4>1, <1>0, SetsResult
        <3>2. CASE PendingFor(n) # {}
            <4>1. PICK q \in Requests : eng' = [eng EXCEPT ![r].res[n] = "waiting", ![r].ask[n] = q]
                BY <1>2, <3>2 DEF HoldLookup, PendingFor
            <4> QED
                BY <4>1, <1>0, SetsRequest
        <3> QED
            BY <3>1, <3>2
    <2>2. ran' \in [Runs -> [Nodes -> Nat]]
        BY <1>2, CountsRan DEF HoldLookup
    <2> QED
        BY <1>2, <2>1, <2>2 DEF HoldLookup, TypeOK
<1>3. CASE HoldCreate(r, n)
    <2> PICK q \in Requests :
            /\ File(q, "tool_call", r, n)
            /\ eng' = [eng EXCEPT ![r].res[n] = "waiting", ![r].ask[n] = q]
        BY <1>3 DEF HoldCreate
    <2>1. req' \in [Requests -> Request]
        BY FileType
    <2>2. eng' \in [Runs -> Engine]
        BY <1>0, SetsRequest
    <2> QED
        BY <1>3, <2>1, <2>2 DEF HoldCreate, TypeOK
<1>4. CASE StageChanges(r, n)
    <2> PICK q \in Requests :
            /\ File(q, "code", r, n)
            /\ eng' = [eng EXCEPT ![r].res[n] = "attaching", ![r].ask[n] = q]
        BY <1>4 DEF StageChanges
    <2>1. req' \in [Requests -> Request]
        BY FileType
    <2>2. eng' \in [Runs -> Engine]
        BY <1>0, SetsRequest
    <2>3. ran' \in [Runs -> [Nodes -> Nat]]
        BY <1>4, CountsRan DEF StageChanges
    <2> QED
        BY <1>4, <2>1, <2>2, <2>3 DEF StageChanges, TypeOK
<1>5. CASE AttachApproval(r, n)
    <2>1. req' \in [Requests -> Request]
        <3> DEFINE q == eng[r].ask[n]
        <3>1. CASE q \in Requests
            <4>1. [req[q] EXCEPT !.attached = TRUE] \in Request
                BY <3>1, RequestWithFlags DEF TypeOK
            <4> QED
                BY <1>5, <3>1, <4>1 DEF AttachApproval, TypeOK
        <3>2. CASE q \notin Requests
            <4>1. req' = req
                BY <1>5, <3>2 DEF AttachApproval, TypeOK
            <4> QED
                BY <4>1 DEF TypeOK
        <3> QED
            BY <3>1, <3>2
    <2>2. eng' \in [Runs -> Engine]
        BY <1>5, <1>0, SetsResult DEF AttachApproval
    <2> QED
        BY <1>5, <2>1, <2>2 DEF AttachApproval, TypeOK
<1> QED
    BY <1>1, <1>2, <1>3, <1>4, <1>5

LEMMA TypeDecide ==
    ASSUME TypeOK, NEW q \in Requests, NEW d \in {"approved", "refused"}, Decide(q, d)
    PROVE  TypeOK'
<1>1. [req[q] EXCEPT !.status = d] \in Request
    BY RequestWithStatus DEF TypeOK
<1>2. req' \in [Requests -> Request]
    BY <1>1 DEF Decide, TypeOK
<1>3. task' \in [Requests -> Task]
    BY TaskGoes, TaskPcs DEF Decide, Listener
<1> QED
    BY <1>2, <1>3 DEF Decide, TypeOK

LEMMA ToResumeType ==
    ASSUME TypeOK, NEW q \in Requests
    PROVE  ToResume(q) \in [Requests -> Task]
<1>1. {req[q].run} \in SUBSET Runs /\ task[q] \in Task
    BY DEF TypeOK, Request
<1>2. [task[q] EXCEPT !.pc = "next", !.left = {req[q].run}] \in Task
    BY <1>1, TaskWithRuns, TaskPcs
<1> QED
    BY <1>2 DEF ToResume, TypeOK

LEMMA TypeCalls ==
    ASSUME TypeOK, NEW q \in Requests,
           \/ ClaimCall(q) \/ MakeCall(q) \/ KeepResult(q) \/ SettleSet(q) \/ ApplyChange(q) \/ KeepSet(q)
    PROVE  TypeOK'
<1>0. /\ task[q] \in Task /\ req[q] \in Request
      /\ task[q].out \in {"none", "ok", "failed"}
      /\ [made EXCEPT ![q] = @ + 1] \in [Requests -> Nat]
    BY DEF TypeOK, Task
<1>1. CASE ClaimCall(q)
    <2>0. [task EXCEPT ![q].pc = "done"] \in [Requests -> Task] /\ [task EXCEPT ![q].pc = "call"] \in [Requests -> Task]
        BY TaskGoes, TaskPcs
    <2>1. task' \in [Requests -> Task]
        BY <1>1, <2>0 DEF ClaimCall
    <2>2. [req[q] EXCEPT !.claimed = TRUE] \in Request
        BY <1>0, RequestWithFlags
    <2>3. req' \in [Requests -> Request]
        BY <1>1, <2>2 DEF ClaimCall, TypeOK
    <2> QED
        BY <1>1, <2>1, <2>3 DEF ClaimCall, TypeOK
<1>2. CASE MakeCall(q)
    <2>1. PICK o \in {"ok", "failed"} : task' = [task EXCEPT ![q].pc = "keep", ![q].out = o]
        BY <1>2 DEF MakeCall, Failing
    <2>2. [task[q] EXCEPT !.pc = "keep", !.out = o] \in Task
        BY <1>0, TaskWithOutcome, TaskPcs
    <2>3. task' \in [Requests -> Task]
        BY <2>1, <2>2 DEF TypeOK
    <2> QED
        BY <1>2, <2>3, <1>0 DEF MakeCall, TypeOK
<1>3. CASE KeepResult(q)
    <2>1. [req[q] EXCEPT !.result = task[q].out] \in Request
        BY <1>0, RequestWithResult
    <2>2. req' \in [Requests -> Request]
        BY <1>3, <2>1 DEF KeepResult, TypeOK
    <2>3. task' \in [Requests -> Task]
        BY <1>3, TaskGoes, TaskPcs DEF KeepResult
    <2> QED
        BY <1>3, <2>2, <2>3 DEF KeepResult, TypeOK
<1>4. CASE SettleSet(q)
    <2>0. ToResume(q) \in [Requests -> Task] /\ [task EXCEPT ![q].pc = "apply"] \in [Requests -> Task]
        BY ToResumeType, TaskGoes, TaskPcs
    <2>1. task' \in [Requests -> Task]
        BY <1>4, <2>0 DEF SettleSet
    <2>2. [req[q] EXCEPT !.script = "rejected"] \in Request /\ [req[q] EXCEPT !.script = "running"] \in Request
        BY <1>0, RequestWithScript
    <2>3. req' \in [Requests -> Request]
        BY <1>4, <2>2 DEF SettleSet, TypeOK
    <2> QED
        BY <1>4, <2>1, <2>3 DEF SettleSet, TypeOK
<1>5. CASE ApplyChange(q)
    <2>1. PICK o \in {"ok", "failed"} :
            task' = IF o = "ok" /\ made[q] + 1 < Changes THEN task
                    ELSE [task EXCEPT ![q].pc = "keep_set", ![q].out = o]
        BY <1>5 DEF ApplyChange, Failing
    <2>2. [task[q] EXCEPT !.pc = "keep_set", !.out = o] \in Task
        BY <1>0, TaskWithOutcome, TaskPcs
    <2>3. [task EXCEPT ![q].pc = "keep_set", ![q].out = o] \in [Requests -> Task]
        BY <2>2 DEF TypeOK
    <2>4. task' \in [Requests -> Task]
        BY <2>1, <2>3 DEF TypeOK
    <2> QED
        BY <1>5, <2>4, <1>0 DEF ApplyChange, TypeOK
<1>6. CASE KeepSet(q)
    <2>1. [req[q] EXCEPT !.script = "approved"] \in Request
        BY <1>0, RequestWithScript
    <2>2. [[req[q] EXCEPT !.script = "approved"] EXCEPT !.result = task[q].out] \in Request
        BY <1>0, <2>1, RequestWithResult
    <2>3. [req[q] EXCEPT !.script = "approved", !.result = task[q].out] \in Request
        BY <2>2
    <2>4. req' \in [Requests -> Request]
        BY <1>6, <2>3 DEF KeepSet, TypeOK
    <2>5. task' \in [Requests -> Task]
        BY <1>6, ToResumeType DEF KeepSet
    <2> QED
        BY <1>6, <2>4, <2>5 DEF KeepSet, TypeOK
<1> QED
    BY <1>1, <1>2, <1>3, <1>4, <1>5, <1>6

LEMMA PriorType ==
    ASSUME NEW seen \in Row
    PROVE  Prior(seen) \in [Nodes -> Saved]
BY DEF Prior, Settlement, Row, Saved, Ended, Done

LEMMA TypeResume ==
    ASSUME TypeOK, NEW q \in Requests,
           \/ FindWaiting(q) \/ ReadRun(q) \/ CheckSettled(q) \/ ClaimRun(q)
           \/ EnterEngine(q) \/ ResumeRefused(q)
    PROVE  TypeOK'
<1>0. task[q] \in Task /\ task[q].run \in Runs /\ task[q].seen \in Row /\ task[q].left \subseteq Runs
    BY DEF TypeOK, Task
<1>1. CASE FindWaiting(q)
    <2>1. PICK found \in SUBSET Waiting :
            task' = [task EXCEPT ![q].pc = "next", ![q].left = {r \in found : Asks(row[r], q)}]
        BY <1>1 DEF FindWaiting
    <2> DEFINE S == {r \in found : Asks(row[r], q)}
    <2>2. S \in SUBSET Runs
        BY DEF Waiting
    <2> HIDE DEF S
    <2>3. [task[q] EXCEPT !.pc = "next", !.left = S] \in Task
        BY <1>0, <2>2, TaskWithRuns, TaskPcs
    <2>4. task' \in [Requests -> Task]
        BY <2>1, <2>3 DEF TypeOK, S
    <2> QED
        BY <1>1, <2>4 DEF FindWaiting, TypeOK
<1>2. CASE ReadRun(q)
    <2>1. task' \in [Requests -> Task]
        <3>1. CASE task' = [task EXCEPT ![q].pc = "done"]
            BY <3>1, TaskGoes, TaskPcs
        <3>2. ASSUME NEW r \in task[q].left, task' = [task EXCEPT ![q].left = @ \ {r}]
              PROVE  task' \in [Requests -> Task]
            <4>0. task[q].left \ {r} \in SUBSET Runs
                BY <1>0
            <4>1. [task[q] EXCEPT !.left = task[q].left \ {r}] \in Task
                BY <1>0, <4>0, TaskWithFewer
            <4> QED
                BY <3>2, <4>1 DEF TypeOK
        <3>3. ASSUME NEW r \in task[q].left,
                     task' = [task EXCEPT ![q].pc = "check", ![q].left = @ \ {r}, ![q].run = r, ![q].seen = row[r]]
              PROVE  task' \in [Requests -> Task]
            <4>1. r \in Runs /\ row[r] \in Row /\ task[q].left \ {r} \in SUBSET Runs
                BY <1>0 DEF TypeOK
            <4>2. [task[q] EXCEPT !.pc = "check", !.left = task[q].left \ {r}, !.run = r, !.seen = row[r]] \in Task
                BY <1>0, <4>1, TaskWithRun, TaskPcs
            <4> QED
                BY <3>3, <4>2 DEF TypeOK
        <3> QED
            BY <1>2, <3>1, <3>2, <3>3 DEF ReadRun
    <2> QED
        BY <1>2, <2>1 DEF ReadRun, TypeOK
<1>3. CASE CheckSettled(q)
    <2>1. task' \in [Requests -> Task]
        BY <1>3, TaskGoes, TaskPcs DEF CheckSettled
    <2> QED
        BY <1>3, <2>1 DEF CheckSettled, TypeOK
<1>4. CASE ClaimRun(q)
    <2>0. [task EXCEPT ![q].pc = "enter"] \in [Requests -> Task] /\ [task EXCEPT ![q].pc = "next"] \in [Requests -> Task]
        BY TaskGoes, TaskPcs
    <2>1. task' \in [Requests -> Task]
        BY <1>4, <2>0 DEF ClaimRun
    <2>3. [row EXCEPT ![task[q].run].status = "running"] \in [Runs -> Row] /\ row \in [Runs -> Row]
        BY <1>0, RowGoes DEF TypeOK
    <2>2. row' \in [Runs -> Row]
        BY <1>4, <2>3 DEF ClaimRun
    <2> QED
        BY <1>4, <2>1, <2>2 DEF ClaimRun, TypeOK
<1>5. CASE EnterEngine(q)
    <2>1. task' \in [Requests -> Task]
        BY <1>5, TaskGoes, TaskPcs DEF EnterEngine
    <2>2. eng' \in [Runs -> Engine]
        BY <1>5, <1>0, PriorType, EngagedType, EngineType DEF EnterEngine
    <2> QED
        BY <1>5, <2>1, <2>2 DEF EnterEngine, TypeOK
<1>6. CASE ResumeRefused(q)
    <2>1. task' \in [Requests -> Task]
        BY <1>6, TaskGoes, TaskPcs DEF ResumeRefused
    <2>2. "failed" \in Terminal
        BY DEF Terminal
    <2>3. row' \in [Runs -> Row]
        BY <1>6, <1>0, <2>2, RowGoes DEF ResumeRefused, TypeOK
    <2> QED
        BY <1>6, <2>1, <2>3 DEF ResumeRefused, TypeOK
<1> QED
    BY <1>1, <1>2, <1>3, <1>4, <1>5, <1>6

LEMMA AbortType ==
    ASSUME TypeOK, NEW r \in Runs, NEW how \in {"aborted", "cancelled"}
    PROVE  Abort(r, how) \in [Runs -> Engine]
<1>1. [eng[r] EXCEPT !.signal = how] \in Engine
    BY EngineWithSignal DEF TypeOK
<1>2. [eng EXCEPT ![r].signal = how] \in [Runs -> Engine]
    BY <1>1 DEF TypeOK
<1> QED
    BY <1>2 DEF Abort, TypeOK

LEMMA TypeOthers ==
    ASSUME TypeOK, NEW r \in Runs, Others(r)
    PROVE  TypeOK'
<1>1. CASE CancelRead(r)
    <2>1. cancel' \in [Runs -> [pc : {"idle", "save", "done"}, seen : Row]]
        BY <1>1 DEF CancelRead, TypeOK
    <2>2. eng' \in [Runs -> Engine]
        BY <1>1, AbortType DEF CancelRead, TypeOK
    <2> QED
        BY <1>1, <2>1, <2>2 DEF CancelRead, TypeOK
<1>2. CASE CancelSave(r)
    <2>1. cancel[r].seen \in Row /\ "cancelled" \in Terminal
        BY DEF TypeOK, Terminal
    <2>2. [cancel[r].seen EXCEPT !.status = "cancelled"] \in Row
        BY <2>1, RowWith
    <2>3. row' \in [Runs -> Row]
        BY <1>2, <2>2 DEF CancelSave, TypeOK
    <2>4. cancel' \in [Runs -> [pc : {"idle", "save", "done"}, seen : Row]]
        BY <1>2, NoneTypes DEF CancelSave, TypeOK
    <2> QED
        BY <1>2, <2>3, <2>4 DEF CancelSave, TypeOK
<1>3. CASE CancelHeard(r)
    BY <1>3, AbortType DEF CancelHeard, TypeOK
<1>4. CASE Disconnect(r)
    BY <1>4, AbortType DEF Disconnect, TypeOK
<1>5. CASE Age(r)
    BY <1>5 DEF Age, TypeOK
<1>6. CASE Reap(r)
    <2>1. "timeout" \in Terminal
        BY DEF Terminal
    <2>2. row' \in [Runs -> Row]
        BY <1>6, <2>1, RowGoes DEF Reap
    <2> QED
        BY <1>6, <2>2 DEF Reap, TypeOK
<1>7. CASE CrashEngine(r)
    <2>1. task' \in [Requests -> Task]
        BY <1>7, WalkEndsType DEF CrashEngine
    <2>2. eng' \in [Runs -> Engine]
        BY <1>7, EngineType, NoneTypes DEF CrashEngine
    <2> QED
        BY <1>7, <2>1, <2>2 DEF CrashEngine, TypeOK
<1> QED
    BY <1>1, <1>2, <1>3, <1>4, <1>5, <1>6, <1>7 DEF Others

LEMMA TypeCrashTask ==
    ASSUME TypeOK, NEW q \in Requests, CrashTask(q)
    PROVE  TypeOK'
<1>1. task' \in [Requests -> Task]
    BY TaskGoes, TaskPcs DEF CrashTask
<1> QED
    BY <1>1 DEF CrashTask, TypeOK

LEMMA TypeStep == TypeOK /\ [Next]_vars => TypeOK'
<1> SUFFICES ASSUME TypeOK, [Next]_vars
             PROVE  TypeOK'
    OBVIOUS
<1>1. CASE UNCHANGED vars
    BY <1>1 DEF vars, TypeOK
<1>2. ASSUME NEW r \in Runs, RunStep(r) PROVE TypeOK'
    BY <1>2, TypeLayers, TypeNode DEF RunStep
<1>3. ASSUME NEW q \in Requests, TaskStep(q) PROVE TypeOK'
    BY <1>3, TypeCalls, TypeResume DEF TaskStep
<1> QED
    BY <1>1, <1>2, <1>3, TypeOthers, TypeCrashTask, TypeDecide DEF Next

\* The rows, engines, requests and tasks keep their types.
THEOREM TypeCorrect == Spec => []TypeOK
BY TypeInit, TypeStep, PTL DEF Spec

-----------------------------------------------------------------------------
(* Held calls are made once.                                               *)

\* Where a task can no longer make a call.
Past == {"keep", "keep_set", "find", "next", "check", "claim", "enter", "walk", "done", "dead"}

\* A request nobody has decided has no task and made no call; a task about
\* to call has an approved request, of its kind, with calls to make.
OnceOf(q) ==
    /\ req[q].status \in {"none", "pending"} => made[q] = 0 /\ task[q].pc = "off"
    /\ task[q].pc \in {"claim_call", "call"} =>
         req[q].kind = "tool_call" /\ req[q].status = "approved" /\ made[q] = 0
    /\ task[q].pc = "settle" => req[q].kind = "code" /\ made[q] = 0
    /\ task[q].pc = "apply" =>
         req[q].kind = "code" /\ req[q].status = "approved" /\ made[q] < Changes
    /\ made[q] <= IF req[q].kind = "code" THEN Changes ELSE 1
    /\ made[q] > 0 => req[q].status = "approved"
OnceInv == \A q \in Requests : OnceOf(q)

LEMMA OnceGivesProperty == OnceInv => ApprovedAndOnce
BY DEF OnceInv, OnceOf, ApprovedAndOnce

LEMMA OnceInit == Init => OnceInv
BY WorkflowAssumption DEF Init, OnceInv, OnceOf, NotFiled, NoTask, Requests

\* A request, its calls and its task's place are as they were, or the task
\* went on past the calls.
SameFor(q) ==
    /\ req'[q].status = req[q].status /\ req'[q].kind = req[q].kind /\ made'[q] = made[q]
    /\ task'[q].pc = task[q].pc \/ (task[q].pc # "off" /\ task'[q].pc \in Past)

LEMMA OnceSame ==
    ASSUME NEW q \in Requests, OnceOf(q), SameFor(q)
    PROVE  OnceOf(q)'
BY DEF OnceOf, SameFor, Past

LEMMA TaskPcAfter ==
    ASSUME TypeOK, NEW q \in Requests, NEW p, NEW x \in Requests
    PROVE  [task EXCEPT ![q].pc = p][x].pc = IF x = q THEN p ELSE task[x].pc
<1>1. task[q] \in Task /\ task \in [Requests -> Task]
    BY DEF TypeOK
<1>2. [task[q] EXCEPT !.pc = p].pc = p
    BY <1>1 DEF Task
<1> QED
    BY <1>1, <1>2

LEMMA WalkEndsPc ==
    ASSUME TypeOK, NEW r \in Runs, NEW p \in {"next", "dead"}, NEW x \in Requests
    PROVE  /\ WalkEnds(r, p)[x].pc = IF task[x].pc = "walk" /\ task[x].run = r THEN p ELSE task[x].pc
           /\ WalkEnds(r, p)[x].run = task[x].run
<1>1. task[x] \in Task
    BY DEF TypeOK
<1>2. [task[x] EXCEPT !.pc = p].pc = p /\ [task[x] EXCEPT !.pc = p].run = task[x].run
    BY <1>1 DEF Task
<1> QED
    BY <1>2 DEF WalkEnds

LEMMA OnceLayers ==
    ASSUME TypeOK, OnceInv, NEW r \in Runs,
           \/ Start(r) \/ EnterLayer(r) \/ LayerCancelled(r) \/ LimitMet(r) \/ Finish(r) \/ Commit(r)
    PROVE  OnceInv'
<1>1. CASE UNCHANGED <<req, task, made>>
    BY <1>1 DEF OnceInv, OnceOf
<1>2. CASE Commit(r)
    <2>1. \A x \in Requests : SameFor(x)
        BY <1>2, WalkEndsPc DEF Commit, SameFor, Past
    <2> QED
        BY <2>1, OnceSame DEF OnceInv
<1> QED
    BY <1>1, <1>2 DEF Start, EnterLayer, LayerCancelled, LimitMet, Finish, Conclude

\* A request that is filed was none: it has no task and made no call.
LEMMA OnceFile ==
    ASSUME TypeOK, OnceInv, NEW r \in Runs, NEW n \in Nodes, NEW q \in Requests,
           NEW k \in {"tool_call", "code"}, Fresh(q), File(q, k, r, n), UNCHANGED <<task, made>>
    PROVE  OnceInv'
<1>1. req[q] \in Request /\ req \in [Requests -> Request]
    BY DEF TypeOK
<1>2. [req[q] EXCEPT !.status = "pending", !.kind = k, !.call = n, !.run = r].status = "pending"
    BY <1>1 DEF Request
<1>3. req'[q].status = "pending" /\ \A x \in Requests \ {q} : req'[x] = req[x]
    BY <1>1, <1>2 DEF File
<1>4. made[q] = 0 /\ task[q].pc = "off"
    BY DEF Fresh, OnceInv, OnceOf
<1>5. OnceOf(q)'
    BY <1>3, <1>4, WorkflowAssumption DEF OnceOf
<1>6. \A x \in Requests \ {q} : OnceOf(x)'
    BY <1>3 DEF OnceInv, OnceOf
<1> QED
    BY <1>5, <1>6 DEF OnceInv

LEMMA OnceNode ==
    ASSUME TypeOK, OnceInv, NEW r \in Runs, NEW n \in Nodes,
           \/ RunNode(r, n) \/ HoldLookup(r, n) \/ HoldCreate(r, n)
           \/ StageChanges(r, n) \/ AttachApproval(r, n)
    PROVE  OnceInv'
<1>1. CASE RunNode(r, n) \/ HoldLookup(r, n)
    BY <1>1 DEF RunNode, HoldLookup, OnceInv, OnceOf
<1>2. CASE HoldCreate(r, n)
    BY <1>2, OnceFile DEF HoldCreate
<1>3. CASE StageChanges(r, n)
    BY <1>3, OnceFile DEF StageChanges
<1>4. CASE AttachApproval(r, n)
    <2>1. \A x \in Requests : req[x] \in Request
        BY DEF TypeOK
    <2>2. \A x \in Requests : /\ [req[x] EXCEPT !.attached = TRUE].status = req[x].status
                              /\ [req[x] EXCEPT !.attached = TRUE].kind = req[x].kind
        BY <2>1 DEF Request
    <2>3. \A x \in Requests : req'[x] = req[x] \/ req'[x] = [req[x] EXCEPT !.attached = TRUE]
        BY <1>4 DEF AttachApproval, TypeOK
    <2>4. \A x \in Requests : SameFor(x)
        BY <1>4, <2>2, <2>3 DEF AttachApproval, SameFor
    <2> QED
        BY <2>4, OnceSame DEF OnceInv
<1> QED
    BY <1>1, <1>2, <1>3, <1>4

LEMMA OnceDecide ==
    ASSUME TypeOK, OnceInv, NEW q \in Requests, NEW d \in {"approved", "refused"}, Decide(q, d)
    PROVE  OnceInv'
<1>1. req[q] \in Request /\ req \in [Requests -> Request] /\ req[q].kind \in {"tool_call", "code"}
    BY DEF TypeOK, Request
<1>2. [req[q] EXCEPT !.status = d].status = d /\ [req[q] EXCEPT !.status = d].kind = req[q].kind
    BY <1>1 DEF Request
<1>3. req'[q].status = d /\ req'[q].kind = req[q].kind /\ \A x \in Requests \ {q} : req'[x] = req[x]
    BY <1>1, <1>2 DEF Decide
<1>4. task'[q].pc = Listener(q, d) /\ \A x \in Requests \ {q} : task'[x].pc = task[x].pc
    BY TaskPcAfter DEF Decide
<1>5. made[q] = 0 /\ made' = made
    BY DEF Decide, OnceInv, OnceOf
<1>6. OnceOf(q)'
    BY <1>1, <1>3, <1>4, <1>5, WorkflowAssumption DEF OnceOf, Listener
<1>7. \A x \in Requests \ {q} : SameFor(x)
    BY <1>3, <1>4, <1>5 DEF SameFor
<1> QED
    BY <1>6, <1>7, OnceSame DEF OnceInv

\* What the tasks of a decision do to the requests, told by the fields that
\* OnceOf is about.
LEMMA RequestAfter ==
    ASSUME NEW x \in Request, NEW v
    PROVE  /\ [x EXCEPT !.claimed = v].status = x.status /\ [x EXCEPT !.claimed = v].kind = x.kind
           /\ [x EXCEPT !.result = v].status = x.status /\ [x EXCEPT !.result = v].kind = x.kind
           /\ [x EXCEPT !.script = v].status = x.status /\ [x EXCEPT !.script = v].kind = x.kind
BY DEF Request

LEMMA TaskAfter ==
    ASSUME NEW t \in Task, NEW p, NEW v
    PROVE  [t EXCEPT !.pc = p, !.out = v].pc = p /\ [t EXCEPT !.pc = p, !.left = v].pc = p
BY DEF Task

LEMMA OnceCalls ==
    ASSUME TypeOK, OnceInv, NEW q \in Requests,
           \/ ClaimCall(q) \/ MakeCall(q) \/ KeepResult(q) \/ SettleSet(q) \/ ApplyChange(q) \/ KeepSet(q)
    PROVE  OnceInv'
<1>0. /\ req \in [Requests -> Request] /\ req[q] \in Request
      /\ task \in [Requests -> Task] /\ task[q] \in Task
      /\ made \in [Requests -> Nat] /\ made[q] \in Nat
      /\ req[q].status \in {"none", "pending", "approved", "refused"}
      /\ OnceOf(q)
    BY DEF TypeOK, Request, OnceInv
<1>1. \A x \in Requests \ {q} : req'[x] = req[x] /\ task'[x] = task[x] /\ made'[x] = made[x]
    BY <1>0 DEF ClaimCall, MakeCall, KeepResult, SettleSet, ToResume, ApplyChange, KeepSet
<1>2. \A x \in Requests \ {q} : OnceOf(x)'
    BY <1>1 DEF OnceInv, OnceOf
<1>3. SUFFICES OnceOf(q)'
    BY <1>2 DEF OnceInv
<1>4. CASE ClaimCall(q)
    <2>1. CASE req[q].claimed
        <3>1. task' = [task EXCEPT ![q].pc = "done"] /\ req' = req /\ made' = made
            BY <1>4, <2>1 DEF ClaimCall
        <3>2. [task EXCEPT ![q].pc = "done"][q].pc = "done"
            BY ONLY TypeOK, q \in Requests, TaskPcAfter
        <3>3. task'[q].pc = "done"
            BY ONLY <3>1, <3>2
        <3> QED
            BY <1>4, <1>0, <3>1, <3>3 DEF ClaimCall, OnceOf
    <2>2. CASE ~req[q].claimed
        <3>1. task' = [task EXCEPT ![q].pc = "call"] /\ req'[q] = [req[q] EXCEPT !.claimed = TRUE] /\ made' = made
            BY <1>4, <1>0, <2>2 DEF ClaimCall
        <3>2. task'[q].pc = "call" /\ req'[q].status = req[q].status /\ req'[q].kind = req[q].kind
            BY <1>0, <3>1, TaskPcAfter, RequestAfter
        <3> QED
            BY <1>4, <1>0, <3>1, <3>2 DEF ClaimCall, OnceOf
    <2> QED
        BY <2>1, <2>2
<1>5. CASE MakeCall(q)
    <2>0. PICK o : task' = [task EXCEPT ![q].pc = "keep", ![q].out = o]
        BY <1>5 DEF MakeCall
    <2>1. task'[q].pc = "keep"
        BY <2>0, <1>0, TaskAfter
    <2>2. req' = req /\ made'[q] = made[q] + 1
        BY <1>5, <1>0 DEF MakeCall
    <2>3. req[q].kind = "tool_call" /\ req[q].status = "approved" /\ made[q] = 0
        BY <1>5, <1>0 DEF MakeCall, OnceOf
    <2> QED
        BY <2>1, <2>2, <2>3 DEF OnceOf
<1>6. CASE KeepResult(q)
    <2>1. task'[q].pc = "find"
        BY <1>6, <1>0, TaskPcAfter DEF KeepResult
    <2>2. req'[q].status = req[q].status /\ req'[q].kind = req[q].kind /\ made' = made
        BY <1>6, <1>0, RequestAfter DEF KeepResult
    <2> QED
        BY <1>6, <1>0, <2>1, <2>2 DEF KeepResult, OnceOf
<1>7. CASE SettleSet(q)
    <2>1. ToResume(q)[q].pc = "next"
        BY <1>0, TaskAfter DEF ToResume
    <2>2. [task EXCEPT ![q].pc = "apply"][q].pc = "apply"
        BY TaskPcAfter
    <2>3. \/ task' = ToResume(q)
          \/ task' = [task EXCEPT ![q].pc = "apply"] /\ req[q].status # "refused"
        BY <1>7 DEF SettleSet
    <2>4. \/ task'[q].pc = "next"
          \/ task'[q].pc = "apply" /\ req[q].status # "refused"
        BY <2>1, <2>2, <2>3
    <2>5. \/ req'[q] = req[q]
          \/ \E v : req'[q] = [req[q] EXCEPT !.script = v]
        BY <1>7, <1>0 DEF SettleSet
    <2>6. req'[q].status = req[q].status /\ req'[q].kind = req[q].kind
        <3>1. ASSUME NEW v, req'[q] = [req[q] EXCEPT !.script = v]
              PROVE  req'[q].status = req[q].status /\ req'[q].kind = req[q].kind
            BY <3>1, <1>0, RequestAfter
        <3> QED
            BY <2>5, <3>1
    <2>7. req[q].kind = "code" /\ made[q] = 0 /\ made'[q] = 0 /\ req[q].status \in {"approved", "refused"}
        BY <1>7, <1>0 DEF SettleSet, OnceOf
    <2> QED
        BY <2>4, <2>6, <2>7, WorkflowAssumption DEF OnceOf
<1>8. CASE ApplyChange(q)
    <2>0. \/ task' = task /\ made[q] + 1 < Changes
          \/ \E o : task' = [task EXCEPT ![q].pc = "keep_set", ![q].out = o]
        BY <1>8 DEF ApplyChange
    <2>1. \/ task'[q].pc = "apply" /\ made[q] + 1 < Changes
          \/ task'[q].pc = "keep_set"
        <3>1. ASSUME NEW o, task' = [task EXCEPT ![q].pc = "keep_set", ![q].out = o]
              PROVE  task'[q].pc = "keep_set"
            BY <3>1, <1>0, TaskAfter
        <3>2. task[q].pc = "apply"
            BY <1>8 DEF ApplyChange
        <3> QED
            BY <2>0, <3>1, <3>2
    <2>2. req' = req /\ made'[q] = made[q] + 1
        BY <1>8, <1>0 DEF ApplyChange
    <2>3. req[q].kind = "code" /\ req[q].status = "approved" /\ made[q] < Changes
        BY <1>8, <1>0 DEF ApplyChange, OnceOf
    <2>4. made[q] \in Nat /\ Changes \in Nat
        BY <1>0, WorkflowAssumption
    <2> QED
        BY <2>1, <2>2, <2>3, <2>4 DEF OnceOf
<1>9. CASE KeepSet(q)
    <2>1. task'[q].pc = "next"
        BY <1>9, <1>0, TaskAfter DEF KeepSet, ToResume
    <2>2. [req[q] EXCEPT !.script = "approved", !.result = task[q].out].status = req[q].status
          /\ [req[q] EXCEPT !.script = "approved", !.result = task[q].out].kind = req[q].kind
        BY <1>0 DEF Request
    <2>3. req'[q].status = req[q].status /\ req'[q].kind = req[q].kind /\ made' = made
        BY <1>9, <1>0, <2>2 DEF KeepSet
    <2> QED
        BY <1>9, <1>0, <2>1, <2>3 DEF KeepSet, OnceOf
<1> QED
    BY <1>4, <1>5, <1>6, <1>7, <1>8, <1>9

\* Past the calls, and in the steps of others, requests and calls stay.
LEMMA OnceResume ==
    ASSUME TypeOK, OnceInv, NEW q \in Requests,
           \/ FindWaiting(q) \/ ReadRun(q) \/ CheckSettled(q) \/ ClaimRun(q)
           \/ EnterEngine(q) \/ ResumeRefused(q) \/ CrashTask(q)
    PROVE  OnceInv'
<1>0. task \in [Requests -> Task] /\ task[q] \in Task
    BY DEF TypeOK
<1>1. req' = req /\ made' = made
    BY DEF FindWaiting, ReadRun, CheckSettled, ClaimRun, EnterEngine, ResumeRefused, CrashTask
<1>2. \A x \in Requests \ {q} : task'[x] = task[x]
    BY <1>0 DEF FindWaiting, ReadRun, CheckSettled, ClaimRun, EnterEngine, ResumeRefused, CrashTask
<1>3. task[q].pc # "off" /\ task'[q].pc \in Past
    <2>1. CASE FindWaiting(q)
        <3>1. PICK S : task' = [task EXCEPT ![q].pc = "next", ![q].left = S]
            BY <2>1 DEF FindWaiting
        <3>2. task'[q].pc = "next"
            BY <3>1, <1>0, TaskAfter
        <3> QED
            BY <2>1, <3>2 DEF FindWaiting, Past
    <2>2. CASE ReadRun(q)
        <3>1. ASSUME task' = [task EXCEPT ![q].pc = "done"] PROVE task'[q].pc = "done"
            BY <3>1, TaskPcAfter
        <3>2. ASSUME NEW r \in task[q].left, task' = [task EXCEPT ![q].left = @ \ {r}]
              PROVE  task'[q].pc = task[q].pc
            BY <1>0, <3>2 DEF Task
        <3>3. ASSUME NEW r \in task[q].left,
                     task' = [task EXCEPT ![q].pc = "check", ![q].left = @ \ {r}, ![q].run = r, ![q].seen = row[r]]
              PROVE  task'[q].pc = "check"
            BY <1>0, <3>3 DEF Task
        <3>4. task'[q].pc \in {"done", task[q].pc, "check"}
            BY <2>2, <3>1, <3>2, <3>3 DEF ReadRun
        <3> QED
            BY <2>2, <3>4 DEF ReadRun, Past
    <2>3. CASE CheckSettled(q) \/ ClaimRun(q) \/ EnterEngine(q) \/ ResumeRefused(q) \/ CrashTask(q)
        <3>1. PICK p \in {"claim", "next", "enter", "walk", "dead"} : task' = [task EXCEPT ![q].pc = p]
            BY <2>3 DEF CheckSettled, ClaimRun, EnterEngine, ResumeRefused, CrashTask
        <3>2. task'[q].pc = p
            BY <3>1, TaskPcAfter
        <3> QED
            BY <2>3, <3>2 DEF CheckSettled, ClaimRun, EnterEngine, ResumeRefused, CrashTask, Past
    <2> QED
        BY <2>1, <2>2, <2>3
<1>4. \A x \in Requests : SameFor(x)
    BY <1>1, <1>2, <1>3 DEF SameFor
<1> QED
    BY <1>4, OnceSame DEF OnceInv

LEMMA OnceOthers ==
    ASSUME TypeOK, OnceInv, NEW r \in Runs, Others(r)
    PROVE  OnceInv'
<1>1. CASE UNCHANGED <<req, task, made>>
    BY <1>1 DEF OnceInv, OnceOf
<1>2. CASE CrashEngine(r)
    <2>1. \A x \in Requests : SameFor(x)
        BY <1>2, WalkEndsPc DEF CrashEngine, SameFor, Past
    <2> QED
        BY <2>1, OnceSame DEF OnceInv
<1> QED
    BY <1>1, <1>2 DEF Others, CancelRead, CancelSave, CancelHeard, Disconnect, Age, Reap

LEMMA OnceStep == TypeOK /\ OnceInv /\ [Next]_vars => OnceInv'
<1> SUFFICES ASSUME TypeOK, OnceInv, [Next]_vars
             PROVE  OnceInv'
    OBVIOUS
<1>1. CASE UNCHANGED vars
    BY <1>1 DEF vars, OnceInv, OnceOf
<1>2. ASSUME NEW r \in Runs, RunStep(r) PROVE OnceInv'
    BY <1>2, OnceLayers, OnceNode DEF RunStep
<1>3. ASSUME NEW q \in Requests, TaskStep(q) \/ CrashTask(q) PROVE OnceInv'
    BY <1>3, OnceCalls, OnceResume DEF TaskStep
<1> QED
    BY <1>1, <1>2, <1>3, OnceOthers, OnceDecide DEF Next

\* A held call is made, and a change set applied, only when it was approved,
\* and no more often than once: whatever fails, crashes or is decided early.
THEOREM CallsApprovedAndOnce == Spec => []ApprovedAndOnce
<1>1. Spec => []OnceInv
    BY TypeCorrect, OnceInit, OnceStep, PTL DEF Spec
<1> QED
    BY <1>1, OnceGivesProperty, PTL

-----------------------------------------------------------------------------
(* A run is carried on by one task.                                        *)

OnIt(q, r) == task[q].pc \in {"enter", "walk"} /\ task[q].run = r

\* Nobody walks a run that is not created or that waits, nobody else is on
\* the run a task is on, and a task enters a run nobody walks.
CarriedInv ==
    /\ \A r \in Runs : row[r].status \in {"none", "waiting_approval"} =>
         eng[r].pc = "off" /\ \A q \in Requests : ~OnIt(q, r)
    /\ CarriedOnByOne

LEMMA CarriedInit == Init => CarriedInv
BY DEF Init, CarriedInv, CarriedOnByOne, OnIt, Off, Engaged, NoTask

\* What the property sees of the run rows, the engines and the tasks: steps
\* that end no wait, engage no engine and put no task on a run.
SameRow(r) == row'[r].status = row[r].status \/ row'[r].status \notin {"none", "waiting_approval"}
SameEngine(r) == eng[r].pc = "off" => eng'[r].pc = "off"
SameTask(q) == task'[q].pc \in {"enter", "walk"} => task'[q].pc = task[q].pc /\ task'[q].run = task[q].run

LEMMA CarriedSame ==
    ASSUME TypeOK, CarriedInv,
           \A r \in Runs : SameRow(r) /\ SameEngine(r),
           \A q \in Requests : SameTask(q)
    PROVE  CarriedInv'
<1>0. \A q \in Requests : task[q].run \in Runs
    BY DEF TypeOK, Task
<1>1. ASSUME NEW r \in Runs, row'[r].status \in {"none", "waiting_approval"}
      PROVE  eng'[r].pc = "off" /\ \A q \in Requests : ~(task'[q].pc \in {"enter", "walk"} /\ task'[q].run = r)
    <2>1. eng[r].pc = "off" /\ \A q \in Requests : ~OnIt(q, r)
        BY <1>1 DEF CarriedInv, SameRow
    <2> QED
        BY <2>1 DEF SameEngine, SameTask, OnIt
<1>2. CarriedOnByOne'
    BY <1>0 DEF CarriedInv, CarriedOnByOne, SameEngine, SameTask
<1> QED
    BY <1>1, <1>2 DEF CarriedInv, OnIt

LEMMA SameTaskGoes ==
    ASSUME TypeOK, NEW q \in Requests, NEW p, p \notin {"enter", "walk"},
           task' = [task EXCEPT ![q].pc = p]
    PROVE  \A x \in Requests : SameTask(x)
<1>1. \A x \in Requests \ {q} : task'[x] = task[x]
    BY DEF TypeOK
<1>2. task'[q].pc = p
    BY TaskPcAfter
<1> QED
    BY <1>1, <1>2 DEF SameTask

\* Only the engine of one run moves, and it walks already.
LEMMA SameEngineMoves ==
    ASSUME TypeOK, NEW r \in Runs, eng[r].pc # "off", \A x \in Runs \ {r} : eng'[x] = eng[x]
    PROVE  \A x \in Runs : SameEngine(x)
BY DEF SameEngine

LEMMA CarriedLayers ==
    ASSUME TypeOK, CarriedInv, NEW r \in Runs,
           \/ Start(r) \/ EnterLayer(r) \/ LayerCancelled(r) \/ LimitMet(r) \/ Finish(r) \/ Commit(r)
    PROVE  CarriedInv'
<1>0. \A q \in Requests : task[q].run \in Runs
    BY DEF TypeOK, Task
<1>1. CASE Start(r)
    <2>1. task' = task /\ \A x \in Runs \ {r} : row'[x] = row[x] /\ eng'[x] = eng[x]
        BY <1>1 DEF Start, TypeOK
    <2>2. row[r] \in Row
        BY DEF TypeOK
    <2>3. [row[r] EXCEPT !.status = "running"].status = "running"
        BY <2>2 DEF Row
    <2>4. row'[r].status = "running"
        BY <1>1, <2>3 DEF Start, TypeOK
    <2>5. \A q \in Requests : ~OnIt(q, r)
        BY <1>1 DEF Start, CarriedInv
    <2>6. \A x \in Runs : row'[x].status \in {"none", "waiting_approval"} =>
            x # r /\ eng'[x].pc = "off" /\ \A q \in Requests : ~OnIt(q, x)
        BY <2>1, <2>4 DEF CarriedInv
    <2>7. CarriedOnByOne'
        BY <1>0, <2>1, <2>5 DEF CarriedInv, CarriedOnByOne, OnIt
    <2> QED
        BY <2>1, <2>6, <2>7 DEF CarriedInv, OnIt
<1>2. CASE EnterLayer(r) \/ LayerCancelled(r) \/ LimitMet(r) \/ Finish(r)
    <2>1. eng[r].pc # "off"
        BY <1>2 DEF EnterLayer, LayerCancelled, LimitMet, Finish, AtBoundary, Walking
    <2>2. row' = row /\ task' = task /\ \A x \in Runs \ {r} : eng'[x] = eng[x]
        BY <1>2 DEF EnterLayer, LayerCancelled, LimitMet, Finish, Conclude, TypeOK
    <2>3. \A x \in Runs : SameEngine(x)
        BY <2>1, <2>2, SameEngineMoves
    <2> QED
        BY <2>2, <2>3, CarriedSame DEF SameRow, SameTask
<1>3. CASE Commit(r)
    <2>1. eng[r].pc # "off" /\ \A x \in Runs \ {r} : row'[x] = row[x] /\ eng'[x] = eng[x]
        BY <1>3 DEF Commit, TypeOK
    <2>2. eng'[r] = Off
        BY <1>3 DEF Commit, TypeOK
    <2>3. eng'[r].pc = "off"
        BY <2>2 DEF Off, Engaged
    <2>4. \A q \in Requests : task[q].pc = "enter" => task[q].run # r
        BY <2>1 DEF CarriedInv, CarriedOnByOne
    <2>5. \A q \in Requests : /\ task'[q].run = task[q].run
                              /\ task'[q].pc = IF task[q].pc = "walk" /\ task[q].run = r
                                               THEN "next" ELSE task[q].pc
        BY <1>3, WalkEndsPc DEF Commit
    <2>6. \A q \in Requests : ~(task'[q].pc \in {"enter", "walk"} /\ task'[q].run = r)
        BY <2>4, <2>5
    <2>7. \A x \in Runs : row'[x].status \in {"none", "waiting_approval"} =>
            eng'[x].pc = "off" /\ \A q \in Requests : ~(task'[q].pc \in {"enter", "walk"} /\ task'[q].run = x)
        BY <2>1, <2>3, <2>5, <2>6 DEF CarriedInv, OnIt
    <2>8. CarriedOnByOne'
        BY <1>0, <2>1, <2>3, <2>5 DEF CarriedInv, CarriedOnByOne
    <2> QED
        BY <2>7, <2>8 DEF CarriedInv, OnIt
<1> QED
    BY <1>1, <1>2, <1>3

LEMMA CarriedNode ==
    ASSUME TypeOK, CarriedInv, NEW r \in Runs, NEW n \in Nodes,
           \/ RunNode(r, n) \/ HoldLookup(r, n) \/ HoldCreate(r, n)
           \/ StageChanges(r, n) \/ AttachApproval(r, n)
    PROVE  CarriedInv'
<1>1. eng[r].pc # "off"
    BY DEF RunNode, HoldLookup, HoldCreate, StageChanges, AttachApproval, Ready, Walking
<1>2. row' = row /\ task' = task
    BY DEF RunNode, HoldLookup, HoldCreate, StageChanges, AttachApproval
<1>3. \A x \in Runs \ {r} : eng'[x] = eng[x]
    BY DEF RunNode, HoldLookup, HoldCreate, StageChanges, AttachApproval, TypeOK
<1>4. \A x \in Runs : SameEngine(x)
    BY <1>1, <1>3, SameEngineMoves
<1> QED
    BY <1>2, <1>4, CarriedSame DEF SameRow, SameTask

LEMMA CarriedCalls ==
    ASSUME TypeOK, CarriedInv, NEW q \in Requests,
           \/ \E d \in {"approved", "refused"} : Decide(q, d)
           \/ ClaimCall(q) \/ MakeCall(q) \/ KeepResult(q) \/ SettleSet(q) \/ ApplyChange(q) \/ KeepSet(q)
           \/ FindWaiting(q) \/ ReadRun(q) \/ CheckSettled(q) \/ CrashTask(q)
    PROVE  CarriedInv'
<1>0. task \in [Requests -> Task] /\ task[q] \in Task
    BY DEF TypeOK
<1>1. row' = row /\ eng' = eng
    BY DEF Decide, ClaimCall, MakeCall, KeepResult, SettleSet, ApplyChange, KeepSet,
           FindWaiting, ReadRun, CheckSettled, CrashTask
<1>2. \A x \in Requests \ {q} : task'[x] = task[x]
    BY <1>0 DEF Decide, ClaimCall, MakeCall, KeepResult, SettleSet, ApplyChange, KeepSet, ToResume,
           FindWaiting, ReadRun, CheckSettled, CrashTask
<1>3. task'[q].pc \notin {"enter", "walk"}
    <2>1. ASSUME NEW p \in TaskPc \ {"enter", "walk"}, task' = [task EXCEPT ![q].pc = p]
          PROVE  task'[q].pc \notin {"enter", "walk"}
        BY <2>1, TaskPcAfter
    <2>2. ASSUME NEW p \in TaskPc \ {"enter", "walk"}, NEW o, task' = [task EXCEPT ![q].pc = p, ![q].out = o]
          PROVE  task'[q].pc \notin {"enter", "walk"}
        BY <2>2, <1>0, TaskAfter
    <2>3. ASSUME NEW S, task' = [task EXCEPT ![q].pc = "next", ![q].left = S]
          PROVE  task'[q].pc \notin {"enter", "walk"}
        BY <2>3, <1>0, TaskAfter
    <2>4. CASE \E d \in {"approved", "refused"} : Decide(q, d)
        <3>1. PICK d \in {"approved", "refused"} : task' = [task EXCEPT ![q].pc = Listener(q, d)]
            BY <2>4 DEF Decide
        <3>2. Listener(q, d) \in TaskPc \ {"enter", "walk"}
            BY DEF Listener, TaskPc
        <3> QED
            BY <3>1, <3>2, <2>1
    <2>5. CASE ClaimCall(q) \/ KeepResult(q) \/ CheckSettled(q) \/ CrashTask(q)
        <3>1. PICK p \in {"done", "call", "find", "claim", "next", "dead"} : task' = [task EXCEPT ![q].pc = p]
            BY <2>5 DEF ClaimCall, KeepResult, CheckSettled, CrashTask
        <3>2. p \in TaskPc \ {"enter", "walk"}
            BY DEF TaskPc
        <3> QED
            BY <3>1, <3>2, <2>1
    <2>6. CASE MakeCall(q)
        <3>1. PICK o : task' = [task EXCEPT ![q].pc = "keep", ![q].out = o]
            BY <2>6 DEF MakeCall
        <3> QED
            BY <3>1, <2>2, TaskPcs
    <2>7. CASE ApplyChange(q)
        <3>1. CASE task' = task
            BY <2>7, <3>1 DEF ApplyChange
        <3>2. CASE task' # task
            <4>1. PICK o : task' = [task EXCEPT ![q].pc = "keep_set", ![q].out = o]
                BY <2>7, <3>2 DEF ApplyChange
            <4> QED
                BY <4>1, <2>2, TaskPcs
        <3> QED
            BY <3>1, <3>2
    <2>8. CASE SettleSet(q) \/ KeepSet(q)
        <3>1. \/ task' = [task EXCEPT ![q].pc = "next", ![q].left = {req[q].run}]
              \/ task' = [task EXCEPT ![q].pc = "apply"]
            BY <2>8 DEF SettleSet, KeepSet, ToResume
        <3> QED
            BY <3>1, <2>1, <2>3, TaskPcs
    <2>9. CASE FindWaiting(q)
        <3>1. PICK S : task' = [task EXCEPT ![q].pc = "next", ![q].left = S]
            BY <2>9 DEF FindWaiting
        <3> QED
            BY <3>1, <2>3
    <2>10. CASE ReadRun(q)
        <3>0. [task EXCEPT ![q].pc = "done"][q].pc = "done"
            BY TaskPcAfter
        <3>1. ASSUME task' = [task EXCEPT ![q].pc = "done"] PROVE task'[q].pc = "done"
            BY <3>0, <3>1
        <3>2. ASSUME NEW r \in task[q].left, task' = [task EXCEPT ![q].left = @ \ {r}]
              PROVE  task'[q].pc = task[q].pc
            BY <1>0, <3>2 DEF Task
        <3>3. ASSUME NEW r \in task[q].left,
                     task' = [task EXCEPT ![q].pc = "check", ![q].left = @ \ {r}, ![q].run = r, ![q].seen = row[r]]
              PROVE  task'[q].pc = "check"
            BY <1>0, <3>3 DEF Task
        <3>4. task'[q].pc \in {"done", task[q].pc, "check"}
            BY <2>10, <3>1, <3>2, <3>3 DEF ReadRun
        <3> QED
            BY <2>10, <3>4 DEF ReadRun
    <2> QED
        BY <2>4, <2>5, <2>6, <2>7, <2>8, <2>9, <2>10
<1>4. \A x \in Requests : SameTask(x)
    BY <1>2, <1>3 DEF SameTask
<1> QED
    BY <1>1, <1>4, CarriedSame DEF SameRow, SameEngine

\* The claim: the run waited, so nobody was on it.
LEMMA CarriedClaim ==
    ASSUME TypeOK, CarriedInv, NEW q \in Requests, ClaimRun(q)
    PROVE  CarriedInv'
<1> DEFINE r == task[q].run
<1>0. /\ task \in [Requests -> Task] /\ task[q] \in Task /\ r \in Runs
      /\ row \in [Runs -> Row] /\ row[r] \in Row
      /\ \A x \in Requests : task[x].run \in Runs
    BY DEF TypeOK, Task
<1>1. CASE ~Claimable(r)
    <2>1. row' = row /\ eng' = eng /\ task' = [task EXCEPT ![q].pc = "next"]
        BY <1>1 DEF ClaimRun
    <2>2. \A x \in Requests : SameTask(x)
        <3>1. "next" \notin {"enter", "walk"}
            OBVIOUS
        <3> QED
            BY <2>1, <3>1, SameTaskGoes
    <2> QED
        BY <2>1, <2>2, CarriedSame DEF SameRow, SameEngine
<1>2. CASE Claimable(r)
    <2>1. /\ row' = [row EXCEPT ![r].status = "running"] /\ eng' = eng
          /\ task' = [task EXCEPT ![q].pc = "enter"]
        BY <1>2 DEF ClaimRun
    <2>2. [row[r] EXCEPT !.status = "running"].status = "running"
        BY <1>0 DEF Row
    <2>3. row'[r].status = "running" /\ \A x \in Runs \ {r} : row'[x] = row[x]
        BY <1>0, <2>1, <2>2
    <2>4. [task[q] EXCEPT !.pc = "enter"].pc = "enter" /\ [task[q] EXCEPT !.pc = "enter"].run = r
        BY <1>0 DEF Task
    <2>5. task'[q].pc = "enter" /\ task'[q].run = r /\ \A x \in Requests \ {q} : task'[x] = task[x]
        BY <1>0, <2>1, <2>4
    <2>6. eng[r].pc = "off" /\ \A x \in Requests : ~OnIt(x, r)
        BY <1>0, <1>2 DEF Claimable, CarriedInv
    <2> HIDE DEF r
    <2>7. \A x \in Runs : row'[x].status \in {"none", "waiting_approval"} =>
            eng'[x].pc = "off" /\ \A p \in Requests : ~(task'[p].pc \in {"enter", "walk"} /\ task'[p].run = x)
        BY <2>1, <2>3, <2>5 DEF CarriedInv, OnIt
    <2>8. CarriedOnByOne'
        BY <2>1, <2>5, <2>6 DEF CarriedInv, CarriedOnByOne, OnIt
    <2> QED
        BY <2>7, <2>8 DEF CarriedInv, OnIt
<1> QED
    BY <1>1, <1>2

\* Entering the engine: the task on the run is the only one, and the run
\* neither waits nor is it yet to be created.
LEMMA CarriedEnter ==
    ASSUME TypeOK, CarriedInv, NEW q \in Requests, EnterEngine(q) \/ ResumeRefused(q)
    PROVE  CarriedInv'
<1> DEFINE r == task[q].run
<1>0. /\ task \in [Requests -> Task] /\ task[q] \in Task /\ r \in Runs
      /\ row \in [Runs -> Row] /\ row[r] \in Row /\ eng \in [Runs -> Engine]
      /\ \A x \in Requests : task[x].run \in Runs
    BY DEF TypeOK, Task
<1>1. CASE EnterEngine(q)
    <2>1. /\ task[q].pc = "enter" /\ row' = row
          /\ task' = [task EXCEPT ![q].pc = "walk"]
          /\ \A x \in Runs \ {r} : eng'[x] = eng[x]
        BY <1>0, <1>1 DEF EnterEngine
    <2>2. [task[q] EXCEPT !.pc = "walk"].pc = "walk" /\ [task[q] EXCEPT !.pc = "walk"].run = r
        BY <1>0 DEF Task
    <2>3. task'[q].pc = "walk" /\ task'[q].run = r /\ \A x \in Requests \ {q} : task'[x] = task[x]
        BY <1>0, <2>1, <2>2
    <2>4. /\ \A x \in Requests \ {q} : ~OnIt(x, r)
          /\ row[r].status \notin {"none", "waiting_approval"}
        BY <1>0, <2>1 DEF CarriedInv, CarriedOnByOne, OnIt
    <2> HIDE DEF r
    <2>5. \A x \in Runs : row'[x].status \in {"none", "waiting_approval"} =>
            eng'[x].pc = "off" /\ \A p \in Requests : ~(task'[p].pc \in {"enter", "walk"} /\ task'[p].run = x)
        BY <2>1, <2>3, <2>4 DEF CarriedInv, OnIt
    <2>6. CarriedOnByOne'
        BY <1>0, <2>1, <2>3, <2>4 DEF CarriedInv, CarriedOnByOne, OnIt
    <2> QED
        BY <2>5, <2>6 DEF CarriedInv, OnIt
<1>2. CASE ResumeRefused(q)
    <2>1. eng' = eng /\ task' = [task EXCEPT ![q].pc = "next"]
        BY <1>2 DEF ResumeRefused
    <2>2. \A x \in Requests : SameTask(x)
        <3>1. "next" \notin {"enter", "walk"}
            OBVIOUS
        <3> QED
            BY <2>1, <3>1, SameTaskGoes
    <2>3. [row[r] EXCEPT !.status = "failed"].status = "failed"
        BY <1>0 DEF Row
    <2>4. \A x \in Runs : row'[x] = row[x] \/ row'[x] = [row[x] EXCEPT !.status = "failed"]
        BY <1>0, <1>2 DEF ResumeRefused
    <2>5. \A x \in Runs : row'[x] = row[x] \/ row'[x].status = "failed"
        <3>1. \A x \in Runs : row[x] \in Row
            BY <1>0
        <3>2. \A x \in Runs : [row[x] EXCEPT !.status = "failed"].status = "failed"
            BY <3>1 DEF Row
        <3> QED
            BY <2>4, <3>2
    <2> QED
        BY <2>1, <2>2, <2>5, CarriedSame DEF SameRow, SameEngine
<1> QED
    BY <1>1, <1>2

LEMMA CarriedOthers ==
    ASSUME TypeOK, CarriedInv, NEW r \in Runs, Others(r)
    PROVE  CarriedInv'
<1>0. row \in [Runs -> Row] /\ row[r] \in Row /\ eng \in [Runs -> Engine]
    BY DEF TypeOK
<1>1. \A x \in Runs : SameRow(x)
    <2>1. CASE row' = row
        BY <2>1 DEF SameRow
    <2>2. CASE CancelSave(r)
        <3>1. cancel[r].seen \in Row
            BY DEF TypeOK
        <3>2. [cancel[r].seen EXCEPT !.status = "cancelled"].status = "cancelled"
            BY <3>1 DEF Row
        <3> QED
            BY <2>2, <1>0, <3>2 DEF CancelSave, SameRow
    <2>3. CASE Reap(r)
        <3>1. [row[r] EXCEPT !.status = "timeout"].status = "timeout"
            BY <1>0 DEF Row
        <3> QED
            BY <2>3, <1>0, <3>1 DEF Reap, SameRow
    <2> QED
        BY <2>1, <2>2, <2>3 DEF Others, CancelRead, CancelHeard, Disconnect, Age, CrashEngine
<1>2. \A x \in Runs : SameEngine(x)
    <2>1. CASE eng' = eng
        BY <2>1 DEF SameEngine
    <2>2. CASE eng' # eng
        <3>1. eng[r].pc # "off"
            BY <2>2 DEF Others, CancelRead, CancelSave, CancelHeard, Disconnect, Age, Reap, CrashEngine, Abort
        <3>2. \A x \in Runs \ {r} : eng'[x] = eng[x]
            BY <1>0 DEF Others, CancelRead, CancelSave, CancelHeard, Disconnect, Age, Reap, CrashEngine, Abort
        <3> QED
            BY <3>1, <3>2, SameEngineMoves
    <2> QED
        BY <2>1, <2>2
<1>3. \A x \in Requests : SameTask(x)
    <2>1. CASE task' = task
        BY <2>1 DEF SameTask
    <2>2. CASE CrashEngine(r)
        BY <2>2, WalkEndsPc DEF CrashEngine, SameTask
    <2> QED
        BY <2>1, <2>2 DEF Others, CancelRead, CancelSave, CancelHeard, Disconnect, Age, Reap
<1> QED
    BY <1>1, <1>2, <1>3, CarriedSame

LEMMA CarriedStep == TypeOK /\ CarriedInv /\ [Next]_vars => CarriedInv'
<1> SUFFICES ASSUME TypeOK, CarriedInv, [Next]_vars
             PROVE  CarriedInv'
    OBVIOUS
<1>1. CASE UNCHANGED vars
    BY <1>1 DEF vars, CarriedInv, CarriedOnByOne, OnIt
<1>2. ASSUME NEW r \in Runs, RunStep(r) PROVE CarriedInv'
    BY <1>2, CarriedLayers, CarriedNode DEF RunStep
<1>3. ASSUME NEW q \in Requests, TaskStep(q) \/ CrashTask(q) PROVE CarriedInv'
    BY <1>3, CarriedCalls, CarriedClaim, CarriedEnter DEF TaskStep
<1>4. ASSUME NEW q \in Requests, NEW d \in {"approved", "refused"}, Decide(q, d) PROVE CarriedInv'
    BY <1>4, CarriedCalls
<1> QED
    BY <1>1, <1>2, <1>3, <1>4, CarriedOthers DEF Next

\* A waiting run is carried on by one task, whatever decisions land together,
\* and no task hands the engine a run that is still walked.
THEOREM ResumedByOne == Spec => []CarriedOnByOne
<1>1. Spec => []CarriedInv
    BY TypeCorrect, CarriedInit, CarriedStep, PTL DEF Spec
<1>2. CarriedInv => CarriedOnByOne
    BY DEF CarriedInv
<1> QED
    BY <1>1, <1>2, PTL

-----------------------------------------------------------------------------
(* The outcome of a run stands.                                            *)

LEMMA OutcomeStep == TypeOK /\ [Next]_vars => \A r \in Runs : StandsUnlessCancelled(r)
<1> SUFFICES ASSUME TypeOK, [Next]_vars, NEW r \in Runs
             PROVE  StandsUnlessCancelled(r)
    OBVIOUS
<1>0. row \in [Runs -> Row] /\ row[r] \in Row /\ \A x \in Requests : task[x].run \in Runs
    BY DEF TypeOK, Task
<1>1. CASE row'[r] = row[r]
    BY <1>1 DEF StandsUnlessCancelled
<1>2. ASSUME NEW x \in Runs, Start(x) \/ Reap(x) PROVE StandsUnlessCancelled(r)
    <2>1. x # r => row'[r] = row[r]
        BY <1>2, <1>0 DEF Start, Reap
    <2>2. x = r => row[r].status \notin Terminal
        BY <1>2 DEF Start, Reap, Stuck, Terminal
    <2> QED
        BY <1>1, <2>1, <2>2 DEF StandsUnlessCancelled
<1>3. ASSUME NEW x \in Runs, Commit(x) PROVE StandsUnlessCancelled(r)
    <2>1. row'[r] # row[r] => x = r /\ MayCommit(r) /\ row'[r].status = eng[r].verdict
        BY <1>3, <1>0 DEF Commit
    <2> QED
        BY <1>1, <2>1 DEF MayCommit, StandsUnlessCancelled, Terminal
<1>4. ASSUME NEW q \in Requests, ClaimRun(q) \/ ResumeRefused(q) PROVE StandsUnlessCancelled(r)
    <2>1. row'[r] # row[r] => row[r].status \in {"waiting_approval", "running"}
        BY <1>4, <1>0 DEF ClaimRun, ResumeRefused, Claimable
    <2> QED
        BY <1>1, <2>1 DEF StandsUnlessCancelled, Terminal
<1>5. ASSUME NEW x \in Runs, CancelSave(x) PROVE StandsUnlessCancelled(r)
    <2>1. cancel[x].seen \in Row
        BY DEF TypeOK
    <2>2. [cancel[x].seen EXCEPT !.status = "cancelled"].status = "cancelled"
        BY <2>1 DEF Row
    <2>3. row'[r] # row[r] => x = r /\ cancel[r].pc = "save" /\ row'[r].status = "cancelled"
        BY <1>5, <1>0, <2>2 DEF CancelSave
    <2> QED
        BY <1>1, <2>3 DEF StandsUnlessCancelled
<1>6. ASSUME NEW x \in Runs, RunStep(x) PROVE StandsUnlessCancelled(r)
    BY <1>6, <1>1, <1>2, <1>3
       DEF RunStep, EnterLayer, LayerCancelled, LimitMet, Finish, Conclude,
           RunNode, HoldLookup, HoldCreate, StageChanges, AttachApproval
<1>7. ASSUME NEW x \in Runs, Others(x) PROVE StandsUnlessCancelled(r)
    BY <1>7, <1>1, <1>2, <1>5 DEF Others, CancelRead, CancelHeard, Disconnect, Age, CrashEngine
<1>8. ASSUME NEW q \in Requests, TaskStep(q) PROVE StandsUnlessCancelled(r)
    BY <1>8, <1>1, <1>4
       DEF TaskStep, ClaimCall, MakeCall, KeepResult, SettleSet, ApplyChange, KeepSet,
           FindWaiting, ReadRun, CheckSettled, EnterEngine
<1> QED
    BY <1>1, <1>6, <1>7, <1>8 DEF Next, vars, CrashTask, Decide

\* Late engines, resumed runs and the reaper leave the outcome of a run that
\* is over alone; only a cancel that had read it before writes over it.
THEOREM OutcomeStands == Spec => OnlyLateCancelRewrites
<1>1. TypeOK /\ [Next]_vars => [OutcomesStand]_vars
    BY OutcomeStep DEF OutcomesStand
<1> QED
    BY <1>1, TypeCorrect, PTL DEF Spec, OnlyLateCancelRewrites

-----------------------------------------------------------------------------
(* The record of a run is true.                                            *)

Full(q) == IF req[q].kind = "code" THEN Changes ELSE 1
WorkedFor(q) == req[q].status = "approved" /\ req[q].result = "ok" /\ made[q] = Full(q)
RefusedFor(q) == req[q].status = "refused" /\ made[q] = 0
Worked(r, n) == \E q \in HeldFor(r, n) : WorkedFor(q)
Refused(r, n) == \E q \in HeldFor(r, n) : RefusedFor(q)

\* A step has an output rightly: nobody had to ask, or its calls were made and
\* worked, or its script staged nothing, this time if it ran twice.
WellDone(r, n) ==
    \/ Kind[n] \notin {"tool_call", "code"}
    \/ Worked(r, n)
    \/ Kind[n] = "code" /\ ran[r][n] >= IF HeldFor(r, n) = {} THEN 1 ELSE 2

\* What results and requests somebody has of a run say is true.
Told(res, r) ==
    \A n \in Nodes : /\ res[n] = "ok" => WellDone(r, n)
                     /\ res[n] = "rejected" => Refused(r, n)
AskedOf(ask, r) == \A n \in Nodes : ask[n] # NoRequest => ask[n] \in HeldFor(r, n)

\* A held call's record, for any pipeline: an output of a Tool call step, and
\* the rejection of any step, are what became of a request for it.
CallRecordIsTrue ==
    \A r \in Runs, n \in Nodes :
        /\ Kind[n] = "tool_call" /\ row[r].res[n] = "ok" => Worked(r, n)
        /\ row[r].res[n] = "rejected" => Refused(r, n)

\* The record is copied: to the engine, to a task, to a cancel, and back.
RowsTold == \A r \in Runs : Told(row[r].res, r) /\ AskedOf(row[r].ask, r)
EnginesTold ==
    \A r \in Runs : /\ Told(eng[r].res, r) /\ AskedOf(eng[r].ask, r) /\ Told(eng[r].prior, r)
                    /\ \A n \in Nodes : eng[r].res[n] = "asking" => Kind[n] = "tool_call"
CancelsTold == \A r \in Runs : Told(cancel[r].seen.res, r) /\ AskedOf(cancel[r].seen.ask, r)
TasksTold ==
    \A q \in Requests, r \in Runs :
        task[q].run = r => Told(task[q].seen.res, r) /\ AskedOf(task[q].seen.ask, r)

\* A task whose result is kept, if there is one.
Kept == {"find", "next", "check", "claim", "enter", "walk", "done", "dead"}

\* A good result is kept after every call of an approved request was made.
ResultOf(q) ==
    /\ req[q].status # "none" =>
         /\ req[q].kind = Kind[req[q].call]
         /\ req[q].kind = "code" => ran[req[q].run][req[q].call] >= 1
    /\ req[q].result = "ok" => WorkedFor(q) /\ task[q].pc \in Kept
    /\ task[q].pc = "keep" => req[q].kind = "tool_call" /\ made[q] = 1
    /\ task[q].pc = "keep_set" => req[q].kind = "code" /\ (task[q].out = "ok" => made[q] = Changes)
ResultsInv == \A q \in Requests : ResultOf(q)

RecordInv == RowsTold /\ EnginesTold /\ CancelsTold /\ TasksTold /\ ResultsInv

LEMMA RecordGivesProperty ==
    ASSUME TypeOK, RecordInv, StepsRunOnce \/ \A n \in Nodes : Kind[n] # "code"
    PROVE  RecordIsTrue
<1> SUFFICES ASSUME NEW r \in Runs, NEW n \in Nodes
             PROVE  /\ row[r].res[n] = "ok" /\ HeldFor(r, n) # {} => \E q \in HeldFor(r, n) : WorkedFor(q)
                    /\ row[r].res[n] = "rejected" => \E q \in HeldFor(r, n) : RefusedFor(q)
    BY DEF RecordIsTrue, WorkedFor, Full, RefusedFor
<1>1. Told(row[r].res, r) /\ ran[r][n] \in Nat
    BY DEF RecordInv, RowsTold, TypeOK
<1>2. ASSUME HeldFor(r, n) # {} PROVE Kind[n] \in {"tool_call", "code"}
    <2>1. PICK q \in HeldFor(r, n) : TRUE
        BY <1>2
    <2>2. q \in Requests /\ req[q].status # "none" /\ req[q].call = n /\ req[q] \in Request
        BY <2>1 DEF HeldFor, TypeOK
    <2>3. req[q].kind = Kind[n]
        BY <2>2 DEF RecordInv, ResultsInv, ResultOf
    <2> QED
        BY <2>2, <2>3 DEF Request
<1>3. ASSUME HeldFor(r, n) # {}, WellDone(r, n) PROVE Worked(r, n)
    BY <1>1, <1>2, <1>3 DEF WellDone, StepsRunOnce
<1> QED
    BY <1>1, <1>3 DEF Told, Worked, Refused

LEMMA NothingTold ==
    ASSUME NEW r \in Runs
    PROVE  Told(Nothing, r) /\ AskedOf(NoAsks, r)
BY DEF Told, Nothing, AskedOf, NoAsks

LEMMA RecordInit == Init => RecordInv
<1> SUFFICES ASSUME Init PROVE RecordInv
    OBVIOUS
<1>1. RowsTold /\ CancelsTold
    BY NothingTold DEF Init, RowsTold, CancelsTold, NewRow
<1>2. EnginesTold
    <2>1. \A n \in Nodes : Nothing[n] # "asking"
        BY DEF Nothing
    <2>2. Off.res = Nothing /\ Off.ask = NoAsks /\ Off.prior = Nothing
        BY DEF Off, Engaged
    <2> QED
        BY <2>1, <2>2, NothingTold DEF Init, EnginesTold
<1>3. TasksTold
    BY NothingTold DEF Init, TasksTold, NoTask, NewRow
<1>4. ResultsInv
    BY DEF Init, ResultsInv, ResultOf, NotFiled, NoTask
<1> QED
    BY <1>1, <1>2, <1>3, <1>4 DEF RecordInv

\* Requests only grow: once filed, a request is for the same call, and neither
\* a call that worked nor a refusal is undone.
Grows(q) ==
    req[q].status # "none" =>
        /\ req'[q].status # "none" /\ req'[q].call = req[q].call
        /\ req'[q].kind = req[q].kind /\ req'[q].run = req[q].run
        /\ WorkedFor(q) => WorkedFor(q)'
        /\ RefusedFor(q) => RefusedFor(q)'
RanOn == \A r \in Runs, n \in Nodes : ran'[r][n] \in Nat /\ ran'[r][n] >= ran[r][n]
KeepsTruth ==
    \A r \in Runs, n \in Nodes :
        /\ \A q \in HeldFor(r, n) : q \in HeldFor(r, n)'
        /\ WellDone(r, n) => WellDone(r, n)'
        /\ Refused(r, n) => Refused(r, n)'

\* A script that stages changes, for the first time or not, has run once more.
LEMMA GrowthKeepsTruth ==
    ASSUME TypeOK, RanOn, \A q \in Requests : Grows(q),
           \A r \in Runs, n \in Nodes :
             Kind[n] = "code" /\ HeldFor(r, n) = {} /\ HeldFor(r, n)' # {} => ran'[r][n] > ran[r][n]
    PROVE  KeepsTruth
<1> SUFFICES ASSUME NEW r \in Runs, NEW n \in Nodes
             PROVE  /\ \A q \in HeldFor(r, n) : q \in HeldFor(r, n)'
                    /\ WellDone(r, n) => WellDone(r, n)'
                    /\ Refused(r, n) => Refused(r, n)'
    BY DEF KeepsTruth
<1>1. ASSUME NEW q \in HeldFor(r, n)
      PROVE  q \in HeldFor(r, n)' /\ (WorkedFor(q) => WorkedFor(q)') /\ (RefusedFor(q) => RefusedFor(q)')
    BY DEF HeldFor, Grows
<1>2. (Worked(r, n) => Worked(r, n)') /\ (Refused(r, n) => Refused(r, n)')
    BY <1>1 DEF Worked, Refused
<1>3. /\ ran[r][n] \in Nat /\ ran'[r][n] \in Nat /\ ran'[r][n] >= ran[r][n]
      /\ HeldFor(r, n)' = {} => HeldFor(r, n) = {}
    BY <1>1 DEF TypeOK, RanOn
<1>4. WellDone(r, n) => WellDone(r, n)'
    BY <1>2, <1>3 DEF WellDone
<1> QED
    BY <1>1, <1>2, <1>4

LEMMA NoNewKeepsTruth ==
    ASSUME TypeOK, RanOn, \A q \in Requests : Grows(q) /\ (req'[q].status # "none" => req[q].status # "none")
    PROVE  KeepsTruth
<1>1. ASSUME NEW r \in Runs, NEW n \in Nodes, HeldFor(r, n)' # {} PROVE HeldFor(r, n) # {}
    <2>1. PICK q \in Requests : q \in HeldFor(r, n)'
        BY <1>1 DEF HeldFor
    <2>2. q \in HeldFor(r, n)
        BY <2>1 DEF HeldFor, Grows
    <2> QED
        BY <2>2
<1> QED
    BY <1>1, GrowthKeepsTruth

LEMMA RanSame ==
    ASSUME TypeOK, ran' = ran
    PROVE  RanOn
BY DEF TypeOK, RanOn

LEMMA SameRequestsKeepTruth ==
    ASSUME TypeOK, RanOn, UNCHANGED <<req, made>>
    PROVE  KeepsTruth
<1>1. \A q \in Requests : Grows(q) /\ (req'[q].status # "none" => req[q].status # "none")
    BY DEF Grows, WorkedFor, RefusedFor, Full
<1> QED
    BY <1>1, NoNewKeepsTruth

\* What nobody touched stays true.
LEMMA RowsStay ==
    ASSUME RowsTold, KeepsTruth,
           \A r \in Runs : row'[r].res = row[r].res /\ row'[r].ask = row[r].ask
    PROVE  RowsTold'
BY DEF RowsTold, Told, AskedOf, KeepsTruth

LEMMA EnginesStay ==
    ASSUME EnginesTold, KeepsTruth,
           \A r \in Runs : eng'[r].res = eng[r].res /\ eng'[r].ask = eng[r].ask /\ eng'[r].prior = eng[r].prior
    PROVE  EnginesTold'
BY DEF EnginesTold, Told, AskedOf, KeepsTruth

LEMMA CancelsStay ==
    ASSUME CancelsTold, KeepsTruth, UNCHANGED cancel
    PROVE  CancelsTold'
BY DEF CancelsTold, Told, AskedOf, KeepsTruth

LEMMA TasksStay ==
    ASSUME TasksTold, KeepsTruth,
           \A q \in Requests : task'[q].run = task[q].run /\ task'[q].seen = task[q].seen
    PROVE  TasksTold'
BY DEF TasksTold, Told, AskedOf, KeepsTruth

\* A request as it was, whose task is where it was or has gone on.
SameResult(q) ==
    /\ req'[q].status = req[q].status /\ req'[q].kind = req[q].kind /\ req'[q].call = req[q].call
    /\ req'[q].run = req[q].run /\ req'[q].result = req[q].result /\ made'[q] = made[q]
    /\ \/ task'[q].pc = task[q].pc /\ task'[q].out = task[q].out
       \/ task'[q].pc \in Kept

LEMMA ResultStays ==
    ASSUME TypeOK, RanOn, NEW q \in Requests, ResultOf(q), SameResult(q)
    PROVE  ResultOf(q)' /\ Grows(q)
<1>1. req[q].run \in Runs /\ req[q].call \in Nodes
    BY DEF TypeOK, Request
<1>2. ran[req[q].run][req[q].call] >= 1 => ran'[req'[q].run][req'[q].call] >= 1
    BY <1>1 DEF TypeOK, RanOn, SameResult
<1> QED
    BY <1>2 DEF ResultOf, SameResult, Kept, WorkedFor, Full, Grows, RefusedFor

\* The engine of one run has new results and requests; those of the others
\* stay.
LEMMA EngineTold ==
    ASSUME EnginesTold, KeepsTruth, NEW r \in Runs,
           \A x \in Runs \ {r} : eng'[x] = eng[x],
           \A n \in Nodes :
             /\ eng'[r].res[n] = "ok" => eng[r].res[n] = "ok" \/ eng[r].prior[n] = "ok" \/ WellDone(r, n)'
             /\ eng'[r].res[n] = "rejected" => eng[r].res[n] = "rejected" \/ eng[r].prior[n] = "rejected"
             /\ eng'[r].res[n] = "asking" => Kind[n] = "tool_call"
             /\ eng'[r].ask[n] # NoRequest => eng'[r].ask[n] = eng[r].ask[n] \/ eng'[r].ask[n] \in HeldFor(r, n)',
           eng'[r].prior = eng[r].prior
    PROVE  EnginesTold'
<1>1. /\ Told(eng[r].res, r) /\ AskedOf(eng[r].ask, r) /\ Told(eng[r].prior, r)
    BY DEF EnginesTold
<1>2. /\ Told(eng[r].res, r)' /\ AskedOf(eng[r].ask, r)' /\ Told(eng[r].prior, r)'
      /\ \A n \in Nodes : eng'[r].res[n] = "asking" => Kind[n] = "tool_call"
    BY <1>1 DEF Told, AskedOf, KeepsTruth
<1>3. \A x \in Runs \ {r} :
        /\ Told(eng[x].res, x)' /\ AskedOf(eng[x].ask, x)' /\ Told(eng[x].prior, x)'
        /\ \A n \in Nodes : eng'[x].res[n] = "asking" => Kind[n] = "tool_call"
    BY DEF EnginesTold, Told, AskedOf, KeepsTruth
<1> QED
    BY <1>2, <1>3 DEF EnginesTold

\* An engine that starts has nothing but what it was handed.
LEMMA EngineStarts ==
    ASSUME EnginesTold, KeepsTruth, NEW r \in Runs, NEW prior,
           \A x \in Runs \ {r} : eng'[x] = eng[x],
           eng'[r].res = Nothing, eng'[r].ask = NoAsks, eng'[r].prior = prior,
           \A n \in Nodes : /\ prior[n] = "ok" => WellDone(r, n)
                            /\ prior[n] = "rejected" => Refused(r, n)
    PROVE  EnginesTold'
<1>1. \A n \in Nodes : Nothing[n] = "todo" /\ NoAsks[n] = NoRequest
    BY DEF Nothing, NoAsks
<1>2. /\ Told(eng[r].res, r)' /\ AskedOf(eng[r].ask, r)' /\ Told(eng[r].prior, r)'
      /\ \A n \in Nodes : eng'[r].res[n] = "asking" => Kind[n] = "tool_call"
    BY <1>1 DEF Told, AskedOf, KeepsTruth
<1>3. \A x \in Runs \ {r} :
        /\ Told(eng[x].res, x)' /\ AskedOf(eng[x].ask, x)' /\ Told(eng[x].prior, x)'
        /\ \A n \in Nodes : eng'[x].res[n] = "asking" => Kind[n] = "tool_call"
    BY DEF EnginesTold, Told, AskedOf, KeepsTruth
<1> QED
    BY <1>2, <1>3 DEF EnginesTold

LEMMA RowStatusOnly ==
    ASSUME NEW rw \in Row, NEW s
    PROVE  [rw EXCEPT !.status = s].res = rw.res /\ [rw EXCEPT !.status = s].ask = rw.ask
BY DEF Row

LEMMA StatusSet ==
    ASSUME TypeOK, RowsTold, KeepsTruth, NEW r \in Runs, NEW s, row' = [row EXCEPT ![r].status = s]
    PROVE  RowsTold'
<1>0. row \in [Runs -> Row] /\ row[r] \in Row
    BY DEF TypeOK
<1>1. row'[r] = [row[r] EXCEPT !.status = s] /\ \A x \in Runs \ {r} : row'[x] = row[x]
    BY <1>0
<1>2. row'[r].res = row[r].res /\ row'[r].ask = row[r].ask
    BY <1>0, <1>1, RowStatusOnly
<1>3. \A x \in Runs : row'[x].res = row[x].res /\ row'[x].ask = row[x].ask
    BY <1>1, <1>2
<1> QED
    BY <1>3, RowsStay

\* A row is written; the others stay.
LEMMA RowTold ==
    ASSUME RowsTold, KeepsTruth, NEW r \in Runs,
           \A x \in Runs \ {r} : row'[x] = row[x],
           Told(row[r].res, r)' /\ AskedOf(row[r].ask, r)'
    PROVE  RowsTold'
<1>1. \A x \in Runs \ {r} : Told(row[x].res, x)' /\ AskedOf(row[x].ask, x)'
    BY DEF RowsTold, Told, AskedOf, KeepsTruth
<1> QED
    BY <1>1 DEF RowsTold

LEMMA WalkEndsKeeps ==
    ASSUME TypeOK, NEW r \in Runs, NEW p \in {"next", "dead"}, NEW x \in Requests
    PROVE  /\ WalkEnds(r, p)[x].run = task[x].run /\ WalkEnds(r, p)[x].seen = task[x].seen
           /\ WalkEnds(r, p)[x].pc \in {p, task[x].pc} /\ WalkEnds(r, p)[x].out = task[x].out
<1>1. task[x] \in Task
    BY DEF TypeOK
<1>2. /\ [task[x] EXCEPT !.pc = p].pc = p /\ [task[x] EXCEPT !.pc = p].run = task[x].run
      /\ [task[x] EXCEPT !.pc = p].seen = task[x].seen /\ [task[x] EXCEPT !.pc = p].out = task[x].out
    BY <1>1 DEF Task
<1> QED
    BY <1>2 DEF WalkEnds

\* Requests and calls are as they were, tasks keep what they have.
LEMMA ResultsStay ==
    ASSUME TypeOK, RanOn, ResultsInv, UNCHANGED <<req, made>>,
           \A x \in Requests : \/ task'[x].pc = task[x].pc /\ task'[x].out = task[x].out
                               \/ task'[x].pc \in Kept
    PROVE  ResultsInv'
<1>1. \A x \in Requests : SameResult(x)
    BY DEF SameResult
<1> QED
    BY <1>1, ResultStays DEF ResultsInv

LEMMA RecordLayers ==
    ASSUME TypeOK, RecordInv, NEW r \in Runs,
           \/ Start(r) \/ EnterLayer(r) \/ LayerCancelled(r) \/ LimitMet(r) \/ Finish(r) \/ Commit(r)
    PROVE  RecordInv'
<1>0. /\ row \in [Runs -> Row] /\ row[r] \in Row /\ eng \in [Runs -> Engine] /\ eng[r] \in Engine
      /\ eng[r].prior \in [Nodes -> Saved] /\ eng[r].res \in [Nodes -> Local]
    BY DEF TypeOK, Engine
<1>1. KeepsTruth /\ RanOn /\ CancelsTold'
    <2>1. UNCHANGED <<req, made, cancel, ran>>
        BY DEF Start, EnterLayer, LayerCancelled, LimitMet, Finish, Conclude, Commit
    <2> QED
        BY <2>1, RanSame, SameRequestsKeepTruth, CancelsStay DEF RecordInv
<1>2. TasksTold' /\ ResultsInv'
    <2>1. CASE UNCHANGED <<task, req, made>>
        BY <2>1, <1>1, TasksStay, ResultsStay DEF RecordInv
    <2>2. CASE Commit(r)
        <3>1. task' = WalkEnds(r, "next") /\ UNCHANGED <<req, made>>
            BY <2>2 DEF Commit
        <3>2. \A x \in Requests : /\ task'[x].run = task[x].run /\ task'[x].seen = task[x].seen
                                  /\ task'[x].pc \in {"next", task[x].pc} /\ task'[x].out = task[x].out
            BY <3>1, WalkEndsKeeps
        <3> QED
            BY <3>1, <3>2, <1>1, TasksStay, ResultsStay DEF RecordInv, Kept
    <2> QED
        BY <2>1, <2>2 DEF Start, EnterLayer, LayerCancelled, LimitMet, Finish, Conclude
<1>3. RowsTold' /\ EnginesTold'
    <2>1. CASE Start(r)
        <3>1. row' = [row EXCEPT ![r].status = "running"]
            BY <2>1 DEF Start
        <3>2. RowsTold'
            BY <3>1, <1>1, StatusSet DEF RecordInv
        <3>3. eng'[r] = Engaged(Nothing) /\ \A x \in Runs \ {r} : eng'[x] = eng[x]
            BY <2>1, <1>0 DEF Start
        <3>4. eng'[r].res = Nothing /\ eng'[r].ask = NoAsks /\ eng'[r].prior = Nothing
            BY <3>3 DEF Engaged
        <3>5. \A n \in Nodes : Nothing[n] = "todo"
            BY DEF Nothing
        <3>6. EnginesTold'
            BY <3>3, <3>4, <3>5, <1>1, EngineStarts DEF RecordInv
        <3> QED
            BY <3>2, <3>6
    <2>2. CASE EnterLayer(r)
        <3> DEFINE layer == NextLayer(eng[r].res)
                   e == eng[r]
        <3>1. eng' = [eng EXCEPT ![r].layer = layer, ![r].res = Entered(e, layer)] /\ row' = row
            BY <2>2 DEF EnterLayer
        <3>2. eng'[r] = [e EXCEPT !.layer = layer, !.res = Entered(e, layer)]
              /\ \A x \in Runs \ {r} : eng'[x] = eng[x]
            BY <3>1, <1>0
        <3>3. \A n \in Nodes : Entered(e, layer)[n] \in {e.res[n], "skipped", e.prior[n]}
            BY DEF Entered
        <3>4. \A n \in Nodes : e.prior[n] # "asking"
            BY <1>0 DEF Saved, Ended, Done
        <3> HIDE DEF layer
        <3>5. /\ eng'[r].res = Entered(e, layer) /\ eng'[r].ask = e.ask /\ eng'[r].prior = e.prior
            BY <3>2, <1>0 DEF Engine
        <3>6. \A n \in Nodes : e.res[n] = "asking" => Kind[n] = "tool_call"
            BY DEF RecordInv, EnginesTold
        <3>7. \A n \in Nodes :
                /\ eng'[r].res[n] = "ok" => e.res[n] = "ok" \/ e.prior[n] = "ok" \/ WellDone(r, n)'
                /\ eng'[r].res[n] = "rejected" => e.res[n] = "rejected" \/ e.prior[n] = "rejected"
                /\ eng'[r].res[n] = "asking" => Kind[n] = "tool_call"
                /\ eng'[r].ask[n] # NoRequest => eng'[r].ask[n] = e.ask[n] \/ eng'[r].ask[n] \in HeldFor(r, n)'
            BY <3>3, <3>4, <3>5, <3>6
        <3>8. EnginesTold'
            BY <3>2, <3>5, <3>7, <1>1, EngineTold DEF RecordInv
        <3> QED
            BY <3>1, <3>8, <1>1, RowsStay DEF RecordInv
    <2>3. CASE LayerCancelled(r) \/ LimitMet(r) \/ Finish(r)
        <3>1. PICK v : eng' = [eng EXCEPT ![r].pc = "commit", ![r].verdict = v] /\ row' = row
            BY <2>3 DEF LayerCancelled, LimitMet, Finish, Conclude
        <3>2. \A x \in Runs : eng'[x] = IF x = r THEN [eng[r] EXCEPT !.pc = "commit", !.verdict = v] ELSE eng[x]
            BY <3>1, <1>0
        <3>3. LET e == [eng[r] EXCEPT !.pc = "commit", !.verdict = v]
              IN e.res = eng[r].res /\ e.ask = eng[r].ask /\ e.prior = eng[r].prior
            BY <1>0 DEF Engine
        <3>4. \A x \in Runs : eng'[x].res = eng[x].res /\ eng'[x].ask = eng[x].ask /\ eng'[x].prior = eng[x].prior
            BY <3>2, <3>3
        <3> QED
            BY <3>1, <3>4, <1>1, RowsStay, EnginesStay DEF RecordInv
    <2>4. CASE Commit(r)
        <3>1. eng'[r] = Off /\ \A x \in Runs \ {r} : eng'[x] = eng[x] /\ row'[x] = row[x]
            BY <2>4, <1>0 DEF Commit
        <3>2. eng'[r].res = Nothing /\ eng'[r].ask = NoAsks /\ eng'[r].prior = Nothing
            BY <3>1 DEF Off, Engaged
        <3>3. \A n \in Nodes : Nothing[n] = "todo" /\ NoAsks[n] = NoRequest
            BY DEF Nothing, NoAsks
        <3>4. EnginesTold'
            BY <3>1, <3>2, <3>3, <1>1, EngineStarts DEF RecordInv
        <3>5. CASE row' = row
            BY <3>4, <3>5, <1>1, RowsStay DEF RecordInv
        <3>6. CASE row' # row
            <4>1. /\ row'[r].res = Recorded(eng[r])
                  /\ row'[r].ask = eng[r].ask \/ row'[r].ask = NoAsks
                BY <2>4, <3>6, <1>0 DEF Commit
            <4>2. \A n \in Nodes : row'[r].res[n] \in {eng[r].res[n], "failed", "todo"}
                BY <4>1 DEF Recorded
            <4>3. Told(eng[r].res, r) /\ AskedOf(eng[r].ask, r)
                BY DEF RecordInv, EnginesTold
            <4>4. Told(row[r].res, r)' /\ AskedOf(row[r].ask, r)'
                BY <4>1, <4>2, <4>3, <3>3, <1>1 DEF Told, AskedOf, KeepsTruth
            <4> QED
                BY <4>4, <3>1, <3>4, <1>1, RowTold DEF RecordInv
        <3> QED
            BY <3>5, <3>6
    <2> QED
        BY <2>1, <2>2, <2>3, <2>4
<1> QED
    BY <1>1, <1>2, <1>3 DEF RecordInv

LEMMA RanOnce ==
    ASSUME TypeOK, NEW r \in Runs, NEW n \in Nodes, ran' = [ran EXCEPT ![r][n] = @ + 1]
    PROVE  RanOn /\ ran[r][n] \in Nat /\ ran'[r][n] = ran[r][n] + 1
<1>1. ran \in [Runs -> [Nodes -> Nat]]
    BY DEF TypeOK
<1>2. \A x \in Runs, m \in Nodes : ran[x][m] \in Nat
    BY <1>1
<1>3. \A x \in Runs, m \in Nodes : ran'[x][m] = IF x = r /\ m = n THEN ran[r][n] + 1 ELSE ran[x][m]
    BY <1>1
<1> QED
    BY <1>2, <1>3 DEF RanOn

\* A request is filed: it was none, so nobody has it yet.
LEMMA RecordFile ==
    ASSUME TypeOK, OnceInv, RecordInv, NEW r \in Runs, NEW n \in Nodes, NEW q \in Requests,
           NEW k \in {"tool_call", "code"}, Kind[n] = k, Fresh(q), File(q, k, r, n), UNCHANGED <<task, made>>,
           IF k = "code" THEN ran' = [ran EXCEPT ![r][n] = @ + 1] ELSE ran' = ran
    PROVE  KeepsTruth /\ ResultsInv' /\ q \in HeldFor(r, n)'
<1>1. req[q] \in Request /\ req \in [Requests -> Request]
    BY DEF TypeOK
<1>2. LET x == [req[q] EXCEPT !.status = "pending", !.kind = k, !.call = n, !.run = r]
      IN x.status = "pending" /\ x.kind = k /\ x.call = n /\ x.run = r /\ x.result = req[q].result
    BY <1>1 DEF Request
<1>3. /\ req'[q].status = "pending" /\ req'[q].kind = k /\ req'[q].call = n
      /\ req'[q].run = r /\ req'[q].result = req[q].result
      /\ \A x \in Requests \ {q} : req'[x] = req[x]
    BY <1>1, <1>2 DEF File
<1>4. task[q].pc = "off" /\ req[q].status = "none"
    BY DEF Fresh, OnceInv, OnceOf
<1>5. req[q].result # "ok"
    BY <1>4 DEF RecordInv, ResultsInv, ResultOf, Kept
<1>6. /\ RanOn /\ ran[r][n] \in Nat
      /\ k = "code" => ran'[r][n] = ran[r][n] + 1
    <2>1. CASE ran' = ran
        BY <2>1, RanSame DEF TypeOK
    <2>2. CASE ran' = [ran EXCEPT ![r][n] = @ + 1]
        BY <2>2, RanOnce
    <2> QED
        BY <2>1, <2>2, RanOnce
<1>7. ResultOf(q)' /\ Grows(q)
    BY <1>3, <1>4, <1>5, <1>6 DEF ResultOf, Grows
<1>8. \A x \in Requests \ {q} : SameResult(x)
    BY <1>3 DEF SameResult
<1>9. \A x \in Requests : ResultOf(x)' /\ Grows(x)
    BY <1>6, <1>7, <1>8, ResultStays DEF RecordInv, ResultsInv
<1>10. ASSUME NEW x \in Runs, NEW m \in Nodes, Kind[m] = "code", HeldFor(x, m) = {}, HeldFor(x, m)' # {}
       PROVE  ran'[x][m] > ran[x][m]
    <2>1. PICK y \in Requests : y \in HeldFor(x, m)'
        BY <1>10 DEF HeldFor
    <2>2. y = q
        BY <1>3, <1>10, <2>1 DEF HeldFor
    <2>3. m = n /\ k = "code" /\ x = r
        BY <1>3, <1>10, <2>1, <2>2 DEF HeldFor
    <2> QED
        BY <1>6, <2>3
<1>11. KeepsTruth
    BY <1>6, <1>9, <1>10, GrowthKeepsTruth
<1> QED
    BY <1>3, <1>9, <1>11 DEF ResultsInv, HeldFor

LEMMA ResultSet ==
    ASSUME TypeOK, EnginesTold, KeepsTruth, NEW r \in Runs, NEW n \in Nodes, NEW o,
           eng' = [eng EXCEPT ![r].res[n] = o],
           o # "rejected", o = "ok" => WellDone(r, n)', o = "asking" => Kind[n] = "tool_call"
    PROVE  EnginesTold'
<1>1. /\ \A x \in Runs \ {r} : eng'[x] = eng[x]
      /\ \A m \in Nodes : eng'[r].res[m] = IF m = n THEN o ELSE eng[r].res[m]
      /\ eng'[r].ask = eng[r].ask /\ eng'[r].prior = eng[r].prior
    <2>0. eng \in [Runs -> Engine] /\ eng[r] \in Engine
        BY DEF TypeOK
    <2>1. eng'[r] = [eng[r] EXCEPT !.res[n] = o] /\ \A x \in Runs \ {r} : eng'[x] = eng[x]
        BY <2>0
    <2> QED
        BY <2>0, <2>1 DEF Engine
<1>2. \A m \in Nodes : eng[r].res[m] = "asking" => Kind[m] = "tool_call"
    BY DEF EnginesTold
<1>3. \A m \in Nodes :
        /\ eng'[r].res[m] = "ok" => eng[r].res[m] = "ok" \/ eng[r].prior[m] = "ok" \/ WellDone(r, m)'
        /\ eng'[r].res[m] = "rejected" => eng[r].res[m] = "rejected" \/ eng[r].prior[m] = "rejected"
        /\ eng'[r].res[m] = "asking" => Kind[m] = "tool_call"
        /\ eng'[r].ask[m] # NoRequest => eng'[r].ask[m] = eng[r].ask[m] \/ eng'[r].ask[m] \in HeldFor(r, m)'
    BY <1>1, <1>2
<1> QED
    BY <1>1, <1>3, EngineTold

LEMMA RequestSet ==
    ASSUME TypeOK, EnginesTold, KeepsTruth, NEW r \in Runs, NEW n \in Nodes, NEW q,
           NEW o \in {"waiting", "attaching"},
           eng' = [eng EXCEPT ![r].res[n] = o, ![r].ask[n] = q], q \in HeldFor(r, n)'
    PROVE  EnginesTold'
<1>1. /\ \A x \in Runs \ {r} : eng'[x] = eng[x]
      /\ \A m \in Nodes : eng'[r].res[m] = IF m = n THEN o ELSE eng[r].res[m]
      /\ \A m \in Nodes : eng'[r].ask[m] = IF m = n THEN q ELSE eng[r].ask[m]
      /\ eng'[r].prior = eng[r].prior
    <2>0. eng \in [Runs -> Engine] /\ eng[r] \in Engine
        BY DEF TypeOK
    <2>1. /\ eng'[r] = [eng[r] EXCEPT !.res[n] = o, !.ask[n] = q]
          /\ \A x \in Runs \ {r} : eng'[x] = eng[x]
        BY <2>0
    <2> QED
        BY <2>0, <2>1 DEF Engine
<1>2. \A m \in Nodes : eng[r].res[m] = "asking" => Kind[m] = "tool_call"
    BY DEF EnginesTold
<1>3. \A m \in Nodes :
        /\ eng'[r].res[m] = "ok" => eng[r].res[m] = "ok" \/ eng[r].prior[m] = "ok" \/ WellDone(r, m)'
        /\ eng'[r].res[m] = "rejected" => eng[r].res[m] = "rejected" \/ eng[r].prior[m] = "rejected"
        /\ eng'[r].res[m] = "asking" => Kind[m] = "tool_call"
        /\ eng'[r].ask[m] # NoRequest => eng'[r].ask[m] = eng[r].ask[m] \/ eng'[r].ask[m] \in HeldFor(r, m)'
    BY <1>1, <1>2
<1> QED
    BY <1>1, <1>3, EngineTold

\* A step that only touches its engine and the requests.
LEMMA RowsTasksStay ==
    ASSUME RecordInv, KeepsTruth, UNCHANGED <<row, task, cancel>>
    PROVE  RowsTold' /\ TasksTold' /\ CancelsTold'
BY RowsStay, TasksStay, CancelsStay DEF RecordInv

LEMMA RecordNode ==
    ASSUME TypeOK, OnceInv, RecordInv, NEW r \in Runs, NEW n \in Nodes,
           \/ RunNode(r, n) \/ HoldLookup(r, n) \/ HoldCreate(r, n)
           \/ StageChanges(r, n) \/ AttachApproval(r, n)
    PROVE  RecordInv'
<1>0. UNCHANGED <<row, task, cancel, made>> /\ EnginesTold /\ ResultsInv
    BY DEF RunNode, HoldLookup, HoldCreate, StageChanges, AttachApproval, RecordInv
<1>1. SUFFICES KeepsTruth /\ EnginesTold' /\ ResultsInv'
    BY <1>0, RowsTasksStay DEF RecordInv
<1>2. CASE RunNode(r, n) \/ HoldLookup(r, n)
    <2>1. UNCHANGED <<req, made>>
        BY <1>2 DEF RunNode, HoldLookup
    <2>2. RanOn /\ (ran' # ran => ran[r][n] \in Nat /\ ran'[r][n] = ran[r][n] + 1)
        <3>1. ran' = ran \/ ran' = [ran EXCEPT ![r][n] = @ + 1]
            BY <1>2 DEF RunNode, HoldLookup
        <3>2. ran' = ran => RanOn
            BY DEF RanOn, TypeOK
        <3> QED
            BY <3>1, <3>2, RanOnce
    <2>3. KeepsTruth /\ ResultsInv'
        BY <1>0, <2>1, <2>2, SameRequestsKeepTruth, ResultsStay
    <2>4. CASE RunNode(r, n)
        <3>0. PICK o \in Outcomes(n) :
                /\ eng' = [eng EXCEPT ![r].res[n] = o]
                /\ ran' = IF o = "blank" THEN ran ELSE [ran EXCEPT ![r][n] = @ + 1]
            BY <2>4 DEF RunNode
        <3>1. eng' = [eng EXCEPT ![r].res[n] = o]
            BY <3>0
        <3>2. o \notin {"rejected", "asking"} /\ (o = "ok" => Kind[n] # "tool_call")
            BY DEF Outcomes, Failing
        <3>3. ASSUME Kind[n] = "code", o = "ok" PROVE WellDone(r, n)'
            <4>0. ran[r][n] \in Nat /\ ran'[r][n] = ran[r][n] + 1
                BY <3>0, <3>3, RanOnce
            <4>1. CASE HeldFor(r, n) = {}
                BY <2>1, <4>0, <3>3, <4>1 DEF WellDone, HeldFor
            <4>2. CASE HeldFor(r, n) # {}
                <5>1. PICK q \in Requests : /\ req[q].status # "none" /\ req[q].call = n
                                            /\ req[q].kind = "code" => req[q].run = r
                    BY <4>2 DEF HeldFor
                <5>2. ran[r][n] >= 1
                    BY <1>0, <3>3, <5>1 DEF ResultsInv, ResultOf
                <5>3. ran'[r][n] >= 2 /\ ran'[r][n] >= 1
                    BY <4>0, <5>2
                <5> QED
                    BY <3>3, <5>3 DEF WellDone
            <4> QED
                BY <4>1, <4>2
        <3>4. o = "ok" => WellDone(r, n)'
            BY <3>2, <3>3 DEF WellDone
        <3> QED
            BY <3>1, <3>2, <3>4, <2>3, <1>0, ResultSet
    <2>5. CASE HoldLookup(r, n)
        <3>1. CASE PendingFor(n) = {}
            <4>1. eng' = [eng EXCEPT ![r].res[n] = "asking"] /\ Kind[n] = "tool_call"
                BY <2>5, <3>1 DEF HoldLookup
            <4>2. "asking" \notin {"ok", "rejected"}
                OBVIOUS
            <4> QED
                BY <4>1, <4>2, <2>3, <1>0, ResultSet
        <3>2. CASE PendingFor(n) # {}
            <4>1. PICK q \in PendingFor(n) : eng' = [eng EXCEPT ![r].res[n] = "waiting", ![r].ask[n] = q]
                BY <2>5, <3>2 DEF HoldLookup
            <4>2. q \in HeldFor(r, n)'
                BY <4>1, <2>1 DEF PendingFor, HeldFor
            <4> QED
                BY <4>1, <4>2, <2>3, <1>0, RequestSet
        <3> QED
            BY <3>1, <3>2
    <2> QED
        BY <1>2, <2>4, <2>5
<1>3. CASE HoldCreate(r, n)
    <2>1. PICK q \in Requests : /\ Fresh(q) /\ File(q, "tool_call", r, n)
                                /\ eng' = [eng EXCEPT ![r].res[n] = "waiting", ![r].ask[n] = q]
        BY <1>3 DEF HoldCreate
    <2>2. Kind[n] = "tool_call"
        BY <1>3, <1>0 DEF HoldCreate, EnginesTold
    <2>3. ran' = ran
        BY <1>3 DEF HoldCreate
    <2>4. KeepsTruth /\ ResultsInv' /\ q \in HeldFor(r, n)'
        BY <2>1, <2>2, <2>3, <1>0, RecordFile
    <2> QED
        BY <2>1, <2>4, <1>0, RequestSet
<1>4. CASE StageChanges(r, n)
    <2>1. PICK q \in Requests : /\ Fresh(q) /\ File(q, "code", r, n)
                                /\ eng' = [eng EXCEPT ![r].res[n] = "attaching", ![r].ask[n] = q]
        BY <1>4 DEF StageChanges
    <2>2. Kind[n] = "code" /\ ran' = [ran EXCEPT ![r][n] = @ + 1]
        BY <1>4 DEF StageChanges
    <2>3. KeepsTruth /\ ResultsInv' /\ q \in HeldFor(r, n)'
        BY <2>1, <2>2, <1>0, RecordFile
    <2> QED
        BY <2>1, <2>3, <1>0, RequestSet
<1>5. CASE AttachApproval(r, n)
    <2>1. \A x \in Requests : req[x] \in Request
        BY DEF TypeOK
    <2>2. \A x \in Requests : LET y == [req[x] EXCEPT !.attached = TRUE]
                              IN /\ y.status = req[x].status /\ y.kind = req[x].kind /\ y.call = req[x].call
                                 /\ y.run = req[x].run /\ y.result = req[x].result
        BY <2>1 DEF Request
    <2>3. \A x \in Requests : req'[x] = req[x] \/ req'[x] = [req[x] EXCEPT !.attached = TRUE]
        BY <1>5 DEF AttachApproval, TypeOK
    <2>4. \A x \in Requests : SameResult(x)
        BY <1>0, <2>2, <2>3 DEF SameResult
    <2>5. RanOn
        BY <1>5, RanSame DEF AttachApproval
    <2>6. \A x \in Requests : ResultOf(x)' /\ Grows(x)
        BY <2>4, <2>5, <1>0, ResultStays DEF ResultsInv
    <2>7. KeepsTruth /\ ResultsInv'
        BY <2>4, <2>6, <2>5, NoNewKeepsTruth DEF ResultsInv, SameResult
    <2>8. eng' = [eng EXCEPT ![r].res[n] = "waiting"]
        BY <1>5 DEF AttachApproval
    <2>9. "waiting" \notin {"ok", "asking", "rejected"}
        OBVIOUS
    <2> QED
        BY <2>7, <2>8, <2>9, <1>0, ResultSet
<1> QED
    BY <1>2, <1>3, <1>4, <1>5

\* The task of a decision, before it looks for runs, changes its own request
\* alone.
LEMMA OwnRequest ==
    ASSUME TypeOK, RecordInv, NEW q \in Requests, UNCHANGED <<row, eng, cancel, ran>>,
           \A x \in Requests \ {q} : req'[x] = req[x] /\ task'[x] = task[x] /\ made'[x] = made[x],
           task'[q].run = task[q].run, task'[q].seen = task[q].seen,
           ResultOf(q)', Grows(q), req[q].status # "none"
    PROVE  RecordInv'
<1>1. \A x \in Requests \ {q} : SameResult(x)
    BY DEF SameResult
<1>2. RanOn
    BY RanSame
<1>3. \A x \in Requests : ResultOf(x)' /\ Grows(x)
    BY <1>1, <1>2, ResultStays DEF RecordInv, ResultsInv
<1>4. KeepsTruth /\ ResultsInv'
    BY <1>1, <1>3, <1>2, NoNewKeepsTruth DEF ResultsInv, SameResult
<1>5. RowsTold' /\ EnginesTold' /\ CancelsTold' /\ TasksTold'
    BY <1>4, RowsStay, EnginesStay, CancelsStay, TasksStay DEF RecordInv
<1> QED
    BY <1>4, <1>5 DEF RecordInv

\* What the assignments of a task leave of its fields.
LEMMA TaskFields ==
    ASSUME NEW t \in Task, NEW p, NEW v
    PROVE  /\ LET u == [t EXCEPT !.pc = p]
              IN u.pc = p /\ u.run = t.run /\ u.seen = t.seen /\ u.out = t.out
           /\ LET u == [t EXCEPT !.pc = p, !.out = v]
              IN u.pc = p /\ u.run = t.run /\ u.seen = t.seen /\ u.out = v
           /\ LET u == [t EXCEPT !.pc = p, !.left = v]
              IN u.pc = p /\ u.run = t.run /\ u.seen = t.seen /\ u.out = t.out
           /\ LET u == [t EXCEPT !.left = v]
              IN u.pc = t.pc /\ u.run = t.run /\ u.seen = t.seen /\ u.out = t.out
BY DEF Task

\* The same request: nothing but its claim, its script or its result differs.
SameCall(x, y) == x.status = y.status /\ x.kind = y.kind /\ x.call = y.call /\ x.run = y.run

LEMMA RecordDecide ==
    ASSUME TypeOK, OnceInv, RecordInv, NEW q \in Requests, NEW d \in {"approved", "refused"}, Decide(q, d)
    PROVE  RecordInv'
<1>0. /\ req \in [Requests -> Request] /\ req[q] \in Request
      /\ task \in [Requests -> Task] /\ task[q] \in Task
      /\ ResultOf(q) /\ req[q].status = "pending"
    BY DEF TypeOK, RecordInv, ResultsInv, Decide
<1>1. /\ UNCHANGED <<row, eng, cancel, made, ran>>
      /\ req'[q] = [req[q] EXCEPT !.status = d]
      /\ task'[q] = [task[q] EXCEPT !.pc = Listener(q, d)]
      /\ \A x \in Requests \ {q} : req'[x] = req[x] /\ task'[x] = task[x] /\ made'[x] = made[x]
    BY <1>0 DEF Decide
<1>2. /\ req'[q].status = d /\ req'[q].kind = req[q].kind /\ req'[q].call = req[q].call
      /\ req'[q].run = req[q].run /\ req'[q].result = req[q].result
    BY <1>0, <1>1 DEF Request
<1>3. /\ task'[q].run = task[q].run /\ task'[q].seen = task[q].seen
      /\ task'[q].pc \in {"settle", "claim_call", "find"}
    BY <1>0, <1>1, TaskFields DEF Listener
<1>4. req[q].result # "ok"
    BY <1>0 DEF ResultOf, WorkedFor
<1>5. ResultOf(q)'
    BY <1>0, <1>1, <1>2, <1>3, <1>4 DEF ResultOf
<1>6. Grows(q)
    BY <1>0, <1>2 DEF Grows, WorkedFor, RefusedFor
<1> QED
    BY <1>0, <1>1, <1>3, <1>5, <1>6, OwnRequest

LEMMA RecordCalls ==
    ASSUME TypeOK, OnceInv, RecordInv, NEW q \in Requests,
           \/ ClaimCall(q) \/ MakeCall(q) \/ KeepResult(q) \/ SettleSet(q) \/ ApplyChange(q) \/ KeepSet(q)
    PROVE  RecordInv'
<1>0. /\ req \in [Requests -> Request] /\ req[q] \in Request
      /\ task \in [Requests -> Task] /\ task[q] \in Task
      /\ made \in [Requests -> Nat] /\ made[q] \in Nat
      /\ req[q].kind \in {"tool_call", "code"}
      /\ OnceOf(q) /\ ResultOf(q)
    BY DEF TypeOK, Request, OnceInv, RecordInv, ResultsInv
<1>1. /\ UNCHANGED <<row, eng, cancel, ran>>
      /\ \A x \in Requests \ {q} : req'[x] = req[x] /\ task'[x] = task[x] /\ made'[x] = made[x]
    BY <1>0 DEF ClaimCall, MakeCall, KeepResult, SettleSet, ToResume, ApplyChange, KeepSet
<1>2. task[q].pc \notin Kept
    BY DEF ClaimCall, MakeCall, KeepResult, SettleSet, ApplyChange, KeepSet, Kept
<1>3. req[q].result # "ok" /\ req[q].status # "none" /\ ran' = ran
    BY <1>0, <1>1, <1>2 DEF ResultOf, OnceOf, ClaimCall, MakeCall, KeepResult, SettleSet, ApplyChange, KeepSet
<1>4. SUFFICES task'[q].run = task[q].run /\ task'[q].seen = task[q].seen /\ ResultOf(q)' /\ Grows(q)
    BY <1>1, <1>3, OwnRequest
<1>5. CASE ClaimCall(q)
    <2>1. PICK p \in {"done", "call"} : task'[q] = [task[q] EXCEPT !.pc = p]
        BY <1>5, <1>0 DEF ClaimCall
    <2>2. task'[q].pc = p /\ task'[q].run = task[q].run /\ task'[q].seen = task[q].seen
        BY <1>0, <2>1, TaskFields
    <2>3. made' = made /\ (req'[q] = req[q] \/ req'[q] = [req[q] EXCEPT !.claimed = TRUE])
        BY <1>5, <1>0 DEF ClaimCall
    <2>4. SameCall(req'[q], req[q]) /\ req'[q].result = req[q].result
        <3>1. CASE req'[q] = req[q]
            BY <3>1 DEF SameCall
        <3>2. CASE req'[q] = [req[q] EXCEPT !.claimed = TRUE]
            BY <3>2, <1>0 DEF Request, SameCall
        <3> QED
            BY <2>3, <3>1, <3>2
    <2> QED
        BY <1>0, <1>3, <2>2, <2>3, <2>4 DEF ResultOf, Grows, WorkedFor, RefusedFor, SameCall
<1>6. CASE MakeCall(q)
    <2>1. PICK o : task'[q] = [task[q] EXCEPT !.pc = "keep", !.out = o]
        BY <1>6, <1>0 DEF MakeCall
    <2>2. task'[q].pc = "keep" /\ task'[q].run = task[q].run /\ task'[q].seen = task[q].seen
        BY <1>0, <2>1, TaskFields
    <2>3. req' = req /\ made'[q] = made[q] + 1
        BY <1>6, <1>0 DEF MakeCall
    <2>4. req[q].kind = "tool_call" /\ req[q].status = "approved" /\ made[q] = 0
        BY <1>6, <1>0 DEF MakeCall, OnceOf
    <2> QED
        BY <1>0, <1>3, <2>2, <2>3, <2>4 DEF ResultOf, Grows, WorkedFor, RefusedFor
<1>7. CASE KeepResult(q)
    <2>1. task'[q] = [task[q] EXCEPT !.pc = "find"] /\ req'[q] = [req[q] EXCEPT !.result = task[q].out]
        BY <1>7, <1>0 DEF KeepResult
    <2>2. task'[q].pc = "find" /\ task'[q].run = task[q].run /\ task'[q].seen = task[q].seen
        BY <1>0, <2>1, TaskFields
    <2>3. SameCall(req'[q], req[q]) /\ made' = made
        BY <1>7, <1>0, <2>1 DEF KeepResult, Request, SameCall
    <2>4. req[q].kind = "tool_call" /\ made[q] = 1 /\ req[q].status = "approved"
        BY <1>7, <1>0 DEF KeepResult, ResultOf, OnceOf
    <2> QED
        BY <1>0, <1>3, <2>2, <2>3, <2>4 DEF ResultOf, Grows, WorkedFor, RefusedFor, SameCall, Full, Kept
<1>8. CASE SettleSet(q)
    <2>1. \/ task'[q] = [task[q] EXCEPT !.pc = "next", !.left = {req[q].run}]
          \/ task'[q] = [task[q] EXCEPT !.pc = "apply"]
        BY <1>8, <1>0 DEF SettleSet, ToResume
    <2>2. /\ task'[q].pc \in {"next", "apply"}
          /\ task'[q].run = task[q].run /\ task'[q].seen = task[q].seen
        BY <1>0, <2>1 DEF Task
    <2>3. made' = made /\ (req'[q] = req[q] \/ \E v : req'[q] = [req[q] EXCEPT !.script = v])
        BY <1>8, <1>0 DEF SettleSet
    <2>4. SameCall(req'[q], req[q]) /\ req'[q].result = req[q].result
        <3>1. CASE req'[q] = req[q]
            BY <3>1 DEF SameCall
        <3>2. ASSUME NEW v, req'[q] = [req[q] EXCEPT !.script = v]
              PROVE  SameCall(req'[q], req[q]) /\ req'[q].result = req[q].result
            BY <3>2, <1>0 DEF Request, SameCall
        <3> QED
            BY <2>3, <3>1, <3>2
    <2> QED
        BY <1>0, <1>3, <2>2, <2>3, <2>4 DEF ResultOf, Grows, WorkedFor, RefusedFor, SameCall
<1>9. CASE ApplyChange(q)
    <2>1. req' = req /\ made'[q] = made[q] + 1
        BY <1>9, <1>0 DEF ApplyChange
    <2>2. req[q].kind = "code" /\ req[q].status = "approved" /\ made[q] < Changes /\ Changes \in Nat
        BY <1>9, <1>0, WorkflowAssumption DEF ApplyChange, OnceOf
    <2>3. \/ task' = task
          \/ \E o : /\ task'[q] = [task[q] EXCEPT !.pc = "keep_set", !.out = o]
                    /\ o = "ok" => ~(made[q] + 1 < Changes)
        BY <1>9, <1>0 DEF ApplyChange
    <2>4. CASE task' = task
        <3>1. task[q].pc = "apply"
            BY <1>9 DEF ApplyChange
        <3> QED
            BY <1>0, <1>3, <2>1, <2>2, <2>4, <3>1 DEF ResultOf, Grows, WorkedFor, RefusedFor
    <2>5. ASSUME NEW o, task'[q] = [task[q] EXCEPT !.pc = "keep_set", !.out = o],
                 o = "ok" => ~(made[q] + 1 < Changes)
          PROVE  task'[q].run = task[q].run /\ task'[q].seen = task[q].seen /\ ResultOf(q)' /\ Grows(q)
        <3>1. /\ task'[q].pc = "keep_set" /\ task'[q].out = o
              /\ task'[q].run = task[q].run /\ task'[q].seen = task[q].seen
            BY <1>0, <2>5, TaskFields
        <3>2. o = "ok" => made'[q] = Changes
            BY <1>0, <2>1, <2>2, <2>5
        <3> QED
            BY <1>0, <1>3, <2>1, <2>2, <3>1, <3>2 DEF ResultOf, Grows, WorkedFor, RefusedFor
    <2> QED
        BY <2>3, <2>4, <2>5
<1>10. CASE KeepSet(q)
    <2>1. /\ task'[q] = [task[q] EXCEPT !.pc = "next", !.left = {req[q].run}]
          /\ req'[q] = [req[q] EXCEPT !.script = "approved", !.result = task[q].out] /\ made' = made
        BY <1>10, <1>0 DEF KeepSet, ToResume
    <2>2. task'[q].pc = "next" /\ task'[q].run = task[q].run /\ task'[q].seen = task[q].seen
        BY <1>0, <2>1, TaskFields
    <2>3. SameCall(req'[q], req[q]) /\ req'[q].result = task[q].out
        BY <1>0, <2>1 DEF Request, SameCall
    <2>4. req[q].kind = "code" /\ (task[q].out = "ok" => made[q] = Changes /\ req[q].status = "approved")
        BY <1>10, <1>0, WorkflowAssumption DEF KeepSet, ResultOf, OnceOf
    <2> QED
        BY <1>0, <1>3, <2>1, <2>2, <2>3, <2>4 DEF ResultOf, Grows, WorkedFor, RefusedFor, SameCall, Full, Kept
<1> QED
    BY <1>5, <1>6, <1>7, <1>8, <1>9, <1>10

\* A task that hands the engine a run: what settledHeldCall and settledCodeStep
\* say of a step that waited is what became of its request.
LEMMA PriorTold ==
    ASSUME TypeOK, OnceInv, ResultsInv, NEW r \in Runs, NEW seen, Told(seen.res, r), AskedOf(seen.ask, r)
    PROVE  \A n \in Nodes : /\ Prior(seen)[n] = "ok" => WellDone(r, n)
                            /\ Prior(seen)[n] = "rejected" => Refused(r, n)
<1> SUFFICES ASSUME NEW n \in Nodes
             PROVE  /\ Prior(seen)[n] = "ok" => WellDone(r, n)
                    /\ Prior(seen)[n] = "rejected" => Refused(r, n)
    OBVIOUS
<1>1. CASE seen.ask[n] = NoRequest
    <2>1. Prior(seen)[n] = IF seen.res[n] \in Done THEN seen.res[n] ELSE "todo"
        BY <1>1 DEF Prior
    <2> QED
        BY <2>1 DEF Told, Done
<1>2. CASE seen.ask[n] # NoRequest
    <2> DEFINE q == seen.ask[n]
    <2>1. q \in HeldFor(r, n) /\ q \in Requests
        BY <1>2 DEF AskedOf, HeldFor
    <2>2. Prior(seen)[n] = Settlement(q)
        BY <1>2 DEF Prior
    <2>3. ResultOf(q) /\ OnceOf(q)
        BY <2>1 DEF ResultsInv, OnceInv
    <2> HIDE DEF q
    <2>4. /\ Settlement(q) = "ok" => WorkedFor(q)
          /\ Settlement(q) = "rejected" => req[q].status = "refused"
        BY <2>3 DEF Settlement, ResultOf
    <2>5. req[q].status = "refused" => made[q] = 0
        BY <2>1, <2>3 DEF OnceOf, TypeOK
    <2> QED
        BY <2>1, <2>2, <2>4, <2>5 DEF WellDone, Worked, Refused, RefusedFor
<1> QED
    BY <1>1, <1>2

\* A task only moves on: requests, calls and what it has read stay.
LEMMA TaskMovesOn ==
    ASSUME TypeOK, RecordInv, NEW q \in Requests, UNCHANGED <<req, made, cancel, ran>>,
           \A x \in Requests \ {q} : task'[x] = task[x],
           task'[q].run = task[q].run, task'[q].seen = task[q].seen, task'[q].pc \in Kept
    PROVE  KeepsTruth /\ CancelsTold' /\ TasksTold' /\ ResultsInv'
<1>1. RanOn /\ KeepsTruth
    BY RanSame, SameRequestsKeepTruth
<1>2. CancelsTold' /\ TasksTold'
    BY <1>1, CancelsStay, TasksStay DEF RecordInv
<1>3. ResultsInv'
    BY <1>1, ResultsStay DEF RecordInv
<1> QED
    BY <1>1, <1>2, <1>3

LEMMA RecordRead ==
    ASSUME TypeOK, RecordInv, NEW q \in Requests, NEW r \in Runs,
           UNCHANGED <<row, eng, req, cancel, made, ran>>,
           task' = [task EXCEPT ![q].pc = "check", ![q].left = @ \ {r}, ![q].run = r, ![q].seen = row[r]]
    PROVE  RecordInv'
<1>0. task \in [Requests -> Task] /\ task[q] \in Task
    BY DEF TypeOK
<1>1. /\ task'[q] = [task[q] EXCEPT !.pc = "check", !.left = @ \ {r}, !.run = r, !.seen = row[r]]
      /\ \A x \in Requests \ {q} : task'[x] = task[x]
    BY <1>0
<1>2. task'[q].pc = "check" /\ task'[q].run = r /\ task'[q].seen = row[r]
    BY <1>0, <1>1 DEF Task
<1>3. RanOn /\ KeepsTruth
    BY RanSame, SameRequestsKeepTruth
<1>4. RowsTold' /\ EnginesTold' /\ CancelsTold'
    BY <1>3, RowsStay, EnginesStay, CancelsStay DEF RecordInv
<1>5. Told(row[r].res, r) /\ AskedOf(row[r].ask, r)
    BY DEF RecordInv, RowsTold
<1>6. TasksTold'
    <2>1. ASSUME NEW x \in Requests, NEW y \in Runs, task'[x].run = y
          PROVE  Told(task[x].seen.res, y)' /\ AskedOf(task[x].seen.ask, y)'
        <3>1. CASE x = q
            <4>1. y = r /\ task'[x].seen = row[r]
                BY <1>2, <2>1, <3>1
            <4> QED
                BY <1>3, <1>5, <4>1 DEF Told, AskedOf, KeepsTruth
        <3>2. CASE x # q
            <4>1. task'[x].seen = task[x].seen /\ Told(task[x].seen.res, y) /\ AskedOf(task[x].seen.ask, y)
                BY <1>1, <2>1, <3>2 DEF RecordInv, TasksTold
            <4> QED
                BY <1>3, <4>1 DEF Told, AskedOf, KeepsTruth
        <3> QED
            BY <3>1, <3>2
    <2> QED
        BY <2>1 DEF TasksTold
<1>7. ResultsInv'
    BY <1>1, <1>2, <1>3, ResultsStay DEF RecordInv, Kept
<1> QED
    BY <1>4, <1>6, <1>7 DEF RecordInv

LEMMA RecordResume ==
    ASSUME TypeOK, OnceInv, RecordInv, NEW q \in Requests,
           \/ FindWaiting(q) \/ ReadRun(q) \/ CheckSettled(q) \/ ClaimRun(q)
           \/ EnterEngine(q) \/ ResumeRefused(q) \/ CrashTask(q)
    PROVE  RecordInv'
<1>0. /\ task \in [Requests -> Task] /\ task[q] \in Task /\ task[q].run \in Runs
      /\ task[q].left \in SUBSET Runs /\ eng \in [Runs -> Engine]
    BY DEF TypeOK, Task
<1>1. UNCHANGED <<req, made, cancel, ran>> /\ \A x \in Requests \ {q} : task'[x] = task[x]
    BY <1>0 DEF FindWaiting, ReadRun, CheckSettled, ClaimRun, EnterEngine, ResumeRefused, CrashTask
<1>2. CASE FindWaiting(q) \/ CheckSettled(q) \/ CrashTask(q)
    <2>1. \/ \E S : task'[q] = [task[q] EXCEPT !.pc = "next", !.left = S]
          \/ \E p \in Kept : task'[q] = [task[q] EXCEPT !.pc = p]
        BY <1>0, <1>2 DEF FindWaiting, CheckSettled, CrashTask, Kept
    <2>2. task'[q].run = task[q].run /\ task'[q].seen = task[q].seen /\ task'[q].pc \in Kept
        <3>1. "next" \in Kept
            BY DEF Kept
        <3> QED
            BY <1>0, <2>1, <3>1 DEF Task
    <2>3. KeepsTruth /\ CancelsTold' /\ TasksTold' /\ ResultsInv'
        BY <1>1, <2>2, TaskMovesOn
    <2>4. row' = row /\ eng' = eng
        BY <1>2 DEF FindWaiting, CheckSettled, CrashTask
    <2> QED
        BY <2>3, <2>4, RowsStay, EnginesStay DEF RecordInv
<1>3. CASE ReadRun(q)
    <2>0. row' = row /\ eng' = eng
        BY <1>3 DEF ReadRun
    <2>1. CASE \/ \E p \in Kept : task'[q] = [task[q] EXCEPT !.pc = p]
               \/ \E S : task'[q] = [task[q] EXCEPT !.left = S]
        <3>1. task'[q].run = task[q].run /\ task'[q].seen = task[q].seen /\ task'[q].pc \in Kept
            <4>1. task[q].pc \in Kept
                BY <1>3 DEF ReadRun, Kept
            <4> QED
                BY <1>0, <2>1, <4>1 DEF Task
        <3>2. KeepsTruth /\ CancelsTold' /\ TasksTold' /\ ResultsInv'
            BY <1>1, <3>1, TaskMovesOn
        <3> QED
            BY <2>0, <3>2, RowsStay, EnginesStay DEF RecordInv
    <2>2. ASSUME NEW r \in task[q].left,
                 task' = [task EXCEPT ![q].pc = "check", ![q].left = @ \ {r}, ![q].run = r, ![q].seen = row[r]]
          PROVE  RecordInv'
        BY <1>0, <1>1, <2>0, <2>2, RecordRead
    <2> QED
        BY <1>0, <1>3, <2>1, <2>2 DEF ReadRun, Kept
<1>4. CASE ClaimRun(q) \/ ResumeRefused(q)
    <2>1. PICK p \in Kept : task'[q] = [task[q] EXCEPT !.pc = p]
        BY <1>0, <1>4 DEF ClaimRun, ResumeRefused, Kept
    <2>2. task'[q].run = task[q].run /\ task'[q].seen = task[q].seen /\ task'[q].pc \in Kept
        BY <1>0, <2>1, TaskFields
    <2>3. KeepsTruth /\ CancelsTold' /\ TasksTold' /\ ResultsInv'
        BY <1>1, <2>2, TaskMovesOn
    <2>4. eng' = eng /\ (row' = row \/ \E s : row' = [row EXCEPT ![task[q].run].status = s])
        BY <1>4 DEF ClaimRun, ResumeRefused
    <2>5. RowsTold'
        <3>1. ASSUME NEW s, row' = [row EXCEPT ![task[q].run].status = s] PROVE RowsTold'
            BY <1>0, <2>3, <3>1, StatusSet DEF RecordInv
        <3> QED
            BY <2>3, <2>4, <3>1, RowsStay DEF RecordInv
    <2> QED
        BY <2>3, <2>4, <2>5, EnginesStay DEF RecordInv
<1>5. CASE EnterEngine(q)
    <2>1. task'[q] = [task[q] EXCEPT !.pc = "walk"]
        BY <1>0, <1>5 DEF EnterEngine
    <2>2. task'[q].run = task[q].run /\ task'[q].seen = task[q].seen /\ task'[q].pc \in Kept
        BY <1>0, <2>1, TaskFields DEF Kept
    <2>3. KeepsTruth /\ CancelsTold' /\ TasksTold' /\ ResultsInv'
        BY <1>1, <2>2, TaskMovesOn
    <2>4. PICK r \in Runs : r = task[q].run
        BY <1>0
    <2>5. /\ row' = row /\ eng'[r] = Engaged(Prior(task[q].seen))
          /\ \A x \in Runs \ {r} : eng'[x] = eng[x]
        BY <1>0, <1>5, <2>4 DEF EnterEngine
    <2>6. eng'[r].res = Nothing /\ eng'[r].ask = NoAsks /\ eng'[r].prior = Prior(task[q].seen)
        BY <2>5 DEF Engaged
    <2>7. Told(task[q].seen.res, r) /\ AskedOf(task[q].seen.ask, r)
        BY <2>4 DEF RecordInv, TasksTold
    <2>8. \A n \in Nodes : /\ Prior(task[q].seen)[n] = "ok" => WellDone(r, n)
                           /\ Prior(task[q].seen)[n] = "rejected" => Refused(r, n)
        BY <2>7, PriorTold DEF RecordInv
    <2>9. EnginesTold'
        BY <2>3, <2>5, <2>6, <2>8, EngineStarts DEF RecordInv
    <2> QED
        BY <2>3, <2>5, <2>9, RowsStay DEF RecordInv
<1> QED
    BY <1>2, <1>3, <1>4, <1>5

LEMMA SignalOnly ==
    ASSUME TypeOK, EnginesTold, KeepsTruth, NEW r \in Runs, NEW how, eng' \in {eng, Abort(r, how)}
    PROVE  EnginesTold'
<1>0. eng \in [Runs -> Engine] /\ eng[r] \in Engine
    BY DEF TypeOK
<1>1. LET e == [eng[r] EXCEPT !.signal = how]
      IN e.res = eng[r].res /\ e.ask = eng[r].ask /\ e.prior = eng[r].prior
    BY <1>0 DEF Engine
<1>2. eng' = eng \/ eng' = [eng EXCEPT ![r].signal = how]
    BY DEF Abort
<1>3. \A x \in Runs : eng'[x] = eng[x] \/ (x = r /\ eng'[x] = [eng[r] EXCEPT !.signal = how])
    BY <1>0, <1>2
<1>4. \A x \in Runs : eng'[x].res = eng[x].res /\ eng'[x].ask = eng[x].ask /\ eng'[x].prior = eng[x].prior
    BY <1>1, <1>3
<1> QED
    BY <1>4, EnginesStay

\* A cancel saves the record it read, which is an older and a true one.
LEMMA RecordOthers ==
    ASSUME TypeOK, RecordInv, NEW r \in Runs, Others(r)
    PROVE  RecordInv'
<1>0. /\ row \in [Runs -> Row] /\ row[r] \in Row /\ eng \in [Runs -> Engine]
      /\ cancel \in [Runs -> [pc : {"idle", "save", "done"}, seen : Row]]
    BY DEF TypeOK
<1>1. UNCHANGED <<req, made, ran>>
    BY DEF Others, CancelRead, CancelSave, CancelHeard, Disconnect, Age, Reap, CrashEngine
<1>2. RanOn /\ KeepsTruth
    BY <1>1, RanSame, SameRequestsKeepTruth
<1>3. TasksTold' /\ ResultsInv'
    <2>1. CASE task' = task
        BY <2>1, <1>1, <1>2, TasksStay, ResultsStay DEF RecordInv
    <2>2. CASE CrashEngine(r)
        <3>1. task' = WalkEnds(r, "dead")
            BY <2>2 DEF CrashEngine
        <3>2. \A x \in Requests : /\ task'[x].run = task[x].run /\ task'[x].seen = task[x].seen
                                  /\ task'[x].pc \in {"dead", task[x].pc} /\ task'[x].out = task[x].out
            BY <3>1, WalkEndsKeeps
        <3> QED
            BY <3>2, <1>1, <1>2, TasksStay, ResultsStay DEF RecordInv, Kept
    <2> QED
        BY <2>1, <2>2 DEF Others, CancelRead, CancelSave, CancelHeard, Disconnect, Age, Reap
<1>4. CASE CancelRead(r)
    <2>1. row' = row /\ cancel'[r].seen = row[r] /\ \A x \in Runs \ {r} : cancel'[x] = cancel[x]
        BY <1>0, <1>4 DEF CancelRead
    <2>2. EnginesTold'
        BY <1>2, <1>4, SignalOnly DEF CancelRead, RecordInv
    <2>3. Told(row[r].res, r) /\ AskedOf(row[r].ask, r)
        BY DEF RecordInv, RowsTold
    <2>4. Told(cancel[r].seen.res, r)' /\ AskedOf(cancel[r].seen.ask, r)'
        BY <1>2, <2>1, <2>3 DEF Told, AskedOf, KeepsTruth
    <2>5. \A x \in Runs \ {r} : Told(cancel[x].seen.res, x)' /\ AskedOf(cancel[x].seen.ask, x)'
        BY <1>2, <2>1 DEF RecordInv, CancelsTold, Told, AskedOf, KeepsTruth
    <2>6. CancelsTold'
        BY <2>4, <2>5 DEF CancelsTold
    <2> QED
        BY <1>2, <1>3, <2>1, <2>2, <2>6, RowsStay DEF RecordInv
<1>5. CASE CancelSave(r)
    <2>1. /\ eng' = eng /\ row'[r] = [cancel[r].seen EXCEPT !.status = "cancelled"]
          /\ cancel'[r] = [pc |-> "done", seen |-> NewRow]
          /\ \A x \in Runs \ {r} : row'[x] = row[x] /\ cancel'[x] = cancel[x]
        BY <1>0, <1>5 DEF CancelSave
    <2>2. cancel[r].seen \in Row /\ Told(cancel[r].seen.res, r) /\ AskedOf(cancel[r].seen.ask, r)
        BY <1>0 DEF RecordInv, CancelsTold
    <2>3. row'[r].res = cancel[r].seen.res /\ row'[r].ask = cancel[r].seen.ask
        BY <2>1, <2>2, RowStatusOnly
    <2>4. Told(row[r].res, r)' /\ AskedOf(row[r].ask, r)'
        BY <1>2, <2>2, <2>3 DEF Told, AskedOf, KeepsTruth
    <2>5. cancel'[r].seen.res = Nothing /\ cancel'[r].seen.ask = NoAsks
        BY <2>1 DEF NewRow
    <2>6. \A n \in Nodes : Nothing[n] = "todo" /\ NoAsks[n] = NoRequest
        BY DEF Nothing, NoAsks
    <2>7. Told(cancel[r].seen.res, r)' /\ AskedOf(cancel[r].seen.ask, r)'
        BY <2>5, <2>6 DEF Told, AskedOf
    <2>8. \A x \in Runs \ {r} : Told(cancel[x].seen.res, x)' /\ AskedOf(cancel[x].seen.ask, x)'
        BY <1>2, <2>1 DEF RecordInv, CancelsTold, Told, AskedOf, KeepsTruth
    <2>9. RowsTold' /\ EnginesTold'
        BY <1>2, <2>1, <2>4, RowTold, EnginesStay DEF RecordInv
    <2> QED
        BY <1>3, <2>7, <2>8, <2>9 DEF RecordInv, CancelsTold
<1>6. CASE CancelHeard(r) \/ Disconnect(r)
    <2>1. UNCHANGED <<row, cancel>> /\ \E how : eng' = Abort(r, how)
        BY <1>6 DEF CancelHeard, Disconnect
    <2>2. EnginesTold'
        BY <1>2, <2>1, SignalOnly DEF RecordInv
    <2> QED
        BY <1>2, <1>3, <2>1, <2>2, RowsStay, CancelsStay DEF RecordInv
<1>7. CASE Age(r) \/ Reap(r)
    <2>1. UNCHANGED <<eng, cancel>> /\ (row' = row \/ row' = [row EXCEPT ![r].status = "timeout"])
        BY <1>7 DEF Age, Reap
    <2>2. RowsTold'
        BY <1>2, <2>1, StatusSet, RowsStay DEF RecordInv
    <2> QED
        BY <1>2, <1>3, <2>1, <2>2, EnginesStay, CancelsStay DEF RecordInv
<1>8. CASE CrashEngine(r)
    <2>1. UNCHANGED <<row, cancel>> /\ eng'[r] = Off /\ \A x \in Runs \ {r} : eng'[x] = eng[x]
        BY <1>0, <1>8 DEF CrashEngine
    <2>2. eng'[r].res = Nothing /\ eng'[r].ask = NoAsks /\ eng'[r].prior = Nothing
        BY <2>1 DEF Off, Engaged
    <2>3. \A n \in Nodes : Nothing[n] = "todo"
        BY DEF Nothing
    <2>4. EnginesTold'
        BY <1>2, <2>1, <2>2, <2>3, EngineStarts DEF RecordInv
    <2> QED
        BY <1>2, <1>3, <2>1, <2>4, RowsStay, CancelsStay DEF RecordInv
<1> QED
    BY <1>4, <1>5, <1>6, <1>7, <1>8 DEF Others

LEMMA RecordStep == TypeOK /\ OnceInv /\ RecordInv /\ [Next]_vars => RecordInv'
<1> SUFFICES ASSUME TypeOK, OnceInv, RecordInv, [Next]_vars
             PROVE  RecordInv'
    OBVIOUS
<1>1. CASE UNCHANGED vars
    <2>1. UNCHANGED <<row, eng, req, task, cancel, made, ran>>
        BY <1>1 DEF vars
    <2>2. RanOn /\ KeepsTruth
        BY <2>1, RanSame, SameRequestsKeepTruth
    <2>3. RowsTold' /\ EnginesTold' /\ CancelsTold' /\ TasksTold' /\ ResultsInv'
        BY <2>1, <2>2, RowsStay, EnginesStay, CancelsStay, TasksStay, ResultsStay DEF RecordInv
    <2> QED
        BY <2>3 DEF RecordInv
<1>2. ASSUME NEW r \in Runs, RunStep(r) PROVE RecordInv'
    BY <1>2, RecordLayers, RecordNode DEF RunStep
<1>3. ASSUME NEW q \in Requests, TaskStep(q) \/ CrashTask(q) PROVE RecordInv'
    BY <1>3, RecordCalls, RecordResume DEF TaskStep
<1> QED
    BY <1>1, <1>2, <1>3, RecordOthers, RecordDecide DEF Next

LEMMA RecordAlways == Spec => []RecordInv
<1>1. Spec => []OnceInv
    BY TypeCorrect, OnceInit, OnceStep, PTL DEF Spec
<1> QED
    BY <1>1, TypeCorrect, RecordInit, RecordStep, PTL DEF Spec

\* Whatever the pipeline, the faults and the number of resumes: a Tool call
\* step is recorded with an output only after its approved call was made and
\* worked, and any step as rejected only when a request for it was refused and
\* no call of it made.
THEOREM HeldCallsRecordedTruly == Spec => []CallRecordIsTrue
<1>1. RecordInv => CallRecordIsTrue
    BY DEF RecordInv, RowsTold, Told, WellDone, CallRecordIsTrue
<1> QED
    BY <1>1, RecordAlways, PTL

\* As long as no step of a run has run twice, the whole record is true: for any
\* pipeline, scripts that stage changes included, and any faults.
THEOREM RecordsAreTrue == Spec /\ []StepsRunOnce => []RecordIsTrue
<1>1. TypeOK /\ RecordInv /\ StepsRunOnce => RecordIsTrue
    BY RecordGivesProperty
<1> QED
    BY <1>1, TypeCorrect, RecordAlways, PTL

\* Without Code steps it is true however often a step runs.  (With one, a run
\* resumed twice can run a script again that stages nothing this time, and
\* record its output while the changes of the first time wait.)
THEOREM RecordsAreTrueWithoutScripts ==
    ASSUME \A n \in Nodes : Kind[n] # "code"
    PROVE  Spec => []RecordIsTrue
<1>1. TypeOK /\ RecordInv => RecordIsTrue
    BY RecordGivesProperty
<1> QED
    BY <1>1, TypeCorrect, RecordAlways, PTL
=============================================================================
