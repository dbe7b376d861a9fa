----------------------------- MODULE DurableRun -----------------------------
(***************************************************************************)
(* One autonomous run of almyty: its row in agent_runs, the queue of       *)
(* next-step jobs, the workers that claim it by lease and process its      *)
(* steps, and everyone else who writes the row (cancel, input, approval    *)
(* requests and decisions, the takeover cap, the stuck-run reaper, the     *)
(* exhausted-retry handler).                                               *)
(*                                                                         *)
(* Runs do not share state, so one run is modelled.  A worker is one call  *)
(* of processStep: a job slot of some backend process.  Each writeRun is   *)
(* one transaction under the row lock and so one atomic action; between    *)
(* two of them anything may happen.  Clocks are abstract: a lease lapses   *)
(* and a wake time comes by actions of their own, at any moment.           *)
(***************************************************************************)
EXTENDS Naturals, FiniteSets

CONSTANTS
    Workers,       \* the processStep calls that may be in flight at once
    Tokens,        \* lease tokens (newLeaseToken: unique per claim)
    NoToken,       \* leaseOwner null
    ToolCalls,     \* tool calls an approval policy holds (payload._gate)
    ChangeSets,    \* scripts' change sets (payload.kind = "change_set")
    Requests,      \* request_approval calls of the model
    NoCall,
    MaxSteps,      \* the run's maxSteps ceiling
    MaxTakeovers,  \* RUN_MAX_TAKEOVERS
    MaxAttempts,   \* Bull's attempts of a next-step job
    Collaborates,  \* whether the agent is a collaboration's orchestrator: what a
                   \* step may find, as its owner may change it between steps
    Faults         \* the faults that may happen in this instance

Holdable == ToolCalls \cup ChangeSets
Calls == Holdable \cup Requests

ASSUME TokenAssumption == NoToken \notin Tokens
ASSUME CallAssumption ==
    /\ NoCall \notin Calls
    /\ Holdable \cap Requests = {}
    /\ ToolCalls \cap ChangeSets = {}
ASSUME BoundAssumption ==
    /\ MaxSteps \in Nat
    /\ MaxTakeovers \in Nat \ {0}
    /\ MaxAttempts \in Nat \ {0}
    /\ Collaborates \subseteq BOOLEAN
ASSUME FaultAssumption ==
    Faults \subseteq {"crash", "decider", "stall", "throw", "lose", "age", "impatient"}

VARIABLES
    row,       \* the agent_runs row (see RowType)
    jobs,      \* next-step jobs in the queue
    pc,        \* where each worker's processStep call is
    job,       \* the job each worker is processing
    token,     \* the lease token of each worker's claim
    seen,      \* the lapsed lease a claim's first transaction found
    mem,       \* the run as the worker loaded and changed it
    todo,      \* held or waking calls this step has still to make
    still,     \* calls this step found waking
    gated,     \* calls this step holds or leaves held
    asking,    \* the approval being created: saved, the run not yet paused
    outcome,   \* what the step will return
    approval,  \* each ApprovalRequest's status
    handler,   \* the approval.decided listener, per approval
    resumeAt,  \* the currentStep that listener read
    ran,       \* history: how often each held tool call was made (2 = twice or more)
    reaping    \* the reaper's find returned this run

workerVars == <<pc, job, token, seen, mem, todo, still, gated, asking, outcome>>
vars == <<row, jobs, pc, job, token, seen, mem, todo, still, gated, asking, outcome,
          approval, handler, resumeAt, ran, reaping>>

-----------------------------------------------------------------------------
(* Types.                                                                  *)

Terminal == {"completed", "failed", "cancelled", "timeout"}
Claimable == {"running", "sleeping"}
Statuses == Terminal \cup Claimable \cup {"waiting_input", "waiting_approval"}

TokenOrNone == Tokens \cup {NoToken}

\* lapsed stands for leaseExpiresAt < now, stale for updatedAt < the reaper's
\* cutoff, nextWakeAt for its place against the clock.
RowType == [status : Statuses, currentStep : Nat,
            nextWakeAt : {"none", "due", "later"},
            leaseOwner : TokenOrNone, lapsed : BOOLEAN, takeovers : Nat,
            held : SUBSET Holdable, waking : SUBSET ToolCalls,
            stale : BOOLEAN, delivered : BOOLEAN]

MemType == [status : Statuses, expected : Nat, currentStep : Nat,
            held : SUBSET Holdable, waking : SUBSET ToolCalls]

JobType == [step : Nat, tries : Nat]

\* The pcs inside processLeasedStep, before the commit is reached.
Working == {"loaded", "waking", "settling", "asked", "tools"}
\* The pcs at which the claim's lease is still being renewed.
Leased == Working \cup {"claimed", "commit", "persist", "leaving"}
Outcomes == {"continue", "waiting", "done", "threw"}

NoMem == [status |-> "running", expected |-> 0, currentStep |-> 0,
          held |-> {}, waking |-> {}]
NoSeen == [owner |-> NoToken, takeovers |-> 0]
NoJob == [step |-> 0, tries |-> 0]
Nudge(s) == [step |-> s, tries |-> MaxAttempts]

\* Type invariant.
TypeOK ==
    /\ row \in RowType
    /\ jobs \subseteq JobType
    /\ pc \in [Workers -> Leased \cup Outcomes \cup {"idle", "lapsed", "giveup", "handing"}]
    /\ job \in [Workers -> JobType]
    /\ token \in [Workers -> TokenOrNone]
    /\ seen \in [Workers -> [owner : TokenOrNone, takeovers : Nat]]
    /\ mem \in [Workers -> MemType]
    /\ todo \in [Workers -> SUBSET Holdable]
    /\ still \in [Workers -> SUBSET ToolCalls]
    /\ gated \in [Workers -> SUBSET Holdable]
    /\ asking \in [Workers -> Calls \cup {NoCall}]
    /\ outcome \in [Workers -> Outcomes]
    /\ approval \in [Calls -> {"none", "pending", "approved", "rejected", "expired"}]
    /\ handler \in [Calls -> {"none", "emitted", "read", "over"}]
    /\ resumeAt \in [Calls -> Nat]
    /\ ran \in [ToolCalls -> 0..2]
    /\ reaping \in BOOLEAN

-----------------------------------------------------------------------------
(* writeRun (run-event-writer.ts): a write that sets the status also says  *)
(* when the run next needs a worker, and stamps updatedAt.                 *)

withWake(s) ==
    IF s = "running" THEN "due" ELSE IF s = "sleeping" THEN "later" ELSE "none"

SetStatus(r, s) == [r EXCEPT !.status = s, !.nextWakeAt = withWake(s), !.stale = FALSE]

\* startRun saves the row running and due, then queues the first step; the
\* second may fail after the first.
Init ==
    /\ row = [status |-> "running", currentStep |-> 0, nextWakeAt |-> "due",
              leaseOwner |-> NoToken, lapsed |-> FALSE, takeovers |-> 0,
              held |-> {}, waking |-> {}, stale |-> FALSE, delivered |-> FALSE]
    /\ jobs \in {{Nudge(0)}, {}}
    /\ pc = [w \in Workers |-> "idle"]
    /\ job = [w \in Workers |-> NoJob]
    /\ token = [w \in Workers |-> NoToken]
    /\ seen = [w \in Workers |-> NoSeen]
    /\ mem = [w \in Workers |-> NoMem]
    /\ todo = [w \in Workers |-> {}]
    /\ still = [w \in Workers |-> {}]
    /\ gated = [w \in Workers |-> {}]
    /\ asking = [w \in Workers |-> NoCall]
    /\ outcome = [w \in Workers |-> "done"]
    /\ approval = [c \in Calls |-> "none"]
    /\ handler = [c \in Calls |-> "none"]
    /\ resumeAt = [c \in Calls |-> 0]
    /\ ran = [c \in ToolCalls |-> 0]
    /\ reaping = FALSE

\* The worker's call of processStep is over, or gone: nothing of it is left
\* but its pc p and the job j it was for.
Leave(w, p, j) ==
    /\ pc' = [pc EXCEPT ![w] = p]
    /\ job' = [job EXCEPT ![w] = j]
    /\ token' = [token EXCEPT ![w] = NoToken]
    /\ seen' = [seen EXCEPT ![w] = NoSeen]
    /\ mem' = [mem EXCEPT ![w] = NoMem]
    /\ todo' = [todo EXCEPT ![w] = {}]
    /\ still' = [still EXCEPT ![w] = {}]
    /\ gated' = [gated EXCEPT ![w] = {}]
    /\ asking' = [asking EXCEPT ![w] = NoCall]
    /\ outcome' = [outcome EXCEPT ![w] = "done"]

-----------------------------------------------------------------------------
(* The claim (claimRun, run-lease.ts).                                     *)

\* The where of both claim transactions.
Due(s) ==
    /\ row.status \in Claimable
    /\ row.nextWakeAt # "later"
    /\ row.leaseOwner = NoToken \/ row.lapsed
    /\ row.currentStep = s

Fresh(t) ==
    /\ t # row.leaseOwner
    /\ \A w \in Workers : t # token[w] /\ t # seen[w].owner

\* The first transaction finds the lease free and takes it.
ClaimFree(w, j) ==
    /\ pc[w] = "idle"
    /\ j \in jobs
    /\ Due(j.step)
    /\ row.leaseOwner = NoToken
    /\ \E t \in Tokens :
        /\ Fresh(t)
        /\ row' = [row EXCEPT !.leaseOwner = t, !.lapsed = FALSE]
        /\ token' = [token EXCEPT ![w] = t]
    /\ jobs' = jobs \ {j}
    /\ job' = [job EXCEPT ![w] = j]
    /\ pc' = [pc EXCEPT ![w] = "claimed"]
    /\ UNCHANGED <<seen, mem, todo, still, gated, asking, outcome,
                   approval, handler, resumeAt, ran, reaping>>

\* The first transaction finds a lapsed lease: it writes nothing and
\* remembers whose it was.
FindLapsed(w, j) ==
    /\ pc[w] = "idle"
    /\ j \in jobs
    /\ Due(j.step)
    /\ row.leaseOwner # NoToken
    /\ seen' = [seen EXCEPT ![w] = [owner |-> row.leaseOwner, takeovers |-> row.takeovers]]
    /\ jobs' = jobs \ {j}
    /\ job' = [job EXCEPT ![w] = j]
    /\ pc' = [pc EXCEPT ![w] = "lapsed"]
    /\ UNCHANGED <<row, token, mem, todo, still, gated, asking, outcome,
                   approval, handler, resumeAt, ran, reaping>>

\* whyNotClaimed: a finished run is "done" (handed on), any other "held"
\* (the job has nothing to do).
Refused_AsReason == IF row.status \in Terminal THEN "done" ELSE "held" \* mutant
Refused == IF row.status \in Terminal THEN "done" ELSE "idle"

NotClaimed(w, j) ==
    /\ pc[w] = "idle"
    /\ j \in jobs
    /\ ~Due(j.step)
    /\ jobs' = jobs \ {j}
    /\ Leave(w, Refused, NoJob)
    /\ UNCHANGED <<row, approval, handler, resumeAt, ran, reaping>>

\* The second transaction, fenced on the lease that lapsed.
StillLapsed_AnyOwner(w) == Due(job[w].step) \* mutant
StillLapsed(w) == Due(job[w].step) /\ row.leaseOwner = seen[w].owner

AtCap(w) == seen[w].takeovers + 1 >= MaxTakeovers

TakeOver(w) ==
    /\ pc[w] = "lapsed"
    /\ StillLapsed(w)
    /\ ~AtCap(w)
    /\ \E t \in Tokens :
        /\ Fresh(t)
        /\ row' = [row EXCEPT !.leaseOwner = t, !.lapsed = FALSE, !.stale = FALSE,
                              !.takeovers = seen[w].takeovers + 1]
        /\ token' = [token EXCEPT ![w] = t]
    /\ seen' = [seen EXCEPT ![w] = NoSeen]
    /\ pc' = [pc EXCEPT ![w] = "claimed"]
    /\ UNCHANGED <<jobs, job, mem, todo, still, gated, asking, outcome,
                   approval, handler, resumeAt, ran, reaping>>

\* The takeover that reaches the cap fails the run instead.
StopAtCap(w) ==
    /\ pc[w] = "lapsed"
    /\ StillLapsed(w)
    /\ AtCap(w)
    /\ row' = [SetStatus(row, "failed") EXCEPT
                  !.leaseOwner = NoToken, !.lapsed = FALSE,
                  !.takeovers = seen[w].takeovers + 1]
    /\ Leave(w, "done", NoJob)
    /\ UNCHANGED <<jobs, approval, handler, resumeAt, ran, reaping>>

LostTakeover(w) ==
    /\ pc[w] = "lapsed"
    /\ ~StillLapsed(w)
    /\ Leave(w, Refused, NoJob)
    /\ UNCHANGED <<row, jobs, approval, handler, resumeAt, ran, reaping>>

-----------------------------------------------------------------------------
(* Holding the lease (holdLease).  A renewal checks the owner only, so a   *)
(* holder whose lease lapsed and was not taken over gets it back.          *)

Renew(w) ==
    /\ pc[w] \in Leased
    /\ row.leaseOwner = token[w]
    /\ row.lapsed
    /\ row' = [row EXCEPT !.lapsed = FALSE]
    /\ UNCHANGED <<jobs, workerVars, approval, handler, resumeAt, ran, reaping>>

\* Let go when the step returns or throws; a release that fails leaves the
\* lease to lapse.
Release(w) ==
    /\ pc[w] = "leaving"
    /\ \/ row' = IF row.leaseOwner = token[w]
                   THEN [row EXCEPT !.leaseOwner = NoToken, !.lapsed = FALSE]
                   ELSE row
       \/ "throw" \in Faults /\ row' = row
    /\ Leave(w, outcome[w], job[w])
    /\ UNCHANGED <<jobs, approval, handler, resumeAt, ran, reaping>>

-----------------------------------------------------------------------------
(* The step (processLeasedStep).  The row is loaded after the claim and    *)
(* worked on in memory; nothing of it is written until the commit.         *)

OutsideVars == <<approval, handler, resumeAt, ran, reaping>>

Load(w) ==
    /\ pc[w] = "claimed"
    /\ row.status \notin Terminal
    /\ mem' = [mem EXCEPT ![w] =
                 [status |-> IF row.status = "sleeping" THEN "running" ELSE row.status,
                  expected |-> row.currentStep, currentStep |-> row.currentStep,
                  held |-> row.held, waking |-> row.waking]]
    /\ pc' = [pc EXCEPT ![w] = "loaded"]
    /\ UNCHANGED <<row, jobs, job, token, seen, todo, still, gated, asking, outcome, OutsideVars>>

\* The worker ends its step with outcome o and nothing to commit.
Return(w, o) ==
    /\ pc' = [pc EXCEPT ![w] = "leaving"]
    /\ outcome' = [outcome EXCEPT ![w] = o]
    /\ UNCHANGED <<row, jobs, job, token, seen, mem, todo, still, gated, asking, OutsideVars>>

LoadDone(w) == pc[w] = "claimed" /\ row.status \in Terminal /\ Return(w, "done")

\* The database or the queue is unreachable: the job fails and Bull retries it.
Throw(w) ==
    /\ "throw" \in Faults
    /\ pc[w] \in {"claimed", "loaded", "commit", "persist"}
    /\ Return(w, "threw")

\* The worker has its in-memory run as it wants it: step number s, status st,
\* held calls h and waking calls k; commitStep comes next.
ToWrite(w, p, st, s, h, k, o) ==
    /\ mem' = [mem EXCEPT ![w] = [status |-> st, expected |-> mem[w].expected,
                                  currentStep |-> s, held |-> h, waking |-> k]]
    /\ pc' = [pc EXCEPT ![w] = p]
    /\ outcome' = [outcome EXCEPT ![w] = o]
    /\ UNCHANGED <<row, jobs, job, token, seen, todo, still, gated, asking, OutsideVars>>

ToCommit(w, st, s, h, k, o) == ToWrite(w, "commit", st, s, h, k, o)

NextStep(w) == mem[w].expected + 1

\* A ceiling tripped, the scope was revoked, the tool-call budget ran out or
\* the step threw inside its try: the run fails, its step number unchanged.
\* At maxSteps it cannot do anything else.
StepFails(w) ==
    /\ pc[w] \in Working
    /\ asking[w] = NoCall
    /\ ToCommit(w, "failed", mem[w].expected, mem[w].held, mem[w].waking, "done")

WithinLimits(w) == pc[w] = "loaded" /\ mem[w].expected < MaxSteps

Begin(w, p, calls) ==
    /\ pc' = [pc EXCEPT ![w] = p]
    /\ todo' = [todo EXCEPT ![w] = calls]
    /\ UNCHANGED <<row, jobs, job, token, seen, mem, still, gated, asking, outcome, OutsideVars>>

\* An orchestrator runs its participants and is over: completed, or failed
\* by an error or the collaboration's cost limit.
Collaborate(w) ==
    /\ WithinLimits(w)
    /\ TRUE \in Collaborates
    /\ \/ ToWrite(w, "persist", "completed", NextStep(w), mem[w].held, mem[w].waking, "done")
       \/ ToWrite(w, "persist", "failed", mem[w].expected, mem[w].held, mem[w].waking, "done")

\* Any other run makes its waking calls first, then the held ones, and only
\* then asks the model.
OwnWork(w) == WithinLimits(w) /\ FALSE \in Collaborates
RetryWaking(w) == OwnWork(w) /\ mem[w].waking # {} /\ Begin(w, "waking", mem[w].waking)
RunApproved(w) == /\ OwnWork(w) /\ mem[w].waking = {} /\ mem[w].held # {}
                  /\ Begin(w, "settling", mem[w].held)
AskModel(w) == OwnWork(w) /\ mem[w].waking = {} /\ mem[w].held = {} /\ Begin(w, "asked", {})

-----------------------------------------------------------------------------
(* Approvals created by a step (ApprovalsService.create).  The request is  *)
(* saved, and visible to its approvers, in one transaction; the run is     *)
(* paused in the next, whatever its status is by then and whoever holds    *)
(* it.  A request that exists already for the call is returned as it is.   *)

CreateApproval(w, c) ==
    /\ asking[w] = NoCall
    /\ approval[c] = "none"
    /\ approval' = [approval EXCEPT ![c] = "pending"]
    /\ asking' = [asking EXCEPT ![w] = c]
    /\ todo' = [todo EXCEPT ![w] = @ \ {c}]
    /\ UNCHANGED <<row, jobs, pc, job, token, seen, mem, still, gated, outcome,
                   handler, resumeAt, ran, reaping>>

\* The pause.  A held call is kept for the step's end; request_approval ends
\* the step here.
PauseRun(w) ==
    /\ asking[w] # NoCall
    /\ row' = SetStatus(row, "waiting_approval")
    /\ asking' = [asking EXCEPT ![w] = NoCall]
    /\ \/ /\ asking[w] \in Holdable
          /\ gated' = [gated EXCEPT ![w] = @ \cup {asking[w]}]
          /\ UNCHANGED <<pc, mem, outcome>>
       \/ /\ asking[w] \in Requests
          /\ mem' = [mem EXCEPT ![w] = [@ EXCEPT !.status = "waiting_approval",
                                                 !.currentStep = NextStep(w)]]
          /\ pc' = [pc EXCEPT ![w] = "commit"]
          /\ outcome' = [outcome EXCEPT ![w] = "waiting"]
          /\ UNCHANGED gated
    /\ UNCHANGED <<jobs, job, token, seen, todo, still, OutsideVars>>

-----------------------------------------------------------------------------
(* Calls that found their hosted machine starting (retryWakingCalls).      *)

WakingCall(w, c) == pc[w] = "waking" /\ asking[w] = NoCall /\ c \in todo[w]

StillWaking(w, c) ==
    /\ WakingCall(w, c)
    /\ todo' = [todo EXCEPT ![w] = @ \ {c}]
    /\ still' = [still EXCEPT ![w] = @ \cup {c}]
    /\ UNCHANGED <<row, jobs, pc, job, token, seen, mem, gated, asking, outcome, OutsideVars>>

WakingMade(w, c) ==
    /\ WakingCall(w, c)
    /\ todo' = [todo EXCEPT ![w] = @ \ {c}]
    /\ UNCHANGED <<row, jobs, pc, job, token, seen, mem, still, gated, asking, outcome, OutsideVars>>

\* A policy holds it: its approval is created, or one it already has (from an
\* attempt whose worker died) is returned, and the run is then not paused.
WakingHeld(w, c) == WakingCall(w, c) /\ CreateApproval(w, c)

WakingHeldAgain(w, c) ==
    /\ WakingCall(w, c)
    /\ approval[c] # "none"
    /\ todo' = [todo EXCEPT ![w] = @ \ {c}]
    /\ gated' = [gated EXCEPT ![w] = @ \cup {c}]
    /\ UNCHANGED <<row, jobs, pc, job, token, seen, mem, still, asking, outcome, OutsideVars>>

EndWaking(w) ==
    /\ pc[w] = "waking"
    /\ asking[w] = NoCall
    /\ todo[w] = {}
    /\ LET st == IF gated[w] # {} THEN "waiting_approval"
                 ELSE IF still[w] # {} THEN "sleeping" ELSE mem[w].status
       IN ToCommit(w, st, NextStep(w), mem[w].held \cup gated[w], still[w],
                   IF gated[w] \cup still[w] # {} THEN "waiting" ELSE "continue")

\* The machine failed to start: failForMachine, from either loop.
MachineFails(w) ==
    /\ asking[w] = NoCall
    /\ \/ /\ pc[w] = "waking"
          /\ ToCommit(w, "failed", NextStep(w), mem[w].held \cup gated[w], {}, "done")
       \/ /\ pc[w] = "tools"
          /\ ToCommit(w, "failed", NextStep(w), mem[w].held, mem[w].waking, "done")

-----------------------------------------------------------------------------
(* The step after a decision (runApprovedCalls).                           *)

HeldCall(w, c) == pc[w] = "settling" /\ c \in todo[w]

\* Approved, the call is made; a change set is settled by any decision.
HeldCallMade(w, c) ==
    /\ HeldCall(w, c)
    /\ \/ c \in ToolCalls /\ approval[c] = "approved"
       \/ c \in ChangeSets /\ approval[c] # "pending"
    /\ ran' = [d \in ToolCalls |-> IF d = c /\ ran[d] < 2 THEN ran[d] + 1 ELSE ran[d]]
    /\ todo' = [todo EXCEPT ![w] = @ \ {c}]
    /\ UNCHANGED <<row, jobs, pc, job, token, seen, mem, still, gated, asking, outcome,
                   approval, handler, resumeAt, reaping>>

HeldCallWaits(w, c) ==
    /\ HeldCall(w, c)
    /\ \/ c \in ToolCalls /\ approval[c] # "approved"
       \/ c \in ChangeSets /\ approval[c] = "pending"
    /\ todo' = [todo EXCEPT ![w] = @ \ {c}]
    /\ gated' = [gated EXCEPT ![w] = @ \cup {c}]
    /\ UNCHANGED <<row, jobs, pc, job, token, seen, mem, still, asking, outcome, OutsideVars>>

EndSettling_Keeps(w) == \* mutant
    /\ pc[w] = "settling"
    /\ todo[w] = {}
    /\ IF gated[w] # {}
       THEN ToCommit(w, "waiting_approval", NextStep(w), gated[w], {}, "waiting")
       ELSE ToCommit(w, mem[w].status, NextStep(w), mem[w].held, {}, "continue")
EndSettling(w) ==
    /\ pc[w] = "settling"
    /\ todo[w] = {}
    /\ IF gated[w] # {}
       THEN ToCommit(w, "waiting_approval", NextStep(w), gated[w], {}, "waiting")
       ELSE ToCommit(w, mem[w].status, NextStep(w), {}, {}, "continue")

-----------------------------------------------------------------------------
(* The model's reply and its tool calls.                                   *)

\* abandonIfTerminal: the model has answered; look at the row before a tool
\* runs.  (What it then writes, the call's cost, is not modelled.)
Abandon(w) == pc[w] = "asked" /\ row.status \in Terminal /\ Return(w, "done")
Reply(w) == pc[w] = "asked" /\ row.status \notin Terminal /\ Begin(w, "tools", {})

InReply(w) == pc[w] = "tools" /\ asking[w] = NoCall

\* A call of the reply that a policy holds, a change set, or request_approval.
\* A new reply has new call ids, so no approval exists for it.
AskPerson(w, c) == InReply(w) /\ c \notin still[w] /\ CreateApproval(w, c)

\* A call of the reply whose hosted machine is still starting.
FindWaking(w, c) ==
    /\ InReply(w)
    /\ approval[c] = "none"
    /\ still' = [still EXCEPT ![w] = @ \cup {c}]
    /\ UNCHANGED <<row, jobs, pc, job, token, seen, mem, todo, gated, asking, outcome, OutsideVars>>

\* wait and ask_user commit and return at once, in the middle of the reply:
\* what the reply has gated or found waking so far is not recorded.
Sleep(w) == InReply(w) /\ ToCommit(w, "sleeping", NextStep(w), mem[w].held, mem[w].waking, "waiting")
AskUser(w) == InReply(w) /\ ToCommit(w, "waiting_input", NextStep(w), mem[w].held, mem[w].waking, "waiting")

\* The reply's calls are all made, held or waking.
WaitForApproval(w) ==
    /\ InReply(w) /\ gated[w] # {}
    /\ ToCommit(w, "waiting_approval", NextStep(w), gated[w], still[w], "waiting")
SleepForMachine(w) ==
    /\ InReply(w) /\ gated[w] = {} /\ still[w] # {}
    /\ ToCommit(w, "sleeping", NextStep(w), {}, still[w], "waiting")
Continue(w) ==
    /\ InReply(w) /\ gated[w] = {} /\ still[w] = {}
    /\ ToCommit(w, mem[w].status, NextStep(w), {}, {}, "continue")
\* No tool call: the final answer.
Answer(w) ==
    /\ InReply(w) /\ gated[w] = {} /\ still[w] = {}
    /\ ToCommit(w, "completed", NextStep(w), {}, {}, "done")

-----------------------------------------------------------------------------
(* commitStep: one write of the whole in-memory run, guarded on the step   *)
(* number, on a status that is not final and on the lease.                 *)

MayCommit_NoFence(w) == row.currentStep = mem[w].expected /\ row.status \notin Terminal \* mutant
MayCommit_StatusOnly(w) == row.status \notin Terminal \* mutant
MayCommit_AnyStatus(w) == row.currentStep = mem[w].expected /\ row.leaseOwner = token[w] \* mutant
MayCommit(w) ==
    /\ row.currentStep = mem[w].expected
    /\ row.status \notin Terminal
    /\ row.leaseOwner = token[w]

\* The row with the worker's copy of the run written over it (runStateOf).
Written(w) == [SetStatus(row, mem[w].status) EXCEPT
                  !.currentStep = mem[w].currentStep, !.held = mem[w].held,
                  !.waking = mem[w].waking, !.takeovers = 0]

Commit(w) ==
    /\ pc[w] = "commit"
    /\ MayCommit(w)
    /\ row' = Written(w)
    /\ pc' = [pc EXCEPT ![w] = "leaving"]
    /\ UNCHANGED <<jobs, job, token, seen, mem, todo, still, gated, asking, outcome, OutsideVars>>

CommitFenced(w) == pc[w] = "commit" /\ ~MayCommit(w) /\ Return(w, "done")

\* The collaboration's write is guarded on the lease alone.
Persist(w) ==
    /\ pc[w] = "persist"
    /\ row' = IF row.leaseOwner = token[w] THEN Written(w) ELSE row
    /\ pc' = [pc EXCEPT ![w] = "leaving"]
    /\ UNCHANGED <<jobs, job, token, seen, mem, todo, still, gated, asking, outcome, OutsideVars>>

\* A completion that could not be written is caught, and written as a failure.
PersistFails(w) ==
    /\ "throw" \in Faults
    /\ pc[w] = "persist" /\ mem[w].status = "completed"
    /\ mem' = [mem EXCEPT ![w] = [@ EXCEPT !.status = "failed"]]
    /\ UNCHANGED <<row, jobs, pc, job, token, seen, todo, still, gated, asking, outcome, OutsideVars>>

-----------------------------------------------------------------------------
(* After the lease is let go (handleNextStep, queueWake, onFailed).        *)

\* "continue": the next step's job names the step, read after the commit.
EnqueueNext(w) ==
    /\ pc[w] = "continue"
    /\ jobs' = jobs \cup {Nudge(row.currentStep)}
    /\ Leave(w, "idle", NoJob)
    /\ UNCHANGED <<row, OutsideVars>>

EnqueueFails(w) ==
    /\ "throw" \in Faults
    /\ pc[w] = "continue"
    /\ Leave(w, "threw", job[w])
    /\ UNCHANGED <<row, jobs, OutsideVars>>

\* "waiting": a run left asleep has its wake queued.
QueueWake(w) ==
    /\ pc[w] = "waiting"
    /\ jobs' = IF row.status = "sleeping" THEN jobs \cup {Nudge(row.currentStep)} ELSE jobs
    /\ Leave(w, "idle", NoJob)
    /\ UNCHANGED <<row, OutsideVars>>

\* "done": finished() reads the run and, if it is over, claims its result by
\* deliveredAt to hand it on.  The step that says "done" may be one that was
\* fenced out of a run that goes on.
MayHandOn_AnyStatus == TRUE \* mutant
MayHandOn == row.status \in Terminal

HandOn(w) ==
    /\ pc[w] = "done"
    /\ Leave(w, IF MayHandOn THEN "handing" ELSE "idle", NoJob)
    /\ UNCHANGED <<row, jobs, OutsideVars>>

claimDelivery(w) ==
    /\ pc[w] = "handing"
    /\ row' = IF row.delivered THEN row ELSE [row EXCEPT !.delivered = TRUE, !.stale = FALSE]
    /\ Leave(w, "idle", NoJob)
    /\ UNCHANGED <<jobs, OutsideVars>>

\* Bull runs a failed job again until its attempts are used up.
RetryJob(w) ==
    /\ pc[w] = "threw"
    /\ job[w].tries > 1
    /\ jobs' = jobs \cup {[step |-> job[w].step, tries |-> job[w].tries - 1]}
    /\ Leave(w, "idle", NoJob)
    /\ UNCHANGED <<row, OutsideVars>>

\* recordExhaustedRetries: the status is read, then written over if it is
\* still the one read.  Not fenced: another worker may hold the run.
ReadExhausted(w) ==
    /\ pc[w] = "threw"
    /\ job[w].tries <= 1
    /\ \/ /\ row.status \in Terminal
          /\ Leave(w, "idle", NoJob)
       \/ /\ row.status \notin Terminal
          /\ pc' = [pc EXCEPT ![w] = "giveup"]
          /\ mem' = [mem EXCEPT ![w] = [@ EXCEPT !.status = row.status]]
          /\ UNCHANGED <<job, token, seen, todo, still, gated, asking, outcome>>
    /\ UNCHANGED <<row, jobs, OutsideVars>>

RecordExhausted(w) ==
    /\ pc[w] = "giveup"
    /\ \/ /\ row.status = mem[w].status
          /\ row' = SetStatus(row, "failed")
          /\ Leave(w, "done", NoJob)
       \/ /\ row.status # mem[w].status
          /\ row' = row
          /\ Leave(w, "idle", NoJob)
    /\ UNCHANGED <<jobs, OutsideVars>>

-----------------------------------------------------------------------------
(* The other writers of the row.                                           *)

CancelRun ==
    /\ row.status \notin Terminal
    /\ row' = SetStatus(row, "cancelled")
    /\ UNCHANGED <<jobs, workerVars, OutsideVars>>

\* waitForRun: a parent's patience with a child run ends.
WaitTimesOut ==
    /\ "impatient" \in Faults
    /\ TRUE \notin Collaborates \* a child run is no orchestrator
    /\ row.status \notin Terminal
    /\ row' = SetStatus(row, "timeout")
    /\ UNCHANGED <<jobs, workerVars, OutsideVars>>

SendInput ==
    /\ row.status = "waiting_input"
    /\ row' = SetStatus(row, "running")
    /\ jobs' = jobs \cup {Nudge(row.currentStep)}
    /\ UNCHANGED <<workerVars, OutsideVars>>

\* decide() and sweepExpired(): the flip of a pending request, and the event.
Decide(c, d) ==
    /\ approval[c] = "pending"
    /\ approval' = [approval EXCEPT ![c] = d]
    /\ handler' = [handler EXCEPT ![c] = "emitted"]
    /\ UNCHANGED <<row, jobs, workerVars, resumeAt, ran, reaping>>

\* handleApprovalDecided reads the run and does nothing unless it waits ...
ReadDecided(c) ==
    /\ handler[c] = "emitted"
    /\ \/ /\ row.status = "waiting_approval"
          /\ handler' = [handler EXCEPT ![c] = "read"]
          /\ resumeAt' = [resumeAt EXCEPT ![c] = row.currentStep]
       \/ /\ row.status # "waiting_approval"
          /\ handler' = [handler EXCEPT ![c] = "over"]
          /\ UNCHANGED resumeAt
    /\ UNCHANGED <<row, jobs, workerVars, approval, ran, reaping>>

Resumes(c) == approval[c] = "approved" \/ c \in ChangeSets

ApplyDecided_ApprovedOnly(c) == \* mutant
    /\ handler[c] = "read"
    /\ handler' = [handler EXCEPT ![c] = "over"]
    /\ resumeAt' = [resumeAt EXCEPT ![c] = 0]
    /\ \/ /\ row.status = "waiting_approval"
          /\ approval[c] = "approved"
          /\ row' = SetStatus(row, "running")
          /\ jobs' = jobs \cup {Nudge(resumeAt[c])}
       \/ /\ row.status # "waiting_approval" \/ approval[c] # "approved"
          /\ UNCHANGED <<row, jobs>>
    /\ UNCHANGED <<workerVars, approval, ran, reaping>>

\* ... then resumes or cancels it, if it waits still.
ApplyDecided(c) ==
    /\ handler[c] = "read"
    /\ handler' = [handler EXCEPT ![c] = "over"]
    /\ resumeAt' = [resumeAt EXCEPT ![c] = 0]
    /\ \/ /\ row.status = "waiting_approval"
          /\ Resumes(c)
          /\ row' = SetStatus(row, "running")
          /\ jobs' = jobs \cup {Nudge(resumeAt[c])}
       \/ /\ row.status = "waiting_approval"
          /\ ~Resumes(c)
          /\ row' = SetStatus(row, "cancelled")
          /\ UNCHANGED jobs
       \/ row.status # "waiting_approval" /\ UNCHANGED <<row, jobs>>
    /\ UNCHANGED <<workerVars, approval, ran, reaping>>

\* The reaper finds a running run nobody wrote for the stale window, and ends
\* it later if it is still running.
ReaperFinds ==
    /\ row.status = "running"
    /\ row.stale
    /\ reaping' = TRUE
    /\ UNCHANGED <<row, jobs, workerVars, approval, handler, resumeAt, ran>>

Reap ==
    /\ reaping
    /\ reaping' = FALSE
    /\ row' = IF row.status = "running" THEN SetStatus(row, "timeout") ELSE row
    /\ UNCHANGED <<jobs, workerVars, approval, handler, resumeAt, ran>>

WakeSweep_FreeOnly == \* mutant
    /\ Due(row.currentStep)
    /\ row.leaseOwner = NoToken
    /\ jobs' = jobs \cup {Nudge(row.currentStep)}
    /\ UNCHANGED <<row, workerVars, OutsideVars>>

\* RunWakeSweepService: a due run no live lease holds gets a nudge.
WakeSweep ==
    /\ Due(row.currentStep)
    /\ row.nextWakeAt = "due"
    /\ jobs' = jobs \cup {Nudge(row.currentStep)}
    /\ UNCHANGED <<row, workerVars, OutsideVars>>

-----------------------------------------------------------------------------
(* Time and faults.                                                        *)

\* A lease lapses under a worker that is gone, or one that is stalled and
\* does not renew in time.
Lapse ==
    /\ row.leaseOwner # NoToken
    /\ ~row.lapsed
    /\ "stall" \in Faults \/ \A w \in Workers : token[w] # row.leaseOwner
    /\ row' = [row EXCEPT !.lapsed = TRUE]
    /\ UNCHANGED <<jobs, workerVars, OutsideVars>>

WakeTime ==
    /\ row.nextWakeAt = "later"
    /\ row' = [row EXCEPT !.nextWakeAt = "due"]
    /\ UNCHANGED <<jobs, workerVars, OutsideVars>>

\* The reaper's stale window goes by without a write.
GoStale ==
    /\ "age" \in Faults
    /\ row.status = "running"
    /\ ~row.stale
    /\ row' = [row EXCEPT !.stale = TRUE]
    /\ UNCHANGED <<jobs, workerVars, OutsideVars>>

\* A worker's process dies; Bull may redeliver the stalled job.
Crash(w) ==
    /\ "crash" \in Faults
    /\ pc[w] # "idle"
    /\ jobs' \in {jobs, jobs \cup {job[w]}}
    /\ Leave(w, "idle", NoJob)
    /\ UNCHANGED <<row, OutsideVars>>

\* The process that took a decision dies before its listener is done: the
\* event is in memory only.
CrashDecided(c) ==
    /\ "decider" \in Faults
    /\ handler[c] \in {"emitted", "read"}
    /\ handler' = [handler EXCEPT ![c] = "over"]
    /\ resumeAt' = [resumeAt EXCEPT ![c] = 0]
    /\ UNCHANGED <<row, jobs, workerVars, approval, ran, reaping>>

LoseNudge(j) ==
    /\ "lose" \in Faults
    /\ jobs' = jobs \ {j}
    /\ UNCHANGED <<row, workerVars, OutsideVars>>

-----------------------------------------------------------------------------
Claims(w) ==
    \/ \E j \in jobs : ClaimFree(w, j) \/ FindLapsed(w, j) \/ NotClaimed(w, j)
    \/ TakeOver(w) \/ StopAtCap(w) \/ LostTakeover(w)

Steps(w) ==
    \/ Load(w) \/ LoadDone(w) \/ StepFails(w)
    \/ Collaborate(w) \/ RetryWaking(w) \/ RunApproved(w) \/ AskModel(w)
    \/ PauseRun(w)
    \/ \E c \in ToolCalls : \/ StillWaking(w, c) \/ WakingMade(w, c)
                             \/ WakingHeld(w, c) \/ WakingHeldAgain(w, c)
                             \/ FindWaking(w, c)
    \/ \E c \in Holdable : HeldCallMade(w, c) \/ HeldCallWaits(w, c)
    \/ \E c \in Calls : AskPerson(w, c)
    \/ EndWaking(w) \/ MachineFails(w) \/ EndSettling(w)
    \/ Abandon(w) \/ Reply(w)
    \/ Sleep(w) \/ AskUser(w) \/ WaitForApproval(w) \/ SleepForMachine(w)
    \/ Continue(w) \/ Answer(w)
    \/ Commit(w) \/ CommitFenced(w) \/ Persist(w)

Afterwards(w) ==
    \/ Release(w) \/ EnqueueNext(w) \/ QueueWake(w) \/ HandOn(w) \/ claimDelivery(w)
    \/ RetryJob(w) \/ ReadExhausted(w) \/ RecordExhausted(w)

WorkerFaults(w) == Renew(w) \/ Throw(w) \/ PersistFails(w) \/ EnqueueFails(w) \/ Crash(w)

Approvers ==
    \/ \E c \in Calls, d \in {"approved", "rejected", "expired"} : Decide(c, d)
    \/ \E c \in Calls : ReadDecided(c) \/ ApplyDecided(c) \/ CrashDecided(c)

Environment ==
    \/ CancelRun \/ WaitTimesOut \/ SendInput \/ ReaperFinds \/ Reap \/ WakeSweep
    \/ Lapse \/ WakeTime \/ GoStale
    \/ \E j \in jobs : LoseNudge(j)

Next ==
    \/ \E w \in Workers : Claims(w) \/ Steps(w) \/ Afterwards(w) \/ WorkerFaults(w)
    \/ Approvers
    \/ Environment

Spec == Init /\ [][Next]_vars

-----------------------------------------------------------------------------
(* Fairness.  Bull hands queued jobs to idle slots, a worker that is alive *)
(* goes on with its step, the sweep, the listeners and the clock go on.    *)
(* Nobody has to cancel, answer or decide, and no fault has to happen.     *)
(* Workers may die any number of times, but not for ever between the two   *)
(* transactions of a claim.                                                *)

Fairness ==
    /\ \A w \in Workers : /\ WF_vars(Claims(w)) /\ SF_vars(TakeOver(w) \/ StopAtCap(w))
                          /\ WF_vars(Steps(w)) /\ WF_vars(Afterwards(w))
    /\ WF_vars(WakeSweep) /\ WF_vars(Lapse) /\ WF_vars(WakeTime)
    /\ \A c \in Calls : WF_vars(ReadDecided(c) \/ ApplyDecided(c))

FairSpec == Spec /\ Fairness

-----------------------------------------------------------------------------
(* Properties.                                                             *)

SawLatest(w) ==
    (pc[w] \in Working /\ row.leaseOwner = token[w])
    => /\ mem[w].expected = row.currentStep
       /\ mem[w].held = row.held
       /\ mem[w].waking = row.waking

\* Fencing (run-lease.ts heldBy, commitStep): whoever holds the lease while it
\* works on a step works from the row's own step number and working memory.
\* However claims, lapses, takeovers, releases and crashes interleave, the
\* holder's copy is never behind a commit made by somebody else.
HolderSawLatest == \A w \in Workers : SawLatest(w)

\* durable-runs.md "Fencing" and "Takeover": leased, crashing, overlapping
\* workers change the run's step number and working memory as AtomicSteps
\* does, one step after another, each from what the last one committed.
Atomic == INSTANCE AtomicSteps WITH
    currentStep <- row.currentStep, held <- row.held, waking <- row.waking
ImplementsAtomicSteps == Atomic!Spec

\* run-lease.ts claimRun: the lease goes from one claim to another without
\* having been let go only after it lapsed, and the takeover counts exactly
\* one more than the row did, although the count was read in an earlier
\* transaction than it is written in.
TakeoverCounted ==
    [][ (/\ row.leaseOwner # NoToken
         /\ row'.leaseOwner \notin {row.leaseOwner, NoToken})
        => row.lapsed /\ row'.takeovers = row.takeovers + 1 ]_vars

\* run-lease.ts: a run that can be claimed has been taken over fewer than
\* MaxTakeovers times since a step last committed.
UnderTheCap == row.status \in Claimable => row.takeovers < MaxTakeovers

\* agent-step-processor.ts commitStep: "A terminal status is final, whoever
\* gets there first."
TerminalIsFinal == [][row.status \in Terminal => row'.status = row.status]_vars

FinalUnlessUnguarded ==
    (row.status \in Terminal /\ row'.status # row.status)
    => \E w \in Workers :
          \/ asking[w] # NoCall /\ asking'[w] = NoCall
          \/ pc[w] = "persist" /\ pc'[w] = "leaving"

\* The same of every writer but two, the pause of an approval request and the
\* collaboration's persist: worker commits, the takeover cap, cancel, input,
\* decisions, the reaper, and the exhausted-retry handler, which writes over a
\* status it read earlier.
OnlyUnguardedReopens == [][FinalUnlessUnguarded]_vars

\* run-event-writer.ts claimDelivery: a result is handed on only for a run
\* that is over for good, although a fenced-out step reports "done" too.
HandedOnWhenOver == row.delivered => row.status \in Terminal

\* docs/design/durable-runs.md "The queue only nudges": whatever the queue
\* delivers twice, a held call is made only while the run's row still holds
\* it, so never after the commit of the step that made it; and it is made a
\* second time only by the worker that took the run over from one that died
\* between the call and that commit (runApprovedCalls, commitStep).  Without
\* the fault "throw": Bull's retry of a step that threw there makes it again.
HeldCallMadeOnce ==
    [][\A c \in ToolCalls : ran'[c] # ran[c] =>
          c \in row.held /\ (ran[c] > 0 => row.takeovers > 0)]_vars

\* agent-step-processor.ts: a call a policy held is made on the step after it
\* is decided; so while the run lives and no step is under way, a held call
\* that has not been made is still in the run's working memory.
HeldCallRemembered ==
    \A c \in ToolCalls :
        (/\ approval[c] # "none" /\ ran[c] = 0
         /\ row.status \notin Terminal
         /\ \A w \in Workers : pc[w] = "idle")
        => c \in row.held

\* run-wake-sweep.service.ts: a run that wants a worker gets one and moves on,
\* whatever nudge was lost and whichever worker died: its step commits, or
\* the run waits for a person or ends.
DueRunMovesOn ==
    \A s \in 0..MaxSteps :
        (row.status \in Claimable /\ row.currentStep = s)
        ~> (row.status \notin Claimable \/ row.currentStep # s)

\* agent-runtime.service.ts handleApprovalDecided: a decision whose listener
\* has yet to read the run, or has read it waiting, ends the wait, approved or
\* not, although the listener reads and writes in two transactions and the
\* step that asked may commit, die or be taken over meanwhile.
HeardDecisionEndsWait ==
    \A c \in Calls :
        (row.status = "waiting_approval" /\ handler[c] \in {"emitted", "read"})
        ~> row.status # "waiting_approval"

\* approvals.service.ts step 4: the runtime resumes or cancels the run on the
\* decision; so a run does not go on waiting with every request decided.
DecisionsTakeEffect ==
    (row.status = "waiting_approval" /\ \A c \in Calls : approval[c] # "pending")
    ~> (row.status # "waiting_approval" \/ \E c \in Calls : approval[c] = "pending")
=============================================================================
