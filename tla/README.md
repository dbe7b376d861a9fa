# Verification of almyty's runs, approvals and reconcilers

almyty runs AI agents. An *autonomous run* is a loop of steps (ask the model,
make its tool calls, commit) executed by whichever backend process picks the
next step from a queue; a *workflow run* walks a pipeline of nodes; an *always-on
agent* turns what happens around it into runs on one standing thread; people
approve, answer, cancel and watch; and hosted models are kept at a provider by
a reconcile loop. The code is TypeScript on Postgres, Redis and Bull, on several
replicas, and where it can go wrong in ways a test hardly reaches is where those
replicas, people and timers meet on one row. This directory specifies those
places in TLA+, checks them with TLC and proves their safety with TLAPS.

## 1. Inventory

| Component (code) | State it keeps | Operations | Talks to |
|---|---|---|---|
| Run lease (`modules/agents/run-lease.ts`) | `leaseOwner`, `leaseExpiresAt`, `takeovers` of the run row | claim in two transactions, renew, release, takeover cap | step processor, queue |
| Step processor (`agent-step-processor.ts`, `agent-builtin-tools.helper.ts`) | an in-memory copy of the run; working memory (held calls, waking calls, change sets) | load, retry waking calls, run approved calls, ask the model, tool loop, `commitStep`, memory save | lease, row writer, approvals, machines |
| Row writer (`run-event-writer.ts`) | the row and `agent_run_events` | `writeRun` under a row lock, wake times, delivery claim, listeners | everyone who writes a run |
| Event log and projections (`run-events.ts`, `run-projection-check.ts`) | the log; a projection cache per process | diff into events, fold, compare | row writer |
| Live views (`agent-runtime-events.helper.ts`, `run-stream-writer.ts`, `packages/client/src/client.ts`) | two Redis streams per run; a server loop and a client position per viewer | announce, emit, `subscribeRunLog`, `followRunStream` | row writer, clients |
| Queue processor (`agent-runtime.processor.ts`) | Bull jobs | next-step, continuation, retries, exhausted retries, handing on | step processor |
| Runtime service (`agent-runtime.service.ts`, `agent-runtime-misc.helper.ts`) | - | start, cancel, input, `handleApprovalDecided`, `waitForRun` | row, queue, approvals |
| Wake sweep and reaper (`run-wake-sweep.service.ts`, `agent-run-reaper.service.ts`) | - | nudge due runs, time out stale ones | row, queue |
| Collaboration (`agent-collaboration.helper.ts`) | the orchestrator's run | run the participants, complete or fail | row |
| Approval requests (`modules/approvals/approvals.service.ts`) | request rows, `approval_policy_approvals` rows, payload snapshot | create (and pause the run), approve, reject, expire | runtime, gate, policy hook |
| Approval policies (`ee/modules/approval-policies`) | policy rows | score, edit, delete | approvals, entitlements |
| Organization entitlements (`modules/licensing/org-license.resolver.ts`) | organization row, a per-process cache | `hasForOrg` | policy hook |
| Workflow engine (`agent-execution.engine.ts`, `agent-node-executor.ts`, `agent-execution-graph.helper.ts`) | execution rows; the walk of a run in one process | walk layer by layer, skip, wait, commit the outcome | gate, code mode, cancellation |
| Held calls (`tools/tool-approval-gate.service.ts`) | the request's result | look up or file a request, claim, make the call, keep the result | approvals, engine |
| Code mode (`code-mode/code-mode.service.ts`) | script rows with their change set | stage, hold, decide, make the changes | approvals, engine |
| Resume, cancel, reap of workflow runs (`workflow-approval-resume.service.ts`, `workflow-approval.ts`, `agent-execution-cancellation.service.ts`, `agent-execution-reaper.service.ts`) | - | settle a waiting run and hand it to the engine; cancel with a signal; end stuck runs | execution rows |
| Always-on agents (`agents/always-on`) | `agents.alwaysOn` (a JSON column), `agent_wakes`, a Redis lock | `wake`, `process`, `drainInto`, settings, run ended | runtime, queue |
| Model deployments (`modules/model-deployments`) | `model_deployments` rows, the catalog card | request, scale, teardown; `reconcile`, sweep, budget cap | provider, router |
| Schedules (`agent-scheduler.service.ts`) | cron jobs | start runs, deliver their results | row writer, channels, webhooks |
| Workspaces, budgets, gateways, MCP, providers, credentials, memory, retention, the other enterprise modules, web app | | | see section 8 |

**How they interact.** `startRun` writes the row and queues step 0. A worker
takes a job, *claims* the run (a lease token with an expiry, renewed while it
works), loads the row, works on its copy, and writes the copy back in one
commit guarded on the step number, the status and the lease. The queue only
nudges: jobs may be lost or duplicated, a sweep nudges every run that is due
and that no live lease holds. Everyone else (cancel, a parent's timeout, the
reaper, the retry handler, approvals and their decisions) writes the same row
without the lease, each with a guard of its own. Every such write appends the
events that describe it; viewers read those, told by a Redis announcement. A
tool call that needs a person makes an approval request, which pauses the run;
the decision is an in-process event whose listener resumes or cancels the run.
Under a policy, one request takes several people's approvals. A workflow run
that meets a held call stops in `waiting_approval`; the process that takes the
decision makes the call and hands the run back to the engine. An always-on agent
has an inbox of wakes: a job starts a run for them, or the live run drains
them. The reconcile loop of hosted models runs from a sweep, from jobs and on
every replica, on rows that requests change meanwhile.

**What is hard.** Overlapping workers on one run; stale in-memory copies, written
back whole; claims and decisions that take two transactions; processes that die
in between; writers that checked a status they read earlier; writers without a
guard; reviewers who act at the same moment; two decisions of one run; a lock
that expires under its holder; jobs that collapse; calls of a provider that take
longer than the row stays the same; connections that drop. `PROJECT.json` lists
these hazards line by line.

**What makes it correct**, by component:

* runs: the work advances one step at a time, each from the last committed one
  (`HolderSawLatest`, `ImplementsAtomicSteps`); takeovers are counted and capped
  (`TakeoverCounted`); a finished run stays finished as far as writers are
  guarded (`OnlyUnguardedReopens`) and only a finished run is handed on
  (`HandedOnWhenOver`); a due run moves on (`DueRunMovesOn`); a held call is made
  once (`HeldCallMadeOnce`, unless a stalled or failed step is done again) and a decision heard while the run waits ends the wait
  (`HeardDecisionEndsWait`; `DecisionsTakeEffect`, of every decision, fails);
* the log: it folds to the row (`LogTellsTheRow`; `LogFoldsToRow`, with no exception, fails, and holds where
  no webhook outcome is recorded), and the check of that reports no difference that is not there
  (`AlarmsAreTrue`);
* live views: nothing logged is missed or repeated (`NextSeqOnly`), tokens are
  handed on once (`TokensOnce`; `HandedOnBeforeResolving` fails), and a follower ends
  when and only when the run does (`FollowerResolves`, `ResolvedMeansOver`);
* approval policies: approved on the right people, as soon as they have
  approved, once, and without falling back to a single approver by accident
  (`QuorumOfPeople`, `QuorumTakesEffect`, `DecidedOnce`,
  `SingleGateOnlyWhenGone`);
* workflows: a held call is approved and made once (`ApprovedAndOnce`), a waiting
  run is carried on by one task (`CarriedOnByOne`), runs no step again that left
  an output (`StepsRunOnce`) nor what follows a wait (`WhatFollowsWaits`), records the
  truth (`RecordIsTrue`), keeps its outcome (`OnlyLateCancelRewrites`), carries on
  when decided and ends (`DecidedRunCarriesOn`, `RunsEnd`);
* always-on agents: a wake belongs to one worker or run (`HeldByOne`) and is told
  once (`WakeToldOnce`, `TakenIsTold`), one run at a time (`OneRunAtATime`), and
  no wake is left (`WakesAreTaken`);
* hosted models: no endpoint nobody points at (`EndpointAccounted`), a teardown
  stays asked for and happens (`TeardownKept`, `TeardownHappens`), nothing dead is
  routed to (`RoutedOnlyWhileServed`), and the cap stops the spending
  (`CapStopsSpending`).

## 2. Modules

| Module | What it is |
|---|---|
| `AtomicSteps` | the abstract specification: a run's step number and working memory changed by one step after another; no workers, leases or queue |
| `DurableRun` | one run: row, queue, workers, lease, steps, and all other writers of the row; `Atomic` maps it to `AtomicSteps` |
| `RunLog` | the event log of one run beside its row, the writers on several pods, and each pod's projection check |
| `RunFollow` | one viewer of a run: the two streams, the server's loop, the client's reconnects |
| `ApprovalPolicy` | one approval request under a policy: concurrent reviewers, sweep, administrators |
| `WorkflowRun` | workflow runs of one agent: engine, held calls and change sets, decisions, resume, cancel, reaper |
| `StandingThread` | one always-on agent: inbox, jobs, workers, lock, settings, the runs of its thread |
| `HostedModel` | one model deployment: requests, ticks, provider, card, budget |
| `MC...` | symmetry, bounds, pipelines, people and policies for TLC |
| `DurableRun_proofs`, `RunLog_proofs`, `RunFollow_proofs`, `ApprovalPolicy_proofs`, `WorkflowRun_proofs`, `StandingThread_proofs`, `HostedModel_proofs` | theorems about those modules |
| `WorkflowWalk_proofs` | theorems about `WorkflowRun` that depend on the shape of the pipeline |

Definitions called `Name_Something` and marked `\* mutant` are wrong variants of
`Name`: put in its place, each must make TLC find a property violated. They
guard against properties that cannot fail, and take no part in the
specification.

### DurableRun and the code

*State.* `row` is the `agent_runs` row: status, `currentStep`, the lease with
`lapsed` for "`leaseExpiresAt` is past", `nextWakeAt` as none, due or later,
`takeovers`, the held calls and change sets (`gatedToolCalls`,
`pendingChangeSets`) and the waking calls of working memory, `stale` for
"`updatedAt` is before the reaper's cutoff", `delivered` for `deliveredAt`.
`jobs` is the queue (a step number and the tries left). For each worker: `pc`,
its `job`, `token`, what its claim's first transaction saw (`seen`), its copy of
the run (`mem`), and the step's local sets. For each approval: its status and
how far its listener is. `ran` is a history variable: how often a held call was
made.

*Grain.* Each `writeRun` is a transaction under the row's lock, hence an action;
each read whose result is used later is an action of its own. The claim
is two transactions and two actions (`ClaimFree` / `FindLapsed`, then
`TakeOver` / `StopAtCap` / `LostTakeover`). A step is the load, one action per
held or waking call, the approval's save, the pause, the check after the model's
reply, then the commit; `Throw`, `Crash`, `Lapse` and the other writers come
anywhere between. `handleApprovalDecided`, `recordExhaustedRetries`, the reaper
and the handing on (`finished` reads the run, `claimDelivery` writes it) each
are a read and a later write.

*Time* is abstract: `Lapse`, `WakeTime` and `GoStale` may happen at any
moment their situation allows, so every ordering of timeouts and work is
covered. A lease lapses under a live worker only with the fault `stall`.

*Abstracted data.* Messages, prompts, costs, audit entries, notifications and
the event log's contents. The cost and step ceilings, scope and budget checks
are one nondeterministic failure (`StepFails`), forced at `MaxSteps`. The
composed answer and the explore phase of a step are commits like any other.
A collaboration's participants are runs of their own; the orchestrator's
step is how it ends. The read of `currentStep` for a continuation job and the
adding of the job are one action: a job names a step, and a nudge for a step
that is over is refused by the claim. Bull's suppression of duplicate job ids is
not modelled; the model has more duplicates than the code.

### RunLog and the code

*State.* `row` holds the logged columns and `headSeq`, `log` is
`agent_run_events`. Each pod has the copy its step works on (`work`) and a cached
projection (`cache`); `told` are committed writes whose listeners have not run.
`around` counts the writes that bypass `writeRun`, `alarms` the mismatch
reports.

*Actions.* `WriteRun` is `writeRun`: the diff of the change against the row as
locked (`CommitEvents`), the numbering, row and events in one step. Its callers
are the actions: claim and takeover, the step's commit from a stale copy, the
memory save after completion, the collaboration's `persist` of the whole loaded
run, cancel, pause, input and decision, the retry handler, the reaper, the merged
metadata keys, the delivery. `FoldRunEvents` is the fold, with what makes it
throw as `Refused`; both recursions of the code (over the steps, over the events)
are recursive functions (`StepEvents`, `FoldOf`), which the proofs can reason
about. `Check` is the listener, run by the pod that wrote, in
any order.

*Abstracted data.* A step is its type and whether its result is in; metadata are
the keys set; working memory, output and totals are logged the same way and left
out. Who may write when is `DurableRun`'s subject: here the lease is its holder.

### RunFollow and the code

*State.* The log seen from outside (notes, and the `step_committed` that says
going or over), what committed writers still owe Redis, the two streams, the
frames on the wire, the server's `last`, `logPos`, `eventsPos`, `ended` and
`loggedEndAt`, the client's `afterSeq`, `livePos`, `ended`, `failures`.

*Actions.* One per await of `subscribeRunLog` (note the streams' ends, a page of
the log, one `XREAD`, the idle read, the grace, the time limit) and of
`followRunStream` (connect, a frame, the end of a connection). Faults: Redis
refuses or the writer dies before announcing (`lost`), a stream is trimmed or
expires (`trim`), a fenced collaboration step emits its end all the same
(`fenced`), connections drop with what is on the wire.

*Assumed about time:* what is on a stream is read sooner than the grace given to
a finished run passes, and that grace (1 s) is shorter than the idle read (5 s).

### ApprovalPolicy and the code

*State.* The request's status and payload snapshot, the approval rows in
insertion order, the policy as stored (or deleted), the entitlement, and per
call of `approve` or `reject` where it is, the payload it loaded, what it
collected and on what ground it approves. History: `announced`, `verdict`,
`gone`.

*Actions.* Each database statement of `decide` and `applyPolicyProgress`: read,
insert, collect, score (null, satisfied, short, throwing), snapshot, flip; the
sweep's find and flip; edits, deletion, plan changes, process death. The scoring
(`progress`) is the evaluator's loop as a recursive function over the steps, with
the indexes of the approvals still to be credited; `Collected` is
`collectPolicyApprovals`, whose Map is filled from the payload and then from the
rows by `SetApproval`, in place for a person already there.

### WorkflowRun and the code

*State.* The execution rows (status, a result and a request per node), the
engine walking a run (layer, results, signal), the approval requests with the
gate's result and the script row, the task a decision set going in the process
that took it, a cancel with the row it read, the signals on Redis, and the age
of a run. History: `made` (calls per request) and `ran` (how often a node ran and
left an output, a request or a failure). A result is `blank` when the step
succeeded with an output of undefined: the row is JSON, which drops the key, and
a resumed run replays only results that have it (`Prior`), so it runs that step
again.

*Actions.* The engine's walk: enter, start a layer, skip, run, hold or fail a
node, end the layer, commit (`commitTerminal`, or save as waiting). When a layer's
time runs out the nodes that had not reported, waiting ones too, are recorded as
failed (`CutShort`). The decision
and its listeners: claim the call, make it, keep the result, find the waiting
runs, read, settle (`settledHeldCall`, `settledCodeStep`), claim the run, hand it
to the engine. Cancels, reaper, crashes of engines and of tasks.

*Abstracted data.* Node inputs and outputs are a result kind; conditions choose
a branch nondeterministically; the nodes of a layer run one after another in
any order (the engine awaits them together and they share only the results).

### StandingThread and the code

*State.* `config` (`agents.alwaysOn`: on, why paused, the live run, the thread),
the inbox, the callers of `wake()`, the jobs with the id of the present two
seconds, the lock, each worker of `process()` with the agent as read and the
wakes found and won, the runs of the thread, and a change of the settings under
way. History: `given`, and `missed`: the last job asked for was dropped
for one that runs and is past its read of the inbox.

*Actions.* One per statement: insert, count, fold or drop the oldest, nudge;
lock, read, find the inbox, look at the live run, claim each wake, answer or
start, mark, save the settings, unclaim, pause, unlock; `drainInto` of a run's
step; the end of a run; the owner's and the capacity check's read and save. A
nudge within two seconds of another has its job's id and collapses into it, also
when that job runs and has read the inbox already (`Nudge`, `Deaf`).

### HostedModel and the code

*State.* The row (state, reference, what is wanted, errors, how long the
endpoint is missing, whether the claim's lease passed), the card, the endpoints
at the provider, the row's job, and each tick and each request with its copy of
the row.

*Actions.* One per statement of `reconcile` and its helpers and one per call of
the provider; the cap; faults. A request reads the row (`Get`) and later saves its
whole copy with one thing changed (`Scale`, `Teardown`), which writes back every
column that was written in between. The fault `"stale"` names the saves that undo
something by that (`Undoes`: a reference, a teardown, a claim, a state no tick
writes again); a late save that undoes nothing is part of every run. The provider
is external: what it answers is any answer consistent with its endpoints, as the
adapters' `readEndpoint` reports it (`Shown`; the Hugging Face adapter is the one
mapped). An endpoint reported as `scaling` is not told apart from one that is
being deployed.

## 3. Runs

Every run is expected to pass; properties that do not hold of this code are in
section 6. The runs disable TLC's deadlock check: a finished run, a decided
request, a torn-down model and a follower that resolved have nothing left to do.

| Run | States | Question |
|---|---|---|
| `lease` | 1,767,140 | Two workers that crash, stall, throw and lose jobs, on a run that may be a collaboration's (its write is guarded on the lease only), with the reaper: do the lease, the fence, the takeover count and the retry handler hold up, what is handed on, and who reopens? |
| `approvals` | 909,729 | A held call and a change set, a worker and a listener that die anywhere, and a parent whose patience ends: is the call made again only by a takeover of the step that had not committed it? |
| `liveness` | 218,605 | With `request_approval`: does a due run move on although its first job was never queued and its workers die, and does a decision heard in time end the wait? |
| `log_of_run` | 1,424,418 | Two pods, stale copies, takeovers, one writer outside: does the log fold to the row, and are the check's alarms true? |
| `follow` | 1,016,276 | A drop or a time limit, lost announcements, trimmed events: what does a follower see, and does it end? |
| `quorum` | 1,097,090 | Four calls of three people, overlapping, one person twice, with approvals carried in the payload: right people, at once, once. |
| `policy_faults` | 285,578 | Policy edited, deleted, unlicensed in mid-decision; scoring throws; roles unreadable; processes die: who may decide alone? |
| `workflow` | 2,661,129 | A plain step, a condition, a held call and a script in one run under every fault: calls, record, resume, outcome. |
| `workflow_liveness` | 58,924 | Two runs waiting on one held call, with crashes: does a decided run carry on, and does every run end? |
| `standing` | 1,750,634 | Locks that expire, processes that die, jobs that collapse, an owner who switches it off: who has a wake? |
| `standing_liveness` | 335,689 | Three wakes, one passive and one the owner's, an erased thread, pauses, a run that asks: one run at a time, each wake told once and in the end. |
| `hosted_models` | 440,094 | A sweep tick and a job tick, a request that reads and later saves a teardown or a scaling, one crash or failed call: endpoints, teardown, routing, cap. |

**Bounds.** Two workers, pods or ticks: every conflict the code has is between a
holder and one other. Two or three tokens: a lapsed holder, a taker-over
and a claim after that; a claim waits for a token nobody remembers, which with
fewer tokens only removes interleavings of a third claim. `MaxSteps` 1 to 3:
asking, holding, settling and going on each need a step. `MaxTakeovers` 2: a
takeover below the cap and one at it. `MaxAttempts` 1 or 2: a retry, and giving
up. In `lease` and `approvals` the queue holds one job besides the ones workers
have taken (`FewNudges`); what else is queued adds nothing, since the sweep and
redelivery replace a job that was taken. `approvals` has one worker,
which a crash and a takeover make a second; overlapping workers are the question
of `lease`. `Collaborates` is a set, since the owner may edit the agent between
two steps of a run: `lease` allows both kinds of step in one run. In `log_of_run`, one write outside a step besides the takeovers and
the delivery, and two writes whose listeners are still owed, so that they run out
of order and meet another pod's; with two steps and no outside write, and with
two steps, one outside write and one owed, the properties hold as well. In
`follow` a page and an `XREAD` of one entry with two entries each: every
hand-over between pages, streams and connections occurs; with two breaks (1.7
million states), where the client can also give up, the properties hold too.
`workflow` has one run and the smallest pipeline with a step before the branch
(which may end without an output), a branch, a held call with a successor and a
script; two runs that share a request are in
`workflow_liveness`. `standing` bounds the inbox to one queued wake so that a second
one is folded; `standing_liveness` has two runs so that wakes outlive the first.
`hosted_models` has two endpoints, so that a second one can be created, one fault
and one request, whose save may be late by any number of steps of both ticks
(with two faults, 1.8 million states, the invariants hold too). Three people
with roles {admin}, {finance} and both, and policies with a quorum of three,
two roles in sequence, and a step anyone may take before one only some may, are
the smallest set in which an approval can be counted twice, in the wrong step,
or use up a person another step needs. `HandedOnWhenOver` is checked where there
are no approvals: with them the pause reopens a finished run (section 6). Also
true of the instances, and not repeated in the configurations: `UnderTheCap` in
`lease`, and `TypeOK` in `standing`, `log_of_run` and `follow`.

**Fairness.** In `liveness`: Bull hands queued jobs to idle
slots, a live worker goes on with its step, the sweep and the clock go on, an
event's listener runs: weak fairness. Strong fairness for the second
transaction of a claim: workers may die any number of times, but not for ever
exactly between the two transactions. In `workflow_liveness`: engines and tasks
that live go on, runs grow old, the reaper's interval fires. In
`standing_liveness`: requests, workers and runs go on, a lock expires and so do
two seconds. In `hosted_models`: the cron fires and its ticks go on, a claim's
lease passes, faults are finite (`MaxFaults`); strong fairness of `KeepRef`, which
the model holds up only by its assumption that a tick is not slow. In `follow`:
the server's loop and the client's read go on. Nobody has to cancel, answer or
decide, no wake, write or announcement has to come, and no fault has to happen.

## 4. What is proved

Every safety property the runs check is also a theorem, for every value of the
constants that satisfies the named assumptions of its module: any number of
workers, pods, runs, calls, people, wakes, ticks, any bounds, any pipeline or
policy. A hypothesis beyond those assumptions is given with the theorem. Unless
said otherwise the property fails without it (section 6 says by what, or the
section below), so that it says what the property rests on in this code. Each
proof rests on
an inductive invariant that TLC checked on the run's instance before it was
proved, and has one step per action; facts about what did not move are lemmas.

### DurableRun

Assumed: the null token is no token, `NoCall` no call, requests are not
holdable, tool calls and change sets differ, bounds are naturals.

| Theorem | Property | Hypothesis |
|---|---|---|
| `TypeCorrect` | `[]TypeOK` | |
| `FencingHolds` | `[]HolderSawLatest` | |
| `StepsAreAtomic` | `ImplementsAtomicSteps`: the refinement of `AtomicSteps`, collaborations and approvals included | |
| `FinalForGuarded` | `OnlyUnguardedReopens` | |
| `TakeoversCounted` | `TakeoverCounted` | `Steady`: no approvals, or no live worker stalls |
| `TakeoversCapped` | `[]UnderTheCap` | `Steady` |
| `HandsOnWhenOver` | `[]HandedOnWhenOver` | no approvals |
| `OneHolder` | at most one worker has a lease, and it is the row's | no stall |
| `HeldCallsMadeOnce` | `HeldCallMadeOnce` | no stall, no throw |

The first four follow from
`IInv == TypeOK /\ TokenInv /\ WorkInv /\ HolderSawLatest /\ WriteInv`.
`HolderSawLatest` alone is not inductive: it needs tokens to be unique among
live claims, or a commit of one worker would put another behind (`TokenInv`);
`TokenInv` holds because a claim takes a fresh token and a call that ends
gives its token up. The refinement needs to know what a worker that reached
its commit will write: the row's own work, or one step on from it (`WriteInv`).
That in turn needs what each loop of the step has gathered, relative to the work
it started from (`WorkInv`), and that nobody else changes the work under a
holder (`HolderSawLatest` again).

The takeovers need `CInv`: what a claim's first transaction saw is still so
while the lease is the one it saw, unless the step it is for is over
(`SeenInv`), and without a stall a worker with a token has the lease
(`HoldInv`). A held call is made once because whoever made it and has not
committed holds the lease alone, and nobody else has the call in hand (`RInv`).

### RunLog

| Theorem | Property | Hypothesis |
|---|---|---|
| `TypeCorrect` | `[]TypeOK` | |
| `LogIsTheRow` | `[]LogTellsTheRow` | |
| `NoFalseAlarm` | `[]AlarmsAreTrue` | |
| `LogIsExactlyTheRow` | `[]LogFoldsToRow` | no webhook outcome is recorded |

These need what the diff and the fold compute for lists of any length: that
folding `CommitEvents` of a change over the row as locked gives the row as
written (`WriteFolds`), that a fold of joined lists is the fold of the second
over that of the first (`FoldedJoin`), and that the step events of the diff
rebuild the list of steps (`StepsFold`). They are proved by induction on the
length, with the set of the lengths for which a fact holds in the place of a
predicate (`NatSetInduction`, from the well-foundedness of `<`). The invariant
then says that the log folds to the row but for metadata (`LogInv`), that each
write still to be told of folds from its own before to its own after
(`ToldInv`), and that two accounts of the run at the same head agree unless
that head is the one at which the one write around the log was made, the
`hole` (`AlarmInv`): one check at most starts there, hence one alarm.

### RunFollow

`TypeCorrect`, `FollowsInOrder` (`[]NextSeqOnly`), `TokensHandedOnce`
(`[]TokensOnce`) and `ResolvesTruly` (`[]ResolvedMeansOver`), with no hypothesis.
By `FInv`: on the wire are exactly the seqs after the client's up to the server's
last, in order; the events after the client's up to the server's position, or
trimmed; and whatever says the run is over says the truth or what a fenced step
said.

### ApprovalPolicy

Assumed: there are finitely many people; a policy is a sequence of steps that
each ask for at least one approval; the approvals a request carries from the
start are of different people, with roles they hold.

| Theorem | Property | Hypothesis |
|---|---|---|
| `TypeCorrect` | `[]TypeOK` | |
| `ApprovedByQuorum` | `[]QuorumOfPeople` | |
| `LastApprovalTakesEffect` | `[]QuorumTakesEffect` | no call dies, scoring does not throw, the policy is not edited |
| `DecisionIsFinal` | `DecidedOnce` | |
| `NoDegradationByAccident` | `[]SingleGateOnlyWhenGone` | the entitlement can be read |

The centre is `SnapInv`: every list of approvals about, the payload, what a call
read and what it collected, is the carried approvals merged with the first so
many rows, however old it is. `EnteringAgain` shows that merging all the rows
into such a list gives the same list whichever it was, so that a stale snapshot
costs nothing: the comment at the snapshot's write says so, and this is the
proof. Then either the policy is short of all approvals, or some call has yet to
count all of them (`EffectInv`). For the quorum, `TakenPerStep` shows that a
satisfied policy took disjoint sets of approvals, large enough and of the right
roles, for its steps, and `Filling` makes of them the different people the
property asks for; names that approved are never lost (`ApproversGrow`). The
recursions, over rows and over steps, are again by `NatSetInduction`.

### WorkflowRun

| Theorem | Property | Hypothesis |
|---|---|---|
| `TypeCorrect` | `[]TypeOK` | |
| `CallsApprovedAndOnce` | `[]ApprovedAndOnce` | |
| `ResumedByOne` | `[]CarriedOnByOne` | |
| `OutcomeStands` | `OnlyLateCancelRewrites` | |
| `HeldCallsRecordedTruly` | the record of held calls and of rejections is true | |
| `RecordsAreTrue` | `[]RecordIsTrue` | `[]StepsRunOnce` |
| `RecordsAreTrueWithoutScripts` | `[]RecordIsTrue` | the pipeline has no code steps |
| `FollowersWait` | `[]WhatFollowsWaits` | what follows a held step follows it alone |
| `StepsNotRunAgain` | `[]StepsRunOnce` | no held step comes after another |
| `RecordsAreTrueBehindNoHeldStep` | `[]RecordIsTrue` | no held step comes after another |

The last three are in `WorkflowWalk_proofs`. "No held step comes after another"
is `LeadsUp(up)`: a set `up` of steps that hold nothing has all predecessors of
its own steps and of the held ones. The pipeline of the run `workflow` satisfies
it with the plain step and the condition as `up`, and the hypothesis of
`FollowersWait` too. A run of a step that ended without an output is not counted:
such a step does run again (finding 16), and the theorem is about the others.
`CallsApprovedAndOnce` is by `OnceInv`, which ties the count of calls made for a
request to where its task is; `ResumedByOne` by `CarriedInv`: a task past its claim
and an engine walking the run exclude a waiting row, and one another. The record is
true because every copy of it is, the engine's, a task's, a cancel's
(`RecordInv`). `WalkInv` says what an engine's results have to do with its layer
and the predecessors of each step, and `RanInv(up)` that a step ran at most once
and that a record to be carried on from names what ran.

### StandingThread

| Theorem | Property | Hypothesis: none of |
|---|---|---|
| `TypeCorrect` | `[]TypeOK` | |
| `OneGetsTheWake` | `[]HeldByOne` | |
| `TakenWakeIsTold` | `[]TakenIsTold` | `"crash"` |
| `OneLiveRun` | `[]OneRunAtATime` | `"slow"`, `"crash"`, `"edit"`, `"switch"` |
| `ToldOnce` | `[]WakeToldOnce` | these and `"cancel"` |

`HInv`: who claimed a wake has it in one set of won wakes, and while it is there
nobody else can claim it. `OneRunInv`: the lock's holder is the one worker past
the lock, the settings it read are the settings, and a live run is the one they
name or the one the worker is about to name. `OnceInv`: a queued or held wake was
told to nobody. `OneRunAtATime` fails with each of the four faults it excludes,
`TakenIsTold` with `"crash"`, and `WakeToldOnce` with `"crash"` and `"asks"`; with one
of the others, `"asks"` and `"gone"`, TLC finds no violation of `WakeToldOnce` on the
constants of `StandingLiveness.cfg`, and the proof needs them because it goes by
`OneRunInv`.

### HostedModel

| Theorem | Property | Hypothesis: none of |
|---|---|---|
| `TypeCorrect` | `[]TypeOK` | |
| `EndpointsAccounted` | `[]EndpointAccounted` | `"overlap"`, `"slow"`, `"stale"` |
| `TeardownNotForgotten` | `[]TeardownKept` | `"overlap"`, `"slow"`, `"stale"` |
| `RoutedWhileServed` | `[]RoutedOnlyWhileServed` | `"overlap"`, `"slow"`, `"stale"` |

One invariant (`HInv`) for the three: what each tick's copy of the row may still
say, given where the tick is, and what the row is by then; a request's copy needs
no such account, since without `"stale"` its save leaves the row what it was in all
that the invariant speaks of. All three fail with
`"overlap"` and with `"stale"` (finding 14); with `"slow"` alone only `EndpointAccounted` is known to fail, and the
other two theorems take the hypothesis from it.

## 5. What is only model-checked

All liveness (`DueRunMovesOn`, `HeardDecisionEndsWait`, `DecidedRunCarriesOn`, `RunsEnd`, `WakesAreTaken`,
`TeardownHappens`, `CapStopsSpending`, `FollowerResolves`): fairness is out of
TLAPS's reach. Nothing else of what the runs check.

## 6. Findings

TLC finds each of these violated; the constants are those of the configuration
named, with the change given.

1. **A decision can be lost** (`DurableRun`, `DecisionsTakeEffect`; `Liveness.cfg`
   with `Requests = {}`, `ToolCalls = {c1}`, `MaxSteps = 3`, two tokens, no fault). The request is visible before
   its run waits. A decision in that window is dropped by
   `handleApprovalDecided` because the run is not waiting; the pause, or the
   step's commit, then leaves the run waiting on a decided request for good.
2. **The log is not the whole row** (`RunLog`, `LogFoldsToRow`; `LogOfRun.cfg`). A schedule's webhook
   outcome is written with `runRepo.update` over metadata read earlier
   (`agent-scheduler.service.ts:898`), though
   `docs/design/durable-runs.md:66-67` says the log "folds into exactly what
   the row holds". The projection check does not notice: a finished run is not
   cached, so its next check starts from the row. `LogTellsTheRow` says that
   nothing else differs.
3. **Runtime events are cut off** (`RunFollow`, `HandedOnBeforeResolving`;
   `Follow.cfg`). `followRunStream` resolves when
   the connection drops after the log's last frame, with runtime events still
   unread (`client.ts:516`), though its comment says `handler` sees each one.
4. **The pause reopens a finished run** (`DurableRun`, `TerminalIsFinal`). Its write
   is guarded on the id alone. The other writer that changes a final status is the
   collaboration's `persist`, guarded on the lease alone.
   `OnlyUnguardedReopens` says, and `FinalForGuarded` proves, that there is no
   third. Between the two transactions of a claim a stalled worker's step can fail
   the run, and the pause open it again: `TakeoverCounted` fails with approvals and `"stall"`
   (three workers and tokens, `Requests = {r1}`, `MaxSteps = 1`, `MaxTakeovers = 3`,
   `MaxAttempts = 1`, `FewNudges`), and `UnderTheCap` with two workers and
   `MaxTakeovers = 1`.
5. **A held call is forgotten** (`DurableRun`, `HeldCallRemembered`). `wait` and
   `ask_user` end the step in mid-reply without recording the calls held before
   them (`agent-step-processor.ts:879`).
6. **"Try again" cannot be followed** (`ApprovalPolicy`, `QuorumTakesEffect` with
   `"throw"`). The approval that completes a quorum is stored before scoring; if
   scoring fails, the retry is refused by the unique index and nobody scores
   again.
7. **An unreadable entitlement is a missing one** (`ApprovalPolicy`,
   `SingleGateOnlyWhenGone` with `"lookup"`), and a governed request becomes a
   single gate.
8. **A run resumed twice** (`MCWorkflowRun` with `LaterEdges`, `LaterKind`:
   `StepsRunOnce`). A task that read the waiting run, another task that carries
   it on to a second wait, and the first task's claim, which asks for
   `waiting_approval` only: the run continues from the older record. With a code
   step after the second wait (`LaterEdges`; `a`, `b` tool calls, `c` plain, `d` code;
   three requests, `"crash"`) the record then also denies what was done
   (`RecordIsTrue`).
9. **A join runs early** (`JoinEdges`, `JoinKind`: `WhatFollowsWaits`). A node with
   a waiting predecessor and a finished one runs, without the call's result; once
   it is decided the early output is replayed, and the node does not see it.
   `agent-execution.engine.ts:912` says "what comes after it waits too".
10. **Two requests for one call** (two runs: `OneRequestPerCall`). The gate looks
    up a pending request and then inserts, with no unique index.
11. **Two runs on one thread** (`StandingThread`, `OneRunAtATime` with `"edit"`). The
    owner's save writes back settings read before `liveRunId` was set;
    `docs/always-on.md:130-131` says "It never runs twice at once."
12. **A teardown undone** (`HostedModel`, `TeardownKept` with `"overlap"`) and **an
    endpoint nobody knows** (`EndpointAccounted` with `"slow"` and `"blip"`): the
    deploy claim (`model-deployments.processor.ts:273`) does not ask whether an
    endpoint was recorded since the tick read the row. `EndpointAccounted` fails with
    `"slow"` alone and with `"overlap"`, `RoutedOnlyWhileServed` with `"overlap"`.
13. **An approved call made again by a retry** (`DurableRun`, `HeldCallMadeOnce` with
    `"throw"` and `MaxAttempts = 2` in `Approvals.cfg`). A step that throws after
    making the call and before its commit releases the lease, and Bull's retry
    finds the call still held. The same with `"stall"`: two workers, three tokens, one
    tool call, `MaxSteps = 3`, `MaxTakeovers = 3`. `HeldCallMadeOnce` is therefore
    about workers that die.
14. **A request puts back what it read** (`HostedModel` with `"stale"` in `Faults`).
    `scale` and `teardown` read the row and later `save` the whole of it
    (`model-deployments.service.ts:407, 422`), the columns of the reconcile loop
    included, although `model-deployments.processor.ts:126-127` says "Desired state
    belongs to the controllers; `state`, `actual`, `externalRef` and the error fields
    belong here." With one request and no other fault, a reference recorded in
    between is erased, and the endpoint is billed with no row naming it
    (`EndpointAccounted`); the next tick ends the teardown without a delete
    (`TeardownHappens`), or no tick charges and stops it (`CapStopsSpending`); and
    `failed` is put back under a card lit meanwhile (`RoutedOnlyWhileServed`). With
    two requests, a scaling read before the teardown and saved after it erases the
    teardown (`TeardownKept`).
15. **Wakes with no job** (`StandingThread`, `WakesAreTaken` without its disjunct
    `missed`; `StandingLiveness.cfg`). When the standing conversation is gone the
    worker gives its wakes back and asks for another job
    (`always-on.service.ts:915-916`). Within two seconds of its own start that job
    has the id of the one that runs, and Bull drops it; the wakes stay queued until
    something else nudges the agent. The comment at `:768` says that "Jobs in the
    same two seconds share an id and collapse", which is right of a job that waits
    and not of one that is past its read of the inbox.
16. **A step runs again** (`WorkflowRun`, `StepsRunOnce` if `ran` counts every run;
    `Workflow.cfg`). A tool step whose call succeeded without data has the output
    undefined (`agent-node-executor.ts:807`); its result in the row has no `output`
    key, and the resumed run executes it again (`agent-execution.engine.ts:474-477`),
    though the engine says "Nothing runs twice" (`:648`).

Seen while modelling, without a property:

* The reaper re-checks the status and not `updatedAt`. An approval given before
  step N of a policy is satisfied counts for step N+1 afterwards, since scoring is
  stateless. A decision looks at 500 waiting workflow runs (`Take`) and no more.
  The execution reaper ends a run that was resumed after a long wait, since it
  reads the creation time. Completed Bull job ids suppress a continuation with the
  same id.
* The always-on lock lasts 30 s and is not renewed; a crash after claiming wakes
  loses them; the owner's message to a run that no longer waits is lost; cancelling a
  waiting run does not look at the inbox; `process` saves the settings it read.
* A credential failure during another tick's deploy writes `failed`, after which a
  second deploy may start; a crash between `failed` and clearing the card leaves the card active.
* A `commitStep` that throws inside the step's try is caught and committed again as
  FAILED (`agent-step-processor.ts:1693-1717`); the model's `Throw` goes to
  the job's retry, with the run as it was.
* The memory save and the collaboration's `persist` write the metadata they
  loaded and can remove `aiDisclosureSent` merged meanwhile. `diffObject` drops a
  newly added key whose value is null, since `same` takes null for undefined. The
  collaboration helper emits `run.completed` although its fenced write did not
  land (the disjunct `wrong` of `ResolvedMeansOver`). `followRunStream` gives up
  on a run that waits for a person after six idle time limits. A rejected approval
  and the reaper emit no terminal runtime event, so viewers end by the log's grace.

## 7. Plan

1. Proofs: every safety property of the runs is a theorem. Left: `ToldOnce` without
   the faults it inherits from `OneRunInv`, `TeardownNotForgotten` and
   `RoutedWhileServed` with `"slow"`, and an abstract follower that `RunFollow`
   refines.
2. `WorkspaceLease` and budgets: reservation against concurrent use.
3. An abstract decision service (each request decided once and its decision
   delivered once) that `ApprovalPolicy` and `WorkflowRun` are compared with.
4. A composition of `RunLog` and `RunFollow`, whose log is at present any sequence
   of commits.

## 8. Not modelled

`PROJECT.json` lists every component. The repository has some 340,000 lines, most of
them adapters, controllers, entities, forms and pages; the modules take the
services in which several actors change one piece of state, so the share of all
lines they stand for is small and will stay so.

Left out of the modelled components: notifications, audit entries and listings;
which policy governs a new request (a pure filter over conditions); the
entitlement's cache; PENDING runs (`startRun` writes RUNNING); cron parsing; what
nodes compute; the viewer that starts from now, `stopOnWaitingInput`, permanent
errors and servers that cannot resume. Left out altogether: adapters (gateways,
channels, MCP, providers), storage (memory, retention), sign-in, roles, billing,
export and the web application, which are I/O or sequential; workspaces, runners
and budgets are in the plan.
