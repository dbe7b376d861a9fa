---------------------------- MODULE HostedModel ----------------------------
(***************************************************************************)
(* One hosted model (a model_deployments row), the endpoints it has at its *)
(* provider, and its card in the catalog.  Requests write what is wanted   *)
(* (ModelDeploymentsService); ticks of the reconcile loop read the row,    *)
(* call the provider and write what they saw (ModelDeploymentsProcessor).  *)
(* A tick keeps its copy of the row across provider calls that take        *)
(* seconds or minutes, and ticks of the sweep, of the row's own job and of *)
(* other replicas overlap.                                                 *)
(*                                                                         *)
(* An action is one statement of the database or one call of the provider. *)
(***************************************************************************)
EXTENDS Naturals

CONSTANTS Ticks,        \* reconcile calls that may be under way at once
          Sweepers,     \* those of the sweep; the others run the row's own job
          MaxEndpoints, \* bound: endpoints ever created
          MaxErrors,    \* MAX_TRANSIENT_ERRORS
          MaxFaults,    \* bound: refusals, failed calls and crashes
          Requests,     \* requests of the organization's people, each made once
          Faults        \* what the environment may do, a subset of AllFaults

AllFaults == {"blip",    \* a provider call throws
              "refused", \* the credential cannot be used
              "ill",     \* the provider reports an endpoint failed or degraded
              "vanish",  \* the provider loses an endpoint
              "crash",   \* the process of a tick dies
              "spend",   \* the endpoint spends the deployment's budget
              "overlap", \* ticks overlap other than by waiting for one to deploy
              "slow",    \* an endpoint is recorded between a tick's read and its claim
              "stale"}   \* a request's save undoes what was written since it read the row

Endpoints == 1..MaxEndpoints
NoRef == 0

ASSUME HostedAssumption ==
    /\ Sweepers \subseteq Ticks
    /\ MaxEndpoints \in Nat /\ MaxFaults \in Nat /\ MaxErrors \in Nat \ {0}
    /\ Faults \subseteq AllFaults

VARIABLES row,    \* the model_deployments row
          card,   \* the catalog card, as the router sees it
          cloud,  \* the endpoints at the provider
          over,   \* what was spent has reached the budget's limit
          job,    \* the row's own job: none, waiting, or the tick that runs it
          tick,   \* where each reconcile call is, and its copy of the row
          requests, \* where each request is, and its copy of the row
          faults, \* the refusals, failed calls and crashes so far
          died,   \* history: the endpoints that crashes left unrecorded,
                  \* and whether one left the card uncleared
          asked   \* history: somebody asked for the teardown
vars == <<row, card, cloud, over, job, tick, requests, faults, died, asked>>

-----------------------------------------------------------------------------
Terminal == {"torn_down", "orphaned"}
Swept == {"pending", "deploying", "ready", "degraded", "scaling", "tearing_down"}

\* want and going are desired (replicas, teardownRequested), errors and
\* missing are actual (consecutiveErrors, and how long ago missingSince is);
\* lapsed stands for lastReconcileAt older than the deploy claim's lease.
Row == [state : Terminal \cup Swept \cup {"failed"}, ref : Endpoints \cup {NoRef},
        want : 0..1, going : BOOLEAN, errors : 0..MaxErrors,
        missing : {"no", "young", "old"}, lapsed : BOOLEAN]

Endpoint == [st : {"none", "starting", "up", "failed", "gone"}, rep : 0..1]
Card == [active : BOOLEAN, ref : BOOLEAN]

Tick == [pc : {"idle", "listed", "creds", "unroute", "delete", "forget", "merge", "torn",
               "claim", "deploy", "keep", "observe", "orphan", "fail", "scale", "keep_scaled",
               "ready", "move", "card", "cost", "stop", "cap_merge", "cap", "error",
               "clear", "clear_forget"},
         d : Row,                                                  \* its copy
         next : {"ready", "degraded", "deploying", "scaling"},
         serves : BOOLEAN]                                         \* servable

Request == [pc : {"new", "got", "over"}, d : Row]

NewRow == [state |-> "pending", ref |-> NoRef, want |-> 1, going |-> FALSE,
           errors |-> 0, missing |-> "no", lapsed |-> FALSE]
NewRequest == [pc |-> "new", d |-> NewRow]
Idle == [pc |-> "idle", d |-> NewRow, next |-> "deploying", serves |-> FALSE]

\* create: the row is pending, its card not routable yet, its job queued
\* (or not: enqueue forgives the queue).
Init ==
    /\ row = NewRow
    /\ card = [active |-> FALSE, ref |-> TRUE]
    /\ cloud = [e \in Endpoints |-> [st |-> "none", rep |-> 1]]
    /\ over = FALSE
    /\ job \in {"none", "waiting"}
    /\ tick = [t \in Ticks |-> Idle]
    /\ requests = [q \in Requests |-> NewRequest]
    /\ faults = 0
    /\ died = [lost |-> {}, lit |-> FALSE]
    /\ asked = FALSE

At(t, p) == tick[t].pc = p
Go(t, p) == tick' = [tick EXCEPT ![t].pc = p]
Mine(t) == tick[t].d

Fault(kind) ==
    /\ kind \in Faults /\ faults < MaxFaults
    /\ faults' = faults + 1

\* The tick returns; its job is off the queue.
Return(t) ==
    /\ tick' = [tick EXCEPT ![t] = Idle]
    /\ job' = IF job = t THEN "none" ELSE job

-----------------------------------------------------------------------------
\* Requests.  scale and teardown read the row, change their copy of it and
\* save that: every column that differs from the row is written back, the
\* ones the request is not about too.  Then the row's job is queued.

\* The ticks that have read the row.
Flying == {t \in Ticks : tick[t].pc \notin {"idle", "listed"}}

Get(q) ==
    /\ requests[q].pc = "new"
    /\ requests' = [requests EXCEPT ![q] = [pc |-> "got", d |-> row]]
    /\ UNCHANGED <<row, card, cloud, over, job, tick, faults, died, asked>>

\* What a request is about: some replicas, or the teardown.
Changed(kind, d) ==
    CASE kind = "start" -> [d EXCEPT !.want = 1]
      [] kind = "stop" -> [d EXCEPT !.want = 0]
      [] kind = "teardown" -> [d EXCEPT !.state = "tearing_down", !.going = TRUE]

\* The copy as it is saved.  Its instants are as old as they are now: time
\* that has passed for the row has passed for the copy.
Saved(q, kind) ==
    Changed(kind, [requests[q].d EXCEPT !.lapsed = @ \/ row.lapsed,
                                        !.missing = IF @ = "young" /\ row.missing = "old" THEN "old" ELSE @])

\* What a save can undo that was written since the copy was read: the
\* endpoint's reference, a teardown, the claim of a deploy, or that the row
\* failed or is over and no longer so.  (A state of an endpoint that is there,
\* and what was counted or seen of it, are written again by the next tick.)
Serving == {"deploying", "ready", "degraded", "scaling"}

Undoes(r, now) ==
    \/ r.ref # now.ref \/ r.going # now.going
    \/ /\ r.state # now.state \/ r.lapsed # now.lapsed
       /\ now.ref = NoRef \/ r.state \notin Serving \/ now.state \notin Serving \cup {"failed"}

Save(q, kind) ==
    /\ requests[q].pc = "got"
    /\ Undoes(Saved(q, kind), Changed(kind, row)) => "stale" \in Faults
    /\ row' = Saved(q, kind)
    /\ requests' = [requests EXCEPT ![q] = [NewRequest EXCEPT !.pc = "over"]]
    /\ job' \in IF job = "none" THEN {"none", "waiting"} ELSE {job}
    /\ UNCHANGED <<card, cloud, over, tick, faults, died>>

Scale(q) == UNCHANGED asked /\ \E kind \in {"start", "stop"} : Save(q, kind)

\* (A row read as being torn down is not saved again: its job is queued, for
\* which the sweep does not wait.)
Teardown(q) ==
    /\ requests[q].d.state # "tearing_down"
    /\ "overlap" \in Faults \/ \A s, t \in Flying : s = t
    /\ Save(q, "teardown")
    /\ asked' = TRUE

-----------------------------------------------------------------------------
\* A tick begins

\* handleSweep lists the row: a failed one only while it has an endpoint.
Listed_NoFailed == row.state \in Swept \* mutant
Listed == row.state \in Swept \/ (row.state = "failed" /\ row.ref # NoRef)

Sweep(t) ==
    /\ At(t, "idle") /\ t \in Sweepers
    /\ Listed
    /\ Go(t, "listed")
    /\ UNCHANGED <<row, card, cloud, over, job, requests, faults, died, asked>>

HandleOne(t) ==
    /\ At(t, "idle") /\ t \notin Sweepers
    /\ job = "waiting"
    /\ job' = t
    /\ Go(t, "listed")
    /\ UNCHANGED <<row, card, cloud, over, requests, faults, died, asked>>

\* Ticks overlap while one of them deploys; otherwise only with that fault.
MayOverlap ==
    \/ "overlap" \in Faults \/ Flying = {}
    \/ row.ref = NoRef /\ ~row.going /\ \A s \in Flying : tick[s].pc \in {"creds", "claim", "deploy", "keep"}

\* reconcile reads the row; one that is finished is left alone.
Done == row.state \in Terminal

Read(t) ==
    /\ At(t, "listed") /\ MayOverlap
    /\ IF Done THEN Return(t)
       ELSE tick' = [tick EXCEPT ![t].pc = "creds", ![t].d = row] /\ UNCHANGED job
    /\ UNCHANGED <<row, card, cloud, over, requests, faults, died, asked>>

\* The credential, and the branch.
GoingAway_State(t) == Mine(t).state = "tearing_down" \* mutant
GoingAway(t) == Mine(t).state = "tearing_down" \/ Mine(t).going

Credentials(t) ==
    /\ At(t, "creds")
    /\ Go(t, IF GoingAway(t) THEN "unroute" ELSE IF Mine(t).ref = NoRef THEN "claim" ELSE "observe")
    /\ UNCHANGED <<row, card, cloud, over, job, requests, faults, died, asked>>

Refused(t) ==
    /\ Fault("refused")
    /\ At(t, "creds")
    /\ "overlap" \in Faults \/ Flying = {t}
    /\ Go(t, "error")
    /\ UNCHANGED <<row, card, cloud, over, job, requests, died, asked>>

-----------------------------------------------------------------------------
\* The teardown: the card goes dark, the endpoint is deleted, the card
\* forgets it, and the row is torn down, with desired as it stands now.

Dark(forget) == [active |-> FALSE, ref |-> card.ref /\ ~forget]

Unroute(t) ==
    /\ At(t, "unroute")
    /\ card' = Dark(FALSE)
    /\ Go(t, IF Mine(t).ref = NoRef THEN "forget" ELSE "delete")
    /\ UNCHANGED <<row, cloud, over, job, requests, faults, died, asked>>

Delete(t) ==
    /\ At(t, "delete")
    /\ cloud' = [cloud EXCEPT ![Mine(t).ref].st = "gone"]
    /\ Go(t, "forget")
    /\ UNCHANGED <<row, card, over, job, requests, faults, died, asked>>

Forget(t) ==
    /\ At(t, "forget")
    /\ card' = Dark(TRUE)
    /\ Go(t, "merge")
    /\ UNCHANGED <<row, cloud, over, job, requests, faults, died, asked>>

Desires(t) == [Mine(t) EXCEPT !.want = row.want, !.going = row.going]

MergeTorn(t) ==
    /\ At(t, "merge")
    /\ tick' = [tick EXCEPT ![t].pc = "torn", ![t].d = Desires(t)]
    /\ UNCHANGED <<row, card, cloud, over, job, requests, faults, died, asked>>

TornDown(t) ==
    /\ At(t, "torn")
    /\ row' = [row EXCEPT !.state = "torn_down", !.ref = NoRef, !.lapsed = FALSE,
                          !.want = Mine(t).want, !.going = FALSE,
                          !.errors = Mine(t).errors, !.missing = Mine(t).missing]
    /\ Return(t)
    /\ UNCHANGED <<card, cloud, over, requests, faults, died, asked>>

-----------------------------------------------------------------------------
\* The deploy: claimed by the row's state, unless the claim is stale.

Claimable_Always == TRUE \* mutant
Claimable == row.state # "deploying" \/ row.lapsed

Claim(t) ==
    /\ At(t, "claim")
    /\ IF Claimable
       THEN /\ row' = [row EXCEPT !.state = "deploying", !.lapsed = FALSE]
            /\ tick' = [tick EXCEPT ![t].pc = "deploy", ![t].d.state = "deploying"]
            /\ UNCHANGED job
       ELSE Return(t) /\ UNCHANGED row
    /\ UNCHANGED <<card, cloud, over, requests, faults, died, asked>>

New(e) == cloud[e].st = "none" /\ \A f \in Endpoints : f < e => cloud[f].st # "none"

Deploy(t) ==
    /\ At(t, "deploy")
    /\ \E e \in Endpoints :
        /\ New(e)
        /\ cloud' = [cloud EXCEPT ![e] = [st |-> "starting", rep |-> Mine(t).want]]
        /\ tick' = [tick EXCEPT ![t].pc = "keep", ![t].d.ref = e]
    /\ UNCHANGED <<row, card, over, job, requests, faults, died, asked>>

KeepRef(t) ==
    /\ At(t, "keep")
    /\ "slow" \in Faults \/ \A s \in Ticks : tick[s].pc \notin {"creds", "claim"}
    /\ row' = [row EXCEPT !.ref = Mine(t).ref]
    /\ Go(t, "observe")
    /\ UNCHANGED <<card, cloud, over, job, requests, faults, died, asked>>

\* The lease is longer than the slowest deploy: it passes only when no tick
\* that saw or made the row deploying is still under way.
ClaimLapses ==
    /\ row.state = "deploying" /\ row.ref = NoRef /\ ~row.lapsed
    /\ \A t \in Flying : Mine(t).state # "deploying"
    /\ row' = [row EXCEPT !.lapsed = TRUE]
    /\ UNCHANGED <<card, cloud, over, job, tick, requests, faults, died, asked>>

-----------------------------------------------------------------------------
\* The endpoint is read, and the row moved to what it shows

\* What readEndpoint reports; the replicas only of an endpoint that is up.
Shown(e) == CASE cloud[e].st = "gone" -> "missing"
              [] cloud[e].st = "failed" -> "failed"
              [] cloud[e].st = "starting" -> "deploying"
              [] OTHER -> IF cloud[e].rep = 0 THEN "stopped" ELSE "ready"

Moved_AsShown(t, shown) == shown \* mutant
\* deploying is also what is written for an endpoint that scales by itself.
Moved(t, shown) ==
    CASE shown = "ready" -> "ready"
      [] shown = "stopped" -> IF Mine(t).want = 0 THEN "ready" ELSE "degraded"
      [] shown = "degraded" -> "degraded"
      [] OTHER -> "deploying"

Observe(t) ==
    LET e == Mine(t).ref
    IN /\ At(t, "observe")
       /\ \E shown \in {Shown(e)} \cup
             (IF "ill" \in Faults /\ Shown(e) = "ready" THEN {"degraded"} ELSE {}) :
            LET next == Moved(t, shown)
                serves == next = "ready" /\ shown = "ready"
            IN tick' = [tick EXCEPT ![t] =
                 [pc |-> IF shown = "missing" THEN "orphan"
                         ELSE IF shown = "failed" THEN "fail"
                         ELSE IF cloud[e].st = "up" /\ cloud[e].rep # Mine(t).want THEN "scale"
                         ELSE IF serves /\ Mine(t).state # "ready" THEN "ready" ELSE "move",
                  d |-> [@.d EXCEPT !.errors = 0], next |-> next, serves |-> serves]]
       /\ UNCHANGED <<row, card, cloud, over, job, requests, faults, died, asked>>

\* markOrphan: within its grace a deploying endpoint may be missing.
Orphan(t) ==
    /\ At(t, "orphan")
    /\ LET since == IF Mine(t).missing = "no" THEN "young" ELSE Mine(t).missing
       IN IF Mine(t).state = "deploying" /\ since = "young"
          THEN row' = [row EXCEPT !.missing = since, !.errors = 0, !.lapsed = FALSE] /\ Return(t)
          ELSE /\ row' = [row EXCEPT !.state = "orphaned", !.missing = since, !.errors = 0, !.lapsed = FALSE]
               /\ Go(t, "clear_forget")
               /\ UNCHANGED job
    /\ UNCHANGED <<card, cloud, over, requests, faults, died, asked>>

GraceEnds ==
    /\ row.missing = "young"
    /\ row' = [row EXCEPT !.missing = "old"]
    /\ UNCHANGED <<card, cloud, over, job, tick, requests, faults, died, asked>>

\* desired replicas differ: scale, record the ref, and look again next time.
ScaleTo(t) ==
    /\ At(t, "scale")
    /\ cloud' = [cloud EXCEPT ![Mine(t).ref].rep = Mine(t).want]
    /\ Go(t, "keep_scaled")
    /\ UNCHANGED <<row, card, over, job, requests, faults, died, asked>>

KeepScaled(t) ==
    /\ At(t, "keep_scaled")
    /\ row' = [row EXCEPT !.ref = Mine(t).ref, !.errors = 0, !.missing = Mine(t).missing]
    /\ tick' = [tick EXCEPT ![t].pc = "move", ![t].next = "scaling"]
    /\ UNCHANGED <<card, cloud, over, job, requests, faults, died, asked>>

\* claimReady, then transition.
ClaimReady(t) ==
    /\ At(t, "ready")
    /\ row' = [row EXCEPT !.state = "ready"]
    /\ Go(t, "move")
    /\ UNCHANGED <<card, cloud, over, job, requests, faults, died, asked>>

Transition_WholeRow(t) == \* mutant
    /\ At(t, "move")
    /\ row' = [Mine(t) EXCEPT !.state = tick[t].next, !.lapsed = FALSE]
    /\ IF tick[t].next = "scaling" THEN Return(t) ELSE Go(t, "card") /\ UNCHANGED job
    /\ UNCHANGED <<card, cloud, over, requests, faults, died, asked>>
Transition(t) ==
    /\ At(t, "move")
    /\ row' = [row EXCEPT !.state = tick[t].next, !.lapsed = FALSE]
    /\ IF tick[t].next = "scaling" THEN Return(t) ELSE Go(t, "card") /\ UNCHANGED job
    /\ UNCHANGED <<card, cloud, over, requests, faults, died, asked>>

\* The card is lit by an endpoint that serves, and cleared by one that is
\* stopped or degraded.
SetCard(t) ==
    /\ At(t, "card")
    /\ card' = IF tick[t].serves THEN [active |-> TRUE, ref |-> TRUE]
               ELSE IF tick[t].next # "deploying" THEN Dark(FALSE) ELSE card
    /\ Go(t, "cost")
    /\ UNCHANGED <<row, cloud, over, job, requests, faults, died, asked>>

\* chargeBudget: what was spent is read and written with the tick's actual.
Charge(t) ==
    /\ At(t, "cost")
    /\ row' = [row EXCEPT !.errors = 0, !.missing = Mine(t).missing, !.lapsed = FALSE]
    /\ IF over /\ Mine(t).want > 0 THEN Go(t, "stop") /\ UNCHANGED job ELSE Return(t)
    /\ UNCHANGED <<card, cloud, over, requests, faults, died, asked>>

StopSpending(t) ==
    /\ At(t, "stop")
    /\ cloud' = [cloud EXCEPT ![Mine(t).ref].rep = 0]
    /\ Go(t, "cap_merge")
    /\ UNCHANGED <<row, card, over, job, requests, faults, died, asked>>

MergeCap(t) ==
    /\ At(t, "cap_merge")
    /\ tick' = [tick EXCEPT ![t].pc = "cap", ![t].d = Desires(t)]
    /\ UNCHANGED <<row, card, cloud, over, job, requests, faults, died, asked>>

Cap(t) ==
    /\ At(t, "cap")
    /\ row' = [row EXCEPT !.want = 0, !.going = Mine(t).going, !.ref = Mine(t).ref]
    /\ Return(t)
    /\ UNCHANGED <<card, cloud, over, requests, faults, died, asked>>

-----------------------------------------------------------------------------
\* Errors

\* A provider call throws.
Throws(t) ==
    /\ Fault("blip")
    /\ tick[t].pc \in {"delete", "deploy", "observe", "scale", "cost", "stop"}
    /\ Go(t, "error")
    /\ UNCHANGED <<row, card, cloud, over, job, requests, died, asked>>

More(n) == IF n < MaxErrors THEN n + 1 ELSE n

\* recordError: a teardown that failed is kept for the next tick; an error
\* that says the deployment is wrong, the last of several in a row, or one
\* with no endpoint is a failure; any other leaves the row degraded.
RecordError(t) ==
    /\ At(t, "error")
    /\ \/ /\ GoingAway(t)
          /\ row' = [row EXCEPT !.errors = More(Mine(t).errors), !.missing = Mine(t).missing, !.lapsed = FALSE]
          /\ Return(t)
       \/ /\ ~GoingAway(t)
          /\ "refused" \in Faults \/ Mine(t).errors + 1 >= MaxErrors \/ Mine(t).ref = NoRef
          /\ Go(t, "fail")
          /\ UNCHANGED <<row, job>>
       \/ /\ ~GoingAway(t)
          /\ Mine(t).errors + 1 < MaxErrors /\ Mine(t).ref # NoRef
          /\ row' = [row EXCEPT !.state = "degraded", !.errors = More(Mine(t).errors),
                                !.missing = Mine(t).missing, !.lapsed = FALSE]
          /\ Go(t, "clear")
          /\ UNCHANGED job
    /\ UNCHANGED <<card, cloud, over, requests, faults, died, asked>>

Fail(t) ==
    /\ At(t, "fail")
    /\ row' = [row EXCEPT !.state = "failed", !.lapsed = FALSE]
    /\ Go(t, "clear")
    /\ UNCHANGED <<card, cloud, over, job, requests, faults, died, asked>>

Clearing(t) == tick[t].pc \in {"clear", "clear_forget"}

ClearCard_Keeps(t) == Clearing(t) /\ Return(t) \* mutant
                      /\ UNCHANGED <<row, card, cloud, over, requests, faults, died, asked>>
ClearCard(t) ==
    /\ Clearing(t)
    /\ card' = Dark(At(t, "clear_forget"))
    /\ Return(t)
    /\ UNCHANGED <<row, cloud, over, requests, faults, died, asked>>

Creating(t) == IF At(t, "keep") THEN {Mine(t).ref} ELSE {}

Crash(t) ==
    /\ Fault("crash")
    /\ ~At(t, "idle")
    /\ died' = [lost |-> died.lost \cup Creating(t), lit |-> died.lit \/ Clearing(t)]
    /\ tick' = [tick EXCEPT ![t] = Idle]
    /\ job' \in IF job = t THEN {"none", "waiting"} ELSE {job}
    /\ UNCHANGED <<row, card, cloud, over, requests, asked>>

-----------------------------------------------------------------------------
\* The provider

Becomes(e, from, to) ==
    /\ cloud[e].st \in from
    /\ cloud' = [cloud EXCEPT ![e].st = to]
    /\ UNCHANGED <<row, card, over, job, tick, requests, faults, died, asked>>

Starts(e) == Becomes(e, {"starting"}, "up")
FailsThere(e) == "ill" \in Faults /\ Becomes(e, {"starting", "up"}, "failed")
Vanishes(e) == "vanish" \in Faults /\ Becomes(e, {"starting", "up", "failed"}, "gone")

Running(e) == cloud[e].st = "up" /\ cloud[e].rep > 0

Spend ==
    /\ "spend" \in Faults
    /\ ~over
    /\ \E e \in Endpoints : Running(e)
    /\ over' = TRUE
    /\ UNCHANGED <<row, card, cloud, job, tick, requests, faults, died, asked>>

-----------------------------------------------------------------------------
TickStep(t) ==
    \/ Sweep(t) \/ HandleOne(t) \/ Read(t)
    \/ Unroute(t) \/ Forget(t) \/ MergeTorn(t) \/ TornDown(t)
    \/ Claim(t) \/ KeepRef(t) \/ Orphan(t) \/ KeepScaled(t) \/ ClaimReady(t) \/ Transition(t)
    \/ SetCard(t) \/ MergeCap(t) \/ Cap(t) \/ RecordError(t) \/ Fail(t) \/ ClearCard(t)
    \/ Credentials(t) \/ Delete(t) \/ Deploy(t) \/ Observe(t) \/ ScaleTo(t) \/ Charge(t) \/ StopSpending(t)

People == \E q \in Requests : Get(q) \/ Scale(q) \/ Teardown(q)

Provider == Spend \/ \E e \in Endpoints : Starts(e) \/ FailsThere(e) \/ Vanishes(e)

Next ==
    \/ \E t \in Ticks : TickStep(t) \/ Refused(t) \/ Throws(t) \/ Crash(t)
    \/ People \/ Provider
    \/ ClaimLapses \/ GraceEnds

Spec == Init /\ [][Next]_vars

\* The sweep's cron fires and its ticks go on, and a lease passes.  (KeepRef
\* is only ever held up by the assumption that a tick is not slow.)
FairSpec ==
    /\ Spec
    /\ \A t \in Ticks : WF_vars(TickStep(t)) /\ SF_vars(KeepRef(t))
    /\ WF_vars(ClaimLapses)

-----------------------------------------------------------------------------
\* Type invariant.
TypeOK ==
    /\ row \in Row
    /\ card \in Card
    /\ cloud \in [Endpoints -> Endpoint]
    /\ over \in BOOLEAN
    /\ job \in {"none", "waiting"} \cup Ticks
    /\ tick \in [Ticks -> Tick]
    /\ requests \in [Requests -> Request]
    /\ faults \in 0..MaxFaults
    /\ died \in [lost : SUBSET Endpoints, lit : BOOLEAN]
    /\ asked \in BOOLEAN

Billed(e) == cloud[e].st \in {"starting", "up"}

\* The properties below are about requests whose save undoes nothing that was
\* written since they read the row, and of ticks that neither overlap nor are
\* slow; with "stale" among the faults one request breaks each of them but
\* TeardownKept, which takes two.

\* No endpoint is created that nothing points at: whatever is billed is the
\* row's endpoint, or is being recorded by the tick that created it, unless
\* that tick's process died (the claim in reconcile; a save that keeps the
\* reference).
EndpointAccounted ==
    \A e \in Endpoints : Billed(e) =>
        row.ref = e \/ e \in died.lost \/ \E t \in Ticks : e \in Creating(t)

\* A teardown somebody asked for is not forgotten, whatever a tick that read
\* the row before writes after; and a row that is torn down is done, also
\* for a job left from before (teardown, writeObserved, recordError, and
\* reconcile's first check).
TeardownKept == asked => row.going \/ row.state \in Terminal \cup {"tearing_down"}

\* The router does not see a hosted model that is torn down, however the
\* teardown was interrupted; and one that failed or is orphaned only until
\* the tick that wrote so has cleared the card, or if it died before
\* (clearCard before the delete, and after fail and markOrphan).
RoutedOnlyWhileServed ==
    card.active =>
        /\ row.state # "torn_down"
        /\ row.state \in {"failed", "orphaned"} =>
             died.lit \/ \E t \in Ticks : Clearing(t)

\* Once a teardown was asked for, nothing of the hosted model is billed in
\* the end, for good, except what a dead tick never recorded: failed deletes
\* are tried again, a deploy under way is undone, and no later tick deploys
\* again (the teardown branch, recordError's first case, handleSweep).
TeardownHappens == asked ~> [](\A e \in Endpoints \ died.lost : ~Billed(e))

\* An endpoint that has spent its budget stops running and stays stopped,
\* also when it is scaled up again, failed for a while, or was read wrongly
\* (chargeBudget, and the failed rows of handleSweep).
CapStopsSpending == over ~> [](\A e \in Endpoints \ died.lost : ~Running(e))
=============================================================================
