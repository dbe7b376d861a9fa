--------------------------- MODULE ApprovalPolicy ---------------------------
(***************************************************************************)
(* One approval request governed by an approval policy: the people who     *)
(* decide it at the same time, the sweep that expires it, and the          *)
(* administrators who change the policy meanwhile.                         *)
(*                                                                         *)
(* A session is one call of approve() or reject() by one person; a person  *)
(* may have several.  Each database statement of a call is an action.      *)
(* (That a decision reaches the run it is about is DurableRun's subject.)  *)
(***************************************************************************)
EXTENDS Naturals, Sequences, FiniteSets

CONSTANTS
    Sessions,   \* the calls of decide() that may be in flight at once
    People,
    Who,        \* whose call each session is
    RolesOf,    \* the role names each person holds
    AnyRole,    \* approverRole "*"
    Policies,   \* the step sequences the governing policy may have
    NoPolicy,   \* the policy row was deleted
    Carried,    \* approvals a request may carry in its payload from the start
    Faults      \* the faults that may happen in this instance

ASSUME WhoAssumption == Who \in [Sessions -> People]
ASSUME PeopleAssumption == IsFiniteSet(People)
ASSUME PolicyAssumption ==
    /\ NoPolicy \notin Policies
    /\ \A p \in Policies :
          /\ Len(p) \in Nat /\ DOMAIN p = 1..Len(p)
          /\ \A k \in DOMAIN p : p[k].minApprovals \in Nat \ {0}
ASSUME PolicyFaultAssumption == Faults \subseteq {"crash", "throw", "roles", "lookup", "edit"}

VARIABLES
    status,    \* of the request
    rows,      \* approval_policy_approvals, oldest first
    payload,   \* payload._policy.approvals
    policy,    \* the policy's steps as stored now
    licensed,  \* the organization holds the approval_policy entitlement
    pc,        \* where each session's call is
    loaded,    \* the payload each call read with the request
    collected, \* the approvals each call collected
    ground,    \* what each call approves on: the steps it found satisfied, or NoPolicy
    sweeping,  \* the expiry sweep's find returned this request
    announced, \* history: approval.decided events emitted
    verdict,   \* history: the ground the request was approved on
    gone       \* history: the policy was deleted or the entitlement ended

callVars == <<pc, loaded, collected, ground>>
vars == <<status, rows, payload, policy, licensed, pc, loaded, collected, ground,
          sweeping, announced, verdict, gone>>

-----------------------------------------------------------------------------
(* ApprovalPolicyEvaluator.progress: the steps take their approvals in     *)
(* turn, greedily and oldest first; what one took no later one may take.   *)
(* Approvals are known by their place in the list.                         *)

approverMatches(step, a) == step.approverRole = AnyRole \/ step.approverRole \in a.roles

Matching(step, approvals, left) == {i \in left : approverMatches(step, approvals[i])}
Credit(step, approvals, left) ==
    {i \in Matching(step, approvals, left) :
        Cardinality({j \in Matching(step, approvals, left) : j < i}) < step.minApprovals}

Score(acc, step, approvals) ==
    LET used == IF acc.satisfied THEN Credit(step, approvals, acc.remaining) ELSE {}
    IN [remaining |-> acc.remaining \ used,
        satisfied |-> acc.satisfied /\ Cardinality(used) >= step.minApprovals]

\* After each number of steps.
progress(steps, approvals) ==
    LET after[n \in 0..Len(steps)] ==
            IF n = 0 THEN [remaining |-> DOMAIN approvals, satisfied |-> TRUE]
            ELSE Score(after[n - 1], steps[n], approvals)
    IN after

Satisfied(steps, approvals) == progress(steps, approvals)[Len(steps)].satisfied

-----------------------------------------------------------------------------
(* collectPolicyApprovals: a Map by approver, in the order of insertion,   *)
(* into which first the payload's approvals are set and then the rows.     *)

NamesOf(q) == {q[i].approver : i \in DOMAIN q}

SetApproval(q, a) ==
    IF a.approver \in NamesOf(q)
    THEN [i \in DOMAIN q |-> IF q[i].approver = a.approver THEN a ELSE q[i]]
    ELSE Append(q, a)

Entering(q, list) ==
    LET after[n \in 0..Len(list)] == IF n = 0 THEN q ELSE SetApproval(after[n - 1], list[n])
    IN after
Entered(q, list) == Entering(q, list)[Len(list)]

Collected_NoDedupe(carried) == carried \o rows \* mutant
Collected_OneRow(carried) == \* mutant
    LET new == {i \in DOMAIN rows : rows[i].approver \notin NamesOf(carried)}
    IN IF new = {} THEN carried ELSE Append(carried, rows[CHOOSE i \in new : \A j \in new : i <= j])
Collected(carried) == Entered(Entered(<<>>, carried), rows)

-----------------------------------------------------------------------------
\* An approval carries roles its approver holds, or fewer.
Approval == {a \in [approver : People, roles : SUBSET UNION {RolesOf[p] : p \in People}] :
               a.roles \subseteq RolesOf[a.approver]}
Distinct(q) == \A i, j \in DOMAIN q : q[i].approver = q[j].approver => i = j

ASSUME CarriedAssumption == \A q \in Carried : q \in Seq(Approval) /\ Distinct(q)

Decided == {"approved", "rejected", "expired"}

\* Type invariant.
TypeOK ==
    /\ status \in {"pending"} \cup Decided
    /\ \A q \in {rows, payload} \cup {f[s] : f \in {loaded, collected}, s \in Sessions} :
          q \in Seq(Approval) /\ Len(q) <= Cardinality(People)
    /\ policy \in Policies \cup {NoPolicy}
    /\ licensed \in BOOLEAN
    /\ pc \in [Sessions -> {"idle", "insert", "collect", "score", "snapshot", "approved", "rejected"}]
    /\ DOMAIN loaded = Sessions /\ DOMAIN collected = Sessions
    /\ ground \in [Sessions -> Policies \cup {NoPolicy}]
    /\ sweeping \in BOOLEAN
    /\ announced \in Nat
    /\ verdict \in Policies \cup {NoPolicy}
    /\ gone \in BOOLEAN

\* create() recorded the policy that governs the request; a request written
\* before approvals were rows may carry some in its payload.
Init ==
    /\ status = "pending"
    /\ rows = <<>>
    /\ payload \in Carried
    /\ policy \in Policies
    /\ licensed = TRUE
    /\ pc = [s \in Sessions |-> "idle"]
    /\ loaded = [s \in Sessions |-> <<>>]
    /\ collected = [s \in Sessions |-> <<>>]
    /\ ground = [s \in Sessions |-> NoPolicy]
    /\ sweeping = FALSE
    /\ announced = 0
    /\ verdict = NoPolicy
    /\ gone = FALSE

\* The call returned, threw or died with its process.
Return(s) ==
    /\ pc' = [pc EXCEPT ![s] = "idle"]
    /\ loaded' = [loaded EXCEPT ![s] = <<>>]
    /\ collected' = [collected EXCEPT ![s] = <<>>]
    /\ ground' = [ground EXCEPT ![s] = NoPolicy]

Goto(s, p) == pc' = [pc EXCEPT ![s] = p]

-----------------------------------------------------------------------------
(* decide().  The request is read, and refused unless it is pending.       *)

Approve(s) ==
    /\ pc[s] = "idle"
    /\ status = "pending"
    /\ Goto(s, "insert")
    /\ loaded' = [loaded EXCEPT ![s] = payload]
    /\ UNCHANGED <<status, rows, payload, policy, licensed, collected, ground,
                   sweeping, announced, verdict, gone>>

Reject(s) ==
    /\ pc[s] = "idle"
    /\ status = "pending"
    /\ Goto(s, "rejected")
    /\ UNCHANGED <<status, rows, payload, policy, licensed, loaded, collected, ground,
                   sweeping, announced, verdict, gone>>

\* applyPolicyProgress: the approval is a row of its own, with the roles the
\* person holds now; a role lookup that fails leaves roles out.
Insert(s) ==
    /\ pc[s] = "insert"
    /\ \A i \in DOMAIN rows : rows[i].approver # Who[s]
    /\ \E found \in IF "roles" \in Faults THEN SUBSET RolesOf[Who[s]] ELSE {RolesOf[Who[s]]} :
          rows' = Append(rows, [approver |-> Who[s], roles |-> found])
    /\ Goto(s, "collect")
    /\ UNCHANGED <<status, payload, policy, licensed, loaded, collected, ground,
                   sweeping, announced, verdict, gone>>

\* The unique index refuses a second approval of one person.
InsertRefused(s) ==
    /\ pc[s] = "insert"
    /\ \E i \in DOMAIN rows : rows[i].approver = Who[s]
    /\ Return(s)
    /\ UNCHANGED <<status, rows, payload, policy, licensed, sweeping, announced, verdict, gone>>

Collect(s) ==
    /\ pc[s] = "collect"
    /\ collected' = [collected EXCEPT ![s] = Collected(loaded[s])]
    /\ Goto(s, "score")
    /\ UNCHANGED <<status, rows, payload, policy, licensed, loaded, ground,
                   sweeping, announced, verdict, gone>>

-----------------------------------------------------------------------------
(* scoreProgress (the hook): the entitlement, then the policy as it stands *)
(* now.  Null, for either missing, is the single gate: approve at once.    *)

ApproveOn(s, g) ==
    /\ Goto(s, "approved")
    /\ ground' = [ground EXCEPT ![s] = g]
    /\ UNCHANGED <<status, rows, payload, policy, licensed, loaded, collected,
                   sweeping, announced, verdict, gone>>

ScoreNull(s) ==
    /\ pc[s] = "score"
    /\ ~licensed \/ policy = NoPolicy
    /\ ApproveOn(s, NoPolicy)

\* The organization's row could not be read: entitlementsForOrg falls back
\* to the community entitlements, which lack approval_policy.
LicenseUnreadable(s) ==
    /\ "lookup" \in Faults
    /\ pc[s] = "score"
    /\ ApproveOn(s, NoPolicy)

ScoreSatisfied(s) ==
    /\ pc[s] = "score"
    /\ licensed /\ policy # NoPolicy
    /\ Satisfied(policy, collected[s])
    /\ ApproveOn(s, policy)

ScoreShort(s) ==
    /\ pc[s] = "score"
    /\ licensed /\ policy # NoPolicy
    /\ ~Satisfied(policy, collected[s])
    /\ Goto(s, "snapshot")
    /\ UNCHANGED <<status, rows, payload, policy, licensed, loaded, collected, ground,
                   sweeping, announced, verdict, gone>>

\* The policy could not be read: the request stays pending, the caller is
\* told to try again.
ScoreThrows_Degrades(s) == \* mutant
    "throw" \in Faults /\ pc[s] = "score" /\ ApproveOn(s, NoPolicy)
ScoreThrows(s) ==
    /\ "throw" \in Faults
    /\ pc[s] = "score"
    /\ Return(s)
    /\ UNCHANGED <<status, rows, payload, policy, licensed, sweeping, announced, verdict, gone>>

\* Still short: the snapshot is written, whatever the request is by now.
Snapshot(s) ==
    /\ pc[s] = "snapshot"
    /\ payload' = collected[s]
    /\ Return(s)
    /\ UNCHANGED <<status, rows, policy, licensed, sweeping, announced, verdict, gone>>

-----------------------------------------------------------------------------
(* The flip: only the writer who moves the row off pending announces it.   *)

Flippable_Always == TRUE \* mutant
Flippable == status = "pending"

Flip(s) ==
    /\ pc[s] \in Decided
    /\ IF Flippable
       THEN /\ status' = pc[s]
            /\ announced' = announced + 1
            /\ verdict' = IF pc[s] = "approved" THEN ground[s] ELSE verdict
       ELSE UNCHANGED <<status, announced, verdict>>
    /\ Return(s)
    /\ UNCHANGED <<rows, payload, policy, licensed, sweeping, gone>>

\* sweepExpired finds the pending requests past their time, then flips each.
SweepFinds ==
    /\ status = "pending"
    /\ ~sweeping
    /\ sweeping' = TRUE
    /\ UNCHANGED <<status, rows, payload, policy, licensed, callVars, announced, verdict, gone>>

SweepFlips ==
    /\ sweeping
    /\ sweeping' = FALSE
    /\ IF Flippable
       THEN status' = "expired" /\ announced' = announced + 1
       ELSE UNCHANGED <<status, announced>>
    /\ UNCHANGED <<rows, payload, policy, licensed, callVars, verdict, gone>>

-----------------------------------------------------------------------------
(* Administrators, and a process that dies.                                *)

UpdatePolicy(p) ==
    /\ "edit" \in Faults
    /\ policy # NoPolicy
    /\ policy' = p
    /\ UNCHANGED <<status, rows, payload, licensed, callVars, sweeping, announced, verdict, gone>>

RemovePolicy ==
    /\ "edit" \in Faults
    /\ policy # NoPolicy
    /\ policy' = NoPolicy
    /\ gone' = TRUE
    /\ UNCHANGED <<status, rows, payload, licensed, callVars, sweeping, announced, verdict>>

\* The plan changes; the entitlement may come back.
ChangePlan ==
    /\ "edit" \in Faults
    /\ licensed' = ~licensed
    /\ gone' = TRUE
    /\ UNCHANGED <<status, rows, payload, policy, callVars, sweeping, announced, verdict>>

Crash(s) ==
    /\ "crash" \in Faults
    /\ pc[s] # "idle"
    /\ Return(s)
    /\ UNCHANGED <<status, rows, payload, policy, licensed, sweeping, announced, verdict, gone>>

-----------------------------------------------------------------------------
Next ==
    \/ \E s \in Sessions :
          \/ Approve(s) \/ Reject(s) \/ Insert(s) \/ InsertRefused(s) \/ Collect(s)
          \/ ScoreNull(s) \/ LicenseUnreadable(s) \/ ScoreSatisfied(s) \/ ScoreShort(s)
          \/ ScoreThrows(s) \/ Snapshot(s) \/ Flip(s) \/ Crash(s)
    \/ SweepFinds \/ SweepFlips
    \/ \E p \in Policies : UpdatePolicy(p)
    \/ RemovePolicy \/ ChangePlan

Spec == Init /\ [][Next]_vars

-----------------------------------------------------------------------------
(* Properties.                                                             *)

Slots(steps) == {x \in (DOMAIN steps) \X (1..Cardinality(People)) : x[2] <= steps[x[1]].minApprovals}
Fills(p, step) == step.approverRole = AnyRole \/ step.approverRole \in RolesOf[p]
Approvers == NamesOf(rows) \cup NamesOf(payload)

\* Of these people there is a different one for every approval each step
\* asks for, who holds the step's role.
FilledBy(steps, names) ==
    /\ \E f \in [Slots(steps) -> names] :
          /\ \A x, y \in Slots(steps) : f[x] = f[y] => x = y
          /\ \A x \in Slots(steps) : Fills(f[x], steps[x[1]])
    /\ \A k \in DOMAIN steps : steps[k].minApprovals <= Cardinality(People)

\* approval-policy.evaluator.ts progress, applyPolicyProgress: a request
\* approved by its policy has, for every approval each step asks for, a
\* different person who approved it and holds the step's role.  However the
\* reviewers overlap, repeat themselves, or the payload repeats the rows,
\* nobody is counted twice, within a step or across steps.
QuorumOfPeople ==
    (status = "approved" /\ verdict # NoPolicy) => FilledBy(verdict, Approvers)

\* approvals.service.ts applyPolicyProgress: the last approval a policy asks
\* for is never lost between reviewers who act at once; a request that is
\* pending with nobody in the middle of a decision is one whose approvals do
\* not satisfy its policy.
QuorumTakesEffect ==
    (/\ status = "pending"
     /\ rows # <<>>
     /\ \A s \in Sessions : pc[s] = "idle")
    => policy = NoPolicy \/ ~Satisfied(policy, Collected(payload))

\* approvals.service.ts applyPolicyProgress: only a policy that was deleted
\* or an entitlement that ended makes a governed request a single gate; a
\* transient error does not.
SingleGateOnlyWhenGone == (status = "approved" /\ verdict = NoPolicy) => gone

\* approvals.service.ts "The flip IS the guard": reviewers and the sweep may
\* all have read the request pending, one decision is made and announced.
DecidedOnce ==
    [][status # "pending" => status' = status /\ announced' = announced]_vars
=============================================================================
