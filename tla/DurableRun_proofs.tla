------------------------- MODULE DurableRun_proofs -------------------------
(***************************************************************************)
(* Proofs about DurableRun, for any number of workers, tokens, calls,      *)
(* steps, takeovers and attempts, and with any of the faults:              *)
(*   - the type invariant;                                                 *)
(*   - HolderSawLatest, the fencing of a lease holder's copy of the run;   *)
(*   - that the run's work changes as AtomicSteps says;                    *)
(*   - that only the two unguarded writers reopen a run that is over;      *)
(* and, with hypotheses on the faults or the calls that each of them       *)
(* needs: that takeovers are counted and capped, that a result is handed   *)
(* on when the run is over, that one live worker holds the lease, and that *)
(* a held call is made once.                                               *)
(***************************************************************************)
EXTENDS DurableRun, TLAPS

-----------------------------------------------------------------------------
(* The inductive invariant.                                                *)

\* A worker has a token exactly while its claim's lease is being renewed, and
\* no two workers have the same one: what makes "leaseOwner = token" a fence.
TokenInv ==
    /\ \A w \in Workers : token[w] # NoToken <=> pc[w] \in Leased
    /\ \A u, w \in Workers : u # w /\ token[u] # NoToken => token[u] # token[w]

\* What each loop of a step has gathered, in terms of what it was given.
WorkOf(w) ==
    /\ pc[w] \in {"idle", "lapsed", "claimed", "loaded"} => still[w] = {} /\ gated[w] = {}
    /\ pc[w] = "waking" => /\ mem[w].waking # {}
                           /\ todo[w] \cup still[w] \subseteq mem[w].waking
    /\ pc[w] = "settling" => /\ mem[w].waking = {} /\ mem[w].held # {}
                             /\ todo[w] \cup gated[w] \subseteq mem[w].held
    /\ pc[w] \in {"asked", "tools"} => mem[w].held = {} /\ mem[w].waking = {}
    /\ asking[w] # NoCall => pc[w] \in {"waking", "tools"}
    /\ asking[w] \in Requests => pc[w] = "tools"
    /\ pc[w] = "giveup" => mem[w].status \notin Terminal
WorkInv == \A w \in Workers : WorkOf(w)

\* What a worker about to write would do to the row's work: leave it, or take
\* it one step on.
Keeps(w) == mem[w].currentStep = row.currentStep /\ mem[w].held = row.held /\ mem[w].waking = row.waking
StepsOn(w) == Atomic!StepRel(row.currentStep, row.held, row.waking,
                             mem[w].currentStep, mem[w].held, mem[w].waking)

WriteOf(w) ==
    (pc[w] \in {"commit", "persist"} /\ row.leaseOwner = token[w])
    => mem[w].expected = row.currentStep /\ (Keeps(w) \/ StepsOn(w))
WriteInv == \A w \in Workers : WriteOf(w)

IInv == TypeOK /\ TokenInv /\ WorkInv /\ HolderSawLatest /\ WriteInv

-----------------------------------------------------------------------------
(* The type invariant.                                                     *)

PcType == Leased \cup Outcomes \cup {"idle", "lapsed", "giveup", "handing"}

LEMMA SetStatusType ==
    ASSUME NEW r \in RowType, NEW s \in Statuses
    PROVE  SetStatus(r, s) \in RowType
BY DEF SetStatus, withWake, RowType, Statuses

LEMMA NudgeType == ASSUME NEW s \in Nat PROVE Nudge(s) \in JobType
BY BoundAssumption DEF Nudge, JobType

LEMMA NoneTypes == NoMem \in MemType /\ NoSeen \in [owner : TokenOrNone, takeovers : Nat] /\ NoJob \in JobType
BY DEF NoMem, MemType, NoSeen, NoJob, JobType, TokenOrNone, Statuses, Claimable

\* The worker's variables, with the ones only time, claims or approvals change.
WorkerTypes ==
    /\ pc \in [Workers -> PcType]
    /\ job \in [Workers -> JobType]
    /\ token \in [Workers -> TokenOrNone]
    /\ seen \in [Workers -> [owner : TokenOrNone, takeovers : Nat]]
    /\ mem \in [Workers -> MemType]
    /\ todo \in [Workers -> SUBSET Holdable]
    /\ still \in [Workers -> SUBSET ToolCalls]
    /\ gated \in [Workers -> SUBSET Holdable]
    /\ asking \in [Workers -> Calls \cup {NoCall}]
    /\ outcome \in [Workers -> Outcomes]

OutsideTypes ==
    /\ approval \in [Calls -> {"none", "pending", "approved", "rejected", "expired"}]
    /\ handler \in [Calls -> {"none", "emitted", "read", "over"}]
    /\ resumeAt \in [Calls -> Nat]
    /\ ran \in [ToolCalls -> 0..2]
    /\ reaping \in BOOLEAN

LEMMA TypeSplit == TypeOK <=> row \in RowType /\ jobs \subseteq JobType /\ WorkerTypes /\ OutsideTypes
BY DEF TypeOK, WorkerTypes, OutsideTypes, PcType

LEMMA TypeSplitNext == TypeOK' <=> row' \in RowType /\ jobs' \subseteq JobType /\ WorkerTypes' /\ OutsideTypes'
BY DEF TypeOK, WorkerTypes, OutsideTypes, PcType

LEMMA LeaveType ==
    ASSUME WorkerTypes, NEW w \in Workers, NEW p \in PcType, NEW j \in JobType, Leave(w, p, j)
    PROVE  WorkerTypes'
BY NoneTypes DEF WorkerTypes, Leave, TokenOrNone, Outcomes

LEMMA ToWriteType ==
    ASSUME TypeOK, NEW w \in Workers, NEW p \in PcType, NEW st \in Statuses, NEW s \in Nat,
           NEW h \in SUBSET Holdable, NEW k \in SUBSET ToolCalls, NEW o \in Outcomes,
           ToWrite(w, p, st, s, h, k, o)
    PROVE  TypeOK'
BY DEF ToWrite, TypeOK, PcType, MemType, OutsideVars

LEMMA TypeClaims ==
    ASSUME TypeOK, NEW w \in Workers, Claims(w)
    PROVE  TypeOK'
<1>1. CASE \E j \in jobs : ClaimFree(w, j)
    <2> PICK j \in jobs, t \in Tokens :
              /\ row' = [row EXCEPT !.leaseOwner = t, !.lapsed = FALSE]
              /\ token' = [token EXCEPT ![w] = t]
              /\ ClaimFree(w, j)
        BY <1>1 DEF ClaimFree
    <2>1. row' \in RowType
        BY DEF TypeOK, RowType, TokenOrNone
    <2>2. token' \in [Workers -> TokenOrNone]
        BY DEF TypeOK, TokenOrNone
    <2> QED
        BY <2>1, <2>2 DEF ClaimFree, TypeOK, Leased
<1>2. CASE \E j \in jobs : FindLapsed(w, j)
    BY <1>2 DEF FindLapsed, TypeOK, RowType, TokenOrNone
<1>3. CASE \E j \in jobs : NotClaimed(w, j)
    BY <1>3, LeaveType, NoneTypes, TypeSplit, TypeSplitNext
       DEF NotClaimed, Refused, OutsideTypes, PcType, Outcomes
<1>4. CASE TakeOver(w)
    <2> PICK t \in Tokens :
              /\ row' = [row EXCEPT !.leaseOwner = t, !.lapsed = FALSE, !.stale = FALSE,
                                    !.takeovers = seen[w].takeovers + 1]
              /\ token' = [token EXCEPT ![w] = t]
        BY <1>4 DEF TakeOver
    <2>1. row' \in RowType
        <3>1. seen[w].takeovers + 1 \in Nat
            BY DEF TypeOK
        <3> QED
            BY <3>1 DEF TypeOK, RowType, TokenOrNone
    <2>2. token' \in [Workers -> TokenOrNone]
        BY DEF TypeOK, TokenOrNone
    <2> QED
        <3>1. seen' \in [Workers -> [owner : TokenOrNone, takeovers : Nat]]
            BY <1>4, NoneTypes DEF TakeOver, TypeOK
        <3> QED
            BY <1>4, <2>1, <2>2, <3>1 DEF TakeOver, TypeOK, Leased
<1>5. CASE StopAtCap(w)
    <2>1. SetStatus(row, "failed") \in RowType
        BY SetStatusType DEF TypeOK, Statuses, Terminal
    <2>2. row' \in RowType
        <3> DEFINE r == SetStatus(row, "failed")
        <3>1. r \in RowType /\ seen[w].takeovers + 1 \in Nat
            BY <2>1 DEF TypeOK
        <3>2. row' = [r EXCEPT !.leaseOwner = NoToken, !.lapsed = FALSE,
                               !.takeovers = seen[w].takeovers + 1]
            BY <1>5 DEF StopAtCap
        <3> HIDE DEF r
        <3> QED
            BY <3>1, <3>2 DEF RowType, TokenOrNone
    <2> QED
        BY <1>5, <2>2, LeaveType, NoneTypes, TypeSplit, TypeSplitNext
           DEF StopAtCap, OutsideTypes, PcType, Outcomes
<1>6. CASE LostTakeover(w)
    BY <1>6, LeaveType, NoneTypes, TypeSplit, TypeSplitNext
       DEF LostTakeover, Refused, OutsideTypes, PcType, Outcomes
<1> QED
    BY <1>1, <1>2, <1>3, <1>4, <1>5, <1>6 DEF Claims

LEMMA CreateApprovalType ==
    ASSUME TypeOK, NEW w \in Workers, NEW c \in Calls, CreateApproval(w, c)
    PROVE  TypeOK'
BY DEF CreateApproval, TypeOK

LEMMA TypeSteps ==
    ASSUME TypeOK, NEW w \in Workers, Steps(w)
    PROVE  TypeOK'
<1> mem[w] \in MemType /\ NextStep(w) \in Nat /\ mem[w].held \in SUBSET Holdable
    /\ mem[w].waking \in SUBSET ToolCalls /\ gated[w] \in SUBSET Holdable
    /\ still[w] \in SUBSET ToolCalls /\ mem[w].status \in Statuses /\ mem[w].expected \in Nat
    BY DEF TypeOK, MemType, NextStep
<1> {"completed", "failed", "sleeping", "waiting_input", "waiting_approval"} \subseteq Statuses
    BY DEF Statuses, Terminal, Claimable
<1> {"commit", "persist", "leaving", "loaded", "waking", "settling", "asked", "tools"} \subseteq PcType
    BY DEF PcType, Leased, Working
<1> {"continue", "waiting", "done", "threw"} \subseteq Outcomes
    BY DEF Outcomes
<1> {} \in SUBSET Holdable /\ {} \in SUBSET ToolCalls
    OBVIOUS
<1>1. CASE Load(w)
    BY <1>1 DEF Load, TypeOK, RowType, MemType, Leased, Working, OutsideVars, Statuses, Claimable
<1>2. CASE LoadDone(w) \/ Abandon(w) \/ CommitFenced(w)
    <2>1. Return(w, "done")
        BY <1>2 DEF LoadDone, Abandon, CommitFenced
    <2> QED
        BY <2>1 DEF Return, TypeOK, Leased, OutsideVars
<1>3. CASE StepFails(w) \/ MachineFails(w)
    BY <1>3, ToWriteType DEF StepFails, MachineFails, ToCommit
<1>4. CASE Collaborate(w)
    BY <1>4, ToWriteType DEF Collaborate
<1>5. CASE RetryWaking(w) \/ RunApproved(w) \/ AskModel(w) \/ Reply(w)
    <2>1. mem[w].waking \in SUBSET Holdable
        BY DEF Holdable
    <2> QED
        BY <1>5, <2>1 DEF RetryWaking, RunApproved, AskModel, Reply, Begin, TypeOK, Leased, Working, OutsideVars
<1>6. CASE PauseRun(w)
    <2>1. row' \in RowType
        BY <1>6, SetStatusType DEF PauseRun, TypeOK
    <2> QED
        <3>1. CASE asking[w] \in Holdable /\ gated' = [gated EXCEPT ![w] = @ \cup {asking[w]}]
                   /\ UNCHANGED <<pc, mem, outcome>>
            BY <1>6, <2>1, <3>1 DEF PauseRun, TypeOK, OutsideVars
        <3>2. CASE /\ mem' = [mem EXCEPT ![w] = [@ EXCEPT !.status = "waiting_approval",
                                                         !.currentStep = NextStep(w)]]
                   /\ pc' = [pc EXCEPT ![w] = "commit"]
                   /\ outcome' = [outcome EXCEPT ![w] = "waiting"]
                   /\ UNCHANGED gated
            <4>1. mem' \in [Workers -> MemType]
                BY <3>2 DEF TypeOK, MemType
            <4> QED
                BY <1>6, <2>1, <3>2, <4>1 DEF PauseRun, TypeOK, Leased, OutsideVars
        <3> QED
            BY <1>6, <3>1, <3>2 DEF PauseRun
<1>7. CASE \E c \in ToolCalls : StillWaking(w, c) \/ WakingMade(w, c) \/ WakingHeldAgain(w, c)
                                \/ FindWaking(w, c)
    <2> PICK c \in ToolCalls : StillWaking(w, c) \/ WakingMade(w, c) \/ WakingHeldAgain(w, c)
                               \/ FindWaking(w, c)
        BY <1>7
    <2>1. c \in Holdable
        BY DEF Holdable
    <2>2. CASE StillWaking(w, c)
        BY <2>2 DEF StillWaking, TypeOK, OutsideVars
    <2>3. CASE FindWaking(w, c)
        BY <2>3 DEF FindWaking, TypeOK, OutsideVars
    <2>4. CASE WakingMade(w, c)
        BY <2>4 DEF WakingMade, TypeOK, OutsideVars
    <2>5. CASE WakingHeldAgain(w, c)
        BY <2>1, <2>5 DEF WakingHeldAgain, TypeOK, OutsideVars
    <2> QED
        BY <2>2, <2>3, <2>4, <2>5
<1>8. CASE \/ \E c \in ToolCalls : WakingHeld(w, c)
           \/ \E c \in Calls : AskPerson(w, c)
    BY <1>8, CreateApprovalType DEF WakingHeld, AskPerson, Calls, Holdable
<1>9. CASE \E c \in Holdable : HeldCallMade(w, c) \/ HeldCallWaits(w, c)
    <2>1. CASE \E c \in Holdable : HeldCallWaits(w, c)
        BY <2>1 DEF HeldCallWaits, TypeOK, OutsideVars
    <2>2. ASSUME NEW c \in Holdable, HeldCallMade(w, c) PROVE TypeOK'
        <3>1. ran' \in [ToolCalls -> 0..2]
            BY <2>2 DEF HeldCallMade, TypeOK
        <3> QED
            BY <2>2, <3>1 DEF HeldCallMade, TypeOK
    <2> QED
        BY <1>9, <2>1, <2>2
<1>10. CASE EndWaking(w)
    <2>1. mem[w].held \cup gated[w] \in SUBSET Holdable
        OBVIOUS
    <2> QED
        BY <1>10, <2>1, ToWriteType DEF EndWaking, ToCommit
<1>11. CASE EndSettling(w)
    BY <1>11, ToWriteType DEF EndSettling, ToCommit
<1>12. CASE Sleep(w) \/ AskUser(w) \/ WaitForApproval(w) \/ SleepForMachine(w) \/ Continue(w) \/ Answer(w)
    BY <1>12, ToWriteType
       DEF Sleep, AskUser, WaitForApproval, SleepForMachine, Continue, Answer, ToCommit
<1>13. CASE Commit(w) \/ Persist(w)
    <2>1. Written(w) \in RowType
        <3>1. SetStatus(row, mem[w].status) \in RowType
            BY SetStatusType DEF TypeOK
        <3> QED
            BY <3>1 DEF Written, RowType, MemType
    <2>2. row' \in RowType
        BY <1>13, <2>1 DEF Commit, Persist, TypeOK
    <2> QED
        BY <1>13, <2>2 DEF Commit, Persist, TypeOK, Leased, OutsideVars
<1> QED
    BY <1>1, <1>2, <1>3, <1>4, <1>5, <1>6, <1>7, <1>8, <1>9, <1>10, <1>11, <1>12, <1>13 DEF Steps

LEMMA TypeAfterwards ==
    ASSUME TypeOK, NEW w \in Workers, Afterwards(w) \/ WorkerFaults(w)
    PROVE  TypeOK'
<1> job[w] \in JobType /\ outcome[w] \in PcType /\ row.currentStep \in Nat
    BY DEF TypeOK, PcType, RowType
<1> {"idle", "threw", "done", "handing"} \subseteq PcType
    BY DEF PcType, Outcomes
<1> USE LeaveType, NoneTypes, TypeSplit, TypeSplitNext DEF OutsideTypes, OutsideVars
<1>1. CASE Release(w)
    BY <1>1 DEF Release, RowType, TokenOrNone
<1>2. CASE EnqueueNext(w) \/ QueueWake(w)
    BY <1>2, NudgeType DEF EnqueueNext, QueueWake
<1>3. CASE HandOn(w) \/ claimDelivery(w)
    BY <1>3 DEF HandOn, claimDelivery, RowType
<1>4. CASE RetryJob(w)
    BY <1>4 DEF RetryJob, JobType
<1>5. CASE ReadExhausted(w)
    <2>1. CASE Leave(w, "idle", NoJob)
        BY <1>5, <2>1 DEF ReadExhausted
    <2>2. CASE /\ pc' = [pc EXCEPT ![w] = "giveup"]
               /\ mem' = [mem EXCEPT ![w] = [@ EXCEPT !.status = row.status]]
               /\ UNCHANGED <<job, token, seen, todo, still, gated, asking, outcome>>
        <3>1. mem' \in [Workers -> MemType]
            BY <2>2 DEF WorkerTypes, MemType, RowType
        <3> QED
            BY <1>5, <2>2, <3>1 DEF ReadExhausted, WorkerTypes, PcType
    <2> QED
        BY <1>5, <2>1, <2>2 DEF ReadExhausted
<1>6. CASE RecordExhausted(w)
    <2>1. row' \in RowType
        BY <1>6, SetStatusType DEF RecordExhausted, Statuses, Terminal
    <2> QED
        BY <1>6, <2>1 DEF RecordExhausted
<1>7. CASE Renew(w)
    BY <1>7 DEF Renew, workerVars, RowType, WorkerTypes
<1>8. CASE Throw(w)
    BY <1>8 DEF Throw, Return, WorkerTypes, PcType, Leased, Outcomes
<1>9. CASE PersistFails(w)
    BY <1>9 DEF PersistFails, WorkerTypes, MemType, Statuses, Terminal
<1>10. CASE EnqueueFails(w) \/ Crash(w)
    BY <1>10 DEF EnqueueFails, Crash
<1> QED
    BY <1>1, <1>2, <1>3, <1>4, <1>5, <1>6, <1>7, <1>8, <1>9, <1>10 DEF Afterwards, WorkerFaults

LEMMA TypeOutside ==
    ASSUME TypeOK, Approvers \/ Environment
    PROVE  TypeOK'
<1> row.currentStep \in Nat /\ {"cancelled", "timeout", "running"} \subseteq Statuses
    BY DEF TypeOK, RowType, Statuses, Terminal, Claimable
<1> USE DEF TypeOK, workerVars, OutsideVars
<1>1. ASSUME NEW c \in Calls, NEW d \in {"approved", "rejected", "expired"}, Decide(c, d)
      PROVE  TypeOK'
    BY <1>1 DEF Decide
<1>6. ASSUME NEW c \in Calls, ReadDecided(c) \/ CrashDecided(c)
      PROVE  TypeOK'
    <2>1. \/ handler' = [handler EXCEPT ![c] = "read"]
          \/ handler' = [handler EXCEPT ![c] = "over"]
        BY <1>6 DEF ReadDecided, CrashDecided
    <2>2. handler' \in [Calls -> {"none", "emitted", "read", "over"}]
        BY <2>1
    <2>3. \/ resumeAt' = [resumeAt EXCEPT ![c] = row.currentStep]
          \/ resumeAt' = [resumeAt EXCEPT ![c] = 0]
          \/ resumeAt' = resumeAt
        BY <1>6 DEF ReadDecided, CrashDecided
    <2>4. resumeAt' \in [Calls -> Nat]
        BY <2>3
    <2> QED
        BY <1>6, <2>2, <2>4 DEF ReadDecided, CrashDecided
<1>2. CASE \E c \in Calls : ApplyDecided(c)
    BY <1>2, NudgeType, SetStatusType DEF ApplyDecided
<1>3. CASE CancelRun \/ WaitTimesOut \/ SendInput \/ Reap
    BY <1>3, NudgeType, SetStatusType DEF CancelRun, WaitTimesOut, SendInput, Reap
<1>4. CASE ReaperFinds \/ WakeSweep \/ \E j \in jobs : LoseNudge(j)
    BY <1>4, NudgeType DEF ReaperFinds, WakeSweep, LoseNudge
<1>5. CASE Lapse \/ WakeTime \/ GoStale
    <2>1. row' \in RowType
        BY <1>5 DEF Lapse, WakeTime, GoStale, RowType
    <2> QED
        BY <1>5, <2>1 DEF Lapse, WakeTime, GoStale
<1> QED
    BY <1>1, <1>2, <1>3, <1>4, <1>5, <1>6 DEF Approvers, Environment

LEMMA InitType == Init => TypeOK
<1> SUFFICES ASSUME Init PROVE TypeOK
    OBVIOUS
<1>1. row \in RowType
    BY DEF Init, RowType, Statuses, Claimable, TokenOrNone
<1>2. jobs \subseteq JobType
    BY NudgeType DEF Init
<1>3. WorkerTypes
    BY NoneTypes DEF Init, WorkerTypes, PcType, TokenOrNone, Outcomes
<1>4. OutsideTypes
    <2> reaping \in BOOLEAN
        BY Zenon DEF Init
    <2> QED
        BY DEF Init, OutsideTypes
<1> QED
    BY <1>1, <1>2, <1>3, <1>4, TypeSplit

\* The row, the queue and every worker's copies keep the shapes DurableRun
\* gives them, whatever runs.
THEOREM TypeCorrect == Spec => []TypeOK
<1>1. Init => TypeOK
    BY InitType
<1>2. TypeOK /\ [Next]_vars => TypeOK'
    <2> SUFFICES ASSUME TypeOK, [Next]_vars PROVE TypeOK'
        OBVIOUS
    <2>1. CASE UNCHANGED vars
        BY <2>1 DEF vars, TypeOK
    <2>2. CASE Next
        BY <2>2, TypeClaims, TypeSteps, TypeAfterwards, TypeOutside DEF Next
    <2> QED
        BY <2>1, <2>2
<1> QED
    BY <1>1, <1>2, PTL DEF Spec

-----------------------------------------------------------------------------
(* The inductive step.  Most actions touch one worker and leave the row's  *)
(* owner and work alone; for those it is enough to look at that worker.    *)

WorkerInv(w) ==
    /\ token[w] # NoToken <=> pc[w] \in Leased
    /\ WorkOf(w)
    /\ SawLatest(w)
    /\ WriteOf(w)

Unique == \A u, w \in Workers : u # w /\ token[u] # NoToken => token[u] # token[w]

LEMMA InvSplit == IInv <=> TypeOK /\ Unique /\ \A w \in Workers : WorkerInv(w)
BY DEF IInv, TokenInv, WorkInv, WriteInv, HolderSawLatest, WorkerInv, Unique

LEMMA InvSplitNext == IInv' <=> TypeOK' /\ Unique' /\ \A w \in Workers : WorkerInv(w)'
BY DEF IInv, TokenInv, WorkInv, WriteInv, HolderSawLatest, WorkerInv, Unique

SameWorker(u) ==
    /\ pc'[u] = pc[u] /\ token'[u] = token[u] /\ mem'[u] = mem[u] /\ todo'[u] = todo[u]
    /\ still'[u] = still[u] /\ gated'[u] = gated[u] /\ asking'[u] = asking[u]

OthersSame(w) == \A u \in Workers \ {w} : SameWorker(u)

SameWork ==
    /\ row'.leaseOwner = row.leaseOwner /\ row'.currentStep = row.currentStep
    /\ row'.held = row.held /\ row'.waking = row.waking

LEMMA SameWorkerInv ==
    ASSUME NEW u \in Workers, WorkerInv(u), SameWorker(u), SameWork
    PROVE  WorkerInv(u)'
BY DEF WorkerInv, SameWorker, SameWork, WorkOf, SawLatest, WriteOf, Keeps, StepsOn, Atomic!StepRel

\* A worker whose token is not the row's owner, before and after.
LEMMA NonOwnerInv ==
    ASSUME NEW u \in Workers, WorkerInv(u), SameWorker(u), token[u] # row'.leaseOwner
    PROVE  WorkerInv(u)'
BY DEF WorkerInv, SameWorker, WorkOf, SawLatest, WriteOf

LEMMA OneWorker ==
    ASSUME IInv, TypeOK', NEW w \in Workers, OthersSame(w), SameWork,
           token'[w] \in {token[w], NoToken}, WorkerInv(w)'
    PROVE  IInv'
<1>1. Unique'
    BY InvSplit DEF Unique, OthersSame, SameWorker
<1>2. \A u \in Workers : WorkerInv(u)'
    BY InvSplit, SameWorkerInv DEF OthersSame
<1> QED
    BY <1>1, <1>2, InvSplitNext

\* A worker that lets go of its claim, in any way.
LEMMA LeaveInv ==
    ASSUME TypeOK, NEW w \in Workers, NEW p \in Outcomes \cup {"idle", "handing"}, NEW j, Leave(w, p, j)
    PROVE  OthersSame(w) /\ token'[w] = NoToken /\ WorkerInv(w)'
<1>1. OthersSame(w)
    BY DEF Leave, TypeOK, OthersSame, SameWorker
<1>2. /\ pc'[w] = p /\ token'[w] = NoToken /\ still'[w] = {} /\ gated'[w] = {}
      /\ asking'[w] = NoCall
    BY DEF Leave, TypeOK
<1>3. p \notin Leased /\ p # "giveup" /\ p # "lapsed"
    BY DEF Outcomes, Leased, Working
<1>4. NoCall \notin Requests
    BY CallAssumption DEF Calls
<1> QED
    BY <1>1, <1>2, <1>3, <1>4 DEF WorkerInv, WorkOf, SawLatest, WriteOf, Leased, Working

LEMMA LeaveAlone ==
    ASSUME IInv, TypeOK', NEW w \in Workers, NEW p \in Outcomes \cup {"idle", "handing"}, NEW j,
           Leave(w, p, j), SameWork
    PROVE  IInv'
BY LeaveInv, OneWorker, InvSplit

\* The row's owner is nobody's token any more.
LEMMA Ownerless ==
    ASSUME IInv, TypeOK', NEW w \in Workers, OthersSame(w), token'[w] = NoToken,
           WorkerInv(w)', row'.leaseOwner = NoToken
    PROVE  IInv'
<1>1. Unique'
    BY InvSplit DEF Unique, OthersSame, SameWorker
<1>2. ASSUME NEW u \in Workers \ {w} PROVE WorkerInv(u)'
    <2>1. CASE token[u] # NoToken
        BY <2>1, InvSplit, NonOwnerInv DEF OthersSame
    <2>2. CASE token[u] = NoToken
        BY <2>2, InvSplit DEF OthersSame, SameWorker, WorkerInv, WorkOf, SawLatest, WriteOf, Leased
    <2> QED
        BY <2>1, <2>2
<1> QED
    BY <1>1, <1>2, InvSplitNext

\* A claim's fresh token is the row's owner, and no other worker's.
LEMMA Claimed ==
    ASSUME IInv, TypeOK', NEW w \in Workers, OthersSame(w), NEW t \in Tokens, Fresh(t),
           token'[w] = t, row'.leaseOwner = t, WorkerInv(w)'
    PROVE  IInv'
<1>1. t # NoToken
    BY TokenAssumption
<1>2. \A u \in Workers \ {w} : token'[u] = token[u] /\ token[u] # t
    BY DEF Fresh, OthersSame, SameWorker
<1>3. Unique'
    <2> SUFFICES ASSUME NEW u \in Workers, NEW v \in Workers, u # v, token'[u] # NoToken
                 PROVE  token'[u] # token'[v]
        BY DEF Unique
    <2> QED
        BY <1>2, InvSplit DEF Unique
<1>4. ASSUME NEW u \in Workers \ {w} PROVE WorkerInv(u)'
    BY <1>2, InvSplit, NonOwnerInv DEF OthersSame
<1> QED
    BY <1>3, <1>4, InvSplitNext

\* A write by the owner: every other worker's token is another.
LEMMA OwnerWrote ==
    ASSUME IInv, TypeOK', NEW w \in Workers, OthersSame(w), token'[w] = token[w],
           row.leaseOwner = token[w], row'.leaseOwner = row.leaseOwner, pc[w] \in Leased,
           WorkerInv(w)'
    PROVE  IInv'
<1>1. Unique'
    BY InvSplit DEF Unique, OthersSame, SameWorker
<1>2. ASSUME NEW u \in Workers \ {w} PROVE WorkerInv(u)'
    <2>1. token[u] # row'.leaseOwner
        BY InvSplit DEF Unique, WorkerInv
    <2> QED
        BY <2>1, InvSplit, NonOwnerInv DEF OthersSame
<1> QED
    BY <1>1, <1>2, InvSplitNext

\* A step that is ready to be written takes the loaded work one step on, or
\* leaves it.
LEMMA ToWriteInv ==
    ASSUME IInv, TypeOK', NEW w \in Workers, NEW p \in {"commit", "persist"}, NEW st, NEW s, NEW h, NEW k, NEW o,
           pc[w] \in Working, asking[w] = NoCall, ToWrite(w, p, st, s, h, k, o),
           \/ s = mem[w].expected /\ h = mem[w].held /\ k = mem[w].waking
           \/ Atomic!StepRel(mem[w].expected, mem[w].held, mem[w].waking, s, h, k)
    PROVE  IInv'
<1>1. OthersSame(w) /\ SameWork /\ token'[w] = token[w] /\ asking'[w] = NoCall /\ pc'[w] = p
    BY InvSplit DEF ToWrite, OutsideVars, TypeOK, OthersSame, SameWorker, SameWork
<1>2. /\ mem'[w].expected = mem[w].expected /\ mem'[w].currentStep = s
      /\ mem'[w].held = h /\ mem'[w].waking = k
    BY InvSplit DEF ToWrite, TypeOK
<1>3. WorkOf(w)'
    BY <1>1, CallAssumption DEF WorkOf, Calls
<1>4. SawLatest(w)'
    BY <1>1 DEF SawLatest, Working
<1>5. WriteOf(w)'
    <2> SUFFICES ASSUME row.leaseOwner = token[w]
                 PROVE  mem'[w].expected = row'.currentStep /\ (Keeps(w)' \/ StepsOn(w)')
        BY <1>1 DEF WriteOf, SameWork
    <2>1. mem[w].expected = row.currentStep /\ mem[w].held = row.held /\ mem[w].waking = row.waking
        BY InvSplit DEF WorkerInv, SawLatest
    <2> QED
        BY <1>1, <1>2, <2>1 DEF Keeps, StepsOn, SameWork, Atomic!StepRel
<1>6. token[w] # NoToken /\ p \in Leased
    BY InvSplit DEF WorkerInv, Leased
<1> QED
    BY <1>1, <1>3, <1>4, <1>5, <1>6, OneWorker DEF WorkerInv

LEMMA InvClaims ==
    ASSUME IInv, NEW w \in Workers, Claims(w)
    PROVE  IInv'
<1> TypeOK /\ TypeOK' /\ WorkerInv(w)
    BY InvSplit, TypeClaims
<1>1. CASE \E j \in jobs : ClaimFree(w, j)
    <2> PICK t \in Tokens, j \in jobs :
              /\ Fresh(t)
              /\ row' = [row EXCEPT !.leaseOwner = t, !.lapsed = FALSE]
              /\ token' = [token EXCEPT ![w] = t]
              /\ ClaimFree(w, j)
        BY <1>1 DEF ClaimFree
    <2>1. OthersSame(w) /\ token'[w] = t /\ row'.leaseOwner = t /\ pc'[w] = "claimed"
        BY DEF ClaimFree, TypeOK, RowType, OthersSame, SameWorker
    <2>2. WorkerInv(w)'
        BY <2>1, TokenAssumption
           DEF ClaimFree, WorkerInv, WorkOf, SawLatest, WriteOf, Leased, Working
    <2> QED
        BY <2>1, <2>2, Claimed
<1>2. CASE \E j \in jobs : FindLapsed(w, j)
    <2>1. OthersSame(w) /\ SameWork /\ token'[w] = token[w] /\ pc'[w] = "lapsed"
        BY <1>2 DEF FindLapsed, TypeOK, OthersSame, SameWorker, SameWork
    <2>2. WorkerInv(w)'
        BY <1>2, <2>1 DEF FindLapsed, WorkerInv, WorkOf, SawLatest, WriteOf, Leased, Working
    <2> QED
        BY <2>1, <2>2, OneWorker
<1>3. CASE \E j \in jobs : NotClaimed(w, j)
    BY <1>3, LeaveAlone DEF NotClaimed, Refused, Outcomes, SameWork
<1>4. CASE TakeOver(w)
    <2> PICK t \in Tokens :
              /\ Fresh(t)
              /\ row' = [row EXCEPT !.leaseOwner = t, !.lapsed = FALSE, !.stale = FALSE,
                                    !.takeovers = seen[w].takeovers + 1]
              /\ token' = [token EXCEPT ![w] = t]
        BY <1>4 DEF TakeOver
    <2>1. OthersSame(w) /\ token'[w] = t /\ row'.leaseOwner = t /\ pc'[w] = "claimed"
        BY <1>4 DEF TakeOver, TypeOK, RowType, OthersSame, SameWorker
    <2>2. WorkerInv(w)'
        BY <1>4, <2>1, TokenAssumption
           DEF TakeOver, WorkerInv, WorkOf, SawLatest, WriteOf, Leased, Working
    <2> QED
        BY <2>1, <2>2, Claimed
<1>5. CASE StopAtCap(w)
    <2>1. OthersSame(w) /\ token'[w] = NoToken /\ WorkerInv(w)'
        BY <1>5, LeaveInv DEF StopAtCap, Outcomes
    <2>2. row'.leaseOwner = NoToken
        <3> DEFINE r == SetStatus(row, "failed")
        <3>1. r \in RowType
            BY SetStatusType DEF TypeOK, Statuses, Terminal
        <3>2. row' = [r EXCEPT !.leaseOwner = NoToken, !.lapsed = FALSE,
                               !.takeovers = seen[w].takeovers + 1]
            BY <1>5 DEF StopAtCap
        <3> HIDE DEF r
        <3> QED
            BY <3>1, <3>2 DEF RowType
    <2> QED
        BY <2>1, <2>2, Ownerless
<1>6. CASE LostTakeover(w)
    BY <1>6, LeaveAlone DEF LostTakeover, Refused, Outcomes, SameWork
<1> QED
    BY <1>1, <1>2, <1>3, <1>4, <1>5, <1>6 DEF Claims

LEMMA SetStatusSameWork ==
    ASSUME NEW r \in RowType, NEW st
    PROVE  /\ SetStatus(r, st).leaseOwner = r.leaseOwner
           /\ SetStatus(r, st).currentStep = r.currentStep
           /\ SetStatus(r, st).held = r.held
           /\ SetStatus(r, st).waking = r.waking
BY DEF SetStatus, RowType

LEMMA WrittenWork ==
    ASSUME TypeOK, NEW w \in Workers
    PROVE  /\ Written(w).leaseOwner = row.leaseOwner
           /\ Written(w).currentStep = mem[w].currentStep
           /\ Written(w).held = mem[w].held
           /\ Written(w).waking = mem[w].waking
<1> DEFINE r == SetStatus(row, mem[w].status)
<1>1. r \in RowType /\ r.leaseOwner = row.leaseOwner
    BY SetStatusType, SetStatusSameWork DEF TypeOK, MemType
<1>2. Written(w) = [r EXCEPT !.currentStep = mem[w].currentStep, !.held = mem[w].held,
                             !.waking = mem[w].waking, !.takeovers = 0]
    BY DEF Written
<1> HIDE DEF r
<1> QED
    BY <1>1, <1>2 DEF RowType

LEMMA CreateApprovalInv ==
    ASSUME IInv, TypeOK', NEW w \in Workers, NEW c \in Calls, CreateApproval(w, c),
           pc[w] = "tools" \/ (pc[w] = "waking" /\ c \in ToolCalls)
    PROVE  IInv'
<1> TypeOK /\ WorkerInv(w)
    BY InvSplit
<1>1. /\ OthersSame(w) /\ SameWork /\ token'[w] = token[w] /\ pc'[w] = pc[w] /\ mem'[w] = mem[w]
      /\ asking'[w] = c /\ todo'[w] = todo[w] \ {c} /\ still'[w] = still[w] /\ gated'[w] = gated[w]
    BY DEF CreateApproval, TypeOK, OthersSame, SameWorker, SameWork
<1>2. c # NoCall /\ (c \in ToolCalls => c \notin Requests)
    BY CallAssumption DEF Calls, Holdable
<1>3. WorkerInv(w)'
    BY <1>1, <1>2 DEF WorkerInv, WorkOf, SawLatest, WriteOf, SameWork
<1> QED
    BY <1>1, <1>3, OneWorker

LEMMA InvSteps ==
    ASSUME IInv, NEW w \in Workers, Steps(w)
    PROVE  IInv'
<1> TypeOK /\ TypeOK' /\ WorkerInv(w) /\ WorkOf(w)
    BY InvSplit, TypeSteps DEF WorkerInv
<1> /\ mem[w] \in MemType /\ mem[w].held \in SUBSET Holdable /\ mem[w].waking \in SUBSET ToolCalls
    /\ gated[w] \in SUBSET Holdable /\ still[w] \in SUBSET ToolCalls /\ mem[w].expected \in Nat
    /\ NoCall \notin Requests
    BY CallAssumption DEF TypeOK, MemType, Calls
<1>1. CASE Load(w)
    <2>1. /\ OthersSame(w) /\ SameWork /\ token'[w] = token[w] /\ pc'[w] = "loaded"
          /\ asking'[w] = asking[w] /\ still'[w] = still[w] /\ gated'[w] = gated[w]
          /\ mem'[w].expected = row.currentStep /\ mem'[w].held = row.held /\ mem'[w].waking = row.waking
        BY <1>1 DEF Load, TypeOK, OthersSame, SameWorker, SameWork, OutsideVars
    <2>2. WorkerInv(w)'
        BY <1>1, <2>1 DEF Load, WorkerInv, WorkOf, SawLatest, WriteOf, SameWork, Leased, Working
    <2> QED
        BY <2>1, <2>2, OneWorker
<1>2. CASE LoadDone(w) \/ Abandon(w) \/ CommitFenced(w)
    <2>1. Return(w, "done") /\ pc[w] \in Leased /\ asking[w] = NoCall
        BY <1>2 DEF LoadDone, Abandon, CommitFenced, WorkOf, Leased, Working
    <2>2. /\ OthersSame(w) /\ SameWork /\ token'[w] = token[w] /\ pc'[w] = "leaving"
          /\ asking'[w] = asking[w]
        BY <2>1 DEF Return, TypeOK, OthersSame, SameWorker, SameWork, OutsideVars
    <2>3. WorkerInv(w)'
        BY <2>1, <2>2 DEF WorkerInv, WorkOf, SawLatest, WriteOf, SameWork, Leased, Working
    <2> QED
        BY <2>2, <2>3, OneWorker
<1>3. CASE StepFails(w)
    BY <1>3, ToWriteInv DEF StepFails, ToCommit
<1>4. CASE MachineFails(w)
    BY <1>4, ToWriteInv DEF MachineFails, ToCommit, Working, NextStep, WorkOf, Atomic!StepRel
<1>5. CASE Collaborate(w)
    <2>1. pc[w] \in Working /\ asking[w] = NoCall
        BY <1>5 DEF Collaborate, WithinLimits, Working, WorkOf
    <2>2. Atomic!StepRel(mem[w].expected, mem[w].held, mem[w].waking,
                         NextStep(w), mem[w].held, mem[w].waking)
        BY DEF Atomic!StepRel, NextStep
    <2> QED
        BY <1>5, <2>1, <2>2, ToWriteInv DEF Collaborate
<1>6. CASE RetryWaking(w) \/ RunApproved(w) \/ AskModel(w) \/ Reply(w)
    <2>0. mem[w].waking \in SUBSET Holdable /\ mem[w].held \in SUBSET Holdable
        BY DEF TypeOK, MemType, Holdable
    <2> PICK p \in {"waking", "settling", "asked", "tools"}, calls \in SUBSET Holdable : Begin(w, p, calls)
        BY <1>6, <2>0 DEF RetryWaking, RunApproved, AskModel, Reply
    <2>1. /\ OthersSame(w) /\ SameWork /\ token'[w] = token[w] /\ pc'[w] = p
          /\ asking'[w] = asking[w] /\ still'[w] = still[w] /\ gated'[w] = gated[w]
          /\ mem'[w] = mem[w] /\ todo'[w] = calls
        BY DEF Begin, TypeOK, OthersSame, SameWorker, SameWork, OutsideVars
    <2>2. pc[w] \in Working /\ asking[w] = NoCall
        BY <1>6 DEF RetryWaking, RunApproved, AskModel, Reply, OwnWork, WithinLimits, Working, WorkOf
    <2>3. WorkOf(w)'
        <3>1. CASE RetryWaking(w)
            BY <2>1, <2>2, <3>1 DEF RetryWaking, OwnWork, WithinLimits, Begin, WorkOf, TypeOK
        <3>2. CASE RunApproved(w)
            BY <2>1, <2>2, <3>2 DEF RunApproved, OwnWork, WithinLimits, Begin, WorkOf, TypeOK
        <3>3. CASE AskModel(w)
            BY <2>1, <2>2, <3>3 DEF AskModel, OwnWork, WithinLimits, Begin, WorkOf, TypeOK
        <3>4. CASE Reply(w)
            BY <2>1, <2>2, <3>4 DEF Reply, Begin, WorkOf, TypeOK
        <3> QED
            BY <1>6, <3>1, <3>2, <3>3, <3>4
    <2>4. WorkerInv(w)'
        BY <2>1, <2>2, <2>3 DEF WorkerInv, SawLatest, WriteOf, SameWork, Leased, Working
    <2> QED
        BY <2>1, <2>4, OneWorker
<1>7. CASE PauseRun(w)
    <2>1. OthersSame(w) /\ token'[w] = token[w] /\ asking'[w] = NoCall /\ still'[w] = still[w]
          /\ todo'[w] = todo[w]
        BY <1>7 DEF PauseRun, TypeOK, OthersSame, SameWorker
    <2>2. SameWork
        BY <1>7, SetStatusSameWork DEF PauseRun, TypeOK, SameWork
    <2>3. pc[w] \in {"waking", "tools"} /\ pc[w] \in Working
        BY <1>7 DEF PauseRun, WorkOf, Working
    <2>4. CASE pc'[w] = pc[w] /\ mem'[w] = mem[w]
        <3>1. WorkOf(w)'
            BY <2>1, <2>3, <2>4 DEF WorkOf
        <3> QED
            BY <2>1, <2>2, <2>3, <2>4, <3>1, OneWorker DEF WorkerInv, SawLatest, WriteOf, SameWork, Working
    <2>5. CASE /\ pc[w] = "tools" /\ pc'[w] = "commit" /\ mem'[w].expected = mem[w].expected
               /\ mem'[w].currentStep = NextStep(w) /\ mem'[w].held = mem[w].held
               /\ mem'[w].waking = mem[w].waking
        <3>1. WorkOf(w)' /\ SawLatest(w)'
            BY <2>1, <2>5 DEF WorkOf, SawLatest, Working
        <3>2. mem[w].held = {} /\ mem[w].waking = {}
            BY <2>5 DEF WorkOf
        <3>3. WriteOf(w)'
            BY <2>1, <2>2, <2>3, <2>5, <3>2
               DEF WorkerInv, SawLatest, WriteOf, StepsOn, Atomic!StepRel, SameWork, NextStep
        <3>4. token'[w] # NoToken /\ pc'[w] \in Leased
            BY <2>1, <2>3, <2>5 DEF WorkerInv, Leased
        <3> QED
            BY <2>1, <2>2, <3>1, <3>3, <3>4, OneWorker DEF WorkerInv
    <2>6. CASE UNCHANGED <<pc, mem, outcome>>
        BY <2>4, <2>6
    <2>7. CASE /\ asking[w] \in Requests
               /\ mem' = [mem EXCEPT ![w] = [@ EXCEPT !.status = "waiting_approval",
                                                     !.currentStep = NextStep(w)]]
               /\ pc' = [pc EXCEPT ![w] = "commit"]
        <3>1. pc[w] = "tools"
            BY <2>7 DEF WorkOf
        <3> QED
            BY <2>5, <2>7, <3>1 DEF TypeOK, MemType
    <2> QED
        BY <1>7, <2>6, <2>7 DEF PauseRun
<1>8. CASE \E c \in ToolCalls : StillWaking(w, c) \/ WakingMade(w, c) \/ WakingHeldAgain(w, c)
                                \/ FindWaking(w, c)
    <2> PICK c \in ToolCalls : StillWaking(w, c) \/ WakingMade(w, c) \/ WakingHeldAgain(w, c)
                               \/ FindWaking(w, c)
        BY <1>8
    <2>1. /\ OthersSame(w) /\ SameWork /\ token'[w] = token[w] /\ pc'[w] = pc[w]
          /\ asking'[w] = asking[w] /\ mem'[w] = mem[w]
        BY DEF StillWaking, WakingMade, WakingHeldAgain, FindWaking, TypeOK, OthersSame, SameWorker,
               SameWork, OutsideVars
    <2>2. pc[w] \in {"waking", "tools"}
        BY DEF StillWaking, WakingMade, WakingHeldAgain, FindWaking, WakingCall, InReply
    <2>3. pc[w] = "waking" => todo'[w] \cup still'[w] \subseteq todo[w] \cup still[w]
        BY DEF StillWaking, WakingMade, WakingHeldAgain, FindWaking, WakingCall, InReply, TypeOK
    <2>4. WorkOf(w)'
        BY <2>1, <2>2, <2>3 DEF WorkOf
    <2> QED
        BY <2>1, <2>2, <2>4, OneWorker DEF WorkerInv, SawLatest, WriteOf, SameWork
<1>9. CASE \/ \E c \in ToolCalls : WakingHeld(w, c)
           \/ \E c \in Calls : AskPerson(w, c)
    BY <1>9, CreateApprovalInv DEF WakingHeld, WakingCall, AskPerson, InReply, Calls, Holdable
<1>10. CASE \E c \in Holdable : HeldCallMade(w, c) \/ HeldCallWaits(w, c)
    <2> PICK c \in Holdable : HeldCallMade(w, c) \/ HeldCallWaits(w, c)
        BY <1>10
    <2>1. /\ OthersSame(w) /\ SameWork /\ token'[w] = token[w] /\ pc'[w] = pc[w]
          /\ asking'[w] = asking[w] /\ mem'[w] = mem[w]
        BY DEF HeldCallMade, HeldCallWaits, TypeOK, OthersSame, SameWorker, SameWork, OutsideVars
    <2>2. pc[w] = "settling" /\ todo'[w] \cup gated'[w] \subseteq todo[w] \cup gated[w]
        BY DEF HeldCallMade, HeldCallWaits, HeldCall, TypeOK
    <2>3. WorkOf(w)'
        BY <2>1, <2>2 DEF WorkOf
    <2> QED
        BY <2>1, <2>2, <2>3, OneWorker DEF WorkerInv, SawLatest, WriteOf, SameWork
<1>11. CASE EndWaking(w)
    <2>1. PICK st, o : ToWrite(w, "commit", st, NextStep(w), mem[w].held \cup gated[w], still[w], o)
        BY <1>11 DEF EndWaking, ToCommit
    <2>2. Atomic!StepRel(mem[w].expected, mem[w].held, mem[w].waking,
                         NextStep(w), mem[w].held \cup gated[w], still[w])
        BY <1>11 DEF EndWaking, WorkOf, Atomic!StepRel, NextStep
    <2> QED
        BY <1>11, <2>1, <2>2, ToWriteInv DEF EndWaking, Working
<1>12. CASE EndSettling(w)
    <2>1. pc[w] \in Working /\ asking[w] = NoCall
        BY <1>12 DEF EndSettling, Working, WorkOf
    <2>2. \A h : h \subseteq gated[w] =>
              Atomic!StepRel(mem[w].expected, mem[w].held, mem[w].waking, NextStep(w), h, {})
        BY <1>12 DEF EndSettling, WorkOf, Atomic!StepRel, NextStep
    <2> QED
        BY <1>12, <2>1, <2>2, ToWriteInv DEF EndSettling, ToCommit
<1>13. CASE Sleep(w) \/ AskUser(w) \/ WaitForApproval(w) \/ SleepForMachine(w) \/ Continue(w) \/ Answer(w)
    <2>1. pc[w] = "tools" /\ pc[w] \in Working /\ asking[w] = NoCall
        BY <1>13 DEF Sleep, AskUser, WaitForApproval, SleepForMachine, Continue, Answer, InReply, Working
    <2>2. \A h, k : h \subseteq Holdable /\ k \subseteq ToolCalls =>
              Atomic!StepRel(mem[w].expected, mem[w].held, mem[w].waking, NextStep(w), h, k)
        BY <2>1 DEF WorkOf, Atomic!StepRel, NextStep
    <2> QED
        BY <1>13, <2>1, <2>2, ToWriteInv
           DEF Sleep, AskUser, WaitForApproval, SleepForMachine, Continue, Answer, ToCommit
<1>14. CASE (Commit(w) \/ Persist(w)) /\ row.leaseOwner = token[w]
    <2>1. OthersSame(w) /\ token'[w] = token[w] /\ asking'[w] = asking[w] /\ pc'[w] = "leaving"
          /\ pc[w] \in Leased
        BY <1>14 DEF Commit, Persist, TypeOK, OthersSame, SameWorker, Leased
    <2>2. row'.leaseOwner = row.leaseOwner
        BY <1>14, WrittenWork DEF Commit, Persist
    <2>3. asking[w] = NoCall
        BY <1>14 DEF Commit, Persist, WorkOf
    <2>4. WorkerInv(w)'
        BY <2>1, <2>3 DEF WorkerInv, WorkOf, SawLatest, WriteOf, Leased, Working
    <2> QED
        BY <1>14, <2>1, <2>2, <2>4, OwnerWrote
<1>15. CASE Persist(w) /\ row.leaseOwner # token[w]
    <2>1. OthersSame(w) /\ SameWork /\ token'[w] = token[w] /\ asking'[w] = asking[w]
          /\ pc'[w] = "leaving" /\ pc[w] \in Leased
        BY <1>15 DEF Persist, TypeOK, OthersSame, SameWorker, SameWork, Leased
    <2>2. asking[w] = NoCall
        BY <1>15 DEF Persist, WorkOf
    <2>3. WorkerInv(w)'
        BY <2>1, <2>2 DEF WorkerInv, WorkOf, SawLatest, WriteOf, Leased, Working
    <2> QED
        BY <2>1, <2>3, OneWorker
<1>16. Commit(w) => row.leaseOwner = token[w]
    BY DEF Commit, MayCommit
<1> QED
    BY <1>1, <1>2, <1>3, <1>4, <1>5, <1>6, <1>7, <1>8, <1>9, <1>10, <1>11, <1>12, <1>13,
       <1>14, <1>15, <1>16 DEF Steps

LEMMA InvAfterwards ==
    ASSUME IInv, NEW w \in Workers, Afterwards(w) \/ WorkerFaults(w)
    PROVE  IInv'
<1> TypeOK /\ TypeOK' /\ WorkerInv(w) /\ WorkOf(w) /\ outcome[w] \in Outcomes
    BY InvSplit, TypeAfterwards DEF WorkerInv, TypeOK
<1>1. CASE Release(w)
    <2>1. OthersSame(w) /\ token'[w] = NoToken /\ WorkerInv(w)'
        BY <1>1, LeaveInv DEF Release
    <2>2. row'.leaseOwner = NoToken \/ SameWork
        <3>1. CASE row' = [row EXCEPT !.leaseOwner = NoToken, !.lapsed = FALSE]
            BY <3>1 DEF TypeOK, RowType
        <3>2. CASE row' = row
            BY <3>2 DEF SameWork
        <3> QED
            BY <1>1, <3>1, <3>2 DEF Release
    <2> QED
        BY <2>1, <2>2, Ownerless, OneWorker
<1>2. CASE EnqueueNext(w) \/ QueueWake(w) \/ RetryJob(w) \/ EnqueueFails(w) \/ Crash(w)
    BY <1>2, LeaveAlone
       DEF EnqueueNext, QueueWake, RetryJob, EnqueueFails, Crash, SameWork, Outcomes
<1>3. CASE HandOn(w) \/ claimDelivery(w)
    <2>1. SameWork
        <3>1. CASE HandOn(w)
            BY <3>1 DEF HandOn, SameWork
        <3>2. CASE claimDelivery(w)
            BY <3>2 DEF claimDelivery, TypeOK, RowType, SameWork
        <3> QED
            BY <1>3, <3>1, <3>2
    <2> QED
        BY <1>3, <2>1, LeaveAlone DEF HandOn, claimDelivery
<1>4. CASE ReadExhausted(w)
    <2>1. SameWork
        BY <1>4 DEF ReadExhausted, SameWork
    <2>2. CASE Leave(w, "idle", NoJob)
        BY <2>1, <2>2, LeaveAlone
    <2>3. CASE /\ row.status \notin Terminal
               /\ pc' = [pc EXCEPT ![w] = "giveup"]
               /\ mem' = [mem EXCEPT ![w] = [@ EXCEPT !.status = row.status]]
               /\ UNCHANGED <<job, token, seen, todo, still, gated, asking, outcome>>
        <3>1. OthersSame(w) /\ token'[w] = token[w] /\ asking'[w] = asking[w] /\ pc'[w] = "giveup"
            BY <2>3 DEF TypeOK, OthersSame, SameWorker
        <3>2. mem'[w].status \notin Terminal
            BY <2>3 DEF TypeOK, MemType
        <3>3. pc[w] = "threw"
            BY <1>4 DEF ReadExhausted
        <3>4. WorkerInv(w)'
            BY <3>1, <3>2, <3>3, CallAssumption
               DEF WorkerInv, WorkOf, SawLatest, WriteOf, Leased, Working, Calls
        <3> QED
            BY <2>1, <3>1, <3>4, OneWorker
    <2> QED
        BY <1>4, <2>2, <2>3 DEF ReadExhausted
<1>5. CASE RecordExhausted(w)
    <2>1. SameWork
        BY <1>5, SetStatusSameWork DEF RecordExhausted, TypeOK, SameWork
    <2> QED
        BY <1>5, <2>1, LeaveAlone DEF RecordExhausted, Outcomes
<1>6. CASE Renew(w)
    <2>1. SameWork
        BY <1>6 DEF Renew, TypeOK, RowType, SameWork
    <2>2. \A u \in Workers : SameWorker(u)
        BY <1>6 DEF Renew, workerVars, SameWorker
    <2> QED
        BY <2>1, <2>2, OneWorker, SameWorkerInv DEF OthersSame, SameWorker
<1>7. CASE Throw(w)
    <2>1. pc[w] \in Leased /\ asking[w] = NoCall
        BY <1>7 DEF Throw, WorkOf, Leased, Working
    <2>2. /\ OthersSame(w) /\ SameWork /\ token'[w] = token[w] /\ pc'[w] = "leaving"
          /\ asking'[w] = asking[w]
        BY <1>7 DEF Throw, Return, TypeOK, OthersSame, SameWorker, SameWork, OutsideVars
    <2>3. WorkerInv(w)'
        BY <2>1, <2>2, CallAssumption
           DEF WorkerInv, WorkOf, SawLatest, WriteOf, SameWork, Leased, Working, Calls
    <2> QED
        BY <2>2, <2>3, OneWorker
<1>8. CASE PersistFails(w)
    <2>1. /\ OthersSame(w) /\ SameWork /\ token'[w] = token[w] /\ pc'[w] = "persist" /\ pc[w] = "persist"
          /\ asking'[w] = asking[w]
          /\ mem'[w].expected = mem[w].expected /\ mem'[w].currentStep = mem[w].currentStep
          /\ mem'[w].held = mem[w].held /\ mem'[w].waking = mem[w].waking
        BY <1>8 DEF PersistFails, TypeOK, MemType, OthersSame, SameWorker, SameWork
    <2>2. WorkerInv(w)'
        BY <2>1 DEF WorkerInv, WorkOf, SawLatest, WriteOf, Keeps, StepsOn, Atomic!StepRel, SameWork,
                    Leased, Working
    <2> QED
        BY <2>1, <2>2, OneWorker
<1> QED
    BY <1>1, <1>2, <1>3, <1>4, <1>5, <1>6, <1>7, <1>8 DEF Afterwards, WorkerFaults

\* Nobody but a worker touches the row's owner or its work.
LEMMA OutsideSameWork ==
    ASSUME TypeOK, Approvers \/ Environment
    PROVE  SameWork /\ UNCHANGED workerVars
<1>1. CASE Approvers
    BY <1>1, SetStatusSameWork
       DEF Approvers, Decide, ReadDecided, ApplyDecided, CrashDecided, TypeOK, SameWork
<1>2. CASE CancelRun \/ WaitTimesOut \/ SendInput \/ Reap
    <2>1. CASE CancelRun
        BY <2>1, SetStatusSameWork DEF CancelRun, TypeOK, SameWork
    <2>2. CASE WaitTimesOut
        BY <2>2, SetStatusSameWork DEF WaitTimesOut, TypeOK, SameWork
    <2>3. CASE SendInput
        BY <2>3, SetStatusSameWork DEF SendInput, TypeOK, SameWork
    <2>4. CASE Reap
        BY <2>4, SetStatusSameWork DEF Reap, TypeOK, SameWork
    <2> QED
        BY <1>2, <2>1, <2>2, <2>3, <2>4
<1>3. CASE ReaperFinds \/ WakeSweep \/ \E j \in jobs : LoseNudge(j)
    BY <1>3 DEF ReaperFinds, WakeSweep, LoseNudge, SameWork
<1>4. CASE Lapse \/ WakeTime \/ GoStale
    BY <1>4 DEF Lapse, WakeTime, GoStale, TypeOK, RowType, SameWork
<1> QED
    BY <1>1, <1>2, <1>3, <1>4 DEF Environment

LEMMA InvOutside ==
    ASSUME IInv, Approvers \/ Environment
    PROVE  IInv'
<1>1. TypeOK /\ TypeOK'
    BY InvSplit, TypeOutside
<1>2. SameWork /\ \A u \in Workers : SameWorker(u)
    BY <1>1, OutsideSameWork DEF workerVars, SameWorker
<1>3. Unique'
    BY <1>1, OutsideSameWork, InvSplit DEF workerVars, Unique
<1> QED
    BY <1>1, <1>2, <1>3, InvSplit, InvSplitNext, SameWorkerInv

LEMMA Initially == Init => IInv
<1> SUFFICES ASSUME Init PROVE IInv
    OBVIOUS
<1>1. TypeOK
    BY InitType
<1>2. Unique /\ \A w \in Workers : WorkerInv(w)
    BY CallAssumption
       DEF Init, Unique, WorkerInv, WorkOf, SawLatest, WriteOf, Leased, Working, Calls
<1> QED
    BY <1>1, <1>2, InvSplit

LEMMA Inductive == IInv /\ [Next]_vars => IInv'
<1> SUFFICES ASSUME IInv, [Next]_vars PROVE IInv'
    OBVIOUS
<1>1. CASE UNCHANGED vars
    <2>1. TypeOK' /\ Unique' /\ SameWork /\ \A u \in Workers : SameWorker(u)
        BY <1>1, InvSplit DEF vars, TypeOK, Unique, SameWork, SameWorker
    <2> QED
        BY <2>1, InvSplit, InvSplitNext, SameWorkerInv
<1>2. CASE Next
    BY <1>2, InvClaims, InvSteps, InvAfterwards, InvOutside DEF Next
<1> QED
    BY <1>1, <1>2

LEMMA Invariant == Spec => []IInv
BY Initially, Inductive, PTL DEF Spec

-----------------------------------------------------------------------------
(* Who writes the row.                                                     *)

LEMMA StepsRow ==
    ASSUME NEW w \in Workers, Steps(w)
    PROVE  row' = row \/ PauseRun(w) \/ ((Commit(w) \/ Persist(w)) /\ row.leaseOwner = token[w])
BY DEF Steps, Load, LoadDone, Return, StepFails, MachineFails, Collaborate, RetryWaking, RunApproved,
       AskModel, Begin, StillWaking, WakingMade, WakingHeld, WakingHeldAgain, FindWaking,
       HeldCallMade, HeldCallWaits, AskPerson, CreateApproval, EndWaking, EndSettling, Abandon,
       Reply, Sleep, AskUser, WaitForApproval, SleepForMachine, Continue, Answer, ToCommit,
       ToWrite, Commit, MayCommit, CommitFenced, Persist

LEMMA AfterwardsRow ==
    ASSUME TypeOK, NEW w \in Workers, Afterwards(w) \/ WorkerFaults(w)
    PROVE  /\ row'.currentStep = row.currentStep /\ row'.held = row.held /\ row'.waking = row.waking
           /\ row'.status # row.status => pc[w] = "giveup" /\ row.status = mem[w].status
<1>1. CASE Release(w)
    BY <1>1 DEF Release, TypeOK, RowType
<1>2. CASE HandOn(w) \/ claimDelivery(w)
    BY <1>2 DEF HandOn, claimDelivery, TypeOK, RowType
<1>3. CASE RecordExhausted(w)
    BY <1>3, SetStatusSameWork DEF RecordExhausted, TypeOK
<1>4. CASE Renew(w)
    BY <1>4 DEF Renew, TypeOK, RowType
<1>5. CASE EnqueueNext(w) \/ QueueWake(w) \/ RetryJob(w) \/ ReadExhausted(w) \/ Throw(w)
           \/ PersistFails(w) \/ EnqueueFails(w) \/ Crash(w)
    BY <1>5 DEF EnqueueNext, QueueWake, RetryJob, ReadExhausted, Throw, Return, PersistFails,
                EnqueueFails, Crash
<1> QED
    BY <1>1, <1>2, <1>3, <1>4, <1>5 DEF Afterwards, WorkerFaults

-----------------------------------------------------------------------------
(* One step of the system against the abstract step and the final status.  *)

SameSteps ==
    /\ row'.currentStep = row.currentStep /\ row'.held = row.held /\ row'.waking = row.waking

LEMMA OneStep ==
    ASSUME IInv, [Next]_vars
    PROVE  SameSteps \/ Atomic!Step
<1> TypeOK /\ \A w \in Workers : WorkerInv(w)
    BY InvSplit
<1>1. CASE UNCHANGED vars
    BY <1>1 DEF vars, SameSteps
<1>2. CASE Approvers \/ Environment
    BY <1>2, OutsideSameWork DEF SameWork, SameSteps
<1>3. ASSUME NEW w \in Workers, Claims(w) PROVE SameSteps
    <2>1. CASE StopAtCap(w)
        <3> DEFINE r == SetStatus(row, "failed")
        <3>1. r \in RowType
            BY SetStatusType DEF TypeOK, Statuses, Terminal
        <3>2. r.currentStep = row.currentStep /\ r.held = row.held /\ r.waking = row.waking
            BY SetStatusSameWork DEF TypeOK
        <3>3. row' = [r EXCEPT !.leaseOwner = NoToken, !.lapsed = FALSE,
                               !.takeovers = seen[w].takeovers + 1]
            BY <2>1 DEF StopAtCap
        <3> HIDE DEF r
        <3> QED
            BY <3>1, <3>2, <3>3 DEF RowType, SameSteps
    <2>2. CASE TakeOver(w) \/ LostTakeover(w)
        BY <2>2 DEF TakeOver, LostTakeover, TypeOK, RowType, SameSteps
    <2>3. CASE \E j \in jobs : ClaimFree(w, j) \/ FindLapsed(w, j) \/ NotClaimed(w, j)
        BY <2>3 DEF ClaimFree, FindLapsed, NotClaimed, TypeOK, RowType, SameSteps
    <2> QED
        BY <1>3, <2>1, <2>2, <2>3 DEF Claims
<1>4. ASSUME NEW w \in Workers, Steps(w) PROVE SameSteps \/ Atomic!Step
    <2>1. CASE row' = row
        BY <2>1 DEF SameSteps
    <2>2. CASE PauseRun(w)
        BY <2>2, SetStatusSameWork DEF PauseRun, TypeOK, SameSteps
    <2>3. CASE (Commit(w) \/ Persist(w)) /\ row.leaseOwner = token[w]
        <3>1. row' = Written(w)
            BY <2>3 DEF Commit, Persist
        <3>2. Keeps(w) \/ StepsOn(w)
            BY <2>3 DEF Commit, Persist, WorkerInv, WriteOf
        <3> QED
            BY <3>1, <3>2, WrittenWork DEF Keeps, StepsOn, SameSteps, Atomic!Step
    <2>4. row' = row \/ PauseRun(w) \/ ((Commit(w) \/ Persist(w)) /\ row.leaseOwner = token[w])
        BY <1>4, StepsRow
    <2> QED
        BY <2>1, <2>2, <2>3, <2>4
<1>5. ASSUME NEW w \in Workers, Afterwards(w) \/ WorkerFaults(w) PROVE SameSteps
    BY <1>5, AfterwardsRow DEF SameSteps
<1> QED
    BY <1>1, <1>2, <1>3, <1>4, <1>5 DEF Next

LEMMA OneStatus ==
    ASSUME IInv, [Next]_vars
    PROVE  [FinalUnlessUnguarded]_vars
<1> TypeOK /\ \A w \in Workers : WorkerInv(w)
    BY InvSplit
<1> SUFFICES ASSUME Next, row.status \in Terminal, row'.status # row.status
             PROVE  \E w \in Workers : \/ asking[w] # NoCall /\ asking'[w] = NoCall
                                       \/ pc[w] = "persist" /\ pc'[w] = "leaving"
    BY DEF FinalUnlessUnguarded
<1> "waiting_approval" \notin Terminal /\ "running" \notin Terminal /\ "waiting_input" \notin Terminal
    /\ Claimable \cap Terminal = {}
    BY DEF Terminal, Claimable
<1>1. ASSUME NEW w \in Workers, Claims(w) PROVE FALSE
    <2>1. CASE StopAtCap(w)
        BY <2>1 DEF StopAtCap, StillLapsed, Due
    <2>2. CASE TakeOver(w) \/ LostTakeover(w)
        BY <2>2 DEF TakeOver, LostTakeover, TypeOK, RowType
    <2>3. CASE \E j \in jobs : ClaimFree(w, j) \/ FindLapsed(w, j) \/ NotClaimed(w, j)
        BY <2>3 DEF ClaimFree, FindLapsed, NotClaimed, TypeOK, RowType
    <2> QED
        BY <1>1, <2>1, <2>2, <2>3 DEF Claims
<1>2. ASSUME NEW w \in Workers, Steps(w)
      PROVE  \/ asking[w] # NoCall /\ asking'[w] = NoCall
             \/ pc[w] = "persist" /\ pc'[w] = "leaving"
    <2>1. CASE PauseRun(w)
        BY <2>1 DEF PauseRun, TypeOK
    <2>2. CASE Persist(w)
        BY <2>2 DEF Persist, TypeOK
    <2>3. ~Commit(w)
        BY DEF Commit, MayCommit
    <2> QED
        BY <1>2, <2>1, <2>2, <2>3, StepsRow
<1>3. ASSUME NEW w \in Workers, Afterwards(w) \/ WorkerFaults(w) PROVE FALSE
    BY <1>3, AfterwardsRow DEF WorkerInv, WorkOf
<1>4. ASSUME Approvers \/ Environment PROVE FALSE
    <2>1. CASE Approvers
        BY <2>1 DEF Approvers, Decide, ReadDecided, ApplyDecided, CrashDecided
    <2>2. CASE CancelRun \/ WaitTimesOut \/ SendInput \/ Reap \/ ReaperFinds \/ WakeSweep
               \/ \E j \in jobs : LoseNudge(j)
        BY <2>2 DEF CancelRun, WaitTimesOut, SendInput, Reap, ReaperFinds, WakeSweep, LoseNudge
    <2>3. CASE Lapse \/ WakeTime \/ GoStale
        BY <2>3 DEF Lapse, WakeTime, GoStale, TypeOK, RowType
    <2> QED
        BY <1>4, <2>1, <2>2, <2>3 DEF Environment
<1> QED
    BY <1>1, <1>2, <1>3, <1>4 DEF Next

-----------------------------------------------------------------------------
(* What follows.                                                           *)

\* run-lease.ts heldBy, commitStep: for any number of workers and under any
\* of the faults, the worker that holds the lease works from the run's latest
\* committed step number and working memory.
THEOREM FencingHolds == Spec => []HolderSawLatest
<1>1. IInv => HolderSawLatest
    BY DEF IInv
<1> QED
    BY <1>1, Invariant, PTL

\* durable-runs.md "Fencing", "Takeover": overlapping, crashing and stalled
\* workers change the run's step number and working memory as one worker
\* taking its steps in turn would.
THEOREM StepsAreAtomic == Spec => ImplementsAtomicSteps
<1>1. Init => Atomic!Init
    BY DEF Init, Atomic!Init
<1>2. IInv /\ [Next]_vars => [Atomic!Next]_(Atomic!vars)
    BY OneStep DEF SameSteps, Atomic!Next, Atomic!vars
<1> QED
    BY <1>1, <1>2, Invariant, PTL DEF Spec, ImplementsAtomicSteps, Atomic!Spec

\* agent-step-processor.ts commitStep, run-event-writer.ts notDone: of all the
\* writers of a run that is over, only the pause of an approval request and
\* the collaboration's persist change its status.
THEOREM FinalForGuarded == Spec => OnlyUnguardedReopens
<1>1. IInv /\ [Next]_vars => [FinalUnlessUnguarded]_vars
    BY OneStatus
<1> QED
    BY <1>1, Invariant, PTL DEF Spec, OnlyUnguardedReopens

-----------------------------------------------------------------------------
(* Takeovers, hand-ons and held calls: the invariant they need besides.    *)

\* What is about to be written ends the run, or takes it one step on; the
\* collaboration's write ends it.
EndOf(w) ==
    /\ pc[w] \in {"commit", "persist"} => mem[w].status \in Terminal \/ mem[w].currentStep = mem[w].expected + 1
    /\ pc[w] = "persist" => mem[w].status \in Terminal
EndInv == \A w \in Workers : EndOf(w)

\* What a claim's first transaction saw is still so while the lease is the one it
\* saw, unless the step it is for is over.  (Without approvals: with them a run
\* that is over may be reopened at the same step.)
Past(w) == job[w].step < row.currentStep \/ row.status \in Terminal
SeenOf(w) ==
    pc[w] = "lapsed" =>
        /\ seen[w].owner # NoToken /\ job[w].step <= row.currentStep
        /\ row.leaseOwner = seen[w].owner => row.takeovers = seen[w].takeovers \/ (Calls = {} /\ Past(w))
SeenInv == \A w \in Workers : SeenOf(w)

\* While no live worker stalls, one that has a token has the lease, and a lease
\* that was seen lapsed is a dead worker's.
HoldInv ==
    "stall" \notin Faults =>
        /\ \A w \in Workers : token[w] # NoToken => row.leaseOwner = token[w] /\ ~row.lapsed
        /\ \A u, w \in Workers : pc[w] = "lapsed" /\ token[u] # NoToken => token[u] # seen[w].owner

CapInv ==
    /\ row.status \notin Terminal => row.takeovers < MaxTakeovers
    /\ "stall" \notin Faults /\ row.takeovers >= MaxTakeovers => \A w \in Workers : token[w] = NoToken

OverInv ==
    Calls = {} => /\ \A w \in Workers : pc[w] = "handing" => row.status \in Terminal
                  /\ row.delivered => row.status \in Terminal

CInv == EndInv /\ SeenInv /\ HoldInv /\ CapInv /\ OverInv

\* Approvals, and live workers whose leases lapse, are not met with together.
Steady == Calls = {} \/ "stall" \notin Faults

-----------------------------------------------------------------------------
(* What a step does                                                        *)

LEMMA RowFacts ==
    ASSUME TypeOK
    PROVE  /\ row.currentStep \in Nat /\ row.takeovers \in Nat /\ row.status \in Statuses
           /\ row.leaseOwner \in TokenOrNone /\ row.lapsed \in BOOLEAN /\ MaxTakeovers \in Nat
           /\ \A w \in Workers : job[w].step \in Nat /\ seen[w].takeovers \in Nat /\ mem[w].expected \in Nat
                                 /\ mem[w].currentStep \in Nat
BY BoundAssumption DEF TypeOK, RowType, JobType, MemType

LEMMA SetStatusFacts ==
    ASSUME NEW r \in RowType, NEW s
    PROVE  LET x == SetStatus(r, s) IN
           /\ x.status = s /\ x.currentStep = r.currentStep /\ x.leaseOwner = r.leaseOwner /\ x.lapsed = r.lapsed
           /\ x.takeovers = r.takeovers /\ x.delivered = r.delivered
           /\ x.held = r.held /\ x.waking = r.waking
BY DEF SetStatus, RowType

LEMMA WrittenFacts ==
    ASSUME TypeOK, NEW w \in Workers
    PROVE  LET x == Written(w) IN
           /\ x.status = mem[w].status /\ x.currentStep = mem[w].currentStep /\ x.leaseOwner = row.leaseOwner
           /\ x.lapsed = row.lapsed /\ x.takeovers = 0 /\ x.delivered = row.delivered
           /\ x.held = mem[w].held /\ x.waking = mem[w].waking
<1> DEFINE r == SetStatus(row, mem[w].status)
<1>1. r \in RowType
    BY SetStatusType DEF TypeOK, MemType
<1>2. /\ r.status = mem[w].status /\ r.leaseOwner = row.leaseOwner /\ r.lapsed = row.lapsed
      /\ r.delivered = row.delivered
    BY SetStatusFacts DEF TypeOK
<1>3. Written(w) = [r EXCEPT !.currentStep = mem[w].currentStep, !.held = mem[w].held,
                             !.waking = mem[w].waking, !.takeovers = 0]
    BY DEF Written
<1> HIDE DEF r
<1> QED
    BY <1>1, <1>2, <1>3 DEF RowType

\* A worker that leaves.
LEMMA LeaveFacts ==
    ASSUME TypeOK, NEW w \in Workers, NEW p, NEW j, Leave(w, p, j)
    PROVE  /\ pc'[w] = p /\ token'[w] = NoToken /\ mem'[w] = NoMem /\ gated'[w] = {} /\ still'[w] = {}
           /\ asking'[w] = NoCall
           /\ \A u \in Workers \ {w} : /\ pc'[u] = pc[u] /\ token'[u] = token[u] /\ seen'[u] = seen[u]
                                       /\ job'[u] = job[u] /\ mem'[u] = mem[u] /\ todo'[u] = todo[u]
                                       /\ gated'[u] = gated[u] /\ still'[u] = still[u] /\ asking'[u] = asking[u]
BY DEF Leave, TypeOK

LEMMA ToWriteEnds ==
    ASSUME TypeOK, NEW w \in Workers, NEW p \in {"commit", "persist"}, NEW st, NEW s, NEW h, NEW k, NEW o,
           ToWrite(w, p, st, s, h, k, o),
           st \in Terminal \/ (p = "commit" /\ s = NextStep(w))
    PROVE  EndOf(w)'
<1>1. pc'[w] = p /\ mem'[w].status = st /\ mem'[w].expected = mem[w].expected /\ mem'[w].currentStep = s
    BY DEF ToWrite, TypeOK
<1> QED
    BY <1>1 DEF EndOf, NextStep

\* What a step leaves alone.
StepAside(w) ==
    /\ token' = token /\ seen' = seen /\ job' = job
    /\ \A u \in Workers \ {w} : pc'[u] = pc[u] /\ mem'[u] = mem[u] /\ todo'[u] = todo[u] /\ still'[u] = still[u]
                                /\ gated'[u] = gated[u] /\ asking'[u] = asking[u]

LEMMA ToWriteAside ==
    ASSUME TypeOK, NEW w \in Workers, NEW p, NEW st, NEW s, NEW h, NEW k, NEW o,
           ToWrite(w, p, st, s, h, k, o)
    PROVE  StepAside(w) /\ pc'[w] = p
BY DEF ToWrite, TypeOK, StepAside

LEMMA StepFacts ==
    ASSUME IInv, NEW w \in Workers, Steps(w)
    PROVE  StepAside(w) /\ pc[w] \in Leased /\ pc'[w] \in Leased /\ EndOf(w)'
<1> USE DEF OutsideVars
<1>0. TypeOK /\ WorkOf(w)
    BY DEF IInv, WorkInv
<1>a. {"failed", "completed"} \subseteq Terminal
    BY DEF Terminal
<1>1. CASE Load(w)
    BY <1>0, <1>1 DEF Load, TypeOK, StepAside, EndOf, Leased, Working
<1>2. CASE LoadDone(w) \/ Abandon(w) \/ CommitFenced(w)
    BY <1>0, <1>2 DEF LoadDone, Abandon, CommitFenced, Return, TypeOK, StepAside, EndOf, Leased, Working
<1>3. CASE StepFails(w)
    BY <1>0, <1>3, <1>a, ToWriteEnds, ToWriteAside DEF StepFails, ToCommit, Leased
<1>4. CASE MachineFails(w)
    BY <1>0, <1>4, <1>a, ToWriteEnds, ToWriteAside DEF MachineFails, ToCommit, Leased, Working
<1>5. CASE Collaborate(w)
    BY <1>0, <1>5, <1>a, ToWriteEnds, ToWriteAside DEF Collaborate, WithinLimits, Leased, Working
<1>6. CASE RetryWaking(w) \/ RunApproved(w) \/ AskModel(w) \/ Reply(w)
    BY <1>0, <1>6 DEF RetryWaking, RunApproved, AskModel, Reply, OwnWork, WithinLimits, Begin, TypeOK, StepAside,
                      EndOf, Leased, Working
<1>7. CASE PauseRun(w)
    <2>1. pc[w] \in Leased /\ pc[w] \notin {"commit", "persist"}
        BY <1>0, <1>7 DEF PauseRun, WorkOf, Leased, Working
    <2>2. StepAside(w)
        BY <1>0, <1>7 DEF PauseRun, TypeOK, StepAside
    <2>3. CASE UNCHANGED <<pc, mem, outcome>>
        BY <2>1, <2>2, <2>3 DEF EndOf
    <2>4. CASE /\ mem' = [mem EXCEPT ![w] = [@ EXCEPT !.status = "waiting_approval",
                                                     !.currentStep = NextStep(w)]]
               /\ pc' = [pc EXCEPT ![w] = "commit"]
        BY <1>0, <2>1, <2>2, <2>4 DEF EndOf, TypeOK, MemType, NextStep, Leased
    <2> QED
        BY <1>7, <2>3, <2>4 DEF PauseRun
<1>8. CASE \E c \in ToolCalls : \/ StillWaking(w, c) \/ WakingMade(w, c) \/ WakingHeldAgain(w, c)
                                 \/ FindWaking(w, c)
    BY <1>0, <1>8 DEF StillWaking, WakingMade, WakingHeldAgain, FindWaking, WakingCall, InReply, TypeOK, StepAside,
                      EndOf, Leased, Working
<1>9. CASE (\E c \in ToolCalls : WakingHeld(w, c)) \/ \E c \in Calls : AskPerson(w, c)
    BY <1>0, <1>9 DEF WakingHeld, AskPerson, WakingCall, InReply, CreateApproval, TypeOK, StepAside, EndOf, Leased, Working
<1>10. CASE \E c \in Holdable : HeldCallMade(w, c) \/ HeldCallWaits(w, c)
    BY <1>0, <1>10 DEF HeldCallMade, HeldCallWaits, HeldCall, TypeOK, StepAside, EndOf, Leased, Working
<1>11. CASE EndWaking(w) \/ EndSettling(w)
    BY <1>0, <1>11, ToWriteEnds, ToWriteAside DEF EndWaking, EndSettling, ToCommit, Leased, Working
<1>12. CASE Sleep(w) \/ AskUser(w) \/ WaitForApproval(w) \/ SleepForMachine(w) \/ Continue(w) \/ Answer(w)
    BY <1>0, <1>12, ToWriteEnds, ToWriteAside
       DEF Sleep, AskUser, WaitForApproval, SleepForMachine, Continue, Answer, InReply, ToCommit, Leased, Working
<1>13. CASE Commit(w) \/ Persist(w)
    BY <1>0, <1>13 DEF Commit, Persist, TypeOK, StepAside, EndOf, Leased
<1> QED
    BY <1>1, <1>2, <1>3, <1>4, <1>5, <1>6, <1>7, <1>8, <1>9, <1>10, <1>11, <1>12, <1>13 DEF Steps

-----------------------------------------------------------------------------
(* The invariant is kept                                                   *)

\* A worker's own step, or one of nobody's: leases and tokens stay where they are.
LEMMA WorkKeeps ==
    ASSUME TypeOK, TypeOK', CInv, UNCHANGED <<token, seen, job>>, EndInv',
           \A u \in Workers : (pc'[u] = "lapsed" => pc[u] = "lapsed") /\ (pc'[u] = "handing" => pc[u] = "handing"),
           row'.leaseOwner = row.leaseOwner,
           row'.lapsed => row.lapsed \/ "stall" \in Faults \/ \A w \in Workers : token[w] # row.leaseOwner,
           row'.currentStep >= row.currentStep,
           \A u \in Workers : pc[u] = "lapsed" /\ row.leaseOwner = seen[u].owner =>
               \/ row'.takeovers = row.takeovers
               \/ Calls = {} /\ (row'.currentStep > row.currentStep \/ row'.status \in Terminal),
           row'.status \notin Terminal => row'.takeovers < MaxTakeovers,
           row'.takeovers >= MaxTakeovers => row.takeovers >= MaxTakeovers,
           Calls = {} /\ row.status \in Terminal => row'.status \in Terminal,
           row'.delivered => row.delivered
    PROVE  CInv'
<1>1. SeenInv'
    <2> SUFFICES ASSUME NEW u \in Workers, pc'[u] = "lapsed" PROVE SeenOf(u)'
        BY DEF SeenInv, SeenOf
    <2>1. pc[u] = "lapsed" /\ seen'[u] = seen[u] /\ job'[u] = job[u]
        OBVIOUS
    <2>2. /\ seen[u].owner # NoToken /\ job[u].step <= row.currentStep
          /\ row.leaseOwner = seen[u].owner => row.takeovers = seen[u].takeovers \/ (Calls = {} /\ Past(u))
        BY <2>1 DEF CInv, SeenInv, SeenOf
    <2>3. job[u].step \in Nat /\ row.currentStep \in Nat /\ row'.currentStep \in Nat
        BY RowFacts DEF TypeOK, RowType
    <2>4. job[u].step <= row'.currentStep /\ (Calls = {} /\ Past(u) => Past(u)')
        BY <2>1, <2>2, <2>3 DEF Past
    <2>5. ASSUME row.leaseOwner = seen[u].owner
          PROVE  row'.takeovers = seen[u].takeovers \/ (Calls = {} /\ Past(u)')
        <3>1. CASE row'.takeovers = row.takeovers
            BY <2>2, <2>4, <2>5, <3>1
        <3>2. CASE Calls = {} /\ (row'.currentStep > row.currentStep \/ row'.status \in Terminal)
            BY <2>1, <2>2, <2>3, <3>2 DEF Past
        <3> QED
            BY <2>1, <2>5, <3>1, <3>2
    <2> QED
        BY <2>1, <2>2, <2>4, <2>5 DEF SeenOf
<1>2. HoldInv'
    BY DEF CInv, HoldInv
<1>3. CapInv'
    BY DEF CInv, CapInv
<1>4. OverInv'
    BY DEF CInv, OverInv
<1> QED
    BY <1>1, <1>2, <1>3, <1>4 DEF CInv

\* A worker leaves, and may let go of its lease, end the run or hand it on.
LEMMA LeaveKeeps ==
    ASSUME IInv, TypeOK', CInv, NEW w \in Workers, NEW p, NEW j, Leave(w, p, j),
           p # "lapsed", p \notin {"commit", "persist"},
           \/ row'.leaseOwner = row.leaseOwner /\ row'.lapsed = row.lapsed
           \/ row.leaseOwner = token[w] /\ row'.leaseOwner = NoToken,
           row'.currentStep = row.currentStep, row'.takeovers = row.takeovers,
           row'.status = row.status \/ row'.status \in Terminal,
           p = "handing" => row.status \in Terminal,
           Calls = {} /\ row'.delivered => row.delivered \/ row.status \in Terminal
    PROVE  CInv'
<1>0. TypeOK /\ Unique
    BY InvSplit
<1>1. /\ pc'[w] = p /\ token'[w] = NoToken
      /\ \A u \in Workers \ {w} : /\ pc'[u] = pc[u] /\ token'[u] = token[u] /\ seen'[u] = seen[u]
                                  /\ job'[u] = job[u] /\ mem'[u] = mem[u]
    BY <1>0, LeaveFacts
<1>2. EndInv'
    BY <1>1 DEF CInv, EndInv, EndOf
<1>3. SeenInv'
    <2> SUFFICES ASSUME NEW u \in Workers \ {w}, pc[u] = "lapsed" PROVE SeenOf(u)'
        BY <1>1 DEF SeenInv, SeenOf
    <2> QED
        BY <1>1 DEF CInv, SeenInv, SeenOf, Past
<1>4. HoldInv'
    <2> SUFFICES ASSUME "stall" \notin Faults PROVE HoldInv'
        BY DEF HoldInv
    <2>1. \A u \in Workers \ {w} : token[u] # NoToken => row'.leaseOwner = token[u] /\ ~row'.lapsed
        BY <1>0 DEF CInv, HoldInv, Unique
    <2> QED
        BY <1>1, <2>1 DEF CInv, HoldInv
<1>5. CapInv'
    BY <1>1 DEF CInv, CapInv
<1>6. OverInv'
    BY <1>1 DEF CInv, OverInv
<1> QED
    BY <1>2, <1>3, <1>4, <1>5, <1>6 DEF CInv

\* A claim: nobody has the token it takes, or has seen it.
LEMMA ClaimKeeps ==
    ASSUME IInv, TypeOK', CInv, NEW w \in Workers, NEW t \in Tokens, Fresh(t),
           token' = [token EXCEPT ![w] = t], pc' = [pc EXCEPT ![w] = "claimed"], UNCHANGED mem,
           \A u \in Workers \ {w} : seen'[u] = seen[u] /\ job'[u] = job[u],
           row'.leaseOwner = t, ~row'.lapsed, row'.currentStep = row.currentStep, row'.status = row.status,
           row'.delivered = row.delivered, row'.takeovers < MaxTakeovers,
           row.leaseOwner = NoToken \/ row.lapsed
    PROVE  CInv'
<1>0. TypeOK /\ t # NoToken
    BY TokenAssumption DEF IInv
<1>1. /\ token'[w] = t /\ pc'[w] = "claimed"
      /\ \A u \in Workers \ {w} : pc'[u] = pc[u] /\ token'[u] = token[u]
    BY <1>0 DEF TypeOK
<1>2. EndInv'
    BY <1>1 DEF CInv, EndInv, EndOf
<1>3. \A u \in Workers \ {w} : t # seen'[u].owner
    BY DEF Fresh
<1>4. SeenInv'
    <2> SUFFICES ASSUME NEW u \in Workers \ {w}, pc[u] = "lapsed" PROVE SeenOf(u)'
        BY <1>1 DEF SeenInv, SeenOf
    <2> QED
        BY <1>1, <1>3 DEF CInv, SeenInv, SeenOf, Past
<1>5. HoldInv'
    <2> SUFFICES ASSUME "stall" \notin Faults PROVE HoldInv'
        BY DEF HoldInv
    <2>1. \A u \in Workers : token[u] = NoToken
        BY DEF CInv, HoldInv
    <2> QED
        BY <1>1, <1>3, <2>1 DEF HoldInv
<1>6. CapInv'
    <2>1. row'.takeovers \in Nat /\ MaxTakeovers \in Nat
        BY <1>0, RowFacts DEF TypeOK, RowType
    <2> QED
        BY <2>1 DEF CapInv
<1>7. OverInv'
    BY <1>1 DEF CInv, OverInv
<1> QED
    BY <1>2, <1>4, <1>5, <1>6, <1>7 DEF CInv

LEMMA ClaimsKeep ==
    ASSUME IInv, CInv, NEW w \in Workers, Claims(w)
    PROVE  CInv'
<1>0. TypeOK /\ TypeOK'
    BY InvSplit, TypeClaims
<1>a. Claimable \cap Terminal = {} /\ "failed" \in Terminal
    BY DEF Claimable, Terminal
<1>b. MaxTakeovers \in Nat /\ row.takeovers \in Nat /\ seen[w].takeovers \in Nat
    BY <1>0, RowFacts
<1>1. CASE \E j \in jobs : ClaimFree(w, j)
    <2> PICK j \in jobs, t \in Tokens : /\ Fresh(t) /\ ClaimFree(w, j)
                                        /\ row' = [row EXCEPT !.leaseOwner = t, !.lapsed = FALSE]
                                        /\ token' = [token EXCEPT ![w] = t]
        BY <1>1 DEF ClaimFree
    <2>1. /\ row'.leaseOwner = t /\ ~row'.lapsed /\ row'.currentStep = row.currentStep /\ row'.status = row.status
          /\ row'.delivered = row.delivered /\ row'.takeovers = row.takeovers
        BY <1>0 DEF TypeOK, RowType
    <2>2. row.leaseOwner = NoToken /\ row.status \in Claimable
        BY DEF ClaimFree, Due
    <2>3. row.takeovers < MaxTakeovers
        BY <1>a, <2>2 DEF CInv, CapInv
    <2>4. \A u \in Workers \ {w} : seen'[u] = seen[u] /\ job'[u] = job[u]
        BY <1>0 DEF ClaimFree, TypeOK
    <2> QED
        BY <1>0, <2>1, <2>2, <2>3, <2>4, ClaimKeeps DEF ClaimFree
<1>2. CASE \E j \in jobs : FindLapsed(w, j)
    <2> PICK j \in jobs : FindLapsed(w, j)
        BY <1>2
    <2>1. /\ pc'[w] = "lapsed" /\ job'[w] = j /\ seen'[w].owner = row.leaseOwner /\ seen'[w].takeovers = row.takeovers
          /\ UNCHANGED <<row, token, mem>>
          /\ \A u \in Workers \ {w} : pc'[u] = pc[u] /\ seen'[u] = seen[u] /\ job'[u] = job[u]
        BY <1>0 DEF FindLapsed, TypeOK
    <2>2. row.leaseOwner # NoToken /\ row.lapsed /\ row.currentStep = j.step /\ row.currentStep \in Nat
        BY <1>0, RowFacts DEF FindLapsed, Due
    <2>3. EndInv'
        BY <2>1 DEF CInv, EndInv, EndOf
    <2>4. SeenInv'
        BY <2>1, <2>2 DEF CInv, SeenInv, SeenOf, Past
    <2>5. HoldInv'
        BY <2>1, <2>2 DEF CInv, HoldInv
    <2>6. CapInv' /\ OverInv'
        BY <2>1 DEF CInv, CapInv, OverInv
    <2> QED
        BY <2>3, <2>4, <2>5, <2>6 DEF CInv
<1>3. CASE \E j \in jobs : NotClaimed(w, j)
    BY <1>3, <1>0, LeaveKeeps DEF NotClaimed, Refused
<1>4. CASE TakeOver(w)
    <2> PICK t \in Tokens : /\ Fresh(t)
                            /\ row' = [row EXCEPT !.leaseOwner = t, !.lapsed = FALSE, !.stale = FALSE,
                                                  !.takeovers = seen[w].takeovers + 1]
                            /\ token' = [token EXCEPT ![w] = t]
        BY <1>4 DEF TakeOver
    <2>1. /\ row'.leaseOwner = t /\ ~row'.lapsed /\ row'.currentStep = row.currentStep /\ row'.status = row.status
          /\ row'.delivered = row.delivered /\ row'.takeovers = seen[w].takeovers + 1
        BY <1>0 DEF TypeOK, RowType
    <2>2. row'.takeovers < MaxTakeovers
        BY <1>4, <1>b, <2>1 DEF TakeOver, AtCap
    <2>3. row.leaseOwner = NoToken \/ row.lapsed
        BY <1>4 DEF TakeOver, StillLapsed, Due
    <2>4. \A u \in Workers \ {w} : seen'[u] = seen[u] /\ job'[u] = job[u]
        BY <1>0, <1>4 DEF TakeOver, TypeOK
    <2> QED
        BY <1>0, <1>4, <2>1, <2>2, <2>3, <2>4, ClaimKeeps DEF TakeOver
<1>5. CASE StopAtCap(w)
    <2>1. row'.status = "failed" /\ row'.leaseOwner = NoToken /\ row'.currentStep = row.currentStep
        <3> DEFINE r == SetStatus(row, "failed")
        <3>1. r \in RowType
            BY <1>0, SetStatusType DEF TypeOK, Statuses, Terminal
        <3>2. r.status = "failed" /\ r.currentStep = row.currentStep
            BY <1>0, SetStatusFacts DEF TypeOK
        <3>3. row' = [r EXCEPT !.leaseOwner = NoToken, !.lapsed = FALSE, !.takeovers = seen[w].takeovers + 1]
            BY <1>5 DEF StopAtCap
        <3> HIDE DEF r
        <3> QED
            BY <3>1, <3>2, <3>3 DEF RowType
    <2>2. /\ pc'[w] = "done" /\ token'[w] = NoToken
          /\ \A u \in Workers \ {w} : /\ pc'[u] = pc[u] /\ token'[u] = token[u] /\ seen'[u] = seen[u]
                                      /\ job'[u] = job[u] /\ mem'[u] = mem[u]
        BY <1>0, <1>5, LeaveFacts DEF StopAtCap
    <2>3. row.lapsed
        BY <1>5 DEF StopAtCap, StillLapsed, Due, CInv, SeenInv, SeenOf
    <2>4. "stall" \notin Faults => \A u \in Workers : token[u] = NoToken
        BY <2>3 DEF CInv, HoldInv
    <2>5. EndInv'
        BY <2>2 DEF CInv, EndInv, EndOf
    <2>6. SeenInv'
        <3> SUFFICES ASSUME NEW u \in Workers \ {w}, pc[u] = "lapsed" PROVE SeenOf(u)'
            BY <2>2 DEF SeenInv, SeenOf
        <3> QED
            BY <2>1, <2>2 DEF CInv, SeenInv, SeenOf
    <2>7. HoldInv' /\ CapInv'
        BY <1>a, <2>1, <2>2, <2>4 DEF HoldInv, CapInv
    <2>8. OverInv'
        BY <1>a, <2>1 DEF OverInv
    <2> QED
        BY <2>5, <2>6, <2>7, <2>8 DEF CInv
<1>6. CASE LostTakeover(w)
    BY <1>6, <1>0, LeaveKeeps DEF LostTakeover, Refused
<1> QED
    BY <1>1, <1>2, <1>3, <1>4, <1>5, <1>6 DEF Claims

LEMMA NoApprovals ==
    ASSUME TypeOK, Calls = {}, NEW w \in Workers
    PROVE  asking[w] = NoCall
BY DEF TypeOK

LEMMA StepsKeep ==
    ASSUME Steady, IInv, CInv, NEW w \in Workers, Steps(w)
    PROVE  CInv'
<1>0. TypeOK /\ TypeOK' /\ WorkerInv(w)
    BY InvSplit, TypeSteps
<1>1. StepAside(w) /\ pc[w] \in Leased /\ pc'[w] \in Leased /\ EndOf(w)'
    BY StepFacts
<1>2. EndInv'
    BY <1>1 DEF CInv, EndInv, EndOf, StepAside
<1>3. \A u \in Workers : (pc'[u] = "lapsed" => pc[u] = "lapsed") /\ (pc'[u] = "handing" => pc[u] = "handing")
    BY <1>1 DEF StepAside, Leased, Working
<1>4. UNCHANGED <<token, seen, job>> /\ token[w] # NoToken
    BY <1>0, <1>1 DEF StepAside, WorkerInv
<1>5. row.currentStep \in Nat /\ row.takeovers \in Nat /\ MaxTakeovers \in Nat
    BY <1>0, RowFacts
<1>6. CASE row' = row
    <2>1. row.status \notin Terminal => row.takeovers < MaxTakeovers
        BY DEF CInv, CapInv
    <2> QED
        BY <1>0, <1>2, <1>3, <1>4, <1>5, <1>6, <2>1, WorkKeeps
<1>7. CASE PauseRun(w)
    <2>1. /\ row'.leaseOwner = row.leaseOwner /\ row'.lapsed = row.lapsed /\ row'.currentStep = row.currentStep
          /\ row'.takeovers = row.takeovers /\ row'.delivered = row.delivered
        BY <1>0, <1>7, SetStatusFacts DEF PauseRun, TypeOK
    <2>2. Calls # {} /\ "stall" \notin Faults
        BY <1>0, <1>7, NoApprovals DEF PauseRun, Steady
    <2>3. row.takeovers < MaxTakeovers
        BY <1>4, <1>5, <2>2 DEF CInv, CapInv
    <2> QED
        BY <1>0, <1>2, <1>3, <1>4, <1>5, <2>1, <2>2, <2>3, WorkKeeps
<1>8. CASE (Commit(w) \/ Persist(w)) /\ row.leaseOwner = token[w]
    <2>1. /\ row'.leaseOwner = row.leaseOwner /\ row'.lapsed = row.lapsed /\ row'.currentStep = mem[w].currentStep
          /\ row'.takeovers = 0 /\ row'.delivered = row.delivered /\ row'.status = mem[w].status
        BY <1>0, <1>8, WrittenFacts DEF Commit, Persist
    <2>2. row'.currentStep = row.currentStep \/ row'.currentStep = row.currentStep + 1
        BY <1>0, <1>8, <2>1 DEF Commit, Persist, WorkerInv, WriteOf, Keeps, StepsOn, Atomic!StepRel
    <2>3. row'.status \in Terminal \/ row'.currentStep = row.currentStep + 1
        BY <1>0, <1>8, <2>1 DEF Commit, Persist, WorkerInv, WriteOf, CInv, EndInv, EndOf
    <2>4. \A u \in Workers : pc[u] = "lapsed" /\ row.leaseOwner = seen[u].owner => Calls = {}
        BY <1>4, <1>8 DEF Steady, CInv, HoldInv
    <2>5. row.status \in Terminal => row'.status \in Terminal
        BY <1>8, <2>1 DEF Commit, MayCommit, Persist, CInv, EndInv, EndOf
    <2>6. row'.takeovers < MaxTakeovers
        BY <2>1, BoundAssumption
    <2>7. row'.currentStep >= row.currentStep
        BY <1>5, <2>2
    <2>8. row'.currentStep > row.currentStep \/ row'.status \in Terminal
        BY <1>5, <2>3
    <2>9. ~(row'.takeovers >= MaxTakeovers)
        BY <2>1, BoundAssumption
    <2> QED
        BY <1>0, <1>2, <1>3, <1>4, <2>1, <2>4, <2>5, <2>6, <2>7, <2>8, <2>9, WorkKeeps
<1> QED
    BY <1>6, <1>7, <1>8, StepsRow

LEMMA AfterwardsKeep ==
    ASSUME IInv, CInv, NEW w \in Workers, Afterwards(w) \/ WorkerFaults(w)
    PROVE  CInv'
<1>0. TypeOK /\ TypeOK' /\ outcome[w] \in Outcomes
    BY InvSplit, TypeAfterwards DEF TypeOK
<1>a. row.status \notin Terminal => row.takeovers < MaxTakeovers
    BY DEF CInv, CapInv
<1>b. row.currentStep \in Nat
    BY <1>0, RowFacts
<1>c. \A o \in Outcomes : o # "lapsed" /\ o \notin {"commit", "persist"} /\ o # "handing"
    BY DEF Outcomes
<1>1. CASE Release(w)
    <2>1. \/ row'.leaseOwner = row.leaseOwner /\ row'.lapsed = row.lapsed
          \/ row.leaseOwner = token[w] /\ row'.leaseOwner = NoToken
        BY <1>0, <1>1 DEF Release, TypeOK, RowType
    <2>2. /\ row'.currentStep = row.currentStep /\ row'.takeovers = row.takeovers /\ row'.status = row.status
          /\ row'.delivered = row.delivered
        BY <1>0, <1>1 DEF Release, TypeOK, RowType
    <2> QED
        BY <1>0, <1>1, <1>c, <2>1, <2>2, LeaveKeeps DEF Release
<1>2. CASE EnqueueNext(w) \/ QueueWake(w) \/ RetryJob(w) \/ EnqueueFails(w) \/ Crash(w)
    BY <1>0, <1>2, LeaveKeeps DEF EnqueueNext, QueueWake, RetryJob, EnqueueFails, Crash
<1>3. CASE HandOn(w)
    BY <1>0, <1>3, LeaveKeeps DEF HandOn, MayHandOn
<1>4. CASE claimDelivery(w)
    <2>1. /\ row'.leaseOwner = row.leaseOwner /\ row'.lapsed = row.lapsed /\ row'.currentStep = row.currentStep
          /\ row'.takeovers = row.takeovers /\ row'.status = row.status
        BY <1>0, <1>4 DEF claimDelivery, TypeOK, RowType
    <2>2. Calls = {} => row.status \in Terminal
        BY <1>4 DEF claimDelivery, CInv, OverInv
    <2> QED
        BY <1>0, <1>4, <2>1, <2>2, LeaveKeeps DEF claimDelivery
<1>5. CASE ReadExhausted(w)
    <2>1. CASE Leave(w, "idle", NoJob)
        BY <1>0, <1>5, <2>1, LeaveKeeps DEF ReadExhausted
    <2>2. CASE /\ pc' = [pc EXCEPT ![w] = "giveup"]
               /\ mem' = [mem EXCEPT ![w] = [@ EXCEPT !.status = row.status]]
               /\ UNCHANGED <<job, token, seen, todo, still, gated, asking, outcome>>
        <3>1. pc'[w] = "giveup" /\ \A u \in Workers \ {w} : pc'[u] = pc[u] /\ mem'[u] = mem[u]
            BY <1>0, <2>2 DEF TypeOK
        <3>2. EndInv'
            BY <3>1 DEF CInv, EndInv, EndOf
        <3>3. \A u \in Workers : (pc'[u] = "lapsed" => pc[u] = "lapsed") /\ (pc'[u] = "handing" => pc[u] = "handing")
            BY <3>1
        <3> QED
            BY <1>0, <1>5, <1>a, <1>b, <2>2, <3>2, <3>3, WorkKeeps DEF ReadExhausted
    <2> QED
        BY <1>5, <2>1, <2>2 DEF ReadExhausted
<1>6. CASE RecordExhausted(w)
    <2>1. /\ row'.leaseOwner = row.leaseOwner /\ row'.lapsed = row.lapsed /\ row'.currentStep = row.currentStep
          /\ row'.takeovers = row.takeovers /\ row'.delivered = row.delivered
          /\ row'.status = row.status \/ row'.status = "failed"
        BY <1>0, <1>6, SetStatusFacts DEF RecordExhausted, TypeOK
    <2> QED
        BY <1>0, <1>6, <2>1, LeaveKeeps DEF RecordExhausted, Terminal
<1>7. CASE Renew(w)
    <2>1. /\ row'.leaseOwner = row.leaseOwner /\ ~row'.lapsed /\ row'.currentStep = row.currentStep
          /\ row'.takeovers = row.takeovers /\ row'.delivered = row.delivered /\ row'.status = row.status
        BY <1>0, <1>7 DEF Renew, TypeOK, RowType
    <2>2. UNCHANGED <<token, seen, job, pc, mem>>
        BY <1>7 DEF Renew, workerVars
    <2>3. EndInv'
        BY <2>2 DEF CInv, EndInv, EndOf
    <2> QED
        BY <1>0, <1>a, <1>b, <2>1, <2>2, <2>3, WorkKeeps
<1>8. CASE Throw(w) \/ PersistFails(w)
    <2>1. UNCHANGED <<row, token, seen, job>>
        BY <1>8 DEF Throw, Return, PersistFails
    <2>2. /\ pc'[w] \in {"leaving", "persist"} /\ \A u \in Workers \ {w} : pc'[u] = pc[u] /\ mem'[u] = mem[u]
          /\ pc'[w] = "persist" => mem'[w].status = "failed"
        BY <1>0, <1>8 DEF Throw, Return, PersistFails, TypeOK, MemType
    <2>3. EndInv'
        BY <2>2 DEF CInv, EndInv, EndOf, Terminal
    <2> QED
        BY <1>0, <1>a, <1>b, <2>1, <2>2, <2>3, WorkKeeps
<1> QED
    BY <1>1, <1>2, <1>3, <1>4, <1>5, <1>6, <1>7, <1>8 DEF Afterwards, WorkerFaults

\* Nobody else touches leases, counts or results; and a run that is over stays so.
LEMMA OutsideRow ==
    ASSUME TypeOK, Approvers \/ Environment
    PROVE  /\ row'.leaseOwner = row.leaseOwner /\ row'.currentStep = row.currentStep
           /\ row'.held = row.held /\ row'.waking = row.waking
           /\ row'.takeovers = row.takeovers /\ row'.delivered = row.delivered
           /\ row.status \in Terminal => row'.status \in Terminal
           /\ row'.lapsed => row.lapsed \/ "stall" \in Faults \/ \A w \in Workers : token[w] # row.leaseOwner
<1>a. "waiting_approval" \notin Terminal /\ "waiting_input" \notin Terminal /\ "timeout" \in Terminal
    BY DEF Terminal
<1>1. CASE Approvers
    BY <1>1, <1>a, SetStatusFacts DEF Approvers, Decide, ReadDecided, ApplyDecided, CrashDecided, TypeOK
<1>2. CASE CancelRun
    BY <1>2, SetStatusFacts DEF CancelRun, TypeOK
<1>3. CASE WaitTimesOut
    BY <1>3, SetStatusFacts DEF WaitTimesOut, TypeOK
<1>4. CASE SendInput
    BY <1>4, <1>a, SetStatusFacts DEF SendInput, TypeOK
<1>5. CASE Reap
    BY <1>5, <1>a, SetStatusFacts DEF Reap, TypeOK
<1>6. CASE ReaperFinds \/ WakeSweep \/ \E j \in jobs : LoseNudge(j)
    BY <1>6 DEF ReaperFinds, WakeSweep, LoseNudge
<1>7. CASE Lapse \/ WakeTime \/ GoStale
    BY <1>7 DEF Lapse, WakeTime, GoStale, TypeOK, RowType
<1> QED
    BY <1>1, <1>2, <1>3, <1>4, <1>5, <1>6, <1>7 DEF Environment

LEMMA OutsideKeeps ==
    ASSUME IInv, CInv, Approvers \/ Environment
    PROVE  CInv'
<1>0. TypeOK /\ TypeOK'
    BY InvSplit, TypeOutside
<1>1. UNCHANGED <<token, seen, job, pc, mem>>
    BY <1>0, OutsideSameWork DEF workerVars
<1>2. EndInv'
    BY <1>1 DEF CInv, EndInv, EndOf
<1>3. row'.status \notin Terminal => row'.takeovers < MaxTakeovers
    BY <1>0, OutsideRow DEF CInv, CapInv
<1>4. row.currentStep \in Nat
    BY <1>0, RowFacts
<1> QED
    BY <1>0, <1>1, <1>2, <1>3, <1>4, OutsideRow, WorkKeeps

LEMMA CInvInit == Init => CInv
<1> SUFFICES ASSUME Init PROVE CInv
    OBVIOUS
<1>1. \A w \in Workers : pc[w] = "idle" /\ token[w] = NoToken
    BY DEF Init
<1>2. row.takeovers = 0 /\ row.delivered = FALSE /\ ~(0 >= MaxTakeovers) /\ 0 < MaxTakeovers
    BY BoundAssumption DEF Init
<1>3. EndInv /\ SeenInv /\ HoldInv
    BY <1>1 DEF EndInv, EndOf, SeenInv, SeenOf, HoldInv
<1>4. CapInv /\ OverInv
    BY <1>1, <1>2 DEF CapInv, OverInv
<1> QED
    BY <1>3, <1>4 DEF CInv

LEMMA CInvNext ==
    ASSUME Steady, IInv, CInv, [Next]_vars
    PROVE  CInv'
<1>1. CASE UNCHANGED vars
    BY <1>1 DEF vars, CInv, EndInv, EndOf, SeenInv, SeenOf, Past, HoldInv, CapInv, OverInv
<1>2. CASE Next
    BY <1>2, ClaimsKeep, StepsKeep, AfterwardsKeep, OutsideKeeps DEF Next
<1> QED
    BY <1>1, <1>2

LEMMA AlwaysCInv ==
    ASSUME Steady
    PROVE  Spec => [](IInv /\ CInv)
<1>1. IInv /\ CInv /\ [Next]_vars => CInv'
    BY CInvNext
<1>2. Init => IInv /\ CInv
    BY Initially, CInvInit
<1> QED
    BY <1>1, <1>2, Inductive, PTL DEF Spec

-----------------------------------------------------------------------------
(* Takeovers, and what is handed on                                        *)

\* Only a claim gives the lease to another.
LEMMA LeaseStays ==
    ASSUME IInv, Next, \A w \in Workers : ~TakeOver(w), row.leaseOwner # NoToken
    PROVE  row'.leaseOwner \in {row.leaseOwner, NoToken}
<1>0. TypeOK
    BY DEF IInv
<1>1. ASSUME NEW w \in Workers, Claims(w) PROVE row'.leaseOwner \in {row.leaseOwner, NoToken}
    <2>1. CASE StopAtCap(w)
        <3> DEFINE r == SetStatus(row, "failed")
        <3>1. r \in RowType
            BY <1>0, SetStatusType DEF TypeOK, Statuses, Terminal
        <3>2. row' = [r EXCEPT !.leaseOwner = NoToken, !.lapsed = FALSE, !.takeovers = seen[w].takeovers + 1]
            BY <2>1 DEF StopAtCap
        <3> HIDE DEF r
        <3> QED
            BY <3>1, <3>2 DEF RowType
    <2> QED
        BY <1>1, <2>1 DEF Claims, ClaimFree, FindLapsed, NotClaimed, LostTakeover
<1>2. ASSUME NEW w \in Workers, Steps(w) PROVE row'.leaseOwner \in {row.leaseOwner, NoToken}
    <2>1. CASE PauseRun(w)
        BY <1>0, <2>1, SetStatusFacts DEF PauseRun, TypeOK
    <2>2. CASE Commit(w) \/ Persist(w)
        BY <1>0, <2>2, WrittenFacts DEF Commit, Persist
    <2> QED
        BY <1>2, <2>1, <2>2, StepsRow
<1>3. ASSUME NEW w \in Workers, Afterwards(w) \/ WorkerFaults(w) PROVE row'.leaseOwner \in {row.leaseOwner, NoToken}
    <2>1. CASE Release(w)
        BY <1>0, <2>1 DEF Release, TypeOK, RowType
    <2>2. CASE claimDelivery(w) \/ Renew(w)
        BY <1>0, <2>2 DEF claimDelivery, Renew, TypeOK, RowType
    <2>3. CASE RecordExhausted(w)
        BY <1>0, <2>3, SetStatusFacts DEF RecordExhausted, TypeOK
    <2> QED
        BY <1>3, <2>1, <2>2, <2>3 DEF Afterwards, WorkerFaults, EnqueueNext, QueueWake, HandOn, RetryJob, ReadExhausted,
                                    Throw, Return, PersistFails, EnqueueFails, Crash
<1> QED
    BY <1>0, <1>1, <1>2, <1>3, OutsideRow DEF Next

LEMMA TakeoverStep ==
    ASSUME IInv, CInv, NEW w \in Workers, TakeOver(w), row.leaseOwner # NoToken
    PROVE  row.lapsed /\ row'.takeovers = row.takeovers + 1
<1>0. TypeOK /\ pc[w] = "lapsed"
    BY DEF IInv, TakeOver
<1>1. row.lapsed /\ row.status \in Claimable /\ row.currentStep = job[w].step /\ row.leaseOwner = seen[w].owner
    BY DEF TakeOver, StillLapsed, Due
<1>2. ~Past(w)
    BY <1>0, <1>1, RowFacts DEF Past, Claimable, Terminal
<1>3. row.takeovers = seen[w].takeovers
    BY <1>0, <1>1, <1>2 DEF CInv, SeenInv, SeenOf
<1>4. row'.takeovers = seen[w].takeovers + 1
    BY <1>0 DEF TakeOver, TypeOK, RowType
<1> QED
    BY <1>1, <1>3, <1>4

\* run-lease.ts claimRun: for any number of workers, a lease is taken from
\* another claim only once it lapsed, and the takeover counts one more than the
\* row does, whatever is written between the transaction that read the count and
\* the one that writes it.  Of a run with approvals it is so while no live worker
\* stalls: otherwise a step can fail the run and be paused open again between the
\* two.
THEOREM TakeoversCounted ==
    ASSUME Steady
    PROVE  Spec => TakeoverCounted
<1>1. IInv /\ CInv /\ [Next]_vars =>
        [(/\ row.leaseOwner # NoToken
          /\ row'.leaseOwner \notin {row.leaseOwner, NoToken})
         => row.lapsed /\ row'.takeovers = row.takeovers + 1]_vars
    BY LeaseStays, TakeoverStep
<1> QED
    BY <1>1, AlwaysCInv, PTL DEF Spec, TakeoverCounted

\* run-lease.ts stopAtCap: under the same condition a run that can be claimed has
\* been taken over fewer than MaxTakeovers times since its last commit.
THEOREM TakeoversCapped ==
    ASSUME Steady
    PROVE  Spec => []UnderTheCap
<1>1. CInv => UnderTheCap
    BY DEF CInv, CapInv, UnderTheCap, Claimable, Terminal
<1> QED
    BY <1>1, AlwaysCInv, PTL

\* run-event-writer.ts claimDelivery: of a run without approvals a result is
\* handed on only when the run is over, and it stays over, although finished()
\* reads the run in one transaction and claims the delivery in another and a
\* fenced-out step reports "done" too.
THEOREM HandsOnWhenOver ==
    ASSUME Calls = {}
    PROVE  Spec => []HandedOnWhenOver
<1>1. IInv /\ CInv => HandedOnWhenOver
    BY DEF CInv, OverInv, HandedOnWhenOver
<1>2. Steady
    BY DEF Steady
<1> QED
    BY <1>1, <1>2, AlwaysCInv, PTL

\* run-lease.ts holdLease: while no live worker stalls, at most one worker has a
\* lease at a time, and it is the row's.
THEOREM OneHolder ==
    ASSUME "stall" \notin Faults
    PROVE  Spec => [](\A u, w \in Workers : token[u] # NoToken /\ token[w] # NoToken => u = w /\ row.leaseOwner = token[w])
<1>1. IInv /\ CInv => \A u, w \in Workers : token[u] # NoToken /\ token[w] # NoToken => u = w /\ row.leaseOwner = token[w]
    BY DEF IInv, TokenInv, CInv, HoldInv
<1>2. Steady
    BY DEF Steady
<1> QED
    BY <1>1, <1>2, AlwaysCInv, PTL

-----------------------------------------------------------------------------
(* Held calls                                                              *)

\* The worker has made call c in the step it is in, or has nothing left to do
\* with it.
Over(w, c) ==
    \/ pc[w] = "settling" /\ c \notin todo[w]
    \/ pc[w] = "commit" /\ (c \notin mem[w].held \/ mem[w].status \in Terminal)
    \/ pc[w] = "leaving" /\ row.status \in Terminal

\* A call that was made and is still held: its worker was taken over from, or is
\* about to commit, or is dead with its lease not yet taken, or the run is over.
Accounted(c) ==
    \/ row.takeovers > 0
    \/ /\ row.leaseOwner # NoToken \/ row.status \in Terminal
       /\ \A w \in Workers : token[w] # NoToken => Over(w, c)

\* No worker is about to hold a call again that was made.
Clear(w, c) ==
    /\ c \notin still[w] /\ c \notin gated[w] /\ c \notin mem[w].waking /\ asking[w] # c
    /\ pc[w] \in {"commit", "persist"} /\ c \in mem[w].held => mem[w].status \in Terminal /\ mem[w].waking = {}

RanOf(c) ==
    /\ approval[c] = "approved" /\ c \notin row.waking
    /\ c \in row.held => row.waking = {} /\ Accounted(c)
    /\ \A w \in Workers : Clear(w, c)

SettleOf(w) ==
    /\ pc[w] = "settling" => still[w] = {} /\ todo[w] \cap gated[w] = {}
    /\ token[w] = NoToken => still[w] = {} /\ gated[w] = {} /\ asking[w] = NoCall /\ mem[w].waking = {}

RInv == /\ \A c \in ToolCalls : ran[c] > 0 => RanOf(c)
        /\ \A w \in Workers : SettleOf(w)

\* A worker with no token has nothing in hand.
LEMMA EmptyHanded ==
    ASSUME IInv, RInv, NEW w \in Workers, token[w] = NoToken, NEW c \in ToolCalls
    PROVE  Clear(w, c)
<1>1. pc[w] \notin Leased
    BY DEF IInv, TokenInv
<1>2. pc[w] \notin {"commit", "persist"} /\ c # NoCall
    BY <1>1, CallAssumption DEF Leased, Calls, Holdable
<1> QED
    BY <1>2 DEF RInv, SettleOf, Clear

\* The only worker with a token moves.
LEMMA OnlyHolder ==
    ASSUME "stall" \notin Faults, IInv, CInv, NEW w \in Workers, token[w] # NoToken
    PROVE  row.leaseOwner = token[w] /\ \A u \in Workers \ {w} : token[u] = NoToken
BY DEF IInv, TokenInv, CInv, HoldInv

LEMMA StepKeepsRan ==
    ASSUME "stall" \notin Faults, IInv, CInv, RInv, NEW w \in Workers, token[w] # NoToken, StepAside(w),
           row' = row, ran' = ran,
           \A c \in ToolCalls : ran[c] > 0 => /\ approval'[c] = approval[c] /\ Clear(w, c)'
                                              /\ c \in row.held /\ Over(w, c) => Over(w, c)',
           pc'[w] = "settling" => still'[w] = {} /\ todo'[w] \cap gated'[w] = {}
    PROVE  RInv'
<1>1. row.leaseOwner = token[w] /\ \A u \in Workers \ {w} : token[u] = NoToken
    BY OnlyHolder
<1>2. token' = token
    BY DEF StepAside
<1>3. ASSUME NEW c \in ToolCalls, ran[c] > 0 PROVE RanOf(c)'
    <2>1. RanOf(c)
        BY <1>3 DEF RInv
    <2>2. \A u \in Workers \ {w} : Clear(u, c)'
        BY <2>1 DEF StepAside, RanOf, Clear
    <2>3. \A u \in Workers : Clear(u, c)'
        BY <1>3, <2>2
    <2>4. c \in row.held /\ Accounted(c) => Accounted(c)'
        BY <1>1, <1>2, <1>3 DEF Accounted
    <2> QED
        BY <1>3, <2>1, <2>3, <2>4 DEF RanOf
<1>4. ASSUME NEW u \in Workers PROVE SettleOf(u)'
    BY <1>2 DEF RInv, SettleOf, StepAside
<1> QED
    BY <1>3, <1>4 DEF RInv

\* What a worker writes next.
LEMMA ToWriteFacts ==
    ASSUME TypeOK, NEW w \in Workers, NEW p, NEW st, NEW s, NEW h, NEW k, NEW o,
           ToWrite(w, p, st, s, h, k, o)
    PROVE  /\ StepAside(w) /\ UNCHANGED <<row, ran, approval>>
           /\ pc'[w] = p /\ mem'[w].status = st /\ mem'[w].held = h /\ mem'[w].waking = k
           /\ still'[w] = still[w] /\ gated'[w] = gated[w] /\ asking'[w] = asking[w]
BY DEF ToWrite, TypeOK, StepAside, OutsideVars

LEMMA ToWriteRan ==
    ASSUME "stall" \notin Faults, IInv, CInv, RInv, NEW w \in Workers, token[w] # NoToken, NEW p \in {"commit", "persist"},
           NEW st, NEW s, NEW h, NEW k, NEW o, ToWrite(w, p, st, s, h, k, o),
           p = "persist" => pc[w] = "loaded",
           \A c \in ToolCalls : ran[c] > 0 => c \notin k /\ (c \in h => st \in Terminal /\ k = {})
    PROVE  RInv'
<1>0. TypeOK
    BY DEF IInv
<1>1. /\ StepAside(w) /\ UNCHANGED <<row, ran, approval>>
      /\ pc'[w] = p /\ mem'[w].status = st /\ mem'[w].held = h /\ mem'[w].waking = k
      /\ still'[w] = still[w] /\ gated'[w] = gated[w] /\ asking'[w] = asking[w]
    BY <1>0, ToWriteFacts
<1>2. \A c \in ToolCalls : ran[c] > 0 => Clear(w, c)'
    BY <1>1 DEF RInv, RanOf, Clear
<1>3. \A c \in ToolCalls : ran[c] > 0 /\ Over(w, c) => Over(w, c)'
    BY <1>1 DEF Over
<1> QED
    BY <1>1, <1>2, <1>3, StepKeepsRan

LEMMA StepsKeepRan ==
    ASSUME "stall" \notin Faults, IInv, CInv, RInv, NEW w \in Workers, Steps(w), row' = row, ran' = ran,
           ~PauseRun(w), ~Commit(w), ~Persist(w), \A c \in Holdable : ~HeldCallMade(w, c)
    PROVE  RInv'
<1> USE DEF OutsideVars
<1>0. TypeOK /\ WorkOf(w) /\ StepAside(w) /\ pc[w] \in Leased /\ token[w] # NoToken
    BY StepFacts DEF IInv, WorkInv, TokenInv
<1>1. row.leaseOwner = token[w]
    BY <1>0, OnlyHolder
<1>2. pc[w] \in Working => mem[w].held = row.held /\ mem[w].waking = row.waking
    BY <1>1 DEF IInv, HolderSawLatest, SawLatest
<1>3. \A c \in ToolCalls : ran[c] > 0 => /\ approval[c] = "approved" /\ c \notin row.waking /\ Clear(w, c)
                                         /\ c \in row.held => row.waking = {}
    BY DEF RInv, RanOf
<1>4. SettleOf(w)
    BY DEF RInv
<1>a. \A c \in ToolCalls : c # NoCall
    BY CallAssumption DEF Calls, Holdable
<1>5. CASE Load(w)
    <2>1. pc[w] = "claimed" /\ pc'[w] = "loaded" /\ mem'[w].waking = row.waking /\ UNCHANGED <<still, gated, asking, approval>>
        BY <1>0, <1>5 DEF Load, TypeOK
    <2> QED
        BY <1>0, <1>3, <2>1, StepKeepsRan DEF Over, Clear
<1>6. CASE LoadDone(w) \/ Abandon(w) \/ CommitFenced(w)
    <2>1. pc'[w] = "leaving" /\ UNCHANGED <<mem, still, gated, asking, approval>>
        BY <1>0, <1>6 DEF LoadDone, Abandon, CommitFenced, Return, TypeOK
    <2>2. CASE pc[w] \in {"claimed", "asked"}
        BY <1>0, <1>3, <2>1, <2>2, StepKeepsRan DEF Over, Clear
    <2>3. CASE CommitFenced(w)
        <3>1. row.status \in Terminal
            BY <1>1, <2>3 DEF CommitFenced, MayCommit, IInv, WriteInv, WriteOf
        <3> QED
            BY <1>0, <1>3, <2>1, <3>1, StepKeepsRan DEF Over, Clear
    <2> QED
        BY <1>6, <2>2, <2>3 DEF LoadDone, Abandon
<1>7. CASE StepFails(w)
    <2>1. pc[w] \in Working /\ "failed" \in Terminal
        BY <1>7 DEF StepFails, Terminal
    <2>2. \A c \in ToolCalls : ran[c] > 0 =>
              c \notin mem[w].waking /\ (c \in mem[w].held => "failed" \in Terminal /\ mem[w].waking = {})
        BY <1>2, <1>3, <2>1
    <2> QED
        BY <1>0, <1>7, <2>2, ToWriteRan DEF StepFails, ToCommit
<1>8. CASE Collaborate(w)
    <2>1. pc[w] \in Working /\ pc[w] = "loaded" /\ "failed" \in Terminal /\ "completed" \in Terminal
        BY <1>8 DEF Collaborate, WithinLimits, Terminal, Working
    <2>2. \A c \in ToolCalls : ran[c] > 0 => c \notin mem[w].waking /\ (c \in mem[w].held => mem[w].waking = {})
        BY <1>2, <1>3, <2>1
    <2> QED
        BY <1>0, <1>8, <2>1, <2>2, ToWriteRan DEF Collaborate
<1>9. CASE RetryWaking(w) \/ RunApproved(w) \/ AskModel(w) \/ Reply(w)
    <2>1. /\ pc[w] \in {"loaded", "asked"} /\ pc'[w] \in {"waking", "settling", "asked", "tools"}
          /\ pc[w] = "asked" => pc'[w] = "tools"
          /\ UNCHANGED <<mem, still, gated, asking, approval>>
        BY <1>0, <1>9 DEF RetryWaking, RunApproved, AskModel, Reply, OwnWork, WithinLimits, Begin, TypeOK
    <2>2. pc'[w] = "settling" => still[w] = {} /\ gated[w] = {}
        BY <1>0, <2>1 DEF WorkOf
    <2> QED
        BY <1>0, <1>3, <2>1, <2>2, StepKeepsRan DEF Over, Clear
<1>10. ASSUME NEW d \in ToolCalls, StillWaking(w, d) \/ WakingMade(w, d) \/ WakingHeldAgain(w, d)
       PROVE  RInv'
    <2>1. pc[w] = "waking" /\ d \in todo[w] /\ UNCHANGED <<pc, mem, asking, approval>>
        BY <1>10 DEF StillWaking, WakingMade, WakingHeldAgain, WakingCall
    <2>2. still'[w] \subseteq still[w] \cup {d} /\ gated'[w] \subseteq gated[w] \cup {d}
        BY <1>0, <1>10 DEF StillWaking, WakingMade, WakingHeldAgain, TypeOK
    <2>3. \A c \in ToolCalls : ran[c] > 0 => c # d
        BY <1>0, <1>3, <2>1 DEF WorkOf, Clear
    <2> QED
        BY <1>0, <1>3, <2>1, <2>2, <2>3, StepKeepsRan DEF Over, Clear
<1>11. ASSUME NEW d \in ToolCalls, FindWaking(w, d)
       PROVE  RInv'
    <2>1. pc[w] = "tools" /\ UNCHANGED <<pc, mem, asking, approval, gated>> /\ still'[w] \subseteq still[w] \cup {d}
        BY <1>0, <1>11 DEF FindWaking, InReply, TypeOK
    <2>2. \A c \in ToolCalls : ran[c] > 0 => c # d
        BY <1>3, <1>11 DEF FindWaking
    <2> QED
        BY <1>0, <1>3, <2>1, <2>2, StepKeepsRan DEF Over, Clear
<1>12. ASSUME NEW d \in Calls, WakingHeld(w, d) \/ AskPerson(w, d)
       PROVE  RInv'
    <2>1. pc[w] \in {"waking", "tools"} /\ UNCHANGED <<pc, mem, still, gated>> /\ asking'[w] = d
        BY <1>0, <1>12 DEF WakingHeld, AskPerson, WakingCall, InReply, CreateApproval, TypeOK
    <2>2. \A c \in ToolCalls : ran[c] > 0 => c # d /\ approval'[c] = approval[c]
        BY <1>0, <1>3, <1>12 DEF WakingHeld, AskPerson, CreateApproval, TypeOK, Calls, Holdable
    <2> QED
        BY <1>0, <1>3, <2>1, <2>2, StepKeepsRan DEF Over, Clear
<1>13. ASSUME NEW d \in Holdable, HeldCallWaits(w, d)
       PROVE  RInv'
    <2>1. /\ pc[w] = "settling" /\ UNCHANGED <<pc, mem, still, asking, approval>>
          /\ todo'[w] = todo[w] \ {d} /\ gated'[w] = gated[w] \cup {d}
        BY <1>0, <1>13 DEF HeldCallWaits, HeldCall, TypeOK
    <2>2. \A c \in ToolCalls : ran[c] > 0 => c # d
        BY <1>3, <1>13, CallAssumption DEF HeldCallWaits
    <2>3. still'[w] = {} /\ todo'[w] \cap gated'[w] = {}
        BY <1>4, <2>1 DEF SettleOf
    <2> QED
        BY <1>0, <1>3, <2>1, <2>2, <2>3, StepKeepsRan DEF Over, Clear
<1>14. CASE EndWaking(w)
    <2>1. pc[w] = "waking" /\ pc[w] \in Working /\ mem[w].waking # {}
        BY <1>0, <1>14 DEF EndWaking, Working, WorkOf
    <2>2. \A c \in ToolCalls : ran[c] > 0 => c \notin still[w] /\ c \notin mem[w].held \cup gated[w]
        BY <1>2, <1>3, <2>1 DEF Clear
    <2> QED
        BY <1>0, <1>14, <2>2, ToWriteRan DEF EndWaking, ToCommit
<1>15. CASE MachineFails(w)
    <2>1. "failed" \in Terminal
        BY DEF Terminal
    <2>2. \A c \in ToolCalls : ran[c] > 0 => c \notin mem[w].waking /\ c \notin {}
        BY <1>3 DEF Clear
    <2>3. pc[w] = "tools" => mem[w].waking = {}
        BY <1>0 DEF WorkOf
    <2> QED
        BY <1>0, <1>15, <2>1, <2>2, <2>3, ToWriteRan DEF MachineFails, ToCommit
<1>16. CASE EndSettling(w)
    <2>1. \A c \in ToolCalls : ran[c] > 0 => c \notin gated[w]
        BY <1>3 DEF Clear
    <2> QED
        BY <1>0, <1>16, <2>1, ToWriteRan DEF EndSettling, ToCommit
<1>17. CASE Sleep(w) \/ AskUser(w) \/ WaitForApproval(w) \/ SleepForMachine(w) \/ Continue(w) \/ Answer(w)
    <2>1. pc[w] = "tools" /\ mem[w].held = {} /\ mem[w].waking = {}
        BY <1>0, <1>17 DEF Sleep, AskUser, WaitForApproval, SleepForMachine, Continue, Answer, InReply, WorkOf
    <2>2. \A c \in ToolCalls : ran[c] > 0 => c \notin gated[w] /\ c \notin still[w]
        BY <1>3 DEF Clear
    <2> QED
        BY <1>0, <1>17, <2>1, <2>2, ToWriteRan
           DEF Sleep, AskUser, WaitForApproval, SleepForMachine, Continue, Answer, ToCommit
<1>18. ToolCalls \subseteq Calls
    BY DEF Calls, Holdable
<1> QED
    BY <1>5, <1>6, <1>7, <1>8, <1>9, <1>10, <1>11, <1>12, <1>13, <1>14, <1>15, <1>16, <1>17, <1>18 DEF Steps

\* Only the step after a decision makes a held call.
LEMMA StepsRan ==
    ASSUME NEW w \in Workers, Steps(w)
    PROVE  ran' = ran \/ \E c \in Holdable : HeldCallMade(w, c)
BY DEF Steps, Load, LoadDone, Return, StepFails, MachineFails, Collaborate, RetryWaking, RunApproved,
       AskModel, Begin, StillWaking, WakingMade, WakingHeld, WakingHeldAgain, FindWaking,
       HeldCallWaits, AskPerson, CreateApproval, EndWaking, EndSettling, Abandon,
       Reply, Sleep, AskUser, WaitForApproval, SleepForMachine, Continue, Answer, ToCommit,
       ToWrite, Commit, CommitFenced, Persist, PauseRun, OutsideVars

\* A held call is made: it is accounted for by the step that makes it.
LEMMA MadeKeepsRan ==
    ASSUME "stall" \notin Faults, IInv, CInv, RInv, NEW w \in Workers, NEW d \in Holdable, HeldCallMade(w, d)
    PROVE  RInv'
<1>0. TypeOK /\ WorkOf(w) /\ SettleOf(w) /\ pc[w] = "settling" /\ d \in todo[w]
    BY DEF IInv, WorkInv, RInv, HeldCallMade, HeldCall
<1>1. /\ UNCHANGED <<row, pc, token, mem, still, gated, asking, approval>>
      /\ todo'[w] = todo[w] \ {d} /\ \A u \in Workers \ {w} : todo'[u] = todo[u]
      /\ \A c \in ToolCalls : ran'[c] > 0 => c = d \/ ran[c] > 0
    BY <1>0 DEF HeldCallMade, TypeOK
<1>2. pc[w] \in Leased /\ pc[w] \in Working
    BY <1>0 DEF Leased, Working
<1>3. token[w] # NoToken
    BY <1>2 DEF IInv, TokenInv
<1>4. row.leaseOwner = token[w] /\ \A u \in Workers \ {w} : token[u] = NoToken
    BY <1>3, OnlyHolder
<1>5. mem[w].held = row.held /\ mem[w].waking = row.waking
    BY <1>2, <1>4 DEF IInv, HolderSawLatest, SawLatest
<1>6. ASSUME NEW c \in ToolCalls, ran[c] > 0 PROVE RanOf(c)'
    <2>1. RanOf(c)
        BY <1>6 DEF RInv
    <2>2. Over(w, c) => Over(w, c)'
        BY <1>0, <1>1 DEF Over
    <2>3. Accounted(c) => Accounted(c)'
        BY <1>1, <1>4, <2>2 DEF Accounted
    <2> QED
        BY <1>1, <2>1, <2>3 DEF RanOf, Clear
<1>7. ASSUME d \in ToolCalls PROVE RanOf(d)'
    <2>1. approval[d] = "approved"
        BY <1>7, CallAssumption DEF HeldCallMade
    <2>2. d \in row.held /\ row.waking = {}
        BY <1>0, <1>5 DEF WorkOf
    <2>3. d # NoCall
        BY CallAssumption DEF Calls
    <2>4. Clear(w, d)'
        BY <1>0, <1>1, <2>3 DEF Clear, SettleOf, WorkOf
    <2>5. \A u \in Workers \ {w} : Clear(u, d)'
        BY <1>1, <1>4, <1>7, EmptyHanded DEF Clear
    <2>6. Over(w, d)'
        BY <1>0, <1>1 DEF Over
    <2>7. Accounted(d)'
        BY <1>1, <1>3, <1>4, <2>6 DEF Accounted
    <2> QED
        BY <1>1, <2>1, <2>2, <2>4, <2>5, <2>7 DEF RanOf
<1>8. \A u \in Workers : SettleOf(u)'
    BY <1>1 DEF RInv, SettleOf
<1> QED
    BY <1>1, <1>6, <1>7, <1>8 DEF RInv

\* The pause of an approval request is not made by a worker that has made its
\* held calls; one that made a call and then died was taken over from.
LEMMA PauseKeepsRan ==
    ASSUME "stall" \notin Faults, IInv, CInv, RInv, NEW w \in Workers, PauseRun(w)
    PROVE  RInv'
<1>0. TypeOK /\ WorkOf(w) /\ pc[w] \in {"waking", "tools"} /\ asking[w] # NoCall
    BY DEF IInv, WorkInv, PauseRun, WorkOf
<1>1. /\ row'.leaseOwner = row.leaseOwner /\ row'.takeovers = row.takeovers
      /\ row'.held = row.held /\ row'.waking = row.waking
    BY <1>0, SetStatusFacts DEF PauseRun, TypeOK
<1>2. UNCHANGED <<token, still, approval, ran, todo>> /\ asking'[w] = NoCall
    BY <1>0 DEF PauseRun, OutsideVars, TypeOK
<1>3. \A u \in Workers \ {w} : pc'[u] = pc[u] /\ mem'[u] = mem[u] /\ gated'[u] = gated[u] /\ asking'[u] = asking[u]
    BY <1>0 DEF PauseRun, TypeOK
<1>4. /\ gated'[w] \subseteq gated[w] \cup {asking[w]} /\ mem'[w].waking = mem[w].waking
      /\ pc'[w] \in {"waking", "tools", "commit"} /\ (pc'[w] = "commit" => mem'[w].held = {})
    <2>1. CASE asking[w] \in Holdable /\ gated' = [gated EXCEPT ![w] = @ \cup {asking[w]}] /\ UNCHANGED <<pc, mem>>
        BY <1>0, <2>1 DEF TypeOK
    <2>2. CASE /\ asking[w] \in Requests /\ UNCHANGED gated
               /\ mem' = [mem EXCEPT ![w] = [@ EXCEPT !.status = "waiting_approval", !.currentStep = NextStep(w)]]
               /\ pc' = [pc EXCEPT ![w] = "commit"]
        <3>1. mem'[w].waking = mem[w].waking /\ mem'[w].held = mem[w].held /\ pc'[w] = "commit"
            BY <1>0, <2>2 DEF TypeOK, MemType
        <3>2. mem[w].held = {}
            BY <1>0, <2>2 DEF WorkOf
        <3> QED
            BY <2>2, <3>1, <3>2
    <2> QED
        BY <2>1, <2>2 DEF PauseRun
<1>5. token[w] # NoToken
    BY <1>0 DEF IInv, TokenInv, Leased, Working
<1>6. ASSUME NEW c \in ToolCalls, ran[c] > 0 PROVE RanOf(c)'
    <2>1. RanOf(c)
        BY <1>6 DEF RInv
    <2>2. c # NoCall
        BY CallAssumption DEF Calls, Holdable
    <2>3. Clear(w, c)'
        BY <1>2, <1>4, <2>1, <2>2 DEF RanOf, Clear
    <2>4. \A u \in Workers \ {w} : Clear(u, c)'
        BY <1>2, <1>3, <2>1 DEF RanOf, Clear
    <2>5. ~Over(w, c)
        BY <1>0 DEF Over
    <2>6. Accounted(c) => Accounted(c)'
        BY <1>1, <1>5, <2>5 DEF Accounted
    <2> QED
        BY <1>1, <1>2, <2>1, <2>3, <2>4, <2>6 DEF RanOf
<1>7. \A u \in Workers \ {w} : SettleOf(u)'
    BY <1>2, <1>3 DEF RInv, SettleOf
<1>8. SettleOf(w)'
    BY <1>2, <1>4, <1>5 DEF SettleOf
<1> QED
    BY <1>2, <1>6, <1>7, <1>8 DEF RInv

\* A commit writes a made call out of the row, or ends the run.
LEMMA CommitKeepsRan ==
    ASSUME "stall" \notin Faults, IInv, CInv, RInv, NEW w \in Workers, Commit(w) \/ Persist(w)
    PROVE  RInv'
<1>0. TypeOK /\ pc[w] \in {"commit", "persist"} /\ pc'[w] = "leaving"
    BY DEF IInv, Commit, Persist, TypeOK
<1>1. token[w] # NoToken
    BY <1>0 DEF IInv, TokenInv, Leased
<1>2. row.leaseOwner = token[w] /\ \A u \in Workers \ {w} : token[u] = NoToken
    BY <1>1, OnlyHolder
<1>3. row'.status = mem[w].status /\ row'.held = mem[w].held /\ row'.waking = mem[w].waking
    BY <1>0, <1>2, WrittenFacts DEF Commit, Persist
<1>4. /\ UNCHANGED <<token, mem, still, gated, asking, todo, approval, ran>>
      /\ \A u \in Workers \ {w} : pc'[u] = pc[u]
    BY <1>0 DEF Commit, Persist, OutsideVars, TypeOK
<1>5. ASSUME NEW c \in ToolCalls, ran[c] > 0 PROVE RanOf(c)'
    <2>1. RanOf(c) /\ Clear(w, c)
        BY <1>5 DEF RInv, RanOf
    <2>2. \A u \in Workers : Clear(u, c)'
        BY <1>0, <1>4, <2>1 DEF RanOf, Clear
    <2>3. c \notin row'.waking /\ (c \in row'.held => row'.status \in Terminal /\ row'.waking = {})
        BY <1>0, <1>3, <2>1 DEF Clear
    <2>4. c \in row'.held => Accounted(c)'
        BY <1>0, <1>2, <1>4, <2>3 DEF Accounted, Over
    <2> QED
        BY <1>4, <2>1, <2>2, <2>3, <2>4 DEF RanOf
<1>6. \A u \in Workers : SettleOf(u)'
    BY <1>0, <1>4 DEF RInv, SettleOf
<1> QED
    BY <1>4, <1>5, <1>6 DEF RInv

\* A worker leaves; a lease is let go by one whose step is over.
LEMMA LeaveKeepsRan ==
    ASSUME IInv, RInv, NEW w \in Workers, NEW p, NEW j, Leave(w, p, j), p \notin {"settling", "commit", "persist"},
           row'.held = row.held, row'.waking = row.waking, UNCHANGED <<approval, ran>>,
           row.status \in Terminal => row'.status \in Terminal,
           \/ row'.takeovers > 0
           \/ row'.takeovers = row.takeovers /\ (row'.leaseOwner = row.leaseOwner \/ pc[w] = "leaving")
    PROVE  RInv'
<1>0. TypeOK
    BY DEF IInv
<1>1. /\ pc'[w] = p /\ token'[w] = NoToken /\ mem'[w].waking = {} /\ gated'[w] = {} /\ still'[w] = {}
      /\ asking'[w] = NoCall
      /\ \A u \in Workers \ {w} : /\ pc'[u] = pc[u] /\ token'[u] = token[u] /\ mem'[u] = mem[u] /\ todo'[u] = todo[u]
                                  /\ gated'[u] = gated[u] /\ still'[u] = still[u] /\ asking'[u] = asking[u]
    BY <1>0, LeaveFacts DEF NoMem
<1>2. ASSUME NEW c \in ToolCalls, ran[c] > 0 PROVE RanOf(c)'
    <2>1. RanOf(c)
        BY <1>2 DEF RInv
    <2>2. c # NoCall
        BY CallAssumption DEF Calls, Holdable
    <2>3. \A u \in Workers : Clear(u, c)'
        BY <1>1, <2>1, <2>2 DEF RanOf, Clear
    <2>4. pc[w] = "leaving" /\ Accounted(c) => row.takeovers > 0 \/ row.status \in Terminal
        BY DEF Accounted, Over, IInv, TokenInv, Leased
    <2>5. \A u \in Workers \ {w} : Over(u, c) => Over(u, c)'
        BY <1>1 DEF Over
    <2>6. Accounted(c) => Accounted(c)'
        BY <1>1, <2>4, <2>5 DEF Accounted
    <2> QED
        BY <2>1, <2>3, <2>6 DEF RanOf
<1>3. \A u \in Workers : SettleOf(u)'
    BY <1>1 DEF RInv, SettleOf
<1> QED
    BY <1>2, <1>3 DEF RInv

\* A worker without a token moves on, and may claim the run.
LEMMA IdleKeepsRan ==
    ASSUME IInv, RInv, NEW w \in Workers, pc[w] \notin Leased, NEW p \in {"claimed", "lapsed", "giveup"},
           pc' = [pc EXCEPT ![w] = p], UNCHANGED <<todo, still, gated, asking, approval, ran>>,
           \A u \in Workers : mem'[u].waking = mem[u].waking,
           \A u \in Workers \ {w} : mem'[u] = mem[u] /\ token'[u] = token[u],
           row'.held = row.held, row'.waking = row.waking,
           \/ row'.takeovers > 0
           \/ row'.takeovers = row.takeovers /\ row.leaseOwner = NoToken /\ row.status \notin Terminal
           \/ row' = row /\ token' = token
    PROVE  RInv'
<1>0. TypeOK /\ token[w] = NoToken
    BY DEF IInv, TokenInv
<1>1. pc'[w] = p /\ \A u \in Workers \ {w} : pc'[u] = pc[u]
    BY <1>0 DEF TypeOK
<1>2. ASSUME NEW c \in ToolCalls, ran[c] > 0 PROVE RanOf(c)'
    <2>1. RanOf(c)
        BY <1>2 DEF RInv
    <2>2. \A u \in Workers : Clear(u, c)'
        BY <1>1, <2>1 DEF RanOf, Clear
    <2>3. Accounted(c) => Accounted(c)'
        <3>1. CASE row' = row /\ token' = token
            BY <1>0, <1>1, <3>1 DEF Accounted, Over
        <3> QED
            BY <3>1 DEF Accounted
    <2> QED
        BY <2>1, <2>2, <2>3 DEF RanOf
<1>3. \A u \in Workers : SettleOf(u)'
    BY <1>0, <1>1 DEF RInv, SettleOf
<1> QED
    BY <1>2, <1>3 DEF RInv

\* Nobody's step changes what a worker has in hand.
LEMMA OthersKeepRan ==
    ASSUME RInv, UNCHANGED <<workerVars, ran>>, row'.held = row.held, row'.waking = row.waking,
           row'.takeovers = row.takeovers, row'.leaseOwner = row.leaseOwner,
           row.status \in Terminal => row'.status \in Terminal,
           \A c \in ToolCalls : ran[c] > 0 => approval'[c] = approval[c]
    PROVE  RInv'
<1>1. UNCHANGED <<pc, token, mem, todo, still, gated, asking>>
    BY DEF workerVars
<1>2. ASSUME NEW c \in ToolCalls, ran[c] > 0 PROVE RanOf(c)'
    BY <1>1, <1>2 DEF RInv, RanOf, Clear, Accounted, Over
<1>3. \A u \in Workers : SettleOf(u)'
    BY <1>1 DEF RInv, SettleOf
<1> QED
    BY <1>2, <1>3 DEF RInv

LEMMA ClaimsKeepRan ==
    ASSUME IInv, RInv, NEW w \in Workers, Claims(w)
    PROVE  RInv'
<1>0. TypeOK /\ Claimable \cap Terminal = {}
    BY DEF IInv, Claimable, Terminal
<1>a. "idle" \notin Leased /\ "lapsed" \notin Leased
    BY DEF Leased, Working
<1>1. CASE \E j \in jobs : ClaimFree(w, j)
    <2>1. PICK j \in jobs, t \in Tokens : /\ ClaimFree(w, j)
                                          /\ row' = [row EXCEPT !.leaseOwner = t, !.lapsed = FALSE]
                                          /\ token' = [token EXCEPT ![w] = t]
        BY <1>1 DEF ClaimFree
    <2>2. /\ row'.held = row.held /\ row'.waking = row.waking /\ row'.takeovers = row.takeovers
          /\ \A u \in Workers \ {w} : token'[u] = token[u]
        BY <1>0, <2>1 DEF TypeOK, RowType
    <2>3. row.leaseOwner = NoToken /\ row.status \notin Terminal
        BY <1>0, <2>1 DEF ClaimFree, Due
    <2> QED
        BY <1>a, <2>1, <2>2, <2>3, IdleKeepsRan DEF ClaimFree
<1>2. CASE \E j \in jobs : FindLapsed(w, j)
    BY <1>2, <1>a, IdleKeepsRan DEF FindLapsed
<1>3. CASE (\E j \in jobs : NotClaimed(w, j)) \/ LostTakeover(w)
    BY <1>3, LeaveKeepsRan DEF NotClaimed, LostTakeover, Refused
<1>4. CASE TakeOver(w)
    <2>1. PICK t \in Tokens : /\ row' = [row EXCEPT !.leaseOwner = t, !.lapsed = FALSE, !.stale = FALSE,
                                                    !.takeovers = seen[w].takeovers + 1]
                              /\ token' = [token EXCEPT ![w] = t]
        BY <1>4 DEF TakeOver
    <2>2. /\ row'.held = row.held /\ row'.waking = row.waking /\ row'.takeovers = seen[w].takeovers + 1
          /\ \A u \in Workers \ {w} : token'[u] = token[u]
        BY <1>0, <2>1 DEF TypeOK, RowType
    <2>3. row'.takeovers > 0
        BY <1>0, <2>2, RowFacts
    <2> QED
        BY <1>4, <1>a, <2>2, <2>3, IdleKeepsRan DEF TakeOver
<1>5. CASE StopAtCap(w)
    <2> DEFINE r == SetStatus(row, "failed")
    <2>1. r \in RowType /\ r.status = "failed" /\ r.held = row.held /\ r.waking = row.waking
        BY <1>0, SetStatusType, SetStatusFacts DEF TypeOK, Statuses, Terminal
    <2>2. row' = [r EXCEPT !.leaseOwner = NoToken, !.lapsed = FALSE, !.takeovers = seen[w].takeovers + 1]
        BY <1>5 DEF StopAtCap
    <2> HIDE DEF r
    <2>3. row'.held = row.held /\ row'.waking = row.waking /\ row'.takeovers = seen[w].takeovers + 1 /\ row'.status = "failed"
        BY <2>1, <2>2 DEF RowType
    <2>4. row'.takeovers > 0 /\ row'.status \in Terminal
        BY <1>0, <2>3, RowFacts DEF Terminal
    <2> QED
        BY <1>5, <2>3, <2>4, LeaveKeepsRan DEF StopAtCap
<1> QED
    BY <1>1, <1>2, <1>3, <1>4, <1>5 DEF Claims

LEMMA AfterwardsKeepRan ==
    ASSUME "throw" \notin Faults, IInv, RInv, NEW w \in Workers, Afterwards(w) \/ WorkerFaults(w)
    PROVE  RInv'
<1> USE DEF OutsideVars
<1>0. TypeOK /\ outcome[w] \notin {"settling", "commit", "persist"}
    BY DEF IInv, TypeOK, Outcomes
<1>1. CASE Release(w)
    <2>1. /\ row'.held = row.held /\ row'.waking = row.waking /\ row'.takeovers = row.takeovers
          /\ row'.status = row.status
        BY <1>0, <1>1 DEF Release, TypeOK, RowType
    <2> QED
        BY <1>0, <1>1, <2>1, LeaveKeepsRan DEF Release
<1>2. CASE EnqueueNext(w) \/ QueueWake(w) \/ HandOn(w) \/ RetryJob(w) \/ Crash(w)
    BY <1>2, LeaveKeepsRan DEF EnqueueNext, QueueWake, HandOn, RetryJob, Crash
<1>3. CASE claimDelivery(w)
    <2>1. /\ row'.held = row.held /\ row'.waking = row.waking /\ row'.takeovers = row.takeovers
          /\ row'.status = row.status /\ row'.leaseOwner = row.leaseOwner
        BY <1>0, <1>3 DEF claimDelivery, TypeOK, RowType
    <2> QED
        BY <1>3, <2>1, LeaveKeepsRan DEF claimDelivery
<1>4. CASE ReadExhausted(w)
    <2>1. CASE Leave(w, "idle", NoJob)
        BY <1>4, <2>1, LeaveKeepsRan DEF ReadExhausted
    <2>2. CASE /\ pc' = [pc EXCEPT ![w] = "giveup"]
               /\ mem' = [mem EXCEPT ![w] = [@ EXCEPT !.status = row.status]]
               /\ UNCHANGED <<job, token, seen, todo, still, gated, asking, outcome>>
        <3>1. \A u \in Workers : mem'[u].waking = mem[u].waking /\ (u # w => mem'[u] = mem[u])
            BY <1>0, <2>2 DEF TypeOK, MemType
        <3>2. pc[w] \notin Leased
            BY <1>4 DEF ReadExhausted, Leased, Working
        <3> QED
            BY <1>4, <2>2, <3>1, <3>2, IdleKeepsRan DEF ReadExhausted
    <2> QED
        BY <1>4, <2>1, <2>2 DEF ReadExhausted
<1>5. CASE RecordExhausted(w)
    <2>1. /\ row'.held = row.held /\ row'.waking = row.waking /\ row'.takeovers = row.takeovers
          /\ row'.leaseOwner = row.leaseOwner /\ row'.status \in {row.status, "failed"}
        BY <1>0, <1>5, SetStatusFacts DEF RecordExhausted, TypeOK
    <2>2. row.status \in Terminal => row'.status \in Terminal
        BY <2>1 DEF Terminal
    <2> QED
        BY <1>5, <2>1, <2>2, LeaveKeepsRan DEF RecordExhausted
<1>6. CASE Renew(w)
    <2>1. /\ row'.held = row.held /\ row'.waking = row.waking /\ row'.takeovers = row.takeovers
          /\ row'.leaseOwner = row.leaseOwner /\ row'.status = row.status
        BY <1>0, <1>6 DEF Renew, TypeOK, RowType
    <2> QED
        BY <1>6, <2>1, OthersKeepRan DEF Renew
<1> QED
    BY <1>1, <1>2, <1>3, <1>4, <1>5, <1>6 DEF Afterwards, WorkerFaults, Throw, PersistFails, EnqueueFails

LEMMA OutsideKeepsRan ==
    ASSUME IInv, RInv, Approvers \/ Environment
    PROVE  RInv'
<1>0. TypeOK /\ UNCHANGED workerVars
    BY OutsideSameWork DEF IInv
<1>1. ran' = ran
    BY DEF Approvers, Decide, ReadDecided, ApplyDecided, CrashDecided, Environment, CancelRun, WaitTimesOut,
           SendInput, ReaperFinds, Reap, WakeSweep, Lapse, WakeTime, GoStale, LoseNudge, OutsideVars
<1>2. approval' = approval \/ \E c \in Calls, d \in {"approved", "rejected", "expired"} : Decide(c, d)
    BY DEF Approvers, ReadDecided, ApplyDecided, CrashDecided, Environment, CancelRun, WaitTimesOut,
           SendInput, ReaperFinds, Reap, WakeSweep, Lapse, WakeTime, GoStale, LoseNudge, OutsideVars
<1>3. \A c \in ToolCalls : ran[c] > 0 => approval'[c] = approval[c]
    <2> SUFFICES ASSUME NEW c \in ToolCalls, ran[c] > 0, NEW d \in Calls, NEW a, Decide(d, a)
                 PROVE  approval'[c] = approval[c]
        BY <1>2
    <2>1. approval[c] = "approved" /\ approval[d] = "pending" /\ c \in Calls
        BY DEF RInv, RanOf, Decide, Calls, Holdable
    <2> QED
        BY <1>0, <2>1 DEF Decide, TypeOK
<1> QED
    BY <1>0, <1>1, <1>3, OutsideRow, OthersKeepRan

LEMMA RInvInit == Init => RInv
BY DEF Init, RInv, SettleOf, NoMem

LEMMA RInvNext ==
    ASSUME "stall" \notin Faults, "throw" \notin Faults, IInv, CInv, RInv, [Next]_vars
    PROVE  RInv'
<1>1. CASE UNCHANGED vars
    BY <1>1, OthersKeepRan DEF vars, workerVars
<1>2. ASSUME NEW w \in Workers, Steps(w) PROVE RInv'
    BY <1>2, StepsRow, StepsRan, PauseKeepsRan, CommitKeepsRan, MadeKeepsRan, StepsKeepRan
<1>3. CASE Next
    BY <1>2, <1>3, ClaimsKeepRan, AfterwardsKeepRan, OutsideKeepsRan DEF Next
<1> QED
    BY <1>1, <1>3

\* Who makes a held call finds it in the row, and made before only by a worker
\* that was taken over from.
LEMMA MadeFromRow ==
    ASSUME IInv, CInv, RInv, "stall" \notin Faults, NEW w \in Workers, NEW c \in ToolCalls, HeldCallMade(w, c)
    PROVE  c \in row.held /\ (ran[c] > 0 => row.takeovers > 0)
<1>1. WorkOf(w) /\ pc[w] = "settling" /\ c \in todo[w]
    BY DEF IInv, WorkInv, HeldCallMade, HeldCall
<1>2. pc[w] \in Leased /\ pc[w] \in Working
    BY <1>1 DEF Leased, Working
<1>3. token[w] # NoToken
    BY <1>2 DEF IInv, TokenInv
<1>4. mem[w].held = row.held
    BY <1>2, <1>3, OnlyHolder DEF IInv, HolderSawLatest, SawLatest
<1>5. c \in row.held /\ ~Over(w, c)
    BY <1>1, <1>4 DEF WorkOf, Over
<1> QED
    BY <1>3, <1>5 DEF RInv, RanOf, Accounted

\* Nothing else makes one.
LEMMA RanByStep ==
    ASSUME IInv, [Next]_vars, ran' # ran
    PROVE  \E w \in Workers, c \in Holdable : HeldCallMade(w, c)
<1>1. ASSUME NEW w \in Workers, Claims(w) \/ Afterwards(w) \/ WorkerFaults(w) PROVE ran' = ran
    BY <1>1 DEF Claims, ClaimFree, FindLapsed, NotClaimed, TakeOver, StopAtCap, LostTakeover, Afterwards, Release,
                EnqueueNext, QueueWake, HandOn, claimDelivery, RetryJob, ReadExhausted, RecordExhausted, WorkerFaults,
                Renew, Throw, Return, PersistFails, EnqueueFails, Crash, OutsideVars
<1>2. Approvers \/ Environment => ran' = ran
    BY DEF Approvers, Decide, ReadDecided, ApplyDecided, CrashDecided, Environment, CancelRun, WaitTimesOut,
           SendInput, ReaperFinds, Reap, WakeSweep, Lapse, WakeTime, GoStale, LoseNudge, OutsideVars
<1> QED
    BY <1>1, <1>2, StepsRan DEF Next, vars

\* docs/design/durable-runs.md "The queue only nudges": for any workers, calls and
\* duplicated nudges, a held call is made only while the row holds it, and made
\* again only by a worker that took the run over from one that died between the
\* call and its commit.  Not of a step that throws there, which Bull runs again,
\* nor of a live worker that stalls past its lease, which makes its calls
\* unfenced beside the one that took over.
THEOREM HeldCallsMadeOnce ==
    ASSUME "stall" \notin Faults, "throw" \notin Faults
    PROVE  Spec => HeldCallMadeOnce
<1>1. Steady
    BY DEF Steady
<1>2. IInv /\ CInv /\ RInv /\ [Next]_vars => RInv'
    BY RInvNext
<1>3. IInv /\ CInv /\ RInv /\ [Next]_vars =>
        [\A c \in ToolCalls : ran'[c] # ran[c] => c \in row.held /\ (ran[c] > 0 => row.takeovers > 0)]_vars
    <2> SUFFICES ASSUME IInv, CInv, RInv, [Next]_vars, NEW c \in ToolCalls, ran'[c] # ran[c]
                 PROVE  c \in row.held /\ (ran[c] > 0 => row.takeovers > 0)
        OBVIOUS
    <2>1. PICK w \in Workers, d \in Holdable : HeldCallMade(w, d)
        BY RanByStep
    <2>2. c = d
        BY <2>1 DEF HeldCallMade, IInv, TypeOK
    <2> QED
        BY <2>1, <2>2, MadeFromRow
<1>4. Spec => []RInv
    BY <1>1, <1>2, RInvInit, AlwaysCInv, PTL DEF Spec
<1> QED
    BY <1>1, <1>3, <1>4, AlwaysCInv, PTL DEF Spec, HeldCallMadeOnce
===========================================================================
