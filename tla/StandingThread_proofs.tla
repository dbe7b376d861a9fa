------------------------ MODULE StandingThread_proofs ------------------------
(***************************************************************************)
(* Theorems about StandingThread.                                          *)
(***************************************************************************)
EXTENDS StandingThread, FiniteSetTheorems, TLAPS

-----------------------------------------------------------------------------
(* Types                                                                   *)

LEMMA Ordinary ==
    /\ NoRun \notin Runs /\ Wakes \subseteq Nat /\ Runs \subseteq Nat
    /\ Fresh \in Config /\ Idle \in Worker /\ NotStarted \in Run
BY StandingAssumption DEF Runs, Wakes, NoRun, Fresh, Config, Idle, Worker, WorkerPc, NotStarted, Run, None

LEMMA InitType == Init => TypeOK
<1> SUFFICES ASSUME Init PROVE TypeOK
    OBVIOUS
<1>1. missed \in BOOLEAN
    BY DEF Init
<1> QED
    BY <1>1, StandingAssumption, Ordinary DEF Init, TypeOK, Wake, Source, None, Orphan, NoRun

LEMMA OldestType == ASSUME NEW S \in SUBSET Wakes, NEW n PROVE Oldest(S, n) \in SUBSET Wakes
BY DEF Oldest

LEMMA MoreType == TypeOK => More \in 0..MaxNudges
BY StandingAssumption DEF TypeOK, More

LEMMA NudgeType ==
    ASSUME TypeOK, Nudge \/ NoNudge
    PROVE  nudges' \in 0..MaxNudges /\ bucket' \in Workers \cup {None, "waiting"} /\ missed' \in BOOLEAN
<1>1. nudges' \in 0..MaxNudges /\ bucket' \in Workers \cup {None, "waiting"}
    BY MoreType DEF TypeOK, Nudge, NoNudge
<1>2. missed' \in BOOLEAN
    <2>1. CASE missed' = missed
        BY <2>1 DEF TypeOK
    <2>2. CASE missed' = FALSE
        BY <2>2
    <2>3. CASE missed' = (missed \/ Deaf)
        BY <2>3
    <2> QED
        BY <2>1, <2>2, <2>3 DEF Nudge, NoNudge
<1> QED
    BY <1>1, <1>2

LEMMA TypeWake ==
    ASSUME TypeOK, NEW k \in Wakes, Arrive(k) \/ WakeStep(k) \/ SourceDies(k)
    PROVE  TypeOK'
<1>1. CASE Arrive(k)
    BY <1>1 DEF Arrive, TypeOK, Source
<1>2. CASE Insert(k)
    <2>1. inbox' \in [Wakes -> Wake]
        BY <1>2 DEF Insert, TypeOK, Wake
    <2>2. source' \in [Wakes -> Source]
        BY <1>2 DEF Insert, TypeOK, Source
    <2> QED
        BY <1>2, <2>1, <2>2 DEF Insert, TypeOK
<1>3. CASE CountQueued(k)
    BY <1>3, OldestType DEF CountQueued, TypeOK, Source, Queued
<1>4. CASE Fold(k)
    BY <1>4 DEF Fold, TypeOK, Source, Wake
<1>5. CASE AskQueue(k)
    BY <1>5, NudgeType DEF AskQueue, NudgeFor, TypeOK, Source
<1>6. CASE SourceDies(k)
    BY <1>6 DEF SourceDies, TypeOK, Source
<1> QED
    BY <1>1, <1>2, <1>3, <1>4, <1>5, <1>6 DEF WakeStep

\* A worker's record with some of its fields changed.
LEMMA WorkerWith ==
    ASSUME NEW x \in Worker, NEW p \in WorkerPc
    PROVE  /\ [x EXCEPT !.pc = p] \in Worker
           /\ \A c \in Config : [x EXCEPT !.seen = c, !.pc = p] \in Worker
           /\ \A S \in SUBSET Wakes : /\ [x EXCEPT !.batch = S, !.pc = p] \in Worker
                                      /\ [x EXCEPT !.pc = p, !.todo = S] \in Worker
                                      /\ [x EXCEPT !.todo = S] \in Worker
           /\ \A S, T \in SUBSET Wakes : [x EXCEPT !.todo = S, !.won = T] \in Worker
           /\ \A S, T \in SUBSET Wakes : \A r \in Runs \cup {NoRun} :
                /\ [x EXCEPT !.pc = p, !.todo = S, !.batch = T, !.run = r] \in Worker
                /\ [x EXCEPT !.pc = p, !.run = r, !.batch = S] \in Worker
BY DEF Worker

LEMMA WorkerType ==
    ASSUME TypeOK, NEW w \in Workers
    PROVE  /\ worker[w] \in Worker
           /\ worker[w].pc \in WorkerPc /\ worker[w].seen \in Config
           /\ worker[w].batch \in SUBSET Wakes /\ worker[w].todo \in SUBSET Wakes
           /\ worker[w].won \in SUBSET Wakes /\ worker[w].run \in Runs \cup {NoRun}
<1>1. worker[w] \in Worker
    BY DEF TypeOK
<1> QED
    BY <1>1 DEF Worker

LEMMA WorkerSet ==
    ASSUME TypeOK, NEW w \in Workers, NEW x \in Worker, worker' = [worker EXCEPT ![w] = x]
    PROVE  worker' \in [Workers -> Worker]
BY DEF TypeOK

LEMMA GoType ==
    ASSUME TypeOK, NEW w \in Workers, NEW p \in WorkerPc, Go(w, p)
    PROVE  worker' \in [Workers -> Worker]
<1>1. [worker[w] EXCEPT !.pc = p] \in Worker
    BY WorkerType, WorkerWith
<1>2. worker' = [worker EXCEPT ![w] = [worker[w] EXCEPT !.pc = p]]
    BY DEF Go, TypeOK
<1> QED
    BY <1>1, <1>2, WorkerSet

LEMMA LeaveType ==
    ASSUME TypeOK, NEW w \in Workers, Leave(w) \/ Return(w)
    PROVE  worker' \in [Workers -> Worker]
<1>1. [Idle EXCEPT !.pc = "unlock"] \in Worker /\ Idle \in Worker
    BY Ordinary, WorkerWith DEF WorkerPc
<1> QED
    BY <1>1, WorkerSet DEF Leave, Return

LEMMA InboxType ==
    ASSUME TypeOK
    PROVE  /\ \A k \in Wakes, r \in Runs \cup {NoRun} : Taken(k, r) \in [Wakes -> Wake]
           /\ \A S : \A x \in Wake : Become(S, x) \in [Wakes -> Wake]
           /\ Dropped \in [Wakes -> Wake]
<1>1. ASSUME NEW k \in Wakes, NEW r \in Runs \cup {NoRun}
      PROVE  Taken(k, r) \in [Wakes -> Wake]
    BY DEF TypeOK, Wake, Taken
<1>2. ASSUME NEW S, NEW x \in Wake
      PROVE  Become(S, x) \in [Wakes -> Wake]
    BY DEF TypeOK, Become
<1>3. [status |-> "dropped", by |-> NoRun] \in Wake
    BY DEF Wake
<1> QED
    BY <1>1, <1>2, <1>3 DEF Dropped

LEMMA GivenType ==
    ASSUME TypeOK, NEW S, NEW r \in Runs
    PROVE  Tell(S, r) \in [Wakes -> SUBSET Runs]
BY DEF TypeOK, Tell

LEMMA RunWith ==
    ASSUME NEW x \in Run, NEW p \in Live \cup {None, "drain_over", "ending", "over"}
    PROVE  /\ [x EXCEPT !.pc = p] \in Run
           /\ \A n \in 0..MaxSteps : [x EXCEPT !.pc = p, !.left = n] \in Run
           /\ \A S \in SUBSET Wakes : /\ [x EXCEPT !.pc = p, !.todo = S] \in Run
                                      /\ [x EXCEPT !.pc = p, !.won = S] \in Run
                                      /\ [x EXCEPT !.todo = S] \in Run
           /\ \A S, T \in SUBSET Wakes : /\ [x EXCEPT !.todo = S, !.won = T] \in Run
                                         /\ [x EXCEPT !.pc = p, !.todo = S, !.won = T] \in Run
BY DEF Run

LEMMA RunType ==
    ASSUME TypeOK, NEW r \in Runs
    PROVE  /\ run[r] \in Run
           /\ \A x \in Run : [run EXCEPT ![r] = x] \in [Runs -> Run]
           /\ \A p \in Live \cup {None, "drain_over", "ending", "over"} :
                [run EXCEPT ![r].pc = p] \in [Runs -> Run]
<1>1. run[r] \in Run /\ \A x \in Run : [run EXCEPT ![r] = x] \in [Runs -> Run]
    BY DEF TypeOK
<1>2. ASSUME NEW p \in Live \cup {None, "drain_over", "ending", "over"}
      PROVE  [run EXCEPT ![r].pc = p] \in [Runs -> Run]
    BY <1>1, RunWith
<1> QED
    BY <1>1, <1>2

\* A run that is answered is a run.
AnswersARun == \A w \in Workers : worker[w].pc \in {"claim_answer", "answer"} => worker[w].run \in Runs

LEMMA TypeReading ==
    ASSUME TypeOK, NEW w \in Workers, TakeJob(w) \/ ReadAgent(w) \/ ReadInbox(w) \/ CheckLive(w)
    PROVE  TypeOK'
<1>1. CASE TakeJob(w)
    <2>1. worker' \in [Workers -> Worker]
        <3>1. CASE Go(w, "agent")
            BY <3>1, GoType DEF WorkerPc
        <3> QED
            BY <1>1, <3>1 DEF TakeJob, TypeOK
    <2>2. nudges' \in 0..MaxNudges /\ bucket' \in Workers \cup {None, "waiting"} /\ lock' \in Workers \cup {None, Orphan}
        BY <1>1, StandingAssumption DEF TakeJob, TypeOK
    <2> QED
        BY <1>1, <2>1, <2>2 DEF TakeJob, TypeOK
<1>2. CASE ReadAgent(w)
    <2>1. PICK p \in WorkerPc : worker' = [worker EXCEPT ![w].seen = config, ![w].pc = p]
        BY <1>2 DEF ReadAgent, WorkerPc
    <2>2. worker' = [worker EXCEPT ![w] = [worker[w] EXCEPT !.seen = config, !.pc = p]]
        BY <2>1 DEF TypeOK
    <2>3. [worker[w] EXCEPT !.seen = config, !.pc = p] \in Worker
        BY WorkerType, WorkerWith DEF TypeOK
    <2>4. worker' \in [Workers -> Worker]
        BY <2>2, <2>3, WorkerSet
    <2> QED
        BY <1>2, <2>4 DEF ReadAgent, TypeOK
<1>3. CASE ReadInbox(w)
    <2> DEFINE S == Oldest(Queued, MaxPerRun)
    <2>1. "live" \in WorkerPc /\ S \in SUBSET Wakes
        BY OldestType DEF WorkerPc, Queued
    <2>2. Leave(w) \/ worker' = [worker EXCEPT ![w].batch = S, ![w].pc = "live"]
        BY <1>3 DEF ReadInbox
    <2> HIDE DEF S
    <2>3. [worker[w] EXCEPT !.batch = S, !.pc = "live"] \in Worker
        BY <2>1, WorkerType, WorkerWith
    <2>4. worker' \in [Workers -> Worker]
        <3>1. CASE worker' = [worker EXCEPT ![w].batch = S, ![w].pc = "live"]
            <4>1. worker' = [worker EXCEPT ![w] = [worker[w] EXCEPT !.batch = S, !.pc = "live"]]
                BY <3>1 DEF TypeOK
            <4> QED
                BY <4>1, <2>3, WorkerSet
        <3> QED
            BY <2>2, <3>1, LeaveType
    <2> QED
        BY <1>3, <2>4 DEF ReadInbox, TypeOK
<1>4. CASE CheckLive(w)
    <2> DEFINE words == worker[w].batch \cap OwnerWakes
               r == worker[w].seen.live
               x == [worker[w] EXCEPT !.pc = "claim", !.todo = worker[w].batch]
               y == [worker[w] EXCEPT !.pc = "claim_answer", !.todo = words, !.batch = words, !.run = r]
    <2>1. /\ words \in SUBSET Wakes /\ worker[w].batch \in SUBSET Wakes /\ r \in Runs \cup {NoRun}
          /\ "claim" \in WorkerPc /\ "claim_answer" \in WorkerPc
        BY WorkerType DEF WorkerPc, Config
    <2>2. x \in Worker
        BY <2>1, WorkerType, WorkerWith
    <2>3. y \in Worker
        <3> HIDE DEF words, r
        <3> QED
            BY <2>1, WorkerType, WorkerWith
    <2>4. Leave(w) \/ worker' = [worker EXCEPT ![w] = x] \/ worker' = [worker EXCEPT ![w] = y]
        BY <1>4 DEF CheckLive, TypeOK
    <2> HIDE DEF x, y
    <2>5. worker' \in [Workers -> Worker]
        BY <2>2, <2>3, <2>4, LeaveType, WorkerSet
    <2> QED
        BY <1>4, <2>5 DEF CheckLive, TypeOK
<1> QED
    BY <1>1, <1>2, <1>3, <1>4

LEMMA TypeClaiming ==
    ASSUME TypeOK, AnswersARun, NEW w \in Workers, Claim(w) \/ Claimed(w) \/ Answer(w)
    PROVE  TypeOK'
<1>1. CASE Claim(w)
    <2>1. PICK k \in First(worker[w].todo) :
            IF MayClaim(k)
            THEN /\ inbox' = Taken(k, worker[w].run)
                 /\ worker' = [worker EXCEPT ![w].todo = @ \ {k}, ![w].won = @ \cup {k}]
            ELSE /\ worker' = [worker EXCEPT ![w].todo = @ \ {k}]
                 /\ UNCHANGED inbox
        BY <1>1 DEF Claim
    <2> DEFINE S == worker[w].todo \ {k}
               T == worker[w].won \cup {k}
    <2>2. k \in Wakes /\ S \in SUBSET Wakes /\ T \in SUBSET Wakes /\ worker[w].run \in Runs \cup {NoRun}
        BY WorkerType DEF First
    <2>3. \/ worker' = [worker EXCEPT ![w] = [worker[w] EXCEPT !.todo = S, !.won = T]]
          \/ worker' = [worker EXCEPT ![w] = [worker[w] EXCEPT !.todo = S]]
        BY <2>1 DEF TypeOK
    <2> HIDE DEF S, T
    <2>4. [worker[w] EXCEPT !.todo = S, !.won = T] \in Worker /\ [worker[w] EXCEPT !.todo = S] \in Worker
        BY <2>2, WorkerType, WorkerWith
    <2>5. worker' \in [Workers -> Worker]
        BY <2>3, <2>4, WorkerSet
    <2>6. inbox' \in [Wakes -> Wake]
        BY <2>1, <2>2, InboxType DEF TypeOK
    <2> QED
        BY <1>1, <2>5, <2>6 DEF Claim, TypeOK
<1>2. CASE Claimed(w)
    <2>1. worker' \in [Workers -> Worker]
        BY <1>2, GoType, LeaveType DEF Claimed, WorkerPc
    <2> QED
        BY <1>2, <2>1 DEF Claimed, TypeOK
<1>3. CASE Answer(w)
    <2>1. worker' \in [Workers -> Worker]
        BY <1>3, LeaveType DEF Answer
    <2>2. worker[w].run \in Runs
        BY <1>3 DEF Answer, At, AnswersARun
    <2>3. run' \in [Runs -> Run] /\ given' \in [Wakes -> SUBSET Runs] /\ nudges' \in 0..MaxNudges
        <3>1. CASE run[worker[w].run].pc = "asks"
            <4>1. run' = [run EXCEPT ![worker[w].run].pc = "step"] /\ given' = Tell(worker[w].batch, worker[w].run)
                  /\ nudges' = nudges
                BY <1>3, <3>1 DEF Answer
            <4>2. [run EXCEPT ![worker[w].run].pc = "step"] \in [Runs -> Run]
                BY <2>2, RunType DEF Live
            <4> QED
                BY <2>2, <4>1, <4>2, GivenType DEF TypeOK
        <3>2. CASE run[worker[w].run].pc # "asks"
            BY <1>3, <3>2, MoreType DEF Answer, TypeOK
        <3> QED
            BY <3>1, <3>2
    <2> QED
        BY <1>3, <2>1, <2>3 DEF Answer, TypeOK
<1> QED
    BY <1>1, <1>2, <1>3

LEMMA TypeStarting ==
    ASSUME TypeOK, NEW w \in Workers,
           StartRun(w) \/ StartRefused(w) \/ ConversationGone(w) \/ Unclaim(w) \/ MarkWakes(w)
    PROVE  TypeOK'
<1>1. CASE StartRun(w)
    <2>1. PICK r \in Runs :
            /\ run' = [run EXCEPT ![r].pc = "step", ![r].left = MaxSteps]
            /\ worker' = [worker EXCEPT ![w].pc = "mark", ![w].run = r, ![w].batch = {}]
            /\ given' = Tell(worker[w].won, r)
        BY <1>1 DEF StartRun
    <2>2. run' = [run EXCEPT ![r] = [run[r] EXCEPT !.pc = "step", !.left = MaxSteps]]
        BY <2>1 DEF TypeOK
    <2>3. [run[r] EXCEPT !.pc = "step", !.left = MaxSteps] \in Run
        <3>1. MaxSteps \in 0..MaxSteps /\ "step" \in Live
            BY StandingAssumption DEF Live
        <3> QED
            BY <3>1, RunType, RunWith
    <2>4. run' \in [Runs -> Run]
        BY <2>2, <2>3, RunType
    <2>5. worker' = [worker EXCEPT ![w] = [worker[w] EXCEPT !.pc = "mark", !.run = r, !.batch = {}]]
        BY <2>1 DEF TypeOK
    <2>6. [worker[w] EXCEPT !.pc = "mark", !.run = r, !.batch = {}] \in Worker
        BY WorkerType, WorkerWith DEF WorkerPc
    <2>7. worker' \in [Workers -> Worker]
        BY <2>5, <2>6, WorkerSet
    <2> QED
        BY <1>1, <2>1, <2>4, <2>7, GivenType DEF StartRun, TypeOK
<1>2. CASE StartRefused(w)
    <2>1. [status |-> "dropped", by |-> NoRun] \in Wake
        BY DEF Wake
    <2> QED
        BY <1>2, <2>1, LeaveType, InboxType DEF StartRefused, TypeOK
<1>3. CASE ConversationGone(w)
    <2>1. worker' \in [Workers -> Worker]
        BY <1>3, GoType DEF ConversationGone, WorkerPc
    <2>2. config' \in Config
        BY <1>3, WorkerType DEF ConversationGone, Config
    <2> QED
        BY <1>3, <2>1, <2>2 DEF ConversationGone, TypeOK
<1>4. CASE Unclaim(w)
    <2>1. [status |-> "queued", by |-> NoRun] \in Wake
        BY DEF Wake
    <2> QED
        BY <1>4, <2>1, LeaveType, InboxType, NudgeType DEF Unclaim, TypeOK
<1>5. CASE MarkWakes(w)
    <2>1. worker' \in [Workers -> Worker]
        BY <1>5, GoType DEF MarkWakes, WorkerPc
    <2>2. inbox' \in [Wakes -> Wake]
        BY <1>5, WorkerType DEF MarkWakes, TypeOK, Wake
    <2> QED
        BY <1>5, <2>1, <2>2 DEF MarkWakes, TypeOK
<1> QED
    BY <1>1, <1>2, <1>3, <1>4, <1>5

LEMMA TypeEnding ==
    ASSUME TypeOK, NEW w \in Workers,
           \/ Reread(w) \/ SaveLive(w) \/ MustPause(w) \/ Drop(w) \/ Unlock(w) \/ DeleteLock(w)
           \/ WorkerDies(w)
    PROVE  TypeOK'
<1>1. CASE Reread(w)
    <2>1. worker' = [worker EXCEPT ![w] = [worker[w] EXCEPT !.seen = config, !.pc = "save"]]
        BY <1>1 DEF Reread, TypeOK
    <2>2. [worker[w] EXCEPT !.seen = config, !.pc = "save"] \in Worker
        BY WorkerType, WorkerWith DEF TypeOK, WorkerPc
    <2>3. worker' \in [Workers -> Worker]
        BY <2>1, <2>2, WorkerSet
    <2> QED
        BY <1>1, <2>3 DEF Reread, TypeOK
<1>2. CASE SaveLive(w)
    <2>1. config' \in Config
        BY <1>2, WorkerType DEF SaveLive, Config
    <2> QED
        BY <1>2, <2>1, LeaveType DEF SaveLive, TypeOK
<1>3. CASE MustPause(w)
    <2>1. worker' \in [Workers -> Worker]
        BY <1>3, GoType DEF MustPause, WorkerPc
    <2>2. config' \in Config
        BY <1>3, WorkerType DEF MustPause, Config
    <2> QED
        BY <1>3, <2>1, <2>2 DEF MustPause, TypeOK
<1>4. CASE Drop(w)
    BY <1>4, LeaveType, InboxType DEF Drop, TypeOK
<1>5. CASE Unlock(w)
    <2>1. worker' \in [Workers -> Worker]
        BY <1>5, GoType, LeaveType DEF Unlock, WorkerPc
    <2>2. bucket' \in Workers \cup {None, "waiting"}
        BY <1>5 DEF Unlock, Return, TypeOK
    <2> QED
        BY <1>5, <2>1, <2>2 DEF Unlock, TypeOK
<1>6. CASE DeleteLock(w)
    <2>1. bucket' \in Workers \cup {None, "waiting"}
        BY <1>6 DEF DeleteLock, Return, TypeOK
    <2>2. worker' \in [Workers -> Worker]
        BY <1>6, LeaveType DEF DeleteLock
    <2> QED
        BY <1>6, <2>1, <2>2 DEF DeleteLock, TypeOK
<1>7. CASE WorkerDies(w)
    <2>1. bucket' \in Workers \cup {None, "waiting"}
        BY <1>7 DEF WorkerDies, Return, TypeOK
    <2>2. worker' \in [Workers -> Worker]
        BY <1>7, LeaveType DEF WorkerDies
    <2> QED
        BY <1>7, <2>1, <2>2, MoreType DEF WorkerDies, TypeOK
<1> QED
    BY <1>1, <1>2, <1>3, <1>4, <1>5, <1>6, <1>7

LEMMA TypeRun ==
    ASSUME TypeOK, NEW r \in Runs, RunStep(r) \/ PersonActs(r) \/ CancelRun(r) \/ StepDies(r)
    PROVE  TypeOK'
<1> DEFINE Pcs == Live \cup {None, "drain_over", "ending", "over"}
<1>0. /\ run[r] \in Run /\ run[r].pc \in Pcs /\ run[r].todo \in SUBSET Wakes /\ run[r].won \in SUBSET Wakes
      /\ run[r].left \in 0..MaxSteps /\ {} \in SUBSET Wakes
    BY RunType DEF Run
<1>1. CASE Drain(r)
    <2> DEFINE S == Oldest(Queued, MaxPerRun)
    <2>1. S \in SUBSET Wakes
        BY OldestType DEF Queued
    <2>2. PICK p \in Pcs : run' = [run EXCEPT ![r].pc = p, ![r].todo = S]
        BY <1>1 DEF Drain, Live
    <2> HIDE DEF S
    <2>3. run' = [run EXCEPT ![r] = [run[r] EXCEPT !.pc = p, !.todo = S]]
        BY <2>2 DEF TypeOK
    <2>4. run' \in [Runs -> Run]
        BY <1>0, <2>1, <2>3, RunWith, RunType
    <2> QED
        BY <1>1, <2>4 DEF Drain, TypeOK
<1>2. CASE DrainClaim(r)
    <2>1. PICK k \in First(run[r].todo) :
            IF MayClaim(k)
            THEN /\ inbox' = Taken(k, r)
                 /\ run' = [run EXCEPT ![r].todo = @ \ {k}, ![r].won = @ \cup {k}]
            ELSE /\ run' = [run EXCEPT ![r].todo = @ \ {k}]
                 /\ UNCHANGED inbox
        BY <1>2 DEF DrainClaim
    <2> DEFINE S == run[r].todo \ {k}
               T == run[r].won \cup {k}
    <2>2. k \in Wakes /\ S \in SUBSET Wakes /\ T \in SUBSET Wakes
        BY <1>0 DEF First
    <2>3. \/ run' = [run EXCEPT ![r] = [run[r] EXCEPT !.todo = S, !.won = T]]
          \/ run' = [run EXCEPT ![r] = [run[r] EXCEPT !.todo = S]]
        BY <2>1 DEF TypeOK
    <2> HIDE DEF S, T
    <2>4. [run[r] EXCEPT !.todo = S, !.won = T] \in Run /\ [run[r] EXCEPT !.todo = S] \in Run
        BY <1>0, <2>2, RunWith
    <2>5. run' \in [Runs -> Run]
        BY <2>3, <2>4, RunType
    <2>6. inbox' \in [Wakes -> Wake]
        BY <2>1, <2>2, InboxType DEF TypeOK
    <2> QED
        BY <1>2, <2>5, <2>6 DEF DrainClaim, TypeOK
<1>3. CASE DrainTell(r)
    <2>1. PICK p \in Pcs : run' = [run EXCEPT ![r].pc = p, ![r].won = {}]
        BY <1>3 DEF DrainTell, Live
    <2>2. run' = [run EXCEPT ![r] = [run[r] EXCEPT !.pc = p, !.won = {}]]
        BY <2>1 DEF TypeOK
    <2>3. run' \in [Runs -> Run]
        BY <1>0, <2>2, RunWith, RunType
    <2> QED
        BY <1>3, <2>3, GivenType DEF DrainTell, TypeOK
<1>4. CASE NextStep(r)
    <2>1. PICK p \in Pcs : \/ /\ run[r].left > 0
                              /\ run' = [run EXCEPT ![r].pc = p, ![r].left = @ - 1]
                           \/ run' = [run EXCEPT ![r].pc = p]
        BY <1>4 DEF NextStep, MayGoOn, Live
    <2>2. CASE run' = [run EXCEPT ![r].pc = p]
        BY <1>4, <2>2, RunType DEF NextStep, TypeOK
    <2>3. CASE run[r].left > 0 /\ run' = [run EXCEPT ![r].pc = p, ![r].left = @ - 1]
        <3> DEFINE n == run[r].left - 1
        <3>1. n \in 0..MaxSteps
            BY <1>0, <2>3, StandingAssumption
        <3>2. run' = [run EXCEPT ![r] = [run[r] EXCEPT !.pc = p, !.left = n]]
            BY <2>3 DEF TypeOK
        <3> HIDE DEF n
        <3>3. run' \in [Runs -> Run]
            BY <1>0, <3>1, <3>2, RunWith, RunType
        <3> QED
            BY <1>4, <3>3 DEF NextStep, TypeOK
    <2> QED
        BY <2>1, <2>2, <2>3
<1>5. CASE Finished(r)
    <2>1. [NotStarted EXCEPT !.pc = "over"] \in Run
        BY Ordinary, RunWith
    <2>2. run' \in [Runs -> Run]
        BY <1>5, <2>1, RunType DEF Finished
    <2> QED
        BY <1>5, <2>2, NudgeType DEF Finished, TypeOK
<1>6. CASE PersonActs(r) \/ CancelRun(r)
    <2>1. PICK p \in Pcs : run' = [run EXCEPT ![r].pc = p]
        BY <1>6 DEF PersonActs, CancelRun, Live
    <2> QED
        BY <1>6, <2>1, RunType DEF PersonActs, CancelRun, TypeOK
<1>7. CASE StepDies(r)
    <2>1. run' = [run EXCEPT ![r] = [run[r] EXCEPT !.pc = "step", !.todo = {}, !.won = {}]]
        BY <1>7 DEF StepDies, TypeOK
    <2>2. run' \in [Runs -> Run]
        BY <1>0, <2>1, RunWith, RunType DEF Live
    <2> QED
        BY <1>7, <2>2 DEF StepDies, TypeOK
<1> QED
    BY <1>1, <1>2, <1>3, <1>4, <1>5, <1>6, <1>7 DEF RunStep

Settings == EditSettings \/ RoomAgain \/ SaveSettings \/ SwitchedOff

LEMMA TypeSettings ==
    ASSUME TypeOK, TwoSeconds \/ Expire \/ Settings
    PROVE  TypeOK'
<1>1. CASE TwoSeconds \/ Expire
    BY <1>1 DEF TwoSeconds, Expire, TypeOK
<1>2. CASE EditSettings
    <2>1. Edited \subseteq Config
        <3>1. TRUE \in BOOLEAN /\ FALSE \in BOOLEAN /\ config \in Config
            BY DEF TypeOK
        <3>2. [config EXCEPT !.on = FALSE] \in Config
            BY <3>1 DEF Config
        <3>3. [config EXCEPT !.on = TRUE, !.why = None] \in Config
            BY <3>1 DEF Config
        <3> QED
            BY <3>1, <3>2, <3>3 DEF Edited
    <2>2. owner.edits + 1 \in 0..MaxEdits /\ config.on \in BOOLEAN
        BY <1>2, StandingAssumption DEF EditSettings, TypeOK, Config
    <2> QED
        BY <1>2, <2>1, <2>2 DEF EditSettings, TypeOK
<1>3. CASE RoomAgain
    <2>1. [config EXCEPT !.on = TRUE, !.why = None] \in Config
        BY DEF TypeOK, Config
    <2>2. owner.edits + 1 \in 0..MaxEdits
        BY <1>3, StandingAssumption DEF RoomAgain, TypeOK
    <2> QED
        BY <1>3, <2>1, <2>2 DEF RoomAgain, TypeOK
<1>4. CASE SaveSettings
    BY <1>4 DEF SaveSettings, TypeOK
<1>5. CASE SwitchedOff
    BY <1>5, InboxType DEF SwitchedOff, TypeOK
<1> QED
    BY <1>1, <1>2, <1>3, <1>4, <1>5 DEF Settings

-----------------------------------------------------------------------------
(* Of everyone who reads a wake, one gets it                               *)

HoldingPc == {"claim", "claim_answer", "answer", "start", "unclaim"}
WorkerHolds(w, k) == k \in worker[w].won /\ worker[w].pc \in HoldingPc
RunHolds(r, k) == k \in run[r].won
IsQueued(k) == inbox[k].status = "queued"
Kept(k) == source[k].pc \notin {"out", "insert"} \* its row was inserted

\* A worker has won nothing before it starts to claim.
NothingWonYet == \A w \in Workers : worker[w].pc \in {"idle", "agent", "inbox", "live"} => worker[w].won = {}

\* A wake is held by one worker or one run, and then it is not queued; and
\* a wake is queued or held only once it is in the inbox.
OneHolder ==
    /\ \A k \in Wakes : IsQueued(k) => Kept(k)
    /\ \A w \in Workers, k \in Wakes : WorkerHolds(w, k) => Kept(k) /\ ~IsQueued(k)
    /\ \A r \in Runs, k \in Wakes : RunHolds(r, k) => Kept(k) /\ ~IsQueued(k)
    /\ \A w, v \in Workers, k \in Wakes : WorkerHolds(w, k) /\ WorkerHolds(v, k) => w = v
    /\ \A r, q \in Runs, k \in Wakes : RunHolds(r, k) /\ RunHolds(q, k) => r = q
    /\ \A w \in Workers, r \in Runs, k \in Wakes : ~(WorkerHolds(w, k) /\ RunHolds(r, k))

HeldInv == AnswersARun /\ NothingWonYet /\ OneHolder

\* A step that makes nobody a holder and queues nothing keeps it so.
LEMMA NobodyGains ==
    ASSUME OneHolder,
           \A w \in Workers, k \in Wakes : WorkerHolds(w, k)' => WorkerHolds(w, k),
           \A r \in Runs, k \in Wakes : RunHolds(r, k)' => RunHolds(r, k),
           \A k \in Wakes : IsQueued(k)' => IsQueued(k),
           \A k \in Wakes : Kept(k) => Kept(k)'
    PROVE  OneHolder'
BY DEF OneHolder

LEMMA NoWorkerMoves ==
    ASSUME HeldInv, UNCHANGED worker
    PROVE  /\ AnswersARun' /\ NothingWonYet'
           /\ \A w \in Workers, k \in Wakes : WorkerHolds(w, k)' <=> WorkerHolds(w, k)
BY DEF HeldInv, AnswersARun, NothingWonYet, WorkerHolds

LEMMA HeldWake ==
    ASSUME TypeOK, HeldInv, NEW k \in Wakes, Arrive(k) \/ WakeStep(k) \/ SourceDies(k)
    PROVE  HeldInv'
<1>1. UNCHANGED <<worker, run>>
    BY DEF WakeStep, Arrive, Insert, CountQueued, Fold, AskQueue, SourceDies
<1>2. \A r \in Runs, j \in Wakes : RunHolds(r, j)' <=> RunHolds(r, j)
    BY <1>1 DEF RunHolds
<1>3. \A j \in Wakes : Kept(j) => Kept(j)'
    BY DEF WakeStep, Arrive, Insert, CountQueued, Fold, AskQueue, SourceDies, Kept, TypeOK, Source
<1>4. CASE Insert(k)
    <2>1. ~Kept(k) /\ Kept(k)' /\ \A j \in Wakes \ {k} : IsQueued(j)' <=> IsQueued(j)
        BY <1>4 DEF Insert, Kept, IsQueued, TypeOK, Source
    <2> QED
        BY <1>1, <1>2, <1>3, <2>1, NoWorkerMoves DEF HeldInv, OneHolder
<1>5. CASE ~Insert(k)
    <2>1. \A j \in Wakes : IsQueued(j)' => IsQueued(j)
        BY <1>5 DEF WakeStep, Arrive, CountQueued, Fold, AskQueue, SourceDies, IsQueued, TypeOK, Wake
    <2> QED
        BY <1>1, <1>2, <1>3, <2>1, NoWorkerMoves, NobodyGains DEF HeldInv
<1> QED
    BY <1>4, <1>5

\* What a move of one worker leaves of the others.
OthersStay(w) == \A v \in Workers \ {w} : worker'[v] = worker[v]

LEMMA WorkerMovesAlone ==
    ASSUME TypeOK, NEW w \in Workers, WorkerStep(w) \/ WorkerDies(w)
    PROVE  OthersStay(w) /\ UNCHANGED source
<1>1. UNCHANGED source
    BY DEF WorkerStep, WorkerDies, TakeJob, ReadAgent, ReadInbox, CheckLive, Claim, Claimed, Answer, StartRun,
           StartRefused, ConversationGone, Unclaim, MarkWakes, Reread, SaveLive, MustPause, Drop, Unlock, DeleteLock
<1>2. ASSUME NEW v \in Workers \ {w}
      PROVE  worker'[v] = worker[v]
    <2>1. CASE TakeJob(w) \/ ReadAgent(w) \/ ReadInbox(w) \/ CheckLive(w) \/ Claimed(w) \/ Answer(w)
        BY <2>1 DEF TakeJob, ReadAgent, ReadInbox, CheckLive, Claimed, Answer, Go, Leave, TypeOK
    <2>2. CASE Claim(w) \/ StartRun(w)
        BY <2>2 DEF Claim, StartRun, TypeOK
    <2>3. CASE StartRefused(w) \/ ConversationGone(w) \/ Unclaim(w) \/ MarkWakes(w) \/ Reread(w) \/ SaveLive(w)
        BY <2>3 DEF StartRefused, ConversationGone, Unclaim, MarkWakes, Reread, SaveLive, Go, Leave, TypeOK
    <2>4. CASE MustPause(w) \/ Drop(w) \/ Unlock(w) \/ DeleteLock(w) \/ WorkerDies(w)
        BY <2>4 DEF MustPause, Drop, Unlock, DeleteLock, WorkerDies, Go, Leave, Return, TypeOK
    <2> QED
        BY <2>1, <2>2, <2>3, <2>4 DEF WorkerStep
<1> QED
    BY <1>1, <1>2 DEF OthersStay

\* A worker that moves and wins nothing.
WinsNothing(w) ==
    /\ worker'[w].pc \in {"claim_answer", "answer"} => worker'[w].run \in Runs
    /\ worker'[w].pc \in {"idle", "agent", "inbox", "live"} => worker'[w].won = {}
    /\ \A k \in Wakes : WorkerHolds(w, k)' => WorkerHolds(w, k)

LEMMA WorkerGainsNothing ==
    ASSUME HeldInv, NEW w \in Workers, OthersStay(w), UNCHANGED source, WinsNothing(w),
           \A r \in Runs, k \in Wakes : RunHolds(r, k)' => RunHolds(r, k),
           \A k \in Wakes : IsQueued(k)' => IsQueued(k)
    PROVE  HeldInv'
<1>1. AnswersARun' /\ NothingWonYet'
    BY DEF HeldInv, AnswersARun, NothingWonYet, OthersStay, WinsNothing
<1>2. \A v \in Workers, k \in Wakes : WorkerHolds(v, k)' => WorkerHolds(v, k)
    BY DEF OthersStay, WinsNothing, WorkerHolds
<1>3. \A k \in Wakes : Kept(k) => Kept(k)'
    BY DEF Kept
<1> QED
    BY <1>1, <1>2, <1>3, NobodyGains DEF HeldInv

LEMMA LeavesEmpty ==
    ASSUME TypeOK, NEW w \in Workers, Leave(w) \/ Return(w)
    PROVE  WinsNothing(w)
<1>1. worker'[w] = [Idle EXCEPT !.pc = "unlock"] \/ worker'[w] = Idle
    BY DEF TypeOK, Leave, Return
<1>2. worker'[w].won = {} /\ worker'[w].pc \in {"unlock", "idle"}
    BY <1>1 DEF Idle
<1> QED
    BY <1>2 DEF WinsNothing, WorkerHolds

LEMMA GoFields ==
    ASSUME TypeOK, NEW w \in Workers, NEW p \in WorkerPc, Go(w, p)
    PROVE  /\ worker'[w].pc = p /\ worker'[w].won = worker[w].won /\ worker'[w].run = worker[w].run
           /\ worker'[w].batch = worker[w].batch /\ worker'[w].todo = worker[w].todo
           /\ worker'[w].seen = worker[w].seen
BY DEF Go, TypeOK, Worker

LEMMA StartFields ==
    ASSUME TypeOK, NEW w \in Workers, StartRun(w)
    PROVE  \E r \in Runs :
             /\ run[r].pc = None /\ given' = Tell(worker[w].won, r)
             /\ run'[r].pc = "step" /\ run'[r].won = run[r].won /\ run'[r].todo = run[r].todo
             /\ \A q \in Runs \ {r} : run'[q] = run[q]
             /\ worker'[w].pc = "mark" /\ worker'[w].run = r /\ worker'[w].won = worker[w].won
             /\ worker'[w].seen = worker[w].seen
<1>1. PICK r \in Runs :
        /\ run[r].pc = None
        /\ run' = [run EXCEPT ![r].pc = "step", ![r].left = MaxSteps]
        /\ worker' = [worker EXCEPT ![w].pc = "mark", ![w].run = r, ![w].batch = {}]
        /\ given' = Tell(worker[w].won, r)
    BY DEF StartRun
<1>2. /\ run'[r].pc = "step" /\ run'[r].won = run[r].won /\ run'[r].todo = run[r].todo
      /\ \A q \in Runs \ {r} : run'[q] = run[q]
    BY <1>1, RunType DEF TypeOK, Run
<1>3. /\ worker'[w].pc = "mark" /\ worker'[w].run = r /\ worker'[w].won = worker[w].won
      /\ worker'[w].seen = worker[w].seen
    BY <1>1, WorkerType DEF TypeOK, Worker
<1> QED
    BY <1>1, <1>2, <1>3

LEMMA HeldWorkerQuiet ==
    ASSUME TypeOK, HeldInv, NEW w \in Workers,
           \/ TakeJob(w) \/ ReadAgent(w) \/ ReadInbox(w) \/ CheckLive(w) \/ Claimed(w) \/ Answer(w)
           \/ StartRun(w) \/ StartRefused(w) \/ ConversationGone(w) \/ MarkWakes(w) \/ Reread(w)
           \/ SaveLive(w) \/ MustPause(w) \/ Drop(w) \/ Unlock(w) \/ DeleteLock(w) \/ WorkerDies(w)
    PROVE  HeldInv'
<1>0. OthersStay(w) /\ UNCHANGED source
    BY WorkerMovesAlone DEF WorkerStep
<1>1. \A r \in Runs, k \in Wakes : RunHolds(r, k)' => RunHolds(r, k)
    <2>1. CASE UNCHANGED run
        BY <2>1 DEF RunHolds
    <2>2. CASE Answer(w)
        <3>1. worker[w].run \in Runs
            BY <2>2 DEF Answer, HeldInv, AnswersARun, At
        <3>2. CASE run' = [run EXCEPT ![worker[w].run].pc = "step"]
            BY <3>1, <3>2 DEF RunHolds, TypeOK, Run
        <3> QED
            BY <2>1, <2>2, <3>2 DEF Answer
    <2>3. CASE StartRun(w)
        BY <2>3, StartFields DEF RunHolds
    <2> QED
        BY <2>1, <2>2, <2>3
        DEF TakeJob, ReadAgent, ReadInbox, CheckLive, Claimed, StartRefused, ConversationGone,
            MarkWakes, Reread, SaveLive, MustPause, Drop, Unlock, DeleteLock, WorkerDies
<1>2. \A k \in Wakes : IsQueued(k)' => IsQueued(k)
    <2>1. CASE UNCHANGED inbox
        BY <2>1 DEF IsQueued
    <2>2. CASE MarkWakes(w)
        BY <2>2 DEF MarkWakes, IsQueued, TypeOK, Wake
    <2>3. CASE Drop(w) \/ StartRefused(w)
        BY <2>3 DEF Drop, StartRefused, Dropped, Become, IsQueued, TypeOK, Wake
    <2> QED
        BY <2>1, <2>2, <2>3
        DEF TakeJob, ReadAgent, ReadInbox, CheckLive, Claimed, Answer, StartRun, ConversationGone,
            Reread, SaveLive, MustPause, Unlock, DeleteLock, WorkerDies
<1>3. WinsNothing(w)
    <2> USE WorkerType DEF WinsNothing, WorkerHolds, HeldInv, NothingWonYet, AnswersARun, HoldingPc
    <2>1. CASE Leave(w) \/ Return(w)
        BY <2>1, LeavesEmpty
    <2>2. CASE TakeJob(w)
        BY <2>2 DEF TakeJob, Go, TypeOK, Worker, At
    <2>3. CASE ReadAgent(w) \/ Reread(w)
        BY <2>3 DEF ReadAgent, Reread, TypeOK, Worker, At
    <2>4. CASE ReadInbox(w)
        <3>1. CASE worker' = [worker EXCEPT ![w].batch = Oldest(Queued, MaxPerRun), ![w].pc = "live"]
            BY <2>4, <3>1 DEF ReadInbox, TypeOK, Worker, At
        <3> QED
            BY <2>1, <2>4, <3>1 DEF ReadInbox
    <2>5. CASE CheckLive(w)
        <3> DEFINE words == worker[w].batch \cap OwnerWakes
                   r == worker[w].seen.live
        <3>1. CASE worker' = [worker EXCEPT ![w].pc = "claim", ![w].todo = worker[w].batch]
            <4>1. worker'[w].pc = "claim" /\ worker'[w].won = worker[w].won /\ worker[w].won = {}
                BY <2>5, <3>1 DEF CheckLive, At, TypeOK, Worker
            <4> QED
                BY <4>1
        <3>2. CASE r \in Runs /\ worker' = [worker EXCEPT ![w].pc = "claim_answer", ![w].todo = words,
                                                ![w].batch = words, ![w].run = r]
            <4>1. /\ worker'[w].pc = "claim_answer" /\ worker'[w].won = worker[w].won /\ worker'[w].run \in Runs
                  /\ worker[w].won = {}
                BY <2>5, <3>2 DEF CheckLive, At, TypeOK, Worker
            <4> QED
                BY <4>1
        <3>3. r \in Runs \cup {NoRun}
            BY DEF Config
        <3> QED
            BY <2>1, <2>5, <3>1, <3>2, <3>3 DEF CheckLive, IsLive
    <2>6. CASE Claimed(w)
        BY <2>1, <2>6 DEF Claimed, Go, TypeOK, Worker, At
    <2>7. CASE StartRun(w)
        <3>1. worker'[w].pc = "mark"
            BY <2>7, StartFields
        <3> QED
            BY <3>1
    <2>8. CASE ConversationGone(w) \/ MarkWakes(w) \/ MustPause(w)
        <3>1. \/ worker'[w].pc \in {"reread", "drop"}
              \/ /\ worker[w].pc = "start" /\ worker'[w].pc = "unclaim"
                 /\ worker'[w].won = worker[w].won
            BY <2>8, GoFields DEF ConversationGone, MarkWakes, MustPause, At, WorkerPc
        <3> QED
            BY <3>1
    <2>9. CASE Unlock(w)
        BY <2>1, <2>9 DEF Unlock, Go, TypeOK, Worker, At
    <2> QED
        BY <2>1, <2>2, <2>3, <2>4, <2>5, <2>6, <2>7, <2>8, <2>9
        DEF Answer, StartRefused, SaveLive, Drop, DeleteLock, WorkerDies
<1> QED
    BY <1>0, <1>1, <1>2, <1>3, WorkerGainsNothing

\* claim, one wake: it was queued, so nobody held it.
LEMMA HeldClaim ==
    ASSUME TypeOK, HeldInv, NEW w \in Workers, Claim(w)
    PROVE  HeldInv'
<1>1. OthersStay(w) /\ UNCHANGED <<source, run>>
    BY WorkerMovesAlone DEF WorkerStep, Claim
<1>2. PICK k \in First(worker[w].todo) :
            IF MayClaim(k)
            THEN /\ inbox' = Taken(k, worker[w].run)
                 /\ worker' = [worker EXCEPT ![w].todo = @ \ {k}, ![w].won = @ \cup {k}]
            ELSE /\ worker' = [worker EXCEPT ![w].todo = @ \ {k}]
                 /\ UNCHANGED inbox
    BY DEF Claim
<1>3. k \in Wakes
    BY WorkerType DEF First
<1>4. CASE ~MayClaim(k)
    <2>1. WinsNothing(w)
        BY <1>2, <1>4 DEF Claim, WinsNothing, WorkerHolds, HeldInv, AnswersARun, TypeOK, Worker
    <2> QED
        BY <1>1, <1>2, <1>4, <2>1, WorkerGainsNothing DEF RunHolds, IsQueued
<1>5. CASE MayClaim(k)
    <2>1. IsQueued(k) /\ ~IsQueued(k)' /\ \A j \in Wakes \ {k} : IsQueued(j)' <=> IsQueued(j)
        BY <1>2, <1>3, <1>5 DEF MayClaim, IsQueued, Taken, TypeOK, Wake
    <2>2. /\ worker'[w].won = worker[w].won \cup {k} /\ worker'[w].pc = worker[w].pc
          /\ worker'[w].run = worker[w].run
        BY <1>2, <1>5 DEF TypeOK, Worker
    <2>3. AnswersARun' /\ NothingWonYet'
        BY <1>1, <2>2 DEF Claim, HeldInv, AnswersARun, NothingWonYet, OthersStay
    <2>4. \A v \in Workers, j \in Wakes : WorkerHolds(v, j)' => WorkerHolds(v, j) \/ (v = w /\ j = k)
        BY <1>1, <2>2 DEF WorkerHolds, OthersStay
    <2>5. \A j \in Wakes : Kept(j)' <=> Kept(j)
        BY <1>1 DEF Kept
    <2>6. \A r \in Runs, j \in Wakes : RunHolds(r, j)' <=> RunHolds(r, j)
        BY <1>1 DEF RunHolds
    <2>7. OneHolder'
        BY <1>3, <2>1, <2>4, <2>5, <2>6 DEF HeldInv, OneHolder
    <2> QED
        BY <2>3, <2>7 DEF HeldInv
<1> QED
    BY <1>4, <1>5

\* unclaim: what is queued again was the worker's own.
LEMMA HeldUnclaim ==
    ASSUME TypeOK, HeldInv, NEW w \in Workers, Unclaim(w)
    PROVE  HeldInv'
<1>1. OthersStay(w) /\ UNCHANGED <<source, run>>
    BY WorkerMovesAlone DEF WorkerStep, Unclaim
<1>2. worker'[w].won = {} /\ worker'[w].pc = "unlock"
    BY DEF Unclaim, Leave, Idle, TypeOK
<1>3. AnswersARun' /\ NothingWonYet'
    BY <1>1, <1>2 DEF HeldInv, AnswersARun, NothingWonYet, OthersStay
<1>4. \A k \in Wakes : IsQueued(k)' => IsQueued(k) \/ WorkerHolds(w, k)
    BY DEF Unclaim, Become, IsQueued, WorkerHolds, HoldingPc, At
<1>5. \A v \in Workers, k \in Wakes : WorkerHolds(v, k)' => v # w /\ WorkerHolds(v, k)
    BY <1>1, <1>2 DEF WorkerHolds, OthersStay
<1>6. \A k \in Wakes : Kept(k)' <=> Kept(k)
    BY <1>1 DEF Kept
<1>7. \A r \in Runs, k \in Wakes : RunHolds(r, k)' <=> RunHolds(r, k)
    BY <1>1 DEF RunHolds
<1>8. OneHolder'
    BY <1>4, <1>5, <1>6, <1>7 DEF HeldInv, OneHolder
<1> QED
    BY <1>3, <1>8 DEF HeldInv

LEMMA HeldRun ==
    ASSUME TypeOK, HeldInv, NEW r \in Runs, RunStep(r) \/ PersonActs(r) \/ CancelRun(r) \/ StepDies(r)
    PROVE  HeldInv'
<1>1. UNCHANGED <<worker, source>>
    BY DEF RunStep, Drain, DrainClaim, DrainTell, NextStep, Finished, PersonActs, CancelRun, StepDies
<1>2. \A k \in Wakes : Kept(k)' <=> Kept(k)
    BY <1>1 DEF Kept
<1>3. CASE DrainClaim(r)
    <2>1. PICK k \in First(run[r].todo) :
            IF MayClaim(k)
            THEN /\ inbox' = Taken(k, r)
                 /\ run' = [run EXCEPT ![r].todo = @ \ {k}, ![r].won = @ \cup {k}]
            ELSE /\ run' = [run EXCEPT ![r].todo = @ \ {k}]
                 /\ UNCHANGED inbox
        BY <1>3 DEF DrainClaim
    <2>2. k \in Wakes
        BY RunType DEF First, Run
    <2>3. CASE ~MayClaim(k)
        <3>1. \A q \in Runs, j \in Wakes : RunHolds(q, j)' => RunHolds(q, j)
            BY <2>1, <2>3 DEF RunHolds, TypeOK, Run
        <3>2. \A j \in Wakes : IsQueued(j)' => IsQueued(j)
            BY <2>1, <2>3 DEF IsQueued
        <3> QED
            BY <1>1, <1>2, <3>1, <3>2, NoWorkerMoves, NobodyGains DEF HeldInv
    <2>4. CASE MayClaim(k)
        <3>1. IsQueued(k) /\ ~IsQueued(k)' /\ \A j \in Wakes \ {k} : IsQueued(j)' <=> IsQueued(j)
            BY <2>1, <2>2, <2>4 DEF MayClaim, IsQueued, Taken, TypeOK, Wake
        <3>2. \A q \in Runs, j \in Wakes : RunHolds(q, j)' => RunHolds(q, j) \/ (q = r /\ j = k)
            BY <2>1, <2>4 DEF RunHolds, TypeOK, Run
        <3>3. OneHolder'
            BY <1>1, <1>2, <2>2, <3>1, <3>2, NoWorkerMoves DEF HeldInv, OneHolder
        <3> QED
            BY <1>1, <3>3, NoWorkerMoves DEF HeldInv
    <2> QED
        BY <2>3, <2>4
<1>4. CASE ~DrainClaim(r)
    <2>0. run \in [Runs -> Run]
        BY DEF TypeOK
    <2>1. \A q \in Runs, j \in Wakes : RunHolds(q, j)' => RunHolds(q, j)
        BY <1>4, <2>0 DEF RunStep, Drain, DrainTell, NextStep, Finished, PersonActs, CancelRun, StepDies,
                    RunHolds, Run, NotStarted
    <2>2. \A j \in Wakes : IsQueued(j)' => IsQueued(j)
        BY <1>4 DEF RunStep, Drain, DrainTell, NextStep, Finished, PersonActs, CancelRun, StepDies, IsQueued
    <2> QED
        BY <1>1, <1>2, <2>1, <2>2, NoWorkerMoves, NobodyGains DEF HeldInv
<1> QED
    BY <1>3, <1>4

LEMMA HeldSettings ==
    ASSUME TypeOK, HeldInv, TwoSeconds \/ Expire \/ Settings \/ UNCHANGED vars
    PROVE  HeldInv'
<1>1. UNCHANGED <<worker, source, run>>
    BY DEF TwoSeconds, Expire, Settings, EditSettings, RoomAgain, SaveSettings, SwitchedOff, vars
<1>2. \A k \in Wakes : IsQueued(k)' => IsQueued(k)
    BY DEF TwoSeconds, Expire, Settings, EditSettings, RoomAgain, SaveSettings, SwitchedOff, vars,
           Dropped, Become, IsQueued, TypeOK, Wake
<1>3. /\ \A r \in Runs, k \in Wakes : RunHolds(r, k)' => RunHolds(r, k)
      /\ \A k \in Wakes : Kept(k) => Kept(k)'
    BY <1>1 DEF RunHolds, Kept
<1> QED
    BY <1>1, <1>2, <1>3, NoWorkerMoves, NobodyGains DEF HeldInv

-----------------------------------------------------------------------------
HInv == TypeOK /\ HeldInv

LEMMA HInvInit == Init => HInv
<1> SUFFICES ASSUME Init PROVE HInv
    OBVIOUS
<1>1. TypeOK
    BY InitType
<1>2. \A w \in Workers : worker[w].pc = "idle" /\ worker[w].won = {}
    BY DEF Init, Idle
<1>3. \A k \in Wakes : inbox[k].status = None
    BY DEF Init
<1>4. \A r \in Runs : run[r].won = {}
    BY DEF Init, NotStarted
<1>5. HeldInv
    BY <1>2, <1>3, <1>4
    DEF HeldInv, AnswersARun, NothingWonYet, OneHolder, WorkerHolds, HoldingPc, RunHolds, IsQueued, None
<1> QED
    BY <1>1, <1>5 DEF HInv

LEMMA HInvNext == HInv /\ [Next]_vars => HInv'
<1> SUFFICES ASSUME HInv, [Next]_vars PROVE HInv'
    OBVIOUS
<1> USE DEF HInv
<1>1. ASSUME NEW k \in Wakes, Arrive(k) \/ WakeStep(k) \/ SourceDies(k)
      PROVE  HInv'
    BY <1>1, TypeWake, HeldWake
<1>2. ASSUME NEW w \in Workers, WorkerStep(w) \/ WorkerDies(w)
      PROVE  HInv'
    <2>1. TypeOK'
        BY <1>2, TypeReading, TypeClaiming, TypeStarting, TypeEnding DEF WorkerStep, HeldInv
    <2>2. HeldInv'
        BY <1>2, HeldClaim, HeldUnclaim, HeldWorkerQuiet DEF WorkerStep
    <2> QED
        BY <2>1, <2>2
<1>3. ASSUME NEW r \in Runs, RunStep(r) \/ PersonActs(r) \/ CancelRun(r) \/ StepDies(r)
      PROVE  HInv'
    BY <1>3, TypeRun, HeldRun
<1>4. CASE TwoSeconds \/ Expire \/ Settings
    BY <1>4, TypeSettings, HeldSettings
<1>5. CASE UNCHANGED vars
    <2>1. TypeOK'
        BY <1>5 DEF vars, TypeOK
    <2> QED
        BY <1>5, <2>1, HeldSettings
<1> QED
    BY <1>1, <1>2, <1>3, <1>4, <1>5 DEF Next, Settings

LEMMA AlwaysHInv == Spec => []HInv
BY HInvInit, HInvNext, PTL DEF Spec

\* Every state of the always-on agent has its type.
THEOREM TypeCorrect == Spec => []TypeOK
<1>1. HInv => TypeOK
    BY DEF HInv
<1> QED
    BY <1>1, AlwaysHInv, PTL

\* Of the workers and runs that read the same queued wake one gets it, and
\* while it has it the wake is not queued for another: for any workers, wakes
\* and runs, under every fault, a lock that expires included.
THEOREM OneGetsTheWake == Spec => []HeldByOne
<1>1. HInv => HeldByOne
    <2> SUFFICES ASSUME HInv, NEW k \in Wakes
                 PROVE  /\ Cardinality(Holders(k)) <= 1
                        /\ Holders(k) # {} => inbox[k].status # "queued"
        BY DEF HeldByOne
    <2>1. /\ \A x \in Holders(k) : (x \in Workers /\ WorkerHolds(x, k)) \/ (x \in Runs /\ RunHolds(x, k))
          /\ OneHolder
        BY DEF Holders, WorkerHolds, RunHolds, HoldingPc, HInv, HeldInv
    <2>2. Holders(k) # {} => inbox[k].status # "queued"
        BY <2>1 DEF OneHolder, IsQueued
    <2>3. \A x, y \in Holders(k) : x = y
        BY <2>1 DEF OneHolder
    <2>4. Holders(k) = {} \/ \E x : Holders(k) = {x}
        BY <2>3
    <2>5. Cardinality(Holders(k)) <= 1
        <3>1. Cardinality(Holders(k)) \in {0, 1}
            BY <2>4, FS_EmptySet, FS_Singleton
        <3> QED
            BY <3>1
    <2> QED
        BY <2>2, <2>5
<1> QED
    BY <1>1, AlwaysHInv, PTL

-----------------------------------------------------------------------------
(* What each step of a worker does to its own record                       *)

Becomes(w, pc, seen, batch, todo, won, r) ==
    /\ worker'[w].pc = pc /\ worker'[w].seen = seen /\ worker'[w].batch = batch
    /\ worker'[w].todo = todo /\ worker'[w].won = won /\ worker'[w].run = r
MovesTo(w, pc) == Becomes(w, pc, worker[w].seen, worker[w].batch, worker[w].todo, worker[w].won, worker[w].run)
StartsOver(w, pc) == Becomes(w, pc, Fresh, {}, {}, {}, NoRun)

LEMMA GoMoves == ASSUME TypeOK, NEW w \in Workers, NEW p \in WorkerPc, Go(w, p) PROVE MovesTo(w, p)
BY GoFields DEF MovesTo, Becomes

LEMMA LeaveMoves ==
    ASSUME TypeOK, NEW w \in Workers
    PROVE  /\ Leave(w) => StartsOver(w, "unlock")
           /\ Return(w) => StartsOver(w, "idle")
<1>1. ASSUME Leave(w) PROVE StartsOver(w, "unlock")
    <2>1. worker'[w] = [Idle EXCEPT !.pc = "unlock"]
        BY <1>1 DEF TypeOK, Leave
    <2> QED
        BY <2>1 DEF Idle, StartsOver, Becomes
<1>2. ASSUME Return(w) PROVE StartsOver(w, "idle")
    <2>1. worker'[w] = Idle
        BY <1>2 DEF TypeOK, Return
    <2> QED
        BY <2>1 DEF Idle, StartsOver, Becomes
<1> QED
    BY <1>1, <1>2

LEMMA ReadingMoves ==
    ASSUME TypeOK, NEW w \in Workers
    PROVE  /\ TakeJob(w) => UNCHANGED <<worker, lock>> \/ (lock = None /\ lock' = w /\ MovesTo(w, "agent"))
           /\ ReadAgent(w) => Becomes(w, IF config.on THEN "inbox" ELSE "drop", config, worker[w].batch,
                                      worker[w].todo, worker[w].won, worker[w].run)
           /\ Reread(w) => Becomes(w, "save", config, worker[w].batch, worker[w].todo, worker[w].won, worker[w].run)
           /\ ReadInbox(w) => \/ StartsOver(w, "unlock")
                              \/ \E S \in SUBSET Queued :
                                   Becomes(w, "live", worker[w].seen, S, worker[w].todo, worker[w].won, worker[w].run)
<1>0. worker[w] \in Worker
    BY WorkerType
<1>1. ASSUME TakeJob(w)
      PROVE  UNCHANGED <<worker, lock>> \/ (lock = None /\ lock' = w /\ MovesTo(w, "agent"))
    <2>1. "agent" \in WorkerPc
        BY DEF WorkerPc
    <2> QED
        BY <1>1, <2>1, GoMoves DEF TakeJob, LockFree
<1>2. ReadAgent(w) => Becomes(w, IF config.on THEN "inbox" ELSE "drop", config, worker[w].batch,
                              worker[w].todo, worker[w].won, worker[w].run)
    BY <1>0 DEF ReadAgent, TypeOK, Worker, Becomes
<1>3. Reread(w) => Becomes(w, "save", config, worker[w].batch, worker[w].todo, worker[w].won, worker[w].run)
    BY <1>0 DEF Reread, TypeOK, Worker, Becomes
<1>4. ASSUME ReadInbox(w)
      PROVE  \/ StartsOver(w, "unlock")
             \/ \E S \in SUBSET Queued :
                  Becomes(w, "live", worker[w].seen, S, worker[w].todo, worker[w].won, worker[w].run)
    <2> DEFINE S == Oldest(Queued, MaxPerRun)
    <2>1. S \in SUBSET Queued
        BY DEF Oldest
    <2>2. Leave(w) \/ worker' = [worker EXCEPT ![w].batch = S, ![w].pc = "live"]
        BY <1>4 DEF ReadInbox
    <2> HIDE DEF S
    <2>3. CASE worker' = [worker EXCEPT ![w].batch = S, ![w].pc = "live"]
        <3>1. Becomes(w, "live", worker[w].seen, S, worker[w].todo, worker[w].won, worker[w].run)
            BY <1>0, <2>3 DEF TypeOK, Worker, Becomes
        <3> QED
            BY <2>1, <3>1
    <2> QED
        BY <2>2, <2>3, LeaveMoves
<1> QED
    BY <1>1, <1>2, <1>3, <1>4

LEMMA LiveMoves ==
    ASSUME TypeOK, NEW w \in Workers, CheckLive(w)
    PROVE  \/ StartsOver(w, "unlock")
           \/ /\ ~IsLive(worker[w].seen.live)
              /\ Becomes(w, "claim", worker[w].seen, worker[w].batch, worker[w].batch, worker[w].won, worker[w].run)
           \/ /\ IsLive(worker[w].seen.live)
              /\ \E S \in SUBSET (worker[w].batch \cap OwnerWakes) :
                   Becomes(w, "claim_answer", worker[w].seen, S, S, worker[w].won, worker[w].seen.live)
<1> DEFINE S == worker[w].batch \cap OwnerWakes
           r == worker[w].seen.live
<1>0. worker[w] \in Worker
    BY WorkerType
<1>1. CASE ~IsLive(r)
    BY <1>0, <1>1 DEF CheckLive, TypeOK, Worker, Becomes
<1>2. CASE IsLive(r) /\ run[r].pc = "asks" /\ S # {}
    <2>1. worker' = [worker EXCEPT ![w].pc = "claim_answer", ![w].todo = S, ![w].batch = S, ![w].run = r]
        BY <1>2 DEF CheckLive
    <2>2. Becomes(w, "claim_answer", worker[w].seen, S, S, worker[w].won, r)
        <3> HIDE DEF S, r
        <3> QED
            BY <1>0, <2>1 DEF TypeOK, Worker, Becomes
    <2> QED
        BY <1>2, <2>2
<1>3. CASE IsLive(r) /\ ~(run[r].pc = "asks" /\ S # {})
    BY <1>3, LeaveMoves DEF CheckLive
<1> QED
    BY <1>1, <1>2, <1>3

LEMMA ClaimMoves ==
    ASSUME TypeOK, NEW w \in Workers, Claim(w)
    PROVE  \E k \in worker[w].todo :
             /\ k \in Wakes
             /\ \/ /\ IsQueued(k) /\ inbox'[k].status = "consumed"
                   /\ inbox'[k].by = IF worker[w].run = NoRun THEN inbox[k].by ELSE worker[w].run
                   /\ \A j \in Wakes \ {k} : inbox'[j] = inbox[j]
                   /\ Becomes(w, worker[w].pc, worker[w].seen, worker[w].batch, worker[w].todo \ {k},
                              worker[w].won \cup {k}, worker[w].run)
                \/ /\ ~IsQueued(k) /\ UNCHANGED inbox
                   /\ Becomes(w, worker[w].pc, worker[w].seen, worker[w].batch, worker[w].todo \ {k},
                              worker[w].won, worker[w].run)
<1>0. worker[w] \in Worker
    BY WorkerType
<1>1. PICK k \in First(worker[w].todo) :
        IF MayClaim(k)
        THEN /\ inbox' = Taken(k, worker[w].run)
             /\ worker' = [worker EXCEPT ![w].todo = @ \ {k}, ![w].won = @ \cup {k}]
        ELSE /\ worker' = [worker EXCEPT ![w].todo = @ \ {k}]
             /\ UNCHANGED inbox
    BY DEF Claim
<1>2. k \in worker[w].todo /\ k \in Wakes
    BY WorkerType DEF First
<1>3. CASE MayClaim(k)
    <2>1. /\ IsQueued(k) /\ inbox'[k].status = "consumed"
          /\ inbox'[k].by = IF worker[w].run = NoRun THEN inbox[k].by ELSE worker[w].run
          /\ \A j \in Wakes \ {k} : inbox'[j] = inbox[j]
        BY <1>1, <1>2, <1>3 DEF Taken, MayClaim, IsQueued, TypeOK, Wake
    <2>2. Becomes(w, worker[w].pc, worker[w].seen, worker[w].batch, worker[w].todo \ {k},
                  worker[w].won \cup {k}, worker[w].run)
        BY <1>0, <1>1, <1>3 DEF TypeOK, Worker, Becomes
    <2> QED
        BY <1>2, <2>1, <2>2
<1>4. CASE ~MayClaim(k)
    <2>1. Becomes(w, worker[w].pc, worker[w].seen, worker[w].batch, worker[w].todo \ {k},
                  worker[w].won, worker[w].run)
        BY <1>0, <1>1, <1>4 DEF TypeOK, Worker, Becomes
    <2> QED
        BY <1>1, <1>2, <1>4, <2>1 DEF MayClaim, IsQueued
<1> QED
    BY <1>3, <1>4

LEMMA ClaimedMoves ==
    ASSUME TypeOK, NEW w \in Workers, Claimed(w)
    PROVE  \/ worker[w].pc = "claim_answer" /\ MovesTo(w, "answer")
           \/ worker[w].pc = "claim" /\ MovesTo(w, "start")
           \/ worker[w].pc = "claim" /\ worker[w].won = {} /\ StartsOver(w, "unlock")
<1>1. "answer" \in WorkerPc /\ "start" \in WorkerPc
    BY DEF WorkerPc
<1> QED
    BY <1>1, GoMoves, LeaveMoves DEF Claimed, At

LEMMA AnswerMoves ==
    ASSUME TypeOK, AnswersARun, NEW w \in Workers, Answer(w)
    PROVE  /\ StartsOver(w, "unlock") /\ worker[w].run \in Runs
           /\ \/ /\ run[worker[w].run].pc = "asks" /\ run'[worker[w].run].pc = "step"
                 /\ \A q \in Runs : run'[q].won = run[q].won
                 /\ \A q \in Runs : q # worker[w].run => run'[q] = run[q]
                 /\ given' = Tell(worker[w].batch, worker[w].run)
              \/ UNCHANGED <<run, given>>
<1>1. worker[w].run \in Runs /\ StartsOver(w, "unlock")
    BY LeaveMoves DEF Answer, AnswersARun, At
<1>2. CASE run[worker[w].run].pc = "asks"
    <2>1. run' = [run EXCEPT ![worker[w].run].pc = "step"] /\ given' = Tell(worker[w].batch, worker[w].run)
        BY <1>2 DEF Answer
    <2>2. /\ run'[worker[w].run].pc = "step" /\ \A q \in Runs : run'[q].won = run[q].won
          /\ \A q \in Runs : q # worker[w].run => run'[q] = run[q]
        BY <1>1, <2>1 DEF TypeOK, Run
    <2> QED
        BY <1>1, <1>2, <2>1, <2>2
<1> QED
    BY <1>1, <1>2 DEF Answer

LEMMA StartMoves ==
    ASSUME TypeOK, NEW w \in Workers, StartRun(w)
    PROVE  \E r \in Runs :
             /\ run[r].pc = None /\ given' = Tell(worker[w].won, r)
             /\ run'[r].pc = "step" /\ run'[r].won = run[r].won
             /\ \A q \in Runs \ {r} : run'[q] = run[q]
             /\ Becomes(w, "mark", worker[w].seen, {}, worker[w].todo, worker[w].won, r)
<1>1. PICK r \in Runs :
        /\ run[r].pc = None
        /\ run' = [run EXCEPT ![r].pc = "step", ![r].left = MaxSteps]
        /\ worker' = [worker EXCEPT ![w].pc = "mark", ![w].run = r, ![w].batch = {}]
        /\ given' = Tell(worker[w].won, r)
    BY DEF StartRun
<1>2. /\ run'[r].pc = "step" /\ run'[r].won = run[r].won /\ \A q \in Runs \ {r} : run'[q] = run[q]
    BY <1>1, RunType DEF TypeOK, Run
<1>3. Becomes(w, "mark", worker[w].seen, {}, worker[w].todo, worker[w].won, r)
    BY <1>1, WorkerType DEF TypeOK, Worker, Becomes
<1> QED
    BY <1>1, <1>2, <1>3

LEMMA GoingMoves ==
    ASSUME TypeOK, NEW w \in Workers
    PROVE  /\ ConversationGone(w) => MovesTo(w, "unclaim")
           /\ MarkWakes(w) => MovesTo(w, "reread")
           /\ MustPause(w) => MovesTo(w, "drop")
           /\ Unlock(w) => StartsOver(w, "idle") \/ (lock = w /\ MovesTo(w, "del"))
           /\ (StartRefused(w) \/ Unclaim(w) \/ SaveLive(w) \/ Drop(w)) => StartsOver(w, "unlock")
           /\ DeleteLock(w) => StartsOver(w, "idle")
<1>1. {"unclaim", "reread", "drop", "del"} \subseteq WorkerPc
    BY DEF WorkerPc
<1>2. /\ ConversationGone(w) => MovesTo(w, "unclaim")
      /\ MarkWakes(w) => MovesTo(w, "reread")
      /\ MustPause(w) => MovesTo(w, "drop")
    BY <1>1, GoMoves DEF ConversationGone, MarkWakes, MustPause
<1>3. Unlock(w) => StartsOver(w, "idle") \/ (lock = w /\ MovesTo(w, "del"))
    BY <1>1, GoMoves, LeaveMoves DEF Unlock
<1> QED
    BY <1>2, <1>3, LeaveMoves DEF StartRefused, Unclaim, SaveLive, Drop, DeleteLock

-----------------------------------------------------------------------------
(* What is taken is told                                                   *)

\* What a worker has won since it began to claim is apart from what it has yet
\* to claim; one that claims for an answer claims the owner's words, under the
\* run they answer.  A run holds only while it drains.
ClaimPart(w) ==
    /\ worker[w].pc = "claim" => /\ worker[w].won \cap worker[w].todo = {}
                                 /\ worker[w].won \cup worker[w].todo \subseteq worker[w].batch
    /\ worker[w].pc = "claim_answer" => worker[w].todo \subseteq OwnerWakes
    /\ worker[w].pc \in {"claim_answer", "answer"} =>
         /\ worker[w].won \subseteq OwnerWakes
         /\ \A k \in worker[w].won : inbox[k].status = "consumed" => inbox[k].by # NoRun
    /\ worker[w].pc = "mark" => worker[w].run # NoRun
DrainPart == \A r \in Runs : run[r].won # {} => run[r].pc \in {"drain", "drain_over"}
ClaimInv == (\A w \in Workers : ClaimPart(w)) /\ DrainPart

\* Each taken wake, in terms of who holds it.
Told(k) == \/ given[k] # {}
           \/ \E w \in Workers : WorkerHolds(w, k)
           \/ \E r \in Runs : RunHolds(r, k)
           \/ k \in OwnerWakes /\ inbox[k].by # NoRun
AllTold == \A k \in Wakes : inbox[k].status = "consumed" => Told(k)

TakenInv == ClaimInv /\ AllTold

\* A step that takes no wake, unholds none and forgets none.
LEMMA StaysTold ==
    ASSUME AllTold, 
           \A k \in Wakes : inbox'[k].status = "consumed" =>
                /\ inbox[k].status = "consumed"
                /\ inbox[k].by # NoRun => inbox'[k].by # NoRun,
           \A k \in Wakes : inbox'[k].status = "consumed" /\ given[k] # {} => given'[k] # {},
           \A w \in Workers, k \in Wakes : WorkerHolds(w, k) /\ inbox'[k].status = "consumed" => Told(k)',
           \A r \in Runs, k \in Wakes : RunHolds(r, k) /\ inbox'[k].status = "consumed" => Told(k)'
    PROVE  AllTold'
BY DEF AllTold, Told

\* Nor does it change what the workers that answer have claimed.
LEMMA StaysClaimed ==
    ASSUME TypeOK, NEW w \in Workers, ClaimPart(w), worker'[w] = worker[w],
           \A k \in worker[w].won : inbox'[k].status = "consumed" /\ WorkerHolds(w, k) =>
                /\ inbox[k].status = "consumed"
                /\ inbox[k].by # NoRun => inbox'[k].by # NoRun
    PROVE  ClaimPart(w)'
BY DEF ClaimPart, WorkerHolds, HoldingPc

\* What the steps other than claims do to the inbox.
OnlyLess == \A k \in Wakes : inbox'[k].status = "consumed" =>
                /\ inbox[k].status = "consumed"
                /\ inbox[k].by # NoRun => inbox'[k].by # NoRun

LEMMA TakenWake ==
    ASSUME HInv, TakenInv, NEW k \in Wakes, Arrive(k) \/ WakeStep(k) \/ SourceDies(k)
    PROVE  TakenInv'
<1> USE DEF HInv
<1>1. UNCHANGED <<worker, run, given>>
    BY DEF WakeStep, Arrive, Insert, CountQueued, Fold, AskQueue, SourceDies
<1>2. OnlyLess
    <2>1. CASE UNCHANGED inbox
        BY <2>1 DEF OnlyLess
    <2>2. CASE Insert(k) \/ Fold(k)
        BY <2>2 DEF Insert, Fold, OnlyLess, TypeOK, Wake
    <2> QED
        BY <2>1, <2>2 DEF WakeStep, Arrive, CountQueued, AskQueue, SourceDies
<1>3. ClaimInv'
    BY <1>1, <1>2, StaysClaimed, WorkerType DEF TakenInv, ClaimInv, DrainPart, OnlyLess
<1>4. AllTold'
    BY <1>1, <1>2, StaysTold DEF TakenInv, OnlyLess, Told, WorkerHolds, RunHolds
<1> QED
    BY <1>3, <1>4 DEF TakenInv

LEMMA TakenSettings ==
    ASSUME HInv, TakenInv, TwoSeconds \/ Expire \/ Settings \/ UNCHANGED vars
    PROVE  TakenInv'
<1> USE DEF HInv
<1>1. UNCHANGED <<worker, run, given>>
    BY DEF TwoSeconds, Expire, Settings, EditSettings, RoomAgain, SaveSettings, SwitchedOff, vars
<1>2. OnlyLess
    BY DEF TwoSeconds, Expire, Settings, EditSettings, RoomAgain, SaveSettings, SwitchedOff, vars,
           Dropped, Become, OnlyLess, TypeOK, Wake
<1>3. ClaimInv'
    BY <1>1, <1>2, StaysClaimed, WorkerType DEF TakenInv, ClaimInv, DrainPart, OnlyLess
<1>4. AllTold'
    BY <1>1, <1>2, StaysTold DEF TakenInv, OnlyLess, Told, WorkerHolds, RunHolds
<1> QED
    BY <1>3, <1>4 DEF TakenInv

\* A claim for a run, or for one that is about to start.
LEMMA TakenClaim ==
    ASSUME HInv, TakenInv, NEW w \in Workers, Claim(w)
    PROVE  TakenInv'
<1> USE DEF HInv
<1>0. OthersStay(w) /\ UNCHANGED <<run, given>> /\ worker[w].pc \in {"claim", "claim_answer"} /\ NoRun \notin Runs
    BY WorkerMovesAlone, Ordinary DEF WorkerStep, Claim
<1>1. PICK k \in worker[w].todo :
        /\ k \in Wakes
        /\ \/ /\ IsQueued(k) /\ inbox'[k].status = "consumed"
              /\ inbox'[k].by = IF worker[w].run = NoRun THEN inbox[k].by ELSE worker[w].run
              /\ \A j \in Wakes \ {k} : inbox'[j] = inbox[j]
              /\ Becomes(w, worker[w].pc, worker[w].seen, worker[w].batch, worker[w].todo \ {k},
                         worker[w].won \cup {k}, worker[w].run)
           \/ /\ ~IsQueued(k) /\ UNCHANGED inbox
              /\ Becomes(w, worker[w].pc, worker[w].seen, worker[w].batch, worker[w].todo \ {k},
                         worker[w].won, worker[w].run)
    BY ClaimMoves
<1>2. \A v \in Workers \ {w} : ClaimPart(v)'
    <2> SUFFICES ASSUME NEW v \in Workers, v # w PROVE ClaimPart(v)'
        OBVIOUS
    <2>1. worker'[v] = worker[v] /\ worker[v].won \subseteq Wakes
        BY <1>0, WorkerType DEF OthersStay
    <2>2. \A j \in worker[v].won : WorkerHolds(v, j) => inbox'[j] = inbox[j]
        BY <1>1, <2>1 DEF HeldInv, OneHolder
    <2> QED
        BY <2>1, <2>2, StaysClaimed DEF TakenInv, ClaimInv
<1>3. ClaimPart(w)'
    <2>1. worker[w].pc = "claim_answer" => worker[w].run \in Runs
        BY DEF HeldInv, AnswersARun
    <2> QED
        BY <1>0, <1>1, <2>1, WorkerType DEF TakenInv, ClaimInv, ClaimPart, Becomes
<1>4. ClaimInv'
    BY <1>0, <1>2, <1>3 DEF TakenInv, ClaimInv, DrainPart
<1>5. AllTold'
    <2>1. \A v \in Workers, j \in Wakes : WorkerHolds(v, j) => WorkerHolds(v, j)'
        BY <1>0, <1>1 DEF WorkerHolds, OthersStay, Becomes
    <2>2. IsQueued(k) => WorkerHolds(w, k)'
        BY <1>0, <1>1 DEF WorkerHolds, HoldingPc, Becomes
    <2>3. \A j \in Wakes : Told(j) /\ inbox'[j].by = inbox[j].by => Told(j)'
        BY <1>0, <2>1 DEF Told, RunHolds
    <2>4. \A j \in Wakes : IsQueued(j) => Told(j)' \/ inbox'[j] = inbox[j]
        BY <1>1, <2>2 DEF Told
    <2>5. \A j \in Wakes : inbox'[j] = inbox[j] \/ (j = k /\ IsQueued(k))
        BY <1>1
    <2> QED
        BY <2>2, <2>3, <2>5 DEF TakenInv, AllTold, Told
<1> QED
    BY <1>4, <1>5 DEF TakenInv

LEMMA TakenTells ==
    ASSUME HInv, TakenInv, NEW w \in Workers, Answer(w) \/ StartRun(w)
    PROVE  TakenInv'
<1> USE DEF HInv
<1>0. OthersStay(w) /\ UNCHANGED inbox /\ NoRun \notin Runs
    BY WorkerMovesAlone, Ordinary DEF WorkerStep, Answer, StartRun
<1>1. \A v \in Workers \ {w} : ClaimPart(v)'
    BY <1>0, StaysClaimed DEF OthersStay, TakenInv, ClaimInv
<1>2. CASE Answer(w)
    <2> USE AnswerMoves, <1>2 DEF HeldInv
    <2>1. ClaimPart(w)'
        BY DEF StartsOver, Becomes, ClaimPart
    <2>2. DrainPart'
        BY DEF TakenInv, ClaimInv, DrainPart
    <2>3. \A k \in Wakes : given[k] # {} => given'[k] # {}
        BY DEF Tell
    <2>4. \A v \in Workers, k \in Wakes : WorkerHolds(v, k) /\ inbox'[k].status = "consumed" => Told(k)'
        <3> SUFFICES ASSUME NEW v \in Workers, NEW k \in Wakes, WorkerHolds(v, k), inbox'[k].status = "consumed"
                     PROVE  Told(k)'
            OBVIOUS
        <3>1. CASE v = w
            BY <1>0, <3>1 DEF Answer, At, TakenInv, ClaimInv, ClaimPart, WorkerHolds, Told
        <3>2. CASE v # w
            BY <1>0, <3>2 DEF OthersStay, WorkerHolds, Told
        <3> QED
            BY <3>1, <3>2
    <2>5. \A r \in Runs, k \in Wakes : RunHolds(r, k) => Told(k)'
        BY DEF RunHolds, Told
    <2>6. AllTold'
        BY <1>0, <2>3, <2>4, <2>5, StaysTold DEF TakenInv
    <2> QED
        BY <1>1, <2>1, <2>2, <2>6 DEF TakenInv, ClaimInv
<1>3. CASE StartRun(w)
    <2>1. PICK r \in Runs :
             /\ run[r].pc = None /\ given' = Tell(worker[w].won, r)
             /\ run'[r].pc = "step" /\ run'[r].won = run[r].won
             /\ \A q \in Runs \ {r} : run'[q] = run[q]
             /\ Becomes(w, "mark", worker[w].seen, {}, worker[w].todo, worker[w].won, r)
        BY <1>3, StartMoves
    <2>2. ClaimPart(w)'
        BY <1>0, <2>1 DEF Becomes, ClaimPart
    <2>3. DrainPart'
        BY <2>1 DEF TakenInv, ClaimInv, DrainPart, None
    <2>4. \A k \in Wakes : given[k] # {} => given'[k] # {}
        BY <2>1 DEF Tell
    <2>5. \A v \in Workers, k \in Wakes : WorkerHolds(v, k) => Told(k)'
        BY <1>0, <2>1 DEF OthersStay, WorkerHolds, Told, Tell
    <2>6. \A q \in Runs, k \in Wakes : RunHolds(q, k) => Told(k)'
        BY <2>1 DEF RunHolds, Told
    <2>7. AllTold'
        BY <1>0, <2>4, <2>5, <2>6, StaysTold DEF TakenInv
    <2> QED
        BY <1>1, <2>2, <2>3, <2>7 DEF TakenInv, ClaimInv
<1> QED
    BY <1>2, <1>3

\* The other steps of a worker take no wake, and let go of one only when it is
\* dropped or queued again.
LEMMA TakenWorkerQuiet ==
    ASSUME HInv, TakenInv, NEW w \in Workers,
           \/ TakeJob(w) \/ ReadAgent(w) \/ ReadInbox(w) \/ CheckLive(w) \/ Claimed(w)
           \/ StartRefused(w) \/ ConversationGone(w) \/ Unclaim(w) \/ MarkWakes(w) \/ Reread(w)
           \/ SaveLive(w) \/ MustPause(w) \/ Drop(w) \/ Unlock(w) \/ DeleteLock(w)
    PROVE  TakenInv'
<1> USE DEF HInv
<1>0. OthersStay(w) /\ UNCHANGED <<run, given>>
    BY WorkerMovesAlone DEF WorkerStep, TakeJob, ReadAgent, ReadInbox, CheckLive, Claimed, StartRefused,
           ConversationGone, Unclaim, MarkWakes, Reread, SaveLive, MustPause, Drop, Unlock, DeleteLock
<1>1. OnlyLess
    <2>1. CASE UNCHANGED inbox
        BY <2>1 DEF OnlyLess
    <2>2. CASE MarkWakes(w)
        <3>1. worker[w].run # NoRun
            BY <2>2 DEF MarkWakes, At, TakenInv, ClaimInv, ClaimPart
        <3> QED
            BY <2>2, <3>1 DEF MarkWakes, OnlyLess, TypeOK, Wake
    <2>3. CASE StartRefused(w) \/ Unclaim(w) \/ Drop(w)
        BY <2>3 DEF StartRefused, Unclaim, Drop, Dropped, Become, OnlyLess
    <2> QED
        BY <2>1, <2>2, <2>3 DEF TakeJob, ReadAgent, ReadInbox, CheckLive, Claimed,
           ConversationGone, Reread, SaveLive, MustPause, Unlock, DeleteLock
<1>2. \A v \in Workers \ {w} : ClaimPart(v)'
    BY <1>0, <1>1, StaysClaimed, WorkerType DEF OthersStay, OnlyLess, TakenInv, ClaimInv
<1>3. ClaimPart(w)'
    <2>0. UNCHANGED worker => ClaimPart(w)'
        BY <1>1, StaysClaimed, WorkerType DEF OnlyLess, TakenInv, ClaimInv
    <2>1. ClaimPart(w)
        BY DEF TakenInv, ClaimInv
    <2>2. CASE TakeJob(w) \/ ReadAgent(w) \/ ReadInbox(w) \/ Reread(w)
        BY <2>0, <2>2, ReadingMoves DEF StartsOver, MovesTo, Becomes, ClaimPart
    <2>3. CASE CheckLive(w)
        <3>1. worker[w].won = {}
            BY <2>3 DEF CheckLive, At, HeldInv, NothingWonYet
        <3> QED
            BY <2>3, <3>1, LiveMoves DEF StartsOver, Becomes, ClaimPart
    <2>4. CASE Claimed(w)
        BY <2>1, <2>4, <1>1, ClaimedMoves, WorkerType DEF Claimed, StartsOver, MovesTo, Becomes, ClaimPart
    <2>5. CASE \/ StartRefused(w) \/ ConversationGone(w) \/ Unclaim(w) \/ MarkWakes(w)
               \/ SaveLive(w) \/ MustPause(w) \/ Drop(w) \/ Unlock(w) \/ DeleteLock(w)
        BY <2>5, GoingMoves DEF StartsOver, MovesTo, Becomes, ClaimPart
    <2> QED
        BY <2>2, <2>3, <2>4, <2>5
<1>4. ClaimInv'
    BY <1>0, <1>2, <1>3 DEF TakenInv, ClaimInv, DrainPart
<1>5. \A k \in Wakes : WorkerHolds(w, k) /\ inbox'[k].status = "consumed" => WorkerHolds(w, k)'
    <2>1. CASE TakeJob(w) \/ ReadAgent(w) \/ ReadInbox(w) \/ Reread(w) \/ CheckLive(w)
        BY <2>1 DEF TakeJob, ReadAgent, ReadInbox, Reread, CheckLive, At, WorkerHolds, HoldingPc
    <2>2. CASE Claimed(w)
        BY <2>2, ClaimedMoves DEF StartsOver, MovesTo, Becomes, WorkerHolds, HoldingPc
    <2>3. CASE StartRefused(w) \/ Unclaim(w)
        BY <2>3 DEF StartRefused, Unclaim, Become, WorkerHolds
    <2>4. CASE ConversationGone(w)
        BY <2>4, GoingMoves DEF ConversationGone, At, MovesTo, Becomes, WorkerHolds, HoldingPc
    <2>5. CASE MustPause(w)
        <3>1. ~\E k \in Wakes : WorkerHolds(w, k)
            BY <2>5 DEF MustPause, WorkerHolds, HoldingPc, TakenInv, ClaimInv, ClaimPart
        <3> QED
            BY <3>1
    <2>6. CASE MarkWakes(w) \/ SaveLive(w) \/ Drop(w) \/ Unlock(w) \/ DeleteLock(w)
        BY <2>6 DEF MarkWakes, SaveLive, Drop, Unlock, DeleteLock, At, WorkerHolds, HoldingPc
    <2> QED
        BY <2>1, <2>2, <2>3, <2>4, <2>5, <2>6
<1>6. \A v \in Workers, k \in Wakes : WorkerHolds(v, k) /\ inbox'[k].status = "consumed" => Told(k)'
    BY <1>0, <1>5 DEF OthersStay, WorkerHolds, Told
<1>7. AllTold'
    BY <1>0, <1>1, <1>6, StaysTold DEF OnlyLess, TakenInv, RunHolds, Told
<1> QED
    BY <1>4, <1>7 DEF TakenInv

\* A run takes wakes as it drains, and ends with all of them told.
LEMMA TakenRun ==
    ASSUME HInv, TakenInv, NEW r \in Runs, RunStep(r) \/ PersonActs(r) \/ CancelRun(r)
    PROVE  TakenInv'
<1> USE DEF HInv
<1>0. UNCHANGED worker
    BY DEF RunStep, Drain, DrainClaim, DrainTell, NextStep, Finished, PersonActs, CancelRun
<1>1. CASE DrainClaim(r)
    <2>0. UNCHANGED given /\ run[r].pc \in {"drain", "drain_over"} /\ r # NoRun
        BY <1>1, Ordinary DEF DrainClaim
    <2>1. PICK k \in First(run[r].todo) :
            IF MayClaim(k)
            THEN /\ inbox' = Taken(k, r)
                 /\ run' = [run EXCEPT ![r].todo = @ \ {k}, ![r].won = @ \cup {k}]
            ELSE /\ run' = [run EXCEPT ![r].todo = @ \ {k}]
                 /\ UNCHANGED inbox
        BY <1>1 DEF DrainClaim
    <2>2. k \in Wakes
        BY RunType DEF First, Run
    <2>3. /\ \A q \in Runs \ {r} : run'[q] = run[q]
          /\ run'[r].pc = run[r].pc
          /\ run'[r].won = IF MayClaim(k) THEN run[r].won \cup {k} ELSE run[r].won
        <3>1. run[r] \in Run /\ run \in [Runs -> Run]
            BY RunType DEF TypeOK
        <3>2. CASE MayClaim(k)
            BY <2>1, <3>1, <3>2 DEF Run
        <3>3. CASE ~MayClaim(k)
            BY <2>1, <3>1, <3>3 DEF Run
        <3> QED
            BY <3>2, <3>3
    <2>4. \A j \in Wakes : inbox'[j] = inbox[j] \/ (j = k /\ IsQueued(k) /\ MayClaim(k))
        BY <2>1 DEF Taken, MayClaim, IsQueued, TypeOK
    <2>5. ClaimInv'
        <3>1. ASSUME NEW v \in Workers PROVE ClaimPart(v)'
            <4>1. worker'[v] = worker[v] /\ worker[v].won \subseteq Wakes
                BY <1>0, WorkerType
            <4>2. \A j \in worker[v].won : WorkerHolds(v, j) => inbox'[j] = inbox[j]
                BY <2>4, <4>1 DEF HeldInv, OneHolder
            <4> QED
                BY <4>1, <4>2, StaysClaimed DEF TakenInv, ClaimInv
        <3>2. DrainPart'
            BY <2>0, <2>3 DEF TakenInv, ClaimInv, DrainPart
        <3> QED
            BY <3>1, <3>2 DEF ClaimInv
    <2>6. AllTold'
        <3>1. \A j \in Wakes : Told(j) /\ inbox'[j] = inbox[j] => Told(j)'
            BY <1>0, <2>0, <2>3 DEF Told, WorkerHolds, RunHolds
        <3>2. MayClaim(k) => Told(k)'
            BY <2>3 DEF Told, RunHolds
        <3> QED
            BY <2>4, <3>1, <3>2 DEF TakenInv, AllTold
    <2> QED
        BY <2>5, <2>6 DEF TakenInv
<1>2. CASE ~DrainClaim(r)
    <2>1. UNCHANGED inbox
        BY <1>2 DEF RunStep, Drain, DrainTell, NextStep, Finished, PersonActs, CancelRun
    <2>2. \A v \in Workers : ClaimPart(v)'
        BY <1>0, <2>1, StaysClaimed DEF TakenInv, ClaimInv
    <2>3. DrainPart /\ \A q \in Runs \ {r} : run'[q] = run[q]
        BY <1>2 DEF RunStep, Drain, DrainTell, NextStep, Finished, PersonActs, CancelRun, TypeOK, TakenInv, ClaimInv
    <2>4. CASE DrainTell(r)
        <3>1. run'[r].won = {} /\ given' = Tell(run[r].won, r)
            BY <2>4 DEF DrainTell, TypeOK, Run
        <3>2. DrainPart'
            BY <2>3, <3>1 DEF DrainPart
        <3>3. AllTold'
            BY <1>0, <2>1, <2>3, <3>1 DEF TakenInv, AllTold, Told, Tell, WorkerHolds, RunHolds
        <3> QED
            BY <2>2, <3>2, <3>3 DEF TakenInv, ClaimInv
    <2>5. CASE ~DrainTell(r)
        <3>1. UNCHANGED given
            BY <1>2, <2>5 DEF RunStep, Drain, NextStep, Finished, PersonActs, CancelRun
        <3>2. run'[r].won = run[r].won /\ (run[r].won # {} => run'[r].pc \in {"drain", "drain_over"})
            <4>1. CASE Drain(r) \/ NextStep(r) \/ PersonActs(r)
                BY <2>3, <4>1 DEF Drain, NextStep, PersonActs, DrainPart, TypeOK, Run
            <4>2. CASE Finished(r)
                BY <2>3, <4>2 DEF Finished, NotStarted, DrainPart, TypeOK
            <4>3. CASE CancelRun(r)
                <5>1. PICK p : /\ run' = [run EXCEPT ![r].pc = p]
                               /\ run[r].pc = "drain" => p = "drain_over"
                    BY <4>3 DEF CancelRun
                <5>2. run'[r].pc = p /\ run'[r].won = run[r].won
                    BY <5>1, RunType DEF TypeOK, Run
                <5> QED
                    BY <2>3, <4>3, <5>1, <5>2 DEF CancelRun, DrainPart, Live
            <4> QED
                BY <1>2, <2>5, <4>1, <4>2, <4>3 DEF RunStep
        <3>3. DrainPart'
            BY <2>3, <3>2 DEF DrainPart
        <3>4. AllTold'
            BY <1>0, <2>1, <2>3, <3>1, <3>2 DEF TakenInv, AllTold, Told, WorkerHolds, RunHolds
        <3> QED
            BY <2>2, <3>3, <3>4 DEF TakenInv, ClaimInv
    <2> QED
        BY <2>4, <2>5
<1> QED
    BY <1>1, <1>2

LEMMA TakenNext ==
    ASSUME "crash" \notin Faults, HInv, TakenInv, [Next]_vars
    PROVE  TakenInv'
<1>1. ASSUME NEW k \in Wakes, Arrive(k) \/ WakeStep(k) \/ SourceDies(k)
      PROVE  TakenInv'
    BY <1>1, TakenWake
<1>2. ASSUME NEW w \in Workers, WorkerStep(w) \/ WorkerDies(w)
      PROVE  TakenInv'
    <2>1. WorkerStep(w)
        BY <1>2 DEF WorkerDies
    <2> QED
        BY <2>1, TakenClaim, TakenTells, TakenWorkerQuiet DEF WorkerStep
<1>3. ASSUME NEW r \in Runs, RunStep(r) \/ PersonActs(r) \/ CancelRun(r) \/ StepDies(r)
      PROVE  TakenInv'
    BY <1>3, TakenRun DEF StepDies
<1> QED
    BY <1>1, <1>2, <1>3, TakenSettings DEF Next, Settings

\* While no process dies, a wake that was taken was told to a run or is about
\* to be, whatever overlaps and whatever the owner does to the settings; what
\* may be lost is the owner's answer to a run that no longer waits for one.
THEOREM TakenWakeIsTold ==
    ASSUME "crash" \notin Faults
    PROVE  Spec => []TakenIsTold
<1>1. Init => TakenInv
    <2> SUFFICES ASSUME Init PROVE TakenInv
        OBVIOUS
    <2>1. \A w \in Workers : worker[w].pc = "idle"
        BY DEF Init, Idle
    <2>2. \A k \in Wakes : inbox[k].status = None
        BY DEF Init
    <2>3. \A r \in Runs : run[r].won = {}
        BY DEF Init, NotStarted
    <2> QED
        BY <2>1, <2>2, <2>3 DEF TakenInv, ClaimInv, ClaimPart, DrainPart, AllTold, None
<1>2. HInv /\ TakenInv /\ [Next]_vars => TakenInv'
    BY TakenNext
<1>3. TakenInv => TakenIsTold
    BY DEF TakenInv, AllTold, Told, TakenIsTold, Holders, WorkerHolds, RunHolds, HoldingPc
<1> QED
    BY <1>1, <1>2, <1>3, AlwaysHInv, PTL DEF Spec

-----------------------------------------------------------------------------
(* One run at a time                                                       *)

\* The lock is held by the worker that works, and by no other.
MutexInv == \A w \in Workers : worker[w].pc # "idle" <=> lock = w

\* Where a worker goes by the settings it has read, and where it has started a
\* run that they do not name yet.
Reading == {"inbox", "live", "claim", "claim_answer", "answer", "start"}
Marking == {"mark", "reread", "save"}

\* The settings are changed behind a worker's back only while they say off,
\* when no worker goes by them.
SettingsInv ==
    /\ owner.pc = "save" => ~config.on /\ ~owner.was /\ owner.next.live = config.live
    /\ owner.pc # "drop"
    /\ \A w \in Workers : /\ worker[w].pc \in Reading \cup {"unclaim"} \cup Marking => config.on
                          /\ worker[w].pc \in Reading \cup {"save"} => worker[w].seen = config

\* The live run is the one the settings name, or the one a worker has started;
\* and nobody claims for a new run while one is live.
LiveInv ==
    /\ \A r \in LiveRuns :
         config.live = r \/ \E w \in Workers : worker[w].pc \in Marking /\ worker[w].run = r
    /\ \A w \in Workers :
         /\ worker[w].pc \in {"claim", "start", "unclaim"} => LiveRuns = {}
         /\ worker[w].pc \in Marking => LiveRuns \subseteq {worker[w].run}

OneRunInv == MutexInv /\ SettingsInv /\ LiveInv

Calm == Faults \cap {"slow", "crash", "edit", "switch"} = {}

\* The steps that are no worker's start no run.
LEMMA RunsOnlyEnd ==
    ASSUME TypeOK, NEW r \in Runs, RunStep(r) \/ PersonActs(r) \/ CancelRun(r) \/ StepDies(r)
    PROVE  LiveRuns' \subseteq LiveRuns /\ UNCHANGED <<config, lock, worker, owner, source>>
<1>1. UNCHANGED <<config, lock, worker, owner, source>>
    BY DEF RunStep, Drain, DrainClaim, DrainTell, NextStep, Finished, PersonActs, CancelRun, StepDies
<1>2. \A q \in Runs \ {r} : run'[q] = run[q]
    BY DEF RunStep, Drain, DrainClaim, DrainTell, NextStep, Finished, PersonActs, CancelRun, StepDies, TypeOK
<1>3. run'[r].pc \in Live => run[r].pc \in Live
    <2>1. CASE Drain(r) \/ DrainClaim(r) \/ NextStep(r) \/ PersonActs(r) \/ StepDies(r)
        BY <2>1 DEF Drain, DrainClaim, NextStep, PersonActs, StepDies, Live, TypeOK, Run
    <2>2. CASE DrainTell(r)
        BY <2>2 DEF DrainTell, Live, TypeOK, Run
    <2>3. CASE Finished(r) \/ CancelRun(r)
        BY <2>3 DEF Finished, CancelRun, Live, TypeOK, Run, NotStarted
    <2> QED
        BY <2>1, <2>2, <2>3 DEF RunStep
<1> QED
    BY <1>1, <1>2, <1>3 DEF LiveRuns

LEMMA OneRunQuiet ==
    ASSUME OneRunInv, UNCHANGED <<config, lock, worker, owner>>, LiveRuns' \subseteq LiveRuns
    PROVE  OneRunInv'
<1>1. MutexInv'
    BY DEF OneRunInv, MutexInv
<1>2. SettingsInv'
    BY DEF OneRunInv, SettingsInv
<1>3. LiveInv'
    BY DEF OneRunInv, LiveInv
<1> QED
    BY <1>1, <1>2, <1>3 DEF OneRunInv

LEMMA OneRunSettings ==
    ASSUME Calm, TypeOK, OneRunInv, Expire \/ Settings
    PROVE  OneRunInv'
<1>1. UNCHANGED <<worker, run>> /\ LiveRuns' = LiveRuns
    BY DEF Expire, Settings, EditSettings, RoomAgain, SaveSettings, SwitchedOff, LiveRuns
<1>2. CASE Expire
    <2>1. lock = Orphan /\ lock' = None /\ UNCHANGED <<config, owner>>
        BY <1>2 DEF Expire, Calm
    <2>2. MutexInv'
        BY <1>1, <2>1, StandingAssumption DEF OneRunInv, MutexInv
    <2>3. SettingsInv' /\ LiveInv'
        BY <1>1, <2>1 DEF OneRunInv, SettingsInv, LiveInv
    <2> QED
        BY <2>2, <2>3 DEF OneRunInv
<1>3. CASE EditSettings \/ SwitchedOff
    BY <1>3 DEF EditSettings, Edited, SwitchedOff, Calm, OneRunInv, SettingsInv
<1>4. CASE RoomAgain
    <2>1. UNCHANGED <<config, lock>> /\ owner'.pc = "save" /\ ~owner'.was /\ owner'.next.live = config.live /\ ~config.on
        BY <1>4 DEF RoomAgain, TypeOK, Config
    <2> QED
        BY <1>1, <2>1 DEF OneRunInv, MutexInv, SettingsInv, LiveInv
<1>5. CASE SaveSettings
    <2>1. UNCHANGED lock /\ config'.live = config.live /\ owner'.pc = "idle" /\ ~config.on
        BY <1>5 DEF SaveSettings, OneRunInv, SettingsInv, TypeOK
    <2>2. SettingsInv'
        BY <1>1, <2>1 DEF OneRunInv, SettingsInv, Marking
    <2> QED
        BY <1>1, <2>1, <2>2 DEF OneRunInv, MutexInv, LiveInv
<1> QED
    BY <1>2, <1>3, <1>4, <1>5 DEF Settings

LEMMA OneRunWorker ==
    ASSUME Calm, HInv, OneRunInv, NEW w \in Workers, WorkerStep(w)
    PROVE  OneRunInv'
<1> USE DEF HInv
<1>0. OthersStay(w) /\ UNCHANGED owner /\ NoRun \notin Runs
    BY WorkerMovesAlone, Ordinary DEF WorkerStep, TakeJob, ReadAgent, ReadInbox, CheckLive, Claim, Claimed, Answer, StartRun,
           StartRefused, ConversationGone, Unclaim, MarkWakes, Reread, SaveLive, MustPause, Drop, Unlock, DeleteLock
<1>1. CASE TakeJob(w)
    <2>1. UNCHANGED <<config, run>> /\ LiveRuns' = LiveRuns /\ worker[w].pc = "idle"
        BY <1>1 DEF TakeJob, LiveRuns, At
    <2>2. CASE UNCHANGED <<worker, lock>>
        BY <1>0, <2>1, <2>2, OneRunQuiet
    <2>3. CASE lock = None /\ lock' = w /\ MovesTo(w, "agent")
        <3>1. worker'[w].pc = "agent"
            BY <2>3 DEF MovesTo, Becomes
        <3>2. MutexInv'
            BY <1>0, <2>3, <3>1, StandingAssumption DEF OneRunInv, MutexInv, OthersStay
        <3>3. SettingsInv'
            BY <1>0, <2>1, <3>1 DEF OneRunInv, SettingsInv, OthersStay, Reading, Marking
        <3>4. LiveInv'
            BY <1>0, <2>1, <3>1 DEF OneRunInv, LiveInv, OthersStay, Marking
        <3> QED
            BY <3>2, <3>3, <3>4 DEF OneRunInv
    <2> QED
        BY <1>1, <2>2, <2>3, ReadingMoves
<1>2. ASSUME ~TakeJob(w) PROVE OneRunInv'
    \* The lock is its own, so everyone else is idle.
    <2>0. worker[w].pc # "idle" /\ lock = w /\ \A v \in Workers \ {w} : worker[v].pc = "idle" /\ worker'[v].pc = "idle"
        <3>1. worker[w].pc # "idle"
            BY <1>2 DEF WorkerStep, ReadAgent, ReadInbox, CheckLive, Claim, Claimed, Answer, StartRun,
               StartRefused, ConversationGone, Unclaim, MarkWakes, Reread, SaveLive, MustPause, Drop, Unlock, DeleteLock, At
        <3> QED
            BY <3>1, <1>0 DEF OneRunInv, MutexInv, OthersStay
    \* It suffices to look at its own record, which is idle when the lock is free.
    <2>1. ASSUME \/ lock' = lock /\ worker'[w].pc # "idle"
                 \/ lock' = None /\ worker'[w].pc = "idle",
                 config' = config \/ owner.pc # "save",
                 worker'[w].pc \in Reading \cup {"unclaim"} \cup Marking => config'.on,
                 worker'[w].pc \in Reading \cup {"save"} => worker'[w].seen = config',
                 \A r \in LiveRuns' : config'.live = r \/ (worker'[w].pc \in Marking /\ worker'[w].run = r),
                 worker'[w].pc \in {"claim", "start", "unclaim"} => LiveRuns' = {},
                 worker'[w].pc \in Marking => LiveRuns' \subseteq {worker'[w].run}
          PROVE  OneRunInv'
        <3>1. MutexInv'
            BY <2>0, <2>1, StandingAssumption DEF MutexInv
        <3>2. SettingsInv'
            BY <1>0, <2>0, <2>1 DEF OneRunInv, SettingsInv, Reading, Marking
        <3>3. LiveInv'
            BY <2>0, <2>1 DEF LiveInv, Marking
        <3> QED
            BY <3>1, <3>2, <3>3 DEF OneRunInv
    <2>2. /\ worker[w].pc \in Reading \cup {"unclaim"} \cup Marking => config.on /\ owner.pc # "save"
          /\ worker[w].pc \in Reading \cup {"save"} => worker[w].seen = config
          /\ \A r \in LiveRuns : config.live = r \/ (worker[w].pc \in Marking /\ worker[w].run = r)
          /\ worker[w].pc \in {"claim", "start", "unclaim"} => LiveRuns = {}
          /\ worker[w].pc \in Marking => LiveRuns \subseteq {worker[w].run}
        BY <2>0 DEF OneRunInv, SettingsInv, LiveInv, Marking
    <2> USE DEF Reading, Marking
    <2>3. CASE ReadAgent(w) \/ Reread(w) \/ ReadInbox(w)
        <3>1. UNCHANGED <<config, lock>> /\ LiveRuns' = LiveRuns
            BY <2>3 DEF ReadAgent, Reread, ReadInbox, LiveRuns
        <3>2. CASE ReadAgent(w)
            <4>1. worker'[w].pc = (IF config.on THEN "inbox" ELSE "drop") /\ worker'[w].seen = config
                BY <3>2, ReadingMoves DEF Becomes
            <4>2. worker[w].pc = "agent"
                BY <3>2 DEF ReadAgent, At
            <4>3. CASE config.on
                BY <2>1, <2>2, <3>1, <4>1, <4>2, <4>3
            <4>4. CASE ~config.on
                BY <2>1, <2>2, <3>1, <4>1, <4>2, <4>4
            <4> QED
                BY <4>3, <4>4
        <3>3. CASE Reread(w)
            <4>1. worker'[w].pc = "save" /\ worker'[w].seen = config /\ worker'[w].run = worker[w].run
                BY <3>3, ReadingMoves DEF Becomes
            <4> QED
                BY <2>1, <2>2, <3>1, <3>3, <4>1 DEF Reread, At
        <3>4. CASE ReadInbox(w)
            <4>1. worker'[w].pc = "unlock" \/ (worker'[w].pc = "live" /\ worker'[w].seen = worker[w].seen)
                BY <3>4, ReadingMoves DEF Becomes, StartsOver
            <4> QED
                BY <2>1, <2>2, <3>1, <3>4, <4>1 DEF ReadInbox, At
        <3> QED
            BY <2>3, <3>2, <3>3, <3>4
    <2>4. CASE CheckLive(w)
        <3>1. UNCHANGED <<config, lock>> /\ LiveRuns' = LiveRuns /\ worker[w].pc = "live"
            BY <2>4 DEF CheckLive, LiveRuns, At
        <3>2. /\ worker'[w].pc = "unlock" \/ (worker'[w].pc \in {"claim", "claim_answer"} /\ worker'[w].seen = worker[w].seen)
              /\ worker'[w].pc = "claim" => ~IsLive(worker[w].seen.live)
            BY <2>4, LiveMoves DEF Becomes, StartsOver
        <3>3. worker'[w].pc = "claim" => LiveRuns = {}
            BY <1>0, <2>2, <3>1, <3>2 DEF IsLive, LiveRuns
        <3> QED
            BY <2>1, <2>2, <3>1, <3>2, <3>3
    <2>5. CASE Claim(w) \/ Claimed(w)
        <3>1. UNCHANGED <<config, lock>> /\ LiveRuns' = LiveRuns /\ worker[w].pc \in {"claim", "claim_answer"}
            BY <2>5 DEF Claim, Claimed, LiveRuns
        <3>2. \/ worker'[w].pc = "unlock"
              \/ /\ worker'[w].pc = worker[w].pc \/ (worker[w].pc = "claim" /\ worker'[w].pc = "start")
                    \/ worker'[w].pc = "answer"
                 /\ worker'[w].seen = worker[w].seen
            BY <2>5, ClaimMoves, ClaimedMoves DEF Becomes, StartsOver, MovesTo
        <3> QED
            BY <2>1, <2>2, <3>1, <3>2
    <2>6. CASE Answer(w)
        <3>1. UNCHANGED <<config, lock>> /\ worker[w].pc = "answer" /\ worker'[w].pc = "unlock"
            BY <2>6, AnswerMoves DEF Answer, At, StartsOver, Becomes, HeldInv
        <3>2. LiveRuns' \subseteq LiveRuns
            BY <2>6, AnswerMoves DEF LiveRuns, HeldInv, Live
        <3> QED
            BY <2>1, <2>2, <3>1, <3>2
    <2>7. CASE StartRun(w)
        <3>1. PICK r \in Runs : /\ \A q \in Runs \ {r} : run'[q] = run[q]
                                /\ worker'[w].pc = "mark" /\ worker'[w].run = r
            BY <2>7, StartMoves DEF Becomes
        <3>2. UNCHANGED <<config, lock>> /\ worker[w].pc = "start" /\ LiveRuns' \subseteq {r}
            BY <2>2, <2>7, <3>1 DEF StartRun, At, LiveRuns
        <3> QED
            BY <2>1, <2>2, <3>1, <3>2
    <2>8. CASE ConversationGone(w) \/ SaveLive(w) \/ MustPause(w)
        <3>0. UNCHANGED lock /\ LiveRuns' = LiveRuns
            BY <2>8 DEF ConversationGone, SaveLive, MustPause, LiveRuns
        <3>1. config \in Config /\ worker[w].seen \in Config
            BY WorkerType DEF TypeOK
        <3>2. CASE ConversationGone(w)
            <4>1. worker'[w].pc = "unclaim" /\ worker[w].pc = "start" /\ config' = [config EXCEPT !.thread = FALSE]
                BY <2>2, <3>2, GoingMoves DEF ConversationGone, At, MovesTo, Becomes
            <4>2. config'.on = config.on
                BY <3>1, <4>1 DEF Config
            <4> QED
                BY <2>1, <2>2, <3>0, <4>1, <4>2
        <3>3. CASE SaveLive(w)
            <4>1. /\ worker'[w].pc = "unlock" /\ worker[w].pc = "save"
                  /\ config' = [worker[w].seen EXCEPT !.live = worker[w].run, !.thread = TRUE]
                BY <3>3, GoingMoves DEF SaveLive, At, StartsOver, Becomes
            <4>2. config'.live = worker[w].run
                BY <3>1, <4>1 DEF Config
            <4> QED
                BY <2>1, <2>2, <3>0, <4>1, <4>2
        <3>4. CASE MustPause(w)
            <4>1. worker'[w].pc = "drop" /\ worker[w].pc \in {"inbox", "claim"}
                BY <3>4, GoingMoves DEF MustPause, MovesTo, Becomes
            <4>2. config'.live = config.live
                <5>1. PICK why : config' = [worker[w].seen EXCEPT !.on = FALSE, !.why = why]
                    BY <3>4 DEF MustPause
                <5> QED
                    BY <2>2, <3>1, <4>1, <5>1 DEF Config
            <4> QED
                BY <2>1, <2>2, <3>0, <4>1, <4>2
        <3> QED
            BY <2>8, <3>2, <3>3, <3>4
    <2>9. CASE StartRefused(w) \/ Unclaim(w) \/ MarkWakes(w) \/ Drop(w)
        <3>1. UNCHANGED <<config, lock>> /\ LiveRuns' = LiveRuns
            BY <2>9 DEF StartRefused, Unclaim, MarkWakes, Drop, LiveRuns
        <3>2. \/ worker'[w].pc = "unlock" /\ worker[w].pc \notin Marking
              \/ worker[w].pc = "mark" /\ worker'[w].pc = "reread" /\ worker'[w].run = worker[w].run
            BY <2>9, GoingMoves DEF StartsOver, MovesTo, Becomes, StartRefused, Unclaim, MarkWakes, Drop, At
        <3> QED
            BY <2>1, <2>2, <3>1, <3>2
    <2>10. CASE Unlock(w) \/ DeleteLock(w)
        <3>1. UNCHANGED config /\ LiveRuns' = LiveRuns /\ worker[w].pc \in {"unlock", "del"}
            BY <2>10 DEF Unlock, DeleteLock, LiveRuns, At
        <3>2. (worker'[w].pc = "del" /\ lock' = lock) \/ (worker'[w].pc = "idle" /\ lock' = None)
            <4>1. CASE Unlock(w)
                <5>1. "del" \in WorkerPc
                    BY DEF WorkerPc
                <5> QED
                    BY <2>0, <4>1, <5>1, GoMoves DEF Unlock, MovesTo, Becomes
            <4>2. CASE DeleteLock(w)
                BY <4>2, GoingMoves DEF DeleteLock, StartsOver, Becomes
            <4> QED
                BY <2>10, <4>1, <4>2
        <3> QED
            BY <2>1, <2>2, <3>1, <3>2
    <2> QED
        BY <1>2, <2>3, <2>4, <2>5, <2>6, <2>7, <2>8, <2>9, <2>10 DEF WorkerStep
<1> QED
    BY <1>1, <1>2

LEMMA OneRunNext ==
    ASSUME Calm, HInv, OneRunInv, [Next]_vars
    PROVE  OneRunInv'
<1> USE DEF HInv
<1>1. ASSUME NEW k \in Wakes, Arrive(k) \/ WakeStep(k) \/ SourceDies(k)
      PROVE  OneRunInv'
    <2>1. UNCHANGED <<config, lock, worker, owner>> /\ LiveRuns' = LiveRuns
        BY <1>1 DEF WakeStep, Arrive, Insert, CountQueued, Fold, AskQueue, SourceDies, LiveRuns
    <2> QED
        BY <2>1, OneRunQuiet
<1>2. ASSUME NEW w \in Workers, WorkerStep(w) \/ WorkerDies(w)
      PROVE  OneRunInv'
    BY <1>2, OneRunWorker DEF WorkerDies, Calm
<1>3. ASSUME NEW r \in Runs, RunStep(r) \/ PersonActs(r) \/ CancelRun(r) \/ StepDies(r)
      PROVE  OneRunInv'
    BY <1>3, RunsOnlyEnd, OneRunQuiet
<1>4. CASE TwoSeconds \/ UNCHANGED vars
    <2>1. UNCHANGED <<config, lock, worker, owner>> /\ LiveRuns' = LiveRuns
        BY <1>4 DEF TwoSeconds, vars, LiveRuns
    <2> QED
        BY <2>1, OneRunQuiet
<1>5. CASE Expire \/ Settings
    BY <1>5, OneRunSettings
<1> QED
    BY <1>1, <1>2, <1>3, <1>4, <1>5 DEF Next, Settings

LEMMA OneRunInit == Init => OneRunInv
<1> SUFFICES ASSUME Init PROVE OneRunInv
    OBVIOUS
<1>1. \A w \in Workers : worker[w].pc = "idle"
    BY DEF Init, Idle
<1>2. lock = None /\ owner.pc = "idle" /\ LiveRuns = {}
    BY DEF Init, NotStarted, LiveRuns, Live, None
<1> QED
    BY <1>1, <1>2, StandingAssumption DEF OneRunInv, MutexInv, SettingsInv, LiveInv, Reading, Marking

LEMMA AlwaysOneRunInv == ASSUME Calm PROVE Spec => []OneRunInv
<1>1. HInv /\ OneRunInv /\ [Next]_vars => OneRunInv'
    BY OneRunNext
<1> QED
    BY <1>1, OneRunInit, AlwaysHInv, PTL DEF Spec

\* While no worker outlives its lock, no process dies and only the capacity
\* check changes the settings (with runs cancelled, the conversation erased,
\* wakes in bursts and starts refused as they may), the thread has one live run.
THEOREM OneLiveRun ==
    ASSUME Faults \cap {"slow", "crash", "edit", "switch"} = {}
    PROVE  Spec => []OneRunAtATime
<1>1. OneRunInv => OneRunAtATime
    <2> SUFFICES ASSUME OneRunInv PROVE Cardinality(LiveRuns) <= 1
        BY DEF OneRunAtATime
    <2>1. \A r, q \in LiveRuns : r = q
        BY DEF OneRunInv, LiveInv
    <2>2. ASSUME LiveRuns # {} PROVE \E r : LiveRuns = {r}
        <3>1. PICK r \in LiveRuns : TRUE
            BY <2>2
        <3>2. LiveRuns = {r}
            BY <2>1, <3>1
        <3> QED
            BY <3>2
    <2>3. Cardinality(LiveRuns) \in {0, 1}
        BY <2>2, FS_EmptySet, FS_Singleton
    <2> QED
        BY <2>3
<1>2. Calm
    BY DEF Calm
<1> QED
    BY <1>1, <1>2, AlwaysOneRunInv, PTL

-----------------------------------------------------------------------------
(* Each wake is told once                                                  *)

\* What a worker has read and won was told to nobody, or to the one run that
\* was live meanwhile, which is the one the worker then answers.
OncePart(w) ==
    /\ worker[w].pc = "live" => \A k \in worker[w].batch : Kept(k) /\ given[k] \subseteq {config.live}
    /\ worker[w].pc \in {"claim_answer", "answer"} =>
         /\ worker[w].run = config.live
         /\ \A k \in worker[w].batch : Kept(k) /\ given[k] \subseteq {config.live}
    /\ worker[w].pc = "claim_answer" => \A k \in worker[w].batch \ worker[w].todo : ~IsQueued(k)
    /\ worker[w].pc = "answer" => \A k \in worker[w].batch : ~IsQueued(k)
    /\ worker[w].pc \in {"claim", "start", "unclaim"} => \A k \in worker[w].won : given[k] = {}
DrainsOnly == \A r \in Runs : run[r].pc # "drain_over" /\ (run[r].won # {} => run[r].pc = "drain")
Untold == \A k \in Wakes : IsQueued(k) \/ ~Kept(k) \/ (\E r \in Runs : RunHolds(r, k)) => given[k] = {}
ToldToOne == \A k \in Wakes : \A r, q \in given[k] : r = q
OnceInv == (\A w \in Workers : OncePart(w)) /\ DrainsOnly /\ Untold /\ ToldToOne

NoOneCancels == Calm /\ "cancel" \notin Faults

LEMMA StaysOnce ==
    ASSUME TypeOK, NEW w \in Workers, OncePart(w), worker'[w] = worker[w], UNCHANGED given,
           config'.live = config.live \/ worker[w].pc \notin Reading,
           \A k \in Wakes : Kept(k) => Kept(k)',
           \A k \in Wakes : IsQueued(k)' => IsQueued(k) \/ ~Kept(k)
    PROVE  OncePart(w)'
<1>1. worker[w].batch \subseteq Wakes
    BY WorkerType
<1> QED
    BY <1>1 DEF OncePart, Reading

LEMMA OnceQuiet ==
    ASSUME HInv, OneRunInv, OnceInv, UNCHANGED <<worker, run, given>>,
           config'.live = config.live,
           \A k \in Wakes : Kept(k) => Kept(k)',
           \A k \in Wakes : IsQueued(k)' => IsQueued(k) \/ ~Kept(k)
    PROVE  OnceInv'
<1>1. \A w \in Workers : OncePart(w)'
    BY StaysOnce DEF HInv, OnceInv
<1>2. Untold'
    BY DEF OnceInv, Untold, RunHolds
<1>3. DrainsOnly' /\ ToldToOne'
    BY DEF OnceInv, DrainsOnly, ToldToOne
<1> QED
    BY <1>1, <1>2, <1>3 DEF OnceInv

LEMMA OnceWake ==
    ASSUME HInv, OneRunInv, OnceInv, NEW k \in Wakes, Arrive(k) \/ WakeStep(k) \/ SourceDies(k)
    PROVE  OnceInv'
<1> USE DEF HInv
<1>1. UNCHANGED <<worker, run, given, config>>
    BY DEF WakeStep, Arrive, Insert, CountQueued, Fold, AskQueue, SourceDies
<1>2. \A j \in Wakes : Kept(j) => Kept(j)'
    BY DEF WakeStep, Arrive, Insert, CountQueued, Fold, AskQueue, SourceDies, Kept, TypeOK, Source
<1>3. \A j \in Wakes : IsQueued(j)' => IsQueued(j) \/ ~Kept(j)
    <2>1. CASE Insert(k)
        BY <2>1 DEF Insert, Kept, IsQueued, TypeOK
    <2>2. CASE ~Insert(k)
        BY <2>2 DEF WakeStep, Arrive, CountQueued, Fold, AskQueue, SourceDies, IsQueued, TypeOK, Wake
    <2> QED
        BY <2>1, <2>2
<1> QED
    BY <1>1, <1>2, <1>3, OnceQuiet

LEMMA OnceSettings ==
    ASSUME HInv, OneRunInv, OnceInv, TwoSeconds \/ Expire \/ Settings \/ UNCHANGED vars
    PROVE  OnceInv'
<1> USE DEF HInv
<1>1. UNCHANGED <<worker, run, given, source>>
    BY DEF TwoSeconds, Expire, Settings, EditSettings, RoomAgain, SaveSettings, SwitchedOff, vars
<1>2. config'.live = config.live
    BY DEF TwoSeconds, Expire, Settings, EditSettings, RoomAgain, SaveSettings, SwitchedOff, vars, OneRunInv, SettingsInv
<1>3. \A k \in Wakes : IsQueued(k)' => IsQueued(k)
    BY DEF TwoSeconds, Expire, Settings, EditSettings, RoomAgain, SaveSettings, SwitchedOff, vars,
           Dropped, Become, IsQueued, TypeOK, Wake
<1> QED
    BY <1>1, <1>2, <1>3, OnceQuiet DEF Kept

\* A run that drains is the live one.
LEMMA OnceRun ==
    ASSUME NoOneCancels, HInv, OneRunInv, OnceInv, NEW r \in Runs, RunStep(r) \/ PersonActs(r)
    PROVE  OnceInv'
<1> USE DEF HInv
<1>0. UNCHANGED <<worker, source, config>>
    BY DEF RunStep, Drain, DrainClaim, DrainTell, NextStep, Finished, PersonActs
<1>1. \A k \in Wakes : Kept(k)' <=> Kept(k)
    BY <1>0 DEF Kept
<1>2. DrainsOnly /\ \A q \in Runs \ {r} : run'[q] = run[q]
    BY DEF RunStep, Drain, DrainClaim, DrainTell, NextStep, Finished, PersonActs, TypeOK, OnceInv
<1>3. CASE DrainClaim(r)
    <2>0. UNCHANGED given /\ run[r].pc = "drain"
        BY <1>2, <1>3 DEF DrainClaim, DrainsOnly
    <2>1. PICK k \in First(run[r].todo) :
            IF MayClaim(k)
            THEN /\ inbox' = Taken(k, r)
                 /\ run' = [run EXCEPT ![r].todo = @ \ {k}, ![r].won = @ \cup {k}]
            ELSE /\ run' = [run EXCEPT ![r].todo = @ \ {k}]
                 /\ UNCHANGED inbox
        BY <1>3 DEF DrainClaim
    <2>2. run'[r].pc = run[r].pc
        BY <2>1, RunType DEF TypeOK, Run
    <2>9. run \in [Runs -> Run]
        BY DEF TypeOK
    <2>3. \A j \in Wakes : RunHolds(r, j)' => RunHolds(r, j) \/ IsQueued(j)
        BY <2>1, <2>9 DEF Run, RunHolds, MayClaim, IsQueued
    <2>4. \A j \in Wakes : IsQueued(j)' => IsQueued(j)
        BY <2>1 DEF Taken, MayClaim, IsQueued, TypeOK, Wake
    <2>5. \A w \in Workers : OncePart(w)'
        BY <1>0, <1>1, <2>0, <2>4, StaysOnce DEF OnceInv
    <2>6. DrainsOnly'
        BY <1>2, <2>0, <2>2 DEF DrainsOnly
    <2>7. Untold'
        BY <1>1, <1>2, <2>0, <2>3, <2>4 DEF OnceInv, Untold, RunHolds
    <2> QED
        BY <2>0, <2>5, <2>6, <2>7 DEF OnceInv, ToldToOne
<1>4. CASE DrainTell(r)
    <2>1. /\ UNCHANGED inbox /\ run[r].pc = "drain" /\ run'[r].pc = "model" /\ run'[r].won = {}
          /\ given' = Tell(run[r].won, r) /\ \A k \in Wakes : IsQueued(k)' <=> IsQueued(k)
        BY <1>2, <1>4 DEF DrainTell, DrainsOnly, TypeOK, Run, IsQueued
    <2>2. r \in LiveRuns
        BY <2>1 DEF LiveRuns, Live
    <2>3. \A k \in Wakes : given'[k] = IF RunHolds(r, k) THEN given[k] \cup {r} ELSE given[k]
        BY <2>1 DEF Tell, RunHolds
    <2>4. \A k \in Wakes : RunHolds(r, k) => given[k] = {} /\ Kept(k) /\ ~IsQueued(k)
        BY DEF OnceInv, Untold, HeldInv, OneHolder
    <2>5. ASSUME NEW w \in Workers PROVE OncePart(w)'
        <3>1. worker[w].pc \in Reading => config.live = r
            BY <2>2 DEF OneRunInv, LiveInv, MutexInv, Reading, Marking
        <3>2. worker[w].pc \notin {"claim", "start", "unclaim"}
            BY <2>2 DEF OneRunInv, LiveInv
        <3>3. OncePart(w) /\ worker[w].batch \subseteq Wakes
            BY WorkerType DEF OnceInv
        <3> QED
            BY <1>0, <1>1, <2>1, <2>3, <3>1, <3>2, <3>3 DEF OncePart, Reading
    <2>6. DrainsOnly'
        BY <1>2, <2>1 DEF DrainsOnly
    <2>7. Untold'
        <3>1. \A k \in Wakes, q \in Runs : RunHolds(q, k)' => RunHolds(q, k) /\ q # r
            BY <1>2, <2>1 DEF RunHolds
        <3> QED
            BY <1>1, <2>1, <2>3, <2>4, <3>1 DEF OnceInv, Untold, HeldInv, OneHolder
    <2>8. ToldToOne'
        BY <2>3, <2>4 DEF OnceInv, ToldToOne
    <2> QED
        BY <2>5, <2>6, <2>7, <2>8 DEF OnceInv
<1>5. CASE Drain(r) \/ NextStep(r) \/ Finished(r) \/ PersonActs(r)
    <2>1. UNCHANGED <<inbox, given>>
        BY <1>5 DEF Drain, NextStep, Finished, PersonActs
    <2>2. run[r].won = {} /\ run'[r].won = {} /\ run'[r].pc # "drain_over"
        <3>1. CASE Drain(r) \/ NextStep(r) \/ PersonActs(r)
            <4>1. run'[r].won = run[r].won /\ run'[r].pc # "drain_over"
                BY <3>1 DEF Drain, NextStep, PersonActs, TypeOK, Run
            <4> QED
                BY <1>2, <3>1, <4>1 DEF Drain, NextStep, PersonActs, DrainsOnly
        <3>2. CASE Finished(r)
            BY <1>2, <3>2 DEF Finished, NotStarted, DrainsOnly, TypeOK
        <3> QED
            BY <1>5, <3>1, <3>2
    <2>3. \A w \in Workers : OncePart(w)'
        BY <1>0, <1>1, <2>1, StaysOnce DEF OnceInv, IsQueued
    <2>4. DrainsOnly'
        BY <1>2, <2>2 DEF DrainsOnly
    <2>5. Untold'
        BY <1>1, <1>2, <2>1, <2>2 DEF OnceInv, Untold, RunHolds, IsQueued
    <2> QED
        BY <2>1, <2>3, <2>4, <2>5 DEF OnceInv, ToldToOne
<1> QED
    BY <1>3, <1>4, <1>5 DEF RunStep

LEMMA OnceWorker ==
    ASSUME NoOneCancels, HInv, OneRunInv, OnceInv, NEW w \in Workers, WorkerStep(w)
    PROVE  OnceInv'
<1> USE DEF HInv
<1>0. OthersStay(w) /\ \A k \in Wakes : Kept(k)' <=> Kept(k)
    BY WorkerMovesAlone DEF Kept
<1>1. CASE TakeJob(w)
    <2>1. UNCHANGED <<run, inbox, given, config>> /\ worker[w].pc = "idle"
        BY <1>1 DEF TakeJob, At
    <2>2. \A v \in Workers : worker'[v] = worker[v] \/ worker'[v].pc = "agent"
        BY <1>0, <1>1, ReadingMoves DEF OthersStay, MovesTo, Becomes
    <2>3. \A v \in Workers : OncePart(v)'
        BY <1>0, <2>1, <2>2, StaysOnce DEF OnceInv, OncePart, IsQueued
    <2>4. DrainsOnly' /\ Untold' /\ ToldToOne'
        BY <1>0, <2>1 DEF OnceInv, DrainsOnly, Untold, ToldToOne, IsQueued, RunHolds
    <2> QED
        BY <2>3, <2>4 DEF OnceInv
<1>2. ASSUME ~TakeJob(w) PROVE OnceInv'
    \* Everyone else is idle.
    <2>0. \A v \in Workers \ {w} : OncePart(v)'
        <3>1. worker[w].pc # "idle"
            BY <1>2 DEF WorkerStep, ReadAgent, ReadInbox, CheckLive, Claim, Claimed, Answer, StartRun,
               StartRefused, ConversationGone, Unclaim, MarkWakes, Reread, SaveLive, MustPause, Drop, Unlock, DeleteLock, At
        <3>2. \A v \in Workers \ {w} : worker'[v].pc = "idle"
            BY <3>1, <1>0 DEF OneRunInv, MutexInv, OthersStay
        <3> QED
            BY <3>2 DEF OncePart
    <2>1. ASSUME OncePart(w)', UNCHANGED <<run, given>>, \A k \in Wakes : IsQueued(k)' => IsQueued(k)
          PROVE  OnceInv'
        BY <1>0, <2>0, <2>1 DEF OnceInv, DrainsOnly, Untold, ToldToOne, RunHolds
    <2>2. /\ OncePart(w) /\ worker[w].batch \subseteq Wakes /\ worker[w].won \subseteq Wakes
          /\ worker[w].pc \in Reading => worker[w].seen = config
        BY WorkerType DEF OnceInv, OneRunInv, SettingsInv
    <2>3. CASE ReadInbox(w)
        <3>1. UNCHANGED <<run, inbox, given, config>>
            BY <2>3 DEF ReadInbox
        <3>2. worker'[w].pc = "unlock" \/ (worker'[w].pc = "live" /\ worker'[w].batch \subseteq Queued)
            BY <2>3, ReadingMoves DEF StartsOver, Becomes
        <3>3. \A k \in Queued : given[k] = {} /\ Kept(k) /\ k \in Wakes
            BY DEF Queued, IsQueued, OnceInv, Untold, HeldInv, OneHolder
        <3>4. OncePart(w)'
            BY <1>0, <3>1, <3>2, <3>3 DEF OncePart
        <3> QED
            BY <2>1, <3>1, <3>4 DEF IsQueued
    <2>4. CASE CheckLive(w)
        <3>1. UNCHANGED <<run, inbox, given, config>> /\ worker[w].pc = "live" /\ worker[w].won = {}
            BY <2>4 DEF CheckLive, At, HeldInv, NothingWonYet
        <3>2. \/ worker'[w].pc = "unlock"
              \/ worker'[w].pc = "claim" /\ worker'[w].won = {}
              \/ /\ worker'[w].pc = "claim_answer" /\ worker'[w].batch \subseteq worker[w].batch
                 /\ worker'[w].todo = worker'[w].batch /\ worker'[w].run = worker[w].seen.live
            BY <2>4, <3>1, LiveMoves DEF StartsOver, Becomes
        <3>3. OncePart(w)'
            BY <1>0, <2>2, <3>1, <3>2 DEF OncePart, Reading
        <3> QED
            BY <2>1, <3>1, <3>3 DEF IsQueued
    <2>5. CASE Claim(w)
        <3>1. UNCHANGED <<run, given, config>> /\ worker[w].pc \in {"claim", "claim_answer"}
            BY <2>5 DEF Claim
        <3>2. PICK k \in worker[w].todo :
                /\ k \in Wakes /\ ~IsQueued(k)' /\ \A j \in Wakes \ {k} : inbox'[j] = inbox[j]
                /\ worker'[w].pc = worker[w].pc /\ worker'[w].batch = worker[w].batch
                /\ worker'[w].todo = worker[w].todo \ {k} /\ worker'[w].run = worker[w].run
                /\ worker'[w].won = IF IsQueued(k) THEN worker[w].won \cup {k} ELSE worker[w].won
            BY <2>5, ClaimMoves DEF Becomes, IsQueued
        <3>3. \A j \in Wakes : IsQueued(j)' => IsQueued(j)
            BY <3>2 DEF IsQueued
        <3>4. IsQueued(k) => given[k] = {}
            BY <3>2 DEF OnceInv, Untold
        <3>5. OncePart(w)'
            BY <1>0, <2>2, <3>1, <3>2, <3>3, <3>4 DEF OncePart
        <3> QED
            BY <2>1, <3>1, <3>3, <3>5
    <2>6. CASE Claimed(w)
        <3>1. UNCHANGED <<run, inbox, given, config>> /\ worker[w].todo = {}
            BY <2>6 DEF Claimed
        <3>2. OncePart(w)'
            BY <1>0, <2>2, <2>6, <3>1, ClaimedMoves DEF MovesTo, StartsOver, Becomes, OncePart, IsQueued
        <3> QED
            BY <2>1, <3>1, <3>2 DEF IsQueued
    <2>7. CASE Answer(w)
        <3> DEFINE r == worker[w].run
        <3>1. UNCHANGED <<inbox, config>> /\ worker[w].pc = "answer"
            BY <2>7 DEF Answer, At
        <3>2. /\ OncePart(w)' /\ r \in Runs /\ \A q \in Runs : run'[q].won = run[q].won
              /\ \/ /\ run[r].pc = "asks" /\ run'[r].pc = "step"
                    /\ \A q \in Runs : q # r => run'[q] = run[q]
                    /\ given' = Tell(worker[w].batch, r)
                 \/ UNCHANGED <<run, given>>
            BY <2>7, AnswerMoves DEF StartsOver, Becomes, OncePart, HeldInv
        <3> HIDE DEF r
        <3>3. CASE UNCHANGED <<run, given>>
            BY <2>1, <3>1, <3>2, <3>3 DEF IsQueued
        <3>4. CASE /\ run[r].pc = "asks" /\ run'[r].pc = "step"
                   /\ \A q \in Runs : q # r => run'[q] = run[q]
                   /\ given' = Tell(worker[w].batch, r)
            <4>1. r = config.live /\ \A k \in worker[w].batch : Kept(k) /\ given[k] \subseteq {r} /\ ~IsQueued(k)
                BY <2>2, <3>1 DEF OncePart, r
            <4>2. \A k \in Wakes, q \in Runs : RunHolds(q, k) => k \notin worker[w].batch
                <5> SUFFICES ASSUME NEW k \in Wakes, NEW q \in Runs, RunHolds(q, k), k \in worker[w].batch PROVE FALSE
                    OBVIOUS
                <5>1. run[q].pc = "drain"
                    BY DEF RunHolds, OnceInv, DrainsOnly
                <5>2. q \in LiveRuns
                    BY <5>1 DEF LiveRuns, Live
                <5>3. config.live = q
                    BY <3>1, <5>2 DEF OneRunInv, LiveInv, MutexInv, Marking
                <5> QED
                    BY <3>4, <4>1, <5>1, <5>3
            <4>3. \A k \in Wakes : given'[k] = IF k \in worker[w].batch THEN given[k] \cup {r} ELSE given[k]
                BY <3>4 DEF Tell
            <4>4. Untold'
                BY <1>0, <3>1, <3>2, <4>1, <4>2, <4>3 DEF OnceInv, Untold, IsQueued, RunHolds
            <4>5. ToldToOne'
                <5>1. \A k \in worker[w].batch : given[k] \cup {r} = {r}
                    BY <4>1
                <5>2. \A k \in Wakes : given'[k] = {r} \/ given'[k] = given[k]
                    BY <4>3, <5>1
                <5> QED
                    BY <5>2 DEF OnceInv, ToldToOne
            <4>6. DrainsOnly'
                BY <3>2, <3>4 DEF OnceInv, DrainsOnly
            <4> QED
                BY <2>0, <3>2, <4>4, <4>5, <4>6 DEF OnceInv
        <3> QED
            BY <3>2, <3>3, <3>4
    <2>8. CASE StartRun(w)
        <3>1. PICK r \in Runs :
                /\ run[r].pc = None /\ given' = Tell(worker[w].won, r)
                /\ run'[r].pc = "step" /\ run'[r].won = run[r].won
                /\ \A q \in Runs \ {r} : run'[q] = run[q]
                /\ worker'[w].pc = "mark"
            BY <2>8, StartMoves DEF Becomes
        <3>2. UNCHANGED inbox /\ worker[w].pc = "start"
            BY <2>8 DEF StartRun, At
        <3>3. \A k \in worker[w].won : /\ given[k] = {} /\ ~IsQueued(k) /\ Kept(k)
                                       /\ \A q \in Runs : ~RunHolds(q, k)
            BY <2>2, <3>2 DEF OncePart, HeldInv, OneHolder, WorkerHolds, HoldingPc
        <3>4. \A k \in Wakes : given'[k] = IF k \in worker[w].won THEN given[k] \cup {r} ELSE given[k]
            BY <3>1 DEF Tell
        <3>5. \A k \in Wakes, q \in Runs : RunHolds(q, k)' <=> RunHolds(q, k)
            BY <3>1 DEF RunHolds
        <3>6. Untold'
            BY <1>0, <3>2, <3>3, <3>4, <3>5 DEF OnceInv, Untold, IsQueued
        <3>7. ToldToOne'
            BY <3>3, <3>4 DEF OnceInv, ToldToOne
        <3>8. DrainsOnly' /\ OncePart(w)'
            BY <3>1 DEF OnceInv, DrainsOnly, OncePart, None
        <3> QED
            BY <2>0, <3>6, <3>7, <3>8 DEF OnceInv
    <2>9. CASE Unclaim(w)
        <3>1. UNCHANGED <<run, given>> /\ worker[w].pc = "unclaim" /\ worker'[w].pc = "unlock"
            BY <2>9, GoingMoves DEF Unclaim, At, StartsOver, Becomes
        <3>2. \A k \in Wakes : IsQueued(k)' => IsQueued(k) \/ given[k] = {}
            BY <2>2, <2>9, <3>1 DEF Unclaim, Become, IsQueued, OncePart
        <3>3. Untold'
            BY <1>0, <3>1, <3>2 DEF OnceInv, Untold, RunHolds
        <3>4. DrainsOnly' /\ ToldToOne' /\ OncePart(w)'
            BY <3>1 DEF OnceInv, DrainsOnly, ToldToOne, OncePart
        <3> QED
            BY <2>0, <3>3, <3>4 DEF OnceInv
    <2>10. CASE \/ ReadAgent(w) \/ Reread(w) \/ MarkWakes(w) \/ SaveLive(w) \/ MustPause(w) \/ Drop(w)
                \/ StartRefused(w) \/ Unlock(w) \/ DeleteLock(w) \/ ConversationGone(w)
        <3>1. UNCHANGED <<run, given>>
            BY <2>10 DEF ReadAgent, Reread, MarkWakes, SaveLive, MustPause, Drop, StartRefused, Unlock, DeleteLock,
                         ConversationGone
        <3>2. \A k \in Wakes : IsQueued(k)' => IsQueued(k)
            <4>1. CASE UNCHANGED inbox
                BY <4>1 DEF IsQueued
            <4>2. CASE MarkWakes(w)
                BY <4>2 DEF MarkWakes, IsQueued, TypeOK, Wake
            <4>3. CASE Drop(w) \/ StartRefused(w)
                BY <4>3 DEF Drop, StartRefused, Dropped, Become, IsQueued
            <4> QED
                BY <2>10, <4>1, <4>2, <4>3 DEF ReadAgent, Reread, SaveLive, MustPause, Unlock, DeleteLock, ConversationGone
        <3>3. OncePart(w)'
            <4>1. CASE ReadAgent(w) \/ Reread(w)
                BY <4>1, ReadingMoves DEF Becomes, OncePart
            <4>2. CASE ConversationGone(w)
                <5>1. worker'[w].pc = "unclaim" /\ worker'[w].won = worker[w].won /\ worker[w].pc = "start"
                    BY <4>2, GoingMoves DEF ConversationGone, At, MovesTo, Becomes
                <5> QED
                    BY <2>2, <3>1, <5>1 DEF OncePart
            <4>3. CASE MarkWakes(w) \/ SaveLive(w) \/ MustPause(w) \/ Drop(w) \/ StartRefused(w) \/ Unlock(w) \/ DeleteLock(w)
                BY <4>3, GoingMoves DEF StartsOver, MovesTo, Becomes, OncePart
            <4> QED
                BY <2>10, <4>1, <4>2, <4>3
        <3> QED
            BY <2>1, <3>1, <3>2, <3>3
    <2> QED
        BY <1>2, <2>3, <2>4, <2>5, <2>6, <2>7, <2>8, <2>9, <2>10 DEF WorkerStep
<1> QED
    BY <1>1, <1>2

LEMMA OnceNext ==
    ASSUME NoOneCancels, HInv, OneRunInv, OnceInv, [Next]_vars
    PROVE  OnceInv'
<1>1. ASSUME NEW k \in Wakes, Arrive(k) \/ WakeStep(k) \/ SourceDies(k)
      PROVE  OnceInv'
    BY <1>1, OnceWake
<1>2. ASSUME NEW w \in Workers, WorkerStep(w) \/ WorkerDies(w)
      PROVE  OnceInv'
    BY <1>2, OnceWorker DEF WorkerDies, NoOneCancels, Calm
<1>3. ASSUME NEW r \in Runs, RunStep(r) \/ PersonActs(r) \/ CancelRun(r) \/ StepDies(r)
      PROVE  OnceInv'
    BY <1>3, OnceRun DEF CancelRun, StepDies, NoOneCancels, Calm
<1> QED
    BY <1>1, <1>2, <1>3, OnceSettings DEF Next, Settings

\* Under the same hypotheses, and while nobody cancels a run, a wake is told to
\* one run: the one started for it, the one whose step found it, or the one it
\* answers.
THEOREM ToldOnce ==
    ASSUME Faults \cap {"slow", "crash", "edit", "switch", "cancel"} = {}
    PROVE  Spec => []WakeToldOnce
<1>0. NoOneCancels /\ Calm
    BY DEF NoOneCancels, Calm
<1>1. Init => OnceInv
    <2> SUFFICES ASSUME Init PROVE OnceInv
        OBVIOUS
    <2>1. \A w \in Workers : worker[w].pc = "idle"
        BY DEF Init, Idle
    <2>2. \A k \in Wakes : given[k] = {}
        BY DEF Init
    <2>3. \A r \in Runs : run[r].won = {} /\ run[r].pc = None
        BY DEF Init, NotStarted
    <2> QED
        BY <2>1, <2>2, <2>3 DEF OnceInv, OncePart, DrainsOnly, Untold, ToldToOne, None
<1>2. HInv /\ OneRunInv /\ OnceInv /\ [Next]_vars => OnceInv'
    BY <1>0, OnceNext
<1>3. OnceInv => WakeToldOnce
    <2> SUFFICES ASSUME OnceInv, NEW k \in Wakes PROVE Cardinality(given[k]) <= 1
        BY DEF WakeToldOnce
    <2>1. ASSUME given[k] # {} PROVE \E r : given[k] = {r}
        <3>1. PICK r \in given[k] : TRUE
            BY <2>1
        <3>2. given[k] = {r}
            BY <3>1 DEF OnceInv, ToldToOne
        <3> QED
            BY <3>2
    <2>2. Cardinality(given[k]) \in {0, 1}
        BY <2>1, FS_EmptySet, FS_Singleton
    <2> QED
        BY <2>2
<1> QED
    BY <1>0, <1>1, <1>2, <1>3, AlwaysHInv, AlwaysOneRunInv, PTL DEF Spec
=============================================================================
