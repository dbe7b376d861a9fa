--------------------------- MODULE StandingThread ---------------------------
(***************************************************************************)
(* An always-on agent (AlwaysOnService).  Everything that wakes it is a row *)
(* of its inbox and a job on the queue; a job turns the queued wakes into a *)
(* run on the agent's standing thread, or leaves them to the run that is   *)
(* going on, whose next step drains them (drainInto).  Which run that is    *)
(* stands in the agent's settings (alwaysOn.liveRunId), a JSON column that *)
(* the worker, the owner and the capacity check each read and later save   *)
(* whole.                                                                  *)
(*                                                                         *)
(* An action is one statement of the database or of Redis, or a call.      *)
(***************************************************************************)
EXTENDS Naturals, FiniteSets

CONSTANTS Workers,   \* queue slots that take always-on-wake jobs
          MaxWakes,  \* bound: wakes that ever arrive
          MaxRuns,   \* bound: runs ever started
          MaxSteps,  \* bound: steps of a run
          MaxNudges, \* bound: jobs told apart while they wait
          MaxEdits,  \* bound: saves of the settings by the owner
          OwnerWakes,\* the wakes that carry the owner's own words
          Passive,   \* the wakes that wait for another one (no job is queued)
          MaxQueued, \* MAX_QUEUED_WAKES
          MaxPerRun, \* MAX_WAKES_PER_RUN
          Faults     \* what the environment may do, a subset of AllFaults

AllFaults == {"slow",      \* a worker outlives its lock
              "crash",     \* a process dies
              "fail",      \* startRun refuses
              "gone",      \* the standing conversation was erased
              "pause",     \* the plan, the hourly cap or the owner's access stop it
              "asks",      \* a run waits for an answer or an approval
              "cancel",    \* somebody cancels a run
              "edit",      \* the owner changes the settings and leaves it on
              "switch"}    \* the owner switches it off and on

Wakes == 1..MaxWakes
Runs == 1..MaxRuns
NoRun == 0
None == "none"
Orphan == "orphan" \* the lock of a process that died

ASSUME StandingAssumption ==
    /\ None \notin Workers /\ Orphan \notin Workers /\ "waiting" \notin Workers
    /\ MaxWakes \in Nat /\ MaxRuns \in Nat /\ MaxSteps \in Nat /\ MaxEdits \in Nat
    /\ MaxNudges \in Nat \ {0} /\ MaxQueued \in Nat \ {0} /\ MaxPerRun \in Nat \ {0}
    /\ OwnerWakes \subseteq Wakes /\ Passive \subseteq Wakes
    /\ Faults \subseteq AllFaults

VARIABLES config, \* agents.alwaysOn
          inbox,  \* agent_wakes
          source, \* who writes a wake: where wake() is
          nudges, \* always-on-wake jobs that wait
          bucket, \* which job has the id of the present two seconds
          lock,   \* the Redis lock
          worker, \* where process() is in each slot, and what it has read
          run,    \* the runs of the thread
          owner,  \* a change of the settings under way
          given,  \* history: the runs that were told of a wake
          missed  \* history: the last job asked for was dropped for one that
                  \* had read the inbox, and no other waited
vars == <<config, inbox, source, nudges, bucket, lock, worker, run, owner, given, missed>>

-----------------------------------------------------------------------------
Config == [on : BOOLEAN,
           why : {None, "capacity", "other"}, \* pausedReason
           live : Runs \cup {NoRun},          \* liveRunId
           thread : BOOLEAN]                  \* standingConversationId is set

Wake == [status : {None, "queued", "consumed", "coalesced", "dropped"}, by : Runs \cup {NoRun}]

Source == [pc : {"out", "insert", "count", "fold", "nudge", "done"}, oldest : SUBSET Wakes]

WorkerPc == {"idle", "agent", "inbox", "live", "claim_answer", "answer", "claim", "start", "mark",
             "reread", "save", "unclaim", "drop", "unlock", "del"}
Worker == [pc : WorkerPc,
           seen : Config,       \* the agent as it was read
           batch : SUBSET Wakes,\* the queued wakes it found
           todo : SUBSET Wakes, \* those it has yet to claim
           won : SUBSET Wakes,
           run : Runs \cup {NoRun}]

Live == {"step", "drain", "model", "asks", "held"}
Run == [pc : Live \cup {None, "drain_over", "ending", "over"}, left : 0..MaxSteps,
        todo : SUBSET Wakes, won : SUBSET Wakes]

Fresh == [on |-> TRUE, why |-> None, live |-> NoRun, thread |-> FALSE]
Idle == [pc |-> "idle", seen |-> Fresh,
         batch |-> {}, todo |-> {}, won |-> {}, run |-> NoRun]
NotStarted == [pc |-> None, left |-> 0, todo |-> {}, won |-> {}]

Init ==
    /\ config = Fresh
    /\ inbox = [k \in Wakes |-> [status |-> None, by |-> NoRun]]
    /\ source = [k \in Wakes |-> [pc |-> "out", oldest |-> {}]]
    /\ nudges = 0
    /\ bucket = None
    /\ lock = None
    /\ worker = [w \in Workers |-> Idle]
    /\ run = [r \in Runs |-> NotStarted]
    /\ owner = [pc |-> "idle", was |-> FALSE, next |-> Fresh, edits |-> 0]
    /\ given = [k \in Wakes |-> {}]
    /\ missed = FALSE

Queued == {k \in Wakes : inbox[k].status = "queued"}

\* The n oldest of a set of wakes (order: createdAt, take: n).
Oldest(S, n) == {k \in S : Cardinality({j \in S : j < k}) < n}
First(S) == {k \in S : \A j \in S : k <= j}

More == IF nudges < MaxNudges THEN nudges + 1 ELSE nudges

\* enqueueProcess: jobs of the same two seconds share an id, and Bull adds no
\* second one while the first waits or runs, also when the one that runs has
\* looked at the inbox, or asks itself.
Deaf == nudges = 0 /\ bucket \in Workers /\ worker[bucket].pc \notin {"agent", "inbox"}

Nudge ==
    IF bucket = None
    THEN nudges' = More /\ bucket' = "waiting" /\ missed' = FALSE
    ELSE missed' = (missed \/ Deaf) /\ UNCHANGED <<nudges, bucket>>

NoNudge == UNCHANGED <<nudges, bucket, missed>>

\* Two seconds are over.
TwoSeconds ==
    /\ bucket # None
    /\ bucket' = None
    /\ UNCHANGED <<config, inbox, source, nudges, lock, worker, run, owner, given, missed>>

-----------------------------------------------------------------------------
\* wake()

\* A wake for an agent that is not always on is not kept.
Arrive(k) ==
    /\ source[k].pc = "out"
    /\ \A j \in Wakes : j < k => source[j].pc # "out"
    /\ source' = [source EXCEPT ![k].pc = IF config.on THEN "insert" ELSE "done"]
    /\ UNCHANGED <<config, inbox, nudges, bucket, lock, worker, run, owner, given, missed>>

Insert(k) ==
    /\ source[k].pc = "insert"
    /\ inbox' = [inbox EXCEPT ![k].status = "queued"]
    /\ source' = [source EXCEPT ![k].pc = "count"]
    /\ UNCHANGED <<config, nudges, bucket, lock, worker, run, owner, given, missed>>

\* coalesceOverflow counts the queued wakes and finds the oldest,
CountQueued(k) ==
    LET over == IF Cardinality(Queued) > MaxQueued THEN Cardinality(Queued) - MaxQueued ELSE 0
    IN /\ source[k].pc = "count"
       /\ source' = [source EXCEPT ![k] = [pc |-> IF over > 0 THEN "fold" ELSE "nudge",
                                           oldest |-> Oldest(Queued, over)]]
       /\ UNCHANGED <<config, inbox, nudges, bucket, lock, worker, run, owner, given, missed>>

\* and folds them away by id, whatever became of them.
Fold(k) ==
    /\ source[k].pc = "fold"
    /\ inbox' = [j \in Wakes |-> IF j \in source[k].oldest
                                 THEN [inbox[j] EXCEPT !.status = "coalesced"] ELSE inbox[j]]
    /\ source' = [source EXCEPT ![k] = [pc |-> "nudge", oldest |-> {}]]
    /\ UNCHANGED <<config, nudges, bucket, lock, worker, run, owner, given, missed>>

NudgeFor_OwnerOnly(k) == IF k \notin OwnerWakes THEN NoNudge ELSE Nudge \* mutant
NudgeFor(k) == IF k \in Passive THEN NoNudge ELSE Nudge

AskQueue(k) ==
    /\ source[k].pc = "nudge"
    /\ NudgeFor(k)
    /\ source' = [source EXCEPT ![k].pc = "done"]
    /\ UNCHANGED <<config, inbox, lock, worker, run, owner, given>>

\* The process dies between two statements; the sender's redelivery finds the
\* wake (dedupeKey) and asks for no job.
SourceDies(k) ==
    /\ "crash" \in Faults
    /\ source[k].pc \in {"insert", "count", "fold", "nudge"}
    /\ source' = [source EXCEPT ![k] = [pc |-> "done", oldest |-> {}]]
    /\ UNCHANGED <<config, inbox, nudges, bucket, lock, worker, run, owner, given, missed>>

-----------------------------------------------------------------------------
\* process()

At(w, p) == worker[w].pc = p
Go(w, p) == worker' = [worker EXCEPT ![w].pc = p]
Leave(w) == worker' = [worker EXCEPT ![w] = [Idle EXCEPT !.pc = "unlock"]]

\* A slot takes a job and the lock; one that finds it locked leaves a job for
\* three seconds later.
LockFree_Always == TRUE \* mutant
LockFree == lock = None

TakeJob(w) ==
    LET Other == IF bucket # "waiting" \/ nudges > 1 THEN {bucket} ELSE {} \* an older job
        This(b) == IF bucket = "waiting" THEN {b} ELSE {}
    IN
    /\ At(w, "idle")
    /\ nudges > 0
    /\ IF LockFree
       THEN /\ lock' = w
            /\ Go(w, "agent")
            /\ nudges' = nudges - 1
            /\ bucket' \in This(w) \cup Other
       ELSE /\ bucket' \in This(None) \cup Other
            /\ UNCHANGED <<lock, worker, nudges>>
    /\ UNCHANGED <<config, inbox, source, run, owner, given, missed>>

ReadAgent(w) ==
    /\ At(w, "agent")
    /\ worker' = [worker EXCEPT ![w].seen = config, ![w].pc = IF config.on THEN "inbox" ELSE "drop"]
    /\ UNCHANGED <<config, inbox, source, nudges, bucket, lock, run, owner, given, missed>>

ReadInbox(w) ==
    LET found == Oldest(Queued, MaxPerRun)
    IN /\ At(w, "inbox")
       /\ IF found = {} THEN Leave(w)
          ELSE worker' = [worker EXCEPT ![w].batch = found, ![w].pc = "live"]
       /\ UNCHANGED <<config, inbox, source, nudges, bucket, lock, run, owner, given, missed>>

IsLive(r) == r # NoRun /\ run[r].pc \in Live

\* liveRun: the run the settings name.  One that waits for an answer gets the
\* owner's words; to any other the wakes are left.
CheckLive(w) ==
    LET r == worker[w].seen.live
        words == worker[w].batch \cap OwnerWakes
    IN /\ At(w, "live")
       /\ IF ~IsLive(r)
          THEN worker' = [worker EXCEPT ![w].pc = "claim", ![w].todo = worker[w].batch]
          ELSE IF run[r].pc = "asks" /\ words # {}
          THEN worker' = [worker EXCEPT ![w].pc = "claim_answer", ![w].todo = words,
                                        ![w].batch = words, ![w].run = r]
          ELSE Leave(w)
       /\ UNCHANGED <<config, inbox, source, nudges, bucket, lock, run, owner, given, missed>>

\* claim: each wake by compare-and-set, so that of two who read it one has it.
Taken(k, r) == [inbox EXCEPT ![k] = [status |-> "consumed", by |-> IF r = NoRun THEN @.by ELSE r]]
MayClaim_Always(k) == TRUE \* mutant
MayClaim(k) == inbox[k].status = "queued"

Claim(w) ==
    /\ worker[w].pc \in {"claim", "claim_answer"}
    /\ \E k \in First(worker[w].todo) :
        IF MayClaim(k)
        THEN /\ inbox' = Taken(k, worker[w].run)
             /\ worker' = [worker EXCEPT ![w].todo = @ \ {k}, ![w].won = @ \cup {k}]
        ELSE /\ worker' = [worker EXCEPT ![w].todo = @ \ {k}]
             /\ UNCHANGED inbox
    /\ UNCHANGED <<config, source, nudges, bucket, lock, run, owner, given, missed>>

Claimed(w) ==
    /\ worker[w].pc \in {"claim", "claim_answer"}
    /\ worker[w].todo = {}
    /\ IF At(w, "claim_answer") THEN Go(w, "answer")
       ELSE IF worker[w].won # {} THEN Go(w, "start") ELSE Leave(w)
    /\ UNCHANGED <<config, inbox, source, nudges, bucket, lock, run, owner, given, missed>>

Tell(S, r) == [k \in Wakes |-> IF k \in S THEN given[k] \cup {r} ELSE given[k]]

\* sendInput: every message that was read goes, won or not; a run that no
\* longer waits refuses, and Bull tries the job again (or has given up).
Answer(w) ==
    LET r == worker[w].run
    IN /\ At(w, "answer")
       /\ Leave(w)
       /\ IF run[r].pc = "asks"
          THEN /\ run' = [run EXCEPT ![r].pc = "step"]
               /\ given' = Tell(worker[w].batch, r)
               /\ UNCHANGED nudges
          ELSE /\ nudges' \in {nudges, More}
               /\ UNCHANGED <<run, given>>
       /\ UNCHANGED <<config, inbox, source, bucket, lock, owner, missed>>

StartRun(w) ==
    /\ At(w, "start")
    /\ \E r \in Runs :
        /\ run[r].pc = None
        /\ \A q \in Runs : q < r => run[q].pc # None
        /\ run' = [run EXCEPT ![r].pc = "step", ![r].left = MaxSteps]
        /\ worker' = [worker EXCEPT ![w].pc = "mark", ![w].run = r, ![w].batch = {}]
        /\ given' = Tell(worker[w].won, r)
    /\ UNCHANGED <<config, inbox, source, nudges, bucket, lock, owner, missed>>

Become(S, wake) == [k \in Wakes |-> IF k \in S THEN wake ELSE inbox[k]]

StartRefused(w) ==
    /\ "fail" \in Faults
    /\ At(w, "start")
    /\ inbox' = Become(worker[w].won, [status |-> "dropped", by |-> NoRun])
    /\ Leave(w)
    /\ UNCHANGED <<config, source, nudges, bucket, lock, run, owner, given, missed>>

\* The settings as they were read are saved, without the conversation,
ConversationGone(w) ==
    /\ "gone" \in Faults
    /\ At(w, "start")
    /\ worker[w].seen.thread
    /\ config' = [worker[w].seen EXCEPT !.thread = FALSE]
    /\ Go(w, "unclaim")
    /\ UNCHANGED <<inbox, source, nudges, bucket, lock, run, owner, given, missed>>

\* the wakes are queued again, and a job asked for (of this very job's id,
\* unless two seconds have passed).
Unclaim_Forgets(w) == \* mutant
    /\ At(w, "unclaim")
    /\ Nudge
    /\ Leave(w)
    /\ UNCHANGED <<config, inbox, source, lock, run, owner, given>>
Unclaim(w) ==
    /\ At(w, "unclaim")
    /\ inbox' = Become(worker[w].won, [status |-> "queued", by |-> NoRun])
    /\ Nudge
    /\ Leave(w)
    /\ UNCHANGED <<config, source, lock, run, owner, given>>

MarkWakes(w) ==
    /\ At(w, "mark")
    /\ inbox' = [k \in Wakes |-> IF k \in worker[w].won THEN [inbox[k] EXCEPT !.by = worker[w].run]
                                 ELSE inbox[k]]
    /\ Go(w, "reread")
    /\ UNCHANGED <<config, source, nudges, bucket, lock, run, owner, given, missed>>

\* The settings are read again,
Reread(w) ==
    /\ At(w, "reread")
    /\ worker' = [worker EXCEPT ![w].seen = config, ![w].pc = "save"]
    /\ UNCHANGED <<config, inbox, source, nudges, bucket, lock, run, owner, given, missed>>

\* and saved with the run's id.
SaveLive(w) ==
    /\ At(w, "save")
    /\ config' = [worker[w].seen EXCEPT !.live = worker[w].run, !.thread = TRUE]
    /\ Leave(w)
    /\ UNCHANGED <<inbox, source, nudges, bucket, lock, run, owner, given, missed>>

\* The plan has no room, the hourly cap is met, or the owner or the agent may
\* not run: the settings as they were read are saved switched off.
MustPause(w) ==
    /\ "pause" \in Faults
    /\ worker[w].pc \in {"inbox", "claim"}
    /\ worker[w].todo = worker[w].batch
    /\ \E why \in IF At(w, "inbox") THEN {"capacity"} ELSE {"other"} :
        config' = [worker[w].seen EXCEPT !.on = FALSE, !.why = why]
    /\ Go(w, "drop")
    /\ UNCHANGED <<inbox, source, nudges, bucket, lock, run, owner, given, missed>>

Dropped == Become(Queued, [status |-> "dropped", by |-> NoRun])

Drop(w) ==
    /\ At(w, "drop")
    /\ inbox' = Dropped
    /\ Leave(w)
    /\ UNCHANGED <<config, source, nudges, bucket, lock, run, owner, given, missed>>

\* unlock: get, and del when the token is its own; the job is done.
Return(w) ==
    /\ worker' = [worker EXCEPT ![w] = Idle]
    /\ bucket' = IF bucket = w THEN None ELSE bucket

Unlock(w) ==
    /\ At(w, "unlock")
    /\ IF lock = w THEN Go(w, "del") /\ UNCHANGED bucket ELSE Return(w)
    /\ UNCHANGED <<config, inbox, source, nudges, lock, run, owner, given, missed>>

DeleteLock(w) ==
    /\ At(w, "del")
    /\ lock' = None
    /\ Return(w)
    /\ UNCHANGED <<config, inbox, source, nudges, run, owner, given, missed>>

\* The lock expires: of a process that died, or under one that is slow.
Expire ==
    /\ lock = Orphan \/ ("slow" \in Faults /\ lock # None)
    /\ lock' = None
    /\ UNCHANGED <<config, inbox, source, nudges, bucket, worker, run, owner, given, missed>>

\* A worker dies; Bull starts a stalled job again, or has done so before.
WorkerDies(w) ==
    /\ "crash" \in Faults
    /\ ~At(w, "idle")
    /\ Return(w)
    /\ lock' = IF lock = w THEN Orphan ELSE lock
    /\ nudges' \in {nudges, More}
    /\ UNCHANGED <<config, inbox, source, run, owner, given, missed>>

-----------------------------------------------------------------------------
\* The runs of the thread (DurableRun has their steps in detail)

\* drainInto, before the model is asked: the queued wakes are read, claimed
\* one by one, and told as one message.
Drain(r) ==
    LET found == Oldest(Queued, MaxPerRun)
    IN /\ run[r].pc = "step"
       /\ run' = [run EXCEPT ![r].pc = IF found = {} THEN "model" ELSE "drain", ![r].todo = found]
       /\ UNCHANGED <<config, inbox, source, nudges, bucket, lock, worker, owner, given, missed>>

DrainClaim(r) ==
    /\ run[r].pc \in {"drain", "drain_over"}
    /\ \E k \in First(run[r].todo) :
        IF MayClaim(k)
        THEN /\ inbox' = Taken(k, r)
             /\ run' = [run EXCEPT ![r].todo = @ \ {k}, ![r].won = @ \cup {k}]
        ELSE /\ run' = [run EXCEPT ![r].todo = @ \ {k}]
             /\ UNCHANGED inbox
    /\ UNCHANGED <<config, source, nudges, bucket, lock, worker, owner, given, missed>>

DrainTell(r) ==
    /\ run[r].pc \in {"drain", "drain_over"}
    /\ run[r].todo = {}
    /\ given' = Tell(run[r].won, r)
    /\ run' = [run EXCEPT ![r].pc = IF @ = "drain" THEN "model" ELSE "ending", ![r].won = {}]
    /\ UNCHANGED <<config, inbox, source, nudges, bucket, lock, worker, owner, missed>>

\* A step ends: the run goes on, waits for a person, or is over.
MayGoOn(r) == run[r].left > 0

NextStep(r) ==
    /\ run[r].pc = "model"
    /\ \/ /\ MayGoOn(r)
          /\ run' = [run EXCEPT ![r].pc = "step", ![r].left = @ - 1]
       \/ /\ "asks" \in Faults
          /\ MayGoOn(r)
          /\ \E how \in {"asks", "held"} : run' = [run EXCEPT ![r].pc = how, ![r].left = @ - 1]
       \/ run' = [run EXCEPT ![r].pc = "ending"]
    /\ UNCHANGED <<config, inbox, source, nudges, bucket, lock, worker, owner, given, missed>>

\* Somebody answers on the run's page, or decides its approval.
PersonActs(r) ==
    /\ run[r].pc \in {"asks", "held"}
    /\ \E next \in {"step"} \cup (IF run[r].pc = "held" THEN {"ending"} ELSE {}) :
        run' = [run EXCEPT ![r].pc = next]
    /\ UNCHANGED <<config, inbox, source, nudges, bucket, lock, worker, owner, given, missed>>

\* cancelRun: a step that is under way ends, and hands the run on; a run that
\* waits has none.
CancelRun(r) ==
    /\ "cancel" \in Faults
    /\ run[r].pc \in Live
    /\ run' = [run EXCEPT ![r].pc = CASE @ = "drain" -> "drain_over"
                                      [] @ \in {"step", "model"} -> "ending"
                                      [] OTHER -> "over"]
    /\ UNCHANGED <<config, inbox, source, nudges, bucket, lock, worker, owner, given, missed>>

\* onRunFinished looks at the inbox again.
Finished(r) ==
    /\ run[r].pc = "ending"
    /\ run' = [run EXCEPT ![r] = [NotStarted EXCEPT !.pc = "over"]]
    /\ IF Queued = {} THEN NoNudge ELSE Nudge
    /\ UNCHANGED <<config, inbox, source, lock, worker, owner, given>>

\* The process of a step dies; another takes the step over from its start.
StepDies(r) ==
    /\ "crash" \in Faults
    /\ run[r].pc \in {"drain", "model"}
    /\ run' = [run EXCEPT ![r].pc = "step", ![r].todo = {}, ![r].won = {}]
    /\ UNCHANGED <<config, inbox, source, nudges, bucket, lock, worker, owner, given, missed>>

-----------------------------------------------------------------------------
\* The settings

\* configure reads the agent and checks the request against it,
Edited ==
    (IF "edit" \in Faults THEN {config} ELSE {})
    \cup (IF "switch" \in Faults THEN {[config EXCEPT !.on = FALSE], [config EXCEPT !.on = TRUE, !.why = None]}
          ELSE {})

EditSettings ==
    /\ owner.pc = "idle"
    /\ owner.edits < MaxEdits
    /\ \E next \in Edited :
        owner' = [pc |-> "save", was |-> config.on, next |-> next, edits |-> owner.edits + 1]
    /\ UNCHANGED <<config, inbox, source, nudges, bucket, lock, worker, run, given, missed>>

\* resumeWithinCapacity does the same for an agent paused for want of room,
RoomAgain ==
    /\ owner.pc = "idle"
    /\ owner.edits < MaxEdits
    /\ ~config.on /\ config.why = "capacity"
    /\ owner' = [pc |-> "save", was |-> FALSE, next |-> [config EXCEPT !.on = TRUE, !.why = None],
                 edits |-> owner.edits + 1]
    /\ UNCHANGED <<config, inbox, source, nudges, bucket, lock, worker, run, given, missed>>

\* and both save the settings whole; switched off, the inbox is emptied.
SaveSettings ==
    /\ owner.pc = "save"
    /\ config' = owner.next
    /\ owner' = [owner EXCEPT !.pc = IF owner.was /\ ~owner.next.on THEN "drop" ELSE "idle"]
    /\ UNCHANGED <<inbox, source, nudges, bucket, lock, worker, run, given, missed>>

SwitchedOff ==
    /\ owner.pc = "drop"
    /\ inbox' = Dropped
    /\ owner' = [owner EXCEPT !.pc = "idle"]
    /\ UNCHANGED <<config, source, nudges, bucket, lock, worker, run, given, missed>>

-----------------------------------------------------------------------------
WakeStep(k) == Insert(k) \/ CountQueued(k) \/ Fold(k) \/ AskQueue(k)

WorkerStep(w) ==
    \/ TakeJob(w) \/ ReadAgent(w) \/ ReadInbox(w) \/ CheckLive(w) \/ Claim(w) \/ Claimed(w)
    \/ Answer(w) \/ StartRun(w) \/ StartRefused(w) \/ ConversationGone(w) \/ Unclaim(w)
    \/ MarkWakes(w) \/ Reread(w) \/ SaveLive(w) \/ MustPause(w) \/ Drop(w)
    \/ Unlock(w) \/ DeleteLock(w)

RunStep(r) == Drain(r) \/ DrainClaim(r) \/ DrainTell(r) \/ NextStep(r) \/ Finished(r)

Next ==
    \/ \E k \in Wakes : Arrive(k) \/ WakeStep(k) \/ SourceDies(k)
    \/ \E w \in Workers : WorkerStep(w) \/ WorkerDies(w)
    \/ \E r \in Runs : RunStep(r) \/ PersonActs(r) \/ CancelRun(r) \/ StepDies(r)
    \/ TwoSeconds \/ Expire
    \/ EditSettings \/ RoomAgain \/ SaveSettings \/ SwitchedOff

Spec == Init /\ [][Next]_vars

\* Requests, workers and runs go on; a lock expires and so do two seconds.  No
\* wake has to come, and no person has to act.
FairSpec ==
    /\ Spec
    /\ \A k \in Wakes : WF_vars(WakeStep(k))
    /\ \A w \in Workers : WF_vars(WorkerStep(w))
    /\ \A r \in Runs : WF_vars(RunStep(r))
    /\ WF_vars(TwoSeconds) /\ WF_vars(Expire) /\ WF_vars(SaveSettings) /\ WF_vars(SwitchedOff)

-----------------------------------------------------------------------------
\* Type invariant.
TypeOK ==
    /\ config \in Config
    /\ inbox \in [Wakes -> Wake]
    /\ source \in [Wakes -> Source]
    /\ nudges \in 0..MaxNudges
    /\ bucket \in Workers \cup {None, "waiting"}
    /\ lock \in Workers \cup {None, Orphan}
    /\ worker \in [Workers -> Worker]
    /\ run \in [Runs -> Run]
    /\ owner \in [pc : {"idle", "save", "drop"}, was : BOOLEAN, next : Config, edits : 0..MaxEdits]
    /\ given \in [Wakes -> SUBSET Runs]
    /\ missed \in BOOLEAN

LiveRuns == {r \in Runs : run[r].pc \in Live}

\* It never runs twice at once: the thread has one live run (process's lock,
\* liveRun).
OneRunAtATime == Cardinality(LiveRuns) <= 1

\* A wake is told to one run: the one started for it, the one whose step found
\* it, or the one it answers.
WakeToldOnce == \A k \in Wakes : Cardinality(given[k]) <= 1

\* Who has claimed a wake and not told it yet.
Holders(k) ==
    {w \in Workers : /\ k \in worker[w].won
                     /\ worker[w].pc \in {"claim", "claim_answer", "answer", "start", "unclaim"}}
    \cup {r \in Runs : k \in run[r].won}

\* Of the workers and runs that read the same queued wake one gets it, and
\* while it has it the wake is not queued for another, whatever overlaps,
\* expires or dies (claim, unclaim, drainInto).
HeldByOne ==
    \A k \in Wakes : /\ Cardinality(Holders(k)) <= 1
                     /\ Holders(k) # {} => inbox[k].status # "queued"

\* A wake that was taken was told to a run or is about to be.  What may be
\* lost is the owner's answer to a run that no longer waits for one.
TakenIsTold ==
    \A k \in Wakes : inbox[k].status = "consumed" =>
        \/ given[k] # {}
        \/ Holders(k) # {}
        \/ k \in OwnerWakes /\ inbox[k].by # NoRun

\* A queued wake is taken, folded away or dropped, unless a run of the thread
\* waits for a person (or the bound on runs is met); one that is passive waits
\* for another.  The one way to be forgotten is that the job asked for was
\* dropped, as the one that runs has its id, and that one had looked already,
\* or had claimed the wakes and gives them back (enqueueProcess, and process
\* where the conversation is gone), and nothing asked for a job since.
WakesAreTaken ==
    \A k \in Wakes \ Passive :
        inbox[k].status = "queued" ~>
            \/ inbox[k].status # "queued"
            \/ \E r \in Runs : run[r].pc \in {"asks", "held"}
            \/ \A r \in Runs : run[r].pc # None
            \/ missed
=============================================================================
