--------------------------- MODULE RunLog_proofs ---------------------------
(***************************************************************************)
(* Proofs about RunLog, for any number of pods, steps, takeovers and       *)
(* writes, and with any of the faults:                                     *)
(*   - the type invariant;                                                 *)
(*   - folding the log from its start gives the row, and exactly the row   *)
(*     where nothing is written around it;                                 *)
(*   - the projection check reports no more differences than there were    *)
(*     writes around writeRun.                                             *)
(* What the folds compute is proved by induction on the length of the log, *)
(* with the set of the lengths it holds for in the place of a predicate.   *)
(***************************************************************************)
EXTENDS RunLog, SequenceTheorems, WellFoundedInduction, TLAPS

-----------------------------------------------------------------------------
(* Folding events.                                                         *)

LEMMA NatSetInduction ==
    ASSUME NEW T, 0 \in T, \A n \in Nat : n \in T => n + 1 \in T
    PROVE  \A n \in Nat : n \in T
<1> SUFFICES ASSUME NEW n \in Nat, n \notin T PROVE FALSE
    OBVIOUS
<1>1. \E x \in Nat \ T : \A y \in Nat \ T : ~(<<y, x>> \in OpToRel(<, Nat))
    BY NatLessThanWellFounded, WFMin
<1>2. PICK x \in Nat \ T : \A y \in Nat \ T : ~(y < x)
    BY <1>1 DEF OpToRel
<1>3. x - 1 \in Nat /\ x - 1 < x /\ x = (x - 1) + 1
    BY <1>2
<1> QED
    BY <1>2, <1>3

\* The recursive definitions define what they say.
LEMMA FoldSteps ==
    ASSUME NEW p, NEW T, NEW ev \in Seq(T)
    PROVE  \A i \in 0..Len(ev) : FoldOf(p, ev)[i] = IF i = 0 THEN p ELSE FoldEvent(FoldOf(p, ev)[i - 1], ev[i])
<1> DEFINE Is(f, n) == f = [i \in 0..n |-> IF i = 0 THEN p ELSE FoldEvent(f[i - 1], ev[i])]
           Found == {n \in Nat : \E f : Is(f, n)}
<1>1. 0 \in Found
    <2>1. Is([i \in 0..0 |-> p], 0)
        OBVIOUS
    <2> QED
        BY <2>1
<1>2. ASSUME NEW n \in Nat, n \in Found PROVE n + 1 \in Found
    <2>1. PICK f : Is(f, n)
        BY <1>2
    <2> DEFINE g == [i \in 0..(n + 1) |-> IF i = n + 1 THEN FoldEvent(f[n], ev[n + 1]) ELSE f[i]]
    <2>2. \A i \in 0..(n + 1) : g[i] = IF i = 0 THEN p ELSE FoldEvent(g[i - 1], ev[i])
        BY <2>1
    <2>3. Is(g, n + 1)
        BY <2>2
    <2> HIDE DEF g, Is
    <2> QED
        BY <2>3
<1>3. Len(ev) \in Found
    <2> HIDE DEF Found
    <2> QED
        BY <1>1, <1>2, NatSetInduction
<1>4. FoldOf(p, ev) = CHOOSE f : Is(f, Len(ev))
    BY DEF FoldOf
<1>5. Is(FoldOf(p, ev), Len(ev))
    BY <1>3, <1>4
<1> QED
    BY <1>5

LEMMA StepEventsSteps ==
    ASSUME NEW base, NEW next, Len(next.steps) \in Nat
    PROVE  \A i \in 0..Len(next.steps) :
             StepEvents(base, next)[i] = IF i = 0 THEN <<>>
                                         ELSE StepEvents(base, next)[i - 1] \o StepEvent(base, next, i)
<1> DEFINE On(s, i) == s \o StepEvent(base, next, i)
           Is(f, n) == f = [i \in 0..n |-> IF i = 0 THEN <<>> ELSE On(f[i - 1], i)]
           Found == {n \in Nat : \E f : Is(f, n)}
<1>0. StepEvents(base, next) = CHOOSE f : Is(f, Len(next.steps))
    BY DEF StepEvents
<1> HIDE DEF On
<1>1. 0 \in Found
    <2>1. Is([i \in 0..0 |-> <<>>], 0)
        OBVIOUS
    <2> QED
        BY <2>1
<1>2. ASSUME NEW n \in Nat, n \in Found PROVE n + 1 \in Found
    <2>1. PICK f : Is(f, n)
        BY <1>2
    <2> DEFINE g == [i \in 0..(n + 1) |-> IF i = n + 1 THEN On(f[n], n + 1) ELSE f[i]]
    <2>2. \A i \in 0..(n + 1) : g[i] = IF i = 0 THEN <<>> ELSE On(g[i - 1], i)
        BY <2>1
    <2>3. Is(g, n + 1)
        BY <2>2
    <2> HIDE DEF g, Is
    <2> QED
        BY <2>3
<1>3. Len(next.steps) \in Found
    <2> HIDE DEF Found
    <2> QED
        BY <1>1, <1>2, NatSetInduction
<1>4. Is(StepEvents(base, next), Len(next.steps))
    BY <1>0, <1>3
<1>5. \A i \in 0..Len(next.steps) :
        StepEvents(base, next)[i] = IF i = 0 THEN <<>> ELSE On(StepEvents(base, next)[i - 1], i)
    BY <1>4
<1> QED
    BY <1>5 DEF On

Folded(p, ev) == FoldOf(p, ev)[Len(ev)]

LEMMA FoldedNone ==
    ASSUME NEW p
    PROVE  Folded(p, <<>>) = p
<1>1. ASSUME NEW T, NEW s \in Seq(T), Len(s) = 0 PROVE FoldOf(p, s)[0] = p
    <2>1. \A i \in 0..Len(s) : FoldOf(p, s)[i] = IF i = 0 THEN p ELSE FoldEvent(FoldOf(p, s)[i - 1], s[i])
        BY FoldSteps
    <2> QED
        BY <1>1, <2>1
<1>2. <<>> \in Seq(Nat) /\ Len(<<>>) = 0
    OBVIOUS
<1>3. FoldOf(p, <<>>)[0] = p
    BY <1>1, <1>2, Zenon
<1> QED
    BY <1>2, <1>3 DEF Folded

LEMMA FoldedOne ==
    ASSUME NEW p, NEW e
    PROVE  Folded(p, <<e>>) = FoldEvent(p, e)
<1> DEFINE s == <<e>>
<1>1. s \in Seq({e}) /\ Len(s) = 1 /\ s[1] = e
    OBVIOUS
<1> HIDE DEF s
<1>2. \A i \in 0..1 : FoldOf(p, s)[i] = IF i = 0 THEN p ELSE FoldEvent(FoldOf(p, s)[i - 1], s[i])
    BY <1>1, FoldSteps
<1>3. FoldOf(p, s)[1] = FoldEvent(p, e)
    BY <1>1, <1>2
<1> QED
    BY <1>1, <1>3 DEF Folded, s

\* A fold goes on from where another stopped.
LEMMA FoldedJoin ==
    ASSUME NEW p, NEW T, NEW s \in Seq(T), NEW t \in Seq(T)
    PROVE  Folded(p, s \o t) = Folded(Folded(p, s), t)
<1> DEFINE u == s \o t
           q == Folded(p, s)
<1>0. /\ u \in Seq(T) /\ Len(u) = Len(s) + Len(t) /\ Len(s) \in Nat /\ Len(t) \in Nat
      /\ \A i \in 1..Len(s) : u[i] = s[i]
      /\ \A i \in 1..Len(t) : u[Len(s) + i] = t[i]
    OBVIOUS
<1>9. u \in Seq(T)
    BY <1>0
<1> HIDE DEF u
<1>1. \A i \in 0..Len(u) : FoldOf(p, u)[i] = IF i = 0 THEN p ELSE FoldEvent(FoldOf(p, u)[i - 1], u[i])
    BY <1>9, FoldSteps
<1>2. \A i \in 0..Len(s) : FoldOf(p, s)[i] = IF i = 0 THEN p ELSE FoldEvent(FoldOf(p, s)[i - 1], s[i])
    BY FoldSteps
<1>3. \A i \in 0..Len(t) : FoldOf(q, t)[i] = IF i = 0 THEN q ELSE FoldEvent(FoldOf(q, t)[i - 1], t[i])
    BY FoldSteps
<1> HIDE DEF q
<1>4. \A i \in Nat : i <= Len(s) => FoldOf(p, u)[i] = FoldOf(p, s)[i]
    <2> DEFINE Same == {i \in Nat : i <= Len(s) => FoldOf(p, u)[i] = FoldOf(p, s)[i]}
    <2>1. 0 \in Same
        BY <1>0, <1>1, <1>2
    <2>2. ASSUME NEW i \in Nat, i \in Same PROVE i + 1 \in Same
        <3>1. SUFFICES ASSUME i + 1 <= Len(s) PROVE FoldOf(p, u)[i + 1] = FoldOf(p, s)[i + 1]
            OBVIOUS
        <3>2. FoldOf(p, u)[i] = FoldOf(p, s)[i]
            BY <1>0, <2>2, <3>1
        <3>3. i + 1 \in 0..Len(u) /\ i + 1 \in 0..Len(s) /\ i + 1 # 0 /\ (i + 1) - 1 = i /\ u[i + 1] = s[i + 1]
            BY <1>0, <3>1
        <3> QED
            BY <1>1, <1>2, <3>2, <3>3
    <2> HIDE DEF Same
    <2>3. \A i \in Nat : i \in Same
        BY <2>1, <2>2, NatSetInduction
    <2> QED
        BY <2>3 DEF Same
<1>5. FoldOf(p, u)[Len(s)] = q
    BY <1>0, <1>4 DEF q, Folded
<1>6. \A i \in Nat : i <= Len(t) => FoldOf(p, u)[Len(s) + i] = FoldOf(q, t)[i]
    <2> DEFINE Same == {i \in Nat : i <= Len(t) => FoldOf(p, u)[Len(s) + i] = FoldOf(q, t)[i]}
    <2>1. 0 \in Same
        BY <1>0, <1>3, <1>5
    <2>2. ASSUME NEW i \in Nat, i \in Same PROVE i + 1 \in Same
        <3>1. SUFFICES ASSUME i + 1 <= Len(t) PROVE FoldOf(p, u)[Len(s) + (i + 1)] = FoldOf(q, t)[i + 1]
            OBVIOUS
        <3>2. FoldOf(p, u)[Len(s) + i] = FoldOf(q, t)[i]
            BY <1>0, <2>2, <3>1
        <3>3. /\ Len(s) + (i + 1) \in 0..Len(u) /\ i + 1 \in 0..Len(t) /\ i + 1 # 0 /\ (i + 1) - 1 = i
              /\ Len(s) + (i + 1) # 0 /\ (Len(s) + (i + 1)) - 1 = Len(s) + i /\ u[Len(s) + (i + 1)] = t[i + 1]
            BY <1>0, <3>1
        <3> QED
            BY <1>1, <1>3, <3>2, <3>3
    <2> HIDE DEF Same
    <2>3. \A i \in Nat : i \in Same
        BY <2>1, <2>2, NatSetInduction
    <2> QED
        BY <2>3 DEF Same
<1> QED
    BY <1>0, <1>6 DEF Folded, u, q

-----------------------------------------------------------------------------
(* What one write appends.  The rows hold finished steps only: a call that *)
(* has no result yet is on the log, never on the row.                      *)

StepType  == {"llm_call", "tool_call", "error", "memory_save"}
DoneStep  == [type : StepType, result : {TRUE}]
DoneRow   == [status : Status, step : Nat, steps : Seq(DoneStep), meta : SUBSET Keys, error : Error, head : Nat]
NoteType  == {"lease_taken_over", "approval_requested", "input_received", "approval_decided", "delivery_claimed"}
Notes     == {<<>>} \cup {Note(t) : t \in NoteType}

Event ==
    [type : {"run_started"}, state : State]
    \cup [type : {"tool_call", "step_recorded", "step_replaced"}, index : Nat, step : StepSet]
    \cup [type : {"tool_result"}, index : Nat]
    \cup [type : {"steps_reset"}, steps : Seq(StepSet)]
    \cup [type : {"metadata_changed"}, set : SUBSET Keys, unset : SUBSET Keys]
    \cup [type : {"step_committed"}, status : Status, step : Nat, error : SUBSET Error]
    \cup [type : NoteType \cup {"status_changed"}]

\* The logged columns of a row, with other steps and other metadata.
With(r, steps, meta) == [status |-> r.status, step |-> r.step, steps |-> steps, meta |-> meta, error |-> r.error]

LEMMA DoneRowIsRow ==
    /\ \A s \in DoneStep : s \in StepSet /\ s.type \in StepType /\ s.result = TRUE /\ s = [type |-> s.type, result |-> TRUE]
    /\ \A r \in DoneRow : r \in Row /\ StateOf(r) \in State /\ StateOf(r) = With(r, r.steps, r.meta)
                          /\ r.steps \in Seq(DoneStep) /\ r.steps \in Seq(StepSet)
<1>1. DoneStep \subseteq StepSet
    BY DEF DoneStep, StepSet, StepType
<1>2. ASSUME NEW s \in DoneStep
      PROVE  s \in StepSet /\ s.type \in StepType /\ s.result = TRUE /\ s = [type |-> s.type, result |-> TRUE]
    <2>1. s.type \in StepType /\ s.result \in {TRUE} /\ s = [type |-> s.type, result |-> s.result]
        BY DEF DoneStep
    <2>2. s.result = TRUE
        BY <2>1
    <2>3. s = [type |-> s.type, result |-> TRUE]
        BY <2>1, <2>2, Zenon
    <2> QED
        BY <1>1, <2>1, <2>2, <2>3, Zenon
<1>3. ASSUME NEW r \in DoneRow
      PROVE  r \in Row /\ StateOf(r) \in State /\ StateOf(r) = With(r, r.steps, r.meta)
             /\ r.steps \in Seq(DoneStep) /\ r.steps \in Seq(StepSet)
    <2>1. r.steps \in Seq(DoneStep)
        BY DEF DoneRow
    <2>2. r.steps \in Seq(StepSet)
        BY <1>1, <2>1
    <2>3. r \in Row
        BY <2>2 DEF DoneRow, Row
    <2> QED
        BY <2>1, <2>2, <2>3 DEF Row, State, StateOf, With
<1> QED
    BY <1>2, <1>3

\* An event that is neither the first nor out of order is applied.
LEMMA FoldApplies ==
    ASSUME NEW h, NEW st, NEW e, e.type # "run_started", ~OutOfOrder(st, e)
    PROVE  FoldEvent(Projection(h, st), e) = Projection(h + 1, FoldOne(st, e))
<1>1. /\ Projection(h, st).is = "at" /\ Refused.is = "refused" /\ Nothing.is = "nothing"
      /\ Projection(h, st).head = h /\ Projection(h, st).state = st
    BY DEF Projection, Refused, Nothing
<1>2. Projection(h, st) # Refused /\ Projection(h, st) # Nothing
    BY <1>1
<1> QED
    BY <1>1, <1>2 DEF FoldEvent

\* The run's first event starts the projection.
LEMMA FoldStarts ==
    ASSUME NEW st
    PROVE  FoldEvent(Nothing, [type |-> "run_started", state |-> st]) = Projection(1, st)
<1>1. Refused.is = "refused" /\ Nothing.is = "nothing"
    BY DEF Refused, Nothing
<1>2. Nothing # Refused
    BY <1>1
<1> QED
    BY <1>2 DEF FoldEvent

-----------------------------------------------------------------------------
(* The steps.                                                              *)

\* The row's steps once the first i have been brought up to date.
Mixed(base, next, i) ==
    [j \in 1..(IF i > Len(base.steps) THEN i ELSE Len(base.steps)) |-> IF j <= i THEN next.steps[j] ELSE base.steps[j]]

LEMMA MixedSteps ==
    ASSUME NEW base \in DoneRow, NEW next \in DoneRow, Len(next.steps) >= Len(base.steps)
    PROVE  /\ \A i \in 0..Len(next.steps) :
                /\ Mixed(base, next, i) \in Seq(DoneStep)
                /\ Len(Mixed(base, next, i)) = IF i > Len(base.steps) THEN i ELSE Len(base.steps)
           /\ Mixed(base, next, 0) = base.steps
           /\ Mixed(base, next, Len(next.steps)) = next.steps
<1> DEFINE b == base.steps
           n == next.steps
<1>1. b \in Seq(DoneStep) /\ n \in Seq(DoneStep)
    BY DEF DoneRow
<1>2. /\ Len(b) \in Nat /\ Len(n) \in Nat /\ Len(n) >= Len(b)
      /\ \A j \in 1..Len(b) : b[j] \in DoneStep
      /\ \A j \in 1..Len(n) : n[j] \in DoneStep
      /\ b = [j \in 1..Len(b) |-> b[j]]
      /\ n = [j \in 1..Len(n) |-> n[j]]
    BY <1>1
<1>9. Len(b) \in Nat /\ Len(n) \in Nat /\ Len(n) >= Len(b)
    BY <1>2
<1> HIDE DEF b, n
<1>3. ASSUME NEW i \in 0..Len(n)
      PROVE  /\ Mixed(base, next, i) \in Seq(DoneStep)
             /\ Len(Mixed(base, next, i)) = IF i > Len(b) THEN i ELSE Len(b)
    <2> DEFINE k == IF i > Len(b) THEN i ELSE Len(b)
    <2>1. k \in Nat
        BY <1>2
    <2>2. \A j \in 1..k : (IF j <= i THEN n[j] ELSE b[j]) \in DoneStep
        BY <1>2
    <2>3. Mixed(base, next, i) = [j \in 1..k |-> IF j <= i THEN n[j] ELSE b[j]]
        BY DEF Mixed, b, n
    <2> HIDE DEF k
    <2>4. Mixed(base, next, i) \in Seq(DoneStep) /\ Len(Mixed(base, next, i)) = k
        BY <2>1, <2>2, <2>3
    <2> QED
        BY <2>4 DEF k
<1>4. Mixed(base, next, 0) = b
    <2>1. Mixed(base, next, 0) = [j \in 1..(IF 0 > Len(b) THEN 0 ELSE Len(b)) |-> IF j <= 0 THEN n[j] ELSE b[j]]
        BY DEF Mixed, b, n
    <2>2. (IF 0 > Len(b) THEN 0 ELSE Len(b)) = Len(b)
        BY <1>2
    <2>3. \A j \in 1..Len(b) : (IF j <= 0 THEN n[j] ELSE b[j]) = b[j]
        BY <1>2
    <2> QED
        BY <1>2, <2>1, <2>2, <2>3
<1>5. Mixed(base, next, Len(n)) = n
    <2>1. Mixed(base, next, Len(n)) = [j \in 1..(IF Len(n) > Len(b) THEN Len(n) ELSE Len(b)) |-> IF j <= Len(n) THEN n[j] ELSE b[j]]
        BY DEF Mixed, b, n
    <2>2. (IF Len(n) > Len(b) THEN Len(n) ELSE Len(b)) = Len(n)
        BY <1>9
    <2>3. \A j \in 1..Len(n) : (IF j <= Len(n) THEN n[j] ELSE b[j]) = n[j]
        BY <1>2
    <2> QED
        BY <1>2, <2>1, <2>2, <2>3
<1> QED
    BY <1>3, <1>4, <1>5 DEF b, n

After(h, events) == h + Len(events)
Follows(i, L) == i = Len(L) + 1
Added(L, s)  == Append(L, s)
Put(L, i, s) == [L EXCEPT ![i] = s]

LEMMA MixedNext ==
    ASSUME NEW base \in DoneRow, NEW next \in DoneRow, Len(next.steps) >= Len(base.steps),
           NEW i \in 1..Len(next.steps)
    PROVE  /\ i > Len(base.steps) => Mixed(base, next, i) = Added(Mixed(base, next, i - 1), next.steps[i])
           /\ i <= Len(base.steps) => Mixed(base, next, i) = Put(Mixed(base, next, i - 1), i, next.steps[i])
           /\ i <= Len(base.steps) /\ next.steps[i] = base.steps[i] => Mixed(base, next, i) = Mixed(base, next, i - 1)
<1> DEFINE b == base.steps
           n == next.steps
           M == Mixed(base, next, i)
           L == Mixed(base, next, i - 1)
           k == IF i > Len(b) THEN i ELSE Len(b)
           l == IF i - 1 > Len(b) THEN i - 1 ELSE Len(b)
<1>1. b \in Seq(DoneStep) /\ n \in Seq(DoneStep) /\ Len(b) \in Nat /\ Len(n) \in Nat
    BY DEF DoneRow
<1>2. i \in 0..Len(n) /\ i - 1 \in 0..Len(n)
    BY <1>1
<1>3. /\ M = [j \in 1..k |-> IF j <= i THEN n[j] ELSE b[j]]
      /\ L = [j \in 1..l |-> IF j <= i - 1 THEN n[j] ELSE b[j]]
    BY DEF Mixed
<1>4. L \in Seq(DoneStep) /\ Len(L) = l /\ M \in Seq(DoneStep) /\ Len(M) = k
    BY <1>2, MixedSteps
<1> HIDE DEF b, n, M, L
<1>5. ASSUME i > Len(b) PROVE M = Append(L, n[i])
    <2>1. k = i /\ l = i - 1
        BY <1>1, <1>5
    <2>2. Append(L, n[i]) = [j \in 1..(Len(L) + 1) |-> IF j = Len(L) + 1 THEN n[i] ELSE L[j]]
        BY <1>4
    <2>3. Append(L, n[i]) = [j \in 1..i |-> IF j = i THEN n[i] ELSE L[j]]
        BY <1>4, <2>1, <2>2
    <2>4. \A j \in 1..i : (IF j = i THEN n[i] ELSE L[j]) = n[j]
        BY <1>3, <2>1
    <2>5. \A j \in 1..i : (IF j <= i THEN n[j] ELSE b[j]) = n[j]
        OBVIOUS
    <2>6. M = [j \in 1..i |-> n[j]]
        BY <1>3, <2>1, <2>5
    <2>7. Append(L, n[i]) = [j \in 1..i |-> n[j]]
        BY <2>3, <2>4
    <2> QED
        BY <2>6, <2>7
<1>6. ASSUME i <= Len(b) PROVE M = [L EXCEPT ![i] = n[i]]
    <2>1. k = Len(b) /\ l = Len(b) /\ i \in 1..Len(b)
        BY <1>1, <1>6
    <2>2. L = [j \in 1..Len(b) |-> IF j <= i - 1 THEN n[j] ELSE b[j]] /\ M = [j \in 1..Len(b) |-> IF j <= i THEN n[j] ELSE b[j]]
        BY <1>3, <2>1
    <2>3. \A j \in 1..Len(b) : M[j] = (IF j = i THEN n[i] ELSE L[j])
        BY <1>1, <2>1, <2>2
    <2>4. [L EXCEPT ![i] = n[i]] = [j \in 1..Len(b) |-> IF j = i THEN n[i] ELSE L[j]]
        BY <2>1, <2>2
    <2>5. M = [j \in 1..Len(b) |-> M[j]]
        BY <2>2
    <2> QED
        BY <2>3, <2>4, <2>5
<1>7. ASSUME i <= Len(b), n[i] = b[i] PROVE M = L
    <2>1. k = Len(b) /\ l = Len(b) /\ i \in 1..Len(b)
        BY <1>1, <1>7
    <2>2. \A j \in 1..Len(b) : (IF j <= i THEN n[j] ELSE b[j]) = (IF j <= i - 1 THEN n[j] ELSE b[j])
        BY <1>1, <1>7
    <2> QED
        BY <1>3, <2>1, <2>2
<1> QED
    BY <1>5, <1>6, <1>7 DEF b, n, M, L, Added, Put

LEMMA AppendIs ==
    ASSUME NEW T, NEW L \in Seq(T), NEW x
    PROVE  Append(L, x) = [j \in 1..(Len(L) + 1) |-> IF j = Len(L) + 1 THEN x ELSE L[j]]
<1> DEFINE U == T \cup {x}
           A == Append(L, x)
<1>1. L \in Seq(U) /\ x \in U /\ Len(L) \in Nat
    BY SeqMonotonic, LenProperties
<1> HIDE DEF U
<1>2. A \in Seq(U) /\ Len(A) = Len(L) + 1 /\ (\A j \in 1..Len(L) : A[j] = L[j]) /\ A[Len(L) + 1] = x
    BY <1>1, AppendProperties
<1> HIDE DEF A
<1>3. A = [j \in 1..(Len(L) + 1) |-> A[j]]
    BY <1>2, LenProperties
<1>4. \A j \in 1..(Len(L) + 1) : A[j] = IF j = Len(L) + 1 THEN x ELSE L[j]
    BY <1>1, <1>2
<1> QED
    BY <1>3, <1>4 DEF A

\* The call and its result record the step as the row has it.
LEMMA CallThenResult ==
    ASSUME NEW L \in Seq(DoneStep), NEW s \in DoneStep, NEW i, i = Len(L) + 1
    PROVE  [Append(L, Called(s)) EXCEPT ![i].result = TRUE] = Append(L, s)
<1> DEFINE A == Append(L, Called(s))
<1>1. Len(L) \in Nat /\ i \in 1..i
    OBVIOUS
<1>2. A = [j \in 1..i |-> IF j = i THEN Called(s) ELSE L[j]]
    <2>1. A = [j \in 1..(Len(L) + 1) |-> IF j = Len(L) + 1 THEN Called(s) ELSE L[j]]
        BY AppendIs
    <2> QED
        BY <2>1
<1>3. Append(L, s) = [j \in 1..i |-> IF j = i THEN s ELSE L[j]]
    <2>1. Append(L, s) = [j \in 1..(Len(L) + 1) |-> IF j = Len(L) + 1 THEN s ELSE L[j]]
        BY AppendIs
    <2> QED
        BY <2>1
<1>4. [Called(s) EXCEPT !.result = TRUE] = s
    <2>1. ASSUME NEW t, NEW a, NEW b PROVE [[type |-> t, result |-> a] EXCEPT !.result = b] = [type |-> t, result |-> b]
        OBVIOUS
    <2>2. s = [type |-> s.type, result |-> TRUE]
        BY DoneRowIsRow, Zenon
    <2>3. [[type |-> s.type, result |-> TRUE] EXCEPT !.result = FALSE] = [type |-> s.type, result |-> FALSE]
        BY <2>1, Zenon
    <2>4. Called(s) = [type |-> s.type, result |-> FALSE]
        BY <2>2, <2>3, Zenon DEF Called
    <2>5. [[type |-> s.type, result |-> FALSE] EXCEPT !.result = TRUE] = [type |-> s.type, result |-> TRUE]
        BY <2>1, Zenon
    <2> QED
        BY <2>2, <2>4, <2>5, Zenon
<1>5. A[i] = Called(s)
    BY <1>1, <1>2
<1>6. [A EXCEPT ![i].result = TRUE] = [A EXCEPT ![i] = [Called(s) EXCEPT !.result = TRUE]]
    BY <1>5
<1> HIDE DEF A
<1>7. [A EXCEPT ![i] = s] = [j \in 1..i |-> IF j = i THEN s ELSE L[j]]
    BY <1>1, <1>2
<1> QED
    BY <1>3, <1>4, <1>6, <1>7 DEF A

LEMMA FoldedTwo ==
    ASSUME NEW p, NEW e, NEW f
    PROVE  Folded(p, <<e, f>>) = FoldEvent(FoldEvent(p, e), f)
<1> DEFINE s == <<e, f>>
<1>1. s \in Seq({e, f}) /\ Len(s) = 2 /\ s[1] = e /\ s[2] = f
    OBVIOUS
<1> HIDE DEF s
<1>2. \A i \in 0..2 : FoldOf(p, s)[i] = IF i = 0 THEN p ELSE FoldEvent(FoldOf(p, s)[i - 1], s[i])
    BY <1>1, FoldSteps
<1>3. FoldOf(p, s)[0] = p
    BY <1>2
<1>4. FoldOf(p, s)[1] = FoldEvent(p, e)
    BY <1>1, <1>2, <1>3
<1>5. FoldOf(p, s)[2] = FoldEvent(FoldEvent(p, e), f)
    BY <1>1, <1>2, <1>4
<1> QED
    BY <1>1, <1>5 DEF Folded, s

\* What folding does with the events of steps.
LEMMA FoldStep ==
    ASSUME NEW h \in Nat, NEW r \in DoneRow, NEW L \in Seq(DoneStep), NEW m \in SUBSET Keys, NEW s \in DoneStep, NEW i \in Nat
    PROVE  /\ Follows(i, L) =>
                Folded(Projection(h, With(r, L, m)), Recorded(s, i))
                    = Projection(After(h, Recorded(s, i)), With(r, Added(L, s), m))
           /\ Folded(Projection(h, With(r, L, m)), <<[type |-> "step_replaced", index |-> i, step |-> s]>>)
                    = Projection(h + 1, With(r, Put(L, i, s), m))
           /\ i \in Nat => Recorded(s, i) \in Seq(Event) /\ <<[type |-> "step_replaced", index |-> i, step |-> s]>> \in Seq(Event)
<1> DEFINE p == Projection(h, With(r, L, m))
           c == [type |-> "tool_call", index |-> i, step |-> Called(s)]
           d == [type |-> "tool_result", index |-> i]
           e == [type |-> "step_recorded", index |-> i, step |-> s]
           f == [type |-> "step_replaced", index |-> i, step |-> s]
<1>1. /\ c.type = "tool_call" /\ c.index = i /\ c.step = Called(s)
      /\ d.type = "tool_result" /\ d.index = i
      /\ e.type = "step_recorded" /\ e.index = i /\ e.step = s
      /\ f.type = "step_replaced" /\ f.index = i /\ f.step = s
    OBVIOUS
<1>2. Recorded(s, i) = IF s.type = "tool_call" THEN <<c, d>> ELSE <<e>>
    BY DEF Recorded
<1>3. ASSUME i \in Nat PROVE c \in Event /\ d \in Event /\ e \in Event /\ f \in Event
    <2>1. s \in StepSet /\ Called(s) \in StepSet
        <3>1. s \in StepSet
            BY DoneRowIsRow, Zenon
        <3> QED
            BY <3>1 DEF StepSet, Called
    <2> QED
        BY <1>3, <2>1 DEF Event
<1>4. \A ss : With(r, ss, m).steps = ss
    BY DEF With
<1>5. \A ss, tt : [With(r, ss, m) EXCEPT !.steps = tt] = With(r, tt, m)
    BY DEF With
<1> HIDE DEF c, d, e, f, p
<1>6. ASSUME i = Len(L) + 1
      PROVE  Folded(p, Recorded(s, i)) = Projection(h + Len(Recorded(s, i)), With(r, Append(L, s), m))
    <2>1. CASE s.type # "tool_call"
        <3>1. ~OutOfOrder(With(r, L, m), e)
            BY <1>1, <1>4, <1>6 DEF OutOfOrder
        <3>2. FoldOne(With(r, L, m), e) = With(r, Append(L, s), m)
            BY <1>1, <1>4, <1>5 DEF FoldOne
        <3>3. FoldEvent(p, e) = Projection(h + 1, With(r, Append(L, s), m))
            BY <1>1, <3>1, <3>2, FoldApplies DEF p
        <3>4. Folded(p, <<e>>) = Projection(h + 1, With(r, Append(L, s), m)) /\ Len(<<e>>) = 1
            BY <3>3, FoldedOne
        <3> QED
            BY <1>2, <2>1, <3>4
    <2>2. CASE s.type = "tool_call"
        <3> DEFINE A == Append(L, Called(s))
        <3>1. ~OutOfOrder(With(r, L, m), c)
            BY <1>1, <1>4, <1>6 DEF OutOfOrder
        <3>2. FoldOne(With(r, L, m), c) = With(r, A, m)
            BY <1>1, <1>4, <1>5 DEF FoldOne
        <3>3. FoldEvent(p, c) = Projection(h + 1, With(r, A, m))
            BY <1>1, <3>1, <3>2, FoldApplies DEF p
        <3>4. ~OutOfOrder(With(r, A, m), d)
            BY <1>1 DEF OutOfOrder
        <3>5. [A EXCEPT ![i].result = TRUE] = Append(L, s)
            BY <1>6, CallThenResult
        <3> HIDE DEF A
        <3>6. FoldOne(With(r, A, m), d) = With(r, Append(L, s), m)
            <4>1. FoldOne(With(r, A, m), d) = [With(r, A, m) EXCEPT !.steps[i].result = TRUE]
                BY <1>1 DEF FoldOne
            <4>2. [With(r, A, m) EXCEPT !.steps[i].result = TRUE] = With(r, [A EXCEPT ![i].result = TRUE], m)
                <5>1. ASSUME NEW b PROVE [With(r, A, m) EXCEPT !.steps[i].result = b] = With(r, [A EXCEPT ![i].result = b], m)
                    BY DEF With
                <5> QED
                    BY <5>1, Zenon
            <4> QED
                BY <3>5, <4>1, <4>2
        <3>7. FoldEvent(Projection(h + 1, With(r, A, m)), d) = Projection((h + 1) + 1, With(r, Append(L, s), m))
            BY <1>1, <3>4, <3>6, FoldApplies
        <3>8. Folded(p, <<c, d>>) = Projection(h + 2, With(r, Append(L, s), m)) /\ Len(<<c, d>>) = 2
            BY <3>3, <3>7, FoldedTwo
        <3> QED
            BY <1>2, <2>2, <3>8
    <2> QED
        BY <2>1, <2>2
<1>7. Folded(p, <<f>>) = Projection(h + 1, With(r, [L EXCEPT ![i] = s], m))
    <2>1. ~OutOfOrder(With(r, L, m), f)
        BY <1>1 DEF OutOfOrder
    <2>2. FoldOne(With(r, L, m), f) = With(r, [L EXCEPT ![i] = s], m)
        <3>1. FoldOne(With(r, L, m), f) = [With(r, L, m) EXCEPT !.steps[i] = s]
            BY <1>1 DEF FoldOne
        <3> QED
            BY <3>1 DEF With
    <2>3. FoldEvent(p, f) = Projection(h + 1, With(r, [L EXCEPT ![i] = s], m))
        BY <1>1, <2>1, <2>2, FoldApplies DEF p
    <2> QED
        BY <2>3, FoldedOne
<1>8. ASSUME i \in Nat PROVE Recorded(s, i) \in Seq(Event) /\ <<f>> \in Seq(Event)
    BY <1>2, <1>3, <1>8
<1> QED
    BY <1>6, <1>7, <1>8 DEF f, p, Added, Put, After, Follows

LEMMA FoldRecorded ==
    ASSUME NEW h \in Nat, NEW r \in DoneRow, NEW L \in Seq(DoneStep), NEW m \in SUBSET Keys, NEW s \in DoneStep, NEW i \in Nat,
           Follows(i, L)
    PROVE  Folded(Projection(h, With(r, L, m)), Recorded(s, i)) = Projection(After(h, Recorded(s, i)), With(r, Added(L, s), m))
BY FoldStep

\* The events of the steps bring the steps up to date, whichever of them the
\* write changed, added or dropped.
LEMMA StepsFold ==
    ASSUME NEW base \in DoneRow, NEW next \in DoneRow, NEW h \in Nat, NEW m \in SUBSET Keys
    PROVE  /\ StepsChanged(base, next) \in Seq(Event)
           /\ Folded(Projection(h, With(base, base.steps, m)), StepsChanged(base, next))
                = Projection(h + Len(StepsChanged(base, next)), With(base, next.steps, m))
<1> DEFINE p == Projection(h, With(base, base.steps, m))
           n == Len(next.steps)
<1>1. /\ base.steps \in Seq(DoneStep) /\ next.steps \in Seq(DoneStep) /\ next.steps \in Seq(StepSet)
      /\ Len(base.steps) \in Nat /\ n \in Nat
    BY DoneRowIsRow
<1>2. CASE n < Len(base.steps)
    <2> DEFINE e == [type |-> "steps_reset", steps |-> next.steps]
    <2>1. StepsChanged(base, next) = <<e>>
        BY <1>2 DEF StepsChanged
    <2>2. e.type = "steps_reset" /\ e.steps = next.steps
        OBVIOUS
    <2>3. e \in Event
        BY <1>1 DEF Event
    <2> HIDE DEF e
    <2>4. ~OutOfOrder(With(base, base.steps, m), e)
        BY <2>2 DEF OutOfOrder
    <2>5. FoldOne(With(base, base.steps, m), e) = With(base, next.steps, m)
        BY <2>2 DEF FoldOne, With
    <2>6. FoldEvent(p, e) = Projection(h + 1, With(base, next.steps, m))
        BY <2>2, <2>4, <2>5, FoldApplies
    <2>7. Folded(p, <<e>>) = FoldEvent(p, e) /\ <<e>> \in Seq(Event) /\ Len(<<e>>) = 1
        BY <2>3, FoldedOne
    <2> QED
        BY <2>1, <2>6, <2>7
<1>3. CASE n >= Len(base.steps)
    <2> DEFINE S == StepEvents(base, next)
               Good(i) == /\ S[i] \in Seq(Event)
                          /\ Folded(p, S[i]) = Projection(h + Len(S[i]), With(base, Mixed(base, next, i), m))
               G == {i \in Nat : i <= n => Good(i)}
    <2>1. \A i \in 0..n : S[i] = IF i = 0 THEN <<>> ELSE S[i - 1] \o StepEvent(base, next, i)
        BY <1>1, StepEventsSteps
    <2> HIDE DEF S
    <2>2. Mixed(base, next, 0) = base.steps /\ Mixed(base, next, n) = next.steps
        BY <1>3, MixedSteps
    <2>3. 0 \in G
        <3>1. S[0] = <<>>
            BY <1>1, <2>1
        <3>2. Folded(p, <<>>) = p /\ <<>> \in Seq(Event) /\ Len(<<>>) = 0 /\ h + 0 = h
            BY FoldedNone
        <3>3. Good(0)
            BY <2>2, <3>1, <3>2
        <3> HIDE DEF Good
        <3> QED
            BY <3>3
    <2>4. ASSUME NEW j \in Nat, j \in G PROVE j + 1 \in G
        <3> DEFINE i == j + 1
                   L == Mixed(base, next, j)
                   E == StepEvent(base, next, i)
        <3>1. SUFFICES ASSUME i <= n PROVE Good(i)
            OBVIOUS
        <3>2. i \in 1..n /\ i \in 0..n /\ j \in 0..n /\ i # 0 /\ i - 1 = j /\ i \in Nat
            BY <1>1, <3>1
        <3>3. Good(j)
            BY <1>1, <2>4, <3>2
        <3>4. S[i] = S[j] \o E
            BY <2>1, <3>2
        <3>5. L \in Seq(DoneStep) /\ Len(L) = IF j > Len(base.steps) THEN j ELSE Len(base.steps)
            BY <1>3, <3>2, MixedSteps
        <3>6. next.steps[i] \in DoneStep
            BY <1>1, <3>2
        <3>7. /\ i > Len(base.steps) => Mixed(base, next, i) = Added(L, next.steps[i])
              /\ i <= Len(base.steps) => Mixed(base, next, i) = Put(L, i, next.steps[i])
              /\ i <= Len(base.steps) /\ next.steps[i] = base.steps[i] => Mixed(base, next, i) = L
            BY <1>3, <3>2, MixedNext
        <3>8. h + Len(S[j]) \in Nat
            BY <3>3
        <3>9. E \in Seq(Event)
              /\ Folded(Projection(h + Len(S[j]), With(base, L, m)), E)
                    = Projection((h + Len(S[j])) + Len(E), With(base, Mixed(base, next, i), m))
            <4> DEFINE k == h + Len(S[j])
                       q == Projection(k, With(base, L, m))
                       s == next.steps[i]
                       f == <<[type |-> "step_replaced", index |-> i, step |-> s]>>
            <4>9. k \in Nat /\ i \in Nat /\ s \in DoneStep /\ L \in Seq(DoneStep)
                BY <3>2, <3>5, <3>6, <3>8
            <4>10. i > Len(base.steps) \/ (i <= Len(base.steps) /\ s = base.steps[i]) \/ (i <= Len(base.steps) /\ s # base.steps[i])
                BY <1>1, <3>2
            <4> HIDE DEF k, i, s, L
            <4>4. Follows(i, L) => Folded(q, Recorded(s, i)) = Projection(After(k, Recorded(s, i)), With(base, Added(L, s), m))
                BY <4>9, FoldRecorded
            <4>5. Folded(q, f) = Projection(k + 1, With(base, Put(L, i, s), m))
                BY <4>9, FoldStep
            <4>6. Recorded(s, i) \in Seq(Event) /\ f \in Seq(Event)
                BY <4>9, FoldStep
            <4>8. SUFFICES E \in Seq(Event) /\ Folded(q, E) = Projection(k + Len(E), With(base, Mixed(base, next, i), m))
                BY DEF k
            <4>1. CASE i > Len(base.steps)
                <5>1. i = Len(L) + 1
                    BY <1>1, <3>2, <3>5, <4>1
                <5>2. E = Recorded(s, i)
                    BY <4>1 DEF StepEvent, s
                <5> QED
                    BY <3>7, <4>4, <4>6, <4>1, <5>1, <5>2 DEF s, After, Follows
            <4>2. CASE i <= Len(base.steps) /\ s = base.steps[i]
                <5>1. E = <<>>
                    BY <1>1, <4>9, <4>2 DEF StepEvent, s
                <5>2. Folded(q, <<>>) = q /\ <<>> \in Seq(Event) /\ Len(<<>>) = 0 /\ k + 0 = k
                    BY <4>9, FoldedNone
                <5> QED
                    BY <3>7, <4>2, <5>1, <5>2 DEF s, After, Follows
            <4>3. CASE i <= Len(base.steps) /\ s # base.steps[i]
                <5>1. E = f
                    BY <1>1, <4>9, <4>3 DEF StepEvent, s
                <5>2. Len(f) = 1
                    OBVIOUS
                <5> QED
                    BY <3>7, <4>5, <4>6, <4>3, <5>1, <5>2 DEF s, After, Follows
            <4> HIDE DEF E, q
            <4> QED
                BY <4>10, <4>1, <4>2, <4>3
        <3> HIDE DEF E
        <3>10. S[i] \in Seq(Event) /\ Len(S[i]) = Len(S[j]) + Len(E) /\ Len(S[j]) \in Nat /\ Len(E) \in Nat
            BY <3>3, <3>4, <3>9
        <3>11. Folded(p, S[i]) = Folded(Folded(p, S[j]), E)
            BY <3>3, <3>4, <3>9, FoldedJoin
        <3>12. h + Len(S[i]) = (h + Len(S[j])) + Len(E)
            BY <3>10
        <3> QED
            BY <3>3, <3>9, <3>10, <3>11, <3>12
    <2> HIDE DEF G
    <2>5. \A i \in Nat : i \in G
        BY <2>3, <2>4, NatSetInduction
    <2> HIDE DEF Good
    <2>6. Good(n)
        BY <1>1, <2>5 DEF G
    <2>7. StepsChanged(base, next) = S[n]
        BY <1>1, <1>3 DEF StepsChanged, S
    <2> QED
        BY <2>2, <2>6, <2>7 DEF Good
<1> QED
    BY <1>1, <1>2, <1>3

-----------------------------------------------------------------------------
(* The whole write.                                                        *)

\* Notes and the change of status leave the projection's state alone.
LEMMA NotesFold ==
    ASSUME NEW h \in Nat, NEW st, NEW t \in NoteType \cup {"status_changed"}
    PROVE  /\ Folded(Projection(h, st), <<[type |-> t]>>) = Projection(h + 1, st)
           /\ <<[type |-> t]>> \in Seq(Event) /\ Len(<<[type |-> t]>>) = 1
<1> DEFINE e == [type |-> t]
<1>1. e.type = t /\ e \in Event
    BY DEF Event
<1> HIDE DEF e
<1>2. e.type \notin {"run_started", "tool_call", "step_recorded", "tool_result", "step_replaced", "steps_reset",
                     "metadata_changed", "step_committed"}
    BY <1>1 DEF NoteType
<1>3. ~OutOfOrder(st, e)
    BY <1>2 DEF OutOfOrder
<1>4. FoldOne(st, e) = st
    BY <1>2 DEF FoldOne
<1>5. FoldEvent(Projection(h, st), e) = Projection(h + 1, st)
    BY <1>2, <1>3, <1>4, FoldApplies
<1>6. Folded(Projection(h, st), <<e>>) = Projection(h + 1, st)
    BY <1>5, FoldedOne
<1> QED
    BY <1>1, <1>6 DEF e

LEMMA MetadataFold ==
    ASSUME NEW h \in Nat, NEW base \in DoneRow, NEW next \in DoneRow, NEW m \in SUBSET Keys
    PROVE  \E k \in SUBSET Keys :
             /\ MetadataChanged(base, next) \in Seq(Event)
             /\ Folded(Projection(h, With(base, next.steps, m)), MetadataChanged(base, next))
                    = Projection(After(h, MetadataChanged(base, next)), With(base, next.steps, k))
             /\ m = base.meta => k = next.meta
<1> DEFINE p == Projection(h, With(base, next.steps, m))
           M == MetadataChanged(base, next)
<1>1. base.meta \in SUBSET Keys /\ next.meta \in SUBSET Keys
    BY DEF DoneRow
<1>2. CASE next.meta = base.meta
    <2>1. M = <<>>
        BY <1>2 DEF MetadataChanged
    <2>2. Folded(p, <<>>) = p /\ <<>> \in Seq(Event) /\ Len(<<>>) = 0 /\ h + 0 = h
        BY FoldedNone
    <2>3. M \in Seq(Event) /\ Folded(p, M) = Projection(After(h, M), With(base, next.steps, m))
        BY <2>1, <2>2 DEF After
    <2> HIDE DEF M, p
    <2> QED
        BY <1>2, <2>3 DEF M, p
<1>3. CASE next.meta # base.meta
    <2> DEFINE e == [type |-> "metadata_changed", set |-> next.meta \ base.meta, unset |-> base.meta \ next.meta]
               k == (m \cup (next.meta \ base.meta)) \ (base.meta \ next.meta)
    <2>1. M = <<e>>
        BY <1>3 DEF MetadataChanged
    <2>2. e.type = "metadata_changed" /\ e.set = next.meta \ base.meta /\ e.unset = base.meta \ next.meta
        OBVIOUS
    <2>3. e \in Event
        BY <1>1 DEF Event
    <2>4. k \in SUBSET Keys /\ (m = base.meta => k = next.meta)
        BY <1>1
    <2>5. k = (m \cup e.set) \ e.unset
        BY <2>2
    <2> HIDE DEF e, k
    <2>6. ~OutOfOrder(With(base, next.steps, m), e)
        BY <2>2 DEF OutOfOrder
    <2>7. FoldOne(With(base, next.steps, m), e) = With(base, next.steps, k)
        BY <2>2, <2>5 DEF FoldOne, With
    <2>8. FoldEvent(p, e) = Projection(h + 1, With(base, next.steps, k))
        BY <2>2, <2>6, <2>7, FoldApplies
    <2>9. Folded(p, <<e>>) = FoldEvent(p, e) /\ <<e>> \in Seq(Event) /\ Len(<<e>>) = 1
        BY <2>3, FoldedOne
    <2>10. M \in Seq(Event) /\ Folded(p, M) = Projection(After(h, M), With(base, next.steps, k))
        BY <2>1, <2>8, <2>9 DEF After
    <2> HIDE DEF M, p
    <2> QED
        BY <2>4, <2>10 DEF M, p
<1> QED
    BY <1>2, <1>3

LEMMA CommittedFold ==
    ASSUME NEW h \in Nat, NEW base \in DoneRow, NEW next \in DoneRow, NEW m \in SUBSET Keys
    PROVE  /\ Committed(base, next) \in Seq(Event) /\ Len(Committed(base, next)) = 1
           /\ Folded(Projection(h, With(base, next.steps, m)), Committed(base, next))
                = Projection(h + 1, With(next, next.steps, m))
<1> DEFINE p == Projection(h, With(base, next.steps, m))
           x == IF next.error = base.error THEN {} ELSE {next.error}
           e == [type |-> "step_committed", status |-> next.status, step |-> next.step, error |-> x]
<1>1. next.status \in Status /\ next.step \in Nat /\ next.error \in Error /\ base.error \in Error
    BY DEF DoneRow
<1>2. Committed(base, next) = <<e>>
    BY DEF Committed
<1>3. x \in SUBSET Error
    BY <1>1
<1>4. (IF x = {} THEN base.error ELSE CHOOSE y \in x : TRUE) = next.error
    BY <1>1
<1> HIDE DEF x
<1>5. e.type = "step_committed" /\ e.status = next.status /\ e.step = next.step /\ e.error = x
    OBVIOUS
<1>6. e \in Event
    BY <1>1, <1>3 DEF Event
<1> HIDE DEF e
<1>7. ~OutOfOrder(With(base, next.steps, m), e)
    BY <1>5 DEF OutOfOrder
<1>8. FoldOne(With(base, next.steps, m), e) = With(next, next.steps, m)
    <2>1. FoldOne(With(base, next.steps, m), e)
            = [With(base, next.steps, m) EXCEPT !.status = e.status, !.step = e.step,
                    !.error = IF e.error = {} THEN @ ELSE CHOOSE y \in e.error : TRUE]
        BY <1>5 DEF FoldOne
    <2>2. With(base, next.steps, m).error = base.error
        BY DEF With
    <2>3. (IF e.error = {} THEN With(base, next.steps, m).error ELSE CHOOSE y \in e.error : TRUE) = next.error
        BY <1>4, <1>5, <2>2
    <2>4. FoldOne(With(base, next.steps, m), e)
            = [With(base, next.steps, m) EXCEPT !.status = next.status, !.step = next.step, !.error = next.error]
        BY <1>5, <2>1, <2>3
    <2> QED
        BY <2>4 DEF With
<1>9. FoldEvent(p, e) = Projection(h + 1, With(next, next.steps, m))
    BY <1>5, <1>7, <1>8, FoldApplies
<1>10. Folded(p, <<e>>) = FoldEvent(p, e) /\ <<e>> \in Seq(Event) /\ Len(<<e>>) = 1
    BY <1>6, FoldedOne
<1> QED
    BY <1>2, <1>9, <1>10

\* Folding `events` onto p, which is at head h, goes on to the state st.
Reaches(p, h, events, st) == events \in Seq(Event) /\ Folded(p, events) = Projection(After(h, events), st)

LEMMA ReachesOn ==
    ASSUME NEW p, NEW h, NEW s, NEW t, NEW a, NEW b, h \in Nat, Reaches(p, h, s, a),
           Reaches(Projection(After(h, s), a), After(h, s), t, b)
    PROVE  Reaches(p, h, s \o t, b) /\ After(h, s) \in Nat
<1>1. s \in Seq(Event) /\ t \in Seq(Event) /\ Len(s) \in Nat /\ Len(t) \in Nat
    BY DEF Reaches
<1>2. s \o t \in Seq(Event) /\ Len(s \o t) = Len(s) + Len(t)
    BY <1>1
<1>3. After(After(h, s), t) = After(h, s \o t) /\ After(h, s) \in Nat
    BY <1>1, <1>2 DEF After
<1>4. Folded(p, s \o t) = Folded(Folded(p, s), t)
    BY <1>1, FoldedJoin
<1>5. Folded(p, s) = Projection(After(h, s), a) /\ Folded(Projection(After(h, s), a), t) = Projection(After(After(h, s), t), b)
    BY DEF Reaches
<1> QED
    BY <1>2, <1>3, <1>4, <1>5 DEF Reaches

\* Where the fold of a write's events starts.
Origin(r, m) == IF r.head = 0 THEN Nothing ELSE Projection(r.head, With(r, r.steps, m))

\* What a write appends takes the log from the row as locked to the row as
\* written, whatever the two are; metadata the log had right stay right.
LEMMA WriteFolds ==
    ASSUME NEW base \in DoneRow, NEW next \in DoneRow, NEW notes \in Notes, NEW m \in SUBSET Keys,
           base.head = 0 => m = base.meta
    PROVE  \E k \in SUBSET Keys :
             /\ Reaches(Origin(base, m), base.head, CommitEvents(base, next, notes), With(next, next.steps, k))
             /\ Len(CommitEvents(base, next, notes)) \in Nat \ {0}
             /\ m = base.meta => k = next.meta
<1> DEFINE p == Origin(base, m)
           h == base.head
           O == Opening(base)
           S == StepsChanged(base, next)
           M == MetadataChanged(base, next)
           T == StatusChanged(base, next)
           C == Committed(base, next)
           st == With(base, base.steps, m)
           su == With(base, next.steps, m)
<1>1. h \in Nat /\ base.steps \in Seq(DoneStep) /\ StateOf(base) = With(base, base.steps, base.meta) /\ StateOf(base) \in State
    BY DoneRowIsRow DEF DoneRow
<1>2. Reaches(p, h, O, st)
    <2>1. CASE h = 0
        <3> DEFINE e == [type |-> "run_started", state |-> StateOf(base)]
        <3>1. O = <<e>> /\ p = Nothing /\ StateOf(base) = st
            BY <1>1, <2>1 DEF Opening, Origin
        <3>2. e \in Event
            BY <1>1 DEF Event
        <3>3. FoldEvent(Nothing, e) = Projection(1, StateOf(base))
            BY FoldStarts
        <3> HIDE DEF e, st
        <3>4. Folded(Nothing, <<e>>) = Projection(1, st)
            BY <3>1, <3>3, FoldedOne
        <3>5. After(h, <<e>>) = 1 /\ <<e>> \in Seq(Event)
            BY <2>1, <3>2 DEF After
        <3> QED
            BY <3>1, <3>4, <3>5 DEF Reaches
    <2>2. CASE h # 0
        <3>1. O = <<>> /\ p = Projection(h, st)
            BY <2>2 DEF Opening, Origin
        <3>2. Folded(p, <<>>) = p /\ <<>> \in Seq(Event) /\ After(h, <<>>) = h
            BY <1>1, FoldedNone DEF After
        <3> HIDE DEF p, st
        <3> QED
            BY <3>1, <3>2 DEF Reaches
    <2> QED
        BY <2>1, <2>2
<1> HIDE DEF p, h, O, st
<1>3. ASSUME NEW g \in Nat PROVE Reaches(Projection(g, st), g, notes, st)
    <2>1. CASE notes = <<>>
        BY <2>1, FoldedNone DEF Reaches, After
    <2>2. CASE \E t \in NoteType : notes = Note(t)
        <3>1. PICK t \in NoteType : notes = <<[type |-> t]>>
            BY <2>2 DEF Note
        <3> QED
            BY <3>1, NotesFold DEF Reaches, After
    <2> QED
        BY <2>1, <2>2 DEF Notes
<1>4. ASSUME NEW g \in Nat PROVE Reaches(Projection(g, st), g, S, su)
    BY StepsFold DEF Reaches, After, st
<1>5. ASSUME NEW g \in Nat
      PROVE \E k \in SUBSET Keys : Reaches(Projection(g, su), g, M, With(base, next.steps, k)) /\ (m = base.meta => k = next.meta)
    BY MetadataFold DEF Reaches
<1>6. ASSUME NEW g \in Nat, NEW k \in SUBSET Keys
      PROVE  Reaches(Projection(g, With(base, next.steps, k)), g, T, With(base, next.steps, k))
    <2> DEFINE sv == With(base, next.steps, k)
    <2> HIDE DEF sv
    <2>0. SUFFICES Reaches(Projection(g, sv), g, T, sv)
        BY DEF sv
    <2>1. CASE next.status = base.status
        <3>1. T = <<>>
            BY <2>1 DEF StatusChanged
        <3> QED
            BY <3>1, FoldedNone DEF Reaches, After
    <2>2. CASE next.status # base.status
        <3>1. T = <<[type |-> "status_changed"]>>
            BY <2>2 DEF StatusChanged
        <3> QED
            BY <3>1, NotesFold DEF Reaches, After
    <2> QED
        BY <2>1, <2>2
<1>7. ASSUME NEW g \in Nat, NEW k \in SUBSET Keys
      PROVE  Reaches(Projection(g, With(base, next.steps, k)), g, C, With(next, next.steps, k)) /\ Len(C) = 1
    BY CommittedFold DEF Reaches, After
<1> HIDE DEF S, M, T, C, su
<1>8. After(h, O) \in Nat
    BY <1>1, <1>2 DEF Reaches, After
<1>9. Reaches(p, h, O \o notes, st)
    BY <1>1, <1>2, <1>3, <1>8, ReachesOn
<1>10. After(h, O \o notes) \in Nat
    BY <1>1, <1>9 DEF Reaches, After
<1>11. Reaches(p, h, O \o notes \o S, su)
    BY <1>1, <1>4, <1>9, <1>10, ReachesOn
<1>12. After(h, O \o notes \o S) \in Nat
    BY <1>1, <1>11 DEF Reaches, After
<1>13. PICK k \in SUBSET Keys :
        /\ Reaches(Projection(After(h, O \o notes \o S), su), After(h, O \o notes \o S), M, With(base, next.steps, k))
        /\ m = base.meta => k = next.meta
    BY <1>5, <1>12
<1>14. Reaches(p, h, O \o notes \o S \o M, With(base, next.steps, k))
    BY <1>1, <1>11, <1>13, ReachesOn
<1>15. After(h, O \o notes \o S \o M) \in Nat
    BY <1>1, <1>14 DEF Reaches, After
<1>16. Reaches(p, h, O \o notes \o S \o M \o T, With(base, next.steps, k))
    BY <1>1, <1>6, <1>14, <1>15, ReachesOn
<1>17. After(h, O \o notes \o S \o M \o T) \in Nat
    BY <1>1, <1>16 DEF Reaches, After
<1>18. Reaches(p, h, O \o notes \o S \o M \o T \o C, With(next, next.steps, k))
    BY <1>1, <1>7, <1>16, <1>17, ReachesOn
<1>19. Len(O \o notes \o S \o M \o T \o C) \in Nat \ {0}
    <2> DEFINE a == O \o notes \o S \o M \o T
    <2>1. a \in Seq(Event) /\ C \in Seq(Event) /\ Len(C) = 1
        BY <1>7, <1>16, <1>17 DEF Reaches
    <2> HIDE DEF a
    <2>2. Len(a \o C) = Len(a) + Len(C) /\ Len(a) \in Nat
        BY <2>1, ConcatProperties, LenProperties
    <2>3. Len(a \o C) \in Nat \ {0}
        BY <2>1, <2>2
    <2> QED
        BY <2>3 DEF a
<1>20. CommitEvents(base, next, notes) = O \o notes \o S \o M \o T \o C
    BY DEF CommitEvents, O, S, M, T, C
<1> QED
    BY <1>13, <1>18, <1>19, <1>20 DEF p, h

-----------------------------------------------------------------------------
(* The inductive invariant.                                                *)

Tell == [pod : Pods, before : DoneRow, after : DoneRow, events : Seq(Event)]

TypeInv ==
    /\ team \in BOOLEAN
    /\ row \in DoneRow
    /\ holder \in Pods \cup {NoPod} /\ taken \in Nat
    /\ log \in Seq(Event)
    /\ work \in [Pods -> [pc : {"idle", "load", "step", "memory", "release"}, copy : DoneRow]]
    /\ told \in SUBSET Tell
    /\ cache \in [Pods -> [is : {"at", "nothing"}, head : Nat, state : State]]
    /\ alarms \in Nat /\ around \in Nat /\ outside \in 0..MaxOutside
    /\ deliver \in [pod : Pods \cup {NoPod}, pc : {"idle", "claim", "record", "done"}, meta : SUBSET Keys]

\* The log folds to the row, but for metadata written around it.
LogInv ==
    IF row.head = 0 THEN log = <<>>
    ELSE \E m \in SUBSET Keys :
            /\ Len(log) = row.head
            /\ Reaches(Nothing, 0, log, With(row, row.steps, m))
            /\ around = 0 => m = row.meta

\* The events of a write fold from the row it locked to the row it wrote.
ToldInv ==
    \A w \in told :
        /\ w.after.head = w.before.head + Len(w.events)
        /\ w.before.head < w.after.head /\ w.after.head <= row.head
        /\ Reaches(Origin(w.before, w.before.meta), w.before.head, w.events, StateOf(w.after))

\* Two accounts of the run at one head agree, except where a write was made
\* around the log, at head hole.
Agree(h, a, g, b, hole) == h = g => a = b \/ (around = 1 /\ h = hole)

CacheInv(hole) ==
    \A p \in Pods : cache[p] # Nothing =>
        /\ cache[p] = Projection(cache[p].head, cache[p].state)
        /\ 0 < cache[p].head /\ cache[p].head <= row.head
        /\ Agree(cache[p].head, cache[p].state, row.head, StateOf(row), hole)
        /\ \A w \in told : Agree(cache[p].head, cache[p].state, w.before.head, StateOf(w.before), hole)

WroteInv(hole) ==
    \A w \in told :
        /\ Agree(w.after.head, StateOf(w.after), row.head, StateOf(row), hole)
        /\ \A v \in told : Agree(w.after.head, StateOf(w.after), v.before.head, StateOf(v.before), hole)
        /\ \A v \in told : v # w => v.before.head # w.before.head

\* One write is made around the log at most, and one check at most starts
\* from the head it was made at.
HoleInv(hole) ==
    /\ around = 0 \/ (around = 1 /\ deliver.pc = "done" /\ hole <= row.head)
    /\ alarms = 0 \/ (alarms = 1 /\ around = 1 /\ hole < row.head /\ \A w \in told : w.before.head # hole)

AlarmInv == \E hole \in Nat : CacheInv(hole) /\ WroteInv(hole) /\ HoleInv(hole)

Inv == TypeInv /\ LogInv /\ ToldInv /\ AlarmInv

\* What the callers of writeRun make of a row is a row of finished steps.
LEMMA NextRows ==
    ASSUME NEW c \in DoneRow
    PROVE  /\ \A t \in StepType : [c EXCEPT !.steps = Append(@, Step(t))] \in DoneRow
           /\ \A s \in Status : [c EXCEPT !.status = s] \in DoneRow
           /\ \A s \in Status : [c EXCEPT !.status = s, !.error = "error"] \in DoneRow
           /\ \A s \in Status : \A t \in StepType : [c EXCEPT !.status = s, !.error = "error", !.steps = Append(@, Step(t))] \in DoneRow
           /\ \A k \in Keys : [c EXCEPT !.meta = @ \cup {k}] \in DoneRow
           /\ \A m \in SUBSET Keys : [c EXCEPT !.meta = m] \in DoneRow
           /\ \A d \in DoneRow : [c EXCEPT !.steps = Append(d.steps, Step("memory_save")), !.meta = d.meta] \in DoneRow
           /\ Outcomes(c) \subseteq DoneRow
<1>1. \A t \in StepType : Step(t) \in DoneStep
    BY DEF Step, DoneStep
<1>2. \A ss \in Seq(DoneStep) : \A t \in StepType : Append(ss, Step(t)) \in Seq(DoneStep)
    BY <1>1
<1>3. c.steps \in Seq(DoneStep) /\ c.step + 1 \in Nat
    BY DEF DoneRow
<1>4. {"running", "waiting", "completed", "failed"} \subseteq Status /\ {"tool_call", "llm_call", "error", "memory_save"} \subseteq StepType
      /\ "limitTrip" \in Keys /\ "error" \in Error
    BY DEF Status, Terminal, StepType, Keys, Error
<1>5. c.steps \o <<Step("tool_call"), Step("llm_call")>> \in Seq(DoneStep)
    <2>1. <<Step("tool_call"), Step("llm_call")>> \in Seq(DoneStep)
        BY <1>1, <1>4
    <2> HIDE DEF Step
    <2> QED
        BY <1>3, <2>1, ConcatProperties
<1>6. \A t \in StepType : Append(c.steps, Step(t)) \in Seq(DoneStep)
    BY <1>2, <1>3
<1>7. Outcomes(c) \subseteq DoneRow
    <2>1. \A s \in {"running", "waiting"} :
            [c EXCEPT !.step = @ + 1, !.steps = @ \o <<Step("tool_call"), Step("llm_call")>>, !.status = s] \in DoneRow
        BY <1>3, <1>4, <1>5 DEF DoneRow
    <2>2. [c EXCEPT !.step = @ + 1, !.steps = Append(@, Step("llm_call")), !.status = "completed"] \in DoneRow
        BY <1>3, <1>4, <1>6 DEF DoneRow
    <2>3. [c EXCEPT !.status = "failed", !.error = "error", !.steps = Append(@, Step("error"))] \in DoneRow
        BY <1>3, <1>4, <1>6 DEF DoneRow
    <2>4. [c EXCEPT !.status = "failed", !.error = "error", !.meta = @ \cup {"limitTrip"}] \in DoneRow
        BY <1>3, <1>4 DEF DoneRow
    <2> QED
        BY <2>1, <2>2, <2>3, <2>4 DEF Outcomes
<1>8. \A d \in DoneRow : [c EXCEPT !.steps = Append(d.steps, Step("memory_save")), !.meta = d.meta] \in DoneRow
    <2>1. \A d \in DoneRow : d.steps \in Seq(DoneStep) /\ d.meta \in SUBSET Keys
        BY DEF DoneRow
    <2>2. \A d \in DoneRow : Append(d.steps, Step("memory_save")) \in Seq(DoneStep)
        BY <1>2, <1>4, <2>1
    <2> QED
        BY <2>1, <2>2 DEF DoneRow
<1>10. \A t \in StepType : [c EXCEPT !.steps = Append(@, Step(t))] \in DoneRow
    BY <1>4, <1>6 DEF DoneRow
<1>11. \A s \in Status : \A t \in StepType : [c EXCEPT !.status = s, !.error = "error", !.steps = Append(@, Step(t))] \in DoneRow
    BY <1>4, <1>6 DEF DoneRow
<1>12. /\ \A s \in Status : [c EXCEPT !.status = s] \in DoneRow
       /\ \A s \in Status : [c EXCEPT !.status = s, !.error = "error"] \in DoneRow
       /\ \A k \in Keys : [c EXCEPT !.meta = @ \cup {k}] \in DoneRow
       /\ \A m \in SUBSET Keys : [c EXCEPT !.meta = m] \in DoneRow
    BY <1>4 DEF DoneRow
<1> QED
    BY <1>7, <1>8, <1>10, <1>11, <1>12

LEMMA HeadSet ==
    ASSUME NEW c \in DoneRow, NEW n \in Nat
    PROVE  /\ [c EXCEPT !.head = n] \in DoneRow /\ [c EXCEPT !.head = n].head = n
           /\ StateOf([c EXCEPT !.head = n]) = StateOf(c)
BY DEF DoneRow, StateOf

LEMMA InvInit == Init => Inv
<1> SUFFICES ASSUME Init PROVE Inv
    OBVIOUS
<1>1. New \in DoneRow /\ New.head = 0
    BY DEF New, DoneRow, Status, Terminal, Keys, Error
<1>2. Nothing \in [is : {"at", "nothing"}, head : Nat, state : State]
    BY DEF Nothing, Blank, State, Status, Terminal, Keys, Error
<1>3. TypeInv
    <2>1. <<>> \in Seq(Event)
        OBVIOUS
    <2>2. Idle \in [pc : {"idle", "load", "step", "memory", "release"}, copy : DoneRow]
        BY <1>1 DEF Idle
    <2> QED
        BY <1>1, <1>2, <2>1, <2>2, RunLogAssumption DEF Init, TypeInv
<1>4. LogInv /\ ToldInv
    BY <1>1 DEF Init, LogInv, ToldInv
<1>5. CacheInv(0) /\ WroteInv(0) /\ HoleInv(0)
    BY DEF Init, CacheInv, WroteInv, HoleInv
<1> QED
    BY <1>3, <1>4, <1>5 DEF Inv, AlarmInv

\* writeRun keeps the log true, whatever its caller makes of the row.
LEMMA WriteTyped ==
    ASSUME TypeInv, NEW p \in Pods, NEW next \in DoneRow, NEW notes \in Notes, WriteRun(p, next, notes)
    PROVE  /\ row' \in DoneRow /\ log' \in Seq(Event) /\ told' \in SUBSET Tell
           /\ \E events \in Seq(Event) :
                /\ events = CommitEvents(row, next, notes)
                /\ Len(events) \in Nat \ {0}
                /\ log' = log \o events
                /\ row'.head = row.head + Len(events) /\ row.head < row'.head
                /\ StateOf(row') = StateOf(next)
                /\ told' = told \cup {[pod |-> p, before |-> row, after |-> row', events |-> events]}
<1> DEFINE events == CommitEvents(row, next, notes)
<1>1. row \in DoneRow /\ log \in Seq(Event) /\ told \in SUBSET Tell /\ row.head \in Nat /\ row.meta \in SUBSET Keys
    BY DEF TypeInv, DoneRow
<1>2. events \in Seq(Event) /\ Len(events) \in Nat \ {0}
    BY <1>1, WriteFolds DEF Reaches
<1>3. /\ row' = [next EXCEPT !.head = row.head + Len(events)]
      /\ log' = log \o events
      /\ told' = told \cup {[pod |-> p, before |-> row, after |-> row', events |-> events]}
    BY DEF WriteRun, Baseline, HeadAfter
<1> HIDE DEF events
<1>4. row' \in DoneRow /\ StateOf(row') = StateOf(next) /\ row'.head = row.head + Len(events)
    <2> DEFINE n == row.head + Len(events)
    <2>1. n \in Nat
        BY <1>1, <1>2
    <2> HIDE DEF n
    <2>2. row' = [next EXCEPT !.head = n]
        BY <1>3 DEF n
    <2>3. row' \in DoneRow /\ StateOf(row') = StateOf(next) /\ (row').head = n
        BY <2>1, <2>2, HeadSet, Zenon
    <2> QED
        BY <2>3 DEF n
<1>5. log' \in Seq(Event)
    BY <1>1, <1>2, <1>3, ConcatProperties
<1>6. told' \in SUBSET Tell
    <2>1. [pod |-> p, before |-> row, after |-> row', events |-> events] \in Tell
        BY <1>1, <1>2, <1>4 DEF Tell
    <2> QED
        BY <1>1, <1>3, <2>1
<1>7. row.head < row'.head
    BY <1>1, <1>2, <1>4
<1> QED
    BY <1>2, <1>3, <1>4, <1>5, <1>6, <1>7 DEF events

LEMMA WriteKeepsLog ==
    ASSUME TypeInv, LogInv, NEW p \in Pods, NEW next \in DoneRow, NEW notes \in Notes, WriteRun(p, next, notes), around' = around
    PROVE  LogInv'
<1>1. row \in DoneRow /\ row.head \in Nat /\ row.meta \in SUBSET Keys /\ log \in Seq(Event) /\ row' \in DoneRow
    BY WriteTyped DEF TypeInv, DoneRow
<1>2. PICK events \in Seq(Event) :
        /\ events = CommitEvents(row, next, notes)
        /\ Len(events) \in Nat \ {0}
        /\ log' = log \o events
        /\ row'.head = row.head + Len(events)
        /\ StateOf(row') = StateOf(next)
    BY WriteTyped
<1>3. \A k : With(row', (row').steps, k) = With(next, next.steps, k) /\ (row').meta = next.meta
    <2>1. /\ (row').status = next.status /\ (row').step = next.step /\ (row').steps = next.steps
          /\ (row').meta = next.meta /\ (row').error = next.error
        BY <1>2 DEF StateOf
    <2> QED
        BY <2>1 DEF With
<1>4. row'.head # 0 /\ row'.head = (row').head
    BY <1>1, <1>2
<1>5. CASE row.head = 0
    <2>1. log = <<>>
        BY <1>5 DEF LogInv
    <2>2. PICK k \in SUBSET Keys : Reaches(Origin(row, row.meta), row.head, events, With(next, next.steps, k)) /\ k = next.meta
        <3> DEFINE m == row.meta
        <3>1. m \in SUBSET Keys /\ m = row.meta
            BY <1>1
        <3> HIDE DEF m
        <3>2. \E k \in SUBSET Keys :
                /\ Reaches(Origin(row, m), row.head, events, With(next, next.steps, k))
                /\ m = row.meta => k = next.meta
            BY <1>1, <1>2, <3>1, WriteFolds
        <3> QED
            BY <3>1, <3>2
    <2>3. Origin(row, row.meta) = Nothing
        BY <1>5 DEF Origin
    <2>4. log' = events /\ Len(log') = row'.head
        BY <1>2, <1>5, <2>1
    <2>5. Reaches(Nothing, 0, log', With(row', (row').steps, k))
        BY <1>3, <1>5, <2>2, <2>3, <2>4
    <2> QED
        BY <1>3, <1>4, <2>2, <2>4, <2>5 DEF LogInv
<1>6. CASE row.head # 0
    <2>1. PICK m \in SUBSET Keys :
            /\ Len(log) = row.head
            /\ Reaches(Nothing, 0, log, With(row, row.steps, m))
            /\ around = 0 => m = row.meta
        BY <1>6 DEF LogInv
    <2>2. PICK k \in SUBSET Keys :
            /\ Reaches(Origin(row, m), row.head, events, With(next, next.steps, k))
            /\ m = row.meta => k = next.meta
        BY <1>1, <1>2, <1>6, WriteFolds
    <2>3. Origin(row, m) = Projection(row.head, With(row, row.steps, m)) /\ After(0, log) = row.head
        BY <1>1, <1>6, <2>1 DEF Origin, After
    <2>4. Reaches(Nothing, 0, log \o events, With(next, next.steps, k))
        BY <2>1, <2>2, <2>3, ReachesOn
    <2>5. Len(log') = row'.head
        BY <1>1, <1>2, <2>1
    <2>6. Reaches(Nothing, 0, log', With(row', (row').steps, k))
        BY <1>2, <1>3, <2>4
    <2>7. around' = 0 => k = (row').meta
        BY <1>3, <2>1, <2>2
    <2> QED
        BY <1>4, <2>5, <2>6, <2>7 DEF LogInv
<1> QED
    BY <1>5, <1>6

LEMMA WriteKeepsTold ==
    ASSUME TypeInv, ToldInv, NEW p \in Pods, NEW next \in DoneRow, NEW notes \in Notes, WriteRun(p, next, notes)
    PROVE  ToldInv'
<1>1. row \in DoneRow /\ row.head \in Nat /\ row.meta \in SUBSET Keys /\ told \in SUBSET Tell /\ row' \in DoneRow
    BY WriteTyped DEF TypeInv, DoneRow
<1>2. PICK events \in Seq(Event) :
        /\ events = CommitEvents(row, next, notes)
        /\ Len(events) \in Nat \ {0}
        /\ row'.head = row.head + Len(events) /\ row.head < row'.head
        /\ StateOf(row') = StateOf(next)
        /\ told' = told \cup {[pod |-> p, before |-> row, after |-> row', events |-> events]}
    BY WriteTyped
<1> DEFINE n == [pod |-> p, before |-> row, after |-> row', events |-> events]
<1>3. n.before = row /\ n.after = row' /\ n.events = events
    OBVIOUS
<1> HIDE DEF n
<1>4. Reaches(Origin(row, row.meta), row.head, events, StateOf(row'))
    <2> DEFINE m == row.meta
    <2>1. m \in SUBSET Keys /\ m = row.meta
        BY <1>1
    <2> HIDE DEF m
    <2>2. PICK k \in SUBSET Keys :
            /\ Reaches(Origin(row, m), row.head, events, With(next, next.steps, k))
            /\ m = row.meta => k = next.meta
        BY <1>1, <1>2, <2>1, WriteFolds
    <2>3. StateOf(next) = With(next, next.steps, next.meta)
        BY DoneRowIsRow
    <2> QED
        BY <1>2, <2>1, <2>2, <2>3
<1>5. ASSUME NEW w \in told
      PROVE  /\ w.after.head = w.before.head + Len(w.events)
             /\ w.before.head < w.after.head /\ w.after.head <= (row').head
             /\ Reaches(Origin(w.before, w.before.meta), w.before.head, w.events, StateOf(w.after))
    <2>1. w.after.head \in Nat /\ (row').head \in Nat
        BY <1>1 DEF Tell, DoneRow
    <2> QED
        BY <1>1, <1>2, <2>1 DEF ToldInv
<1>6. /\ n.after.head = n.before.head + Len(n.events)
      /\ n.before.head < n.after.head /\ n.after.head <= (row').head
      /\ Reaches(Origin(n.before, n.before.meta), n.before.head, n.events, StateOf(n.after))
    <2>1. (row').head \in Nat
        BY <1>1 DEF DoneRow
    <2> QED
        BY <1>1, <1>2, <1>3, <1>4, <2>1
<1>7. told' = told \cup {n}
    BY <1>2 DEF n
<1> QED
    BY <1>5, <1>6, <1>7 DEF ToldInv

LEMMA WriteKeepsAlarm ==
    ASSUME TypeInv, ToldInv, AlarmInv, NEW p \in Pods, NEW next \in DoneRow, NEW notes \in Notes, WriteRun(p, next, notes),
           UNCHANGED <<cache, alarms, around>>, deliver.pc = "done" => deliver'.pc = "done"
    PROVE  AlarmInv'
<1>1. /\ row \in DoneRow /\ row.head \in Nat /\ row' \in DoneRow /\ (row').head \in Nat
      /\ told \in SUBSET Tell
      /\ \A w \in told : w.before.head \in Nat /\ w.after.head \in Nat
      /\ \A q \in Pods : cache[q].head \in Nat
    BY WriteTyped DEF TypeInv, DoneRow, Tell
<1>2. PICK events \in Seq(Event) :
        /\ row.head < row'.head
        /\ told' = told \cup {[pod |-> p, before |-> row, after |-> row', events |-> events]}
    BY WriteTyped
<1> DEFINE n == [pod |-> p, before |-> row, after |-> row', events |-> events]
<1>3. n.before = row /\ n.after = row'
    OBVIOUS
<1>4. told' = told \cup {n}
    BY <1>2
<1> HIDE DEF n
<1>5. PICK hole \in Nat : CacheInv(hole) /\ WroteInv(hole) /\ HoleInv(hole)
    BY DEF AlarmInv
<1>6. \A w \in told : w.before.head < row.head /\ w.after.head <= row.head
    BY <1>1 DEF ToldInv
<1>7. CacheInv(hole)'
    <2>1. SUFFICES ASSUME NEW q \in Pods, cache[q] # Nothing
                   PROVE  /\ cache[q] = Projection(cache[q].head, cache[q].state)
                          /\ 0 < cache[q].head /\ cache[q].head <= (row').head
                          /\ Agree(cache[q].head, cache[q].state, (row').head, StateOf(row'), hole)
                          /\ \A w \in told' : Agree(cache[q].head, cache[q].state, w.before.head, StateOf(w.before), hole)
        BY DEF CacheInv, Agree
    <2>2. /\ cache[q] = Projection(cache[q].head, cache[q].state)
          /\ 0 < cache[q].head /\ cache[q].head <= row.head
          /\ Agree(cache[q].head, cache[q].state, row.head, StateOf(row), hole)
          /\ \A w \in told : Agree(cache[q].head, cache[q].state, w.before.head, StateOf(w.before), hole)
        BY <1>5, <2>1 DEF CacheInv
    <2>3. cache[q].head # (row').head
        BY <1>1, <1>2, <2>2
    <2>4. \A w \in told' : Agree(cache[q].head, cache[q].state, w.before.head, StateOf(w.before), hole)
        BY <1>3, <1>4, <2>2
    <2> QED
        BY <1>1, <1>2, <2>2, <2>3, <2>4 DEF Agree
<1>8. WroteInv(hole)'
    <2>1. SUFFICES ASSUME NEW w \in told'
                   PROVE  /\ Agree(w.after.head, StateOf(w.after), (row').head, StateOf(row'), hole)
                          /\ \A v \in told' : Agree(w.after.head, StateOf(w.after), v.before.head, StateOf(v.before), hole)
                          /\ \A v \in told' : v # w => v.before.head # w.before.head
        BY DEF WroteInv, Agree
    <2>2. CASE w = n
        <3>1. w.after.head = (row').head /\ StateOf(w.after) = StateOf(row') /\ w.before.head = row.head
            BY <1>3, <2>2
        <3>2. \A v \in told' : v.before.head <= row.head
            BY <1>1, <1>3, <1>4, <1>6
        <3>3. \A v \in told' : v.before.head # w.after.head
            BY <1>1, <1>2, <1>3, <1>4, <1>6, <3>1
        <3>4. \A v \in told' : v # w => v.before.head # w.before.head
            BY <1>1, <1>4, <1>6, <2>2, <3>1
        <3> QED
            BY <3>1, <3>3, <3>4 DEF Agree
    <2>3. CASE w \in told
        <3>1. /\ Agree(w.after.head, StateOf(w.after), row.head, StateOf(row), hole)
              /\ \A v \in told : Agree(w.after.head, StateOf(w.after), v.before.head, StateOf(v.before), hole)
              /\ \A v \in told : v # w => v.before.head # w.before.head
            BY <1>5, <2>3 DEF WroteInv
        <3>2. w.after.head # (row').head
            BY <1>1, <1>2, <1>6, <2>3
        <3>3. \A v \in told' : Agree(w.after.head, StateOf(w.after), v.before.head, StateOf(v.before), hole)
            BY <1>3, <1>4, <3>1
        <3>4. \A v \in told' : v # w => v.before.head # w.before.head
            BY <1>1, <1>3, <1>4, <1>6, <2>3, <3>1
        <3> QED
            BY <3>2, <3>3, <3>4 DEF Agree
    <2> QED
        BY <1>4, <2>2, <2>3
<1>9. HoleInv(hole)'
    <2>1. hole <= row.head => hole <= (row').head
        BY <1>1, <1>2
    <2>2. hole < row.head => hole < (row').head /\ n.before.head # hole
        BY <1>1, <1>2, <1>3
    <2>3. HoleInv(hole)
        BY <1>5
    <2> QED
        BY <1>4, <2>1, <2>2, <2>3 DEF HoleInv
<1> QED
    BY <1>7, <1>8, <1>9 DEF AlarmInv

\* What writes nothing keeps it: listeners and projections may get lost.
LEMMA StillKeeps ==
    ASSUME TypeInv, LogInv, ToldInv, AlarmInv, UNCHANGED <<row, log, alarms, around>>, told' \subseteq told,
           \A p \in Pods : cache'[p] \in {cache[p], Nothing}, deliver.pc = "done" => deliver'.pc = "done"
    PROVE  LogInv' /\ ToldInv' /\ AlarmInv'
<1>1. LogInv' /\ ToldInv'
    BY DEF LogInv, ToldInv
<1>2. PICK hole \in Nat : CacheInv(hole) /\ WroteInv(hole) /\ HoleInv(hole)
    BY DEF AlarmInv
<1>3. CacheInv(hole)'
    <2>1. SUFFICES ASSUME NEW q \in Pods, cache'[q] # Nothing
                   PROVE  /\ cache'[q] = Projection(cache'[q].head, cache'[q].state)
                          /\ 0 < cache'[q].head /\ cache'[q].head <= row.head
                          /\ Agree(cache'[q].head, cache'[q].state, row.head, StateOf(row), hole)
                          /\ \A w \in told' : Agree(cache'[q].head, cache'[q].state, w.before.head, StateOf(w.before), hole)
        BY DEF CacheInv, Agree
    <2>2. cache'[q] = cache[q]
        BY <2>1
    <2> QED
        BY <1>2, <2>1, <2>2 DEF CacheInv
<1>4. WroteInv(hole)'
    BY <1>2 DEF WroteInv, Agree
<1>5. HoleInv(hole)'
    BY <1>2 DEF HoleInv
<1> QED
    BY <1>1, <1>3, <1>4, <1>5 DEF AlarmInv

\* The one write around the log: the hole is where it is made.
LEMMA WebhookKeeps ==
    ASSUME TypeInv, LogInv, ToldInv, AlarmInv, NEW p \in Pods, RecordWebhook(p)
    PROVE  LogInv' /\ ToldInv' /\ AlarmInv'
<1>1. /\ row \in DoneRow /\ row.head \in Nat /\ told \in SUBSET Tell /\ around \in Nat
      /\ \A q \in Pods : cache[q].head \in Nat
      /\ \A w \in told : w.before.head \in Nat /\ w.after.head \in Nat
    BY DEF TypeInv, DoneRow, Tell
<1>2. /\ row' = [row EXCEPT !.meta = deliver.meta \cup {"webhookDelivery"}]
      /\ around' = around + 1 /\ deliver' = Delivered /\ deliver.pc = "record"
      /\ UNCHANGED <<log, told, cache, alarms>>
    BY DEF RecordWebhook, Deliver
<1>3. (row').head = row.head /\ \A m : With(row', (row').steps, m) = With(row, row.steps, m)
    BY <1>1, <1>2 DEF DoneRow, With
<1>4. around = 0 /\ alarms = 0
    BY <1>2 DEF AlarmInv, HoleInv
<1>5. around' = 1 /\ deliver'.pc = "done"
    BY <1>2, <1>4 DEF Delivered
<1>6. LogInv'
    <2>1. CASE row.head = 0
        BY <1>2, <1>3, <2>1 DEF LogInv
    <2>2. CASE row.head # 0
        <3>1. PICK m \in SUBSET Keys : Len(log) = row.head /\ Reaches(Nothing, 0, log, With(row, row.steps, m))
            BY <2>2 DEF LogInv
        <3>2. Len(log') = (row').head /\ Reaches(Nothing, 0, log', With(row', (row').steps, m)) /\ around' # 0
            <4>1. log' = log /\ With(row', (row').steps, m) = With(row, row.steps, m)
                BY <1>2, <1>3
            <4> QED
                BY <1>3, <1>5, <3>1, <4>1
        <3> QED
            BY <1>3, <2>2, <3>2 DEF LogInv
    <2> QED
        BY <2>1, <2>2
<1>7. ToldInv'
    BY <1>2, <1>3 DEF ToldInv
<1>8. PICK hole \in Nat : CacheInv(hole) /\ WroteInv(hole) /\ HoleInv(hole)
    BY DEF AlarmInv
<1>12. PICK new \in Nat : new = row.head
    BY <1>1
<1>9. CacheInv(new)'
    <2>1. SUFFICES ASSUME NEW q \in Pods, cache[q] # Nothing
                   PROVE  /\ cache[q] = Projection(cache[q].head, cache[q].state)
                          /\ 0 < cache[q].head /\ cache[q].head <= row.head
                          /\ cache[q].head = row.head => cache[q].state = StateOf(row') \/ cache[q].head = new
                          /\ \A w \in told : cache[q].head = w.before.head => cache[q].state = StateOf(w.before) \/ cache[q].head = new
        BY <1>2, <1>3, <1>5 DEF CacheInv, Agree
    <2> QED
        BY <1>4, <1>8, <1>12, <2>1 DEF CacheInv, Agree
<1>10. WroteInv(new)'
    <2>1. SUFFICES ASSUME NEW w \in told
                   PROVE  /\ w.after.head = row.head => StateOf(w.after) = StateOf(row') \/ w.after.head = new
                          /\ \A v \in told : w.after.head = v.before.head => StateOf(w.after) = StateOf(v.before) \/ w.after.head = new
                          /\ \A v \in told : v # w => v.before.head # w.before.head
        BY <1>2, <1>3, <1>5 DEF WroteInv, Agree
    <2> QED
        BY <1>4, <1>8, <1>12 DEF WroteInv, Agree
<1>11. HoleInv(new)'
    BY <1>12, <1>1, <1>2, <1>3, <1>4, <1>5 DEF HoleInv
<1> QED
    BY <1>1, <1>6, <1>7, <1>9, <1>10, <1>11 DEF AlarmInv

LEMMA CheckKeeps ==
    ASSUME TypeInv, LogInv, ToldInv, AlarmInv, NEW x \in told, Check(x)
    PROVE  TypeInv' /\ LogInv' /\ ToldInv' /\ AlarmInv'
<1> DEFINE projection == FoldRunEvents(Start(x), x.before.head, x.events)
           written    == Projection(x.after.head, StateOf(x.after))
<1>1. /\ told' = told \ {x}
      /\ alarms' = IF projection = written THEN alarms ELSE alarms + 1
      /\ cache' = [cache EXCEPT ![x.pod] = IF x.after.status \in Terminal THEN Nothing ELSE written]
      /\ UNCHANGED <<row, holder, taken, log, work, around, deliver, outside, team>>
    BY DEF Check
<1>2. /\ x.pod \in Pods /\ x.before \in DoneRow /\ x.after \in DoneRow /\ x.events \in Seq(Event)
      /\ x.before.head \in Nat /\ x.after.head \in Nat /\ StateOf(x.after) \in State /\ row.head \in Nat
      /\ \A q \in Pods : cache[q].head \in Nat
      /\ \A w \in told : w.before.head \in Nat /\ w.after.head \in Nat
    <2>1. x.pod \in Pods /\ x.before \in DoneRow /\ x.after \in DoneRow /\ x.events \in Seq(Event)
        BY DEF TypeInv, Tell
    <2>2. StateOf(x.after) \in State
        BY <2>1, DoneRowIsRow
    <2> QED
        BY <2>1, <2>2 DEF TypeInv, Tell, DoneRow
<1>3. x.before.head < x.after.head /\ x.after.head <= row.head /\ x.after.head = x.before.head + Len(x.events)
      /\ Reaches(Origin(x.before, x.before.meta), x.before.head, x.events, StateOf(x.after))
    BY DEF ToldInv
<1>4. PICK hole \in Nat : CacheInv(hole) /\ WroteInv(hole) /\ HoleInv(hole)
    BY DEF AlarmInv
<1>5. Start(x) = Origin(x.before, x.before.meta) \/ (around = 1 /\ x.before.head = hole)
    <2>1. StateOf(x.before) = With(x.before, x.before.steps, x.before.meta)
        BY <1>2, DoneRowIsRow
    <2>2. CASE cache[x.pod] # Nothing /\ cache[x.pod].head = x.before.head
        <3>1. Start(x) = cache[x.pod]
            BY <2>2 DEF Start
        <3>2. /\ cache[x.pod] = Projection(cache[x.pod].head, cache[x.pod].state) /\ 0 < cache[x.pod].head
              /\ Agree(cache[x.pod].head, cache[x.pod].state, x.before.head, StateOf(x.before), hole)
            BY <1>2, <1>4, <2>2 DEF CacheInv
        <3>3. x.before.head # 0
            BY <1>2, <2>2, <3>2
        <3> QED
            BY <2>1, <2>2, <3>1, <3>2, <3>3 DEF Agree, Origin
    <2>3. CASE ~(cache[x.pod] # Nothing /\ cache[x.pod].head = x.before.head)
        BY <2>1, <2>3 DEF Start, Origin
    <2> QED
        BY <2>2, <2>3
<1>6. Start(x) = Origin(x.before, x.before.meta) => projection = written
    <2>1. Origin(x.before, x.before.meta).head = x.before.head
        BY DEF Origin, Nothing, Projection
    <2>2. Folded(Origin(x.before, x.before.meta), x.events) = Projection(x.after.head, StateOf(x.after))
        BY <1>3 DEF Reaches, After
    <2> QED
        BY <2>1, <2>2 DEF FoldRunEvents, Folded
<1> HIDE DEF projection
<1>7. alarms' = alarms \/ (alarms' = alarms + 1 /\ around = 1 /\ x.before.head = hole)
    BY <1>1, <1>5, <1>6
<1>8. /\ \A q \in Pods : cache'[q] # Nothing => cache'[q] = cache[q] \/ cache'[q] = written
      /\ written.head = x.after.head /\ written.state = StateOf(x.after)
    <2>1. \A q \in Pods : cache'[q] = IF q = x.pod THEN (IF x.after.status \in Terminal THEN Nothing ELSE written) ELSE cache[q]
        BY <1>1, <1>2 DEF TypeInv
    <2> QED
        BY <2>1 DEF Projection
<1>9. LogInv' /\ ToldInv'
    BY <1>1 DEF LogInv, ToldInv
<1>10. CacheInv(hole)'
    <2>1. SUFFICES ASSUME NEW q \in Pods, cache'[q] # Nothing
                   PROVE  /\ cache'[q] = Projection(cache'[q].head, cache'[q].state)
                          /\ 0 < cache'[q].head /\ cache'[q].head <= row.head
                          /\ Agree(cache'[q].head, cache'[q].state, row.head, StateOf(row), hole)
                          /\ \A w \in told : Agree(cache'[q].head, cache'[q].state, w.before.head, StateOf(w.before), hole)
        BY <1>1 DEF CacheInv, Agree
    <2>2. CASE cache'[q] = cache[q]
        BY <1>4, <2>1, <2>2 DEF CacheInv
    <2>3. CASE cache'[q] = written
        <3>1. /\ Agree(x.after.head, StateOf(x.after), row.head, StateOf(row), hole)
              /\ \A v \in told : Agree(x.after.head, StateOf(x.after), v.before.head, StateOf(v.before), hole)
            BY <1>4 DEF WroteInv
        <3>2. 0 < x.after.head
            BY <1>2, <1>3
        <3> QED
            BY <1>3, <1>8, <2>3, <3>1, <3>2
    <2> QED
        BY <1>8, <2>1, <2>2, <2>3
<1>11. WroteInv(hole)'
    BY <1>1, <1>4 DEF WroteInv, Agree
<1>12. HoleInv(hole)'
    <2>1. CASE alarms' = alarms
        BY <1>1, <1>4, <2>1 DEF HoleInv
    <2>2. CASE alarms' = alarms + 1 /\ around = 1 /\ x.before.head = hole
        <3>1. alarms = 0
            BY <1>4, <2>2 DEF HoleInv
        <3>2. hole < row.head
            BY <1>2, <1>3, <2>2
        <3>3. \A w \in told \ {x} : w.before.head # hole
            BY <1>4, <2>2 DEF WroteInv
        <3>4. deliver.pc = "done" /\ hole <= row.head
            BY <1>4, <2>2 DEF HoleInv
        <3> QED
            BY <1>1, <2>2, <3>1, <3>2, <3>3, <3>4 DEF HoleInv
    <2> QED
        BY <1>7, <2>1, <2>2
<1>13. TypeInv'
    <2>1. written \in [is : {"at", "nothing"}, head : Nat, state : State]
        BY <1>2 DEF Projection
    <2>2. Nothing \in [is : {"at", "nothing"}, head : Nat, state : State]
        BY DEF Nothing, Blank, State, Status, Terminal, Keys, Error
    <2> HIDE DEF written
    <2>3. cache' \in [Pods -> [is : {"at", "nothing"}, head : Nat, state : State]]
        BY <1>1, <2>1, <2>2 DEF TypeInv
    <2>4. alarms' \in Nat
        BY <1>7 DEF TypeInv
    <2> QED
        BY <1>1, <2>3, <2>4 DEF TypeInv
<1> QED
    BY <1>9, <1>10, <1>11, <1>12, <1>13 DEF AlarmInv

LEMMA WriteKeeps ==
    ASSUME Inv, NEW p \in Pods, NEW next \in DoneRow, NEW notes \in Notes, WriteRun(p, next, notes),
           UNCHANGED <<cache, alarms, around>>, deliver.pc = "done" => deliver'.pc = "done"
    PROVE  /\ row' \in DoneRow /\ log' \in Seq(Event) /\ told' \in SUBSET Tell
           /\ LogInv' /\ ToldInv' /\ AlarmInv'
<1>1. TypeInv /\ LogInv /\ ToldInv /\ AlarmInv
    BY DEF Inv
<1>2. around' = around
    OBVIOUS
<1> QED
    BY <1>1, <1>2, WriteTyped, WriteKeepsLog, WriteKeepsTold, WriteKeepsAlarm

WorkType == [pc : {"idle", "load", "step", "memory", "release"}, copy : DoneRow]

LEMMA WorkTyped ==
    ASSUME TypeInv, NEW p \in Pods
    PROVE  /\ work[p].copy \in DoneRow /\ work[p].pc \in {"idle", "load", "step", "memory", "release"}
           /\ \A pc \in {"idle", "load", "step", "memory", "release"} : [work EXCEPT ![p].pc = pc] \in [Pods -> WorkType]
           /\ \A v \in WorkType : [work EXCEPT ![p] = v] \in [Pods -> WorkType]
           /\ Idle \in WorkType
<1>1. work \in [Pods -> WorkType]
    BY DEF TypeInv, WorkType
<1>2. New \in DoneRow
    BY DEF New, DoneRow, Status, Terminal, Keys, Error
<1> QED
    BY <1>1, <1>2 DEF WorkType, Idle

LEMMA NoteTyped == <<>> \in Notes /\ \A t \in NoteType : Note(t) \in Notes
BY DEF Notes

\* The steps of the worker and of the pods.
LEMMA InvWork ==
    ASSUME Inv, NEW p \in Pods,
           Claim(p) \/ TakeOver(p) \/ Load(p) \/ CommitStep(p) \/ SaveMemory(p) \/ Persist(p) \/ Release(p)
    PROVE  Inv'
<1>0. /\ TypeInv /\ LogInv /\ ToldInv /\ AlarmInv
      /\ row \in DoneRow /\ work[p].copy \in DoneRow /\ p \in Pods \cup {NoPod} /\ taken \in Nat
      /\ holder \in Pods \cup {NoPod}
    BY WorkTyped DEF Inv, TypeInv
<1>1. CASE Claim(p)
    <2>1. work' \in [Pods -> WorkType]
        BY <1>0, <1>1, WorkTyped DEF Claim, To
    <2>2. LogInv' /\ ToldInv' /\ AlarmInv'
        BY <1>0, <1>1, StillKeeps DEF Claim
    <2>3. TypeInv'
        BY <1>0, <1>1, <2>1 DEF Claim, TypeInv, WorkType
    <2> QED
        BY <2>2, <2>3 DEF Inv
<1>2. CASE TakeOver(p)
    <2>0. taken' \in Nat /\ UNCHANGED <<cache, alarms, around, deliver, outside, team>> /\ Note("lease_taken_over") \in Notes
        BY <1>0, <1>2, NoteTyped DEF TakeOver, NoteType
    <2>1. CASE taken' < MaxTakeovers
        <3>1. WriteRun(p, row, Note("lease_taken_over")) /\ holder' = p /\ To(p, "load")
            BY <1>2, <2>1 DEF TakeOver
        <3>2. row' \in DoneRow /\ log' \in Seq(Event) /\ told' \in SUBSET Tell /\ LogInv' /\ ToldInv' /\ AlarmInv'
            BY <1>0, <2>0, <3>1, WriteKeeps
        <3>3. work' \in [Pods -> WorkType]
            BY <1>0, <3>1, WorkTyped DEF To
        <3>4. TypeInv'
            BY <1>0, <2>0, <3>1, <3>2, <3>3 DEF TypeInv, WorkType
        <3> QED
            BY <3>2, <3>4 DEF Inv
    <2>2. CASE ~(taken' < MaxTakeovers)
        <3> DEFINE next == [row EXCEPT !.status = "failed", !.error = "error"]
        <3>1. WriteRun(p, next, Note("lease_taken_over")) /\ holder' = NoPod /\ work' = work
            BY <1>2, <2>2 DEF TakeOver
        <3>2. next \in DoneRow
            BY <1>0, NextRows DEF Status, Terminal
        <3> HIDE DEF next
        <3>3. row' \in DoneRow /\ log' \in Seq(Event) /\ told' \in SUBSET Tell /\ LogInv' /\ ToldInv' /\ AlarmInv'
            BY <1>0, <2>0, <3>1, <3>2, WriteKeeps
        <3>4. TypeInv'
            BY <1>0, <2>0, <3>1, <3>3 DEF TypeInv
        <3> QED
            BY <3>3, <3>4 DEF Inv
    <2> QED
        BY <2>1, <2>2
<1>3. CASE Load(p)
    <2>1. [pc |-> IF row.status \in Terminal THEN "release" ELSE "step", copy |-> row] \in WorkType
        BY <1>0 DEF WorkType
    <2>2. work' \in [Pods -> WorkType]
        BY <1>0, <1>3, <2>1, WorkTyped DEF Load
    <2>3. LogInv' /\ ToldInv' /\ AlarmInv'
        BY <1>0, <1>3, StillKeeps DEF Load
    <2>4. TypeInv'
        BY <1>0, <1>3, <2>2 DEF Load, TypeInv, WorkType
    <2> QED
        BY <2>3, <2>4 DEF Inv
<1>4. CASE CommitStep(p)
    <2>0. UNCHANGED <<holder, cache, alarms, around, deliver, outside, team>>
        BY <1>4 DEF CommitStep
    <2>1. PICK next \in Outcomes(work[p].copy) :
            IF MayCommit(p)
            THEN /\ WriteRun(p, next, <<>>)
                 /\ taken' = 0
                 /\ work' = [work EXCEPT ![p] = [pc |-> IF next.status = "completed" THEN "memory" ELSE "release", copy |-> next]]
            ELSE To(p, "release") /\ UNCHANGED <<row, taken, log, told>>
        BY <1>4 DEF CommitStep
    <2>2. next \in DoneRow
        BY <1>0, NextRows
    <2>3. CASE MayCommit(p)
        <3>1. row' \in DoneRow /\ log' \in Seq(Event) /\ told' \in SUBSET Tell /\ LogInv' /\ ToldInv' /\ AlarmInv'
            BY <2>0, <2>1, <2>2, <2>3, NoteTyped, WriteKeeps
        <3>2. [pc |-> IF next.status = "completed" THEN "memory" ELSE "release", copy |-> next] \in WorkType
            BY <2>2 DEF WorkType
        <3>3. work' \in [Pods -> WorkType]
            <4> DEFINE v == [pc |-> IF next.status = "completed" THEN "memory" ELSE "release", copy |-> next]
            <4>1. work' = [work EXCEPT ![p] = v] /\ v \in WorkType
                BY <2>1, <2>3, <3>2
            <4> HIDE DEF v
            <4> QED
                BY <1>0, <4>1, WorkTyped
        <3>4. TypeInv'
            BY <1>0, <2>0, <2>1, <2>3, <3>1, <3>3 DEF TypeInv, WorkType
        <3> QED
            BY <3>1, <3>4 DEF Inv
    <2>4. CASE ~MayCommit(p)
        <3>1. work' \in [Pods -> WorkType]
            BY <1>0, <2>1, <2>4, WorkTyped DEF To
        <3>2. LogInv' /\ ToldInv' /\ AlarmInv'
            BY <1>0, <2>0, <2>1, <2>4, StillKeeps
        <3>3. TypeInv'
            BY <1>0, <2>0, <2>1, <2>4, <3>1 DEF TypeInv, WorkType
        <3> QED
            BY <3>2, <3>3 DEF Inv
    <2> QED
        BY <2>3, <2>4
<1>5. CASE SaveMemory(p)
    <2> DEFINE next == [row EXCEPT !.steps = Append(work[p].copy.steps, Step("memory_save")), !.meta = work[p].copy.meta]
    <2>0. UNCHANGED <<holder, taken, cache, alarms, around, deliver, outside, team>> /\ To(p, "release")
          /\ (IF holder = p THEN WriteRun(p, next, <<>>) ELSE UNCHANGED <<row, log, told>>)
        BY <1>5 DEF SaveMemory
    <2>1. next \in DoneRow
        BY <1>0, NextRows
    <2> HIDE DEF next
    <2>2. work' \in [Pods -> WorkType]
        BY <1>0, <2>0, WorkTyped DEF To
    <2>3. row' \in DoneRow /\ log' \in Seq(Event) /\ told' \in SUBSET Tell /\ LogInv' /\ ToldInv' /\ AlarmInv'
        <3>1. CASE holder = p
            BY <2>0, <2>1, <3>1, NoteTyped, WriteKeeps
        <3>2. CASE holder # p
            BY <1>0, <2>0, <3>2, StillKeeps DEF TypeInv
        <3> QED
            BY <3>1, <3>2
    <2>4. TypeInv'
        BY <1>0, <2>0, <2>2, <2>3 DEF TypeInv, WorkType
    <2> QED
        BY <2>3, <2>4 DEF Inv
<1>6. CASE Persist(p)
    <2>0. UNCHANGED <<holder, cache, alarms, around, deliver, outside, team>> /\ To(p, "release")
        BY <1>6 DEF Persist
    <2>1. PICK next \in Outcomes(work[p].copy) :
            IF holder = p THEN WriteRun(p, next, <<>>) /\ taken' = 0 ELSE UNCHANGED <<row, taken, log, told>>
        BY <1>6 DEF Persist
    <2>2. next \in DoneRow
        BY <1>0, NextRows
    <2>3. work' \in [Pods -> WorkType]
        BY <1>0, <2>0, WorkTyped DEF To
    <2>4. row' \in DoneRow /\ log' \in Seq(Event) /\ told' \in SUBSET Tell /\ LogInv' /\ ToldInv' /\ AlarmInv' /\ taken' \in Nat
        <3>1. CASE holder = p
            BY <2>0, <2>1, <2>2, <3>1, NoteTyped, WriteKeeps
        <3>2. CASE holder # p
            BY <1>0, <2>0, <2>1, <3>2, StillKeeps DEF TypeInv
        <3> QED
            BY <3>1, <3>2
    <2>5. TypeInv'
        BY <1>0, <2>0, <2>3, <2>4 DEF TypeInv, WorkType
    <2> QED
        BY <2>4, <2>5 DEF Inv
<1>7. CASE Release(p)
    <2>1. work' \in [Pods -> WorkType]
        BY <1>0, <1>7, WorkTyped DEF Release
    <2>2. LogInv' /\ ToldInv' /\ AlarmInv'
        BY <1>0, <1>7, StillKeeps DEF Release
    <2>3. TypeInv'
        BY <1>0, <1>7, <2>1 DEF Release, TypeInv, WorkType
    <2> QED
        BY <2>2, <2>3 DEF Inv
<1> QED
    BY <1>1, <1>2, <1>3, <1>4, <1>5, <1>6, <1>7

\* The writers outside a step, the delivery, and what pods lose.
LEMMA InvOutside ==
    ASSUME Inv, NEW p \in Pods,
           CancelRun(p) \/ PauseRun(p) \/ Resume(p) \/ GiveUp(p) \/ Reap(p) \/ Disclose(p)
    PROVE  Inv'
<1>0. /\ TypeInv /\ LogInv /\ ToldInv /\ AlarmInv
      /\ row \in DoneRow /\ {"cancelled", "waiting", "running", "failed"} \subseteq Status /\ "aiDisclosureSent" \in Keys /\ "error" \in StepType
      /\ <<>> \in Notes /\ \A t \in {"approval_requested", "input_received", "approval_decided"} : Note(t) \in Notes
    BY NoteTyped DEF Inv, TypeInv, Status, Terminal, Keys, StepType, NoteType
<1>1. Outside /\ Kept
    BY DEF CancelRun, PauseRun, Resume, GiveUp, Reap, Disclose
<1>2. outside' \in 0..MaxOutside
    BY <1>0, <1>1, RunLogAssumption DEF Outside, TypeInv
<1>3. \E next \in DoneRow : \E notes \in Notes : WriteRun(p, next, notes)
    <2>1. CASE CancelRun(p)
        BY <1>0, <2>1, NextRows DEF CancelRun
    <2>2. CASE PauseRun(p)
        BY <1>0, <2>2, NextRows DEF PauseRun
    <2>3. CASE Resume(p)
        BY <1>0, <2>3, NextRows DEF Resume
    <2>4. CASE GiveUp(p)
        BY <1>0, <2>4, NextRows DEF GiveUp
    <2>5. CASE Reap(p)
        BY <1>0, <2>5, NextRows DEF Reap
    <2>6. CASE Disclose(p)
        BY <1>0, <2>6, NextRows DEF Disclose, MergeKey
    <2> QED
        BY <2>1, <2>2, <2>3, <2>4, <2>5, <2>6
<1>4. PICK next \in DoneRow, notes \in Notes : WriteRun(p, next, notes)
    BY <1>3
<1>5. row' \in DoneRow /\ log' \in Seq(Event) /\ told' \in SUBSET Tell /\ LogInv' /\ ToldInv' /\ AlarmInv'
    BY <1>1, <1>4, WriteKeeps DEF Kept
<1>6. TypeInv'
    BY <1>0, <1>1, <1>2, <1>5 DEF Kept, TypeInv
<1> QED
    BY <1>5, <1>6 DEF Inv

LEMMA InvDelivery ==
    ASSUME Inv, NEW p \in Pods, ReadFinished(p) \/ ClaimDelivery(p) \/ RecordChannel(p) \/ RecordWebhook(p)
    PROVE  Inv'
<1> DEFINE D == [pod : Pods \cup {NoPod}, pc : {"idle", "claim", "record", "done"}, meta : SUBSET Keys]
<1>0. /\ TypeInv /\ LogInv /\ ToldInv /\ AlarmInv
      /\ row \in DoneRow /\ row.meta \in SUBSET Keys /\ deliver \in D
      /\ "channelDelivery" \in Keys /\ "webhookDelivery" \in Keys
      /\ <<>> \in Notes /\ Note("delivery_claimed") \in Notes /\ Delivered \in D
    BY NoteTyped DEF Inv, TypeInv, DoneRow, Keys, NoteType, Delivered
<1>1. UNCHANGED <<holder, taken, work, cache, alarms, outside, team>> /\ deliver.pc # "done"
    BY DEF ReadFinished, ClaimDelivery, RecordChannel, RecordWebhook, Deliver
<1>2. CASE ReadFinished(p)
    <2>1. UNCHANGED <<row, log, told, around>> /\ deliver' \in D
        BY <1>0, <1>2 DEF ReadFinished
    <2>2. LogInv' /\ ToldInv' /\ AlarmInv'
        BY <1>0, <1>1, <2>1, StillKeeps
    <2>3. TypeInv'
        BY <1>0, <1>1, <2>1 DEF TypeInv
    <2> QED
        BY <2>2, <2>3 DEF Inv
<1>3. CASE ClaimDelivery(p)
    <2>1. WriteRun(p, row, Note("delivery_claimed")) /\ around' = around /\ deliver' \in D
        BY <1>0, <1>3 DEF ClaimDelivery
    <2>2. row' \in DoneRow /\ log' \in Seq(Event) /\ told' \in SUBSET Tell /\ LogInv' /\ ToldInv' /\ AlarmInv'
        BY <1>0, <1>1, <2>1, WriteKeeps
    <2>3. TypeInv'
        BY <1>0, <1>1, <2>1, <2>2 DEF TypeInv
    <2> QED
        BY <2>2, <2>3 DEF Inv
<1>4. CASE RecordChannel(p)
    <2> DEFINE next == [row EXCEPT !.meta = @ \cup {"channelDelivery"}]
    <2>1. WriteRun(p, next, <<>>) /\ around' = around /\ deliver' \in D
        BY <1>0, <1>4 DEF RecordChannel, MergeKey
    <2>2. next \in DoneRow
        BY <1>0, NextRows
    <2> HIDE DEF next
    <2>3. row' \in DoneRow /\ log' \in Seq(Event) /\ told' \in SUBSET Tell /\ LogInv' /\ ToldInv' /\ AlarmInv'
        BY <1>0, <1>1, <2>1, <2>2, WriteKeeps
    <2>4. TypeInv'
        BY <1>0, <1>1, <2>1, <2>3 DEF TypeInv
    <2> QED
        BY <2>3, <2>4 DEF Inv
<1>5. CASE RecordWebhook(p)
    <2>1. LogInv' /\ ToldInv' /\ AlarmInv'
        BY <1>0, <1>5, WebhookKeeps
    <2>2. deliver.meta \cup {"webhookDelivery"} \in SUBSET Keys
        BY <1>0
    <2>3. row' \in DoneRow
        BY <1>0, <1>5, <2>2, NextRows DEF RecordWebhook
    <2>4. around' \in Nat /\ deliver' \in D /\ UNCHANGED <<log, told>>
        BY <1>0, <1>5 DEF RecordWebhook, TypeInv
    <2>5. TypeInv'
        BY <1>0, <1>1, <2>3, <2>4 DEF TypeInv
    <2> QED
        BY <2>1, <2>5 DEF Inv
<1> QED
    BY <1>2, <1>3, <1>4, <1>5

LEMMA InvLosses ==
    ASSUME Inv, NEW p \in Pods, Crash(p) \/ Evict(p)
    PROVE  Inv'
<1>0. /\ TypeInv /\ LogInv /\ ToldInv /\ AlarmInv
    BY DEF Inv
<1>1. Nothing \in [is : {"at", "nothing"}, head : Nat, state : State]
    BY DEF Nothing, Blank, State, Status, Terminal, Keys, Error
<1>2. cache' = [cache EXCEPT ![p] = Nothing] /\ UNCHANGED <<row, log, alarms, around, holder, taken, outside, team>>
    BY DEF Crash, Evict
<1>3. told' \subseteq told /\ (deliver' = deliver \/ deliver' = Delivered)
    BY DEF Crash, Evict
<1>4. cache' \in [Pods -> [is : {"at", "nothing"}, head : Nat, state : State]] /\ \A q \in Pods : cache'[q] \in {cache[q], Nothing}
    BY <1>0, <1>1, <1>2 DEF TypeInv
<1>5. deliver.pc = "done" => deliver'.pc = "done"
    BY <1>3 DEF Delivered
<1>6. LogInv' /\ ToldInv' /\ AlarmInv'
    BY <1>0, <1>2, <1>3, <1>4, <1>5, StillKeeps
<1>7. work' \in [Pods -> WorkType]
    <2>1. work' = work \/ work' = [work EXCEPT ![p] = Idle]
        BY DEF Crash, Evict
    <2>2. work \in [Pods -> WorkType]
        BY <1>0 DEF TypeInv, WorkType
    <2> QED
        BY <1>0, <2>1, <2>2, WorkTyped
<1>8. deliver' \in [pod : Pods \cup {NoPod}, pc : {"idle", "claim", "record", "done"}, meta : SUBSET Keys]
    BY <1>0, <1>3 DEF TypeInv, Delivered
<1>9. TypeInv'
    BY <1>0, <1>2, <1>3, <1>4, <1>7, <1>8 DEF TypeInv, WorkType
<1> QED
    BY <1>6, <1>9 DEF Inv

LEMMA InvNext == Inv /\ [Next]_vars => Inv'
<1> SUFFICES ASSUME Inv, [Next]_vars PROVE Inv'
    OBVIOUS
<1>1. CASE UNCHANGED vars
    <2>1. UNCHANGED <<row, holder, taken, log, work, told, cache, alarms, around, deliver, outside, team>>
        BY <1>1 DEF vars
    <2>2. TypeInv' /\ LogInv' /\ ToldInv'
        BY <2>1 DEF Inv, TypeInv, LogInv, ToldInv
    <2>3. LogInv' /\ ToldInv' /\ AlarmInv'
        BY <2>1, StillKeeps DEF Inv
    <2> QED
        BY <2>2, <2>3 DEF Inv
<1>2. CASE \E w \in told : Check(w)
    BY <1>2, CheckKeeps DEF Inv
<1>3. ASSUME NEW p \in Pods,
             \/ Claim(p) \/ TakeOver(p) \/ Load(p) \/ CommitStep(p) \/ SaveMemory(p) \/ Persist(p) \/ Release(p) \/ Crash(p)
             \/ CancelRun(p) \/ PauseRun(p) \/ Resume(p) \/ GiveUp(p) \/ Reap(p) \/ Disclose(p)
             \/ ReadFinished(p) \/ ClaimDelivery(p) \/ RecordChannel(p) \/ RecordWebhook(p)
             \/ Evict(p)
      PROVE  Inv'
    BY <1>3, InvWork, InvOutside, InvDelivery, InvLosses
<1> QED
    BY <1>1, <1>2, <1>3 DEF Next

LEMMA InvAlways == Spec => []Inv
<1> QED
    BY InvInit, InvNext, PTL DEF Spec

-----------------------------------------------------------------------------
(* The results.                                                            *)

\* Every row, copy and projection stays of its type, and the listeners of a
\* write are told of exactly the events it appended.
THEOREM TypeCorrect == Spec => []TypeOK
<1>1. Inv => TypeOK
    <2> SUFFICES ASSUME Inv PROVE TypeOK
        OBVIOUS
    <2>1. \A r \in DoneRow : r \in Row
        BY DoneRowIsRow
    <2>2. \A w \in told : w.pod \in Pods /\ w.after.head = w.before.head + Len(w.events)
        BY DEF Inv, TypeInv, ToldInv, Tell
    <2>3. work \in [Pods -> [pc : {"idle", "load", "step", "memory", "release"}, copy : Row]]
        BY <2>1 DEF Inv, TypeInv
    <2> QED
        BY <2>1, <2>2, <2>3 DEF Inv, TypeInv, TypeOK
<1> QED
    BY <1>1, InvAlways, PTL

\* writeRun (run-event-writer.ts): whoever wrote, and however stale the copy
\* it wrote from, folding the log from its start gives the row's head and
\* columns; only a write made around it can leave the metadata different.
THEOREM LogIsTheRow == Spec => []LogTellsTheRow
<1>1. Inv => LogTellsTheRow
    <2> SUFFICES ASSUME Inv, ~(row.head = 0 /\ log = <<>>)
                 PROVE  LET p == ProjectRunEvents(log)
                        IN  /\ p.is = "at" /\ p.head = row.head
                            /\ [p.state EXCEPT !.meta = row.meta] = StateOf(row)
                            /\ around = 0 => p.state.meta = row.meta
        BY DEF LogTellsTheRow
    <2>1. PICK m \in SUBSET Keys :
            /\ Len(log) = row.head
            /\ Reaches(Nothing, 0, log, With(row, row.steps, m))
            /\ around = 0 => m = row.meta
        BY DEF Inv, LogInv
    <2>2. row.head \in Nat
        BY DEF Inv, TypeInv, DoneRow
    <2>3. ProjectRunEvents(log) = Projection(row.head, With(row, row.steps, m))
        <3>1. Nothing.head = 0
            BY DEF Nothing
        <3>2. After(0, log) = row.head
            BY <2>1, <2>2 DEF After
        <3>3. ProjectRunEvents(log) = Folded(Nothing, log)
            BY <3>1 DEF ProjectRunEvents, FoldRunEvents, Folded
        <3> QED
            BY <2>1, <3>2, <3>3 DEF Reaches
    <2>4. [With(row, row.steps, m) EXCEPT !.meta = row.meta] = StateOf(row) /\ With(row, row.steps, m).meta = m
        BY DEF With, StateOf
    <2>5. /\ Projection(row.head, With(row, row.steps, m)).is = "at"
          /\ Projection(row.head, With(row, row.steps, m)).head = row.head
          /\ Projection(row.head, With(row, row.steps, m)).state = With(row, row.steps, m)
        BY DEF Projection
    <2> HIDE DEF With
    <2> QED
        BY <2>1, <2>3, <2>4, <2>5
<1> QED
    BY <1>1, InvAlways, PTL

\* RunProjectionChecker.check (run-projection-check.ts) reports no more
\* differences than there were writes around writeRun.
THEOREM NoFalseAlarm == Spec => []AlarmsAreTrue
<1>1. Inv => AlarmsAreTrue
    BY DEF Inv, AlarmInv, HoleInv, AlarmsAreTrue
<1> QED
    BY <1>1, InvAlways, PTL

\* Where no schedule records a webhook's outcome, nothing is written around
\* the log, and the log folds back into exactly what the row holds.
THEOREM LogIsExactlyTheRow ==
    ASSUME "webhook" \notin Faults
    PROVE  Spec => []LogFoldsToRow
<1>1. Init => around = 0
    BY DEF Init
<1>2. around = 0 /\ [Next]_vars => (around = 0)'
    BY DEF Next, vars, Claim, TakeOver, Load, CommitStep, SaveMemory, Persist, Release, Crash, Kept, CancelRun, PauseRun, Resume,
           GiveUp, Reap, Disclose, ReadFinished, ClaimDelivery, RecordChannel, RecordWebhook, Evict, Check
<1>3. Spec => [](around = 0)
    BY <1>1, <1>2, PTL DEF Spec
<1>4. Inv /\ around = 0 => LogFoldsToRow
    <2> SUFFICES ASSUME Inv, around = 0, row.head > 0 PROVE ProjectRunEvents(log) = Projection(row.head, StateOf(row))
        BY DEF LogFoldsToRow
    <2>1. row.head \in Nat /\ row.head # 0 /\ StateOf(row) = With(row, row.steps, row.meta)
        <3>1. row \in DoneRow
            BY DEF Inv, TypeInv
        <3>2. row.head \in Nat
            BY <3>1 DEF DoneRow
        <3> QED
            BY <3>1, <3>2, DoneRowIsRow
    <2>2. Len(log) = row.head /\ Reaches(Nothing, 0, log, With(row, row.steps, row.meta))
        BY <2>1 DEF Inv, LogInv
    <2>3. Nothing.head = 0 /\ After(0, log) = row.head
        BY <2>1, <2>2 DEF Nothing, After
    <2>4. ProjectRunEvents(log) = Folded(Nothing, log)
        BY <2>3 DEF ProjectRunEvents, FoldRunEvents, Folded
    <2> QED
        BY <2>1, <2>2, <2>3, <2>4 DEF Reaches
<1> QED
    BY <1>3, <1>4, InvAlways, PTL
=============================================================================
