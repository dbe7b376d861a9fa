------------------------ MODULE ApprovalPolicy_proofs ------------------------
(***************************************************************************)
(* Proofs about ApprovalPolicy, for any number of reviewers, calls,        *)
(* policies and carried approvals:                                         *)
(*   - a decision is final, and no accident makes a governed request a     *)
(*     single gate;                                                        *)
(*   - the type invariant;                                                 *)
(*   - a request approved by its policy has a different person for every   *)
(*     approval each step asks for;                                        *)
(*   - the approval that completes a quorum takes effect.                  *)
(* What the two loops of the code compute, the merge of payload and rows   *)
(* and the scoring, is proved by induction on how far the loop is, with    *)
(* the set of the numbers it holds for in the place of a predicate.        *)
(***************************************************************************)
EXTENDS ApprovalPolicy, FiniteSetTheorems, SequenceTheorems, WellFoundedInduction, TLAPS

\* What a call that is about to approve stands on, and what the request was
\* approved on: the single gate only once the policy or the entitlement had
\* gone.
CallGrounded == \A s \in Sessions : pc[s] = "approved" => (ground[s] = NoPolicy => gone)
GateInv ==
    /\ pc \in [Sessions -> {"idle", "insert", "collect", "score", "snapshot", "approved", "rejected"}]
    /\ ground \in [Sessions -> Policies \cup {NoPolicy}]
    /\ policy \in Policies \cup {NoPolicy}
    /\ (~licensed \/ policy = NoPolicy) => gone
    /\ CallGrounded
    /\ SingleGateOnlyWhenGone

\* Every reviewer, every call, the sweep and the administrators leave a
\* decided request as it was decided and announce nothing more of it.
THEOREM DecisionIsFinal == Spec => DecidedOnce
<1> DEFINE Final == status # "pending" => status' = status /\ announced' = announced
<1>1. [Next]_vars => [Final]_vars
  BY DEF Next, vars, callVars, Approve, Reject, Insert, InsertRefused, Collect, ScoreNull,
         LicenseUnreadable, ScoreSatisfied, ScoreShort, ScoreThrows, Snapshot, Flip,
         Flippable, Crash, SweepFinds, SweepFlips, UpdatePolicy, RemovePolicy, ChangePlan,
         ApproveOn
<1> QED BY <1>1, PTL DEF Spec, DecidedOnce

\* The initial state, then every step, keeps GateInv, as long as the
\* entitlement can always be read.
LEMMA GateInit == Init => GateInv
BY PolicyAssumption DEF Init, GateInv, CallGrounded, SingleGateOnlyWhenGone

LEMMA GateStep ==
    ASSUME "lookup" \notin Faults, GateInv, [Next]_vars
    PROVE  GateInv'
<1> USE DEF GateInv, CallGrounded, SingleGateOnlyWhenGone
<1>1. ASSUME NEW s \in Sessions, Approve(s) \/ Reject(s) PROVE GateInv'
  BY <1>1 DEF Approve, Reject, Goto
<1>2. ASSUME NEW s \in Sessions, Insert(s) \/ Collect(s) \/ ScoreShort(s) PROVE GateInv'
  BY <1>2 DEF Insert, Collect, ScoreShort, Goto
<1>3. ASSUME NEW s \in Sessions, InsertRefused(s) \/ ScoreThrows(s) \/ Snapshot(s) \/ Crash(s)
      PROVE GateInv'
  BY <1>3 DEF InsertRefused, ScoreThrows, Snapshot, Crash, Return
<1>4. ASSUME NEW s \in Sessions, ScoreNull(s) PROVE GateInv'
  BY <1>4 DEF ScoreNull, ApproveOn, Goto
<1>5. ASSUME NEW s \in Sessions, ScoreSatisfied(s) PROVE GateInv'
  BY <1>5, PolicyAssumption DEF ScoreSatisfied, ApproveOn, Goto
<1>6. ASSUME NEW s \in Sessions, Flip(s) PROVE GateInv'
  BY <1>6, PolicyAssumption DEF Flip, Flippable, Return
<1>7. CASE SweepFinds \/ SweepFlips
  BY <1>7 DEF SweepFinds, SweepFlips, Flippable, callVars
<1>8. ASSUME NEW p \in Policies, UpdatePolicy(p) PROVE GateInv'
  BY <1>8, PolicyAssumption DEF UpdatePolicy, callVars
<1>9. CASE RemovePolicy \/ ChangePlan
  BY <1>9 DEF RemovePolicy, ChangePlan, callVars
<1>10. CASE UNCHANGED vars
  BY <1>10 DEF vars
<1>11. \A s \in Sessions : ~LicenseUnreadable(s)
  BY DEF LicenseUnreadable
<1> QED BY <1>1, <1>2, <1>3, <1>4, <1>5, <1>6, <1>7, <1>8, <1>9, <1>10, <1>11 DEF Next

\* Scoring that throws, processes that die, roles that cannot be looked up
\* and policies edited in the middle of a decision never turn a governed
\* request into a single gate: only a deleted policy or an ended entitlement
\* does, provided the entitlement itself can be read.
THEOREM NoDegradationByAccident ==
    ASSUME "lookup" \notin Faults
    PROVE  Spec => []SingleGateOnlyWhenGone
<1>1. GateInv /\ [Next]_vars => GateInv'
  BY GateStep
<1>2. GateInv => SingleGateOnlyWhenGone
  BY DEF GateInv
<1> QED BY GateInit, <1>1, <1>2, PTL DEF Spec

-----------------------------------------------------------------------------
(* Induction, and what the recursive definitions say.                      *)

LEMMA NatSetInduction ==
    ASSUME NEW T, 0 \in T, \A n \in Nat : n \in T => n + 1 \in T
    PROVE  \A n \in Nat : n \in T
<1> SUFFICES ASSUME NEW n \in Nat, n \notin T PROVE FALSE
    OBVIOUS
<1>1. \E x \in Nat \ T : \A y \in Nat \ T : ~(<<y, x>> \in OpToRel(<, Nat))
    BY NatLessThanWellFounded, WFMin
<1>2. PICK x \in Nat \ T : \A y \in Nat \ T : ~(y < x)
    BY <1>1 DEF OpToRel
<1>3. x - 1 \in Nat /\ x - 1 < x /\ x = (x - 1) + 1
    BY <1>2
<1> QED
    BY <1>2, <1>3

LEMMA EnteringSteps ==
    ASSUME NEW q, NEW T, NEW list \in Seq(T)
    PROVE  \A i \in 0..Len(list) :
              Entering(q, list)[i] = IF i = 0 THEN q ELSE SetApproval(Entering(q, list)[i - 1], list[i])
<1> DEFINE Is(f, n) == f = [i \in 0..n |-> IF i = 0 THEN q ELSE SetApproval(f[i - 1], list[i])]
           Found == {n \in Nat : \E f : Is(f, n)}
<1>1. 0 \in Found
    <2>1. Is([i \in 0..0 |-> q], 0)
        OBVIOUS
    <2> QED
        BY <2>1
<1>2. ASSUME NEW n \in Nat, n \in Found PROVE n + 1 \in Found
    <2>1. PICK f : Is(f, n)
        BY <1>2
    <2> DEFINE g == [i \in 0..(n + 1) |-> IF i = n + 1 THEN SetApproval(f[n], list[n + 1]) ELSE f[i]]
    <2>2. \A i \in 0..(n + 1) : g[i] = IF i = 0 THEN q ELSE SetApproval(g[i - 1], list[i])
        BY <2>1
    <2>3. Is(g, n + 1)
        BY <2>2
    <2> HIDE DEF g, Is
    <2> QED
        BY <2>3
<1>3. Len(list) \in Found
    <2> HIDE DEF Found
    <2> QED
        BY <1>1, <1>2, NatSetInduction
<1>4. Entering(q, list) = CHOOSE f : Is(f, Len(list))
    BY DEF Entering
<1>5. Is(Entering(q, list), Len(list))
    BY <1>3, <1>4
<1> QED
    BY <1>5

LEMMA ProgressSteps ==
    ASSUME NEW steps, Len(steps) \in Nat, NEW q
    PROVE  \A i \in 0..Len(steps) :
              progress(steps, q)[i] = IF i = 0 THEN [remaining |-> DOMAIN q, satisfied |-> TRUE]
                                      ELSE Score(progress(steps, q)[i - 1], steps[i], q)
<1> DEFINE start == [remaining |-> DOMAIN q, satisfied |-> TRUE]
           Is(f, n) == f = [i \in 0..n |-> IF i = 0 THEN start ELSE Score(f[i - 1], steps[i], q)]
           Found == {n \in Nat : \E f : Is(f, n)}
<1> HIDE DEF start
<1>1. 0 \in Found
    <2>1. Is([i \in 0..0 |-> start], 0)
        OBVIOUS
    <2> QED
        BY <2>1
<1>2. ASSUME NEW n \in Nat, n \in Found PROVE n + 1 \in Found
    <2>1. PICK f : Is(f, n)
        BY <1>2
    <2> DEFINE g == [i \in 0..(n + 1) |-> IF i = n + 1 THEN Score(f[n], steps[n + 1], q) ELSE f[i]]
    <2>2. \A i \in 0..(n + 1) : g[i] = IF i = 0 THEN start ELSE Score(g[i - 1], steps[i], q)
        BY <2>1
    <2>3. Is(g, n + 1)
        BY <2>2
    <2> HIDE DEF g, Is
    <2> QED
        BY <2>3
<1>3. Len(steps) \in Found
    <2> HIDE DEF Found
    <2> QED
        BY <1>1, <1>2, NatSetInduction
<1>4. progress(steps, q) = CHOOSE f : Is(f, Len(steps))
    BY DEF progress, start
<1>5. Is(progress(steps, q), Len(steps))
    BY <1>3, <1>4
<1> QED
    BY <1>5 DEF start

-----------------------------------------------------------------------------
(* Merging approvals by approver.                                          *)

\* Approvals as they are collected: one of each person.
OneEach == {q \in Seq(Approval) : Distinct(q)}
Has(q, a) == \E i \in DOMAIN q : q[i] = a

\* Setting one person's approval.
LEMMA SetOne ==
    ASSUME NEW q \in OneEach, NEW a \in Approval
    PROVE  /\ SetApproval(q, a) \in OneEach
           /\ NamesOf(SetApproval(q, a)) = NamesOf(q) \cup {a.approver}
           /\ Has(SetApproval(q, a), a)
           /\ \A b \in Approval : Has(q, b) /\ b.approver # a.approver => Has(SetApproval(q, a), b)
<1>1. q \in Seq(Approval) /\ Distinct(q) /\ Len(q) \in Nat /\ DOMAIN q = 1..Len(q)
      /\ q \in [1..Len(q) -> Approval]
    BY LenProperties DEF OneEach
<1>2. CASE a.approver \in NamesOf(q)
    <2> DEFINE r == [i \in DOMAIN q |-> IF q[i].approver = a.approver THEN a ELSE q[i]]
    <2>1. SetApproval(q, a) = r
        BY <1>2 DEF SetApproval
    <2>2. r \in Seq(Approval) /\ DOMAIN r = DOMAIN q
        BY <1>1
    <2>3. \A i \in DOMAIN q : r[i].approver = q[i].approver
        OBVIOUS
    <2>4. Distinct(r)
        BY <1>1, <2>2, <2>3 DEF Distinct
    <2>5. NamesOf(r) = NamesOf(q)
        BY <2>2, <2>3 DEF NamesOf
    <2>6. Has(r, a)
        BY <1>2 DEF NamesOf, Has
    <2>7. \A b \in Approval : Has(q, b) /\ b.approver # a.approver => Has(r, b)
        BY DEF Has
    <2> QED
        BY <1>2, <2>1, <2>2, <2>4, <2>5, <2>6, <2>7 DEF OneEach
<1>3. CASE a.approver \notin NamesOf(q)
    <2> DEFINE r == Append(q, a)
    <2>1. SetApproval(q, a) = r
        BY <1>3 DEF SetApproval
    <2>2. /\ r \in Seq(Approval) /\ Len(r) = Len(q) + 1 /\ DOMAIN r = 1..(Len(q) + 1)
          /\ \A i \in 1..Len(q) : r[i] = q[i]
          /\ r[Len(q) + 1] = a
        BY <1>1, AppendProperties, LenProperties
    <2> HIDE DEF r
    <2>3. Distinct(r)
        <3> SUFFICES ASSUME NEW i \in DOMAIN r, NEW j \in DOMAIN r, r[i].approver = r[j].approver
                     PROVE  i = j
            BY DEF Distinct
        <3>1. CASE i \in 1..Len(q) /\ j \in 1..Len(q)
            BY <1>1, <2>2, <3>1 DEF Distinct
        <3>2. \A k \in 1..Len(q) : r[k].approver # a.approver
            BY <1>1, <1>3, <2>2 DEF NamesOf
        <3>3. \A k \in DOMAIN r : k \in 1..Len(q) \/ k = Len(q) + 1
            BY <1>1, <2>2
        <3> QED
            BY <2>2, <3>1, <3>2, <3>3
    <2>4. NamesOf(r) = NamesOf(q) \cup {a.approver}
        <3>1. \A k \in DOMAIN r : k \in 1..Len(q) \/ k = Len(q) + 1
            BY <1>1, <2>2
        <3>2. Len(q) + 1 \in DOMAIN r /\ \A i \in DOMAIN q : i \in DOMAIN r
            BY <1>1, <2>2
        <3> QED
            BY <1>1, <2>2, <3>1, <3>2 DEF NamesOf
    <2>5. Has(r, a)
        BY <1>1, <2>2 DEF Has
    <2>6. \A b \in Approval : Has(q, b) => Has(r, b)
        BY <1>1, <2>2 DEF Has
    <2> QED
        BY <1>3, <2>1, <2>2, <2>3, <2>4, <2>5, <2>6 DEF OneEach
<1> QED
    BY <1>2, <1>3

\* Setting again what is there changes nothing.
LEMMA SetAgain ==
    ASSUME NEW q \in OneEach, NEW a \in Approval, Has(q, a)
    PROVE  SetApproval(q, a) = q
<1>1. q \in Seq(Approval) /\ Distinct(q) /\ DOMAIN q = 1..Len(q) /\ q \in [1..Len(q) -> Approval]
    BY LenProperties DEF OneEach
<1>2. PICK k \in DOMAIN q : q[k] = a
    BY DEF Has
<1>3. \A i \in DOMAIN q : q[i].approver = a.approver => q[i] = a
    BY <1>1, <1>2 DEF Distinct
<1>4. a.approver \in NamesOf(q)
    BY <1>2 DEF NamesOf
<1> QED
    BY <1>1, <1>3, <1>4 DEF SetApproval

\* Setting a list of approvals, one of each person: all of them are there
\* afterwards, and who was there before still is.
LEMMA EnteringKeeps ==
    ASSUME NEW q \in OneEach, NEW list \in OneEach
    PROVE  \A n \in 0..Len(list) :
              /\ Entering(q, list)[n] \in OneEach
              /\ NamesOf(q) \subseteq NamesOf(Entering(q, list)[n])
              /\ NamesOf(Entering(q, list)[n]) \subseteq NamesOf(q) \cup NamesOf(list)
              /\ \A j \in 1..n : Has(Entering(q, list)[n], list[j])
<1> DEFINE e(n) == Entering(q, list)[n]
           Good(n) == /\ e(n) \in OneEach
                      /\ NamesOf(q) \subseteq NamesOf(e(n))
                      /\ NamesOf(e(n)) \subseteq NamesOf(q) \cup NamesOf(list)
                      /\ \A j \in 1..n : Has(e(n), list[j])
           T == {n \in Nat : n <= Len(list) => Good(n)}
<1>1. list \in Seq(Approval) /\ Distinct(list) /\ Len(list) \in Nat /\ DOMAIN list = 1..Len(list)
      /\ \A j \in 1..Len(list) : list[j] \in Approval
    BY LenProperties, ElementOfSeq DEF OneEach
<1>2. e(0) = q /\ \A n \in 1..Len(list) : e(n) = SetApproval(e(n - 1), list[n])
    BY <1>1, EnteringSteps
<1> HIDE DEF e
<1>3. 0 \in T
    BY <1>2
<1>4. ASSUME NEW n \in Nat, n \in T PROVE n + 1 \in T
    <2> SUFFICES ASSUME n + 1 <= Len(list) PROVE Good(n + 1)
        OBVIOUS
    <2>1. Good(n) /\ n + 1 \in 1..Len(list) /\ list[n + 1] \in Approval
        BY <1>1, <1>4
    <2>2. e(n + 1) = SetApproval(e(n), list[n + 1])
        BY <1>2, <2>1
    <2>3. /\ e(n + 1) \in OneEach
          /\ NamesOf(e(n + 1)) = NamesOf(e(n)) \cup {list[n + 1].approver}
          /\ Has(e(n + 1), list[n + 1])
          /\ \A b \in Approval : Has(e(n), b) /\ b.approver # list[n + 1].approver => Has(e(n + 1), b)
        BY <2>1, <2>2, SetOne
    <2>4. list[n + 1].approver \in NamesOf(list)
        BY <1>1, <2>1 DEF NamesOf
    <2>5. ASSUME NEW j \in 1..(n + 1) PROVE Has(e(n + 1), list[j])
        <3>1. CASE j = n + 1
            BY <2>3, <3>1
        <3>2. CASE j \in 1..n
            <4>1. j \in DOMAIN list /\ n + 1 \in DOMAIN list /\ j # n + 1
                BY <1>1, <2>1, <3>2
            <4>2. list[j].approver # list[n + 1].approver
                BY <1>1, <4>1 DEF Distinct
            <4> QED
                BY <1>1, <2>1, <2>3, <3>2, <4>1, <4>2
        <3> QED
            BY <3>1, <3>2
    <2> QED
        BY <2>1, <2>3, <2>4, <2>5
<1>5. \A n \in Nat : n \in T
    <2> HIDE DEF T
    <2> QED
        BY <1>3, <1>4, NatSetInduction
<1>6. \A n \in 0..Len(list) : Good(n)
    BY <1>1, <1>5
<1> QED
    BY <1>6 DEF e

\* The Map of a list without repetitions is the list.
LEMMA EnteredSelf ==
    ASSUME NEW list \in OneEach
    PROVE  Entered(<<>>, list) = list
<1> DEFINE e(n) == Entering(<<>>, list)[n]
           Upto(n) == [i \in 1..n |-> list[i]]
           T == {n \in Nat : n <= Len(list) => e(n) = Upto(n)}
<1>1. list \in Seq(Approval) /\ Distinct(list) /\ Len(list) \in Nat /\ DOMAIN list = 1..Len(list)
      /\ \A j \in 1..Len(list) : list[j] \in Approval
    BY LenProperties, ElementOfSeq DEF OneEach
<1>2. e(0) = <<>> /\ \A n \in 1..Len(list) : e(n) = SetApproval(e(n - 1), list[n])
    BY <1>1, EnteringSteps
<1> HIDE DEF e
<1>3. 0 \in T
    <2>1. Upto(0) \in Seq(Approval) /\ Len(Upto(0)) = 0
        BY <1>1
    <2>2. Upto(0) = <<>>
        BY <2>1, EmptySeq
    <2> QED
        BY <1>2, <2>2
<1>4. ASSUME NEW n \in Nat, n \in T PROVE n + 1 \in T
    <2> SUFFICES ASSUME n + 1 <= Len(list) PROVE e(n + 1) = Upto(n + 1)
        OBVIOUS
    <2>1. e(n) = Upto(n) /\ n + 1 \in 1..Len(list) /\ e(n + 1) = SetApproval(e(n), list[n + 1])
        BY <1>1, <1>2, <1>4
    <2>2. list[n + 1].approver \notin NamesOf(Upto(n))
        <3> SUFFICES ASSUME NEW i \in 1..n, list[i].approver = list[n + 1].approver PROVE FALSE
            BY DEF NamesOf
        <3>1. i \in DOMAIN list /\ n + 1 \in DOMAIN list /\ i # n + 1
            BY <1>1, <2>1
        <3> QED
            BY <1>1, <3>1 DEF Distinct
    <2>3. Upto(n) \in Seq(Approval) /\ Len(Upto(n)) = n
        BY <1>1, <2>1
    <2>4. Append(Upto(n), list[n + 1]) = Upto(n + 1)
        BY <1>1, <2>1, <2>3
    <2> QED
        BY <2>1, <2>2, <2>4 DEF SetApproval
<1>5. \A n \in Nat : n \in T
    <2> HIDE DEF T
    <2> QED
        BY <1>3, <1>4, NatSetInduction
<1>6. e(Len(list)) = Upto(Len(list))
    BY <1>1, <1>5
<1>7. Upto(Len(list)) = list
    BY <1>1
<1> QED
    BY <1>6, <1>7 DEF Entered, e

\* A list of which the first m are there already leaves the merge as it is
\* up to m, and from then on does what it does.
LEMMA EnteringAgain ==
    ASSUME NEW q \in OneEach, NEW list \in OneEach, NEW m \in 0..Len(list)
    PROVE  \A n \in m..Len(list) :
              Entering(Entering(q, list)[m], list)[n] = Entering(q, list)[n]
<1> DEFINE p == Entering(q, list)[m]
           e(n) == Entering(q, list)[n]
           a(n) == Entering(p, list)[n]
           T == {n \in Nat : n <= m => a(n) = p}
           U == {n \in Nat : n >= m /\ n <= Len(list) => a(n) = e(n)}
<1>1. list \in Seq(Approval) /\ Len(list) \in Nat /\ \A j \in 1..Len(list) : list[j] \in Approval
    BY LenProperties, ElementOfSeq DEF OneEach
<1>2. p \in OneEach /\ \A j \in 1..m : Has(p, list[j])
    BY EnteringKeeps
<1>3. e(0) = q /\ \A n \in 1..Len(list) : e(n) = SetApproval(e(n - 1), list[n])
    BY <1>1, EnteringSteps
<1> HIDE DEF p
<1>4. a(0) = p /\ \A n \in 1..Len(list) : a(n) = SetApproval(a(n - 1), list[n])
    BY <1>1, EnteringSteps
<1>5. e(m) = p
    BY DEF p
<1> HIDE DEF e, a
<1>6. a(m) = p
    <2>1. 0 \in T
        BY <1>4
    <2>2. ASSUME NEW n \in Nat, n \in T PROVE n + 1 \in T
        <3> SUFFICES ASSUME n + 1 <= m PROVE a(n + 1) = p
            OBVIOUS
        <3>1. n + 1 \in 1..Len(list) /\ n + 1 \in 1..m /\ a(n) = p
            BY <1>1, <2>2
        <3>2. a(n + 1) = SetApproval(p, list[n + 1])
            BY <1>4, <3>1
        <3> QED
            BY <1>1, <1>2, <3>1, <3>2, SetAgain
    <2>3. \A n \in Nat : n \in T
        <3> HIDE DEF T
        <3> QED
            BY <2>1, <2>2, NatSetInduction
    <2> QED
        BY <1>1, <2>3
<1>7. 0 \in U
    BY <1>1, <1>3, <1>4, <1>5, <1>6
<1>8. ASSUME NEW n \in Nat, n \in U PROVE n + 1 \in U
    <2> SUFFICES ASSUME n + 1 >= m, n + 1 <= Len(list) PROVE a(n + 1) = e(n + 1)
        OBVIOUS
    <2>1. CASE n + 1 = m
        BY <1>5, <1>6, <2>1
    <2>2. CASE n >= m
        BY <1>1, <1>3, <1>4, <1>8, <2>2
    <2> QED
        BY <1>1, <2>1, <2>2
<1>9. \A n \in Nat : n \in U
    <2> HIDE DEF U
    <2> QED
        BY <1>7, <1>8, NatSetInduction
<1>10. \A n \in m..Len(list) : a(n) = e(n)
    BY <1>1, <1>9
<1> QED
    BY <1>10 DEF a, e, p

\* A longer list is merged the same way up to the end of the shorter one.
LEMMA EnteringPrefix ==
    ASSUME NEW q, NEW list \in Seq(Approval), NEW x \in Approval
    PROVE  \A n \in 0..Len(list) : Entering(q, Append(list, x))[n] = Entering(q, list)[n]
<1> DEFINE more == Append(list, x)
           e(n) == Entering(q, list)[n]
           a(n) == Entering(q, more)[n]
           T == {n \in Nat : n <= Len(list) => a(n) = e(n)}
<1>1. /\ Len(list) \in Nat /\ more \in Seq(Approval) /\ Len(more) = Len(list) + 1
      /\ \A j \in 1..Len(list) : more[j] = list[j]
    BY LenProperties, AppendProperties
<1> HIDE DEF more
<1>2. e(0) = q /\ \A n \in 1..Len(list) : e(n) = SetApproval(e(n - 1), list[n])
    BY <1>1, EnteringSteps
<1>3. a(0) = q /\ \A n \in 1..Len(list) : a(n) = SetApproval(a(n - 1), list[n])
    <2>1. \A i \in 0..Len(more) : a(i) = IF i = 0 THEN q ELSE SetApproval(a(i - 1), more[i])
        BY <1>1, EnteringSteps
    <2> HIDE DEF a
    <2> QED
        BY <1>1, <2>1
<1> HIDE DEF a, e
<1>4. 0 \in T
    BY <1>2, <1>3
<1>5. ASSUME NEW n \in Nat, n \in T PROVE n + 1 \in T
    BY <1>1, <1>2, <1>3, <1>5
<1>6. \A n \in Nat : n \in T
    <2> HIDE DEF T
    <2> QED
        BY <1>4, <1>5, NatSetInduction
<1> QED
    BY <1>1, <1>6 DEF a, e, more

-----------------------------------------------------------------------------
(* Scoring.                                                                *)

Steps(steps) ==
    /\ Len(steps) \in Nat /\ DOMAIN steps = 1..Len(steps)
    /\ \A k \in DOMAIN steps : steps[k].minApprovals \in Nat \ {0}

LEMMA Counting ==
    ASSUME NEW n \in Nat
    PROVE  IsFiniteSet(1..n) /\ Cardinality(1..n) = n
<1>1. Cardinality(1..n) = IF 1 > n THEN 0 ELSE n - 1 + 1
    BY FS_Interval
<1>2. IsFiniteSet(1..n)
    BY FS_Interval
<1> QED
    BY <1>1, <1>2

\* Approvals of different people are no more than the people.
LEMMA OneEachBounded ==
    ASSUME NEW q \in OneEach
    PROVE  Len(q) \in Nat /\ Len(q) <= Cardinality(People)
<1>1. q \in Seq(Approval) /\ Distinct(q) /\ Len(q) \in Nat /\ DOMAIN q = 1..Len(q)
      /\ \A i \in 1..Len(q) : q[i] \in Approval
    BY LenProperties, ElementOfSeq DEF OneEach
<1> DEFINE f == [i \in 1..Len(q) |-> q[i].approver]
<1>2. \A i \in 1..Len(q) : q[i].approver \in People
    BY <1>1 DEF Approval
<1>3. f \in [1..Len(q) -> People] /\ \A i, j \in 1..Len(q) : f[i] = f[j] => i = j
    BY <1>1, <1>2 DEF Distinct
<1>4. f \in Injection(1..Len(q), People)
    BY <1>3 DEF Injection, IsInjective
<1>5. Cardinality(1..Len(q)) <= Cardinality(People)
    BY <1>4, PeopleAssumption, FS_Injection
<1>6. Cardinality(1..Len(q)) = Len(q)
    BY <1>1, Counting
<1> QED
    BY <1>1, <1>5, <1>6

\* A finite set of n elements or more has n different ones.
LEMMA Enumerates ==
    ASSUME NEW S, IsFiniteSet(S), NEW n \in Nat, n <= Cardinality(S)
    PROVE  \E g \in [1..n -> S] : \A i, j \in 1..n : g[i] = g[j] => i = j
<1>1. Cardinality(S) \in Nat /\ ExistsBijection(1..Cardinality(S), S)
    BY FS_CardinalityType
<1>2. PICK b : b \in Bijection(1..Cardinality(S), S)
    BY <1>1 DEF ExistsBijection
<1>3. b \in [1..Cardinality(S) -> S] /\ \A i, j \in 1..Cardinality(S) : b[i] = b[j] => i = j
    BY <1>2 DEF Bijection, Injection, IsInjective
<1>4. \A i \in 1..n : i \in 1..Cardinality(S)
    BY <1>1
<1> DEFINE g == [i \in 1..n |-> b[i]]
<1>5. g \in [1..n -> S] /\ \A i, j \in 1..n : g[i] = g[j] => i = j
    BY <1>3, <1>4
<1> QED
    BY <1>5

LEMMA RecordParts ==
    ASSUME NEW a, NEW b
    PROVE  /\ [remaining |-> a, satisfied |-> b].remaining = a
           /\ [remaining |-> a, satisfied |-> b].satisfied = b
OBVIOUS

\* A step that leaves the policy satisfied so far.
LEMMA StepTakes ==
    ASSUME NEW acc, NEW step, NEW q, Score(acc, step, q).satisfied
    PROVE  /\ acc.satisfied
           /\ Cardinality(Credit(step, q, acc.remaining)) >= step.minApprovals
           /\ Score(acc, step, q).remaining = acc.remaining \ Credit(step, q, acc.remaining)
<1> DEFINE used == IF acc.satisfied THEN Credit(step, q, acc.remaining) ELSE {}
           enough == acc.satisfied /\ Cardinality(used) >= step.minApprovals
<1>1. Score(acc, step, q) = [remaining |-> acc.remaining \ used, satisfied |-> enough]
    BY Zenon DEF Score
<1>2. Score(acc, step, q).satisfied = enough /\ Score(acc, step, q).remaining = acc.remaining \ used
    <2> HIDE DEF used, enough
    <2> DEFINE left == acc.remaining \ used
    <2> HIDE DEF left
    <2>1. [remaining |-> left, satisfied |-> enough].remaining = left
          /\ [remaining |-> left, satisfied |-> enough].satisfied = enough
        BY RecordParts, Zenon
    <2>2. Score(acc, step, q) = [remaining |-> left, satisfied |-> enough]
        BY <1>1, Zenon DEF left
    <2> QED
        BY <2>1, <2>2, Zenon DEF left
<1>3. enough
    <2> HIDE DEF enough
    <2> QED
        BY <1>2, Zenon
<1>4. acc.satisfied
    BY <1>3, Zenon
<1>5. used = Credit(step, q, acc.remaining)
    BY <1>4, Zenon
<1> HIDE DEF used
<1> QED
    BY <1>2, <1>3, <1>4, <1>5, Zenon

\* What a satisfied policy has taken for each of its steps: enough
\* approvals, of the step's role, and none that another step took.
LEMMA TakenPerStep ==
    ASSUME NEW steps, Steps(steps), NEW q \in OneEach, Satisfied(steps, q)
    PROVE  \E C \in [1..Len(steps) -> SUBSET DOMAIN q] :
              /\ \A k \in 1..Len(steps) :
                    /\ IsFiniteSet(C[k]) /\ steps[k].minApprovals <= Cardinality(C[k])
                    /\ \A i \in C[k] : approverMatches(steps[k], q[i])
              /\ \A k, l \in 1..Len(steps) : k # l => C[k] \cap C[l] = {}
<1> DEFINE n == Len(steps)
           P(i) == progress(steps, q)[i]
           C == [k \in 1..n |-> Credit(steps[k], q, P(k - 1).remaining)]
<1>1. n \in Nat /\ Len(q) \in Nat /\ DOMAIN q = 1..Len(q) /\ IsFiniteSet(DOMAIN q)
    <2>1. Len(q) \in Nat /\ DOMAIN q = 1..Len(q)
        BY LenProperties DEF OneEach
    <2>2. IsFiniteSet(1..Len(q))
        BY <2>1, Counting
    <2> QED
        BY <2>1, <2>2 DEF Steps
<1>2. P(0) = [remaining |-> DOMAIN q, satisfied |-> TRUE]
      /\ \A i \in 1..n : P(i) = Score(P(i - 1), steps[i], q)
    BY <1>1, ProgressSteps
<1>3. P(n).satisfied
    BY DEF Satisfied
<1> HIDE DEF P, n
<1>4. ASSUME NEW i \in 1..n, P(i).satisfied
      PROVE  /\ P(i - 1).satisfied
             /\ Cardinality(Credit(steps[i], q, P(i - 1).remaining)) >= steps[i].minApprovals
             /\ P(i).remaining = P(i - 1).remaining \ Credit(steps[i], q, P(i - 1).remaining)
    <2>1. P(i) = Score(P(i - 1), steps[i], q)
        BY <1>2, Zenon
    <2>2. Score(P(i - 1), steps[i], q).satisfied
        BY <1>4, <2>1, Zenon
    <2> QED
        BY <2>1, <2>2, StepTakes, Zenon
<1>5. \A i \in 0..n : P(i).satisfied
    <2> DEFINE T == {i \in Nat : i <= n => P(n - i).satisfied}
    <2>1. 0 \in T
        BY <1>1, <1>3
    <2>2. ASSUME NEW i \in Nat, i \in T PROVE i + 1 \in T
        <3> SUFFICES ASSUME i + 1 <= n PROVE P(n - (i + 1)).satisfied
            OBVIOUS
        <3>1. n - i \in 1..n /\ P(n - i).satisfied /\ (n - i) - 1 = n - (i + 1)
            BY <1>1, <2>2
        <3> QED
            BY <1>4, <3>1
    <2>3. \A i \in Nat : i \in T
        <3> HIDE DEF T
        <3> QED
            BY <2>1, <2>2, NatSetInduction
    <2>4. ASSUME NEW i \in 0..n PROVE P(i).satisfied
        <3>1. n - i \in Nat /\ n - i <= n /\ n - (n - i) = i
            BY <1>1
        <3> QED
            BY <2>3, <3>1
    <2> QED
        BY <2>4
<1>6. \A k \in 1..n : /\ Cardinality(C[k]) >= steps[k].minApprovals
                      /\ P(k).remaining = P(k - 1).remaining \ C[k]
                      /\ C[k] \subseteq P(k - 1).remaining
                      /\ \A i \in C[k] : approverMatches(steps[k], q[i])
    <2> SUFFICES ASSUME NEW k \in 1..n
                 PROVE  /\ Cardinality(C[k]) >= steps[k].minApprovals
                        /\ P(k).remaining = P(k - 1).remaining \ C[k]
                        /\ C[k] \subseteq P(k - 1).remaining
                        /\ \A i \in C[k] : approverMatches(steps[k], q[i])
        OBVIOUS
    <2>1. P(k).satisfied
        BY <1>1, <1>5
    <2>2. C[k] = Credit(steps[k], q, P(k - 1).remaining)
        OBVIOUS
    <2>3. \A i \in C[k] : i \in P(k - 1).remaining /\ approverMatches(steps[k], q[i])
        BY <2>2 DEF Credit, Matching
    <2> HIDE DEF C
    <2> QED
        BY <1>4, <2>1, <2>2, <2>3
<1> HIDE DEF C
\* What is left only shrinks.
<1>7. ASSUME NEW k \in 0..n PROVE \A l \in k..n : P(l).remaining \subseteq P(k).remaining
    <2> DEFINE T == {i \in Nat : k + i <= n => P(k + i).remaining \subseteq P(k).remaining}
    <2>1. 0 \in T
        BY <1>1
    <2>2. ASSUME NEW i \in Nat, i \in T PROVE i + 1 \in T
        <3> SUFFICES ASSUME k + (i + 1) <= n
                     PROVE  P(k + (i + 1)).remaining \subseteq P(k).remaining
            OBVIOUS
        <3>1. k + (i + 1) \in 1..n /\ (k + (i + 1)) - 1 = k + i /\ k + i <= n
            BY <1>1
        <3> QED
            BY <1>6, <2>2, <3>1
    <2>3. \A i \in Nat : i \in T
        <3> HIDE DEF T
        <3> QED
            BY <2>1, <2>2, NatSetInduction
    <2>4. ASSUME NEW l \in k..n PROVE P(l).remaining \subseteq P(k).remaining
        <3>1. l - k \in Nat /\ k + (l - k) = l /\ l <= n
            BY <1>1
        <3> QED
            BY <2>3, <3>1
    <2> QED
        BY <2>4
<1>8. \A k \in 1..n : C[k] \subseteq DOMAIN q /\ IsFiniteSet(C[k])
    <2> SUFFICES ASSUME NEW k \in 1..n PROVE C[k] \subseteq DOMAIN q /\ IsFiniteSet(C[k])
        OBVIOUS
    <2>1. 0 \in 0..n /\ k - 1 \in 0..n
        BY <1>1
    <2>2. P(k - 1).remaining \subseteq P(0).remaining
        BY <1>7, <2>1
    <2>3. C[k] \in SUBSET DOMAIN q
        BY <1>2, <1>6, <2>2
    <2> QED
        BY <1>1, <2>3, FS_Subset
<1>9. ASSUME NEW k \in 1..n, NEW l \in 1..n, k < l PROVE C[k] \cap C[l] = {}
    <2>1. k \in 0..n /\ l - 1 \in k..n
        BY <1>1, <1>9
    <2>2. C[l] \subseteq P(k).remaining
        BY <1>6, <1>7, <2>1
    <2> QED
        BY <1>6, <2>2
<1>10. \A k, l \in 1..n : k # l => C[k] \cap C[l] = {}
    <2> SUFFICES ASSUME NEW k \in 1..n, NEW l \in 1..n, k # l PROVE C[k] \cap C[l] = {}
        OBVIOUS
    <2>1. k < l \/ l < k
        BY <1>1
    <2> QED
        BY <1>9, <2>1
<1>11. C \in [1..n -> SUBSET DOMAIN q]
    BY <1>8 DEF C
<1>12. \A k \in 1..n : steps[k].minApprovals <= Cardinality(C[k])
    <2> SUFFICES ASSUME NEW k \in 1..n PROVE steps[k].minApprovals <= Cardinality(C[k])
        OBVIOUS
    <2>1. Cardinality(C[k]) \in Nat
        BY <1>8, FS_CardinalityType
    <2>2. steps[k].minApprovals \in Nat
        BY DEF Steps, n
    <2> QED
        BY <1>6, <2>1, <2>2
<1> QED
    BY <1>6, <1>8, <1>10, <1>11, <1>12 DEF n

\* A satisfied policy has been approved by the people it asks for.
LEMMA Filling ==
    ASSUME NEW steps, Steps(steps), NEW q \in OneEach, Satisfied(steps, q)
    PROVE  FilledBy(steps, NamesOf(q))
<1> DEFINE n == Len(steps)
           min(k) == steps[k].minApprovals
<1>1. PICK C \in [1..n -> SUBSET DOMAIN q] :
         /\ \A k \in 1..n : /\ IsFiniteSet(C[k]) /\ min(k) <= Cardinality(C[k])
                            /\ \A i \in C[k] : approverMatches(steps[k], q[i])
         /\ \A k, l \in 1..n : k # l => C[k] \cap C[l] = {}
    BY TakenPerStep
<1>2. Len(q) \in Nat /\ Len(q) <= Cardinality(People) /\ DOMAIN q = 1..Len(q)
      /\ Distinct(q) /\ \A i \in 1..Len(q) : q[i] \in Approval
    BY OneEachBounded, LenProperties, ElementOfSeq DEF OneEach
<1>3. \A k \in 1..n : min(k) \in Nat
    BY DEF Steps
<1> DEFINE Injects(g, k) == \A i, j \in 1..min(k) : g[i] = g[j] => i = j
           G == [k \in 1..n |-> CHOOSE g \in [1..min(k) -> C[k]] : Injects(g, k)]
<1>4. \A k \in 1..n : G[k] \in [1..min(k) -> C[k]] /\ Injects(G[k], k)
    <2> SUFFICES ASSUME NEW k \in 1..n PROVE G[k] \in [1..min(k) -> C[k]] /\ Injects(G[k], k)
        OBVIOUS
    <2>1. \E g \in [1..min(k) -> C[k]] : Injects(g, k)
        BY <1>1, <1>3, Enumerates
    <2>2. G[k] = CHOOSE g \in [1..min(k) -> C[k]] : Injects(g, k)
        OBVIOUS
    <2> HIDE DEF Injects, G
    <2> QED
        BY <2>1, <2>2
<1> HIDE DEF G
<1> DEFINE at(x) == G[x[1]][x[2]]
           f == [x \in Slots(steps) |-> q[at(x)].approver]
<1>5. \A x \in Slots(steps) : x[1] \in 1..n /\ x[2] \in 1..min(x[1]) /\ x = <<x[1], x[2]>>
    <2> SUFFICES ASSUME NEW x \in Slots(steps)
                 PROVE  x[1] \in 1..n /\ x[2] \in 1..min(x[1]) /\ x = <<x[1], x[2]>>
        OBVIOUS
    <2>1. x \in (DOMAIN steps) \X (1..Cardinality(People)) /\ x[2] <= min(x[1])
        BY DEF Slots
    <2>2. x[1] \in 1..n /\ x[2] \in 1..Cardinality(People) /\ x = <<x[1], x[2]>>
        BY <2>1 DEF Steps
    <2>3. Cardinality(People) \in Nat /\ min(x[1]) \in Nat
        BY <1>3, <2>2, PeopleAssumption, FS_CardinalityType
    <2> QED
        BY <2>1, <2>2, <2>3
<1>6. \A x \in Slots(steps) : at(x) \in C[x[1]] /\ at(x) \in DOMAIN q
    <2> SUFFICES ASSUME NEW x \in Slots(steps) PROVE at(x) \in C[x[1]] /\ at(x) \in DOMAIN q
        OBVIOUS
    <2>1. x[1] \in 1..n /\ x[2] \in 1..min(x[1])
        BY <1>5
    <2>2. G[x[1]] \in [1..min(x[1]) -> C[x[1]]]
        BY <1>4, <2>1
    <2>3. C[x[1]] \subseteq DOMAIN q
        BY <1>1, <2>1
    <2> QED
        BY <2>1, <2>2, <2>3
<1>7. f \in [Slots(steps) -> NamesOf(q)]
    BY <1>6 DEF NamesOf
<1>8. ASSUME NEW x \in Slots(steps), NEW y \in Slots(steps), f[x] = f[y] PROVE x = y
    <2>1. at(x) = at(y)
        BY <1>2, <1>6, <1>8 DEF Distinct
    <2>2. x[1] = y[1]
        BY <1>1, <1>5, <1>6, <2>1
    <2>3. x[2] = y[2]
        BY <1>4, <1>5, <2>1, <2>2
    <2> QED
        BY <1>5, <2>2, <2>3
<1>9. ASSUME NEW x \in Slots(steps) PROVE Fills(f[x], steps[x[1]])
    <2>1. approverMatches(steps[x[1]], q[at(x)]) /\ q[at(x)] \in Approval
        BY <1>1, <1>2, <1>5, <1>6
    <2>2. q[at(x)].roles \subseteq RolesOf[q[at(x)].approver]
        BY <2>1 DEF Approval
    <2>3. f[x] = q[at(x)].approver
        OBVIOUS
    <2> QED
        BY <2>1, <2>2, <2>3 DEF Fills, approverMatches
<1>10. ASSUME NEW k \in DOMAIN steps PROVE steps[k].minApprovals <= Cardinality(People)
    <2>1. k \in 1..n
        BY DEF Steps
    <2>2. C[k] \in SUBSET (1..Len(q)) /\ IsFiniteSet(C[k]) /\ min(k) <= Cardinality(C[k])
        BY <1>1, <1>2, <2>1
    <2>3. IsFiniteSet(1..Len(q)) /\ Cardinality(1..Len(q)) = Len(q)
        BY <1>2, Counting
    <2>4. Cardinality(C[k]) <= Cardinality(1..Len(q))
        BY <2>2, <2>3, FS_Subset
    <2>5. Cardinality(C[k]) \in Nat /\ Cardinality(People) \in Nat /\ min(k) \in Nat
        BY <1>3, <2>1, <2>2, PeopleAssumption, FS_CardinalityType
    <2> QED
        BY <1>2, <2>2, <2>3, <2>4, <2>5
<1>11. \E h \in [Slots(steps) -> NamesOf(q)] :
          /\ \A x, y \in Slots(steps) : h[x] = h[y] => x = y
          /\ \A x \in Slots(steps) : Fills(h[x], steps[x[1]])
    <2> HIDE DEF f
    <2> QED
        BY <1>7, <1>8, <1>9
<1> QED
    BY <1>10, <1>11 DEF FilledBy

\* More people fill it as well.
LEMMA FilledMore ==
    ASSUME NEW steps, NEW A, NEW B, FilledBy(steps, A), A \subseteq B
    PROVE  FilledBy(steps, B)
<1>1. PICK f \in [Slots(steps) -> A] : /\ \A x, y \in Slots(steps) : f[x] = f[y] => x = y
                                       /\ \A x \in Slots(steps) : Fills(f[x], steps[x[1]])
    BY DEF FilledBy
<1>2. f \in [Slots(steps) -> B]
    BY <1>1
<1> QED
    BY <1>1, <1>2 DEF FilledBy

-----------------------------------------------------------------------------
(* The inductive invariant.                                                *)

\* What a request that came with the approvals c may have in its payload
\* once these rows are there: c merged with the first so many of them.
SnapsOf(c, list) == {Entering(c, list)[j] : j \in 0..Len(list)}
Deciding == {"insert", "collect", "score", "snapshot", "approved"}
Scored == {"score", "snapshot", "approved"}

KindInv ==
    /\ status \in {"pending"} \cup Decided
    /\ policy \in Policies \cup {NoPolicy}
    /\ licensed \in BOOLEAN
    /\ pc \in [Sessions -> {"idle", "insert", "collect", "score", "snapshot", "approved", "rejected"}]
    /\ ground \in [Sessions -> Policies \cup {NoPolicy}]
    /\ sweeping \in BOOLEAN
    /\ announced \in Nat
    /\ verdict \in Policies \cup {NoPolicy}
    /\ gone \in BOOLEAN

\* Every list of approvals about is such a merge of the rows, however old:
\* the payload, what a call read and what it collected.
SnapInv(c) ==
    /\ rows \in OneEach
    /\ payload \in SnapsOf(c, rows)
    /\ loaded \in [Sessions -> SnapsOf(c, rows) \cup {<<>>}]
    /\ collected \in [Sessions -> SnapsOf(c, rows) \cup {<<>>}]
    /\ \A s \in Sessions : pc[s] \in Deciding => loaded[s] \in SnapsOf(c, rows)
    /\ \A s \in Sessions : pc[s] \in Scored => collected[s] \in SnapsOf(c, rows)

\* A call that approves on a policy, and a request approved on one, have the
\* policy's people among those who approved.
FilledInv ==
    /\ \A s \in Sessions : pc[s] = "approved" /\ ground[s] # NoPolicy => FilledBy(ground[s], Approvers)
    /\ QuorumOfPeople

\* While the request is pending, the policy is short of all the approvals
\* there are, or some call has yet to count them or to act on its count.
Counts(s, c) ==
    \/ pc[s] \in {"collect", "approved"}
    \/ pc[s] = "score" /\ collected[s] = Entered(c, rows)
EffectInv(c) ==
    /\ policy \in Policies
    /\ (status = "pending" /\ rows # <<>> /\ \A s \in Sessions : ~Counts(s, c))
       => ~Satisfied(policy, Entered(c, rows))

-----------------------------------------------------------------------------
(* Facts about the merges of one list of rows.                             *)

LEMMA CarriedOneEach == \A c \in Carried : c \in OneEach
BY CarriedAssumption DEF OneEach

LEMMA EmptyOneEach == <<>> \in OneEach
BY EmptySeq DEF OneEach, Distinct

LEMMA SnapsNone == \A c : c \in SnapsOf(c, <<>>)
<1> SUFFICES ASSUME NEW c PROVE c \in SnapsOf(c, <<>>)
    OBVIOUS
<1>1. <<>> \in Seq({}) /\ Len(<<>>) = 0 /\ 0 \in 0..0
    BY EmptySeq
<1>2. Entering(c, <<>>)[0] = c
    BY <1>1, EnteringSteps
<1> QED
    BY <1>1, <1>2 DEF SnapsOf

LEMMA SnapsKeep ==
    ASSUME NEW c \in OneEach, NEW list \in OneEach, NEW q \in SnapsOf(c, list)
    PROVE  /\ q \in OneEach
           /\ NamesOf(c) \subseteq NamesOf(q)
           /\ NamesOf(q) \subseteq NamesOf(c) \cup NamesOf(list)
<1>1. PICK j \in 0..Len(list) : q = Entering(c, list)[j]
    BY DEF SnapsOf
<1> QED
    BY <1>1, EnteringKeeps

LEMMA SnapsGrow ==
    ASSUME NEW c \in OneEach, NEW list \in OneEach, NEW x \in Approval
    PROVE  SnapsOf(c, list) \subseteq SnapsOf(c, Append(list, x))
<1> SUFFICES ASSUME NEW q \in SnapsOf(c, list) PROVE q \in SnapsOf(c, Append(list, x))
    OBVIOUS
<1>1. PICK j \in 0..Len(list) : q = Entering(c, list)[j]
    BY DEF SnapsOf
<1>2. list \in Seq(Approval) /\ Len(list) \in Nat /\ Len(Append(list, x)) = Len(list) + 1
    BY AppendProperties, LenProperties DEF OneEach
<1>3. j \in 0..Len(Append(list, x)) /\ q = Entering(c, Append(list, x))[j]
    BY <1>1, <1>2, EnteringPrefix
<1> QED
    BY <1>3 DEF SnapsOf

\* Whichever of the merges a call starts from, what it collects is the merge
\* with all of the rows there are.
LEMMA CollectsAll ==
    ASSUME NEW c \in OneEach, rows \in OneEach, NEW q \in SnapsOf(c, rows)
    PROVE  Collected(q) = Entered(c, rows) /\ Entered(c, rows) \in SnapsOf(c, rows)
<1>1. PICK m \in 0..Len(rows) : q = Entering(c, rows)[m]
    BY DEF SnapsOf
<1>2. Len(rows) \in Nat /\ Len(rows) \in m..Len(rows) /\ Len(rows) \in 0..Len(rows)
    BY LenProperties DEF OneEach
<1>3. Entered(<<>>, q) = q
    BY SnapsKeep, EnteredSelf
<1>4. Entering(q, rows)[Len(rows)] = Entering(c, rows)[Len(rows)]
    BY <1>1, <1>2, EnteringAgain
<1>5. Entered(c, rows) \in SnapsOf(c, rows)
    BY <1>2 DEF Entered, SnapsOf
<1> QED
    BY <1>3, <1>4, <1>5 DEF Collected, Entered

\* The row a call inserts.
LEMMA InsertedRow ==
    ASSUME NEW s \in Sessions, rows \in OneEach, Insert(s)
    PROVE  \E a \in Approval : rows' = Append(rows, a) /\ rows' \in OneEach
<1>1. PICK found \in SUBSET RolesOf[Who[s]] :
         rows' = Append(rows, [approver |-> Who[s], roles |-> found])
    BY DEF Insert
<1> DEFINE a == [approver |-> Who[s], roles |-> found]
<1>2. a \in Approval /\ a.approver = Who[s]
    BY WhoAssumption DEF Approval
<1>3. Who[s] \notin NamesOf(rows)
    BY DEF Insert, NamesOf
<1>4. SetApproval(rows, a) = Append(rows, a)
    BY <1>2, <1>3 DEF SetApproval
<1> HIDE DEF a
<1>5. SetApproval(rows, a) \in OneEach
    BY <1>2, SetOne
<1> QED
    BY <1>1, <1>2, <1>4, <1>5 DEF a

-----------------------------------------------------------------------------
(* Every step keeps it.                                                    *)

LEMMA KindInit == Init => KindInv
<1> SUFFICES ASSUME Init PROVE KindInv
    OBVIOUS
<1>1. licensed \in BOOLEAN /\ sweeping \in BOOLEAN /\ gone \in BOOLEAN
    BY Zenon DEF Init
<1>2. pc = [s \in Sessions |-> "idle"] /\ ground = [s \in Sessions |-> NoPolicy]
    BY DEF Init
<1>3. status = "pending" /\ policy \in Policies /\ announced = 0 /\ verdict = NoPolicy
    BY DEF Init
<1> QED
    BY <1>1, <1>2, <1>3 DEF KindInv

LEMMA KindStep == KindInv /\ [Next]_vars => KindInv'
<1> SUFFICES ASSUME KindInv, [Next]_vars PROVE KindInv'
    OBVIOUS
<1> USE DEF KindInv
<1>1. ASSUME NEW s \in Sessions, Approve(s) \/ Reject(s) \/ Insert(s) \/ Collect(s) \/ ScoreShort(s)
      PROVE KindInv'
    BY <1>1 DEF Approve, Reject, Insert, Collect, ScoreShort, Goto
<1>2. ASSUME NEW s \in Sessions, InsertRefused(s) \/ ScoreThrows(s) \/ Snapshot(s) \/ Crash(s)
      PROVE KindInv'
    BY <1>2 DEF InsertRefused, ScoreThrows, Snapshot, Crash, Return
<1>3. ASSUME NEW s \in Sessions, ScoreNull(s) \/ LicenseUnreadable(s) \/ ScoreSatisfied(s)
      PROVE KindInv'
    BY <1>3 DEF ScoreNull, LicenseUnreadable, ScoreSatisfied, ApproveOn, Goto
<1>4. ASSUME NEW s \in Sessions, Flip(s) PROVE KindInv'
    BY <1>4 DEF Flip, Return, Decided
<1>5. CASE SweepFinds \/ SweepFlips
    <2>1. sweeping' \in BOOLEAN
        BY <1>5, Zenon DEF SweepFinds, SweepFlips
    <2>2. UNCHANGED <<policy, licensed, pc, ground, verdict, gone>>
        BY <1>5 DEF SweepFinds, SweepFlips, callVars
    <2>3. status' \in {"pending"} \cup Decided /\ announced' \in Nat
        BY <1>5 DEF SweepFinds, SweepFlips, Decided
    <2> QED
        BY <2>1, <2>2, <2>3
<1>6. ASSUME NEW p \in Policies, UpdatePolicy(p) PROVE KindInv'
    BY <1>6 DEF UpdatePolicy, callVars
<1>7. CASE RemovePolicy \/ ChangePlan
    BY <1>7 DEF RemovePolicy, ChangePlan, callVars
<1>8. CASE UNCHANGED vars
    BY <1>8 DEF vars
<1> QED
    BY <1>1, <1>2, <1>3, <1>4, <1>5, <1>6, <1>7, <1>8 DEF Next

LEMMA SnapInit ==
    ASSUME Init
    PROVE  payload \in Carried /\ SnapInv(payload)
BY EmptyOneEach, SnapsNone DEF Init, SnapInv, Deciding, Scored

\* A call that ends, with the payload left or replaced by one of the merges.
LEMMA SnapReturn ==
    ASSUME KindInv, NEW c \in OneEach, SnapInv(c), NEW s \in Sessions, Return(s), rows' = rows,
           payload' \in SnapsOf(c, rows)
    PROVE  SnapInv(c)'
<1>1. /\ \A t \in Sessions : t # s => pc'[t] = pc[t] /\ loaded'[t] = loaded[t] /\ collected'[t] = collected[t]
      /\ pc'[s] = "idle"
    BY DEF Return, KindInv, SnapInv
<1>2. \A t \in Sessions : pc'[t] \in Deciding \/ pc'[t] \in Scored => t # s
    BY <1>1 DEF Deciding, Scored
<1>3. /\ loaded' \in [Sessions -> SnapsOf(c, rows) \cup {<<>>}]
      /\ collected' \in [Sessions -> SnapsOf(c, rows) \cup {<<>>}]
    BY DEF Return, SnapInv
<1> QED
    BY <1>1, <1>2, <1>3 DEF SnapInv

LEMMA SnapInsert ==
    ASSUME KindInv, NEW c \in OneEach, SnapInv(c), NEW s \in Sessions, Insert(s)
    PROVE  SnapInv(c)'
<1>1. PICK a \in Approval : rows' = Append(rows, a) /\ rows' \in OneEach
    BY InsertedRow DEF SnapInv
<1>2. SnapsOf(c, rows) \subseteq SnapsOf(c, rows')
    BY <1>1, SnapsGrow DEF SnapInv
<1>3. UNCHANGED <<payload, loaded, collected>> /\ pc' = [pc EXCEPT ![s] = "collect"] /\ pc[s] = "insert"
    BY DEF Insert, Goto
<1>4. \A t \in Sessions : /\ pc'[t] \in Deciding => pc[t] \in Deciding
                          /\ pc'[t] \in Scored => pc[t] \in Scored
    BY <1>3 DEF KindInv, Deciding, Scored
<1>5. rows' \in OneEach
    BY <1>1
<1> HIDE DEF SnapsOf
<1> QED
    BY <1>2, <1>3, <1>4, <1>5 DEF SnapInv

LEMMA SnapStep ==
    ASSUME KindInv, NEW c \in OneEach, SnapInv(c), [Next]_vars
    PROVE  SnapInv(c)'
<1>1. ASSUME NEW s \in Sessions, Approve(s) PROVE SnapInv(c)'
    BY <1>1 DEF Approve, Goto, KindInv, SnapInv, Deciding, Scored
<1>2. ASSUME NEW s \in Sessions, Reject(s) PROVE SnapInv(c)'
    BY <1>2 DEF Reject, Goto, KindInv, SnapInv, Deciding, Scored
<1>3. ASSUME NEW s \in Sessions, Insert(s) PROVE SnapInv(c)'
    BY <1>3, SnapInsert
<1>4. ASSUME NEW s \in Sessions, Collect(s) PROVE SnapInv(c)'
    <2>1. loaded[s] \in SnapsOf(c, rows)
        BY <1>4 DEF Collect, SnapInv, Deciding
    <2>2. Collected(loaded[s]) \in SnapsOf(c, rows)
        BY <2>1, CollectsAll DEF SnapInv
    <2> DEFINE all == Collected(loaded[s])
    <2>3. /\ collected' = [collected EXCEPT ![s] = all] /\ pc' = [pc EXCEPT ![s] = "score"]
          /\ UNCHANGED <<rows, payload, loaded>> /\ pc[s] = "collect"
        BY <1>4 DEF Collect, Goto
    <2> HIDE DEF all
    <2>4. all \in SnapsOf(c, rows)
        BY <2>2 DEF all
    <2> QED
        BY <2>3, <2>4 DEF KindInv, SnapInv, Deciding, Scored
<1>5. ASSUME NEW s \in Sessions, ScoreNull(s) \/ LicenseUnreadable(s) \/ ScoreSatisfied(s) \/ ScoreShort(s)
      PROVE  SnapInv(c)'
    BY <1>5 DEF ScoreNull, LicenseUnreadable, ScoreSatisfied, ScoreShort, ApproveOn, Goto,
                KindInv, SnapInv, Deciding, Scored
<1>6. ASSUME NEW s \in Sessions, InsertRefused(s) \/ ScoreThrows(s) \/ Crash(s) \/ Flip(s)
      PROVE  SnapInv(c)'
    <2>1. Return(s) /\ rows' = rows /\ payload' = payload
        BY <1>6 DEF InsertRefused, ScoreThrows, Crash, Flip
    <2> QED
        BY <2>1, SnapReturn DEF SnapInv
<1>7. ASSUME NEW s \in Sessions, Snapshot(s) PROVE SnapInv(c)'
    <2>1. Return(s) /\ rows' = rows /\ payload' \in SnapsOf(c, rows)
        BY <1>7 DEF Snapshot, SnapInv, Scored
    <2> QED
        BY <2>1, SnapReturn
<1>8. ASSUME UNCHANGED <<rows, payload, callVars>> PROVE SnapInv(c)'
    BY <1>8 DEF callVars, SnapInv
<1>9. CASE SweepFinds \/ SweepFlips \/ RemovePolicy \/ ChangePlan \/ \E p \in Policies : UpdatePolicy(p)
    BY <1>8, <1>9 DEF SweepFinds, SweepFlips, RemovePolicy, ChangePlan, UpdatePolicy
<1>10. CASE UNCHANGED vars
    BY <1>8, <1>10 DEF vars, callVars
<1> QED
    BY <1>1, <1>2, <1>3, <1>4, <1>5, <1>6, <1>7, <1>9, <1>10 DEF Next

\* Who approved is remembered: the names of the rows stay, and those the
\* request came with are in every payload.
LEMMA ApproversGrow ==
    ASSUME NEW c \in OneEach, SnapInv(c), SnapInv(c)', NamesOf(rows) \subseteq NamesOf(rows')
    PROVE  Approvers \subseteq Approvers'
<1>1. NamesOf(payload) \subseteq NamesOf(c) \cup NamesOf(rows)
    BY SnapsKeep DEF SnapInv
<1>2. NamesOf(c) \subseteq NamesOf(payload')
    BY SnapsKeep DEF SnapInv
<1>3. Approvers' = NamesOf(rows') \cup NamesOf(payload')
    BY DEF Approvers, NamesOf
<1> QED
    BY <1>1, <1>2, <1>3 DEF Approvers

\* What a call collected is of people who approved.
LEMMA CollectedApproved ==
    ASSUME NEW c \in OneEach, SnapInv(c), NEW s \in Sessions, pc[s] \in Scored
    PROVE  collected[s] \in OneEach /\ NamesOf(collected[s]) \subseteq Approvers
<1>1. collected[s] \in OneEach /\ NamesOf(collected[s]) \subseteq NamesOf(c) \cup NamesOf(rows)
    BY SnapsKeep DEF SnapInv
<1>2. NamesOf(c) \subseteq NamesOf(payload)
    BY SnapsKeep DEF SnapInv
<1> QED
    BY <1>1, <1>2 DEF Approvers

LEMMA RowsGrow ==
    ASSUME KindInv, rows \in OneEach, [Next]_vars
    PROVE  NamesOf(rows) \subseteq NamesOf(rows')
<1>1. ASSUME NEW s \in Sessions, Insert(s) PROVE NamesOf(rows) \subseteq NamesOf(rows')
    <2>1. PICK a \in Approval : rows' = Append(rows, a)
        BY <1>1, InsertedRow
    <2>2. rows \in Seq(Approval) /\ Len(rows) \in Nat /\ DOMAIN rows = 1..Len(rows)
        BY LenProperties DEF OneEach
    <2>3. rows' \in Seq(Approval) /\ Len(rows') = Len(rows) + 1 /\ DOMAIN rows' = 1..(Len(rows) + 1)
          /\ \A i \in 1..Len(rows) : rows'[i] = rows[i]
        BY <2>1, <2>2, AppendProperties, LenProperties
    <2> QED
        BY <2>2, <2>3 DEF NamesOf
<1>2. CASE rows' = rows
    BY <1>2
<1>3. ASSUME NEW s \in Sessions, Approve(s) \/ Reject(s) \/ InsertRefused(s) \/ Collect(s)
             \/ ScoreNull(s) \/ LicenseUnreadable(s) \/ ScoreSatisfied(s) \/ ScoreShort(s)
             \/ ScoreThrows(s) \/ Snapshot(s) \/ Flip(s) \/ Crash(s)
      PROVE  rows' = rows
    BY <1>3 DEF Approve, Reject, InsertRefused, Collect, ScoreNull, LicenseUnreadable,
                ScoreSatisfied, ScoreShort, ScoreThrows, Snapshot, Flip, Crash, ApproveOn
<1>4. SweepFinds \/ SweepFlips \/ RemovePolicy \/ ChangePlan \/ (\E p \in Policies : UpdatePolicy(p))
      => rows' = rows
    BY DEF SweepFinds, SweepFlips, RemovePolicy, ChangePlan, UpdatePolicy
<1>5. UNCHANGED vars => rows' = rows
    BY DEF vars
<1> QED
    BY <1>1, <1>2, <1>3, <1>4, <1>5 DEF Next

\* The people a policy asked for stay among those who approved.
Backed(g, names) == g # NoPolicy => FilledBy(g, names)

LEMMA FilledIs ==
    FilledInv <=> /\ \A s \in Sessions : pc[s] = "approved" => Backed(ground[s], Approvers)
                  /\ status = "approved" => Backed(verdict, Approvers)
BY DEF FilledInv, QuorumOfPeople, Backed

LEMMA FilledStep ==
    ASSUME KindInv, NEW c \in OneEach, SnapInv(c), FilledInv, [Next]_vars
    PROVE  FilledInv'
<1> DEFINE A == Approvers
           B == Approvers'
<1>1. \A g : Backed(g, A) => Backed(g, B)
    <2>1. A \subseteq B
        BY SnapStep, RowsGrow, ApproversGrow DEF SnapInv
    <2> QED
        BY <2>1, FilledMore DEF Backed
<1>2. /\ \A s \in Sessions : pc[s] = "approved" => Backed(ground[s], A)
      /\ status = "approved" => Backed(verdict, A)
    BY FilledIs
<1> SUFFICES /\ \A t \in Sessions : pc'[t] = "approved" => Backed(ground'[t], B)
             /\ status' = "approved" => Backed(verdict', B)
    BY DEF FilledInv, QuorumOfPeople, Backed
<1> HIDE DEF A, B
<1> DEFINE Goal == /\ \A t \in Sessions : pc'[t] = "approved" => Backed(ground'[t], B)
                   /\ status' = "approved" => Backed(verdict', B)
<1>3. ASSUME NEW s \in Sessions, Approve(s) \/ Reject(s) \/ Insert(s) \/ Collect(s) \/ ScoreShort(s)
      PROVE  Goal
    BY <1>1, <1>2, <1>3 DEF Approve, Reject, Insert, Collect, ScoreShort, Goto, KindInv
<1>4. ASSUME NEW s \in Sessions, InsertRefused(s) \/ ScoreThrows(s) \/ Snapshot(s) \/ Crash(s)
      PROVE  Goal
    BY <1>1, <1>2, <1>4 DEF InsertRefused, ScoreThrows, Snapshot, Crash, Return, KindInv
<1>5. ASSUME NEW s \in Sessions, NEW g, ApproveOn(s, g), Backed(g, B)
      PROVE  Goal
    BY <1>1, <1>2, <1>5 DEF ApproveOn, Goto, KindInv
<1>6. ASSUME NEW s \in Sessions, ScoreNull(s) \/ LicenseUnreadable(s) PROVE Goal
    <2>1. ApproveOn(s, NoPolicy) /\ Backed(NoPolicy, B)
        BY <1>6 DEF ScoreNull, LicenseUnreadable, Backed
    <2> QED
        BY <1>5, <2>1
<1>7. ASSUME NEW s \in Sessions, ScoreSatisfied(s) PROVE Goal
    <2>1. ApproveOn(s, policy) /\ policy \in Policies /\ Satisfied(policy, collected[s]) /\ pc[s] = "score"
        BY <1>7 DEF ScoreSatisfied, KindInv
    <2>2. Steps(policy)
        BY <2>1, PolicyAssumption DEF Steps
    <2>3. collected[s] \in OneEach /\ NamesOf(collected[s]) \subseteq A
        BY <2>1, CollectedApproved DEF Scored, A
    <2>4. FilledBy(policy, NamesOf(collected[s]))
        BY <2>1, <2>2, <2>3, Filling
    <2>5. FilledBy(policy, A)
        BY <2>3, <2>4, FilledMore
    <2>6. Backed(policy, B)
        BY <1>1, <2>5 DEF Backed
    <2> QED
        BY <1>5, <2>1, <2>6
<1>8. ASSUME NEW s \in Sessions, Flip(s) PROVE Goal
    BY <1>1, <1>2, <1>8 DEF Flip, Return, KindInv
<1>9. CASE SweepFinds \/ SweepFlips \/ RemovePolicy \/ ChangePlan \/ \E p \in Policies : UpdatePolicy(p)
    BY <1>1, <1>2, <1>9 DEF SweepFinds, SweepFlips, RemovePolicy, ChangePlan, UpdatePolicy, callVars
<1>10. CASE UNCHANGED vars
    BY <1>1, <1>2, <1>10 DEF vars
<1> QED
    BY <1>3, <1>4, <1>6, <1>7, <1>8, <1>9, <1>10 DEF Next

-----------------------------------------------------------------------------
(* Type correctness and the quorum.                                        *)

QInv == KindInv /\ (\E c \in Carried : SnapInv(c)) /\ FilledInv

LEMMA QInit == Init => QInv
<1> SUFFICES ASSUME Init PROVE QInv
    OBVIOUS
<1>1. FilledInv
    BY DEF Init, FilledInv, QuorumOfPeople
<1> QED
    BY <1>1, KindInit, SnapInit DEF QInv

LEMMA QStep == QInv /\ [Next]_vars => QInv'
<1> SUFFICES ASSUME QInv, [Next]_vars PROVE QInv'
    OBVIOUS
<1>1. PICK c \in Carried : SnapInv(c)
    BY DEF QInv
<1>2. c \in OneEach
    BY CarriedOneEach
<1>3. KindInv' /\ SnapInv(c)' /\ FilledInv'
    BY <1>1, <1>2, KindStep, SnapStep, FilledStep DEF QInv
<1> QED
    BY <1>3 DEF QInv

LEMMA QAlways == Spec => []QInv
BY QInit, QStep, PTL DEF Spec

\* Every list of approvals there ever is, the payload, what a call read and
\* what it collected, is of approvals with roles their approver holds, and of
\* no more than the people.
THEOREM TypeCorrect == Spec => []TypeOK
<1>1. ASSUME QInv PROVE TypeOK
    <2>1. PICK c \in Carried : SnapInv(c)
        BY <1>1 DEF QInv
    <2>2. \A q \in OneEach : q \in Seq(Approval) /\ Len(q) <= Cardinality(People)
        BY OneEachBounded DEF OneEach
    <2>3. \A q \in SnapsOf(c, rows) \cup {<<>>} : q \in OneEach
        BY <2>1, CarriedOneEach, SnapsKeep, EmptyOneEach DEF SnapInv
    <2>4. rows \in OneEach /\ payload \in OneEach /\ \A s \in Sessions : loaded[s] \in OneEach /\ collected[s] \in OneEach
        BY <2>1, <2>3 DEF SnapInv
    <2>5. \A q \in {rows, payload} \cup {f[s] : f \in {loaded, collected}, s \in Sessions} : q \in OneEach
        BY <2>4
    <2>6. DOMAIN loaded = Sessions /\ DOMAIN collected = Sessions
        BY <2>1 DEF SnapInv
    <2> QED
        BY <1>1, <2>2, <2>5, <2>6 DEF QInv, KindInv, TypeOK
<1> QED
    BY <1>1, QAlways, PTL

\* However many people decide at once, repeat themselves or are named by the
\* payload as well as by a row, and whatever fails: a request approved on its
\* policy was approved by a different person, who holds the step's role, for
\* every approval each of the steps asks for.
THEOREM ApprovedByQuorum == Spec => []QuorumOfPeople
<1>1. QInv => QuorumOfPeople
    BY DEF QInv, FilledInv
<1> QED
    BY <1>1, QAlways, PTL

-----------------------------------------------------------------------------
(* The last approval takes effect.                                         *)

LEMMA EffectInit ==
    ASSUME Init, NEW c
    PROVE  EffectInv(c)
BY DEF Init, EffectInv

LEMMA EffectStep ==
    ASSUME Faults \cap {"crash", "throw", "edit"} = {}, KindInv, NEW c \in OneEach, SnapInv(c),
           EffectInv(c), [Next]_vars
    PROVE  EffectInv(c)'
<1>1. policy' = policy /\ policy \in Policies
    <2>1. ~RemovePolicy /\ ~ChangePlan /\ \A p \in Policies : ~UpdatePolicy(p)
        BY DEF RemovePolicy, ChangePlan, UpdatePolicy
    <2>2. ASSUME NEW s \in Sessions, Approve(s) \/ Reject(s) \/ Insert(s) \/ InsertRefused(s) \/ Collect(s)
                 \/ ScoreNull(s) \/ LicenseUnreadable(s) \/ ScoreSatisfied(s) \/ ScoreShort(s)
                 \/ ScoreThrows(s) \/ Snapshot(s) \/ Flip(s) \/ Crash(s)
          PROVE  policy' = policy
        BY <2>2 DEF Approve, Reject, Insert, InsertRefused, Collect, ScoreNull, LicenseUnreadable,
                    ScoreSatisfied, ScoreShort, ScoreThrows, Snapshot, Flip, Crash, ApproveOn
    <2>3. SweepFinds \/ SweepFlips \/ UNCHANGED vars => policy' = policy
        BY DEF SweepFinds, SweepFlips, vars
    <2> QED
        BY <2>1, <2>2, <2>3 DEF Next, EffectInv
\* A step that leaves the rows alone and takes no call from its count.
<1>2. ASSUME rows' = rows, status' = "pending" => status = "pending",
             \A t \in Sessions : Counts(t, c) => Counts(t, c)'
      PROVE  EffectInv(c)'
    BY <1>1, <1>2 DEF EffectInv
\* A step that leaves some call at its count, or the request decided.
<1>3. ASSUME NEW s \in Sessions, Counts(s, c)' PROVE EffectInv(c)'
    BY <1>1, <1>3 DEF EffectInv
<1>4. ASSUME status' # "pending" PROVE EffectInv(c)'
    BY <1>1, <1>4 DEF EffectInv
<1>5. ASSUME NEW s \in Sessions, Approve(s) \/ Reject(s) PROVE EffectInv(c)'
    <2>1. rows' = rows /\ collected' = collected /\ status' = status /\ pc[s] = "idle"
          /\ \A t \in Sessions : t # s => pc'[t] = pc[t]
        BY <1>5 DEF Approve, Reject, Goto, KindInv
    <2> QED
        BY <1>2, <2>1 DEF Counts
<1>6. ASSUME NEW s \in Sessions, Insert(s) PROVE EffectInv(c)'
    <2>1. pc'[s] = "collect"
        BY <1>6 DEF Insert, Goto, KindInv
    <2> QED
        BY <1>3, <2>1 DEF Counts
<1>7. ASSUME NEW s \in Sessions, InsertRefused(s) \/ Snapshot(s) PROVE EffectInv(c)'
    <2>1. rows' = rows /\ status' = status /\ pc[s] \in {"insert", "snapshot"}
          /\ \A t \in Sessions : t # s => pc'[t] = pc[t] /\ collected'[t] = collected[t]
        BY <1>7 DEF InsertRefused, Snapshot, Return, KindInv, SnapInv
    <2> QED
        BY <1>2, <2>1 DEF Counts
<1>8. ASSUME NEW s \in Sessions, Collect(s) PROVE EffectInv(c)'
    <2>1. loaded[s] \in SnapsOf(c, rows)
        BY <1>8 DEF Collect, SnapInv, Deciding
    <2>2. Collected(loaded[s]) = Entered(c, rows)
        BY <2>1, CollectsAll DEF SnapInv
    <2>3. pc'[s] = "score" /\ collected'[s] = Collected(loaded[s]) /\ rows' = rows
        BY <1>8 DEF Collect, Goto, KindInv, SnapInv
    <2>4. Counts(s, c)'
        BY <2>2, <2>3 DEF Counts
    <2> QED
        BY <1>3, <2>4
<1>9. ASSUME NEW s \in Sessions, ScoreNull(s) \/ LicenseUnreadable(s) \/ ScoreSatisfied(s) PROVE EffectInv(c)'
    <2>1. pc'[s] = "approved"
        BY <1>9 DEF ScoreNull, LicenseUnreadable, ScoreSatisfied, ApproveOn, Goto, KindInv
    <2> QED
        BY <1>3, <2>1 DEF Counts
<1>10. ASSUME NEW s \in Sessions, ScoreShort(s) PROVE EffectInv(c)'
    <2>1. rows' = rows /\ collected' = collected /\ status' = status /\ pc[s] = "score"
          /\ (\A t \in Sessions : t # s => pc'[t] = pc[t]) /\ ~Satisfied(policy, collected[s])
        BY <1>10 DEF ScoreShort, Goto, KindInv
    <2>2. CASE collected[s] = Entered(c, rows)
        BY <1>1, <2>1, <2>2 DEF EffectInv
    <2>3. CASE collected[s] # Entered(c, rows)
        BY <1>2, <2>1, <2>3 DEF Counts
    <2> QED
        BY <2>2, <2>3
<1>11. ASSUME NEW s \in Sessions, Flip(s) PROVE EffectInv(c)'
    <2>1. status' # "pending"
        BY <1>11 DEF Flip, Flippable, Decided, KindInv
    <2> QED
        BY <1>4, <2>1
<1>12. CASE SweepFinds \/ SweepFlips
    <2>1. rows' = rows /\ collected' = collected /\ pc' = pc /\ (status' = status \/ status' = "expired")
        BY <1>12 DEF SweepFinds, SweepFlips, callVars
    <2> QED
        BY <1>2, <2>1 DEF Counts
<1>13. CASE UNCHANGED vars
    BY <1>2, <1>13 DEF vars, Counts
<1>14. /\ ~RemovePolicy /\ ~ChangePlan /\ \A p \in Policies : ~UpdatePolicy(p)
       /\ \A s \in Sessions : ~ScoreThrows(s) /\ ~Crash(s)
    BY DEF RemovePolicy, ChangePlan, UpdatePolicy, ScoreThrows, Crash
<1> QED
    BY <1>5, <1>6, <1>7, <1>8, <1>9, <1>10, <1>11, <1>12, <1>13, <1>14 DEF Next

\* Where calls come to their end, scoring does not fail and nobody edits the
\* policy: reviewers who act at once, each with a payload from another time,
\* never lose the approval that completes the quorum between them.
THEOREM LastApprovalTakesEffect ==
    ASSUME Faults \cap {"crash", "throw", "edit"} = {}
    PROVE  Spec => []QuorumTakesEffect
<1> DEFINE EInv == KindInv /\ \E c \in Carried : SnapInv(c) /\ EffectInv(c)
<1>1. Init => EInv
    BY KindInit, SnapInit, EffectInit
<1>2. EInv /\ [Next]_vars => EInv'
    <2> SUFFICES ASSUME EInv, [Next]_vars PROVE EInv'
        OBVIOUS
    <2>1. PICK c \in Carried : SnapInv(c) /\ EffectInv(c)
        OBVIOUS
    <2>2. c \in OneEach
        BY CarriedOneEach
    <2>3. KindInv' /\ SnapInv(c)' /\ EffectInv(c)'
        BY <2>1, <2>2, KindStep, SnapStep, EffectStep
    <2> QED
        BY <2>3
<1>3. ASSUME EInv PROVE QuorumTakesEffect
    <2>1. PICK c \in Carried : SnapInv(c) /\ EffectInv(c)
        BY <1>3
    <2>2. Collected(payload) = Entered(c, rows)
        BY <2>1, CarriedOneEach, CollectsAll DEF SnapInv
    <2>3. ASSUME \A s \in Sessions : pc[s] = "idle" PROVE \A s \in Sessions : ~Counts(s, c)
        BY <2>3 DEF Counts
    <2> QED
        BY <2>1, <2>2, <2>3 DEF EffectInv, QuorumTakesEffect
<1> HIDE DEF EInv
<1> QED
    BY <1>1, <1>2, <1>3, PTL DEF Spec
=============================================================================
