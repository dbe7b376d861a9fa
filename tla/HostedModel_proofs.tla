------------------------ MODULE HostedModel_proofs ------------------------
(***************************************************************************)
(* Theorems about HostedModel.                                             *)
(***************************************************************************)
EXTENDS HostedModel, TLAPS

-----------------------------------------------------------------------------
(* The inductive invariant                                                 *)

\* Where a tick is, by what it may still do to the row.  One that is Fresh has
\* read the row and claimed nothing; a Holder claimed the deploy; one that is
\* Spent failed with no endpoint and only clears the card; any other has its
\* endpoint, or tears the row down.
Still(x)  == x.pc \in {"idle", "listed"}
Fresh(x)  == x.pc \in {"creds", "claim"}
Holder(x) == x.pc \in {"deploy", "keep"} \/ (x.pc \in {"error", "fail"} /\ x.d.ref = NoRef)
Spent(x)  == x.pc = "clear" /\ x.d.ref = NoRef
Late(x)   == ~Still(x) /\ ~Fresh(x) /\ ~Holder(x) /\ ~Spent(x)

\* The steps that need an endpoint.
WithRef == {"keep", "delete", "observe", "orphan", "scale", "keep_scaled", "ready", "move", "card",
            "cost", "stop", "cap_merge", "cap", "clear_forget"}
Tearing == {"forget", "merge", "torn"}

\* One that is late is alone but for spent ones, and its endpoint is the row's.
LateInv ==
    \A t \in Ticks : Late(tick[t]) =>
        /\ \A s \in Ticks \ {t} : Still(tick[s]) \/ Spent(tick[s])
        /\ tick[t].d.ref = row.ref

\* Ticks that have read the row know its endpoint; several of them have seen
\* none, and no teardown.
FreshInv ==
    \A t \in Ticks : Fresh(tick[t]) =>
        /\ tick[t].d.ref = row.ref
        /\ tick[t].d.going => row.going
        /\ tick[t].d.state = "tearing_down" => tick[t].d.going \/ tick[t].d.ref # NoRef
        /\ tick[t].pc = "claim" => tick[t].d.ref = NoRef
        /\ \A s \in Ticks \ {t} : Still(tick[s]) \/ (tick[t].d.ref = NoRef /\ ~tick[t].d.going)

\* One tick holds the deploy, and while others claim it or may come to, the
\* row says so.
Watched(t) == (\E s \in Ticks : Fresh(tick[s])) \/ (tick[t].pc \in {"deploy", "keep"} /\ ~row.going)

HolderInv ==
    \A t \in Ticks : Holder(tick[t]) =>
        /\ row.ref = NoRef
        /\ \A s \in Ticks \ {t} : ~Holder(tick[s])
        /\ Watched(t) => row.state = "deploying" /\ ~row.lapsed /\ tick[t].d.state = "deploying"

RefInv ==
    /\ \A t \in Ticks : tick[t].pc \in WithRef => tick[t].d.ref # NoRef
    /\ \A t \in Ticks : tick[t].pc = "deploy" => tick[t].d.ref = NoRef
    /\ row.state = "tearing_down" /\ ~row.going => row.ref # NoRef

StepsInv == LateInv /\ FreshInv /\ HolderInv /\ RefInv

\* What a teardown is about to forget is gone.
GoneInv == \A t \in Ticks : tick[t].pc \in Tearing /\ tick[t].d.ref # NoRef => cloud[tick[t].d.ref].st = "gone"

\* The ticks that leave a teardown alone: those that tear down, and those that
\* only clear the card.
Leaves(x) ==
    \/ Spent(x) \/ x.pc \in {"clear_forget", "unroute", "delete"} \cup Tearing
    \/ x.pc \in {"creds", "error"} /\ (x.d.state = "tearing_down" \/ x.d.going)

Leaving == {"tearing_down"} \cup Terminal

\* A row asked to go whose desired no longer says so is going all the same.
KeptInv ==
    /\ asked /\ ~row.going =>
         row.state \in Leaving /\ \A t \in Ticks : Still(tick[t]) \/ Leaves(tick[t])
    /\ \A t \in Ticks : tick[t].pc = "cap" /\ row.going /\ ~tick[t].d.going => row.state = "tearing_down"
    /\ \A t \in Ticks : tick[t].pc \in {"unroute", "delete"} => tick[t].d.state = "tearing_down" \/ tick[t].d.going

\* The card is lit for a row that serves, and dark before an endpoint goes.
CardInv ==
    /\ \A t \in Ticks : tick[t].pc = "card" => row.state \notin {"torn_down", "failed", "orphaned"}
    /\ \A t \in Ticks : tick[t].pc \in {"delete"} \cup Tearing => ~card.active
    /\ RoutedOnlyWhileServed

HInv == TypeOK /\ StepsInv /\ GoneInv /\ EndpointAccounted /\ KeptInv /\ CardInv

-----------------------------------------------------------------------------
(* Types                                                                   *)

Pc == {"idle", "listed", "creds", "unroute", "delete", "forget", "merge", "torn",
       "claim", "deploy", "keep", "observe", "orphan", "fail", "scale", "keep_scaled",
       "ready", "move", "card", "cost", "stop", "cap_merge", "cap", "error",
       "clear", "clear_forget"}

Reading == {"ready", "degraded", "deploying", "scaling"}

LEMMA TickFields ==
    ASSUME NEW x \in Tick
    PROVE  x.pc \in Pc /\ x.d \in Row /\ x.next \in Reading /\ x.serves \in BOOLEAN
BY DEF Tick, Pc, Reading

LEMMA RowFields ==
    ASSUME NEW r \in Row
    PROVE  /\ r.state \in Terminal \cup Swept \cup {"failed"} /\ r.ref \in Endpoints \cup {NoRef} /\ r.want \in 0..1
           /\ r.going \in BOOLEAN /\ r.errors \in 0..MaxErrors /\ r.missing \in {"no", "young", "old"}
           /\ r.lapsed \in BOOLEAN
BY DEF Row

LEMMA Constants ==
    MaxErrors \in Nat /\ NoRef \notin Endpoints /\ MaxEndpoints \in Nat /\ MaxFaults \in Nat
BY HostedAssumption DEF NoRef, Endpoints

LEMMA IdleTick ==
    NewRow \in Row /\ Idle \in Tick /\ Idle.pc = "idle" /\ Still(Idle) /\ Idle.d = NewRow
<1>1. 0 \in 0..MaxErrors
    BY Constants
<1>2. NewRow \in Row
    BY <1>1 DEF NewRow, Row, Swept
<1> QED
    BY <1>2 DEF Idle, Tick, Still

\* One tick moves.
Turns(t, x) == x \in Tick /\ tick' = [tick EXCEPT ![t] = x]

LEMMA Turned ==
    ASSUME TypeOK, NEW t \in Ticks, NEW x, Turns(t, x)
    PROVE  tick'[t] = x /\ (\A s \in Ticks \ {t} : tick'[s] = tick[s]) /\ tick' \in [Ticks -> Tick]
BY DEF Turns, TypeOK

LEMMA GoTurns ==
    ASSUME TypeOK, NEW t \in Ticks, NEW p \in Pc, Go(t, p)
    PROVE  \E x : Turns(t, x) /\ x.pc = p /\ x.d = tick[t].d /\ x.next = tick[t].next /\ x.serves = tick[t].serves
<1> DEFINE x == [tick[t] EXCEPT !.pc = p]
<1>0. tick[t] \in Tick
    BY DEF TypeOK
<1>1. x \in Tick /\ x.pc = p /\ x.d = tick[t].d /\ x.next = tick[t].next /\ x.serves = tick[t].serves
    BY <1>0 DEF Tick, Pc
<1>2. tick' = [tick EXCEPT ![t] = x]
    BY DEF Go
<1> QED
    BY <1>1, <1>2 DEF Turns

LEMMA ReturnTurns ==
    ASSUME TypeOK, NEW t \in Ticks, Return(t)
    PROVE  Turns(t, Idle) /\ job' \in {"none", "waiting"} \cup Ticks
BY IdleTick DEF Return, Turns, TypeOK

-----------------------------------------------------------------------------
(* The places of the ticks                                                 *)

\* A tick returns, or has read nothing.
LEMMA OutSteps ==
    ASSUME TypeOK, StepsInv, NEW t \in Ticks, NEW x, Turns(t, x), Still(x), row' = row
    PROVE  StepsInv'
<1>1. tick'[t] = x /\ \A s \in Ticks \ {t} : tick'[s] = tick[s]
    BY Turned
<1>2. ~Late(x) /\ ~Fresh(x) /\ ~Holder(x) /\ x.pc \notin WithRef /\ x.pc # "deploy"
    BY DEF Still, Late, Fresh, Holder, WithRef
<1>3. \A s \in Ticks : tick'[s] = tick[s] \/ tick'[s] = x
    BY <1>1
<1>4. LateInv'
    BY <1>1, <1>2, <1>3 DEF StepsInv, LateInv
<1>5. FreshInv'
    BY <1>1, <1>2, <1>3 DEF StepsInv, FreshInv
<1>6. HolderInv'
    <2>1. \A s \in Ticks : Watched(s)' /\ tick'[s] = tick[s] => Watched(s)
        BY <1>2, <1>3 DEF Watched
    <2> QED
        BY <1>1, <1>2, <1>3, <2>1 DEF StepsInv, HolderInv
<1>7. RefInv'
    BY <1>1, <1>2, <1>3 DEF StepsInv, RefInv
<1> QED
    BY <1>4, <1>5, <1>6, <1>7 DEF StepsInv

\* A late tick is alone, so that only its own step counts.
LateStep(t, x) ==
    /\ Turns(t, x) /\ Late(tick[t])
    /\ Still(x) \/ (Late(x) /\ x.d.ref = row'.ref /\ (x.pc \in WithRef => x.d.ref # NoRef))
    /\ row'.state = "tearing_down" /\ ~row'.going => row'.ref # NoRef

LEMMA Alone ==
    ASSUME StepsInv, NEW t \in Ticks, Late(tick[t])
    PROVE  \A s \in Ticks \ {t} : Still(tick[s]) \/ Spent(tick[s])
BY DEF StepsInv, LateInv

LEMMA Kinds ==
    ASSUME NEW x, Still(x) \/ Spent(x)
    PROVE  /\ ~Late(x) /\ ~Fresh(x) /\ ~Holder(x) /\ x.pc \notin WithRef /\ x.pc # "deploy" /\ x.pc # "keep"
           /\ x.pc \notin Tearing /\ x.pc # "cap" /\ x.pc # "card" /\ x.pc # "delete" /\ x.pc # "fail"
           /\ x.pc # "unroute"
BY DEF Still, Spent, Late, Fresh, Holder, WithRef, Tearing

LEMMA LateKinds ==
    ASSUME NEW x, Late(x)
    PROVE  ~Still(x) /\ ~Fresh(x) /\ ~Holder(x) /\ ~Spent(x) /\ x.pc # "deploy" /\ x.pc # "keep"
BY DEF Still, Spent, Late, Fresh, Holder

LEMMA LateSteps ==
    ASSUME TypeOK, StepsInv, NEW t \in Ticks, NEW x, LateStep(t, x)
    PROVE  StepsInv'
<1>1. tick'[t] = x /\ \A s \in Ticks \ {t} : tick'[s] = tick[s]
    BY Turned DEF LateStep
<1>2. \A s \in Ticks \ {t} : Still(tick'[s]) \/ Spent(tick'[s])
    BY <1>1, Alone DEF LateStep
<1>3. \A s \in Ticks \ {t} : /\ ~Late(tick'[s]) /\ ~Fresh(tick'[s]) /\ ~Holder(tick'[s])
                             /\ tick'[s].pc \notin WithRef /\ tick'[s].pc # "deploy"
    BY <1>2, Kinds
<1>4. ~Fresh(x) /\ ~Holder(x) /\ x.pc # "deploy"
    BY Kinds, LateKinds DEF LateStep
<1>5. LateInv'
    BY <1>1, <1>2, <1>3, Kinds DEF LateStep, LateInv
<1>6. FreshInv' /\ HolderInv'
    BY <1>1, <1>3, <1>4 DEF FreshInv, HolderInv
<1>7. RefInv'
    BY <1>1, <1>3, <1>4, Kinds DEF LateStep, RefInv
<1> QED
    BY <1>5, <1>6, <1>7 DEF StepsInv

\* The row is written by no tick.
LEMMA RowSteps ==
    ASSUME StepsInv, tick' = tick, row'.ref = row.ref, row.going => row'.going,
           row'.state = "tearing_down" /\ ~row'.going => row'.ref # NoRef,
           \A t \in Ticks : Holder(tick[t]) /\ Watched(t) /\ Watched(t)' => row'.state = row.state /\ row'.lapsed = row.lapsed
    PROVE  StepsInv'
<1>1. LateInv' /\ FreshInv' /\ RefInv'
    BY DEF StepsInv, LateInv, FreshInv, RefInv
<1>2. \A t \in Ticks : Watched(t)' => Watched(t)
    BY DEF Watched
<1>3. HolderInv'
    BY <1>2 DEF StepsInv, HolderInv
<1> QED
    BY <1>1, <1>3 DEF StepsInv

-----------------------------------------------------------------------------
(* What a step must see to                                                 *)

\* A late step: nothing new is billed, the row's endpoint is let go of only when
\* it is not, the teardown stays asked for, and the card is lit for a row that
\* serves.
LateCare(t, x) ==
    /\ x.pc \in Tearing /\ x.d.ref # NoRef => cloud'[x.d.ref].st = "gone"
    /\ \A e \in Endpoints : cloud'[e].st \in {"starting", "up"} =>
          cloud[e].st \in {"starting", "up"} /\ (row.ref = e => row'.ref = e)
    /\ died' = died /\ asked' = asked
    /\ asked /\ ~row'.going => row'.state \in Leaving /\ (Still(x) \/ Leaves(x))
    /\ x.pc = "cap" /\ row'.going /\ ~x.d.going => row'.state = "tearing_down"
    /\ x.pc \in {"unroute", "delete"} => x.d.state = "tearing_down" \/ x.d.going
    /\ x.pc = "card" => row'.state \notin {"torn_down", "failed", "orphaned"}
    /\ x.pc \in {"delete"} \cup Tearing => ~card'.active
    /\ card'.active => /\ row'.state # "torn_down"
                       /\ row'.state \in {"failed", "orphaned"} =>
                            \/ x.pc \in {"clear", "clear_forget"}
                            \/ tick[t].pc \notin {"clear", "clear_forget"} /\ card.active
                               /\ row.state \in {"failed", "orphaned"}

LEMMA LateKeeps ==
    ASSUME HInv, TypeOK', NEW t \in Ticks, NEW x, LateStep(t, x), LateCare(t, x)
    PROVE  HInv'
<1>0. TypeOK /\ StepsInv /\ Turns(t, x) /\ Late(tick[t])
    BY DEF HInv, LateStep
<1>1. tick'[t] = x /\ \A s \in Ticks \ {t} : tick'[s] = tick[s]
    BY <1>0, Turned
<1>2. StepsInv'
    BY <1>0, LateSteps
<1>3. \A s \in Ticks \ {t} : Still(tick[s]) \/ Spent(tick[s])
    BY <1>0, Alone
<1>4. \A s \in Ticks \ {t} : /\ tick[s].pc \notin Tearing /\ tick[s].pc # "cap" /\ tick[s].pc # "card"
                             /\ tick[s].pc # "delete" /\ tick[s].pc # "keep" /\ tick[s].pc # "unroute"
    BY <1>3, Kinds
<1>5. GoneInv'
    BY <1>1, <1>4 DEF LateCare, GoneInv
<1>6. EndpointAccounted'
    <2> SUFFICES ASSUME NEW e \in Endpoints, Billed(e)'
                 PROVE  row'.ref = e \/ e \in died'.lost \/ \E s \in Ticks : e \in Creating(s)'
        BY DEF EndpointAccounted
    <2>1. Billed(e) /\ (row.ref = e => row'.ref = e) /\ died' = died
        BY DEF LateCare, Billed
    <2>2. \A s \in Ticks : Creating(s) = {}
        BY <1>0, <1>4, LateKinds DEF Creating, At
    <2> QED
        BY <2>1, <2>2 DEF HInv, EndpointAccounted
<1>7. KeptInv'
    <2>1. asked' /\ ~row'.going =>
             row'.state \in Leaving /\ \A s \in Ticks : Still(tick'[s]) \/ Leaves(tick'[s])
        BY <1>1, <1>3 DEF LateCare, Leaves
    <2>2. \A s \in Ticks : tick'[s].pc = "cap" /\ row'.going /\ ~tick'[s].d.going => row'.state = "tearing_down"
        BY <1>1, <1>4 DEF LateCare
    <2>3. \A s \in Ticks : tick'[s].pc \in {"unroute", "delete"} => tick'[s].d.state = "tearing_down" \/ tick'[s].d.going
        BY <1>1, <1>4 DEF LateCare
    <2> QED
        BY <2>1, <2>2, <2>3 DEF KeptInv
<1>8. CardInv'
    <2>1. \A s \in Ticks : tick'[s].pc = "card" => row'.state \notin {"torn_down", "failed", "orphaned"}
        BY <1>1, <1>4 DEF LateCare
    <2>2. \A s \in Ticks : tick'[s].pc \in {"delete"} \cup Tearing => ~card'.active
        BY <1>1, <1>4 DEF LateCare
    <2>3. RoutedOnlyWhileServed'
        <3> SUFFICES ASSUME card'.active
                     PROVE  /\ row'.state # "torn_down"
                            /\ row'.state \in {"failed", "orphaned"} =>
                                 died'.lit \/ \E s \in Ticks : tick'[s].pc \in {"clear", "clear_forget"}
            BY DEF RoutedOnlyWhileServed, Clearing
        <3>1. row'.state # "torn_down"
            BY DEF LateCare
        <3>2. ASSUME row'.state \in {"failed", "orphaned"}
              PROVE  died'.lit \/ \E s \in Ticks : tick'[s].pc \in {"clear", "clear_forget"}
            <4>1. CASE x.pc \in {"clear", "clear_forget"}
                BY <1>1, <4>1
            <4>2. CASE tick[t].pc \notin {"clear", "clear_forget"} /\ card.active /\ row.state \in {"failed", "orphaned"}
                <5>1. died.lit \/ \E s \in Ticks : tick[s].pc \in {"clear", "clear_forget"}
                    BY <4>2 DEF HInv, CardInv, RoutedOnlyWhileServed, Clearing
                <5>2. died' = died
                    BY DEF LateCare
                <5> QED
                    BY <1>1, <4>2, <5>1, <5>2
            <4> QED
                BY <3>2, <4>1, <4>2 DEF LateCare
        <3> QED
            BY <3>1, <3>2
    <2> QED
        BY <2>1, <2>2, <2>3 DEF CardInv
<1> QED
    BY <1>2, <1>5, <1>6, <1>7, <1>8 DEF HInv

\* A tick that ends: what it was creating is lost, and a card it was to clear is
\* cleared, or its death is known.
LEMMA OutKeeps ==
    ASSUME HInv, TypeOK', NEW t \in Ticks, NEW x, Turns(t, x), Still(x), UNCHANGED <<row, cloud, asked>>,
           died.lost \subseteq died'.lost, Creating(t) \subseteq died'.lost, died.lit => died'.lit,
           card'.active => card.active /\ (Clearing(t) => died'.lit)
    PROVE  HInv'
<1>0. TypeOK /\ StepsInv
    BY DEF HInv
<1>1. tick'[t] = x /\ \A s \in Ticks \ {t} : tick'[s] = tick[s]
    BY <1>0, Turned
<1>2. StepsInv'
    BY <1>0, OutSteps
<1>3. /\ x.pc \notin Tearing /\ x.pc # "cap" /\ x.pc # "card" /\ x.pc # "delete" /\ x.pc # "keep"
      /\ x.pc # "unroute"
    BY Kinds
<1>4. GoneInv'
    BY <1>1, <1>3 DEF HInv, GoneInv
<1>5. EndpointAccounted'
    <2> SUFFICES ASSUME NEW e \in Endpoints, Billed(e)'
                 PROVE  row'.ref = e \/ e \in died'.lost \/ \E s \in Ticks : e \in Creating(s)'
        BY DEF EndpointAccounted
    <2>1. row.ref = e \/ e \in died.lost \/ \E s \in Ticks : e \in Creating(s)
        BY DEF HInv, EndpointAccounted, Billed
    <2>2. \A s \in Ticks \ {t} : Creating(s)' = Creating(s)
        BY <1>1 DEF Creating, At, Mine
    <2> QED
        BY <2>1, <2>2
<1>6. KeptInv'
    BY <1>1, <1>3 DEF HInv, KeptInv
<1>7. CardInv'
    <2>1. /\ \A s \in Ticks : tick'[s].pc = "card" => row'.state \notin {"torn_down", "failed", "orphaned"}
          /\ \A s \in Ticks : tick'[s].pc \in {"delete"} \cup Tearing => ~card'.active
        BY <1>1, <1>3 DEF HInv, CardInv
    <2>2. RoutedOnlyWhileServed'
        <3>1. \A s \in Ticks \ {t} : Clearing(s) => Clearing(s)'
            BY <1>1 DEF Clearing
        <3> QED
            BY <3>1 DEF HInv, CardInv, RoutedOnlyWhileServed
    <2> QED
        BY <2>1, <2>2 DEF CardInv
<1> QED
    BY <1>2, <1>4, <1>5, <1>6, <1>7 DEF HInv

-----------------------------------------------------------------------------
(* Types are kept, step by step                                            *)

LEMMA DarkCard ==
    ASSUME TypeOK, NEW b \in BOOLEAN
    PROVE  Dark(b) \in Card /\ ~Dark(b).active
BY DEF Dark, Card, TypeOK

LEMMA Begins ==
    ASSUME TypeOK, NEW t \in Ticks, Sweep(t) \/ HandleOne(t)
    PROVE  /\ TypeOK' /\ tick[t].pc = "idle" /\ UNCHANGED <<row, card, cloud, over, requests, faults, died, asked>>
           /\ \E x : Turns(t, x) /\ Still(x)
<1>1. At(t, "idle") /\ Go(t, "listed") /\ UNCHANGED <<row, card, cloud, over, requests, faults, died, asked>>
      /\ job' \in {job, t}
    BY DEF Sweep, HandleOne
<1>2. PICK x : Turns(t, x) /\ x.pc = "listed"
    BY <1>1, GoTurns DEF Pc
<1>3. tick' \in [Ticks -> Tick]
    BY <1>2, Turned
<1> QED
    BY <1>1, <1>2, <1>3 DEF TypeOK, At, Still

LEMMA Reads ==
    ASSUME TypeOK, NEW t \in Ticks, Read(t)
    PROVE  /\ TypeOK' /\ tick[t].pc = "listed" /\ MayOverlap /\ UNCHANGED <<row, card, cloud, over, requests, faults, died, asked>>
           /\ \/ Turns(t, Idle)
              \/ /\ row.state \notin Terminal
                 /\ \E x : Turns(t, x) /\ x.pc = "creds" /\ x.d = row
<1>1. At(t, "listed") /\ MayOverlap /\ UNCHANGED <<row, card, cloud, over, requests, faults, died, asked>>
    BY DEF Read
<1>2. CASE Done
    <2>1. Turns(t, Idle) /\ job' \in {"none", "waiting"} \cup Ticks
        BY <1>2, ReturnTurns DEF Read
    <2>2. tick' \in [Ticks -> Tick]
        BY <2>1, Turned
    <2> QED
        BY <1>1, <2>1, <2>2 DEF TypeOK, At
<1>3. CASE ~Done
    <2> DEFINE x == [tick[t] EXCEPT !.pc = "creds", !.d = row]
    <2>0. tick[t] \in Tick /\ row \in Row
        BY DEF TypeOK
    <2>1. tick' = [tick EXCEPT ![t] = x] /\ job' = job
        BY <1>3 DEF Read
    <2>2. x \in Tick /\ x.pc = "creds" /\ x.d = row
        BY <2>0 DEF Tick
    <2>3. Turns(t, x)
        BY <2>1, <2>2 DEF Turns
    <2>4. tick' \in [Ticks -> Tick]
        BY <2>3, Turned
    <2> QED
        BY <1>1, <1>3, <2>1, <2>2, <2>3, <2>4 DEF TypeOK, At, Done
<1> QED
    BY <1>2, <1>3

LEMMA Checks ==
    ASSUME TypeOK, NEW t \in Ticks, Credentials(t)
    PROVE  /\ TypeOK' /\ tick[t].pc = "creds" /\ UNCHANGED <<row, card, cloud, died, asked>>
           /\ \E x : /\ Turns(t, x) /\ x.d = tick[t].d
                     /\ x.pc = IF GoingAway(t) THEN "unroute" ELSE IF tick[t].d.ref = NoRef THEN "claim" ELSE "observe"
<1> DEFINE p == IF GoingAway(t) THEN "unroute" ELSE IF Mine(t).ref = NoRef THEN "claim" ELSE "observe"
<1>1. At(t, "creds") /\ Go(t, p) /\ UNCHANGED <<row, card, cloud, over, job, requests, faults, died, asked>>
    BY DEF Credentials
<1>2. p \in Pc
    BY DEF Pc
<1>3. PICK x : Turns(t, x) /\ x.pc = p /\ x.d = tick[t].d
    BY <1>1, <1>2, GoTurns
<1>4. tick' \in [Ticks -> Tick]
    BY <1>3, Turned
<1> QED
    BY <1>1, <1>3, <1>4 DEF TypeOK, At, Mine

\* The credential is refused, or a call throws.
LEMMA Errs ==
    ASSUME TypeOK, NEW t \in Ticks, Refused(t) \/ Throws(t)
    PROVE  /\ TypeOK' /\ UNCHANGED <<row, card, cloud, died, asked>>
           /\ \/ tick[t].pc = "creds" /\ ("overlap" \in Faults \/ Flying = {t})
              \/ tick[t].pc \in {"delete", "deploy", "observe", "scale", "cost", "stop"}
           /\ \E x : Turns(t, x) /\ x.d = tick[t].d /\ x.pc = "error"
<1>1. /\ Go(t, "error") /\ UNCHANGED <<row, card, cloud, over, job, requests, died, asked>>
      /\ \/ tick[t].pc = "creds" /\ ("overlap" \in Faults \/ Flying = {t})
         \/ tick[t].pc \in {"delete", "deploy", "observe", "scale", "cost", "stop"}
    BY DEF Refused, Throws, At
<1>2. faults' = faults + 1 /\ faults < MaxFaults
    BY DEF Refused, Throws, Fault
<1>3. faults' \in 0..MaxFaults
    BY <1>2, Constants DEF TypeOK
<1>4. PICK x : Turns(t, x) /\ x.pc = "error" /\ x.d = tick[t].d
    BY <1>1, GoTurns DEF Pc
<1>5. tick' \in [Ticks -> Tick]
    BY <1>4, Turned
<1> QED
    BY <1>1, <1>3, <1>4, <1>5 DEF TypeOK

LEMMA TearsDown ==
    ASSUME TypeOK, NEW t \in Ticks, Unroute(t) \/ Delete(t) \/ Forget(t)
    PROVE  /\ TypeOK' /\ UNCHANGED <<row, died, asked>> /\ (card' = card \/ ~card'.active)
           /\ \E x : /\ Turns(t, x) /\ x.d = tick[t].d
                     /\ \/ tick[t].pc = "unroute" /\ ~card'.active /\ cloud' = cloud /\ x.pc = IF x.d.ref = NoRef THEN "forget" ELSE "delete"
                        \/ tick[t].pc = "delete" /\ cloud' = [cloud EXCEPT ![x.d.ref].st = "gone"] /\ card' = card /\ x.pc = "forget"
                        \/ tick[t].pc = "forget" /\ ~card'.active /\ cloud' = cloud /\ x.pc = "merge"
<1>1. UNCHANGED <<row, over, job, requests, faults, died, asked>>
    BY DEF Unroute, Delete, Forget
<1>2. CASE Unroute(t)
    <2> DEFINE p == IF Mine(t).ref = NoRef THEN "forget" ELSE "delete"
    <2>1. tick[t].pc = "unroute" /\ card' = Dark(FALSE) /\ cloud' = cloud /\ Go(t, p)
        BY <1>2 DEF Unroute, At
    <2>2. p \in Pc
        BY DEF Pc
    <2>3. PICK x : Turns(t, x) /\ x.pc = p /\ x.d = tick[t].d
        BY <2>1, <2>2, GoTurns
    <2>4. tick' \in [Ticks -> Tick] /\ card' \in Card /\ ~card'.active
        BY <2>1, <2>3, Turned, DarkCard
    <2>5. TypeOK'
        BY <1>1, <2>1, <2>4 DEF TypeOK
    <2> QED
        BY <1>1, <2>1, <2>3, <2>4, <2>5 DEF Mine
<1>3. CASE Delete(t)
    <2>1. tick[t].pc = "delete" /\ card' = card /\ cloud' = [cloud EXCEPT ![Mine(t).ref].st = "gone"] /\ Go(t, "forget")
        BY <1>3 DEF Delete, At
    <2>2. PICK x : Turns(t, x) /\ x.pc = "forget" /\ x.d = tick[t].d
        BY <2>1, GoTurns DEF Pc
    <2>3. tick' \in [Ticks -> Tick]
        BY <2>2, Turned
    <2>4. cloud' \in [Endpoints -> Endpoint]
        BY <2>1 DEF TypeOK, Endpoint
    <2>5. TypeOK'
        BY <1>1, <2>1, <2>3, <2>4 DEF TypeOK
    <2> QED
        BY <1>1, <2>1, <2>2, <2>5 DEF Mine
<1>4. CASE Forget(t)
    <2>1. tick[t].pc = "forget" /\ card' = Dark(TRUE) /\ cloud' = cloud /\ Go(t, "merge")
        BY <1>4 DEF Forget, At
    <2>3. PICK x : Turns(t, x) /\ x.pc = "merge" /\ x.d = tick[t].d
        BY <2>1, GoTurns DEF Pc
    <2>4. tick' \in [Ticks -> Tick] /\ card' \in Card /\ ~card'.active
        BY <2>1, <2>3, Turned, DarkCard
    <2>5. TypeOK'
        BY <1>1, <2>1, <2>4 DEF TypeOK
    <2> QED
        BY <1>1, <2>1, <2>3, <2>4, <2>5
<1> QED
    BY <1>2, <1>3, <1>4

LEMMA Merges ==
    ASSUME TypeOK, NEW t \in Ticks, MergeTorn(t) \/ MergeCap(t)
    PROVE  /\ TypeOK' /\ UNCHANGED <<row, card, cloud, died, asked>>
           /\ \E x : /\ Turns(t, x) /\ x.d.ref = tick[t].d.ref /\ x.d.going = row.going
                     /\ \/ tick[t].pc = "merge" /\ x.pc = "torn"
                        \/ tick[t].pc = "cap_merge" /\ x.pc = "cap"
<1>0. tick[t] \in Tick /\ row \in Row
    BY DEF TypeOK
<1>1. UNCHANGED <<row, card, cloud, over, job, requests, faults, died, asked>>
    BY DEF MergeTorn, MergeCap
<1>2. PICK p \in {"torn", "cap"} :
        /\ tick' = [tick EXCEPT ![t].pc = p, ![t].d = Desires(t)]
        /\ p = "torn" => tick[t].pc = "merge"
        /\ p = "cap" => tick[t].pc = "cap_merge"
    BY DEF MergeTorn, MergeCap, At
<1> DEFINE x == [tick[t] EXCEPT !.pc = p, !.d = Desires(t)]
<1>3. tick[t].d \in Row
    BY <1>0, TickFields
<1>4. Desires(t) \in Row /\ Desires(t).ref = tick[t].d.ref /\ Desires(t).going = row.going
    BY <1>0, <1>3 DEF Desires, Mine, Row
<1>5. x \in Tick /\ x.pc = p /\ x.d = Desires(t)
    BY <1>0, <1>4 DEF Tick
<1>6. tick' = [tick EXCEPT ![t] = x]
    BY <1>2
<1> HIDE DEF x
<1>7. Turns(t, x)
    BY <1>5, <1>6 DEF Turns
<1>8. tick' \in [Ticks -> Tick]
    BY <1>7, Turned
<1> QED
    BY <1>1, <1>2, <1>4, <1>5, <1>7, <1>8 DEF TypeOK

\* A row torn down, and one capped: the last writes of a tick.
LEMMA TornsAndCaps ==
    ASSUME TypeOK, NEW t \in Ticks, TornDown(t) \/ Cap(t)
    PROVE  /\ TypeOK' /\ UNCHANGED <<card, cloud, died, asked>> /\ Turns(t, Idle)
           /\ \/ tick[t].pc = "torn" /\ row'.state = "torn_down" /\ row'.ref = NoRef /\ row'.going = FALSE
              \/ /\ tick[t].pc = "cap" /\ row'.state = row.state /\ row'.ref = tick[t].d.ref
                 /\ row'.going = tick[t].d.going
<1>0. tick[t] \in Tick /\ row \in Row
    BY DEF TypeOK
<1>1. tick[t].d \in Row
    BY <1>0, TickFields
<1>2. UNCHANGED <<card, cloud, over, requests, faults, died, asked>> /\ Return(t)
    BY DEF TornDown, Cap
<1>3. Turns(t, Idle) /\ job' \in {"none", "waiting"} \cup Ticks
    BY <1>2, ReturnTurns
<1>4. tick' \in [Ticks -> Tick]
    BY <1>3, Turned
<1>5. CASE TornDown(t)
    <2>1. tick[t].pc = "torn" /\ row' = [row EXCEPT !.state = "torn_down", !.ref = NoRef, !.lapsed = FALSE,
                          !.want = tick[t].d.want, !.going = FALSE,
                          !.errors = tick[t].d.errors, !.missing = tick[t].d.missing]
        BY <1>5 DEF TornDown, At, Mine
    <2>2. row' \in Row /\ row'.state = "torn_down" /\ row'.ref = NoRef /\ row'.going = FALSE
        BY <1>0, <1>1, <2>1 DEF Row, Terminal
    <2>3. TypeOK'
        BY <1>2, <1>3, <1>4, <2>2 DEF TypeOK
    <2> QED
        BY <1>2, <1>3, <2>1, <2>2, <2>3
<1>6. CASE Cap(t)
    <2>1. tick[t].pc = "cap" /\ row' = [row EXCEPT !.want = 0, !.going = tick[t].d.going, !.ref = tick[t].d.ref]
        BY <1>6 DEF Cap, At, Mine
    <2> DEFINE g == tick[t].d.going
               r == tick[t].d.ref
    <2>4. g \in BOOLEAN /\ r \in Endpoints \cup {NoRef} /\ row' = [row EXCEPT !.want = 0, !.going = g, !.ref = r]
        BY <1>1, <2>1, RowFields
    <2> HIDE DEF g, r
    <2>6. [row EXCEPT !.want = 0] \in Row /\ [row EXCEPT !.want = 0].state = row.state
        BY <1>0 DEF Row
    <2>7. row' = [[row EXCEPT !.want = 0] EXCEPT !.going = g, !.ref = r]
        BY <1>0, <2>4 DEF Row
    <2>5. row' \in Row /\ row'.state = row.state /\ row'.ref = r /\ row'.going = g
        BY <2>4, <2>6, <2>7 DEF Row
    <2>2. row' \in Row /\ row'.state = row.state /\ row'.ref = tick[t].d.ref /\ row'.going = tick[t].d.going
        BY <2>5 DEF g, r
    <2>3. TypeOK'
        BY <1>2, <1>3, <1>4, <2>2 DEF TypeOK
    <2> QED
        BY <1>2, <1>3, <2>1, <2>2, <2>3
<1> QED
    BY <1>5, <1>6

LEMMA Claims ==
    ASSUME TypeOK, NEW t \in Ticks, Claim(t)
    PROVE  /\ TypeOK' /\ UNCHANGED <<card, cloud, died, asked>> /\ tick[t].pc = "claim"
           /\ \/ Turns(t, Idle) /\ row' = row
              \/ /\ row.state # "deploying" \/ row.lapsed
                 /\ row'.state = "deploying" /\ ~row'.lapsed /\ row'.ref = row.ref /\ row'.going = row.going
                 /\ \E x : /\ Turns(t, x) /\ x.pc = "deploy" /\ x.d.ref = tick[t].d.ref
                           /\ x.d.state = "deploying" /\ x.d.going = tick[t].d.going
<1>0. tick[t] \in Tick /\ row \in Row
    BY DEF TypeOK
<1>1. tick[t].d \in Row
    BY <1>0, TickFields
<1>2. UNCHANGED <<card, cloud, over, requests, faults, died, asked>> /\ tick[t].pc = "claim"
    BY DEF Claim, At
<1>3. CASE ~Claimable
    <2>1. Turns(t, Idle) /\ job' \in {"none", "waiting"} \cup Ticks /\ row' = row
        BY <1>3, ReturnTurns DEF Claim
    <2>2. tick' \in [Ticks -> Tick]
        BY <2>1, Turned
    <2> QED
        BY <1>2, <2>1, <2>2 DEF TypeOK
<1>4. CASE Claimable
    <2> DEFINE x == [tick[t] EXCEPT !.pc = "deploy", !.d.state = "deploying"]
    <2>1. /\ row' = [row EXCEPT !.state = "deploying", !.lapsed = FALSE] /\ job' = job
          /\ tick' = [tick EXCEPT ![t] = x]
        BY <1>4 DEF Claim
    <2>2. row' \in Row /\ row'.state = "deploying" /\ ~row'.lapsed /\ row'.ref = row.ref /\ row'.going = row.going
        BY <1>0, <2>1 DEF Row, Swept
    <2>3. x \in Tick /\ x.pc = "deploy" /\ x.d.ref = tick[t].d.ref
          /\ x.d.state = "deploying" /\ x.d.going = tick[t].d.going
        BY <1>0, <1>1 DEF Tick, Row, Swept
    <2> HIDE DEF x
    <2>4. Turns(t, x)
        BY <2>1, <2>3 DEF Turns
    <2>5. tick' \in [Ticks -> Tick]
        BY <2>4, Turned
    <2>6. TypeOK'
        BY <1>2, <2>1, <2>2, <2>5 DEF TypeOK
    <2> QED
        BY <1>2, <1>4, <2>2, <2>3, <2>4, <2>6 DEF Claimable
<1> QED
    BY <1>3, <1>4

LEMMA Deploys ==
    ASSUME TypeOK, NEW t \in Ticks, Deploy(t)
    PROVE  /\ TypeOK' /\ UNCHANGED <<row, card, died, asked>> /\ tick[t].pc = "deploy"
           /\ \E e \in Endpoints :
                /\ cloud[e].st = "none" /\ \A f \in Endpoints \ {e} : cloud'[f] = cloud[f]
                /\ \E x : /\ Turns(t, x) /\ x.pc = "keep" /\ x.d.ref = e /\ x.d.state = tick[t].d.state
                          /\ x.d.going = tick[t].d.going
<1>0. tick[t] \in Tick
    BY DEF TypeOK
<1>1. tick[t].d \in Row
    BY <1>0, TickFields
<1>2. UNCHANGED <<row, card, over, job, requests, faults, died, asked>> /\ tick[t].pc = "deploy"
    BY DEF Deploy, At
<1>3. PICK e \in Endpoints :
        /\ New(e)
        /\ cloud' = [cloud EXCEPT ![e] = [st |-> "starting", rep |-> tick[t].d.want]]
        /\ tick' = [tick EXCEPT ![t].pc = "keep", ![t].d.ref = e]
    BY DEF Deploy, Mine
<1> DEFINE x == [tick[t] EXCEPT !.pc = "keep", !.d.ref = e]
<1>4. x \in Tick /\ x.pc = "keep" /\ x.d.ref = e /\ x.d.state = tick[t].d.state /\ x.d.going = tick[t].d.going
    BY <1>0, <1>1 DEF Tick, Row
<1>5. tick' = [tick EXCEPT ![t] = x]
    BY <1>3
<1> HIDE DEF x
<1>6. Turns(t, x)
    BY <1>4, <1>5 DEF Turns
<1>7. tick' \in [Ticks -> Tick]
    BY <1>6, Turned
<1>8. cloud' \in [Endpoints -> Endpoint] /\ (\A f \in Endpoints \ {e} : cloud'[f] = cloud[f]) /\ cloud[e].st = "none"
    <2>1. tick[t].d.want \in 0..1
        BY <1>1, RowFields
    <2>2. [st |-> "starting", rep |-> tick[t].d.want] \in Endpoint
        BY <2>1 DEF Endpoint
    <2> QED
        BY <1>3, <2>2 DEF TypeOK, New
<1>9. TypeOK'
    BY <1>2, <1>7, <1>8 DEF TypeOK
<1> QED
    BY <1>2, <1>4, <1>6, <1>8, <1>9

LEMMA KeepsRef ==
    ASSUME TypeOK, NEW t \in Ticks, KeepRef(t)
    PROVE  /\ TypeOK' /\ UNCHANGED <<card, cloud, died, asked>> /\ tick[t].pc = "keep"
           /\ "slow" \in Faults \/ \A s \in Ticks : tick[s].pc \notin {"creds", "claim"}
           /\ row'.ref = tick[t].d.ref /\ row'.state = row.state /\ row'.going = row.going
           /\ \E x : Turns(t, x) /\ x.pc = "observe" /\ x.d = tick[t].d
<1>0. tick[t] \in Tick /\ row \in Row
    BY DEF TypeOK
<1>1. tick[t].d \in Row
    BY <1>0, TickFields
<1>2. /\ UNCHANGED <<card, cloud, over, job, requests, faults, died, asked>> /\ tick[t].pc = "keep" /\ Go(t, "observe")
      /\ row' = [row EXCEPT !.ref = tick[t].d.ref]
      /\ "slow" \in Faults \/ \A s \in Ticks : tick[s].pc \notin {"creds", "claim"}
    BY DEF KeepRef, At, Mine
<1>3. row' \in Row /\ row'.ref = tick[t].d.ref /\ row'.state = row.state /\ row'.going = row.going
    BY <1>0, <1>1, <1>2 DEF Row
<1>4. PICK x : Turns(t, x) /\ x.pc = "observe" /\ x.d = tick[t].d
    BY <1>2, GoTurns DEF Pc
<1>5. tick' \in [Ticks -> Tick]
    BY <1>4, Turned
<1>6. TypeOK'
    BY <1>2, <1>3, <1>5 DEF TypeOK
<1> QED
    BY <1>2, <1>3, <1>4, <1>6

LEMMA Observes ==
    ASSUME TypeOK, NEW t \in Ticks, Observe(t)
    PROVE  /\ TypeOK' /\ UNCHANGED <<row, card, cloud, died, asked>> /\ tick[t].pc = "observe"
           /\ \E x : /\ Turns(t, x) /\ x.pc \in {"orphan", "fail", "scale", "ready", "move"}
                     /\ x.d.ref = tick[t].d.ref
<1>0. tick[t] \in Tick
    BY DEF TypeOK
<1>1. tick[t].d \in Row /\ 0 \in 0..MaxErrors
    BY <1>0, TickFields, Constants
<1>2. UNCHANGED <<row, card, cloud, over, job, requests, faults, died, asked>> /\ tick[t].pc = "observe"
    BY DEF Observe, At
<1>3. PICK p \in {"orphan", "fail", "scale", "ready", "move"}, n \in Reading, b \in BOOLEAN :
        tick' = [tick EXCEPT ![t] = [pc |-> p, d |-> [tick[t].d EXCEPT !.errors = 0], next |-> n, serves |-> b]]
    <2>1. \A shown : Moved(t, shown) \in Reading
        BY DEF Moved, Reading
    <2>2. PICK shown :
            LET e == Mine(t).ref
                next == Moved(t, shown)
                serves == next = "ready" /\ shown = "ready"
            IN tick' = [tick EXCEPT ![t] =
                 [pc |-> IF shown = "missing" THEN "orphan"
                         ELSE IF shown = "failed" THEN "fail"
                         ELSE IF cloud[e].st = "up" /\ cloud[e].rep # Mine(t).want THEN "scale"
                         ELSE IF serves /\ Mine(t).state # "ready" THEN "ready" ELSE "move",
                  d |-> [tick[t].d EXCEPT !.errors = 0], next |-> next, serves |-> serves]]
        BY DEF Observe
    <2> DEFINE b == Moved(t, shown) = "ready" /\ shown = "ready"
               p == IF shown = "missing" THEN "orphan"
                         ELSE IF shown = "failed" THEN "fail"
                         ELSE IF cloud[Mine(t).ref].st = "up" /\ cloud[Mine(t).ref].rep # Mine(t).want THEN "scale"
                         ELSE IF b /\ Mine(t).state # "ready" THEN "ready" ELSE "move"
    <2>3. b \in BOOLEAN /\ p \in {"orphan", "fail", "scale", "ready", "move"}
        OBVIOUS
    <2>4. tick' = [tick EXCEPT ![t] = [pc |-> p, d |-> [tick[t].d EXCEPT !.errors = 0], next |-> Moved(t, shown), serves |-> b]]
        BY <2>2
    <2> HIDE DEF b, p
    <2> QED
        BY <2>1, <2>3, <2>4
<1> DEFINE x == [pc |-> p, d |-> [tick[t].d EXCEPT !.errors = 0], next |-> n, serves |-> b]
<1>4. x \in Tick /\ x.pc = p /\ x.d.ref = tick[t].d.ref
    <2>1. [tick[t].d EXCEPT !.errors = 0] \in Row /\ [tick[t].d EXCEPT !.errors = 0].ref = tick[t].d.ref
        BY <1>1 DEF Row
    <2> QED
        BY <2>1 DEF Tick, Reading
<1> HIDE DEF x
<1>5. Turns(t, x)
    BY <1>3, <1>4 DEF Turns, x
<1>6. tick' \in [Ticks -> Tick]
    BY <1>5, Turned
<1>7. TypeOK'
    BY <1>2, <1>6 DEF TypeOK
<1> QED
    BY <1>2, <1>4, <1>5, <1>7

LEMMA Orphans ==
    ASSUME TypeOK, NEW t \in Ticks, Orphan(t)
    PROVE  /\ TypeOK' /\ UNCHANGED <<card, cloud, died, asked>> /\ tick[t].pc = "orphan"
           /\ row'.ref = row.ref /\ row'.going = row.going
           /\ \/ Turns(t, Idle) /\ row'.state = row.state
              \/ row'.state = "orphaned" /\ \E x : Turns(t, x) /\ x.pc = "clear_forget" /\ x.d = tick[t].d
<1> DEFINE since == IF tick[t].d.missing = "no" THEN "young" ELSE tick[t].d.missing
<1>0. tick[t] \in Tick /\ row \in Row /\ 0 \in 0..MaxErrors
    BY Constants DEF TypeOK
<1>1. since \in {"no", "young", "old"}
    BY <1>0, TickFields, RowFields
<1>2. UNCHANGED <<card, cloud, over, requests, faults, died, asked>> /\ tick[t].pc = "orphan"
    BY DEF Orphan, At
<1>3. \/ row' = [row EXCEPT !.missing = since, !.errors = 0, !.lapsed = FALSE] /\ Return(t)
      \/ /\ row' = [row EXCEPT !.state = "orphaned", !.missing = since, !.errors = 0, !.lapsed = FALSE]
         /\ Go(t, "clear_forget") /\ job' = job
    BY DEF Orphan, Mine
<1> HIDE DEF since
<1>4. CASE row' = [row EXCEPT !.missing = since, !.errors = 0, !.lapsed = FALSE] /\ Return(t)
    <2>1. row' \in Row /\ row'.ref = row.ref /\ row'.going = row.going /\ row'.state = row.state
        BY <1>0, <1>1, <1>4 DEF Row
    <2>2. Turns(t, Idle) /\ job' \in {"none", "waiting"} \cup Ticks
        BY <1>4, ReturnTurns
    <2>3. tick' \in [Ticks -> Tick]
        BY <2>2, Turned
    <2>4. TypeOK'
        BY <1>2, <2>1, <2>2, <2>3 DEF TypeOK
    <2> QED
        BY <1>2, <2>1, <2>2, <2>4
<1>5. CASE /\ row' = [row EXCEPT !.state = "orphaned", !.missing = since, !.errors = 0, !.lapsed = FALSE]
           /\ Go(t, "clear_forget") /\ job' = job
    <2>1. row' \in Row /\ row'.ref = row.ref /\ row'.going = row.going /\ row'.state = "orphaned"
        BY <1>0, <1>1, <1>5 DEF Row, Terminal
    <2>2. PICK x : Turns(t, x) /\ x.pc = "clear_forget" /\ x.d = tick[t].d
        BY <1>5, GoTurns DEF Pc
    <2>3. tick' \in [Ticks -> Tick]
        BY <2>2, Turned
    <2>4. TypeOK'
        BY <1>2, <1>5, <2>1, <2>3 DEF TypeOK
    <2> QED
        BY <1>2, <2>1, <2>2, <2>4
<1> QED
    BY <1>3, <1>4, <1>5

\* The provider is told how many replicas there are to be.
LEMMA Scales ==
    ASSUME TypeOK, NEW t \in Ticks, ScaleTo(t) \/ StopSpending(t)
    PROVE  /\ TypeOK' /\ UNCHANGED <<row, card, died, asked>>
           /\ \A e \in Endpoints : cloud'[e].st = cloud[e].st
           /\ \E x : /\ Turns(t, x) /\ x.d = tick[t].d
                     /\ \/ tick[t].pc = "scale" /\ x.pc = "keep_scaled"
                        \/ tick[t].pc = "stop" /\ x.pc = "cap_merge"
<1>0. tick[t] \in Tick /\ row \in Row
    BY DEF TypeOK
<1>1. tick[t].d.want \in 0..1
    BY <1>0, TickFields, RowFields
<1>2. UNCHANGED <<row, card, over, job, requests, faults, died, asked>>
    BY DEF ScaleTo, StopSpending
<1>3. PICK p \in {"keep_scaled", "cap_merge"}, n \in 0..1 :
        /\ cloud' = [cloud EXCEPT ![Mine(t).ref].rep = n] /\ Go(t, p)
        /\ p = "keep_scaled" => tick[t].pc = "scale"
        /\ p = "cap_merge" => tick[t].pc = "stop"
    <2>1. CASE ScaleTo(t)
        BY <1>1, <2>1 DEF ScaleTo, At, Mine
    <2>2. CASE StopSpending(t)
        BY <2>2 DEF StopSpending, At, Mine
    <2> QED
        BY <2>1, <2>2
<1>4. cloud' \in [Endpoints -> Endpoint] /\ \A e \in Endpoints : cloud'[e].st = cloud[e].st
    <2>1. cloud \in [Endpoints -> Endpoint]
        BY DEF TypeOK
    <2>2. \A e \in Endpoints : [cloud[e] EXCEPT !.rep = n] \in Endpoint /\ [cloud[e] EXCEPT !.rep = n].st = cloud[e].st
        BY <2>1 DEF Endpoint
    <2> QED
        BY <1>3, <2>1, <2>2
<1>5. PICK x : Turns(t, x) /\ x.pc = p /\ x.d = tick[t].d
    BY <1>3, GoTurns DEF Pc
<1>6. tick' \in [Ticks -> Tick]
    BY <1>5, Turned
<1>7. TypeOK'
    BY <1>2, <1>4, <1>6 DEF TypeOK
<1> QED
    BY <1>2, <1>3, <1>4, <1>5, <1>7

LEMMA KeepsScaled ==
    ASSUME TypeOK, NEW t \in Ticks, KeepScaled(t)
    PROVE  /\ TypeOK' /\ UNCHANGED <<card, cloud, died, asked>> /\ tick[t].pc = "keep_scaled"
           /\ row'.ref = tick[t].d.ref /\ row'.state = row.state /\ row'.going = row.going
           /\ \E x : Turns(t, x) /\ x.pc = "move" /\ x.d = tick[t].d
<1>0. tick[t] \in Tick /\ row \in Row /\ 0 \in 0..MaxErrors
    BY Constants DEF TypeOK
<1>1. tick[t].d \in Row
    BY <1>0, TickFields
<1>2. /\ UNCHANGED <<card, cloud, over, job, requests, faults, died, asked>> /\ tick[t].pc = "keep_scaled"
      /\ row' = [row EXCEPT !.ref = tick[t].d.ref, !.errors = 0, !.missing = tick[t].d.missing]
      /\ tick' = [tick EXCEPT ![t].pc = "move", ![t].next = "scaling"]
    BY DEF KeepScaled, At, Mine
<1>3. row' \in Row /\ row'.ref = tick[t].d.ref /\ row'.state = row.state /\ row'.going = row.going
    BY <1>0, <1>1, <1>2 DEF Row
<1> DEFINE x == [tick[t] EXCEPT !.pc = "move", !.next = "scaling"]
<1>4. x \in Tick /\ x.pc = "move" /\ x.d = tick[t].d
    BY <1>0 DEF Tick
<1>5. Turns(t, x)
    BY <1>2, <1>4 DEF Turns
<1> HIDE DEF x
<1>6. tick' \in [Ticks -> Tick]
    BY <1>5, Turned
<1>7. TypeOK'
    BY <1>2, <1>3, <1>6 DEF TypeOK
<1> QED
    BY <1>2, <1>3, <1>4, <1>5, <1>7

\* The row's state follows what was read.
LEMMA Transitions ==
    ASSUME TypeOK, NEW t \in Ticks, ClaimReady(t) \/ Transition(t)
    PROVE  /\ TypeOK' /\ UNCHANGED <<card, cloud, died, asked>>
           /\ row'.ref = row.ref /\ row'.going = row.going /\ row'.state \in Reading
           /\ \/ tick[t].pc = "ready" /\ \E x : Turns(t, x) /\ x.d = tick[t].d /\ x.pc = "move"
              \/ tick[t].pc = "move" /\ \E x : Turns(t, x) /\ x.d = tick[t].d /\ x.pc = "card"
              \/ tick[t].pc = "move" /\ Turns(t, Idle)
<1>0. tick[t] \in Tick /\ row \in Row
    BY DEF TypeOK
<1>1. tick[t].next \in Reading /\ Reading \subseteq Swept
    BY <1>0, TickFields DEF Swept, Reading
<1>2. UNCHANGED <<card, cloud, over, requests, faults, died, asked>>
    BY DEF ClaimReady, Transition
<1>3. CASE ClaimReady(t)
    <2>1. tick[t].pc = "ready" /\ row' = [row EXCEPT !.state = "ready"] /\ Go(t, "move") /\ job' = job
        BY <1>3 DEF ClaimReady, At
    <2>2. row' \in Row /\ row'.ref = row.ref /\ row'.going = row.going /\ row'.state = "ready"
        BY <1>0, <2>1 DEF Row, Swept
    <2>3. PICK x : Turns(t, x) /\ x.d = tick[t].d /\ x.pc = "move"
        BY <2>1, GoTurns DEF Pc
    <2>4. tick' \in [Ticks -> Tick]
        BY <2>3, Turned
    <2>5. TypeOK'
        BY <1>2, <2>1, <2>2, <2>4 DEF TypeOK
    <2> QED
        BY <1>2, <2>1, <2>2, <2>3, <2>5 DEF Reading
<1>4. CASE Transition(t)
    <2>1. tick[t].pc = "move" /\ row' = [row EXCEPT !.state = tick[t].next, !.lapsed = FALSE]
        BY <1>4 DEF Transition, At
    <2>2. row' \in Row /\ row'.ref = row.ref /\ row'.going = row.going /\ row'.state \in Reading
        BY <1>0, <1>1, <2>1 DEF Row
    <2>3. CASE Return(t)
        <3>1. Turns(t, Idle) /\ job' \in {"none", "waiting"} \cup Ticks
            BY <2>3, ReturnTurns
        <3>2. tick' \in [Ticks -> Tick]
            BY <3>1, Turned
        <3>3. TypeOK'
            BY <1>2, <2>2, <3>1, <3>2 DEF TypeOK
        <3> QED
            BY <1>2, <2>1, <2>2, <3>1, <3>3
    <2>4. CASE Go(t, "card") /\ job' = job
        <3>1. PICK x : Turns(t, x) /\ x.d = tick[t].d /\ x.pc = "card"
            BY <2>4, GoTurns DEF Pc
        <3>2. tick' \in [Ticks -> Tick]
            BY <3>1, Turned
        <3>3. TypeOK'
            BY <1>2, <2>2, <2>4, <3>2 DEF TypeOK
        <3> QED
            BY <1>2, <2>1, <2>2, <3>1, <3>3
    <2> QED
        BY <1>4, <2>3, <2>4 DEF Transition
<1> QED
    BY <1>3, <1>4

LEMMA SetsCard ==
    ASSUME TypeOK, NEW t \in Ticks, SetCard(t)
    PROVE  /\ TypeOK' /\ UNCHANGED <<row, cloud, died, asked>> /\ tick[t].pc = "card"
           /\ \E x : Turns(t, x) /\ x.pc = "cost" /\ x.d = tick[t].d
<1>1. /\ UNCHANGED <<row, cloud, over, job, requests, faults, died, asked>> /\ tick[t].pc = "card" /\ Go(t, "cost")
      /\ card' \in {card, Dark(FALSE), [active |-> TRUE, ref |-> TRUE]}
    BY DEF SetCard, At
<1>2. card' \in Card
    <2>1. Dark(FALSE) \in Card /\ card \in Card
        BY DarkCard DEF TypeOK
    <2>2. [active |-> TRUE, ref |-> TRUE] \in Card
        BY DEF Card
    <2> QED
        BY <1>1, <2>1, <2>2
<1>3. PICK x : Turns(t, x) /\ x.pc = "cost" /\ x.d = tick[t].d
    BY <1>1, GoTurns DEF Pc
<1>4. tick' \in [Ticks -> Tick]
    BY <1>3, Turned
<1>5. TypeOK'
    BY <1>1, <1>2, <1>4 DEF TypeOK
<1> QED
    BY <1>1, <1>3, <1>5

LEMMA Charges ==
    ASSUME TypeOK, NEW t \in Ticks, Charge(t)
    PROVE  /\ TypeOK' /\ UNCHANGED <<card, cloud, died, asked>> /\ tick[t].pc = "cost"
           /\ row'.ref = row.ref /\ row'.going = row.going /\ row'.state = row.state
           /\ Turns(t, Idle) \/ \E x : Turns(t, x) /\ x.pc = "stop" /\ x.d = tick[t].d
<1>0. tick[t] \in Tick /\ row \in Row /\ 0 \in 0..MaxErrors
    BY Constants DEF TypeOK
<1>1. tick[t].d.missing \in {"no", "young", "old"}
    BY <1>0, TickFields, RowFields
<1>2. /\ UNCHANGED <<card, cloud, over, requests, faults, died, asked>> /\ tick[t].pc = "cost"
      /\ row' = [row EXCEPT !.errors = 0, !.missing = tick[t].d.missing, !.lapsed = FALSE]
      /\ Return(t) \/ (Go(t, "stop") /\ job' = job)
    BY DEF Charge, At, Mine
<1>3. row' \in Row /\ row'.ref = row.ref /\ row'.going = row.going /\ row'.state = row.state
    BY <1>0, <1>1, <1>2 DEF Row
<1>4. CASE Return(t)
    <2>1. Turns(t, Idle) /\ job' \in {"none", "waiting"} \cup Ticks
        BY <1>4, ReturnTurns
    <2>2. tick' \in [Ticks -> Tick]
        BY <2>1, Turned
    <2>3. TypeOK'
        BY <1>2, <1>3, <2>1, <2>2 DEF TypeOK
    <2> QED
        BY <1>2, <1>3, <2>1, <2>3
<1>5. CASE Go(t, "stop") /\ job' = job
    <2>1. PICK x : Turns(t, x) /\ x.pc = "stop" /\ x.d = tick[t].d
        BY <1>5, GoTurns DEF Pc
    <2>2. tick' \in [Ticks -> Tick]
        BY <2>1, Turned
    <2>3. TypeOK'
        BY <1>2, <1>3, <1>5, <2>2 DEF TypeOK
    <2> QED
        BY <1>2, <1>3, <2>1, <2>3
<1> QED
    BY <1>2, <1>4, <1>5

LEMMA RecordsError ==
    ASSUME TypeOK, NEW t \in Ticks, RecordError(t)
    PROVE  /\ TypeOK' /\ UNCHANGED <<card, cloud, died, asked>> /\ tick[t].pc = "error"
           /\ row'.ref = row.ref /\ row'.going = row.going
           /\ \/ GoingAway(t) /\ row'.state = row.state /\ Turns(t, Idle)
              \/ /\ ~GoingAway(t) /\ row' = row
                 /\ \E x : Turns(t, x) /\ x.pc = "fail" /\ x.d = tick[t].d
              \/ /\ ~GoingAway(t) /\ row'.state = "degraded" /\ tick[t].d.ref # NoRef
                 /\ \E x : Turns(t, x) /\ x.pc = "clear" /\ x.d = tick[t].d
<1>0. tick[t] \in Tick /\ row \in Row /\ MaxErrors \in Nat
    BY Constants DEF TypeOK
<1>1. tick[t].d.missing \in {"no", "young", "old"} /\ tick[t].d.errors \in 0..MaxErrors
    BY <1>0, TickFields, RowFields
<1>2. More(tick[t].d.errors) \in 0..MaxErrors
    BY <1>0, <1>1 DEF More
<1>3. UNCHANGED <<card, cloud, over, requests, faults, died, asked>> /\ tick[t].pc = "error"
    BY DEF RecordError, At
<1>4. CASE /\ GoingAway(t)
           /\ row' = [row EXCEPT !.errors = More(Mine(t).errors), !.missing = Mine(t).missing, !.lapsed = FALSE]
           /\ Return(t)
    <2>1. row' \in Row /\ row'.ref = row.ref /\ row'.going = row.going /\ row'.state = row.state
        BY <1>0, <1>1, <1>2, <1>4 DEF Row, Mine
    <2>2. Turns(t, Idle) /\ job' \in {"none", "waiting"} \cup Ticks
        BY <1>4, ReturnTurns
    <2>3. tick' \in [Ticks -> Tick]
        BY <2>2, Turned
    <2>4. TypeOK'
        BY <1>3, <2>1, <2>2, <2>3 DEF TypeOK
    <2> QED
        BY <1>3, <1>4, <2>1, <2>2, <2>4
<1>5. CASE ~GoingAway(t) /\ Go(t, "fail") /\ UNCHANGED <<row, job>>
    <2>1. PICK x : Turns(t, x) /\ x.pc = "fail" /\ x.d = tick[t].d
        BY <1>5, GoTurns DEF Pc
    <2>2. tick' \in [Ticks -> Tick]
        BY <2>1, Turned
    <2>3. TypeOK'
        BY <1>3, <1>5, <2>2 DEF TypeOK
    <2> QED
        BY <1>3, <1>5, <2>1, <2>3
<1>6. CASE /\ ~GoingAway(t) /\ Mine(t).ref # NoRef
           /\ row' = [row EXCEPT !.state = "degraded", !.errors = More(Mine(t).errors),
                                 !.missing = Mine(t).missing, !.lapsed = FALSE]
           /\ Go(t, "clear") /\ UNCHANGED job
    <2>1. row' \in Row /\ row'.ref = row.ref /\ row'.going = row.going /\ row'.state = "degraded"
        BY <1>0, <1>1, <1>2, <1>6 DEF Row, Mine, Swept
    <2>2. PICK x : Turns(t, x) /\ x.pc = "clear" /\ x.d = tick[t].d
        BY <1>6, GoTurns DEF Pc
    <2>3. tick' \in [Ticks -> Tick]
        BY <2>2, Turned
    <2>4. TypeOK'
        BY <1>3, <1>6, <2>1, <2>3 DEF TypeOK
    <2> QED
        BY <1>3, <1>6, <2>1, <2>2, <2>4 DEF Mine
<1> QED
    BY <1>4, <1>5, <1>6 DEF RecordError

LEMMA Fails ==
    ASSUME TypeOK, NEW t \in Ticks, Fail(t)
    PROVE  /\ TypeOK' /\ UNCHANGED <<card, cloud, died, asked>> /\ tick[t].pc = "fail"
           /\ row'.ref = row.ref /\ row'.going = row.going /\ row'.state = "failed"
           /\ \E x : Turns(t, x) /\ x.pc = "clear" /\ x.d = tick[t].d
<1>0. row \in Row
    BY DEF TypeOK
<1>1. /\ UNCHANGED <<card, cloud, over, job, requests, faults, died, asked>> /\ tick[t].pc = "fail" /\ Go(t, "clear")
      /\ row' = [row EXCEPT !.state = "failed", !.lapsed = FALSE]
    BY DEF Fail, At
<1>2. row' \in Row /\ row'.ref = row.ref /\ row'.going = row.going /\ row'.state = "failed"
    BY <1>0, <1>1 DEF Row
<1>3. PICK x : Turns(t, x) /\ x.pc = "clear" /\ x.d = tick[t].d
    BY <1>1, GoTurns DEF Pc
<1>4. tick' \in [Ticks -> Tick]
    BY <1>3, Turned
<1>5. TypeOK'
    BY <1>1, <1>2, <1>4 DEF TypeOK
<1> QED
    BY <1>1, <1>2, <1>3, <1>5

LEMMA ClearsCard ==
    ASSUME TypeOK, NEW t \in Ticks, ClearCard(t)
    PROVE  /\ TypeOK' /\ UNCHANGED <<row, cloud, died, asked>> /\ Turns(t, Idle) /\ ~card'.active
           /\ tick[t].pc \in {"clear", "clear_forget"}
<1>1. /\ UNCHANGED <<row, cloud, over, requests, faults, died, asked>> /\ Return(t)
      /\ card' = Dark(At(t, "clear_forget")) /\ tick[t].pc \in {"clear", "clear_forget"}
    BY DEF ClearCard, Clearing
<1>2. At(t, "clear_forget") \in BOOLEAN
    BY DEF At
<1>3. card' \in Card /\ ~card'.active
    BY <1>1, <1>2, DarkCard
<1>4. Turns(t, Idle) /\ job' \in {"none", "waiting"} \cup Ticks
    BY <1>1, ReturnTurns
<1>5. tick' \in [Ticks -> Tick]
    BY <1>4, Turned
<1>6. TypeOK'
    BY <1>1, <1>3, <1>4, <1>5 DEF TypeOK
<1> QED
    BY <1>1, <1>3, <1>4, <1>6

LEMMA Crashes ==
    ASSUME TypeOK, NEW t \in Ticks, Crash(t), tick[t].pc = "keep" => tick[t].d.ref # NoRef
    PROVE  /\ TypeOK' /\ UNCHANGED <<row, card, cloud, asked>> /\ Turns(t, Idle)
           /\ died.lost \subseteq died'.lost /\ Creating(t) \subseteq died'.lost
           /\ died.lit => died'.lit
           /\ Clearing(t) => died'.lit
<1>0. tick[t] \in Tick /\ died \in [lost : SUBSET Endpoints, lit : BOOLEAN]
    BY DEF TypeOK
<1>1. /\ UNCHANGED <<row, card, cloud, over, requests, asked>> /\ tick' = [tick EXCEPT ![t] = Idle]
      /\ died' = [lost |-> died.lost \cup Creating(t), lit |-> died.lit \/ Clearing(t)]
      /\ job' \in {"none", "waiting", job} /\ faults' = faults + 1 /\ faults < MaxFaults
    BY DEF Crash, Fault
<1>2. Turns(t, Idle)
    BY <1>1, IdleTick DEF Turns
<1>3. tick' \in [Ticks -> Tick]
    BY <1>2, Turned
<1>4. faults' \in 0..MaxFaults /\ job' \in {"none", "waiting"} \cup Ticks
    BY <1>1, Constants DEF TypeOK
<1>5. Creating(t) \subseteq Endpoints
    <2>1. tick[t].d.ref \in Endpoints \cup {NoRef}
        BY <1>0, TickFields, RowFields
    <2> QED
        BY <2>1 DEF Creating, Mine, At
<1>6. died.lit \in BOOLEAN /\ (died.lit \/ Clearing(t)) \in BOOLEAN /\ died.lost \subseteq Endpoints
    BY <1>0
<1>7. died'.lost = died.lost \cup Creating(t) /\ died' \in [lost : SUBSET Endpoints, lit : BOOLEAN]
    BY <1>1, <1>5, <1>6
<1>8. died'.lit = (died.lit \/ Clearing(t))
    BY <1>1
<1>9. TypeOK'
    BY <1>1, <1>3, <1>4, <1>7 DEF TypeOK
<1> QED
    BY <1>1, <1>2, <1>7, <1>8, <1>9

\* People ask; the row's own job may be queued.
LEMMA CopyTypes ==
    ASSUME TypeOK, NEW q \in Requests
    PROVE  requests[q] \in Request /\ requests[q].d \in Row /\ requests[q].d.lapsed \in BOOLEAN
<1>1. requests[q] \in Request
    BY DEF TypeOK
<1>2. requests[q].d \in Row
    BY <1>1 DEF Request
<1> QED
    BY <1>1, <1>2, RowFields

\* A save keeps what it does not undo.
LEMMA ChangedTypes ==
    ASSUME NEW r \in Row, NEW kind \in {"start", "stop", "teardown"}
    PROVE  /\ Changed(kind, r) \in Row
           /\ Changed(kind, r).ref = r.ref /\ Changed(kind, r).lapsed = r.lapsed
           /\ kind # "teardown" => Changed(kind, r).state = r.state /\ Changed(kind, r).going = r.going
           /\ kind = "teardown" => Changed(kind, r).state = "tearing_down" /\ Changed(kind, r).going = TRUE
<1>1. CASE kind = "start"
    BY <1>1 DEF Changed, Row
<1>2. CASE kind = "stop"
    BY <1>2 DEF Changed, Row
<1>3. CASE kind = "teardown"
    BY <1>3 DEF Changed, Row, Swept
<1> QED
    BY <1>1, <1>2, <1>3

LEMMA SaveTypes ==
    ASSUME TypeOK, NEW q \in Requests, NEW kind \in {"start", "stop", "teardown"}
    PROVE  Saved(q, kind) \in Row
<1>0. row \in Row /\ requests[q].d \in Row /\ row.lapsed \in BOOLEAN /\ requests[q].d.lapsed \in BOOLEAN
      /\ row.missing \in {"no", "young", "old"} /\ requests[q].d.missing \in {"no", "young", "old"}
    BY CopyTypes, RowFields DEF TypeOK
<1> DEFINE l == requests[q].d.lapsed \/ row.lapsed
           m == IF requests[q].d.missing = "young" /\ row.missing = "old" THEN "old" ELSE requests[q].d.missing
           r == [requests[q].d EXCEPT !.lapsed = l, !.missing = m]
<1>1. l \in BOOLEAN
    OBVIOUS
<1>2. m \in {"no", "young", "old"}
    BY <1>0
<1>3. r \in Row
    <2> HIDE DEF l, m
    <2> QED
        BY <1>0, <1>1, <1>2 DEF Row
<1>4. Saved(q, kind) = Changed(kind, r)
    BY DEF Saved
<1> HIDE DEF r
<1> QED
    BY <1>3, <1>4, ChangedTypes

LEMMA Saves ==
    ASSUME TypeOK, NEW q \in Requests, NEW kind \in {"start", "stop", "teardown"}, Save(q, kind), asked' \in BOOLEAN
    PROVE  /\ TypeOK' /\ UNCHANGED <<card, cloud, tick, died>>
           /\ "stale" \notin Faults =>
                /\ row'.ref = row.ref
                /\ kind # "teardown" => row'.going = row.going
                /\ kind = "teardown" => row'.state = "tearing_down" /\ row'.going = TRUE /\ row'.lapsed = row.lapsed
                /\ kind # "teardown" => \/ row'.state = row.state /\ row'.lapsed = row.lapsed
                                        \/ /\ row.ref # NoRef /\ row'.state \in Serving
                                           /\ row.state \in Serving \cup {"failed"}
<1>0. row \in Row /\ NewRow \in Row
    BY IdleTick DEF TypeOK
<1>1. /\ UNCHANGED <<card, cloud, over, tick, faults, died>> /\ row' = Saved(q, kind)
      /\ job' \in {"none", "waiting", job}
      /\ requests' = [requests EXCEPT ![q] = [NewRequest EXCEPT !.pc = "over"]]
      /\ Undoes(Saved(q, kind), Changed(kind, row)) => "stale" \in Faults
    BY DEF Save
<1>2. row' \in Row
    BY <1>1, SaveTypes
<1>3. requests' \in [Requests -> Request]
    <2>1. [NewRequest EXCEPT !.pc = "over"] \in Request
        BY <1>0 DEF NewRequest, Request
    <2> QED
        BY <1>1, <2>1 DEF TypeOK
<1>4. TypeOK'
    BY <1>1, <1>2, <1>3 DEF TypeOK
<1>5. ASSUME "stale" \notin Faults
      PROVE  /\ row'.ref = row.ref
             /\ kind # "teardown" => row'.going = row.going
             /\ kind = "teardown" => row'.state = "tearing_down" /\ row'.going = TRUE /\ row'.lapsed = row.lapsed
             /\ kind # "teardown" => \/ row'.state = row.state /\ row'.lapsed = row.lapsed
                                     \/ /\ row.ref # NoRef /\ row'.state \in Serving
                                        /\ row.state \in Serving \cup {"failed"}
    <2>1. ~Undoes(row', Changed(kind, row))
        BY <1>1, <1>5
    <2>2. /\ Changed(kind, row).ref = row.ref /\ Changed(kind, row).lapsed = row.lapsed
          /\ kind # "teardown" => Changed(kind, row).state = row.state /\ Changed(kind, row).going = row.going
          /\ kind = "teardown" => Changed(kind, row).state = "tearing_down" /\ Changed(kind, row).going = TRUE
        BY <1>0, ChangedTypes
    <2>3. "tearing_down" \notin Serving
        BY DEF Serving
    <2>4. kind = "teardown" => row'.state = "tearing_down"
        BY <2>1, <2>2, <2>3 DEF Undoes, Serving
    <2> QED
        BY <2>1, <2>2, <2>3, <2>4 DEF Undoes
<1> QED
    BY <1>1, <1>4, <1>5

LEMMA Asks ==
    ASSUME TypeOK, People
    PROVE  /\ TypeOK' /\ UNCHANGED <<card, cloud, tick, died>>
           /\ \/ "stale" \in Faults
              \/ /\ row'.ref = row.ref /\ row'.going = row.going /\ asked' = asked
                 /\ \/ row'.state = row.state /\ row'.lapsed = row.lapsed
                    \/ row.ref # NoRef /\ row'.state \in Serving /\ row.state \in Serving \cup {"failed"}
              \/ /\ row'.ref = row.ref /\ row'.lapsed = row.lapsed
                 /\ row'.state = "tearing_down" /\ row'.going = TRUE /\ asked' = TRUE
                 /\ "overlap" \in Faults \/ \A s, t \in Flying : s = t
<1>0. row \in Row /\ asked \in BOOLEAN
    BY DEF TypeOK
<1>1. PICK q \in Requests : Get(q) \/ Scale(q) \/ Teardown(q)
    BY DEF People
<1>2. CASE Get(q)
    <2>1. /\ UNCHANGED <<row, card, cloud, over, job, tick, faults, died, asked>>
          /\ requests' = [requests EXCEPT ![q] = [pc |-> "got", d |-> row]]
        BY <1>2 DEF Get
    <2>2. requests' \in [Requests -> Request]
        BY <1>0, <2>1 DEF TypeOK, Request
    <2>3. TypeOK'
        BY <2>1, <2>2 DEF TypeOK
    <2> QED
        BY <2>1, <2>3
<1>3. CASE Scale(q)
    <2>1. PICK kind \in {"start", "stop"} : Save(q, kind)
        BY <1>3 DEF Scale
    <2>2. asked' = asked
        BY <1>3 DEF Scale
    <2>3. kind \in {"start", "stop", "teardown"} /\ kind # "teardown"
        OBVIOUS
    <2> QED
        BY <1>0, <2>1, <2>2, <2>3, Saves
<1>4. CASE Teardown(q)
    <2>1. Save(q, "teardown") /\ asked' = TRUE /\ ("overlap" \in Faults \/ \A s, t \in Flying : s = t)
        BY <1>4 DEF Teardown
    <2> QED
        BY <2>1, Saves
<1> QED
    BY <1>1, <1>2, <1>3, <1>4

\* Time passes for the row.
LEMMA Passes ==
    ASSUME TypeOK, ClaimLapses \/ GraceEnds
    PROVE  /\ TypeOK' /\ UNCHANGED <<card, cloud, tick, died, asked>>
           /\ row'.ref = row.ref /\ row'.state = row.state /\ row'.going = row.going
           /\ row'.lapsed = row.lapsed \/ \A t \in Flying : tick[t].d.state # "deploying"
<1>0. row \in Row
    BY DEF TypeOK
<1>1. UNCHANGED <<card, cloud, over, job, tick, requests, faults, died, asked>>
    BY DEF ClaimLapses, GraceEnds
<1>2. CASE ClaimLapses
    <2>1. row' = [row EXCEPT !.lapsed = TRUE] /\ \A t \in Flying : tick[t].d.state # "deploying"
        BY <1>2 DEF ClaimLapses, Mine
    <2>2. row' \in Row /\ row'.ref = row.ref /\ row'.state = row.state /\ row'.going = row.going
        BY <1>0, <2>1 DEF Row
    <2>3. TypeOK'
        BY <1>1, <2>2 DEF TypeOK
    <2> QED
        BY <1>1, <2>1, <2>2, <2>3
<1>3. CASE GraceEnds
    <2>1. row' = [row EXCEPT !.missing = "old"]
        BY <1>3 DEF GraceEnds
    <2>2. row' \in Row /\ row'.ref = row.ref /\ row'.state = row.state /\ row'.going = row.going /\ row'.lapsed = row.lapsed
        BY <1>0, <2>1 DEF Row
    <2>3. TypeOK'
        BY <1>1, <2>2 DEF TypeOK
    <2> QED
        BY <1>1, <2>1, <2>2, <2>3
<1> QED
    BY <1>2, <1>3

LEMMA Provides ==
    ASSUME TypeOK, Provider
    PROVE  /\ TypeOK' /\ UNCHANGED <<row, card, tick, died, asked>>
           /\ \A e \in Endpoints : /\ cloud[e].st = "gone" => cloud'[e].st = "gone"
                                   /\ cloud'[e].st \in {"starting", "up"} => cloud[e].st \in {"starting", "up"}
<1>1. CASE Spend
    BY <1>1 DEF Spend, TypeOK
<1>2. ASSUME NEW e \in Endpoints, Starts(e) \/ FailsThere(e) \/ Vanishes(e)
      PROVE  /\ TypeOK' /\ UNCHANGED <<row, card, tick, died, asked>>
             /\ \A f \in Endpoints : /\ cloud[f].st = "gone" => cloud'[f].st = "gone"
                                     /\ cloud'[f].st \in {"starting", "up"} => cloud[f].st \in {"starting", "up"}
    <2>0. cloud \in [Endpoints -> Endpoint] /\ cloud[e] \in Endpoint
        BY DEF TypeOK
    <2>1. PICK p \in {"up", "failed", "gone"} :
            /\ cloud[e].st \in {"starting", "up", "failed"} /\ cloud' = [cloud EXCEPT ![e].st = p]
            /\ p = "up" => cloud[e].st = "starting"
            /\ UNCHANGED <<row, card, over, job, tick, requests, faults, died, asked>>
        BY <1>2 DEF Starts, FailsThere, Vanishes, Becomes
    <2>2. [cloud[e] EXCEPT !.st = p] \in Endpoint /\ [cloud[e] EXCEPT !.st = p].st = p
        BY <2>0 DEF Endpoint
    <2>3. cloud' \in [Endpoints -> Endpoint] /\ cloud'[e].st = p /\ \A f \in Endpoints \ {e} : cloud'[f] = cloud[f]
        BY <2>0, <2>1, <2>2
    <2>4. TypeOK'
        BY <2>1, <2>3 DEF TypeOK
    <2> QED
        BY <2>1, <2>3, <2>4
<1> QED
    BY <1>1, <1>2 DEF Provider

-----------------------------------------------------------------------------
(* The late steps                                                          *)

\* Most late steps leave card and endpoints alone, and a tick that takes them
\* does not leave a teardown alone, so that none was asked for and forgotten.
LateQuietly(t, x) ==
    /\ Turns(t, x) /\ Late(tick[t]) /\ UNCHANGED <<card, died, asked>>
    /\ \A e \in Endpoints : cloud'[e].st = cloud[e].st
    /\ row'.ref = row.ref /\ row'.going = row.going
    /\ ~Leaves(tick[t]) /\ tick[t].pc \notin {"clear", "clear_forget"}
    /\ \/ row'.state = row.state \/ row'.state \in Reading
       \/ row'.state \in {"failed", "orphaned"} /\ x.pc \in {"clear", "clear_forget"}
    /\ \/ Still(x)
       \/ /\ Late(x) /\ x.d.ref = tick[t].d.ref
          /\ x.pc \in WithRef => x.d.ref # NoRef
          /\ x.pc \notin Tearing \cup {"unroute", "delete", "cap"}
          /\ x.pc = "card" => row'.state \in Reading

LEMMA LateQuiet ==
    ASSUME HInv, TypeOK', NEW t \in Ticks, NEW x, LateQuietly(t, x)
    PROVE  HInv'
<1> USE DEF LateQuietly
<1>0. tick[t].d.ref = row.ref /\ ~Still(tick[t])
    BY DEF HInv, StepsInv, LateInv, Late
<1>1. ~(asked /\ ~row.going)
    BY <1>0 DEF HInv, KeptInv
<1>2. row'.state # "tearing_down" \/ row'.state = row.state
    BY DEF Reading
<1>3. row'.state = "tearing_down" /\ ~row'.going => row'.ref # NoRef
    BY <1>2 DEF HInv, StepsInv, RefInv
<1>4. LateStep(t, x)
    BY <1>0, <1>3 DEF LateStep
<1>5. x.pc \notin Tearing \cup {"unroute", "delete", "cap"}
    BY Kinds
<1>6. x.pc = "card" => row'.state \notin {"torn_down", "failed", "orphaned"}
    BY Kinds DEF Reading
<1>7. card.active => row.state # "torn_down"
    BY DEF HInv, CardInv, RoutedOnlyWhileServed
<1>8. card'.active => /\ row'.state # "torn_down"
                      /\ row'.state \in {"failed", "orphaned"} =>
                            \/ x.pc \in {"clear", "clear_forget"}
                            \/ tick[t].pc \notin {"clear", "clear_forget"} /\ card.active
                               /\ row.state \in {"failed", "orphaned"}
    BY <1>7 DEF Reading
<1>9. LateCare(t, x)
    BY <1>1, <1>5, <1>6, <1>8 DEF LateCare
<1> QED
    BY <1>4, <1>9, LateKeeps

\* A tick at a step that needs its endpoint is late.
LEMMA NeedsRef ==
    ASSUME HInv, NEW t \in Ticks, tick[t].pc \in WithRef \ {"keep"}
    PROVE  Late(tick[t]) /\ tick[t].d.ref # NoRef
<1>1. tick[t].d.ref # NoRef
    BY DEF HInv, StepsInv, RefInv
<1> QED
    BY <1>1 DEF Late, Still, Fresh, Holder, Spent, WithRef

\* As is one that has it.
LEMMA HasRef ==
    ASSUME NEW x, x.pc \in Pc \ {"idle", "listed", "creds", "claim", "deploy", "keep"}, x.d.ref # NoRef
    PROVE  Late(x)
BY DEF Late, Still, Fresh, Holder, Spent, Pc

LEMMA IdleIs == Still(Idle)
BY DEF Still, Idle

LEMMA LateObserves ==
    ASSUME HInv, NEW t \in Ticks, Observe(t) \/ Orphan(t)
    PROVE  HInv'
<1>0. TypeOK
    BY DEF HInv
<1>1. CASE Observe(t)
    <2>1. TypeOK' /\ UNCHANGED <<row, card, cloud, died, asked>> /\ tick[t].pc = "observe"
        BY <1>0, <1>1, Observes
    <2>2. PICK x : /\ Turns(t, x) /\ x.pc \in {"orphan", "fail", "scale", "ready", "move"}
                   /\ x.d.ref = tick[t].d.ref
        BY <1>0, <1>1, Observes
    <2>3. Late(tick[t]) /\ tick[t].d.ref # NoRef
        BY <2>1, NeedsRef DEF WithRef
    <2>4. Late(x)
        BY <2>2, <2>3, HasRef DEF Pc
    <2>5. ~Leaves(tick[t])
        BY <2>1 DEF Leaves, Spent, Tearing
    <2>6. LateQuietly(t, x)
        BY <2>1, <2>2, <2>3, <2>4, <2>5 DEF LateQuietly, Tearing
    <2> QED
        BY <2>1, <2>6, LateQuiet
<1>2. CASE Orphan(t)
    <2>1. /\ TypeOK' /\ UNCHANGED <<card, cloud, died, asked>> /\ tick[t].pc = "orphan"
          /\ row'.ref = row.ref /\ row'.going = row.going
        BY <1>0, <1>2, Orphans
    <2>2. PICK x : /\ Turns(t, x)
                   /\ \/ x = Idle /\ row'.state = row.state
                      \/ row'.state = "orphaned" /\ x.pc = "clear_forget" /\ x.d = tick[t].d
        BY <1>0, <1>2, Orphans
    <2>3. Late(tick[t]) /\ tick[t].d.ref # NoRef
        BY <2>1, NeedsRef DEF WithRef
    <2>4. Still(x) \/ Late(x)
        BY <2>2, <2>3, HasRef, IdleIs DEF Pc
    <2>5. ~Leaves(tick[t])
        BY <2>1 DEF Leaves, Spent, Tearing
    <2>6. LateQuietly(t, x)
        BY <2>1, <2>2, <2>3, <2>4, <2>5, IdleIs DEF LateQuietly, Tearing
    <2> QED
        BY <2>1, <2>6, LateQuiet
<1> QED
    BY <1>1, <1>2

LEMMA LateScales ==
    ASSUME HInv, NEW t \in Ticks, ScaleTo(t) \/ StopSpending(t) \/ KeepScaled(t)
    PROVE  HInv'
<1>0. TypeOK
    BY DEF HInv
<1>1. CASE ScaleTo(t) \/ StopSpending(t)
    <2>1. TypeOK' /\ UNCHANGED <<row, card, died, asked>> /\ \A e \in Endpoints : cloud'[e].st = cloud[e].st
        BY <1>0, <1>1, Scales
    <2>2. PICK x : /\ Turns(t, x) /\ x.d = tick[t].d
                   /\ tick[t].pc \in {"scale", "stop"} /\ x.pc \in {"keep_scaled", "cap_merge"}
        BY <1>0, <1>1, Scales
    <2>3. Late(tick[t]) /\ tick[t].d.ref # NoRef
        BY <2>2, NeedsRef DEF WithRef
    <2>4. Late(x)
        BY <2>2, <2>3, HasRef DEF Pc
    <2>5. ~Leaves(tick[t])
        BY <2>2 DEF Leaves, Spent, Tearing
    <2>6. LateQuietly(t, x)
        BY <2>1, <2>2, <2>3, <2>4, <2>5 DEF LateQuietly, Tearing
    <2> QED
        BY <2>1, <2>6, LateQuiet
<1>2. CASE KeepScaled(t)
    <2>1. /\ TypeOK' /\ UNCHANGED <<card, cloud, died, asked>> /\ tick[t].pc = "keep_scaled"
          /\ row'.ref = tick[t].d.ref /\ row'.state = row.state /\ row'.going = row.going
        BY <1>0, <1>2, KeepsScaled
    <2>2. PICK x : Turns(t, x) /\ x.pc = "move" /\ x.d = tick[t].d
        BY <1>0, <1>2, KeepsScaled
    <2>3. Late(tick[t]) /\ tick[t].d.ref # NoRef
        BY <2>1, NeedsRef DEF WithRef
    <2>7. tick[t].d.ref = row.ref
        BY <2>3 DEF HInv, StepsInv, LateInv
    <2>4. Late(x)
        BY <2>2, <2>3, HasRef DEF Pc
    <2>5. ~Leaves(tick[t])
        BY <2>1 DEF Leaves, Spent, Tearing
    <2>6. LateQuietly(t, x)
        BY <2>1, <2>2, <2>3, <2>4, <2>5, <2>7 DEF LateQuietly, Tearing
    <2> QED
        BY <2>1, <2>6, LateQuiet
<1> QED
    BY <1>1, <1>2

LEMMA LateTransits ==
    ASSUME HInv, NEW t \in Ticks, ClaimReady(t) \/ Transition(t) \/ Charge(t)
    PROVE  HInv'
<1>0. TypeOK
    BY DEF HInv
<1>1. CASE ClaimReady(t) \/ Transition(t)
    <2>1. /\ TypeOK' /\ UNCHANGED <<card, cloud, died, asked>>
          /\ row'.ref = row.ref /\ row'.going = row.going /\ row'.state \in Reading
        BY <1>0, <1>1, Transitions
    <2>2. PICK x : /\ Turns(t, x) /\ tick[t].pc \in {"ready", "move"}
                   /\ (x.d = tick[t].d /\ x.pc \in {"move", "card"}) \/ x = Idle
        BY <1>0, <1>1, Transitions
    <2>3. Late(tick[t]) /\ tick[t].d.ref # NoRef
        BY <2>2, NeedsRef DEF WithRef
    <2>4. Still(x) \/ (Late(x) /\ x.d = tick[t].d /\ x.pc \in {"move", "card"})
        BY <2>2, <2>3, HasRef, IdleIs DEF Pc
    <2>5. ~Leaves(tick[t])
        BY <2>2 DEF Leaves, Spent, Tearing
    <2>6. LateQuietly(t, x)
        BY <2>1, <2>2, <2>3, <2>4, <2>5 DEF LateQuietly, Tearing
    <2> QED
        BY <2>1, <2>6, LateQuiet
<1>2. CASE Charge(t)
    <2>1. /\ TypeOK' /\ UNCHANGED <<card, cloud, died, asked>> /\ tick[t].pc = "cost"
          /\ row'.ref = row.ref /\ row'.going = row.going /\ row'.state = row.state
        BY <1>0, <1>2, Charges
    <2>2. PICK x : Turns(t, x) /\ (x = Idle \/ (x.pc = "stop" /\ x.d = tick[t].d))
        BY <1>0, <1>2, Charges
    <2>3. Late(tick[t]) /\ tick[t].d.ref # NoRef
        BY <2>1, NeedsRef DEF WithRef
    <2>4. Still(x) \/ (Late(x) /\ x.d = tick[t].d /\ x.pc = "stop")
        BY <2>2, <2>3, HasRef, IdleIs DEF Pc
    <2>5. ~Leaves(tick[t])
        BY <2>1 DEF Leaves, Spent, Tearing
    <2>6. LateQuietly(t, x)
        BY <2>1, <2>2, <2>3, <2>4, <2>5 DEF LateQuietly, Tearing
    <2> QED
        BY <2>1, <2>6, LateQuiet
<1> QED
    BY <1>1, <1>2

LEMMA LateSetsCard ==
    ASSUME HInv, NEW t \in Ticks, SetCard(t)
    PROVE  HInv'
<1>0. TypeOK
    BY DEF HInv
<1>1. TypeOK' /\ UNCHANGED <<row, cloud, died, asked>> /\ tick[t].pc = "card"
    BY <1>0, SetsCard
<1>2. PICK x : Turns(t, x) /\ x.pc = "cost" /\ x.d = tick[t].d
    BY <1>0, SetsCard
<1>3. Late(tick[t]) /\ tick[t].d.ref # NoRef /\ ~Still(tick[t])
    BY <1>1, NeedsRef DEF WithRef, Late
<1>4. Late(x)
    BY <1>2, <1>3, HasRef DEF Pc
<1>5. ~Leaves(tick[t])
    BY <1>1 DEF Leaves, Spent, Tearing
<1>6. ~(asked /\ ~row.going)
    BY <1>3, <1>5 DEF HInv, KeptInv
<1>7. row.state \notin {"torn_down", "failed", "orphaned"}
    BY <1>1 DEF HInv, CardInv
<1>8. LateStep(t, x)
    BY <1>1, <1>2, <1>3, <1>4 DEF LateStep, HInv, StepsInv, LateInv, RefInv
<1>9. LateCare(t, x)
    BY <1>1, <1>2, <1>6, <1>7 DEF LateCare, Tearing
<1> QED
    BY <1>1, <1>8, <1>9, LateKeeps

\* desired is read again before the cap is written: a teardown asked for in
\* between leaves its mark in the state.
LEMMA LateCaps ==
    ASSUME HInv, NEW t \in Ticks, MergeCap(t) \/ Cap(t)
    PROVE  HInv'
<1>0. TypeOK
    BY DEF HInv
<1>1. CASE MergeCap(t)
    <2>1. TypeOK' /\ UNCHANGED <<row, card, cloud, died, asked>> /\ tick[t].pc = "cap_merge"
        BY <1>0, <1>1, Merges DEF MergeCap, At
    <2>2. PICK x : Turns(t, x) /\ x.d.ref = tick[t].d.ref /\ x.d.going = row.going /\ x.pc = "cap"
        BY <1>0, <1>1, <2>1, Merges
    <2>3. Late(tick[t]) /\ tick[t].d.ref # NoRef /\ ~Still(tick[t])
        BY <2>1, NeedsRef DEF WithRef, Late
    <2>4. Late(x)
        BY <2>2, <2>3, HasRef DEF Pc
    <2>5. ~Leaves(tick[t])
        BY <2>1 DEF Leaves, Spent, Tearing
    <2>6. ~(asked /\ ~row.going)
        BY <2>3, <2>5 DEF HInv, KeptInv
    <2>7. LateStep(t, x)
        BY <2>1, <2>2, <2>3, <2>4 DEF LateStep, HInv, StepsInv, LateInv, RefInv
    <2>8. card.active => /\ row.state # "torn_down"
        BY DEF HInv, CardInv, RoutedOnlyWhileServed
    <2>9. LateCare(t, x)
        BY <2>1, <2>2, <2>6, <2>8 DEF LateCare, Tearing
    <2> QED
        BY <2>1, <2>7, <2>9, LateKeeps
<1>2. CASE Cap(t)
    <2>1. /\ TypeOK' /\ UNCHANGED <<card, cloud, died, asked>> /\ Turns(t, Idle)
          /\ tick[t].pc = "cap" /\ row'.state = row.state /\ row'.ref = tick[t].d.ref /\ row'.going = tick[t].d.going
        BY <1>0, <1>2, TornsAndCaps DEF Cap, At
    <2>2. Late(tick[t]) /\ tick[t].d.ref # NoRef /\ ~Still(tick[t])
        BY <2>1, NeedsRef DEF WithRef, Late
    <2>3. tick[t].d.ref = row.ref
        BY <2>2 DEF HInv, StepsInv, LateInv
    <2>4. ~Leaves(tick[t])
        BY <2>1 DEF Leaves, Spent, Tearing
    <2>5. ~(asked /\ ~row.going)
        BY <2>2, <2>4 DEF HInv, KeptInv
    <2>6. asked /\ ~row'.going => row'.state \in Leaving
        BY <2>1, <2>5 DEF HInv, KeptInv, Leaving
    <2>7. LateStep(t, Idle)
        BY <2>1, <2>2, <2>3, IdleIs DEF LateStep
    <2>8. card.active => /\ row.state # "torn_down"
        BY DEF HInv, CardInv, RoutedOnlyWhileServed
    <2>9. LateCare(t, Idle)
        BY <2>1, <2>3, <2>6, <2>8, IdleIs, Kinds DEF LateCare, Tearing, Idle
    <2> QED
        BY <2>1, <2>7, <2>9, LateKeeps
<1> QED
    BY <1>1, <1>2

\* The teardown: the card is dark before the endpoint goes, and the endpoint is
\* gone before the row forgets it.
LEMMA LateTearsDown ==
    ASSUME HInv, NEW t \in Ticks, Unroute(t) \/ Delete(t) \/ Forget(t) \/ MergeTorn(t)
    PROVE  HInv'
<1>0. TypeOK
    BY DEF HInv
<1>1. PICK x : /\ TypeOK' /\ UNCHANGED <<row, died, asked>> /\ (card' = card \/ ~card'.active)
               /\ Turns(t, x) /\ x.d.ref = tick[t].d.ref
               /\ \/ tick[t].pc = "unroute" /\ ~card'.active /\ cloud' = cloud /\ x.d = tick[t].d /\ x.pc = IF x.d.ref = NoRef THEN "forget" ELSE "delete"
                  \/ tick[t].pc = "delete" /\ cloud' = [cloud EXCEPT ![x.d.ref].st = "gone"] /\ card' = card /\ x.pc = "forget"
                  \/ tick[t].pc = "forget" /\ cloud' = cloud /\ x.pc = "merge"
                  \/ tick[t].pc = "merge" /\ cloud' = cloud /\ x.pc = "torn"
    <2>1. CASE Unroute(t) \/ Delete(t) \/ Forget(t)
        BY <1>0, <2>1, TearsDown
    <2>2. CASE MergeTorn(t)
        <3>1. tick[t].pc = "merge" /\ tick[t].pc # "cap_merge"
            BY <2>2 DEF MergeTorn, At
        <3>2. /\ TypeOK' /\ UNCHANGED <<row, card, cloud, died, asked>>
              /\ \E x : Turns(t, x) /\ x.d.ref = tick[t].d.ref /\ x.pc = "torn"
            BY <1>0, <2>2, <3>1, Merges
        <3> QED
            BY <3>1, <3>2
    <2> QED
        BY <2>1, <2>2
<1>2. /\ tick[t].pc \in {"unroute", "delete"} \cup Tearing /\ x.pc \in {"delete"} \cup Tearing
      /\ x.pc = "delete" => x.d = tick[t].d /\ tick[t].pc = "unroute"
    BY <1>1 DEF Tearing
<1>3. Late(tick[t]) /\ Late(x) /\ Leaves(x) /\ ~Still(tick[t])
    BY <1>2 DEF Late, Still, Fresh, Holder, Spent, Tearing, Leaves
<1>4. tick[t].d.ref = row.ref
    BY <1>3 DEF HInv, StepsInv, LateInv
<1>5. x.pc \in WithRef => x.d.ref # NoRef
    BY <1>1 DEF WithRef
<1>6. LateStep(t, x)
    BY <1>1, <1>3, <1>4, <1>5 DEF LateStep, HInv, StepsInv, RefInv
<1>7. ~card'.active
    BY <1>1, <1>2 DEF HInv, CardInv, Tearing
<1>8. cloud \in [Endpoints -> Endpoint] /\ tick[t] \in Tick
    BY <1>0 DEF TypeOK
<1>9. tick[t].d.ref \in Endpoints \cup {NoRef}
    BY <1>8, TickFields, RowFields
<1>10. x.pc \in Tearing /\ x.d.ref # NoRef => cloud'[x.d.ref].st = "gone"
    <2>1. CASE tick[t].pc = "unroute"
        BY <1>1, <2>1 DEF Tearing
    <2>2. CASE tick[t].pc = "delete"
        <3>1. cloud' = [cloud EXCEPT ![x.d.ref].st = "gone"]
            BY <1>1, <2>2
        <3> QED
            BY <1>1, <1>8, <1>9, <3>1 DEF Endpoint
    <2>3. CASE tick[t].pc \in {"forget", "merge"}
        <3>1. cloud' = cloud
            BY <1>1, <2>3
        <3> QED
            BY <1>1, <2>3, <3>1 DEF HInv, GoneInv, Tearing
    <2> QED
        BY <1>1, <2>1, <2>2, <2>3
<1>11. \A e \in Endpoints : cloud'[e].st \in {"starting", "up"} => cloud[e].st \in {"starting", "up"}
    <2>1. CASE cloud' = cloud
        BY <2>1
    <2>2. CASE cloud' = [cloud EXCEPT ![x.d.ref].st = "gone"]
        BY <1>8, <2>2 DEF Endpoint
    <2> QED
        BY <1>1, <2>1, <2>2
<1>12. asked /\ ~row.going => row.state \in Leaving
    BY DEF HInv, KeptInv
<1>13. x.pc \in {"unroute", "delete"} => x.d.state = "tearing_down" \/ x.d.going
    BY <1>2 DEF HInv, KeptInv, Tearing
<1>14. LateCare(t, x)
    BY <1>1, <1>2, <1>3, <1>7, <1>10, <1>11, <1>12, <1>13 DEF LateCare, Tearing
<1> QED
    BY <1>1, <1>6, <1>14, LateKeeps

LEMMA LateTorn ==
    ASSUME HInv, NEW t \in Ticks, TornDown(t)
    PROVE  HInv'
<1>0. TypeOK
    BY DEF HInv
<1>1. /\ TypeOK' /\ UNCHANGED <<card, cloud, died, asked>> /\ Turns(t, Idle)
      /\ tick[t].pc = "torn" /\ row'.state = "torn_down" /\ row'.ref = NoRef /\ row'.going = FALSE
    BY <1>0, TornsAndCaps DEF TornDown, At
<1>2. Late(tick[t])
    BY <1>1 DEF Late, Still, Fresh, Holder, Spent
<1>3. tick[t].d.ref = row.ref
    BY <1>2 DEF HInv, StepsInv, LateInv
<1>4. ~card.active
    BY <1>1 DEF HInv, CardInv, Tearing
<1>5. row.ref # NoRef => cloud[row.ref].st = "gone"
    BY <1>1, <1>3 DEF HInv, GoneInv, Tearing
<1>6. \A e \in Endpoints : cloud[e].st \in {"starting", "up"} => row.ref # e
    BY <1>5, Constants
<1>7. LateStep(t, Idle)
    BY <1>1, <1>2, IdleIs DEF LateStep
<1>8. row'.state \in Leaving
    BY <1>1 DEF Leaving, Terminal
<1>9. LateCare(t, Idle)
    BY <1>1, <1>4, <1>6, <1>8, IdleIs, Kinds DEF LateCare, Idle
<1> QED
    BY <1>1, <1>7, <1>9, LateKeeps

\* A call throws after the deploy.
LEMMA LateErrs ==
    ASSUME HInv, NEW t \in Ticks, Throws(t), tick[t].pc # "deploy"
    PROVE  HInv'
<1>0. TypeOK
    BY DEF HInv
<1>1. TypeOK' /\ UNCHANGED <<row, card, cloud, died, asked>> /\ tick[t].pc \in {"delete", "observe", "scale", "cost", "stop"}
    BY <1>0, Errs DEF Throws
<1>2. PICK x : Turns(t, x) /\ x.d = tick[t].d /\ x.pc = "error"
    BY <1>0, Errs
<1>3. Late(tick[t]) /\ tick[t].d.ref # NoRef /\ ~Still(tick[t])
    BY <1>1, NeedsRef DEF WithRef, Late
<1>4. Late(x)
    BY <1>2, <1>3, HasRef DEF Pc
<1>5. LateStep(t, x)
    BY <1>1, <1>2, <1>3, <1>4 DEF LateStep, HInv, StepsInv, LateInv, RefInv, WithRef
<1>6. asked /\ ~row.going => row.state \in Leaving /\ Leaves(x)
    <2> SUFFICES ASSUME asked, ~row.going PROVE row.state \in Leaving /\ Leaves(x)
        OBVIOUS
    <2>1. row.state \in Leaving /\ Leaves(tick[t])
        BY <1>3 DEF HInv, KeptInv
    <2>2. tick[t].pc = "delete"
        BY <1>1, <2>1 DEF Leaves, Spent, Tearing
    <2>3. x.d.state = "tearing_down" \/ x.d.going
        BY <1>2, <2>2 DEF HInv, KeptInv
    <2> QED
        BY <1>2, <2>1, <2>3 DEF Leaves
<1>7. card.active => row.state # "torn_down"
    BY DEF HInv, CardInv, RoutedOnlyWhileServed
<1>8. LateCare(t, x)
    BY <1>1, <1>2, <1>6, <1>7 DEF LateCare, Tearing
<1> QED
    BY <1>1, <1>5, <1>8, LateKeeps

\* Its error is recorded.
LEMMA LateRecords ==
    ASSUME HInv, NEW t \in Ticks, RecordError(t) \/ Fail(t), Late(tick[t])
    PROVE  HInv'
<1>0. TypeOK /\ ~Still(tick[t])
    BY DEF HInv, Late
<1>1. tick[t].pc \in {"error", "fail"}
    BY DEF RecordError, Fail, At
<1>2. tick[t].d.ref # NoRef /\ tick[t].d.ref = row.ref
    BY <1>1 DEF Late, Holder, HInv, StepsInv, LateInv
<1>3. CASE RecordError(t) /\ GoingAway(t)
    <2>1. /\ TypeOK' /\ UNCHANGED <<card, cloud, died, asked>> /\ tick[t].pc = "error"
          /\ row'.ref = row.ref /\ row'.going = row.going /\ row'.state = row.state /\ Turns(t, Idle)
        BY <1>0, <1>3, RecordsError
    <2>2. LateStep(t, Idle)
        BY <1>2, <2>1, IdleIs DEF LateStep
    <2>3. asked /\ ~row.going => row.state \in Leaving
        BY DEF HInv, KeptInv
    <2>4. card.active => row.state # "torn_down"
        BY DEF HInv, CardInv, RoutedOnlyWhileServed
    <2>5. LateCare(t, Idle)
        BY <2>1, <2>3, <2>4, IdleIs, Kinds DEF LateCare, Idle, Tearing
    <2> QED
        BY <2>1, <2>2, <2>5, LateKeeps
<1>4. CASE RecordError(t) /\ ~GoingAway(t)
    <2>1. /\ TypeOK' /\ UNCHANGED <<card, cloud, died, asked>> /\ tick[t].pc = "error"
          /\ row'.ref = row.ref /\ row'.going = row.going
        BY <1>0, <1>4, RecordsError
    <2>2. PICK x : /\ Turns(t, x) /\ x.d = tick[t].d
                   /\ (row' = row /\ x.pc = "fail") \/ (row'.state = "degraded" /\ x.pc = "clear")
        BY <1>0, <1>4, RecordsError
    <2>3. Late(x)
        BY <1>2, <2>2, HasRef DEF Pc
    <2>4. ~Leaves(tick[t])
        BY <1>2, <1>4, <2>1 DEF Leaves, Spent, Tearing, GoingAway, Mine
    <2>5. LateQuietly(t, x)
        BY <1>2, <2>1, <2>2, <2>3, <2>4 DEF LateQuietly, Tearing, WithRef, Reading
    <2> QED
        BY <2>1, <2>5, LateQuiet
<1>5. CASE Fail(t)
    <2>1. /\ TypeOK' /\ UNCHANGED <<card, cloud, died, asked>> /\ tick[t].pc = "fail"
          /\ row'.ref = row.ref /\ row'.going = row.going /\ row'.state = "failed"
        BY <1>0, <1>5, Fails
    <2>2. PICK x : Turns(t, x) /\ x.pc = "clear" /\ x.d = tick[t].d
        BY <1>0, <1>5, Fails
    <2>3. Late(x)
        BY <1>2, <2>2, HasRef DEF Pc
    <2>4. ~Leaves(tick[t])
        BY <2>1 DEF Leaves, Spent, Tearing
    <2>5. LateQuietly(t, x)
        BY <1>2, <2>1, <2>2, <2>3, <2>4 DEF LateQuietly, Tearing, WithRef
    <2> QED
        BY <2>1, <2>5, LateQuiet
<1> QED
    BY <1>3, <1>4, <1>5

-----------------------------------------------------------------------------
(* Before the endpoint is recorded                                         *)

LEMMA OneKind ==
    ASSUME NEW x
    PROVE  Still(x) \/ Fresh(x) \/ Holder(x) \/ Spent(x) \/ Late(x)
BY DEF Late

LEMMA NoneLate ==
    ASSUME StepsInv, NEW t \in Ticks, Fresh(tick[t]) \/ Holder(tick[t])
    PROVE  \A s \in Ticks : ~Late(tick[s])
<1> SUFFICES ASSUME NEW s \in Ticks, Late(tick[s]) PROVE FALSE
    OBVIOUS
<1>1. s # t
    BY DEF Late
<1>2. Still(tick[t]) \/ Spent(tick[t])
    BY <1>1, Alone
<1> QED
    BY <1>2, Kinds

\* No endpoint comes, goes or is recorded.
LEMMA EarlySame ==
    ASSUME HInv, NEW t \in Ticks, NEW x, Turns(t, x), UNCHANGED <<cloud, died>>, row'.ref = row.ref,
           tick[t].pc # "keep", x.pc \notin Tearing
    PROVE  GoneInv' /\ EndpointAccounted'
<1>0. tick'[t] = x /\ \A s \in Ticks \ {t} : tick'[s] = tick[s]
    BY Turned DEF HInv
<1>1. GoneInv'
    BY <1>0 DEF HInv, GoneInv
<1>2. EndpointAccounted'
    <2> SUFFICES ASSUME NEW e \in Endpoints, Billed(e)'
                 PROVE  row'.ref = e \/ e \in died'.lost \/ \E s \in Ticks : e \in Creating(s)'
        BY DEF EndpointAccounted
    <2>1. row.ref = e \/ e \in died.lost \/ \E s \in Ticks : e \in Creating(s)
        BY DEF HInv, EndpointAccounted, Billed
    <2>2. \A s \in Ticks \ {t} : Creating(s)' = Creating(s)
        BY <1>0 DEF Creating, At, Mine
    <2>3. Creating(t) = {}
        BY DEF Creating, At
    <2> QED
        BY <2>1, <2>2, <2>3
<1> QED
    BY <1>1, <1>2

\* The teardown and the card.
EarlyStep(t, x) ==
    /\ Turns(t, x) /\ UNCHANGED <<card, died, asked>> /\ row'.going = row.going
    /\ asked /\ ~row.going => row'.state = row.state /\ (Still(x) \/ Leaves(x))
    /\ x.pc \notin Tearing \cup {"cap", "card", "delete"}
    /\ x.pc = "unroute" => x.d.state = "tearing_down" \/ x.d.going
    /\ row'.state = row.state \/ \A s \in Ticks \ {t} : ~Late(tick[s])
    /\ tick[t].pc \notin {"clear", "clear_forget"}
    /\ row'.state = row.state \/ row'.state \in Reading \/ (row'.state = "failed" /\ x.pc = "clear")

LEMMA EarlyRest ==
    ASSUME HInv, NEW t \in Ticks, NEW x, EarlyStep(t, x)
    PROVE  KeptInv' /\ CardInv'
<1> USE DEF EarlyStep
<1>0. tick'[t] = x /\ \A s \in Ticks \ {t} : tick'[s] = tick[s]
    BY Turned DEF HInv
<1>1. row'.state = row.state \/ \A s \in Ticks \ {t} : tick[s].pc \notin {"card", "cap"}
    BY DEF Late, Still, Fresh, Holder, Spent
<1>2. KeptInv'
    <2>1. asked' /\ ~row'.going =>
             row'.state \in Leaving /\ \A s \in Ticks : Still(tick'[s]) \/ Leaves(tick'[s])
        BY <1>0 DEF HInv, KeptInv
    <2>2. \A s \in Ticks : tick'[s].pc = "cap" /\ row'.going /\ ~tick'[s].d.going => row'.state = "tearing_down"
        BY <1>0, <1>1 DEF HInv, KeptInv
    <2>3. \A s \in Ticks : tick'[s].pc \in {"unroute", "delete"} => tick'[s].d.state = "tearing_down" \/ tick'[s].d.going
        BY <1>0 DEF HInv, KeptInv
    <2> QED
        BY <2>1, <2>2, <2>3 DEF KeptInv
<1>3. CardInv'
    <2>1. \A s \in Ticks : tick'[s].pc = "card" => row'.state \notin {"torn_down", "failed", "orphaned"}
        BY <1>0, <1>1 DEF HInv, CardInv
    <2>2. \A s \in Ticks : tick'[s].pc \in {"delete"} \cup Tearing => ~card'.active
        BY <1>0 DEF HInv, CardInv
    <2>3. RoutedOnlyWhileServed'
        <3>1. \A s \in Ticks : Clearing(s) => Clearing(s)'
            BY <1>0 DEF Clearing
        <3>2. x.pc = "clear" => Clearing(t)'
            BY <1>0 DEF Clearing
        <3> QED
            BY <3>1, <3>2 DEF HInv, CardInv, RoutedOnlyWhileServed, Reading
    <2> QED
        BY <2>1, <2>2, <2>3 DEF CardInv
<1> QED
    BY <1>2, <1>3

\* A tick leaves the others alone: ticks that only begin, find nothing to do,
\* or end.
LEMMA Ends ==
    ASSUME HInv, NEW t \in Ticks,
           Sweep(t) \/ HandleOne(t) \/ (Read(t) /\ Turns(t, Idle)) \/ (Claim(t) /\ Turns(t, Idle) /\ row' = row)
             \/ ClearCard(t) \/ Crash(t)
    PROVE  HInv'
<1>0. TypeOK /\ (tick[t].pc = "keep" => tick[t].d.ref # NoRef)
    BY DEF HInv, StepsInv, RefInv, WithRef
<1>1. CASE Sweep(t) \/ HandleOne(t)
    <2>1. PICK x : /\ TypeOK' /\ tick[t].pc = "idle" /\ UNCHANGED <<row, card, cloud, died, asked>>
                   /\ Turns(t, x) /\ Still(x)
        BY <1>0, <1>1, Begins
    <2>2. Creating(t) = {} /\ ~Clearing(t)
        BY <2>1 DEF Creating, Clearing, At
    <2> QED
        BY <2>1, <2>2, OutKeeps
<1>2. CASE Read(t) /\ Turns(t, Idle)
    <2>1. TypeOK' /\ tick[t].pc = "listed" /\ UNCHANGED <<row, card, cloud, died, asked>>
        BY <1>0, <1>2, Reads
    <2>2. Creating(t) = {} /\ ~Clearing(t)
        BY <2>1 DEF Creating, Clearing, At
    <2> QED
        BY <1>2, <2>1, <2>2, OutKeeps, IdleIs
<1>3. CASE Claim(t) /\ Turns(t, Idle) /\ row' = row
    <2>1. TypeOK' /\ tick[t].pc = "claim" /\ UNCHANGED <<row, card, cloud, died, asked>>
        BY <1>0, <1>3, Claims
    <2>2. Creating(t) = {} /\ ~Clearing(t)
        BY <2>1 DEF Creating, Clearing, At
    <2> QED
        BY <1>3, <2>1, <2>2, OutKeeps, IdleIs
<1>4. CASE ClearCard(t)
    <2>1. /\ TypeOK' /\ UNCHANGED <<row, cloud, died, asked>> /\ Turns(t, Idle) /\ ~card'.active
          /\ tick[t].pc \in {"clear", "clear_forget"}
        BY <1>0, <1>4, ClearsCard
    <2>2. Creating(t) = {}
        BY <2>1 DEF Creating, At
    <2> QED
        BY <2>1, <2>2, OutKeeps, IdleIs
<1>5. CASE Crash(t)
    BY <1>0, <1>5, Crashes, OutKeeps, IdleIs
<1> QED
    BY <1>1, <1>2, <1>3, <1>4, <1>5

\* reconcile reads the row: alone, or while others wait for a deploy.
LEMMA EarlyReads ==
    ASSUME "overlap" \notin Faults, HInv, NEW t \in Ticks, Read(t)
    PROVE  HInv'
<1>0. TypeOK /\ StepsInv
    BY DEF HInv
<1>1. TypeOK' /\ tick[t].pc = "listed" /\ MayOverlap /\ UNCHANGED <<row, card, cloud, died, asked>>
    BY <1>0, Reads
<1>2. CASE Turns(t, Idle)
    BY <1>2, Ends
<1>3. ASSUME NEW x, Turns(t, x), x.pc = "creds", x.d = row, row.state \notin Terminal
      PROVE  HInv'
    <2>1. tick'[t] = x /\ \A s \in Ticks \ {t} : tick'[s] = tick[s]
        BY <1>0, <1>3, Turned
    <2>2. Still(tick[t]) /\ Fresh(x) /\ ~Late(x) /\ ~Holder(x) /\ x.pc \notin WithRef
        BY <1>1, <1>3 DEF Still, Fresh, Late, Holder, WithRef
    <2>3. \A s \in Ticks : \/ Still(tick[s])
                           \/ tick[s].pc \in {"creds", "claim", "deploy", "keep"} /\ row.ref = NoRef /\ ~row.going
        BY <1>1 DEF MayOverlap, Flying, Still
    <2>4. \A s \in Ticks : ~Late(tick[s])
        BY <2>3 DEF Late, Fresh, Holder
    <2>5. LateInv'
        BY <2>1, <2>2, <2>4 DEF LateInv
    <2>6. FreshInv'
        <3> SUFFICES ASSUME NEW s \in Ticks, Fresh(tick'[s])
                     PROVE  /\ tick'[s].d.ref = row.ref
                            /\ tick'[s].d.going => row.going
                            /\ tick'[s].d.state = "tearing_down" => tick'[s].d.going \/ tick'[s].d.ref # NoRef
                            /\ tick'[s].pc = "claim" => tick'[s].d.ref = NoRef
                            /\ \A u \in Ticks \ {s} : Still(tick'[u]) \/ (tick'[s].d.ref = NoRef /\ ~tick'[s].d.going)
            BY <1>1 DEF FreshInv
        <3>1. CASE s = t
            BY <1>0, <1>3, <2>1, <2>3, <3>1 DEF StepsInv, RefInv
        <3>2. CASE s # t
            <4>1. tick'[s] = tick[s] /\ Fresh(tick[s])
                BY <2>1, <3>2
            <4>2. ~Still(tick[s])
                BY <4>1 DEF Still, Fresh
            <4>3. row.ref = NoRef /\ ~row.going
                BY <2>3, <4>2
            <4> QED
                BY <1>0, <4>1, <4>3 DEF StepsInv, FreshInv
        <3> QED
            BY <3>1, <3>2
    <2>7. HolderInv'
        <3> SUFFICES ASSUME NEW s \in Ticks, Holder(tick'[s])
                     PROVE  /\ row.ref = NoRef
                            /\ \A u \in Ticks \ {s} : ~Holder(tick'[u])
                            /\ row.state = "deploying" /\ ~row.lapsed /\ tick'[s].d.state = "deploying"
            BY <1>1 DEF HolderInv
        <3>1. s # t /\ tick'[s] = tick[s] /\ Holder(tick[s])
            BY <2>1, <2>2
        <3>2. tick[s].pc \in {"deploy", "keep"} /\ ~row.going
            BY <2>3, <3>1 DEF Still, Holder
        <3>3. Watched(s)
            BY <3>2 DEF Watched
        <3> QED
            BY <1>0, <2>1, <2>2, <3>1, <3>3 DEF StepsInv, HolderInv
    <2>8. RefInv'
        BY <1>0, <1>1, <2>1, <2>2, <1>3 DEF StepsInv, RefInv
    <2>9. GoneInv' /\ EndpointAccounted'
        BY <1>1, <1>3, EarlySame DEF Tearing
    <2>10. asked /\ ~row.going => Leaves(x)
        BY <1>3 DEF HInv, KeptInv, Leaving, Leaves
    <2>11. EarlyStep(t, x)
        BY <1>1, <1>3, <2>10 DEF EarlyStep, Tearing
    <2>12. KeptInv' /\ CardInv'
        BY <2>11, EarlyRest
    <2> QED
        BY <1>1, <2>5, <2>6, <2>7, <2>8, <2>9, <2>12 DEF HInv, StepsInv
<1> QED
    BY <1>0, <1>2, <1>3, Reads

\* One alone goes on to its endpoint, or to the teardown.
LEMMA LateAlone ==
    ASSUME TypeOK, StepsInv, NEW t \in Ticks, NEW x, Turns(t, x), row' = row,
           Late(x), x.d.ref = row.ref, x.pc \in WithRef => x.d.ref # NoRef,
           \A s \in Ticks \ {t} : Still(tick[s])
    PROVE  StepsInv'
<1>1. tick'[t] = x /\ \A s \in Ticks \ {t} : tick'[s] = tick[s]
    BY Turned
<1>2. \A s \in Ticks \ {t} : Still(tick'[s])
    BY <1>1
<1>3. \A s \in Ticks \ {t} : /\ ~Late(tick'[s]) /\ ~Fresh(tick'[s]) /\ ~Holder(tick'[s])
                             /\ tick'[s].pc \notin WithRef /\ tick'[s].pc # "deploy"
    BY <1>2, Kinds
<1>4. ~Fresh(x) /\ ~Holder(x) /\ x.pc # "deploy"
    BY LateKinds
<1>5. LateInv'
    BY <1>1, <1>2, <1>3 DEF LateInv
<1>6. FreshInv' /\ HolderInv'
    BY <1>1, <1>3, <1>4 DEF FreshInv, HolderInv
<1>7. RefInv'
    BY <1>1, <1>3, <1>4 DEF StepsInv, RefInv
<1> QED
    BY <1>5, <1>6, <1>7 DEF StepsInv

LEMMA EarlyChecks ==
    ASSUME HInv, NEW t \in Ticks, Credentials(t)
    PROVE  HInv'
<1>0. TypeOK /\ StepsInv
    BY DEF HInv
<1>1. TypeOK' /\ tick[t].pc = "creds" /\ UNCHANGED <<row, card, cloud, died, asked>>
    BY <1>0, Checks
<1>2. PICK x : /\ Turns(t, x) /\ x.d = tick[t].d
               /\ x.pc = IF GoingAway(t) THEN "unroute" ELSE IF tick[t].d.ref = NoRef THEN "claim" ELSE "observe"
    BY <1>0, Checks
<1>3. Fresh(tick[t]) /\ ~Still(tick[t])
    BY <1>1 DEF Fresh, Still
<1>4. /\ tick[t].d.ref = row.ref
      /\ tick[t].d.state = "tearing_down" => tick[t].d.going \/ tick[t].d.ref # NoRef
      /\ \A s \in Ticks \ {t} : Still(tick[s]) \/ (tick[t].d.ref = NoRef /\ ~tick[t].d.going)
    BY <1>0, <1>3 DEF StepsInv, FreshInv
<1>5. StepsInv'
    <2>1. CASE GoingAway(t) \/ tick[t].d.ref # NoRef
        <3>1. \A s \in Ticks \ {t} : Still(tick[s])
            BY <1>4, <2>1 DEF GoingAway, Mine
        <3>2. x.pc \in {"unroute", "observe"} /\ (x.pc = "observe" => tick[t].d.ref # NoRef)
            BY <1>2, <2>1
        <3>3. Late(x)
            BY <3>2 DEF Late, Still, Fresh, Holder, Spent
        <3> QED
            BY <1>0, <1>1, <1>2, <1>4, <3>1, <3>2, <3>3, LateAlone DEF WithRef
    <2>2. CASE ~GoingAway(t) /\ tick[t].d.ref = NoRef
        <3>1. x.pc = "claim" /\ Fresh(x) /\ ~Late(x) /\ ~Holder(x) /\ ~Still(x)
            BY <1>2, <2>2 DEF Fresh, Late, Holder, Still
        <3>2. tick'[t] = x /\ \A s \in Ticks \ {t} : tick'[s] = tick[s]
            BY <1>0, <1>2, Turned
        <3>3. LateInv'
            BY <1>0, <1>3, <3>1, <3>2, NoneLate DEF LateInv
        <3>4. FreshInv'
            <4>1. \A s \in Ticks : Fresh(tick'[s]) => Fresh(tick[s]) /\ tick'[s].d = tick[s].d
                BY <1>2, <1>3, <3>2
            <4>2. \A s \in Ticks : Still(tick'[s]) <=> Still(tick[s])
                BY <1>3, <3>1, <3>2
            <4>3. \A s \in Ticks : tick'[s].pc = "claim" => s = t \/ tick[s].pc = "claim"
                BY <3>2
            <4> QED
                BY <1>0, <1>1, <2>2, <4>1, <4>2, <4>3 DEF StepsInv, FreshInv
        <3>5. HolderInv'
            <4>1. \A s \in Ticks : Holder(tick'[s]) => Holder(tick[s]) /\ tick'[s] = tick[s]
                BY <3>1, <3>2
            <4>2. \A s \in Ticks : Watched(s)
                BY <1>3 DEF Watched
            <4> QED
                BY <1>0, <1>1, <4>1, <4>2 DEF StepsInv, HolderInv
        <3>6. RefInv'
            BY <1>0, <1>1, <3>1, <3>2 DEF StepsInv, RefInv, WithRef
        <3> QED
            BY <3>3, <3>4, <3>5, <3>6 DEF StepsInv
    <2> QED
        BY <2>1, <2>2
<1>6. x.pc \in {"unroute", "claim", "observe"}
    BY <1>2
<1>7. GoneInv' /\ EndpointAccounted'
    BY <1>1, <1>2, <1>6, EarlySame DEF Tearing
<1>8. asked /\ ~row.going => Leaves(x)
    <2> SUFFICES ASSUME asked, ~row.going PROVE Leaves(x)
        OBVIOUS
    <2>1. Leaves(tick[t])
        BY <1>3 DEF HInv, KeptInv
    <2>2. GoingAway(t)
        BY <1>1, <2>1 DEF Leaves, Spent, Tearing, GoingAway, Mine
    <2> QED
        BY <1>2, <2>2 DEF Leaves
<1>9. x.pc = "unroute" => x.d.state = "tearing_down" \/ x.d.going
    BY <1>2 DEF GoingAway, Mine
<1>10. EarlyStep(t, x)
    BY <1>1, <1>2, <1>6, <1>8, <1>9 DEF EarlyStep, Tearing
<1> QED
    BY <1>1, <1>5, <1>7, <1>10, EarlyRest DEF HInv

\* The credential is refused, of one tick alone.
LEMMA EarlyRefused ==
    ASSUME "overlap" \notin Faults, HInv, NEW t \in Ticks, Refused(t)
    PROVE  HInv'
<1>0. TypeOK /\ StepsInv
    BY DEF HInv
<1>1. TypeOK' /\ UNCHANGED <<row, card, cloud, died, asked>> /\ tick[t].pc = "creds" /\ Flying = {t}
    BY <1>0, Errs DEF Refused, At
<1>2. PICK x : Turns(t, x) /\ x.d = tick[t].d /\ x.pc = "error"
    BY <1>0, Errs
<1>3. Fresh(tick[t]) /\ ~Still(tick[t])
    BY <1>1 DEF Fresh, Still
<1>4. tick[t].d.ref = row.ref
    BY <1>0, <1>3 DEF StepsInv, FreshInv
<1>5. \A s \in Ticks \ {t} : Still(tick[s])
    BY <1>1 DEF Flying, Still
<1>6. StepsInv'
    <2>1. CASE tick[t].d.ref # NoRef
        <3>1. Late(x)
            BY <1>2, <2>1, HasRef DEF Pc
        <3> QED
            BY <1>0, <1>1, <1>2, <1>4, <1>5, <3>1, LateAlone DEF WithRef
    <2>2. CASE tick[t].d.ref = NoRef
        <3>1. tick'[t] = x /\ \A s \in Ticks \ {t} : tick'[s] = tick[s]
            BY <1>0, <1>2, Turned
        <3>2. Holder(x) /\ ~Fresh(x) /\ ~Late(x)
            BY <1>2, <2>2 DEF Holder, Fresh, Late
        <3>3. \A s \in Ticks \ {t} : /\ ~Late(tick'[s]) /\ ~Fresh(tick'[s]) /\ ~Holder(tick'[s])
                                     /\ tick'[s].pc \notin WithRef /\ tick'[s].pc # "deploy"
            BY <1>5, <3>1, Kinds
        <3>4. LateInv' /\ FreshInv'
            BY <3>1, <3>2, <3>3 DEF LateInv, FreshInv
        <3>5. HolderInv'
            <4>1. ~Watched(t)'
                BY <1>2, <3>1, <3>2, <3>3 DEF Watched
            <4> QED
                BY <1>1, <1>4, <2>2, <3>1, <3>3, <4>1 DEF HolderInv
        <3>6. RefInv'
            BY <1>0, <1>1, <1>2, <3>1, <3>3 DEF StepsInv, RefInv, WithRef
        <3> QED
            BY <3>4, <3>5, <3>6 DEF StepsInv
    <2> QED
        BY <2>1, <2>2
<1>7. GoneInv' /\ EndpointAccounted'
    BY <1>1, <1>2, EarlySame DEF Tearing
<1>8. asked /\ ~row.going => Leaves(x)
    <2> SUFFICES ASSUME asked, ~row.going PROVE Leaves(x)
        OBVIOUS
    <2>1. Leaves(tick[t])
        BY <1>3 DEF HInv, KeptInv
    <2> QED
        BY <1>1, <1>2, <2>1 DEF Leaves, Spent, Tearing
<1>9. EarlyStep(t, x)
    BY <1>1, <1>2, <1>8 DEF EarlyStep, Tearing
<1> QED
    BY <1>1, <1>6, <1>7, <1>9, EarlyRest DEF HInv

\* The claim: nobody holds the deploy when it is taken.
LEMMA EarlyClaims ==
    ASSUME HInv, NEW t \in Ticks, Claim(t)
    PROVE  HInv'
<1>0. TypeOK /\ StepsInv
    BY DEF HInv
<1>1. TypeOK' /\ UNCHANGED <<card, cloud, died, asked>> /\ tick[t].pc = "claim"
    BY <1>0, Claims
<1>2. CASE Turns(t, Idle) /\ row' = row
    BY <1>2, Ends
<1>3. ASSUME row.state # "deploying" \/ row.lapsed,
             row'.state = "deploying", ~row'.lapsed, row'.ref = row.ref, row'.going = row.going,
             NEW x, Turns(t, x), x.pc = "deploy", x.d.ref = tick[t].d.ref,
             x.d.state = "deploying", x.d.going = tick[t].d.going
      PROVE  HInv'
    <2>1. tick'[t] = x /\ \A s \in Ticks \ {t} : tick'[s] = tick[s]
        BY <1>0, <1>3, Turned
    <2>2. Fresh(tick[t]) /\ ~Still(tick[t]) /\ Holder(x) /\ ~Fresh(x) /\ ~Late(x) /\ ~Still(x)
        BY <1>1, <1>3 DEF Fresh, Still, Holder, Late
    <2>3. tick[t].d.ref = row.ref /\ row.ref = NoRef
        BY <1>0, <1>1, <2>2 DEF StepsInv, FreshInv
    <2>4. \A s \in Ticks : ~Holder(tick[s])
        <3> SUFFICES ASSUME NEW s \in Ticks, Holder(tick[s]) PROVE FALSE
            OBVIOUS
        <3>1. Watched(s)
            BY <2>2 DEF Watched
        <3> QED
            BY <1>0, <1>3, <3>1 DEF StepsInv, HolderInv
    <2>5. \A s \in Ticks : ~Late(tick[s])
        BY <1>0, <2>2, NoneLate
    <2>6. LateInv'
        BY <2>1, <2>2, <2>5 DEF LateInv
    <2>7. FreshInv'
        <3>1. \A s \in Ticks : Fresh(tick'[s]) => Fresh(tick[s]) /\ tick'[s] = tick[s]
            BY <2>1, <2>2
        <3>2. \A s \in Ticks : Still(tick'[s]) <=> Still(tick[s])
            BY <2>1, <2>2
        <3> QED
            BY <1>0, <1>3, <3>1, <3>2 DEF StepsInv, FreshInv
    <2>8. HolderInv'
        <3>1. \A s \in Ticks : Holder(tick'[s]) => s = t
            BY <2>1, <2>4
        <3> QED
            BY <1>3, <2>1, <2>3, <3>1 DEF HolderInv
    <2>9. RefInv'
        BY <1>0, <1>3, <2>1, <2>3 DEF StepsInv, RefInv, WithRef
    <2>10. GoneInv' /\ EndpointAccounted'
        BY <1>1, <1>3, EarlySame DEF Tearing
    <2>11. ~(asked /\ ~row.going)
        BY <1>1, <2>2 DEF HInv, KeptInv, Leaves, Spent, Tearing
    <2>12. EarlyStep(t, x)
        BY <1>1, <1>3, <2>5, <2>11 DEF EarlyStep, Tearing, Reading
    <2> QED
        BY <1>1, <2>6, <2>7, <2>8, <2>9, <2>10, <2>12, EarlyRest DEF HInv, StepsInv
<1> QED
    BY <1>0, <1>2, <1>3, Claims

\* The holder goes on, and the row stays as it is.
LEMMA HolderSteps ==
    ASSUME TypeOK, StepsInv, NEW t \in Ticks, NEW x, Turns(t, x), row' = row, Holder(tick[t]), Holder(x),
           x.d.state = tick[t].d.state, x.pc \in {"deploy", "keep"} => tick[t].pc \in {"deploy", "keep"},
           x.pc \in WithRef => x.d.ref # NoRef, x.pc # "deploy"
    PROVE  StepsInv'
<1>1. tick'[t] = x /\ \A s \in Ticks \ {t} : tick'[s] = tick[s]
    BY Turned
<1>2. ~Late(x) /\ ~Fresh(x) /\ ~Still(x) /\ ~Still(tick[t]) /\ ~Fresh(tick[t])
    BY DEF Late, Fresh, Still, Holder
<1>3. \A s \in Ticks : ~Late(tick[s])
    BY NoneLate
<1>4. LateInv'
    BY <1>1, <1>2, <1>3 DEF LateInv
<1>5. FreshInv'
    <2>1. \A s \in Ticks : Fresh(tick'[s]) => Fresh(tick[s]) /\ tick'[s] = tick[s]
        BY <1>1, <1>2
    <2>2. \A s \in Ticks : Still(tick'[s]) <=> Still(tick[s])
        BY <1>1, <1>2
    <2> QED
        BY <2>1, <2>2 DEF StepsInv, FreshInv
<1>6. HolderInv'
    <2>1. \A s \in Ticks : Holder(tick'[s]) => s = t
        BY <1>1 DEF StepsInv, HolderInv
    <2>2. Watched(t)' => Watched(t)
        BY <1>1, <1>2 DEF Watched
    <2>3. row.ref = NoRef /\ (Watched(t) => row.state = "deploying" /\ ~row.lapsed /\ tick[t].d.state = "deploying")
        BY DEF StepsInv, HolderInv
    <2> QED
        BY <1>1, <2>1, <2>2, <2>3 DEF HolderInv
<1>7. RefInv'
    BY <1>1 DEF StepsInv, RefInv
<1> QED
    BY <1>4, <1>5, <1>6, <1>7 DEF StepsInv

LEMMA EarlyDeploys ==
    ASSUME HInv, NEW t \in Ticks, Deploy(t)
    PROVE  HInv'
<1>0. TypeOK /\ StepsInv
    BY DEF HInv
<1>1. TypeOK' /\ UNCHANGED <<row, card, died, asked>> /\ tick[t].pc = "deploy"
    BY <1>0, Deploys
<1>2. PICK e \in Endpoints :
        /\ cloud[e].st = "none" /\ \A f \in Endpoints \ {e} : cloud'[f] = cloud[f]
        /\ \E x : /\ Turns(t, x) /\ x.pc = "keep" /\ x.d.ref = e /\ x.d.state = tick[t].d.state
                  /\ x.d.going = tick[t].d.going
    BY <1>0, Deploys
<1>3. PICK x : Turns(t, x) /\ x.pc = "keep" /\ x.d.ref = e /\ x.d.state = tick[t].d.state
    BY <1>2
<1>4. Holder(tick[t]) /\ Holder(x) /\ ~Still(tick[t])
    BY <1>1, <1>3 DEF Holder, Still
<1>5. StepsInv'
    BY <1>0, <1>1, <1>3, <1>4, HolderSteps, Constants
<1>6. tick'[t] = x /\ \A s \in Ticks \ {t} : tick'[s] = tick[s]
    BY <1>0, <1>3, Turned
<1>7. GoneInv'
    <2> SUFFICES ASSUME NEW s \in Ticks, tick'[s].pc \in Tearing, tick'[s].d.ref # NoRef
                 PROVE  cloud'[tick'[s].d.ref].st = "gone"
        BY DEF GoneInv
    <2>1. s # t /\ tick'[s] = tick[s]
        BY <1>3, <1>6 DEF Tearing
    <2>2. Late(tick[s])
        BY <2>1 DEF Late, Still, Fresh, Holder, Spent, Tearing
    <2> QED
        BY <1>0, <1>4, <2>2, NoneLate
<1>8. EndpointAccounted'
    <2> SUFFICES ASSUME NEW f \in Endpoints, Billed(f)'
                 PROVE  row'.ref = f \/ f \in died'.lost \/ \E s \in Ticks : f \in Creating(s)'
        BY DEF EndpointAccounted
    <2>1. CASE f = e
        <3>1. f \in Creating(t)'
            BY <1>3, <1>6, <2>1 DEF Creating, At, Mine
        <3> QED
            BY <3>1
    <2>2. CASE f # e
        <3>1. row.ref = f \/ f \in died.lost \/ \E s \in Ticks : f \in Creating(s)
            BY <1>2, <2>2 DEF HInv, EndpointAccounted, Billed
        <3>2. \A s \in Ticks \ {t} : Creating(s)' = Creating(s)
            BY <1>6 DEF Creating, At, Mine
        <3>3. Creating(t) = {}
            BY <1>1 DEF Creating, At
        <3> QED
            BY <1>1, <3>1, <3>2, <3>3
    <2> QED
        BY <2>1, <2>2
<1>9. ~(asked /\ ~row.going)
    BY <1>1, <1>4 DEF HInv, KeptInv, Leaves, Spent, Tearing
<1>10. EarlyStep(t, x)
    BY <1>1, <1>3, <1>9 DEF EarlyStep, Tearing
<1> QED
    BY <1>1, <1>5, <1>7, <1>8, <1>10, EarlyRest DEF HInv

\* The endpoint is recorded: no other tick holds one.
LEMMA EarlyKeeps ==
    ASSUME "slow" \notin Faults, HInv, NEW t \in Ticks, KeepRef(t)
    PROVE  HInv'
<1>0. TypeOK /\ StepsInv
    BY DEF HInv
<1>1. /\ TypeOK' /\ UNCHANGED <<card, cloud, died, asked>> /\ tick[t].pc = "keep"
      /\ \A s \in Ticks : tick[s].pc \notin {"creds", "claim"}
      /\ row'.ref = tick[t].d.ref /\ row'.state = row.state /\ row'.going = row.going
    BY <1>0, KeepsRef
<1>2. PICK x : Turns(t, x) /\ x.pc = "observe" /\ x.d = tick[t].d
    BY <1>0, KeepsRef
<1>3. Holder(tick[t]) /\ ~Still(tick[t]) /\ tick[t].d.ref # NoRef
    BY <1>0, <1>1 DEF Holder, Still, StepsInv, RefInv, WithRef
<1>4. row.ref = NoRef /\ \A s \in Ticks \ {t} : ~Holder(tick[s])
    BY <1>0, <1>3 DEF StepsInv, HolderInv
<1>5. \A s \in Ticks \ {t} : Still(tick[s]) \/ Spent(tick[s])
    <2>1. \A s \in Ticks : ~Fresh(tick[s]) /\ ~Late(tick[s])
        BY <1>0, <1>1, <1>3, NoneLate DEF Fresh
    <2> QED
        BY <1>4, <2>1, OneKind
<1>6. tick'[t] = x /\ \A s \in Ticks \ {t} : tick'[s] = tick[s]
    BY <1>0, <1>2, Turned
<1>7. StepsInv'
    <2>1. \A s \in Ticks \ {t} : /\ ~Late(tick'[s]) /\ ~Fresh(tick'[s]) /\ ~Holder(tick'[s])
                                 /\ tick'[s].pc \notin WithRef /\ tick'[s].pc # "deploy"
        BY <1>5, <1>6, Kinds
    <2>2. Late(x) /\ ~Fresh(x) /\ ~Holder(x) /\ x.pc # "deploy"
        BY <1>2 DEF Late, Still, Fresh, Holder, Spent
    <2>3. LateInv'
        BY <1>1, <1>2, <1>5, <1>6, <2>1 DEF LateInv
    <2>4. FreshInv' /\ HolderInv'
        BY <1>6, <2>1, <2>2 DEF FreshInv, HolderInv
    <2>5. RefInv'
        BY <1>1, <1>2, <1>3, <1>6, <2>1, <2>2 DEF RefInv
    <2> QED
        BY <2>3, <2>4, <2>5 DEF StepsInv
<1>8. GoneInv'
    BY <1>1, <1>2, <1>6 DEF HInv, GoneInv, Tearing
<1>9. EndpointAccounted'
    <2> SUFFICES ASSUME NEW f \in Endpoints, Billed(f)'
                 PROVE  row'.ref = f \/ f \in died'.lost \/ \E s \in Ticks : f \in Creating(s)'
        BY DEF EndpointAccounted
    <2>1. row.ref = f \/ f \in died.lost \/ \E s \in Ticks : f \in Creating(s)
        BY <1>1 DEF HInv, EndpointAccounted, Billed
    <2>2. \A s \in Ticks \ {t} : Creating(s)' = Creating(s)
        BY <1>6 DEF Creating, At, Mine
    <2>3. Creating(t) = {row'.ref}
        BY <1>1 DEF Creating, At, Mine
    <2> QED
        BY <1>1, <1>4, <2>1, <2>2, <2>3, Constants
<1>10. ~(asked /\ ~row.going)
    BY <1>1, <1>3 DEF HInv, KeptInv, Leaves, Spent, Tearing
<1>11. EarlyStep(t, x)
    BY <1>1, <1>2, <1>10 DEF EarlyStep, Tearing
<1> QED
    BY <1>1, <1>7, <1>8, <1>9, <1>11, EarlyRest DEF HInv

\* The deploy throws, and the failure is recorded with no endpoint.
LEMMA EarlyErrs ==
    ASSUME HInv, NEW t \in Ticks, (Throws(t) /\ tick[t].pc = "deploy") \/ RecordError(t) \/ Fail(t), Holder(tick[t])
    PROVE  HInv'
<1>0. TypeOK /\ StepsInv /\ ~Still(tick[t]) /\ ~Fresh(tick[t])
    BY DEF HInv, Holder, Still, Fresh
<1>a. row.ref = NoRef /\ \A s \in Ticks \ {t} : ~Holder(tick[s])
    BY <1>0 DEF StepsInv, HolderInv
<1>b. \A s \in Ticks : ~Late(tick[s])
    BY <1>0, NoneLate
<1>c. tick[t].pc # "keep" /\ tick[t].pc \notin {"clear", "clear_forget"} /\ tick[t].d.ref = NoRef
    BY <1>0 DEF RecordError, Fail, At, Holder, StepsInv, RefInv
<1>1. CASE Throws(t) /\ tick[t].pc = "deploy"
    <2>1. TypeOK' /\ UNCHANGED <<row, card, cloud, died, asked>>
        BY <1>0, <1>1, Errs
    <2>2. PICK x : Turns(t, x) /\ x.d = tick[t].d /\ x.pc = "error"
        BY <1>0, <1>1, Errs
    <2>3. Holder(x)
        BY <1>c, <2>2 DEF Holder
    <2>4. StepsInv'
        BY <1>0, <1>1, <2>1, <2>2, <2>3, HolderSteps DEF WithRef
    <2>5. GoneInv' /\ EndpointAccounted'
        BY <1>c, <2>1, <2>2, EarlySame DEF Tearing
    <2>6. ~(asked /\ ~row.going)
        BY <1>0, <1>1 DEF HInv, KeptInv, Leaves, Spent, Tearing
    <2>7. EarlyStep(t, x)
        BY <1>c, <2>1, <2>2, <2>6 DEF EarlyStep, Tearing
    <2> QED
        BY <2>1, <2>4, <2>5, <2>7, EarlyRest DEF HInv
<1>2. CASE RecordError(t) /\ ~GoingAway(t)
    <2>1. TypeOK' /\ UNCHANGED <<row, card, cloud, died, asked>> /\ tick[t].pc = "error"
        BY <1>0, <1>c, <1>2, RecordsError
    <2>2. PICK x : Turns(t, x) /\ x.d = tick[t].d /\ x.pc = "fail"
        BY <1>0, <1>c, <1>2, RecordsError
    <2>3. Holder(x)
        BY <1>c, <2>2 DEF Holder
    <2>4. StepsInv'
        BY <1>0, <2>1, <2>2, <2>3, HolderSteps DEF WithRef
    <2>5. GoneInv' /\ EndpointAccounted'
        BY <1>c, <2>1, <2>2, EarlySame DEF Tearing
    <2>6. ~(asked /\ ~row.going)
        BY <1>0, <1>c, <1>2, <2>1 DEF HInv, KeptInv, Leaves, Spent, Tearing, GoingAway, Mine
    <2>7. EarlyStep(t, x)
        BY <1>c, <2>1, <2>2, <2>6 DEF EarlyStep, Tearing
    <2> QED
        BY <2>1, <2>4, <2>5, <2>7, EarlyRest DEF HInv
<1>3. ASSUME TypeOK', UNCHANGED <<card, cloud, died, asked>>, row'.ref = row.ref, row'.going = row.going,
             NEW x, Turns(t, x),
             \/ x = Idle /\ row'.state = row.state
             \/ x.pc = "clear" /\ x.d = tick[t].d /\ row'.state = "failed" /\ tick[t].pc = "fail"
      PROVE  HInv'
    <2>1. tick'[t] = x /\ \A s \in Ticks \ {t} : tick'[s] = tick[s]
        BY <1>0, <1>3, Turned
    <2>2. Still(x) \/ Spent(x)
        BY <1>3, <1>c, IdleIs DEF Spent
    <2>3. ~Late(x) /\ ~Fresh(x) /\ ~Holder(x) /\ x.pc \notin WithRef /\ x.pc # "deploy" /\ x.pc \notin Tearing
          /\ x.pc # "cap" /\ x.pc # "card" /\ x.pc # "delete" /\ x.pc # "unroute"
        BY <2>2, Kinds
    <2>4. LateInv'
        BY <1>b, <2>1, <2>3 DEF LateInv
    <2>5. FreshInv'
        <3>1. \A s \in Ticks : Fresh(tick'[s]) => Fresh(tick[s]) /\ tick'[s] = tick[s]
            BY <2>1, <2>3
        <3>2. \A s \in Ticks : Still(tick[s]) => Still(tick'[s])
            BY <1>0, <2>1
        <3> QED
            BY <1>0, <1>3, <3>1, <3>2 DEF StepsInv, FreshInv
    <2>6. HolderInv'
        BY <1>a, <2>1, <2>3 DEF HolderInv
    <2>7. RefInv'
        BY <1>0, <1>3, <2>1, <2>3 DEF StepsInv, RefInv
    <2>8. GoneInv' /\ EndpointAccounted'
        BY <1>c, <1>3, <2>3, EarlySame
    <2>9. asked /\ ~row.going => row'.state = row.state /\ (Still(x) \/ Leaves(x))
        BY <1>0, <1>3, <2>2 DEF HInv, KeptInv, Leaves, Spent, Tearing
    <2>10. EarlyStep(t, x)
        BY <1>b, <1>c, <1>3, <2>3, <2>9 DEF EarlyStep
    <2> QED
        BY <1>3, <2>4, <2>5, <2>6, <2>7, <2>8, <2>10, EarlyRest DEF HInv, StepsInv
<1>4. CASE RecordError(t) /\ GoingAway(t)
    BY <1>0, <1>3, <1>4, RecordsError
<1>5. CASE Fail(t)
    BY <1>0, <1>3, <1>5, Fails
<1> QED
    BY <1>1, <1>2, <1>4, <1>5

-----------------------------------------------------------------------------
(* What is not a tick's step                                               *)

LEMMA FlyingTicks ==
    ASSUME NEW t \in Ticks, Fresh(tick[t]) \/ Holder(tick[t])
    PROVE  t \in Flying
BY DEF Flying, Fresh, Holder

\* The row's endpoint and the ticks stay as they are.
LEMMA AsideKeeps ==
    ASSUME HInv, UNCHANGED <<tick, card, died>>, row'.ref = row.ref,
           \A e \in Endpoints : /\ cloud[e].st = "gone" => cloud'[e].st = "gone"
                                /\ cloud'[e].st \in {"starting", "up"} => cloud[e].st \in {"starting", "up"},
           \/ /\ row'.going = row.going /\ asked' = asked
              /\ row'.state = row.state \/ (row'.state \in Serving /\ row.state \in Serving \cup {"failed"})
           \/ row'.state = "tearing_down" /\ row'.going = TRUE
    PROVE  GoneInv' /\ EndpointAccounted' /\ KeptInv' /\ CardInv'
<1>1. GoneInv'
    <2>1. \A t \in Ticks : tick[t].d.ref \in Endpoints \cup {NoRef}
        BY TickFields, RowFields DEF HInv, TypeOK
    <2> QED
        BY <2>1 DEF HInv, GoneInv
<1>2. EndpointAccounted'
    <2>1. \A e \in Endpoints : Billed(e)' => Billed(e)
        BY DEF Billed
    <2>2. \A t \in Ticks : Creating(t)' = Creating(t)
        BY DEF Creating, At, Mine
    <2> QED
        BY <2>1, <2>2 DEF HInv, EndpointAccounted
<1>3. KeptInv'
    BY DEF HInv, KeptInv, Serving, Leaving, Terminal
<1>4. CardInv'
    BY DEF HInv, CardInv, RoutedOnlyWhileServed, Clearing, Serving
<1> QED
    BY <1>1, <1>2, <1>3, <1>4

\* A teardown is asked for while no tick that could still claim meets a holder.
LEMMA PeopleKeep ==
    ASSUME "overlap" \notin Faults, "stale" \notin Faults, HInv, People
    PROVE  HInv'
<1>0. TypeOK /\ StepsInv
    BY DEF HInv
<1>1. /\ TypeOK' /\ UNCHANGED <<card, cloud, tick, died>> /\ row'.ref = row.ref
      /\ \/ /\ row'.going = row.going /\ asked' = asked
            /\ \/ row'.state = row.state /\ row'.lapsed = row.lapsed
               \/ row.ref # NoRef /\ row'.state \in Serving /\ row.state \in Serving \cup {"failed"}
         \/ /\ row'.state = "tearing_down" /\ row'.going = TRUE /\ asked' = TRUE
            /\ \A s, t \in Flying : s = t
    BY <1>0, Asks
<1>2. GoneInv' /\ EndpointAccounted' /\ KeptInv' /\ CardInv'
    BY <1>1, AsideKeeps
<1>3. StepsInv'
    <2>1. CASE /\ row'.going = row.going
               /\ \/ row'.state = row.state /\ row'.lapsed = row.lapsed
                  \/ row.ref # NoRef /\ row'.state \in Serving /\ row.state \in Serving \cup {"failed"}
        <3>1. row'.state = "tearing_down" /\ ~row'.going => row'.ref # NoRef
            BY <1>0, <1>1, <2>1 DEF StepsInv, RefInv
        <3>2. \A t \in Ticks : Holder(tick[t]) => row'.state = row.state /\ row'.lapsed = row.lapsed
            BY <1>0, <2>1 DEF StepsInv, HolderInv
        <3> QED
            BY <1>0, <1>1, <2>1, <3>1, <3>2, RowSteps
    <2>2. CASE row'.state = "tearing_down" /\ row'.going = TRUE /\ \A s, t \in Flying : s = t
        <3>1. ASSUME NEW t \in Ticks, Holder(tick[t]), Watched(t)'
              PROVE  FALSE
            <4>1. PICK s \in Ticks : Fresh(tick[s])
                BY <1>1, <2>2, <3>1 DEF Watched
            <4>2. s = t
                BY <2>2, <3>1, <4>1, FlyingTicks
            <4> QED
                BY <3>1, <4>1, <4>2 DEF Fresh, Holder
        <3> QED
            BY <1>0, <1>1, <2>2, <3>1, RowSteps
    <2> QED
        BY <1>1, <2>1, <2>2
<1> QED
    BY <1>1, <1>2, <1>3 DEF HInv

\* A claim does not lapse under the tick that holds it.
LEMMA TimeKeeps ==
    ASSUME HInv, ClaimLapses \/ GraceEnds
    PROVE  HInv'
<1>0. TypeOK /\ StepsInv
    BY DEF HInv
<1>1. /\ TypeOK' /\ UNCHANGED <<card, cloud, tick, died, asked>>
      /\ row'.ref = row.ref /\ row'.state = row.state /\ row'.going = row.going
      /\ row'.lapsed = row.lapsed \/ \A t \in Flying : tick[t].d.state # "deploying"
    BY <1>0, Passes
<1>2. GoneInv' /\ EndpointAccounted' /\ KeptInv' /\ CardInv'
    BY <1>1, AsideKeeps
<1>3. ASSUME NEW t \in Ticks, Holder(tick[t]), Watched(t)
      PROVE  row'.lapsed = row.lapsed
    <2>1. tick[t].d.state = "deploying"
        BY <1>0, <1>3 DEF StepsInv, HolderInv
    <2> QED
        BY <1>1, <1>3, <2>1, FlyingTicks
<1>4. row'.state = "tearing_down" /\ ~row'.going => row'.ref # NoRef
    BY <1>0, <1>1 DEF StepsInv, RefInv
<1>5. StepsInv'
    BY <1>0, <1>1, <1>3, <1>4, RowSteps
<1> QED
    BY <1>1, <1>2, <1>5 DEF HInv

LEMMA ProviderKeeps ==
    ASSUME HInv, Provider
    PROVE  HInv'
<1>0. TypeOK /\ StepsInv
    BY DEF HInv
<1>1. /\ TypeOK' /\ UNCHANGED <<row, card, tick, died, asked>>
      /\ \A e \in Endpoints : /\ cloud[e].st = "gone" => cloud'[e].st = "gone"
                              /\ cloud'[e].st \in {"starting", "up"} => cloud[e].st \in {"starting", "up"}
    BY <1>0, Provides
<1>2. GoneInv' /\ EndpointAccounted' /\ KeptInv' /\ CardInv'
    BY <1>1, AsideKeeps
<1>3. row'.state = "tearing_down" /\ ~row'.going => row'.ref # NoRef
    BY <1>0, <1>1 DEF StepsInv, RefInv
<1>4. StepsInv'
    BY <1>0, <1>1, <1>3, RowSteps
<1> QED
    BY <1>1, <1>2, <1>4 DEF HInv

-----------------------------------------------------------------------------
(* The theorems                                                            *)

LEMMA TypeInit == Init => TypeOK
<1> SUFFICES ASSUME Init PROVE TypeOK
    OBVIOUS
<1>1. row \in Row /\ tick \in [Ticks -> Tick]
    BY IdleTick DEF Init
<1>2. cloud \in [Endpoints -> Endpoint]
    BY DEF Init, Endpoint
<1>3. card \in Card /\ died \in [lost : SUBSET Endpoints, lit : BOOLEAN]
    BY DEF Init, Card
<1>4. requests \in [Requests -> Request] /\ faults \in 0..MaxFaults
    BY IdleTick, Constants DEF Init, NewRequest, Request
<1> QED
    BY <1>1, <1>2, <1>3, <1>4 DEF Init, TypeOK

LEMMA HInvInit == Init => HInv
<1> SUFFICES ASSUME Init PROVE HInv
    OBVIOUS
<1>1. TypeOK
    BY TypeInit
<1>2. \A t \in Ticks : tick[t] = Idle
    BY DEF Init
<1>3. \A t \in Ticks : /\ ~Late(tick[t]) /\ ~Fresh(tick[t]) /\ ~Holder(tick[t]) /\ tick[t].pc \notin WithRef
                       /\ tick[t].pc # "deploy" /\ tick[t].pc \notin Tearing /\ tick[t].pc = "idle"
    BY <1>2, IdleTick, Kinds
<1>4. row.state = "pending" /\ row.going = FALSE /\ asked = FALSE /\ ~card.active
    BY DEF Init, NewRow
<1>5. StepsInv
    BY <1>3, <1>4 DEF StepsInv, LateInv, FreshInv, HolderInv, RefInv
<1>6. GoneInv
    BY <1>3 DEF GoneInv
<1>7. EndpointAccounted
    BY DEF Init, EndpointAccounted, Billed
<1>8. KeptInv
    BY <1>3, <1>4 DEF KeptInv
<1>9. CardInv
    BY <1>3, <1>4 DEF CardInv, RoutedOnlyWhileServed
<1> QED
    BY <1>1, <1>5, <1>6, <1>7, <1>8, <1>9 DEF HInv

LEMMA HInvNext ==
    ASSUME "overlap" \notin Faults, "slow" \notin Faults, "stale" \notin Faults, HInv, [Next]_vars
    PROVE  HInv'
<1>0. TypeOK
    BY DEF HInv
<1>1. ASSUME NEW t \in Ticks, TickStep(t) \/ Refused(t) \/ Throws(t) \/ Crash(t)
      PROVE  HInv'
    <2>1. CASE Sweep(t) \/ HandleOne(t) \/ ClearCard(t) \/ Crash(t)
        BY <2>1, Ends
    <2>2. CASE Read(t)
        BY <2>2, EarlyReads
    <2>3. CASE Credentials(t)
        BY <2>3, EarlyChecks
    <2>4. CASE Refused(t)
        BY <2>4, EarlyRefused
    <2>5. CASE Claim(t)
        BY <2>5, EarlyClaims
    <2>6. CASE Deploy(t)
        BY <2>6, EarlyDeploys
    <2>7. CASE KeepRef(t)
        BY <2>7, EarlyKeeps
    <2>8. CASE Throws(t)
        BY <2>8, LateErrs, EarlyErrs DEF Holder
    <2>9. CASE RecordError(t) \/ Fail(t)
        <3>1. tick[t].pc \in {"error", "fail"}
            BY <2>9 DEF RecordError, Fail, At
        <3>2. Holder(tick[t]) \/ Late(tick[t])
            BY <3>1 DEF Holder, Late, Still, Fresh, Spent
        <3> QED
            BY <2>9, <3>2, EarlyErrs, LateRecords
    <2>10. CASE Unroute(t) \/ Delete(t) \/ Forget(t) \/ MergeTorn(t)
        BY <2>10, LateTearsDown
    <2>11. CASE TornDown(t)
        BY <2>11, LateTorn
    <2>12. CASE Observe(t) \/ Orphan(t)
        BY <2>12, LateObserves
    <2>13. CASE ScaleTo(t) \/ StopSpending(t) \/ KeepScaled(t)
        BY <2>13, LateScales
    <2>14. CASE ClaimReady(t) \/ Transition(t) \/ Charge(t)
        BY <2>14, LateTransits
    <2>15. CASE SetCard(t)
        BY <2>15, LateSetsCard
    <2>16. CASE MergeCap(t) \/ Cap(t)
        BY <2>16, LateCaps
    <2> QED
        BY <1>1, <2>1, <2>2, <2>3, <2>4, <2>5, <2>6, <2>7, <2>8, <2>9, <2>10, <2>11, <2>12, <2>13, <2>14, <2>15, <2>16
           DEF TickStep
<1>2. CASE People
    BY <1>2, PeopleKeep
<1>3. CASE Provider
    BY <1>3, ProviderKeeps
<1>4. CASE ClaimLapses \/ GraceEnds
    BY <1>4, TimeKeeps
<1>5. CASE UNCHANGED vars
    <2>1. UNCHANGED <<row, card, cloud, over, job, tick, requests, faults, died, asked>>
        BY <1>5 DEF vars
    <2>2. TypeOK'
        BY <1>0, <2>1 DEF TypeOK
    <2>3. row'.state = "tearing_down" /\ ~row'.going => row'.ref # NoRef
        BY <2>1 DEF HInv, StepsInv, RefInv
    <2>4. StepsInv'
        BY <2>1, <2>3, RowSteps DEF HInv
    <2> QED
        BY <2>1, <2>2, <2>4, AsideKeeps DEF HInv
<1> QED
    BY <1>1, <1>2, <1>3, <1>4, <1>5 DEF Next

LEMMA AlwaysHInv ==
    ASSUME "overlap" \notin Faults, "slow" \notin Faults, "stale" \notin Faults
    PROVE  Spec => []HInv
<1>1. HInv /\ [Next]_vars => HInv'
    BY HInvNext
<1> QED
    BY <1>1, HInvInit, PTL DEF Spec

\* Of types alone no more is needed than that a tick records a real endpoint.
Records(x) == x.pc = "keep" => x.d.ref # NoRef
TInv == TypeOK /\ \A t \in Ticks : Records(tick[t])

LEMMA TurnsRecords ==
    ASSUME TInv, TypeOK', NEW t \in Ticks, NEW x, Turns(t, x), Records(x)
    PROVE  TInv'
BY Turned DEF TInv

LEMMA ReturnsRecords ==
    ASSUME TInv, TypeOK', NEW t \in Ticks, Turns(t, Idle)
    PROVE  TInv'
BY TurnsRecords, IdleTick DEF Records

LEMMA TInvTick ==
    ASSUME TInv, NEW t \in Ticks, TickStep(t) \/ Refused(t) \/ Throws(t) \/ Crash(t)
    PROVE  TInv'
<1>0. TypeOK
    BY DEF TInv
<1> USE <1>0
<1>1. CASE Sweep(t) \/ HandleOne(t)
    BY <1>1, Begins, TurnsRecords DEF Still, Records
<1>2. CASE Read(t)
    BY <1>2, Reads, TurnsRecords, ReturnsRecords DEF Records
<1>3. CASE Credentials(t)
    BY <1>3, Checks, TurnsRecords DEF Records
<1>4. CASE Refused(t) \/ Throws(t)
    BY <1>4, Errs, TurnsRecords DEF Records
<1>5. CASE Unroute(t) \/ Delete(t) \/ Forget(t)
    BY <1>5, TearsDown, TurnsRecords DEF Records
<1>6. CASE MergeTorn(t) \/ MergeCap(t)
    BY <1>6, Merges, TurnsRecords DEF Records
<1>7. CASE TornDown(t) \/ Cap(t)
    BY <1>7, TornsAndCaps, ReturnsRecords
<1>8. CASE Claim(t)
    BY <1>8, Claims, TurnsRecords, ReturnsRecords DEF Records
<1>9. CASE Deploy(t)
    BY <1>9, Deploys, TurnsRecords, Constants DEF Records
<1>10. CASE KeepRef(t)
    BY <1>10, KeepsRef, TurnsRecords DEF Records
<1>11. CASE Observe(t)
    BY <1>11, Observes, TurnsRecords DEF Records
<1>12. CASE Orphan(t)
    BY <1>12, Orphans, TurnsRecords, ReturnsRecords DEF Records
<1>13. CASE ScaleTo(t) \/ StopSpending(t)
    BY <1>13, Scales, TurnsRecords DEF Records
<1>14. CASE KeepScaled(t)
    BY <1>14, KeepsScaled, TurnsRecords DEF Records
<1>15. CASE ClaimReady(t) \/ Transition(t)
    BY <1>15, Transitions, TurnsRecords, ReturnsRecords DEF Records
<1>16. CASE SetCard(t)
    BY <1>16, SetsCard, TurnsRecords DEF Records
<1>17. CASE Charge(t)
    BY <1>17, Charges, TurnsRecords, ReturnsRecords DEF Records
<1>18. CASE RecordError(t)
    BY <1>18, RecordsError, TurnsRecords, ReturnsRecords DEF Records
<1>19. CASE Fail(t)
    BY <1>19, Fails, TurnsRecords DEF Records
<1>20. CASE ClearCard(t)
    BY <1>20, ClearsCard, ReturnsRecords
<1>21. CASE Crash(t)
    BY <1>21, Crashes, ReturnsRecords DEF TInv, Records
<1> QED
    BY <1>1, <1>2, <1>3, <1>4, <1>5, <1>6, <1>7, <1>8, <1>9, <1>10, <1>11, <1>12, <1>13, <1>14, <1>15,
       <1>16, <1>17, <1>18, <1>19, <1>20, <1>21 DEF TickStep

\* Type correctness, whatever the environment does.
THEOREM TypeCorrect == Spec => []TypeOK
<1>1. Init => TInv
    <2> SUFFICES ASSUME Init PROVE TInv
        OBVIOUS
    <2> QED
        BY TypeInit, IdleTick DEF Init, TInv, Records
<1>2. TInv /\ [Next]_vars => TInv'
    <2> SUFFICES ASSUME TInv, [Next]_vars PROVE TInv'
        OBVIOUS
    <2>1. CASE \E t \in Ticks : TickStep(t) \/ Refused(t) \/ Throws(t) \/ Crash(t)
        BY <2>1, TInvTick
    <2>2. CASE People
        BY <2>2, Asks DEF TInv
    <2>3. CASE Provider
        BY <2>3, Provides DEF TInv
    <2>4. CASE ClaimLapses \/ GraceEnds
        BY <2>4, Passes DEF TInv
    <2>5. CASE UNCHANGED vars
        BY <2>5 DEF TInv, TypeOK, vars
    <2> QED
        BY <2>1, <2>2, <2>3, <2>4, <2>5 DEF Next
<1>3. TInv => TypeOK
    BY DEF TInv
<1> QED
    BY <1>1, <1>2, <1>3, PTL DEF Spec

\* No endpoint is billed that nothing points at, for any number of ticks of the
\* sweep and of the row's own job that wait for a deploy, and with failed calls,
\* refused credentials, crashes and a provider that loses endpoints: the claim
\* of reconcile lets one of them deploy, and what the teardown forgets is gone.
\* People may read the row at any time and save it later, any number of them:
\* of what they save only what undoes nothing is let through.
\* (That ticks overlap otherwise, that an endpoint is recorded between a tick's
\* read and its claim, or that a request's save undoes what was written since it
\* read the row, a reference above all, is excluded: then it is not so.)
THEOREM EndpointsAccounted ==
    ASSUME "overlap" \notin Faults, "slow" \notin Faults, "stale" \notin Faults
    PROVE  Spec => []EndpointAccounted
<1>1. HInv => EndpointAccounted
    BY DEF HInv
<1> QED
    BY <1>1, AlwaysHInv, PTL

\* A teardown that was asked for stays asked for through whatever a tick that
\* read the row earlier writes, and after it there is nothing left to ask
\* (teardown, writeObserved, chargeBudget's merge of desired, recordError).
\* Of the requests it excludes the one that saves a copy from before the
\* teardown: that one does erase it.
THEOREM TeardownNotForgotten ==
    ASSUME "overlap" \notin Faults, "slow" \notin Faults, "stale" \notin Faults
    PROVE  Spec => []TeardownKept
<1>1. HInv => TeardownKept
    BY DEF HInv, KeptInv, TeardownKept, Leaving
<1> QED
    BY <1>1, AlwaysHInv, PTL

\* The router never sees a hosted model that is torn down, and one that failed
\* or is orphaned only until its card is cleared, or if the process that was to
\* clear it died (clearCard, fail and markOrphan).  A request that saves a state
\* of failed or gone over one that serves by now is excluded, like the others.
THEOREM RoutedWhileServed ==
    ASSUME "overlap" \notin Faults, "slow" \notin Faults, "stale" \notin Faults
    PROVE  Spec => []RoutedOnlyWhileServed
<1>1. HInv => RoutedOnlyWhileServed
    BY DEF HInv, CardInv
<1> QED
    BY <1>1, AlwaysHInv, PTL
===========================================================================
