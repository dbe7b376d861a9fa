------------------------ MODULE WorkflowWalk_proofs ------------------------
(***************************************************************************)
(* The walk of a pipeline, for any runs, any number of requests and with   *)
(* any of the faults:                                                      *)
(*   - what follows a step that waits waits too, in any pipeline where the *)
(*     followers of a held step follow it alone;                           *)
(*   - carrying a run on runs no step again that left an output, a request *)
(*     or a failure, and the record is true, in any pipeline where no held *)
(*     step comes after another.                                           *)
(* Other pipelines have neither property.                                  *)
(***************************************************************************)
EXTENDS WorkflowRun_proofs

-----------------------------------------------------------------------------
(* The walk of one engine.                                                 *)

Holds == {n \in Nodes : Kind[n] \in {"tool_call", "code"}}
Behind(e, n) == e.res[n] # "todo" \/ n \in e.layer

\* A step is taken up when its predecessors are over and is skipped by what
\* they were then, which is what they still are; a step that asks is in the
\* layer; whoever waits has a request, and nobody else has.
WalkOf(e) ==
    \A n \in Nodes :
        /\ e.res[n] \in {"asking", "attaching"} => n \in e.layer
        /\ e.res[n] \in {"asking", "attaching", "waiting"} => n \in Holds
        /\ e.res[n] = "blank" => n \notin Holds
        /\ Behind(e, n) => \A p \in Preds(n) : e.res[p] \notin Open
        /\ Behind(e, n) => (e.res[n] = "skipped" <=> IsSkipped(e.res, n))
        /\ n \in e.layer /\ e.res[n] = "todo" => e.prior[n] = "todo"
        /\ e.prior[n] \notin {"waiting", "skipped", "blank"}
        /\ e.ask[n] # NoRequest <=> e.res[n] \in {"waiting", "attaching"}
WalkInv == \A r \in Runs : eng[r].pc # "off" => WalkOf(eng[r])

LEMMA SkippedByPreds ==
    ASSUME NEW n \in Nodes, NEW f, NEW g, \A p \in Preds(n) : f[p] = g[p]
    PROVE  IsSkipped(f, n) <=> IsSkipped(g, n)
BY DEF IsSkipped, NotTaken, Preds

LEMMA WalkStarts ==
    ASSUME NEW prior, \A n \in Nodes : prior[n] \notin {"waiting", "skipped", "blank"}
    PROVE  WalkOf(Engaged(prior))
<1>1. /\ \A n \in Nodes : Engaged(prior).res[n] = "todo" /\ Engaged(prior).ask[n] = NoRequest
      /\ Engaged(prior).layer = {} /\ Engaged(prior).prior = prior
    BY DEF Engaged, Nothing, NoAsks
<1> QED
    BY <1>1 DEF WalkOf, Behind

LEMMA WalkEnters ==
    ASSUME NEW e \in Engine, WalkOf(e), \A n \in e.layer : e.res[n] \notin Open,
           NEW f, f.layer = NextLayer(e.res), f.res = Entered(e, NextLayer(e.res)),
           f.prior = e.prior, f.ask = e.ask
    PROVE  WalkOf(f)
<1>0. e.prior \in [Nodes -> Saved]
    BY DEF Engine
<1>1. \A n \in Nodes : e.prior[n] \notin {"asking", "attaching", "waiting", "skipped", "blank"}
    BY <1>0 DEF Saved, Ended, Done, WalkOf
<1>2. \A n \in Nodes : e.res[n] \notin {"asking", "attaching"}
    BY DEF WalkOf, Open
<1>3. \A n \in Nodes : n \in f.layer => e.res[n] = "todo" /\ \A p \in Preds(n) : e.res[p] # "todo"
    BY DEF NextLayer
<1>4. \A n \in Nodes : f.res[n] = IF n \notin f.layer THEN e.res[n]
                                  ELSE IF IsSkipped(e.res, n) THEN "skipped" ELSE e.prior[n]
    BY DEF Entered
<1>5. \A n \in Nodes : Preds(n) \subseteq Nodes
    BY DEF Preds
<1>6. ASSUME NEW n \in Nodes, Behind(f, n)
      PROVE  \A p \in Preds(n) : f.res[p] = e.res[p] /\ e.res[p] \notin Open
    <2>1. CASE n \in f.layer
        BY <1>2, <1>3, <1>4, <1>5, <2>1 DEF Open
    <2>2. CASE n \notin f.layer
        <3>1. Behind(e, n)
            BY <1>4, <1>6, <2>2 DEF Behind
        <3>2. \A p \in Preds(n) : e.res[p] \notin Open
            BY <3>1 DEF WalkOf
        <3> QED
            BY <1>3, <1>4, <1>5, <3>2 DEF Open
    <2> QED
        BY <2>1, <2>2
<1>7. ASSUME NEW n \in Nodes, Behind(f, n)
      PROVE  f.res[n] = "skipped" <=> IsSkipped(f.res, n)
    <2>1. IsSkipped(f.res, n) <=> IsSkipped(e.res, n)
        BY <1>6, <1>7, SkippedByPreds
    <2>2. CASE n \in f.layer
        BY <1>1, <1>4, <2>1, <2>2
    <2>3. CASE n \notin f.layer
        <3>1. Behind(e, n) /\ f.res[n] = e.res[n]
            BY <1>4, <1>7, <2>3 DEF Behind
        <3> QED
            BY <2>1, <3>1 DEF WalkOf
    <2> QED
        BY <2>2, <2>3
<1>8. ASSUME NEW n \in Nodes
      PROVE  /\ f.res[n] \notin {"asking", "attaching"}
             /\ f.res[n] = "waiting" => n \in Holds
             /\ f.res[n] = "blank" => n \notin Holds
             /\ n \in f.layer /\ f.res[n] = "todo" => f.prior[n] = "todo"
             /\ f.ask[n] # NoRequest <=> f.res[n] \in {"waiting", "attaching"}
    <2>1. CASE n \in f.layer
        BY <1>1, <1>3, <1>4, <2>1 DEF WalkOf
    <2>2. CASE n \notin f.layer
        BY <1>2, <1>4, <2>2 DEF WalkOf
    <2> QED
        BY <2>1, <2>2
<1> QED
    BY <1>1, <1>6, <1>7, <1>8 DEF WalkOf

\* A step of the layer that was open gets a result.
LEMMA WalkResult ==
    ASSUME NEW e, WalkOf(e), NEW n \in Nodes, n \in e.layer, e.res[n] \in Open,
           NEW o, o \notin {"todo", "skipped"}, o \in {"asking", "attaching", "waiting"} => n \in Holds,
           o = "blank" => n \notin Holds, NEW f, f.layer = e.layer, f.prior = e.prior,
           \A m \in Nodes : f.res[m] = IF m = n THEN o ELSE e.res[m],
           \A m \in Nodes \ {n} : f.ask[m] = e.ask[m],
           f.ask[n] # NoRequest <=> o \in {"waiting", "attaching"}
    PROVE  WalkOf(f)
<1>1. \A m \in Nodes : Behind(f, m) => Behind(e, m)
    BY DEF Behind
<1>2. \A m \in Nodes : Preds(m) \subseteq Nodes
    BY DEF Preds
<1>3. ASSUME NEW m \in Nodes, Behind(f, m)
      PROVE  \A p \in Preds(m) : f.res[p] = e.res[p] /\ e.res[p] \notin Open
    BY <1>1, <1>2, <1>3 DEF WalkOf
<1>4. ASSUME NEW m \in Nodes, Behind(f, m)
      PROVE  f.res[m] = "skipped" <=> IsSkipped(f.res, m)
    <2>1. IsSkipped(f.res, m) <=> IsSkipped(e.res, m)
        BY <1>3, <1>4, SkippedByPreds
    <2>2. e.res[m] = "skipped" <=> IsSkipped(e.res, m)
        BY <1>1, <1>4 DEF WalkOf
    <2>3. e.res[n] # "skipped"
        BY DEF Open
    <2> QED
        BY <2>1, <2>2, <2>3
<1>5. ASSUME NEW m \in Nodes
      PROVE  /\ f.res[m] \in {"asking", "attaching"} => m \in f.layer
             /\ f.res[m] \in {"asking", "attaching", "waiting"} => m \in Holds
             /\ f.res[m] = "blank" => m \notin Holds
             /\ m \in f.layer /\ f.res[m] = "todo" => f.prior[m] = "todo"
             /\ f.prior[m] \notin {"waiting", "skipped", "blank"}
             /\ f.ask[m] # NoRequest <=> f.res[m] \in {"waiting", "attaching"}
    BY DEF WalkOf
<1> QED
    BY <1>3, <1>4, <1>5 DEF WalkOf

-----------------------------------------------------------------------------
(* What a step does to the walk of a run.                                  *)

SameWalk(e, f) == f.res = e.res /\ f.ask = e.ask /\ f.prior = e.prior /\ f.layer = e.layer
Stays(e, f) == SameWalk(e, f) /\ f.pc = e.pc /\ f.verdict = e.verdict
LayerOver(e) == \A n \in e.layer : e.res[n] \notin Open

\* A run is concluded as waiting only after its last layer.
Concludes(e, f) ==
    /\ SameWalk(e, f) /\ e.pc = "walk" /\ f.pc = "commit" /\ f.verdict # "none"
    /\ f.verdict = "waiting_approval" =>
         LayerOver(e) /\ NextLayer(e.res) = {} /\ Verdict(e) = "waiting_approval"

Enters(e, f) ==
    /\ e.pc = "walk" /\ f.pc = "walk" /\ LayerOver(e)
    /\ f.layer = NextLayer(e.res) /\ f.res = Entered(e, NextLayer(e.res))
    /\ f.prior = e.prior /\ f.ask = e.ask

\* Step n of the layer, which was open, gets the result o.
Gets(e, f, n, o) ==
    /\ e.pc = "walk" /\ f.pc = "walk" /\ n \in e.layer /\ e.res[n] \in Open
    /\ o \notin {"todo", "skipped"} /\ (o \in {"asking", "attaching", "waiting"} => n \in Holds)
    /\ o = "blank" => n \notin Holds
    /\ f.layer = e.layer /\ f.prior = e.prior
    /\ \A m \in Nodes : f.res[m] = IF m = n THEN o ELSE e.res[m]
    /\ \A m \in Nodes \ {n} : f.ask[m] = e.ask[m]
    /\ f.ask[n] # NoRequest <=> o \in {"waiting", "attaching"}

Begins(f) == \E p \in [Nodes -> Saved] :
    f = Engaged(p) /\ \A n \in Nodes : p[n] \notin {"waiting", "skipped", "blank"}

LEMMA EntersLayer ==
    ASSUME TypeOK, NEW r \in Runs, EnterLayer(r)
    PROVE  Enters(eng[r], eng'[r]) /\ \A x \in Runs \ {r} : eng'[x] = eng[x]
<1> DEFINE layer == NextLayer(eng[r].res)
           res == Entered(eng[r], layer)
<1>0. eng \in [Runs -> Engine] /\ eng[r] \in Engine
    BY DEF TypeOK
<1>1. /\ AtBoundary(r)
      /\ eng' = [eng EXCEPT ![r].layer = layer, ![r].res = res]
    BY DEF EnterLayer
<1>2. eng[r].pc = "walk" /\ LayerOver(eng[r])
    BY <1>1 DEF AtBoundary, Walking, LayerOver, Open
<1> HIDE DEF layer, res
<1>3. eng'[r] = [eng[r] EXCEPT !.layer = layer, !.res = res] /\ \A x \in Runs \ {r} : eng'[x] = eng[x]
    BY <1>0, <1>1
<1>4. /\ eng'[r].layer = layer /\ eng'[r].res = res /\ eng'[r].pc = eng[r].pc
      /\ eng'[r].prior = eng[r].prior /\ eng'[r].ask = eng[r].ask
    BY <1>0, <1>3 DEF Engine
<1> QED
    BY <1>2, <1>3, <1>4 DEF Enters, layer, res

LEMMA ConcludesRun ==
    ASSUME TypeOK, NEW r \in Runs, LayerCancelled(r) \/ LimitMet(r) \/ Finish(r)
    PROVE  Concludes(eng[r], eng'[r]) /\ \A x \in Runs \ {r} : eng'[x] = eng[x]
<1>0. eng \in [Runs -> Engine] /\ eng[r] \in Engine
    BY DEF TypeOK
<1>1. PICK v : /\ eng' = [eng EXCEPT ![r].pc = "commit", ![r].verdict = v]
               /\ v # "none" /\ (v = "waiting_approval" => Finish(r) /\ v = Verdict(eng[r]))
    <2>1. CASE Finish(r)
        <3>1. Verdict(eng[r]) # "none"
            BY DEF Verdict
        <3> QED
            BY <2>1, <3>1 DEF Finish, Conclude
    <2>2. CASE LayerCancelled(r) \/ LimitMet(r)
        <3>1. PICK v \in {"cancelled", "timeout", "failed", "completed"} : Conclude(r, v)
            BY <2>2 DEF LayerCancelled, LimitMet
        <3> QED
            BY <3>1 DEF Conclude
    <2> QED
        BY <2>1, <2>2
<1>2. eng'[r] = [eng[r] EXCEPT !.pc = "commit", !.verdict = v] /\ \A x \in Runs \ {r} : eng'[x] = eng[x]
    BY <1>0, <1>1
<1>3. SameWalk(eng[r], eng'[r]) /\ eng'[r].pc = "commit" /\ eng'[r].verdict = v
    BY <1>0, <1>2 DEF Engine, SameWalk
<1>4. eng[r].pc = "walk"
    BY DEF LayerCancelled, LimitMet, Finish, AtBoundary, Walking
<1>5. Finish(r) => LayerOver(eng[r]) /\ NextLayer(eng[r].res) = {}
    BY DEF Finish, AtBoundary, LayerOver, Open
<1> QED
    BY <1>1, <1>2, <1>3, <1>4, <1>5 DEF Concludes

LEMMA ResultAfter ==
    ASSUME TypeOK, NEW r \in Runs, NEW n \in Nodes, NEW o, eng' = [eng EXCEPT ![r].res[n] = o]
    PROVE  /\ eng'[r].pc = eng[r].pc /\ eng'[r].layer = eng[r].layer /\ eng'[r].prior = eng[r].prior
           /\ eng'[r].ask = eng[r].ask
           /\ \A m \in Nodes : eng'[r].res[m] = IF m = n THEN o ELSE eng[r].res[m]
           /\ \A x \in Runs \ {r} : eng'[x] = eng[x]
<1>0. eng \in [Runs -> Engine] /\ eng[r] \in Engine /\ eng[r].res \in [Nodes -> Local]
    BY DEF TypeOK, Engine
<1>1. eng'[r] = [eng[r] EXCEPT !.res = [eng[r].res EXCEPT ![n] = o]] /\ \A x \in Runs \ {r} : eng'[x] = eng[x]
    BY <1>0
<1>2. /\ eng'[r].pc = eng[r].pc /\ eng'[r].layer = eng[r].layer /\ eng'[r].prior = eng[r].prior
      /\ eng'[r].ask = eng[r].ask /\ eng'[r].res = [eng[r].res EXCEPT ![n] = o]
    BY <1>0, <1>1 DEF Engine
<1> QED
    BY <1>0, <1>1, <1>2

LEMMA RequestAskedAfter ==
    ASSUME TypeOK, NEW r \in Runs, NEW n \in Nodes, NEW o, NEW q,
           eng' = [eng EXCEPT ![r].res[n] = o, ![r].ask[n] = q]
    PROVE  /\ eng'[r].pc = eng[r].pc /\ eng'[r].layer = eng[r].layer /\ eng'[r].prior = eng[r].prior
           /\ eng'[r].ask[n] = q /\ \A m \in Nodes \ {n} : eng'[r].ask[m] = eng[r].ask[m]
           /\ \A m \in Nodes : eng'[r].res[m] = IF m = n THEN o ELSE eng[r].res[m]
           /\ \A x \in Runs \ {r} : eng'[x] = eng[x]
<1>0. /\ eng \in [Runs -> Engine] /\ eng[r] \in Engine /\ eng[r].res \in [Nodes -> Local]
      /\ eng[r].ask \in [Nodes -> Requests \cup {NoRequest}]
    BY DEF TypeOK, Engine
<1>1. /\ eng'[r] = [eng[r] EXCEPT !.res = [eng[r].res EXCEPT ![n] = o], !.ask = [eng[r].ask EXCEPT ![n] = q]]
      /\ \A x \in Runs \ {r} : eng'[x] = eng[x]
    BY <1>0
<1>2. /\ eng'[r].pc = eng[r].pc /\ eng'[r].layer = eng[r].layer /\ eng'[r].prior = eng[r].prior
      /\ eng'[r].ask = [eng[r].ask EXCEPT ![n] = q] /\ eng'[r].res = [eng[r].res EXCEPT ![n] = o]
    BY <1>0, <1>1 DEF Engine
<1> QED
    BY <1>0, <1>1, <1>2

NodeStep(r, n) ==
    \/ RunNode(r, n) \/ HoldLookup(r, n) \/ HoldCreate(r, n) \/ StageChanges(r, n) \/ AttachApproval(r, n)

\* A step that was to do counts as run unless it left no output, one that
\* asks was counted before.
LEMMA NodeGets ==
    ASSUME TypeOK, NEW r \in Runs, NEW n \in Nodes, WalkOf(eng[r]), NodeStep(r, n)
    PROVE  /\ \E o : Gets(eng[r], eng'[r], n, o)
           /\ \A x \in Runs \ {r} : eng'[x] = eng[x] /\ ran'[x] = ran[x]
           /\ \A m \in Nodes : ran'[r][m] = IF m = n /\ eng[r].res[n] = "todo" /\ eng'[r].res[n] # "blank"
                                           THEN ran[r][m] + 1 ELSE ran[r][m]
<1>0. /\ eng \in [Runs -> Engine] /\ eng[r] \in Engine
      /\ ran \in [Runs -> [Nodes -> Nat]] /\ ran[r] \in [Nodes -> Nat]
      /\ \A q \in Requests : q # NoRequest
    BY DEF TypeOK, Requests, NoRequest
<1>1. CASE RunNode(r, n) \/ HoldLookup(r, n) \/ StageChanges(r, n)
    <2>1. eng[r].pc = "walk" /\ n \in eng[r].layer /\ eng[r].res[n] = "todo" /\ eng[r].ask[n] = NoRequest
        BY <1>1 DEF RunNode, HoldLookup, StageChanges, Ready, Walking, WalkOf
    <2>2. ASSUME NEW o, o \notin {"todo", "skipped", "waiting", "attaching"}, o = "asking" => n \in Holds,
                 o = "blank" => n \notin Holds,
                 eng' = [eng EXCEPT ![r].res[n] = o]
          PROVE  Gets(eng[r], eng'[r], n, o) /\ \A x \in Runs \ {r} : eng'[x] = eng[x]
        <3>1. /\ eng'[r].pc = eng[r].pc /\ eng'[r].layer = eng[r].layer /\ eng'[r].prior = eng[r].prior
              /\ eng'[r].ask = eng[r].ask
              /\ \A m \in Nodes : eng'[r].res[m] = IF m = n THEN o ELSE eng[r].res[m]
              /\ \A x \in Runs \ {r} : eng'[x] = eng[x]
            BY <2>2, ResultAfter
        <3> QED
            BY <2>1, <2>2, <3>1 DEF Gets, Open
    <2>3. ASSUME NEW o, NEW q \in Requests, o \in {"waiting", "attaching"}, n \in Holds,
                 eng' = [eng EXCEPT ![r].res[n] = o, ![r].ask[n] = q]
          PROVE  Gets(eng[r], eng'[r], n, o) /\ \A x \in Runs \ {r} : eng'[x] = eng[x]
        <3>1. /\ eng'[r].pc = eng[r].pc /\ eng'[r].layer = eng[r].layer /\ eng'[r].prior = eng[r].prior
              /\ eng'[r].ask[n] = q /\ \A m \in Nodes \ {n} : eng'[r].ask[m] = eng[r].ask[m]
              /\ \A m \in Nodes : eng'[r].res[m] = IF m = n THEN o ELSE eng[r].res[m]
              /\ \A x \in Runs \ {r} : eng'[x] = eng[x]
            BY <2>3, RequestAskedAfter
        <3> QED
            BY <1>0, <2>1, <2>3, <3>1 DEF Gets, Open
    <2>4. \E o : /\ Gets(eng[r], eng'[r], n, o) /\ \A x \in Runs \ {r} : eng'[x] = eng[x]
                 /\ ran' = IF o = "blank" THEN ran ELSE [ran EXCEPT ![r][n] = @ + 1]
        <3>1. CASE RunNode(r, n)
            <4>0. PICK o \in Outcomes(n) :
                    /\ eng' = [eng EXCEPT ![r].res[n] = o]
                    /\ ran' = IF o = "blank" THEN ran ELSE [ran EXCEPT ![r][n] = @ + 1]
                BY <3>1 DEF RunNode
            <4>1. eng' = [eng EXCEPT ![r].res[n] = o]
                BY <4>0
            <4>2. /\ o \notin {"todo", "skipped", "waiting", "attaching"} /\ o # "asking"
                  /\ o = "blank" => n \notin Holds
                BY DEF Outcomes, Failing, Holds
            <4>3. Gets(eng[r], eng'[r], n, o) /\ \A x \in Runs \ {r} : eng'[x] = eng[x]
                BY <2>2, <4>1, <4>2
            <4> QED
                BY <4>0, <4>3
        <3>2. CASE HoldLookup(r, n)
            <4>1. n \in Holds /\ ran' = [ran EXCEPT ![r][n] = @ + 1]
                BY <3>2 DEF HoldLookup, Holds
            <4>2. CASE eng' = [eng EXCEPT ![r].res[n] = "asking"]
                <5>1. PICK o : o = "asking" /\ eng' = [eng EXCEPT ![r].res[n] = o]
                    BY <4>2
                <5>2. o \notin {"todo", "skipped", "waiting", "attaching", "blank"}
                    BY <5>1
                <5>3. Gets(eng[r], eng'[r], n, o) /\ \A x \in Runs \ {r} : eng'[x] = eng[x]
                    BY <2>2, <4>1, <5>1, <5>2
                <5> QED
                    BY <4>1, <5>2, <5>3
            <4>3. CASE \E q \in Requests : eng' = [eng EXCEPT ![r].res[n] = "waiting", ![r].ask[n] = q]
                <5>1. PICK q \in Requests, o \in {"waiting"} : eng' = [eng EXCEPT ![r].res[n] = o, ![r].ask[n] = q]
                    BY <4>3
                <5>2. Gets(eng[r], eng'[r], n, o) /\ \A x \in Runs \ {r} : eng'[x] = eng[x]
                    BY <2>3, <4>1, <5>1
                <5> QED
                    BY <4>1, <5>2
            <4> QED
                BY <3>2, <4>2, <4>3 DEF HoldLookup, PendingFor
        <3>3. CASE StageChanges(r, n)
            <4>1. n \in Holds /\ ran' = [ran EXCEPT ![r][n] = @ + 1]
                BY <3>3 DEF StageChanges, Holds
            <4>2. PICK q \in Requests, o \in {"attaching"} : eng' = [eng EXCEPT ![r].res[n] = o, ![r].ask[n] = q]
                BY <3>3 DEF StageChanges
            <4>3. Gets(eng[r], eng'[r], n, o) /\ \A x \in Runs \ {r} : eng'[x] = eng[x]
                BY <2>3, <4>1, <4>2
            <4> QED
                BY <4>1, <4>3
        <3> QED
            BY <1>1, <3>1, <3>2, <3>3
    <2>5. PICK o : /\ Gets(eng[r], eng'[r], n, o) /\ \A x \in Runs \ {r} : eng'[x] = eng[x]
                   /\ ran' = IF o = "blank" THEN ran ELSE [ran EXCEPT ![r][n] = @ + 1]
        BY <2>4
    <2>6. eng'[r].res[n] = o
        BY <2>5 DEF Gets
    <2>7. /\ o # "blank" => ran'[r] = [ran[r] EXCEPT ![n] = @ + 1]
          /\ o = "blank" => ran'[r] = ran[r]
          /\ \A x \in Runs \ {r} : ran'[x] = ran[x]
        BY <1>0, <2>5
    <2> QED
        BY <1>0, <2>1, <2>5, <2>6, <2>7
<1>2. CASE HoldCreate(r, n)
    <2>1. PICK q \in Requests : eng' = [eng EXCEPT ![r].res[n] = "waiting", ![r].ask[n] = q]
        BY <1>2 DEF HoldCreate
    <2>2. eng[r].pc = "walk" /\ eng[r].res[n] = "asking" /\ ran' = ran
        BY <1>2 DEF HoldCreate, Walking
    <2>3. n \in eng[r].layer /\ n \in Holds
        BY <2>2 DEF WalkOf
    <2>4. Gets(eng[r], eng'[r], n, "waiting") /\ \A x \in Runs \ {r} : eng'[x] = eng[x]
        <3>1. /\ eng'[r].pc = eng[r].pc /\ eng'[r].layer = eng[r].layer /\ eng'[r].prior = eng[r].prior
              /\ eng'[r].ask[n] = q /\ \A m \in Nodes \ {n} : eng'[r].ask[m] = eng[r].ask[m]
              /\ \A m \in Nodes : eng'[r].res[m] = IF m = n THEN "waiting" ELSE eng[r].res[m]
              /\ \A x \in Runs \ {r} : eng'[x] = eng[x]
            BY <2>1, RequestAskedAfter
        <3> QED
            BY <1>0, <2>1, <2>2, <2>3, <3>1 DEF Gets, Open
    <2> QED
        BY <2>2, <2>4
<1>3. CASE AttachApproval(r, n)
    <2>2. /\ eng[r].pc = "walk" /\ eng[r].res[n] = "attaching" /\ ran' = ran
          /\ eng' = [eng EXCEPT ![r].res[n] = "waiting"]
        BY <1>3 DEF AttachApproval, Walking
    <2>3. n \in eng[r].layer /\ n \in Holds /\ eng[r].ask[n] # NoRequest
        BY <2>2 DEF WalkOf
    <2>4. Gets(eng[r], eng'[r], n, "waiting") /\ \A x \in Runs \ {r} : eng'[x] = eng[x]
        <3>1. /\ eng'[r].pc = eng[r].pc /\ eng'[r].layer = eng[r].layer /\ eng'[r].prior = eng[r].prior
              /\ eng'[r].ask = eng[r].ask
              /\ \A m \in Nodes : eng'[r].res[m] = IF m = n THEN "waiting" ELSE eng[r].res[m]
              /\ \A x \in Runs \ {r} : eng'[x] = eng[x]
            BY <2>2, ResultAfter
        <3> QED
            BY <2>2, <2>3, <3>1 DEF Gets, Open
    <2> QED
        BY <2>2, <2>4
<1> QED
    BY <1>1, <1>2, <1>3 DEF NodeStep

LEMMA PriorSettled ==
    ASSUME TypeOK, NEW seen
    PROVE  \A n \in Nodes : /\ Prior(seen)[n] \notin {"waiting", "skipped", "blank"}
                            /\ seen.ask[n] # NoRequest => Prior(seen)[n] # "todo"
                            /\ seen.ask[n] = NoRequest =>
                                 Prior(seen)[n] = IF seen.res[n] \in Done THEN seen.res[n] ELSE "todo"
BY DEF Prior, Settlement, Done

\* Cancels, the reaper and crashes end a walk or leave a signal.
LEMMA OthersSignalOrEnd ==
    ASSUME TypeOK, NEW r \in Runs, NEW x \in Runs, Others(x)
    PROVE  Stays(eng[r], eng'[r]) \/ eng'[r].pc = "off"
<1>0. eng \in [Runs -> Engine] /\ eng[r] \in Engine
    BY DEF TypeOK
<1>1. CASE CrashEngine(x)
    <2>1. eng'[r] = eng[r] \/ eng'[r] = Off
        BY <1>0, <1>1 DEF CrashEngine
    <2> QED
        BY <2>1 DEF Off, Engaged, Stays, SameWalk
<1>2. CASE ~CrashEngine(x)
    <2>1. eng' = eng \/ \E how : eng' = [eng EXCEPT ![x].signal = how]
        BY <1>2 DEF Others, CancelRead, CancelSave, CancelHeard, Disconnect, Age, Reap, Abort
    <2>2. eng'[r] = eng[r] \/ \E how : eng'[r] = [eng[r] EXCEPT !.signal = how]
        BY <1>0, <2>1
    <2>3. \A how : Stays(eng[r], [eng[r] EXCEPT !.signal = how])
        BY <1>0 DEF Engine, Stays, SameWalk
    <2>4. Stays(eng[r], eng[r])
        BY DEF Stays, SameWalk
    <2> QED
        BY <2>2, <2>3, <2>4
<1> QED
    BY <1>1, <1>2

\* Every step of the system, seen from the engine of one run.
LEMMA EngineMoves ==
    ASSUME TypeOK, WalkInv, [Next]_vars, NEW r \in Runs
    PROVE  \/ Stays(eng[r], eng'[r]) \/ eng'[r].pc = "off" \/ Begins(eng'[r])
           \/ Concludes(eng[r], eng'[r]) \/ Enters(eng[r], eng'[r])
           \/ \E n \in Nodes : \E o : Gets(eng[r], eng'[r], n, o)
<1>0. eng \in [Runs -> Engine] /\ eng[r] \in Engine
    BY DEF TypeOK
<1>1. eng'[r] = eng[r] => Stays(eng[r], eng'[r])
    BY DEF Stays, SameWalk
<1>2. ASSUME NEW x \in Runs, RunStep(x), eng'[r] # eng[r]
      PROVE  \/ eng'[r].pc = "off" \/ Begins(eng'[r])
             \/ Concludes(eng[r], eng'[r]) \/ Enters(eng[r], eng'[r])
             \/ \E n \in Nodes : \E o : Gets(eng[r], eng'[r], n, o)
    <2>1. CASE Start(x)
        <3>1. eng'[r] = Engaged(Nothing)
            BY <1>0, <1>2, <2>1 DEF Start
        <3>2. Nothing \in [Nodes -> Saved] /\ \A n \in Nodes : Nothing[n] \notin {"waiting", "skipped", "blank"}
            BY NoneTypes DEF Nothing
        <3> QED
            BY <3>1, <3>2 DEF Begins
    <2>2. CASE EnterLayer(x)
        BY <1>2, <2>2, EntersLayer
    <2>3. CASE LayerCancelled(x) \/ LimitMet(x) \/ Finish(x)
        BY <1>2, <2>3, ConcludesRun
    <2>4. CASE Commit(x)
        <3>1. eng'[r] = Off
            BY <1>0, <1>2, <2>4 DEF Commit
        <3> QED
            BY <3>1 DEF Off, Engaged
    <2>5. ASSUME NEW n \in Nodes, NodeStep(x, n) PROVE \E m \in Nodes : \E o : Gets(eng[r], eng'[r], m, o)
        <3>1. WalkOf(eng[x])
            BY <2>5 DEF WalkInv, NodeStep, RunNode, HoldLookup, HoldCreate, StageChanges, AttachApproval, Ready, Walking
        <3> QED
            BY <1>2, <2>5, <3>1, NodeGets
    <2> QED
        BY <1>2, <2>1, <2>2, <2>3, <2>4, <2>5 DEF RunStep, NodeStep
<1>3. ASSUME NEW q \in Requests, EnterEngine(q), eng'[r] # eng[r] PROVE Begins(eng'[r])
    <2>1. eng'[r] = Engaged(Prior(task[q].seen))
        BY <1>0, <1>3 DEF EnterEngine
    <2>2. task[q].seen \in Row
        BY DEF TypeOK, Task
    <2> QED
        BY <2>1, <2>2, PriorType, PriorSettled DEF Begins
<1>4. ASSUME NEW x \in Runs, Others(x) PROVE Stays(eng[r], eng'[r]) \/ eng'[r].pc = "off"
    BY <1>4, OthersSignalOrEnd
<1>5. ASSUME NEW q \in Requests, TaskStep(q), ~EnterEngine(q) PROVE eng' = eng
    BY <1>5 DEF TaskStep, ClaimCall, MakeCall, KeepResult, SettleSet, ApplyChange, KeepSet,
           FindWaiting, ReadRun, CheckSettled, ClaimRun, ResumeRefused
<1> QED
    BY <1>1, <1>2, <1>3, <1>4, <1>5 DEF Next, vars, CrashTask, Decide

LEMMA WalkInit == Init => WalkInv
BY DEF Init, WalkInv, Off, Engaged

LEMMA WalkStep == TypeOK /\ WalkInv /\ [Next]_vars => WalkInv'
<1> SUFFICES ASSUME TypeOK, WalkInv, [Next]_vars, NEW r \in Runs, eng'[r].pc # "off"
             PROVE  WalkOf(eng'[r])
    BY DEF WalkInv
<1>0. eng[r] \in Engine
    BY DEF TypeOK
<1>1. ASSUME Begins(eng'[r]) PROVE WalkOf(eng'[r])
    BY <1>1, WalkStarts DEF Begins
<1>2. ASSUME ~Begins(eng'[r]) PROVE eng[r].pc # "off" /\ WalkOf(eng[r])
    <2>1. eng[r].pc # "off"
        BY <1>2, EngineMoves DEF Stays, Concludes, Enters, Gets
    <2> QED
        BY <2>1 DEF WalkInv
<1>3. CASE SameWalk(eng[r], eng'[r]) /\ WalkOf(eng[r])
    BY <1>3 DEF SameWalk, WalkOf, Behind
<1>4. CASE Enters(eng[r], eng'[r]) /\ WalkOf(eng[r])
    BY <1>0, <1>4, WalkEnters DEF Enters, LayerOver
<1>5. CASE (\E n \in Nodes : \E o : Gets(eng[r], eng'[r], n, o)) /\ WalkOf(eng[r])
    <2>1. PICK n \in Nodes : \E o : Gets(eng[r], eng'[r], n, o)
        BY <1>5
    <2>2. PICK o : Gets(eng[r], eng'[r], n, o)
        BY <2>1
    <2> QED
        BY <1>5, <2>2, WalkResult DEF Gets
<1> QED
    BY <1>1, <1>2, <1>3, <1>4, <1>5, EngineMoves DEF Stays, Concludes

LEMMA WalkAlways == Spec => []WalkInv
BY TypeCorrect, WalkInit, WalkStep, PTL DEF Spec

-----------------------------------------------------------------------------
(* What follows a waiting step.                                            *)

\* A run comes to wait by the commit of the engine that walked it, and by
\* nothing else.
LEMMA WaitsByCommit ==
    ASSUME TypeOK, [Next]_vars, NEW r \in Runs, row'[r].status = "waiting_approval"
    PROVE  \/ row'[r] = row[r]
           \/ /\ Commit(r) /\ eng[r].pc = "commit" /\ eng[r].verdict = "waiting_approval"
              /\ row'[r].res = Recorded(eng[r]) /\ row'[r].ask = eng[r].ask
<1>0. row \in [Runs -> Row] /\ row[r] \in Row /\ \A x \in Requests : task[x].run \in Runs
    BY DEF TypeOK, Task
<1>1. \A x \in Runs : \A s : row' = [row EXCEPT ![x].status = s] /\ s # "waiting_approval" => row'[r] = row[r]
    <2>1. \A s : [row[r] EXCEPT !.status = s].status = s
        BY <1>0 DEF Row
    <2> QED
        BY <1>0, <2>1
<1>2. ASSUME NEW x \in Runs, CancelSave(x) PROVE row'[r] = row[r]
    <2>1. cancel[x].seen \in Row
        BY DEF TypeOK
    <2>2. [cancel[x].seen EXCEPT !.status = "cancelled"].status = "cancelled"
        BY <2>1 DEF Row
    <2> QED
        BY <1>0, <1>2, <2>2 DEF CancelSave
<1>3. ASSUME NEW x \in Runs, Commit(x), row'[r] # row[r]
      PROVE  /\ Commit(r) /\ eng[r].pc = "commit" /\ eng[r].verdict = "waiting_approval"
             /\ row'[r].res = Recorded(eng[r]) /\ row'[r].ask = eng[r].ask
    BY <1>0, <1>3 DEF Commit
<1>4. ASSUME NEW x \in Runs, RunStep(x), ~Commit(x) PROVE row'[r] = row[r]
    BY <1>1, <1>4 DEF RunStep, Start, EnterLayer, LayerCancelled, LimitMet, Finish, Conclude,
           RunNode, HoldLookup, HoldCreate, StageChanges, AttachApproval
<1>5. ASSUME NEW x \in Runs, Others(x) PROVE row'[r] = row[r]
    BY <1>1, <1>2, <1>5 DEF Others, CancelRead, CancelHeard, Disconnect, Age, Reap, CrashEngine
<1>6. ASSUME NEW q \in Requests, TaskStep(q) PROVE row'[r] = row[r]
    BY <1>0, <1>1, <1>6
       DEF TaskStep, ClaimCall, MakeCall, KeepResult, SettleSet, ApplyChange, KeepSet,
           FindWaiting, ReadRun, CheckSettled, ClaimRun, EnterEngine, ResumeRefused
<1> QED
    BY <1>3, <1>4, <1>5, <1>6 DEF Next, vars, CrashTask, Decide

\* Where a held step's followers follow it alone, nothing after a step that
\* waits has an output in the record of a waiting run, with any faults.  (A
\* step where another branch meets a held one runs without its result.)
THEOREM FollowersWait ==
    ASSUME \A n \in Nodes : \A p \in Preds(n) \cap Holds : Preds(n) = {p}
    PROVE  Spec => []WhatFollowsWaits
<1>1. Init => WhatFollowsWaits
    <2>1. \A r \in Runs : Init => row[r].status = "none"
        BY DEF Init, NewRow
    <2> QED
        BY <2>1 DEF WhatFollowsWaits
<1>2. ASSUME NEW e \in Engine, WalkOf(e), NEW d \in Edges, Recorded(e)[d[1]] = "waiting"
      PROVE  Recorded(e)[d[2]] \notin Ended
    <2>1. PICK p \in Nodes, n \in Nodes : d = <<p, n>>
        BY WorkflowAssumption
    <2>2. e.res[p] = "waiting" /\ (Recorded(e)[n] \in Ended => e.res[n] = Recorded(e)[n])
        BY <1>2, <2>1 DEF Recorded, Ended, Done
    <2>3. Preds(n) = {p}
        BY <1>2, <2>1, <2>2 DEF WalkOf, Preds
    <2>4. IsSkipped(e.res, n)
        BY <2>2, <2>3 DEF IsSkipped, NotTaken
    <2>5. e.res[n] \notin Ended
        BY <1>2, <2>4 DEF WalkOf, Behind, Ended, Done
    <2> QED
        BY <2>1, <2>2, <2>5
<1>3. TypeOK /\ WalkInv /\ WhatFollowsWaits /\ [Next]_vars => WhatFollowsWaits'
    <2> SUFFICES ASSUME TypeOK, WalkInv, WhatFollowsWaits, [Next]_vars, NEW r \in Runs, NEW d \in Edges,
                        row'[r].status = "waiting_approval", row'[r].res[d[1]] = "waiting"
                 PROVE  row'[r].res[d[2]] \notin Ended
        BY DEF WhatFollowsWaits
    <2>1. CASE row'[r] = row[r]
        BY <2>1 DEF WhatFollowsWaits
    <2>2. CASE eng[r].pc = "commit" /\ row'[r].res = Recorded(eng[r])
        <3>1. eng[r] \in Engine /\ WalkOf(eng[r])
            BY <2>2 DEF TypeOK, WalkInv
        <3> QED
            BY <1>2, <2>2, <3>1
    <2> QED
        BY <2>1, <2>2, WaitsByCommit
<1> QED
    BY <1>1, <1>3, TypeCorrect, WalkAlways, PTL DEF Spec

-----------------------------------------------------------------------------
(* No step runs twice.                                                     *)

\* The record of a run that came to wait: every step ended, waits, was skipped
\* by what is recorded of its predecessors, or is behind a step that is never
\* reached.
Final(s) ==
    \A n \in Nodes :
        /\ s[n] \in Ended \cup {"todo", "skipped", "waiting"}
        /\ s[n] = "todo" => \E p \in Preds(n) : s[p] = "todo"
        /\ s[n] # "todo" => (s[n] = "skipped" <=> IsSkipped(s, n))
        /\ s[n] = "waiting" => n \in Holds
        /\ s[n] = "blank" => n \notin Holds

\* An engine that carries on a run recorded as s: of what leads to the held
\* steps, what had an output gets it again and what was skipped is skipped, if
\* it is reached, so that no other held steps are reached than before, and
\* those are decided; only what ended without an output is left to run.
Replay(e, s, up) ==
    /\ Final(s)
    /\ \A n \in up : /\ s[n] \in Done => e.prior[n] = s[n]
                     /\ s[n] # "blank" => e.res[n] \in {"todo", "skipped", s[n]}
                     /\ s[n] = "todo" => e.res[n] = "todo"
    /\ \A n \in Holds : /\ s[n] \in Done \cup {"waiting"} => e.prior[n] # "todo"
                        /\ e.res[n] \notin {"waiting", "asking", "attaching"}
    /\ \A n \in up \cup Holds : n \in e.layer /\ e.res[n] = "todo" => s[n] = "blank"

\* What has run, counted by c, has an output in the record or waits.
Snap(c, rw) ==
    /\ Final(rw.res)
    /\ \A n \in Nodes : /\ c[n] = 1 => rw.res[n] \in Done \cup {"waiting"}
                        /\ rw.ask[n] # NoRequest <=> rw.res[n] = "waiting"

\* What has run is behind the engine or was handed to it.
EngineRan(c, e, up) ==
    /\ \A n \in Nodes : c[n] = 1 => e.res[n] \notin {"todo", "skipped", "blank"} \/ e.prior[n] # "todo"
    /\ e.prior # Nothing => \E s \in [Nodes -> Saved] : Replay(e, s, up)
    /\ e.pc = "commit" => e.verdict # "none"
    /\ e.pc = "commit" /\ e.verdict = "waiting_approval" =>
         Final(e.res) /\ \E n \in Nodes : e.res[n] = "waiting"

Following == {"check", "claim", "enter", "walk"}
OnRun(q, r) == task[q].pc \in Following /\ task[q].run = r

\* A task is on a run that has waited, so that no first engine walks it, and
\* what it read is the record as long as the run waits.
TaskRan(q, r) ==
    /\ row[r].status # "none" /\ ~(eng[r].pc # "off" /\ eng[r].prior = Nothing)
    /\ task[q].seen.ask # NoAsks
    /\ task[q].pc \in {"check", "claim"} /\ row[r].status = "waiting_approval" =>
         task[q].seen.res = row[r].res /\ task[q].seen.ask = row[r].ask
    /\ task[q].pc = "enter" => Snap(ran[r], task[q].seen)

RanOf(r, up) ==
    /\ \A n \in Nodes : ran[r][n] \in {0, 1}
    /\ row[r].status = "none" => \A n \in Nodes : ran[r][n] = 0
    /\ eng[r].pc # "off" => EngineRan(ran[r], eng[r], up)
    /\ row[r].status = "waiting_approval" => Snap(ran[r], row[r])
    /\ \A q \in Requests : OnRun(q, r) => TaskRan(q, r)
RanInv(up) == \A r \in Runs : RanOf(r, up)

\* No held step comes after another: what leads to one is in up, all of it.
LeadsUp(up) == up \cap Holds = {} /\ \A n \in up \cup Holds : Preds(n) \subseteq up

LEMMA FinalAtTheEnd ==
    ASSUME NEW e \in Engine, WalkOf(e), LayerOver(e), NextLayer(e.res) = {}, Verdict(e) = "waiting_approval"
    PROVE  Final(e.res) /\ \E n \in Nodes : e.res[n] = "waiting"
<1>1. /\ \E n \in Nodes : e.res[n] = "waiting"
      /\ \A n \in Nodes : e.res[n] \notin {"failed", "rejected"}
    BY DEF Verdict
<1>2. \A n \in Nodes : e.res[n] \notin {"asking", "attaching"}
    BY DEF WalkOf, LayerOver, Open
<1>3. \A n \in Nodes : e.res[n] \in Ended \cup {"todo", "skipped", "waiting"}
    BY <1>1, <1>2 DEF Engine, Local, Saved
<1>4. \A n \in Nodes : e.res[n] = "todo" => \E p \in Preds(n) : e.res[p] = "todo"
    BY DEF NextLayer
<1>5. \A n \in Nodes : e.res[n] # "todo" => (e.res[n] = "skipped" <=> IsSkipped(e.res, n))
    BY DEF WalkOf, Behind
<1> QED
    BY <1>1, <1>3, <1>4, <1>5 DEF Final, WalkOf

LEMMA ReplayBegins ==
    ASSUME TypeOK, NEW c, NEW seen \in Row, Snap(c, seen), NEW up \in SUBSET Nodes
    PROVE  /\ Replay(Engaged(Prior(seen)), seen.res, up)
           /\ \A n \in Nodes : c[n] = 1 => Prior(seen)[n] # "todo"
<1>1. \A n \in Nodes : /\ seen.res[n] \in Done => Prior(seen)[n] = seen.res[n]
                       /\ seen.res[n] \in Done \cup {"waiting"} => Prior(seen)[n] # "todo"
    BY PriorSettled DEF Snap, Done
<1>2. /\ \A n \in Nodes : Engaged(Prior(seen)).res[n] = "todo"
      /\ Engaged(Prior(seen)).layer = {} /\ Engaged(Prior(seen)).prior = Prior(seen)
    BY DEF Engaged, Nothing
<1>3. Holds \subseteq Nodes
    BY DEF Holds
<1> QED
    BY <1>1, <1>2, <1>3 DEF Replay, Snap

LEMMA ReplayEnters ==
    ASSUME NEW e \in Engine, WalkOf(e), NEW f, Enters(e, f), NEW up \in SUBSET Nodes, LeadsUp(up),
           NEW s, Replay(e, s, up)
    PROVE  Replay(f, s, up)
<1>0. Holds \subseteq Nodes
    BY DEF Holds
<1>1. \A n \in Nodes : f.res[n] = IF n \notin f.layer THEN e.res[n]
                                  ELSE IF IsSkipped(e.res, n) THEN "skipped" ELSE e.prior[n]
    BY DEF Enters, Entered
<1>2. \A n \in Nodes : n \in f.layer => e.res[n] = "todo" /\ \A p \in Preds(n) : e.res[p] # "todo"
    BY DEF Enters, NextLayer
<1>3. \A n \in Nodes : e.prior[n] \notin {"waiting", "skipped", "asking", "attaching"}
    BY DEF WalkOf, Engine, Saved, Ended, Done
<1>4. ASSUME NEW n \in up \cup Holds, n \in f.layer
      PROVE  s[n] # "todo" /\ (s[n] = "skipped" => IsSkipped(e.res, n))
    <2>1. n \in Nodes /\ \A p \in Preds(n) : p \in up /\ e.res[p] # "todo" /\ s[p] # "todo"
        BY <1>0, <1>2, <1>4 DEF LeadsUp, Replay
    <2>2. \A p \in Preds(n) : s[p] \in Ended \cup {"skipped"} /\ (s[p] # "blank" => e.res[p] \in {"skipped", s[p]})
        BY <2>1 DEF Replay, Final, LeadsUp
    <2>3. s[n] # "todo"
        BY <2>1 DEF Replay, Final
    <2>4. IsSkipped(s, n) => IsSkipped(e.res, n)
        <3>1. CASE Preds(n) # {} /\ \A p \in Preds(n) : s[p] = "skipped"
            BY <2>2, <3>1 DEF IsSkipped
        <3>2. CASE \E p \in Preds(n) : Preds(n) = {p} /\ NotTaken(s, p, n)
            <4>1. PICK p \in Preds(n) : Preds(n) = {p} /\ NotTaken(s, p, n)
                BY <3>2
            <4>2. s[p] \in {"yes", "no"} /\ Branch[<<p, n>>] \notin {"any", s[p]} /\ e.res[p] \in {"skipped", s[p]}
                BY <2>2, <4>1 DEF NotTaken, Ended, Done
            <4> QED
                BY <4>1, <4>2 DEF IsSkipped, NotTaken
        <3> QED
            BY <3>1, <3>2 DEF IsSkipped
    <2> QED
        BY <2>1, <2>3, <2>4 DEF Replay, Final
<1>5. ASSUME NEW n \in up
      PROVE  /\ s[n] \in Done => f.prior[n] = s[n]
             /\ s[n] # "blank" => f.res[n] \in {"todo", "skipped", s[n]}
             /\ s[n] = "todo" => f.res[n] = "todo"
             /\ n \in f.layer /\ f.res[n] = "todo" => s[n] = "blank"
    <2>1. n \in Nodes /\ s[n] \in Ended \cup {"todo", "skipped"} /\ (s[n] \in Done => e.prior[n] = s[n])
        BY DEF LeadsUp, Replay, Final
    <2>2. f.prior = e.prior
        BY DEF Enters
    <2>3. CASE n \in f.layer
        BY <1>1, <1>4, <2>1, <2>2, <2>3 DEF Ended, Done
    <2>4. CASE n \notin f.layer
        BY <1>1, <2>1, <2>2, <2>4 DEF Replay
    <2> QED
        BY <2>3, <2>4
<1>6. ASSUME NEW n \in Holds
      PROVE  /\ s[n] \in Done \cup {"waiting"} => f.prior[n] # "todo"
             /\ f.res[n] \notin {"waiting", "asking", "attaching"}
             /\ n \in f.layer => f.res[n] # "todo"
    <2>1. /\ n \in Nodes /\ s[n] \in Done \cup {"todo", "skipped", "waiting"}
          /\ s[n] \in Done \cup {"waiting"} => e.prior[n] # "todo"
          /\ e.res[n] \notin {"waiting", "asking", "attaching"}
        BY <1>0 DEF Replay, Final, Ended
    <2>2. f.prior = e.prior
        BY DEF Enters
    <2>3. CASE n \in f.layer
        BY <1>1, <1>3, <1>4, <2>1, <2>2, <2>3 DEF Done
    <2>4. CASE n \notin f.layer
        BY <1>1, <2>1, <2>2, <2>4
    <2> QED
        BY <2>3, <2>4
<1> QED
    BY <1>5, <1>6 DEF Replay

LEMMA ReplayGets ==
    ASSUME NEW e, WalkOf(e), NEW f, NEW n \in Nodes, NEW o, Gets(e, f, n, o), NEW up \in SUBSET Nodes,
           NEW s, Replay(e, s, up)
    PROVE  Replay(f, s, up)
<1>1. n \notin Holds /\ (n \in up => s[n] = "blank")
    BY DEF Gets, Open, WalkOf, Replay, Final
<1>2. Holds \subseteq Nodes
    BY DEF Holds
<1>3. /\ f.prior = e.prior /\ f.layer = e.layer /\ f.res[n] # "todo"
      /\ \A m \in up \cup Holds : m # n => f.res[m] = e.res[m]
    BY <1>1, <1>2 DEF Gets
<1> QED
    BY <1>1, <1>3 DEF Replay

\* What the invariant sees of the tasks: a step that puts none on run r and
\* changes nothing one on it has read.
TasksStayOn(r) ==
    \A q \in Requests : task'[q].pc \in Following /\ task'[q].run = r =>
        /\ task[q].run = r /\ task'[q].seen = task[q].seen
        /\ task'[q].pc = task[q].pc \/ (task[q].pc = "check" /\ task'[q].pc = "claim")

\* Steps that leave a run alone, end it or its engine, or conclude it.
LEMMA RanFrame ==
    ASSUME TypeOK, NEW r \in Runs, NEW up, eng[r].pc # "off" => WalkOf(eng[r]), RanOf(r, up),
           ran'[r] = ran[r], TasksStayOn(r),
           eng'[r].pc = "off" \/ Stays(eng[r], eng'[r]) \/ Concludes(eng[r], eng'[r]),
           row'[r] = row[r] \/ row'[r].status \notin {"none", "waiting_approval"}
    PROVE  RanOf(r, up)'
<1>1. /\ \A n \in Nodes : ran'[r][n] \in {0, 1}
      /\ row'[r].status = "none" => \A n \in Nodes : ran'[r][n] = 0
      /\ row'[r].status = "waiting_approval" => row'[r] = row[r] /\ Snap(ran'[r], row'[r])
    BY DEF RanOf
<1>2. ASSUME eng'[r].pc # "off"
      PROVE  eng[r].pc # "off" /\ SameWalk(eng[r], eng'[r]) /\ EngineRan(ran'[r], eng'[r], up)
    <2>1. eng[r].pc # "off" /\ SameWalk(eng[r], eng'[r])
        BY <1>2 DEF Stays, Concludes
    <2>2. EngineRan(ran[r], eng[r], up) /\ WalkOf(eng[r])
        BY <2>1 DEF RanOf
    <2>3. ASSUME NEW s, Replay(eng[r], s, up) PROVE Replay(eng'[r], s, up)
        BY <2>1, <2>3 DEF Replay, SameWalk
    <2>4. eng'[r].pc = "commit" => eng'[r].verdict # "none"
        BY <1>2, <2>2 DEF Stays, Concludes, EngineRan
    <2>5. eng'[r].pc = "commit" /\ eng'[r].verdict = "waiting_approval" =>
            Final(eng'[r].res) /\ \E n \in Nodes : eng'[r].res[n] = "waiting"
        <3>1. CASE Stays(eng[r], eng'[r])
            BY <2>2, <3>1 DEF Stays, SameWalk, EngineRan
        <3>2. CASE Concludes(eng[r], eng'[r])
            <4>1. eng[r] \in Engine
                BY DEF TypeOK
            <4>2. eng'[r].verdict = "waiting_approval" =>
                    Final(eng[r].res) /\ \E n \in Nodes : eng[r].res[n] = "waiting"
                BY <2>2, <3>2, <4>1, FinalAtTheEnd DEF Concludes
            <4> QED
                BY <2>1, <4>2 DEF SameWalk
        <3> QED
            BY <1>2, <3>1, <3>2
    <2> QED
        BY <2>1, <2>2, <2>3, <2>4, <2>5 DEF EngineRan, SameWalk
<1>3. ASSUME NEW q \in Requests, OnRun(q, r)'
      PROVE  TaskRan(q, r)'
    <2>1. /\ task[q].run = r /\ task'[q].seen = task[q].seen
          /\ task'[q].pc = task[q].pc \/ (task[q].pc = "check" /\ task'[q].pc = "claim")
        BY <1>3 DEF OnRun, TasksStayOn, Following
    <2>2. TaskRan(q, r)
        BY <1>3, <2>1 DEF OnRun, RanOf, Following
    <2>3. row'[r].status # "none" /\ ~(eng'[r].pc # "off" /\ eng'[r].prior = Nothing)
        BY <1>2, <2>2 DEF TaskRan, SameWalk
    <2> QED
        BY <1>1, <2>1, <2>2, <2>3 DEF TaskRan
<1> QED
    BY <1>1, <1>2, <1>3 DEF RanOf

\* The first engine of a run, before which nothing of it ran.
LEMMA RanStart ==
    ASSUME TypeOK, NEW r \in Runs, NEW up, RanOf(r, up), Start(r)
    PROVE  RanOf(r, up)'
<1>0. row \in [Runs -> Row] /\ row[r] \in Row /\ eng \in [Runs -> Engine]
    BY DEF TypeOK
<1>1. row[r].status = "none" /\ eng'[r] = Engaged(Nothing) /\ ran' = ran /\ task' = task
    BY <1>0 DEF Start
<1>2. row'[r].status = "running"
    <2>1. [row[r] EXCEPT !.status = "running"].status = "running"
        BY <1>0 DEF Row
    <2> QED
        BY <1>0, <2>1 DEF Start
<1>3. \A n \in Nodes : ran[r][n] = 0
    BY <1>1 DEF RanOf
<1>4. \A q \in Requests : ~OnRun(q, r)
    BY <1>1 DEF RanOf, TaskRan
<1>5. eng'[r].pc = "walk" /\ eng'[r].prior = Nothing
    BY <1>1 DEF Engaged
<1>6. EngineRan(ran'[r], eng'[r], up)
    BY <1>1, <1>3, <1>5 DEF EngineRan
<1> QED
    BY <1>1, <1>2, <1>3, <1>4, <1>6 DEF RanOf, OnRun, Following

\* The engine walks on: the run neither waits nor is a task about to enter it.
LEMMA RanWalks ==
    ASSUME TypeOK, CarriedInv, NEW r \in Runs, NEW up, RanOf(r, up),
           row' = row, task' = task, eng[r].pc # "off", eng'[r].prior = eng[r].prior,
           \A n \in Nodes : ran'[r][n] \in {0, 1}, EngineRan(ran'[r], eng'[r], up)
    PROVE  RanOf(r, up)'
<1>1. row[r].status \notin {"none", "waiting_approval"}
    BY DEF CarriedInv
<1>2. \A q \in Requests : task[q].run = r => task[q].pc # "enter"
    BY DEF CarriedInv, CarriedOnByOne
<1>3. ASSUME NEW q \in Requests, OnRun(q, r)' PROVE TaskRan(q, r)'
    <2>1. TaskRan(q, r)
        BY <1>3 DEF OnRun, RanOf, Following
    <2> QED
        BY <1>1, <1>2, <1>3, <2>1 DEF TaskRan, OnRun, Following
<1> QED
    BY <1>1, <1>3 DEF RanOf

LEMMA RanEnters ==
    ASSUME TypeOK, CarriedInv, NEW r \in Runs, WalkOf(eng[r]),
           NEW up \in SUBSET Nodes, LeadsUp(up), RanOf(r, up), EnterLayer(r)
    PROVE  RanOf(r, up)'
<1>1. row' = row /\ task' = task /\ ran' = ran /\ Enters(eng[r], eng'[r]) /\ eng[r] \in Engine
    BY EntersLayer DEF EnterLayer, TypeOK
<1>2. eng[r].pc # "off" /\ eng'[r].pc = "walk" /\ eng'[r].prior = eng[r].prior
    BY <1>1 DEF Enters
<1>3. EngineRan(ran[r], eng[r], up)
    BY <1>2 DEF RanOf
<1>4. \A n \in Nodes : eng[r].res[n] \notin {"todo", "skipped", "blank"} =>
                          eng'[r].res[n] \notin {"todo", "skipped", "blank"}
    BY <1>1 DEF Enters, Entered, NextLayer
<1>5. EngineRan(ran'[r], eng'[r], up)
    BY <1>1, <1>2, <1>3, <1>4, ReplayEnters DEF EngineRan
<1>6. \A n \in Nodes : ran'[r][n] \in {0, 1}
    BY <1>1 DEF RanOf
<1> QED
    BY <1>1, <1>2, <1>5, <1>6, RanWalks

\* A step that is still to do was not handed over, so it has not run.
LEMMA RanNode ==
    ASSUME TypeOK, CarriedInv, NEW r \in Runs, NEW n \in Nodes, WalkOf(eng[r]),
           NEW up \in SUBSET Nodes, RanOf(r, up), NodeStep(r, n)
    PROVE  RanOf(r, up)'
<1>1. row' = row /\ task' = task
    BY DEF NodeStep, RunNode, HoldLookup, HoldCreate, StageChanges, AttachApproval
<1>2. PICK o : Gets(eng[r], eng'[r], n, o)
    BY NodeGets
<1>3. \A m \in Nodes : ran'[r][m] = IF m = n /\ eng[r].res[n] = "todo" /\ eng'[r].res[n] # "blank"
                                    THEN ran[r][m] + 1 ELSE ran[r][m]
    BY NodeGets
<1>4. eng[r].pc # "off" /\ eng'[r].pc = "walk" /\ eng'[r].prior = eng[r].prior
    BY <1>2 DEF Gets
<1>5. EngineRan(ran[r], eng[r], up) /\ \A m \in Nodes : ran[r][m] \in {0, 1}
    BY <1>4 DEF RanOf
<1>6. eng[r].res[n] = "todo" => ran[r][n] = 0
    BY <1>2, <1>5 DEF EngineRan, WalkOf, Gets
<1>7. \A m \in Nodes : ran'[r][m] \in {0, 1}
    BY <1>3, <1>5, <1>6
<1>8. \A m \in Nodes : ran'[r][m] = 1 => eng'[r].res[m] \notin {"todo", "skipped", "blank"} \/ eng'[r].prior[m] # "todo"
    <2>1. \A m \in Nodes \ {n} : ran'[r][m] = ran[r][m] /\ eng'[r].res[m] = eng[r].res[m]
        BY <1>2, <1>3 DEF Gets
    <2>2. eng'[r].res[n] \notin {"todo", "skipped"} /\ (eng'[r].res[n] = "blank" => ran'[r][n] = 0)
        <3>1. eng'[r].res[n] = o /\ o \notin {"todo", "skipped"} /\ (o = "blank" => eng[r].res[n] = "todo")
            BY <1>2 DEF Gets, Open, WalkOf
        <3> QED
            BY <1>3, <1>6, <3>1
    <2> QED
        BY <1>4, <1>5, <2>1, <2>2 DEF EngineRan
<1>9. EngineRan(ran'[r], eng'[r], up)
    <2>1. eng'[r].prior # Nothing => \E s \in [Nodes -> Saved] : Replay(eng'[r], s, up)
        BY <1>2, <1>4, <1>5, ReplayGets DEF EngineRan
    <2> QED
        BY <1>4, <1>8, <2>1 DEF EngineRan
<1> QED
    BY <1>1, <1>4, <1>7, <1>9, RanWalks

\* Only a first engine comes to wait, and no task is on its run.
LEMMA RanCommit ==
    ASSUME TypeOK, NEW r \in Runs, WalkOf(eng[r]),
           NEW up \in SUBSET Nodes, RanOf(r, up), Commit(r), eng[r].verdict = "waiting_approval",
           row'[r].status = "waiting_approval", row'[r].res = Recorded(eng[r]), row'[r].ask = eng[r].ask
    PROVE  RanOf(r, up)'
<1>0. eng \in [Runs -> Engine] /\ eng[r] \in Engine
    BY DEF TypeOK
<1>1. eng[r].pc = "commit" /\ eng'[r] = Off /\ ran' = ran
    BY <1>0 DEF Commit
<1>2. eng'[r].pc = "off"
    BY <1>1 DEF Off, Engaged
<1>3. EngineRan(ran[r], eng[r], up) /\ Final(eng[r].res) /\ \E n \in Nodes : eng[r].res[n] = "waiting"
    BY <1>1 DEF RanOf, EngineRan
<1>4. eng[r].prior = Nothing
    <2>1. \E n \in Holds : eng[r].res[n] = "waiting"
        BY <1>3 DEF WalkOf
    <2> QED
        BY <1>3, <2>1 DEF EngineRan, Replay
<1>5. \A n \in Nodes : Recorded(eng[r])[n] = eng[r].res[n]
    <2>1. \A m \in eng[r].layer : eng[r].res[m] \notin Open
        <3> SUFFICES ASSUME NEW m \in eng[r].layer PROVE eng[r].res[m] \notin Open
            OBVIOUS
        <3>1. m \in Nodes /\ eng[r].res[m] \in Ended \cup {"todo", "skipped", "waiting"}
            BY <1>0, <1>3 DEF Final, Engine
        <3>2. eng[r].res[m] # "todo"
            BY <1>3, <3>1 DEF Final, WalkOf, Behind, Open
        <3> QED
            BY <3>1, <3>2 DEF Open, Ended, Done
    <2>2. \A n \in Nodes : eng[r].res[n] \notin {"asking", "attaching"}
        BY <1>3 DEF Final, Ended, Done
    <2> QED
        BY <2>1, <2>2 DEF Recorded, CutShort
<1>6. Final(row'[r].res)
    <2>1. \A n \in Nodes : IsSkipped(Recorded(eng[r]), n) <=> IsSkipped(eng[r].res, n)
        <3>1. \A n \in Nodes : Preds(n) \subseteq Nodes
            BY DEF Preds
        <3> QED
            BY <1>5, <3>1, SkippedByPreds
    <2>2. \A n \in Nodes : Preds(n) \subseteq Nodes
        BY DEF Preds
    <2> QED
        BY <1>3, <1>5, <2>1, <2>2 DEF Final
<1>7. \A n \in Nodes : /\ ran'[r][n] = 1 => row'[r].res[n] \in Done \cup {"waiting"}
                       /\ row'[r].ask[n] # NoRequest <=> row'[r].res[n] = "waiting"
    <2>1. \A n \in Nodes : Nothing[n] = "todo"
        BY DEF Nothing
    <2>2. \A n \in Nodes : eng[r].res[n] \in Ended \cup {"todo", "skipped", "waiting"}
        BY <1>3 DEF Final
    <2>3. \A n \in Nodes : ran[r][n] = 1 => eng[r].res[n] \notin {"todo", "skipped", "blank"}
        BY <1>3, <1>4, <2>1 DEF EngineRan
    <2>4. \A n \in Nodes : eng[r].ask[n] # NoRequest <=> eng[r].res[n] = "waiting"
        BY <2>2 DEF WalkOf, Ended, Done
    <2> QED
        BY <1>1, <1>5, <2>2, <2>3, <2>4 DEF Ended
<1>8. \A q \in Requests : ~OnRun(q, r)'
    <2>1. \A q \in Requests : ~OnRun(q, r)
        BY <1>1, <1>4 DEF RanOf, TaskRan
    <2>2. \A q \in Requests : task'[q].run = task[q].run /\ task'[q].pc \in {"next", task[q].pc}
        BY WalkEndsKeeps DEF Commit
    <2> QED
        BY <2>1, <2>2 DEF OnRun, Following
<1> QED
    BY <1>1, <1>2, <1>6, <1>7, <1>8 DEF RanOf, Snap

\* A task comes to a run that waits.
LEMMA RanRead ==
    ASSUME TypeOK, CarriedInv, NEW r \in Runs, NEW up, RanOf(r, up), NEW q \in Requests,
           row[r].status = "waiting_approval", row[r].ask # NoAsks, UNCHANGED <<row, eng, ran>>,
           \A x \in Requests \ {q} : task'[x] = task[x],
           task'[q].pc = "check", task'[q].run = r, task'[q].seen = row[r]
    PROVE  RanOf(r, up)'
<1>1. eng[r].pc = "off"
    BY DEF CarriedInv
<1>2. TaskRan(q, r)'
    BY <1>1 DEF TaskRan
<1>3. ASSUME NEW x \in Requests \ {q}, OnRun(x, r)' PROVE TaskRan(x, r)'
    BY <1>3 DEF OnRun, RanOf, TaskRan, Following
<1> QED
    BY <1>2, <1>3 DEF RanOf

\* It claims the run: what it read is still the record.
LEMMA RanClaims ==
    ASSUME TypeOK, CarriedInv, NEW r \in Runs, NEW up, RanOf(r, up), NEW q \in Requests,
           task[q].pc = "claim", task[q].run = r, row[r].status = "waiting_approval",
           row'[r].status = "running", UNCHANGED <<eng, ran>>,
           \A x \in Requests \ {q} : task'[x] = task[x],
           task'[q].pc = "enter", task'[q].run = r, task'[q].seen = task[q].seen
    PROVE  RanOf(r, up)'
<1>1. eng[r].pc = "off" /\ \A x \in Requests : ~OnIt(x, r)
    BY DEF CarriedInv
<1>2. TaskRan(q, r) /\ Snap(ran[r], row[r])
    BY DEF RanOf, OnRun, Following
<1>3. Snap(ran[r], task[q].seen)
    BY <1>2 DEF TaskRan, Snap
<1>4. TaskRan(q, r)'
    BY <1>1, <1>2, <1>3 DEF TaskRan
<1>5. ASSUME NEW x \in Requests \ {q}, OnRun(x, r)' PROVE TaskRan(x, r)'
    BY <1>1, <1>5 DEF OnRun, RanOf, TaskRan, OnIt, Following
<1> QED
    BY <1>1, <1>4, <1>5 DEF RanOf

\* And hands what it read to the engine.
LEMMA RanEntersEngine ==
    ASSUME TypeOK, CarriedInv, NEW r \in Runs, NEW up \in SUBSET Nodes, RanOf(r, up),
           NEW q \in Requests, EnterEngine(q), task[q].run = r
    PROVE  RanOf(r, up)'
<1>0. /\ eng \in [Runs -> Engine] /\ task \in [Requests -> Task] /\ task[q] \in Task
      /\ task[q].seen \in Row /\ task[q].seen.ask \in [Nodes -> Requests \cup {NoRequest}]
      /\ task[q].seen.res \in [Nodes -> Saved]
    BY DEF TypeOK, Task, Row
<1>1. /\ task[q].pc = "enter" /\ UNCHANGED <<row, ran>>
      /\ eng'[r] = Engaged(Prior(task[q].seen))
      /\ task' = [task EXCEPT ![q].pc = "walk"]
    BY <1>0 DEF EnterEngine
<1>2. /\ task'[q].pc = "walk" /\ task'[q].run = r /\ task'[q].seen = task[q].seen
      /\ \A x \in Requests \ {q} : task'[x] = task[x]
    <2>1. /\ [task[q] EXCEPT !.pc = "walk"].pc = "walk" /\ [task[q] EXCEPT !.pc = "walk"].run = task[q].run
          /\ [task[q] EXCEPT !.pc = "walk"].seen = task[q].seen
        BY <1>0 DEF Task
    <2> QED
        BY <1>0, <1>1, <2>1
<1>3. TaskRan(q, r) /\ Snap(ran[r], task[q].seen)
    BY <1>1 DEF RanOf, OnRun, TaskRan, Following
<1>4. row[r].status \notin {"none", "waiting_approval"} /\ \A x \in Requests \ {q} : ~OnIt(x, r)
    BY <1>1 DEF CarriedInv, CarriedOnByOne, OnIt
<1>5. eng'[r].pc = "walk" /\ eng'[r].prior = Prior(task[q].seen)
    BY <1>1 DEF Engaged
<1>6. Prior(task[q].seen) # Nothing
    <2>1. \E n \in Nodes : task[q].seen.ask[n] # NoRequest
        BY <1>0, <1>3 DEF TaskRan, NoAsks
    <2> QED
        BY <2>1, PriorSettled DEF Nothing
<1>7. EngineRan(ran'[r], eng'[r], up)
    <2>1. /\ Replay(eng'[r], task[q].seen.res, up)
          /\ \A n \in Nodes : ran[r][n] = 1 => Prior(task[q].seen)[n] # "todo"
        BY <1>0, <1>1, <1>3, ReplayBegins
    <2> QED
        BY <1>0, <1>1, <1>5, <2>1 DEF EngineRan
<1>8. TaskRan(q, r)'
    BY <1>1, <1>2, <1>3, <1>4, <1>5, <1>6 DEF TaskRan
<1>9. ASSUME NEW x \in Requests \ {q}, OnRun(x, r)' PROVE TaskRan(x, r)'
    BY <1>1, <1>2, <1>4, <1>5, <1>6, <1>9 DEF OnRun, RanOf, TaskRan, OnIt, Following
<1> QED
    BY <1>1, <1>4, <1>7, <1>8, <1>9 DEF RanOf

\* A task that does not go on with a run.
LEMMA TaskLetsGo ==
    ASSUME TypeOK, NEW q \in Requests, NEW p, p \notin Following,
           \/ task' = [task EXCEPT ![q].pc = p]
           \/ \E S : task' = [task EXCEPT ![q].pc = p, ![q].left = S]
           \/ \E o : task' = [task EXCEPT ![q].pc = p, ![q].out = o]
    PROVE  \A r \in Runs : TasksStayOn(r)
<1>0. task \in [Requests -> Task] /\ task[q] \in Task
    BY DEF TypeOK
<1>1. \A x \in Requests \ {q} : task'[x] = task[x]
    BY <1>0
<1>2. task'[q].pc = p
    <2>1. CASE task' = [task EXCEPT ![q].pc = p]
        BY <2>1, TaskPcAfter
    <2>2. CASE \E S : task' = [task EXCEPT ![q].pc = p, ![q].left = S]
        <3>1. PICK S : task' = [task EXCEPT ![q].pc = p, ![q].left = S]
            BY <2>2
        <3>2. task'[q] = [task[q] EXCEPT !.pc = p, !.left = S]
            BY <1>0, <3>1
        <3> QED
            BY <1>0, <3>2, TaskAfter
    <2>3. CASE \E o : task' = [task EXCEPT ![q].pc = p, ![q].out = o]
        <3>1. PICK o : task' = [task EXCEPT ![q].pc = p, ![q].out = o]
            BY <2>3
        <3>2. task'[q] = [task[q] EXCEPT !.pc = p, !.out = o]
            BY <1>0, <3>1
        <3> QED
            BY <1>0, <3>2, TaskAfter
    <2> QED
        BY <2>1, <2>2, <2>3
<1> QED
    BY <1>1, <1>2 DEF TasksStayOn, Following

LEMMA TaskCalls ==
    ASSUME TypeOK, NEW q \in Requests,
           \/ \E d \in {"approved", "refused"} : Decide(q, d)
           \/ ClaimCall(q) \/ MakeCall(q) \/ KeepResult(q) \/ SettleSet(q) \/ ApplyChange(q) \/ KeepSet(q)
           \/ FindWaiting(q) \/ CheckSettled(q) \/ CrashTask(q)
    PROVE  \A r \in Runs : TasksStayOn(r)
<1>1. CASE task' = task
    BY <1>1 DEF TasksStayOn, Following
<1>2. ASSUME NEW p \in {"settle", "claim_call", "find", "done", "call", "dead", "next", "apply"},
             task' = [task EXCEPT ![q].pc = p]
      PROVE  \A r \in Runs : TasksStayOn(r)
    BY <1>2, TaskLetsGo DEF Following
<1>3. ASSUME NEW S, task' = [task EXCEPT ![q].pc = "next", ![q].left = S]
       PROVE  \A r \in Runs : TasksStayOn(r)
    <2>1. PICK p : p = "next" /\ p \notin Following /\ task' = [task EXCEPT ![q].pc = p, ![q].left = S]
        BY <1>3 DEF Following
    <2> QED
        BY <2>1, TaskLetsGo
<1>4. ASSUME NEW p \in {"keep", "keep_set"}, NEW o, task' = [task EXCEPT ![q].pc = p, ![q].out = o]
       PROVE  \A r \in Runs : TasksStayOn(r)
    BY <1>4, TaskLetsGo DEF Following
<1>5. CASE \E d \in {"approved", "refused"} : Decide(q, d)
    <2>1. PICK d \in {"approved", "refused"} : task' = [task EXCEPT ![q].pc = Listener(q, d)]
        BY <1>5 DEF Decide
    <2>2. Listener(q, d) \in {"settle", "claim_call", "find"}
        BY DEF Listener
    <2> QED
        BY <1>2, <2>1, <2>2
<1>6. CASE ClaimCall(q) \/ KeepResult(q) \/ CrashTask(q)
    BY <1>2, <1>6 DEF ClaimCall, KeepResult, CrashTask
<1>7. CASE MakeCall(q)
    <2>1. PICK o : task' = [task EXCEPT ![q].pc = "keep", ![q].out = o]
        BY <1>7 DEF MakeCall
    <2> QED
        BY <1>4, <2>1
<1>8. CASE ApplyChange(q)
    <2>1. task' = task \/ \E o : task' = [task EXCEPT ![q].pc = "keep_set", ![q].out = o]
        BY <1>8 DEF ApplyChange
    <2> QED
        BY <1>1, <1>4, <2>1
<1>9. CASE SettleSet(q) \/ KeepSet(q)
    <2>1. \/ \E S : task' = [task EXCEPT ![q].pc = "next", ![q].left = S]
          \/ task' = [task EXCEPT ![q].pc = "apply"]
        BY <1>9 DEF SettleSet, KeepSet, ToResume
    <2> QED
        BY <1>2, <1>3, <2>1
<1>10. CASE FindWaiting(q)
    <2>1. \E S : task' = [task EXCEPT ![q].pc = "next", ![q].left = S]
        BY <1>10 DEF FindWaiting
    <2> QED
        BY <1>3, <2>1
<1>11. CASE CheckSettled(q)
    <2>1. task[q].pc = "check" /\ (task' = [task EXCEPT ![q].pc = "claim"] \/ task' = [task EXCEPT ![q].pc = "next"])
        BY <1>11 DEF CheckSettled
    <2>2. ASSUME task' = [task EXCEPT ![q].pc = "claim"] PROVE \A r \in Runs : TasksStayOn(r)
        <3>1. task \in [Requests -> Task] /\ task[q] \in Task
            BY DEF TypeOK
        <3>2. /\ [task[q] EXCEPT !.pc = "claim"].pc = "claim" /\ [task[q] EXCEPT !.pc = "claim"].run = task[q].run
              /\ [task[q] EXCEPT !.pc = "claim"].seen = task[q].seen
            BY <3>1 DEF Task
        <3>3. /\ task'[q].pc = "claim" /\ task'[q].run = task[q].run /\ task'[q].seen = task[q].seen
              /\ \A x \in Requests \ {q} : task'[x] = task[x]
            BY <2>2, <3>1, <3>2
        <3> QED
            BY <2>1, <3>3 DEF TasksStayOn, Following
    <2> QED
        BY <1>2, <2>1, <2>2
<1> QED
    BY <1>5, <1>6, <1>7, <1>8, <1>9, <1>10, <1>11

LEMMA TasksStayAtEnd ==
    ASSUME TypeOK, NEW x \in Runs, NEW p \in {"next", "dead"}, task' = WalkEnds(x, p)
    PROVE  \A r \in Runs : TasksStayOn(r)
<1>1. \A q \in Requests : /\ task'[q].run = task[q].run /\ task'[q].seen = task[q].seen
                          /\ task'[q].pc \in {p, task[q].pc}
    BY WalkEndsKeeps
<1> QED
    BY <1>1 DEF TasksStayOn, Following

\* Everything the proof has of the state, for the lemmas on the actions.
Walks == TypeOK /\ CarriedInv /\ WalkInv

LEMMA RanRunStep ==
    ASSUME Walks, NEW r \in Runs, NEW up \in SUBSET Nodes, LeadsUp(up), RanOf(r, up),
           NEW x \in Runs, RunStep(x), [Next]_vars
    PROVE  RanOf(r, up)'
<1>0. /\ TypeOK /\ CarriedInv /\ eng \in [Runs -> Engine] /\ row \in [Runs -> Row] /\ ran \in [Runs -> [Nodes -> Nat]]
      /\ eng[r].pc # "off" => WalkOf(eng[r])
    BY DEF Walks, TypeOK, WalkInv
<1>1. task' = task => TasksStayOn(r)
    BY DEF TasksStayOn, Following
<1>2. CASE Start(x)
    <2>1. x # r => row'[r] = row[r] /\ eng'[r] = eng[r] /\ ran' = ran /\ task' = task
        BY <1>0, <1>2 DEF Start
    <2>2. x # r => RanOf(r, up)'
        BY <1>0, <1>1, <2>1, RanFrame DEF Stays, SameWalk
    <2> QED
        BY <1>0, <1>2, <2>2, RanStart
<1>3. CASE EnterLayer(x)
    <2>1. x # r => row' = row /\ eng'[r] = eng[r] /\ ran' = ran /\ task' = task
        BY <1>0, <1>3, EntersLayer DEF EnterLayer
    <2>2. x # r => RanOf(r, up)'
        BY <1>0, <1>1, <2>1, RanFrame DEF Stays, SameWalk
    <2>3. x = r => WalkOf(eng[r])
        BY <1>0, <1>3 DEF EnterLayer, AtBoundary, Walking
    <2> QED
        BY <1>0, <1>3, <2>2, <2>3, RanEnters
<1>4. CASE LayerCancelled(x) \/ LimitMet(x) \/ Finish(x)
    <2>1. row' = row /\ ran' = ran /\ task' = task
        BY <1>4 DEF LayerCancelled, LimitMet, Finish, Conclude
    <2>2. eng'[r] = eng[r] \/ Concludes(eng[r], eng'[r])
        BY <1>0, <1>4, ConcludesRun
    <2> QED
        BY <1>0, <1>1, <2>1, <2>2, RanFrame DEF Stays, SameWalk
<1>5. CASE Commit(x)
    <2>1. ran' = ran /\ TasksStayOn(r)
        BY <1>0, <1>5, TasksStayAtEnd DEF Commit
    <2>2. eng'[r].pc = "off" \/ Stays(eng[r], eng'[r])
        <3>1. eng'[r] = eng[r] \/ eng'[r] = Off
            BY <1>0, <1>5 DEF Commit
        <3> QED
            BY <3>1 DEF Off, Engaged, Stays, SameWalk
    <2>3. CASE row'[r] = row[r] \/ row'[r].status \notin {"none", "waiting_approval"}
        BY <1>0, <2>1, <2>2, <2>3, RanFrame
    <2>4. CASE row'[r] # row[r] /\ row'[r].status = "waiting_approval"
        <3>1. /\ Commit(r) /\ eng[r].pc = "commit" /\ eng[r].verdict = "waiting_approval"
              /\ row'[r].res = Recorded(eng[r]) /\ row'[r].ask = eng[r].ask
            BY <1>0, <2>4, WaitsByCommit
        <3> QED
            BY <1>0, <2>4, <3>1, RanCommit
    <2>5. CASE row'[r] # row[r] /\ row'[r].status = "none"
        <3>1. row'[r].status = eng[r].verdict /\ x = r
            BY <1>0, <1>5, <2>5 DEF Commit
        <3> QED
            BY <1>5, <2>5, <3>1 DEF Commit, RanOf, EngineRan
    <2> QED
        BY <2>3, <2>4, <2>5
<1>6. ASSUME NEW n \in Nodes, NodeStep(x, n) PROVE RanOf(r, up)'
    <2>1. row' = row /\ task' = task
        BY <1>6 DEF NodeStep, RunNode, HoldLookup, HoldCreate, StageChanges, AttachApproval
    <2>2. eng[x].pc # "off"
        BY <1>6 DEF NodeStep, RunNode, HoldLookup, HoldCreate, StageChanges, AttachApproval, Ready, Walking
    <2>3. WalkOf(eng[x])
        BY <2>2 DEF Walks, WalkInv
    <2>4. x # r => eng'[r] = eng[r] /\ ran'[r] = ran[r]
        BY <1>0, <1>6, <2>3, NodeGets
    <2>5. x # r => RanOf(r, up)'
        BY <1>0, <1>1, <2>1, <2>4, RanFrame DEF Stays, SameWalk
    <2> QED
        BY <1>0, <1>6, <2>3, <2>5, RanNode
<1> QED
    BY <1>2, <1>3, <1>4, <1>5, <1>6 DEF RunStep, NodeStep

LEMMA RanTaskStep ==
    ASSUME Walks, NEW r \in Runs, NEW up \in SUBSET Nodes, RanOf(r, up),
           NEW q \in Requests,
           TaskStep(q) \/ CrashTask(q) \/ \E d \in {"approved", "refused"} : Decide(q, d)
    PROVE  RanOf(r, up)'
<1>0. /\ TypeOK /\ CarriedInv /\ eng \in [Runs -> Engine] /\ row \in [Runs -> Row]
      /\ task \in [Requests -> Task] /\ task[q] \in Task /\ task[q].run \in Runs
      /\ eng[r].pc # "off" => WalkOf(eng[r])
    BY DEF Walks, TypeOK, WalkInv, Task
<1>1. ASSUME UNCHANGED <<row, eng, ran>>, TasksStayOn(r) PROVE RanOf(r, up)'
    BY <1>0, <1>1, RanFrame DEF Stays, SameWalk
<1>2. ASSUME NEW p \in TaskPc, task' = [task EXCEPT ![q].pc = p]
      PROVE  /\ task'[q].pc = p /\ task'[q].run = task[q].run /\ task'[q].seen = task[q].seen
             /\ \A x \in Requests \ {q} : task'[x] = task[x]
    <2>1. /\ [task[q] EXCEPT !.pc = p].pc = p /\ [task[q] EXCEPT !.pc = p].run = task[q].run
          /\ [task[q] EXCEPT !.pc = p].seen = task[q].seen
        BY <1>0 DEF Task
    <2> QED
        BY <1>0, <1>2, <2>1
<1>3. ASSUME task' = [task EXCEPT ![q].pc = "next"] \/ task' = [task EXCEPT ![q].pc = "done"]
      PROVE  TasksStayOn(r)
    <2>1. PICK p \in {"next", "done"} : task' = [task EXCEPT ![q].pc = p]
        BY <1>3
    <2> QED
        BY <1>0, <2>1, TaskLetsGo DEF Following
<1>4. CASE \/ \E d \in {"approved", "refused"} : Decide(q, d)
           \/ ClaimCall(q) \/ MakeCall(q) \/ KeepResult(q) \/ SettleSet(q) \/ ApplyChange(q) \/ KeepSet(q)
           \/ FindWaiting(q) \/ CheckSettled(q) \/ CrashTask(q)
    <2>1. UNCHANGED <<row, eng, ran>>
        BY <1>4 DEF Decide, ClaimCall, MakeCall, KeepResult, SettleSet, ApplyChange, KeepSet,
               FindWaiting, CheckSettled, CrashTask
    <2> QED
        BY <1>0, <1>1, <1>4, <2>1, TaskCalls
<1>5. CASE ReadRun(q)
    <2>1. UNCHANGED <<row, eng, ran>> /\ task[q].pc = "next"
        BY <1>5 DEF ReadRun
    <2>2. ASSUME task' = [task EXCEPT ![q].pc = "done"] PROVE RanOf(r, up)'
        BY <1>1, <1>3, <2>1, <2>2
    <2>3. ASSUME NEW y, task' = [task EXCEPT ![q].left = @ \ {y}] PROVE RanOf(r, up)'
        <3>1. task'[q].pc = "next" /\ \A x \in Requests \ {q} : task'[x] = task[x]
            BY <1>0, <2>1, <2>3 DEF Task
        <3> QED
            BY <1>1, <2>1, <3>1 DEF TasksStayOn, Following
    <2>4. ASSUME NEW y \in task[q].left, row[y].status = "waiting_approval", row[y].ask # NoAsks,
                 task' = [task EXCEPT ![q].pc = "check", ![q].left = @ \ {y}, ![q].run = y, ![q].seen = row[y]]
          PROVE  RanOf(r, up)'
        <3>1. y \in Runs
            BY <1>0 DEF Task
        <3>2. /\ task'[q].pc = "check" /\ task'[q].run = y /\ task'[q].seen = row[y]
              /\ \A x \in Requests \ {q} : task'[x] = task[x]
            BY <1>0, <2>4 DEF Task
        <3>3. y # r => TasksStayOn(r)
            BY <3>2 DEF TasksStayOn, Following
        <3> QED
            BY <1>0, <1>1, <2>1, <2>4, <3>2, <3>3, RanRead
    <2> QED
        BY <1>5, <2>2, <2>3, <2>4 DEF ReadRun
<1>6. CASE ClaimRun(q)
    <2>1. CASE ~Claimable(task[q].run)
        <3>1. UNCHANGED <<row, eng, ran>> /\ task' = [task EXCEPT ![q].pc = "next"]
            BY <1>6, <2>1 DEF ClaimRun
        <3> QED
            BY <1>1, <1>3, <3>1
    <2>2. CASE Claimable(task[q].run)
        <3> DEFINE y == task[q].run
        <3>1. /\ row' = [row EXCEPT ![y].status = "running"] /\ UNCHANGED <<eng, ran>>
              /\ task' = [task EXCEPT ![q].pc = "enter"] /\ task[q].pc = "claim"
            BY <1>6, <2>2 DEF ClaimRun
        <3>2. row[y].status = "waiting_approval" /\ y \in Runs
            BY <1>0, <2>2 DEF Claimable
        <3> HIDE DEF y
        <3>3. [row[y] EXCEPT !.status = "running"].status = "running"
            BY <1>0, <3>2 DEF Row
        <3>4. row'[y].status = "running" /\ \A x \in Runs \ {y} : row'[x] = row[x]
            BY <1>0, <3>1, <3>2, <3>3
        <3>5. /\ task'[q].pc = "enter" /\ task'[q].run = y /\ task'[q].seen = task[q].seen
              /\ \A x \in Requests \ {q} : task'[x] = task[x]
            BY <1>2, <3>1, TaskPcs DEF y
        <3>6. CASE y = r
            BY <1>0, <3>1, <3>2, <3>4, <3>5, <3>6, RanClaims DEF y
        <3>7. CASE y # r
            <4>1. TasksStayOn(r)
                BY <3>5, <3>7 DEF TasksStayOn, Following
            <4>2. row'[r] = row[r] /\ Stays(eng[r], eng'[r])
                BY <3>1, <3>4, <3>7 DEF Stays, SameWalk
            <4> QED
                BY <1>0, <3>1, <4>1, <4>2, RanFrame
        <3> QED
            BY <3>6, <3>7
    <2> QED
        BY <2>1, <2>2
<1>7. CASE EnterEngine(q)
    <2>1. /\ task[q].run # r => eng'[r] = eng[r]
          /\ UNCHANGED <<row, ran>> /\ task' = [task EXCEPT ![q].pc = "walk"]
        BY <1>0, <1>7 DEF EnterEngine
    <2>2. task'[q].run = task[q].run /\ \A x \in Requests \ {q} : task'[x] = task[x]
        BY <1>2, <2>1, TaskPcs
    <2>3. ASSUME task[q].run # r PROVE RanOf(r, up)'
        <3>1. TasksStayOn(r)
            BY <2>2, <2>3 DEF TasksStayOn, Following
        <3> QED
            BY <1>0, <2>1, <2>3, <3>1, RanFrame DEF Stays, SameWalk
    <2> QED
        BY <1>0, <1>7, <2>3, RanEntersEngine
<1>8. CASE ResumeRefused(q)
    <2>1. UNCHANGED <<eng, ran>> /\ task' = [task EXCEPT ![q].pc = "next"]
        BY <1>8 DEF ResumeRefused
    <2>2. row'[r] = row[r] \/ row'[r].status = "failed"
        <3>1. [row[r] EXCEPT !.status = "failed"].status = "failed"
            BY <1>0 DEF Row
        <3>2. row'[r] = row[r] \/ row'[r] = [row[r] EXCEPT !.status = "failed"]
            BY <1>0, <1>8 DEF ResumeRefused
        <3> QED
            BY <3>1, <3>2
    <2>3. TasksStayOn(r) /\ Stays(eng[r], eng'[r])
        BY <1>3, <2>1 DEF Stays, SameWalk
    <2> QED
        BY <1>0, <2>1, <2>2, <2>3, RanFrame
<1> QED
    BY <1>4, <1>5, <1>6, <1>7, <1>8 DEF TaskStep

LEMMA RanOthers ==
    ASSUME Walks, NEW r \in Runs, NEW up, RanOf(r, up), NEW x \in Runs, Others(x)
    PROVE  RanOf(r, up)'
<1>0. /\ TypeOK /\ eng \in [Runs -> Engine] /\ eng[r] \in Engine /\ row \in [Runs -> Row] /\ row[r] \in Row
      /\ eng[r].pc # "off" => WalkOf(eng[r])
    BY DEF Walks, TypeOK, WalkInv
<1>1. ran' = ran
    BY DEF Others, CancelRead, CancelSave, CancelHeard, Disconnect, Age, Reap, CrashEngine
<1>2. TasksStayOn(r)
    <2>1. task' = task \/ task' = WalkEnds(x, "dead")
        BY DEF Others, CancelRead, CancelSave, CancelHeard, Disconnect, Age, Reap, CrashEngine
    <2>2. task' = task => TasksStayOn(r)
        BY DEF TasksStayOn, Following
    <2> QED
        BY <1>0, <2>1, <2>2, TasksStayAtEnd
<1>3. eng'[r].pc = "off" \/ Stays(eng[r], eng'[r])
    BY <1>0, OthersSignalOrEnd
<1>4. row'[r] = row[r] \/ row'[r].status \notin {"none", "waiting_approval"}
    <2>1. CASE CancelSave(x)
        <3>1. cancel[x].seen \in Row
            BY <1>0 DEF TypeOK
        <3>2. [cancel[x].seen EXCEPT !.status = "cancelled"].status = "cancelled"
            BY <3>1 DEF Row
        <3> QED
            BY <1>0, <2>1, <3>2 DEF CancelSave
    <2>2. CASE Reap(x)
        <3>1. [row[r] EXCEPT !.status = "timeout"].status = "timeout"
            BY <1>0 DEF Row
        <3> QED
            BY <1>0, <2>2, <3>1 DEF Reap
    <2> QED
        BY <2>1, <2>2 DEF Others, CancelRead, CancelHeard, Disconnect, Age, CrashEngine
<1> QED
    BY <1>0, <1>1, <1>2, <1>3, <1>4, RanFrame

LEMMA RanInit == ASSUME NEW up PROVE Init => RanInv(up)
<1> SUFFICES ASSUME Init, NEW r \in Runs PROVE RanOf(r, up)
    BY DEF RanInv
<1>1. /\ \A n \in Nodes : ran[r][n] = 0
      /\ row[r].status = "none" /\ eng[r].pc = "off" /\ \A q \in Requests : task[q].pc = "off"
    BY DEF Init, NewRow, Off, Engaged, NoTask
<1> QED
    BY <1>1 DEF RanOf, OnRun, Following

LEMMA RanStep ==
    ASSUME NEW up \in SUBSET Nodes, LeadsUp(up)
    PROVE  TypeOK /\ CarriedInv /\ WalkInv /\ RanInv(up) /\ [Next]_vars => RanInv(up)'
<1> SUFFICES ASSUME TypeOK, CarriedInv, WalkInv, RanInv(up), [Next]_vars, NEW r \in Runs
             PROVE  RanOf(r, up)'
    BY DEF RanInv
<1>0. Walks /\ RanOf(r, up)
    BY DEF Walks, RanInv
<1>1. CASE UNCHANGED vars
    <2>1. UNCHANGED <<row, eng, task, ran>>
        BY <1>1 DEF vars
    <2>2. TasksStayOn(r) /\ Stays(eng[r], eng'[r]) /\ (eng[r].pc # "off" => WalkOf(eng[r]))
        BY <2>1 DEF TasksStayOn, Stays, SameWalk, WalkInv, Following
    <2> QED
        BY <1>0, <2>1, <2>2, RanFrame
<1>2. ASSUME NEW x \in Runs, RunStep(x) PROVE RanOf(r, up)'
    BY <1>0, <1>2, RanRunStep
<1>3. ASSUME NEW x \in Runs, Others(x) PROVE RanOf(r, up)'
    BY <1>0, <1>3, RanOthers
<1>4. ASSUME NEW q \in Requests,
             TaskStep(q) \/ CrashTask(q) \/ \E d \in {"approved", "refused"} : Decide(q, d)
      PROVE  RanOf(r, up)'
    BY <1>0, <1>4, RanTaskStep
<1> QED
    BY <1>1, <1>2, <1>3, <1>4 DEF Next

\* Where no held step comes after another, carrying a run on runs no step again
\* that left an output, a request or a failure: for any such pipeline, any
\* number of runs, decisions landing together, and any faults.  Steps that end
\* without an output do run again, may fail then, and still make no other step
\* run twice.  (A run that waits twice forgets what was decided the first
\* time, and runs it again.)
THEOREM StepsNotRunAgain ==
    ASSUME NEW up \in SUBSET Nodes, LeadsUp(up)
    PROVE  Spec => []StepsRunOnce
<1>1. Spec => []CarriedInv
    BY TypeCorrect, CarriedInit, CarriedStep, PTL DEF Spec
<1>2. Init => RanInv(up)
    BY RanInit
<1>3. TypeOK /\ CarriedInv /\ WalkInv /\ RanInv(up) /\ [Next]_vars => RanInv(up)'
    BY RanStep
<1>4. RanInv(up) => StepsRunOnce
    <2> SUFFICES ASSUME RanInv(up), NEW r \in Runs, NEW n \in Nodes PROVE ran[r][n] <= 1
        BY DEF StepsRunOnce
    <2>1. ran[r][n] \in {0, 1}
        BY DEF RanInv, RanOf
    <2> QED
        BY <2>1
<1> QED
    BY <1>1, <1>2, <1>3, <1>4, TypeCorrect, WalkAlways, PTL DEF Spec

\* There the whole record of a run is true as well, scripts that stage changes
\* included.
THEOREM RecordsAreTrueBehindNoHeldStep ==
    ASSUME NEW up \in SUBSET Nodes, LeadsUp(up)
    PROVE  Spec => []RecordIsTrue
BY StepsNotRunAgain, RecordsAreTrue, PTL
=============================================================================
