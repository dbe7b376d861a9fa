-------------------------- MODULE MCApprovalPolicy --------------------------
(* Three people, one of them with two calls in flight, and three policies: *)
(* a quorum of three, two steps by role, and a step anyone may take before *)
(* one for a role.                                                         *)
EXTENDS ApprovalPolicy, TLC

CONSTANTS ann, fay, max, a1, a2, f1, m1

MCWho == [s \in Sessions |-> IF s = f1 THEN fay ELSE IF s = m1 THEN max ELSE ann]
MCRolesOf == ann :> {"admin"} @@ fay :> {"finance"} @@ max :> {"admin", "finance"}

Step(role, n) == [approverRole |-> role, minApprovals |-> n]
MCPolicies == {<<Step("*", 3)>>,
               <<Step("admin", 1), Step("finance", 1)>>,
               <<Step("*", 1), Step("finance", 1)>>}
TwoPolicies == {<<Step("*", 2)>>, <<Step("admin", 1), Step("finance", 1)>>}

MCCarried == {<<>>, <<[approver |-> ann, roles |-> {"admin"}]>>}
NothingCarried == {<<>>}
=============================================================================
