--------------------------- MODULE MCWorkflowRun ---------------------------
(* Pipelines for TLC. *)
EXTENDS WorkflowRun, TLC

CONSTANTS a, b, c, d, s

Unlabelled == [e \in Edges |-> "any"]

\* A plain step before a condition, a held call on its "yes" branch and a
\* script on either, and the output after the call.
BranchEdges == {<<s, a>>, <<a, b>>, <<a, c>>, <<b, d>>}
BranchLabel == [e \in Edges |-> IF e = <<a, b>> THEN "yes" ELSE "any"]
BranchKind == s :> "plain" @@ a :> "condition" @@ b :> "tool_call" @@ c :> "code" @@ d :> "output"

\* One held call and the output after it.
LineEdges == {<<a, b>>}
LineKind == a :> "tool_call" @@ b :> "output"

\* Two held calls side by side; after the first a plain step, and after that
\* a third held call.
LaterEdges == {<<a, c>>, <<c, d>>}
LaterKind == a :> "tool_call" @@ b :> "tool_call" @@ c :> "plain" @@ d :> "tool_call"

\* A held call and a plain step that meet.
JoinEdges == {<<a, c>>, <<b, c>>}
JoinKind == a :> "tool_call" @@ b :> "plain" @@ c :> "output"
=============================================================================
