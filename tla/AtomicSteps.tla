---------------------------- MODULE AtomicSteps ----------------------------
(***************************************************************************)
(* What the durable-run machinery promises about a run's work: however     *)
(* many workers, nudges, crashes, takeovers and outside writers there are, *)
(* the run's step number and working memory change as if ONE worker        *)
(* executed the steps one after the other, each step computed from exactly *)
(* what the step before it committed.  There is no worker, no lease and no *)
(* queue here; DurableRun is shown to implement this module.               *)
(***************************************************************************)
EXTENDS Naturals

CONSTANTS Holdable,     \* the calls and change sets a step may leave held for a person
          ToolCalls     \* the tool calls among them

VARIABLES currentStep,  \* the run's step number
          held,         \* workingMemory.gatedToolCalls and .pendingChangeSets
          waking        \* workingMemory.wakingToolCalls

vars == <<currentStep, held, waking>>

(***************************************************************************)
(* One step of the run, as a relation between the work it started from and *)
(* the work it commits.  Calls that found their machine starting are made  *)
(* again before anything else; then held calls are settled; only a run     *)
(* with neither asks the model, which may leave new ones behind.           *)
(***************************************************************************)
StepRel(s, h, k, s2, h2, k2) ==
    /\ s2 = s + 1
    /\ h2 \subseteq Holdable
    /\ k2 \subseteq ToolCalls
    /\ k # {} => h \subseteq h2 /\ k2 \subseteq k
    /\ (k = {} /\ h # {}) => h2 \subseteq h /\ k2 = {}

Init ==
    /\ currentStep = 0
    /\ held = {}
    /\ waking = {}

Step == StepRel(currentStep, held, waking, currentStep', held', waking')

Next == Step

Spec == Init /\ [][Next]_vars
=============================================================================
