-------------------------- MODULE MCWorkflowEngine --------------------------
(* Instances of WorkflowEngine for TLC: one workflow with every kind of    *)
(* step (a fan-out, its collected output, a condition on it, a loop with   *)
(* retries) and one with a single step.                                    *)
EXTENDS WorkflowEngine, TLC

CONSTANTS c1, c2

Plain(mode, error) ==
    [mode |-> mode, error |-> error, retries |-> 0, iterations |-> 0, word |-> NoWord]

Long == <<Plain("FanOut", "Skip"), Plain("FanOut", "Fail"), Plain("Collect", "Fail"),
          [Plain("Conditional", "Skip") EXCEPT !.word = "done"],
          [Plain("Loop", "Retry") EXCEPT !.retries = 1, !.iterations = 2, !.word = "done"]>>
Short == <<Plain("Sequential", "Fail")>>

TwoWorkflows == <<Long, Short>>
OneEach == (c1 :> {1}) @@ (c2 :> {2})

=============================================================================
