-------------------------- MODULE MCKernelServices --------------------------
(* Instance of KernelServices for TLC: the triggers are of one agent, and  *)
(* each may fire once, on a change of the memory.                          *)
EXTENDS KernelServices, TLC

CONSTANT a1

OneAgent == {a1}
Owner == [i \in TrigIds |-> a1]
Limits == [i \in TrigIds |-> 1]
EventKinds == {"spawned", "memory"}
Patterns == [i \in TrigIds |-> {"memory"}]

Interchangeable == Permutations(Tasks) \cup Permutations(TrigIds)

=============================================================================
