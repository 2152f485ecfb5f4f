-------------------------- MODULE MCAgentLifecycle --------------------------
(* Small instances of AgentLifecycle: names that differ in case only, as    *)
(* `Bot' (y) and `bot' (x), and, in a second instance, no such names.       *)
EXTENDS AgentLifecycle, TLC

CONSTANTS h1, h2, x, y, z

(* Only x and y are alike but for case, so they can be interchanged; names *)
(* that never are alike, all of them can.                                  *)
CaseFolded == [n \in Names |-> IF n = y THEN x ELSE n]
Distinct == [n \in Names |-> n]

Folding == Permutations(Handlers) \cup Permutations({x, y})
Symmetry == Permutations(Handlers) \cup Permutations(Names)

(* No property says anything of an excused lineage, and excused only grows: *)
(* once every lineage that can be spawned is excused, later states add     *)
(* nothing.                                                                *)
SomeUnexcused == ~(1..MaxSpawns \subseteq excused)
=============================================================================
