-------------------------- MODULE MCCronScheduler --------------------------
(* Small instances of CronScheduler for TLC.                               *)
EXTENDS CronScheduler

CONSTANTS a1, a2

(* One job of each kind the recorders tell apart.                          *)
EverySpec(a) == [agent |-> a, sched |-> "Every", oneShot |-> FALSE]
OnceSpec(a) == [agent |-> a, sched |-> "Every", oneShot |-> TRUE]
AtSpec(a) == [agent |-> a, sched |-> "At", oneShot |-> FALSE]

AllKinds == {EverySpec(a1), OnceSpec(a1), AtSpec(a1)}
OneKind == {EverySpec(a1)}

=============================================================================
