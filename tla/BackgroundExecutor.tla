------------------------- MODULE BackgroundExecutor -------------------------
(***************************************************************************)
(* The background loops of continuous and periodic agents                  *)
(* (kernel/src/background.rs): each sleeps, skips the tick while its last  *)
(* one runs, queues for one of the global permits and sends a self-prompt; *)
(* a watcher gives the permit back and clears the busy flag when the turn  *)
(* ends, by whatever outcome.  Kills abort a loop, the supervisor's signal *)
(* ends all of them.  Both kinds of loop have the same steps.              *)
(***************************************************************************)
EXTENDS Naturals, Sequences, FiniteSets, SequencesExt

CONSTANTS
    Agents,     \* agents with a background loop
    Permits     \* MAX_CONCURRENT_BG_LLM

VARIABLES
    loop,       \* each agent's loop: "sleep", "wait" for a permit, "ended"
    busy,       \* the loops' busy flags
    free,       \* permits available
    queue,      \* the semaphore's waiters, first in first out
    turns,      \* self-prompts running, per agent
    clearing,   \* watchers that gave the permit back and not yet cleared the flag
    down        \* the shutdown signal was sent

vars == <<loop, busy, free, queue, turns, clearing, down>>

Init ==
    /\ loop = [a \in Agents |-> "sleep"]
    /\ busy = [a \in Agents |-> FALSE]
    /\ free = Permits /\ queue = <<>>
    /\ turns = [a \in Agents |-> 0] /\ clearing = [a \in Agents |-> 0]
    /\ down = FALSE

-----------------------------------------------------------------------------
Wake_IgnoresFlag(a) ==
    /\ loop[a] = "sleep"
    /\ busy' = [busy EXCEPT ![a] = TRUE]
    /\ loop' = [loop EXCEPT ![a] = "wait"]
    /\ queue' = Append(queue, a)
    /\ UNCHANGED <<free, turns, clearing, down>>

(* The interval is over: take the busy flag and queue for a permit (a tick *)
(* while the flag is set is skipped).                                      *)
Wake(a) ==
    /\ loop[a] = "sleep" /\ ~busy[a]
    /\ busy' = [busy EXCEPT ![a] = TRUE]
    /\ loop' = [loop EXCEPT ![a] = "wait"]
    /\ queue' = Append(queue, a)
    /\ UNCHANGED <<free, turns, clearing, down>>

(* The first waiter gets a permit, sends the prompt and goes back to sleep.*)
Acquire ==
    /\ queue # <<>> /\ free > 0
    /\ LET a == Head(queue)
       IN /\ loop' = [loop EXCEPT ![a] = "sleep"]
          /\ turns' = [turns EXCEPT ![a] = @ + 1]
    /\ queue' = Tail(queue)
    /\ free' = free - 1
    /\ UNCHANGED <<busy, clearing, down>>

(* The turn ends, fails or panics: the watcher drops the permit ...        *)
Release(a) ==
    /\ turns[a] > 0
    /\ turns' = [turns EXCEPT ![a] = @ - 1]
    /\ clearing' = [clearing EXCEPT ![a] = @ + 1]
    /\ free' = free + 1
    /\ UNCHANGED <<loop, busy, queue, down>>

(* ... and clears the flag.                                                *)
Clear(a) ==
    /\ clearing[a] > 0
    /\ clearing' = [clearing EXCEPT ![a] = @ - 1]
    /\ busy' = [busy EXCEPT ![a] = FALSE]
    /\ UNCHANGED <<loop, free, queue, turns, down>>

(* The supervisor's signal; a loop sees it in its select, not while it     *)
(* waits for a permit.                                                     *)
Signal ==
    /\ ~down
    /\ down' = TRUE
    /\ UNCHANGED <<loop, busy, free, queue, turns, clearing>>

Exit(a) ==
    /\ down /\ loop[a] = "sleep"
    /\ loop' = [loop EXCEPT ![a] = "ended"]
    /\ UNCHANGED <<busy, free, queue, turns, clearing, down>>

(* stop_agent aborts the loop: its sleep, or its place in the queue, is    *)
(* dropped.  A turn that runs is left to its watcher.                      *)
StopAgent(a) ==
    /\ \/ loop[a] = "sleep" /\ UNCHANGED queue
       \/ /\ loop[a] = "wait"
          /\ \E i \in DOMAIN queue : queue[i] = a /\ queue' = RemoveAt(queue, i)
    /\ loop' = [loop EXCEPT ![a] = "ended"]
    /\ UNCHANGED <<busy, free, turns, clearing, down>>

Next ==
    \/ \E a \in Agents : Wake(a) \/ Release(a) \/ Clear(a) \/ Exit(a) \/ StopAgent(a)
    \/ Acquire \/ Signal

-----------------------------------------------------------------------------
(* Type invariant.                                                         *)
TypeOK ==
    /\ loop \in [Agents -> {"sleep", "wait", "ended"}]
    /\ busy \in [Agents -> BOOLEAN] /\ down \in BOOLEAN
    /\ free \in Nat
    /\ turns \in [Agents -> Nat] /\ clearing \in [Agents -> Nat]
    /\ queue \in Seq(Agents)

Running == {a \in Agents : turns[a] > 0}

(* Every permit is free or held by the turn of one agent, whose loop may   *)
(* have been stopped since: kills, panics and the shutdown neither lose    *)
(* nor duplicate permits, so the daemon always has all of them to give.    *)
PermitsConserved == free + Cardinality(Running) = Permits

(* An agent's ticks do not overlap: at most one of its prompts waits, runs *)
(* or is being cleaned up, however long a turn takes and in whatever order *)
(* the watcher and the loop get to run.                                    *)
OneTickPerAgent ==
    \A a \in Agents : (IF loop[a] = "wait" THEN 1 ELSE 0) + turns[a] + clearing[a] <= 1

(* A loop that waits for a permit sends its prompt, and one whose prompt   *)
(* is over can tick again: no agent is starved by the others.              *)
EveryLoopTicks ==
    \A a \in Agents : busy[a] ~> (~busy[a] \/ loop[a] = "ended")

(* Every loop ends after the shutdown signal, those queued for a permit    *)
(* included.                                                               *)
LoopsEnd == down ~> \A a \in Agents : loop[a] = "ended"

=============================================================================
