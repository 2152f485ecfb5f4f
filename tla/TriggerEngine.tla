--------------------------- MODULE TriggerEngine ---------------------------
(***************************************************************************)
(* Event triggers (kernel/src/triggers.rs) and the kernel calls around     *)
(* them.  The engine keeps two maps, `triggers' and the per-agent index    *)
(* `agent_triggers'; each is locked per entry, nothing locks both, and     *)
(* every call that changed something ends with a persist() that snapshots  *)
(* the map and replaces the file.  Calls run on any thread.                *)
(*                                                                         *)
(* A task is one such call at a time.  A trigger id carries its agent, its *)
(* limit and the kinds of events its pattern matches.  The replacement of  *)
(* the file is one step here; SnapshotFile models it in detail.            *)
(***************************************************************************)
EXTENDS Naturals, FiniteSets

CONSTANTS
    Tasks,
    TrigIds,        \* ids ever registered (a bound)
    Agents,
    AgentOf,        \* TrigIds -> Agents
    MaxFires,       \* TrigIds -> Nat, 0 for no limit
    Kinds,          \* kinds of events
    Watch,          \* TrigIds -> SUBSET Kinds, the pattern
    Spawned,        \* the kind of the event a spawn evaluates
    MaxEvents,      \* bound on the events evaluated
    MaxBoots,       \* bound on the restarts
    NoAgent

VARIABLES
    trig,       \* id -> what the map `triggers' holds
    index,      \* agent -> ids, for the agents with an entry
    alive,      \* agents in the registry
    born,       \* agents ever spawned (ids are never reused)
    task,       \* the call each task is in
    used,       \* ids ever given out
    disk,       \* the trigger file
    fired,      \* history: how often each id matched, over all boots
    removed,    \* history: ids whose remove() returned
    unsaved,    \* history: the last persist() to end could not write the file
    disturbed,  \* history: calls overlapped, one was cut, or a restart came while unsaved
    events, boots

vars == <<trig, index, alive, born, task, used, disk, fired, removed, unsaved, disturbed, events,
          boots>>

Absent == [present |-> FALSE, enabled |-> FALSE, fires |-> 0]
Present == {i \in TrigIds : trig[i].present}
Empty == [i \in TrigIds |-> Absent]

Idle == [pc |-> "idle", ids |-> {}, agent |-> NoAgent, kind |-> Spawned,
         changed |-> FALSE, snap |-> Empty]

Init ==
    /\ trig = Empty
    /\ index = [a \in {} |-> {}]
    /\ alive = {} /\ born = {}
    /\ task = [t \in Tasks |-> Idle]
    /\ used = {}
    /\ disk = Empty
    /\ fired = [i \in TrigIds |-> 0]
    /\ removed = {}
    /\ unsaved = FALSE
    /\ disturbed = FALSE
    /\ events = 0 /\ boots = 0

(* Task t moves on within its call.                                        *)
Goto(t, pc) == task' = [task EXCEPT ![t].pc = pc]

(* A task starts a call; it overlaps with those under way.                 *)
Begins(t) ==
    /\ task[t].pc = "idle"
    /\ disturbed' = (disturbed \/ \E u \in Tasks : task[u].pc # "idle")

-----------------------------------------------------------------------------
(* register_trigger: the agent must be in the registry.  (The automatic    *)
(* registrations for a proactive agent follow its registration there.)     *)
Register(t, i) ==
    /\ Begins(t)
    /\ i \notin used
    /\ AgentOf[i] \in alive
    /\ used' = used \cup {i}
    /\ task' = [task EXCEPT ![t].pc = "insert", ![t].ids = {i}, ![t].agent = AgentOf[i]]
    /\ UNCHANGED <<trig, index, alive, born, disk, fired, removed, unsaved, events, boots>>

(* register: the insertion.  An iteration that is under way elsewhere may  *)
(* or may not meet the new entry.                                          *)
Insert(t) ==
    /\ task[t].pc = "insert"
    /\ trig' = [i \in TrigIds |->
                  IF i \in task[t].ids THEN [present |-> TRUE, enabled |-> TRUE, fires |-> 0]
                                       ELSE trig[i]]
    /\ \E seers \in SUBSET {u \in Tasks : task[u].pc = "eval"} :
          task' = [u \in Tasks |->
                     IF u = t THEN [task[u] EXCEPT !.pc = "index"]
                     ELSE IF u \in seers THEN [task[u] EXCEPT !.ids = @ \cup task[t].ids]
                     ELSE task[u]]
    /\ UNCHANGED <<index, alive, born, used, disk, fired, removed, unsaved, disturbed, events,
                   boots>>

IndexOf(a) == IF a \in DOMAIN index THEN index[a] ELSE {}

SetIndex(a, ids) == [b \in DOMAIN index \cup {a} |-> IF b = a THEN ids ELSE index[b]]

Index_Overwrites(t) ==
    /\ task[t].pc = "index"
    /\ index' = SetIndex(task[t].agent, task[t].ids)
    /\ task' = [task EXCEPT ![t].pc = "persist", ![t].ids = {}, ![t].agent = NoAgent]
    /\ UNCHANGED <<trig, alive, born, used, disk, fired, removed, unsaved, disturbed, events,
                   boots>>

(* register: the push to the agent's list.                                 *)
Index(t) ==
    /\ task[t].pc = "index"
    /\ index' = SetIndex(task[t].agent, IndexOf(task[t].agent) \cup task[t].ids)
    /\ task' = [task EXCEPT ![t].pc = "persist", ![t].ids = {}, ![t].agent = NoAgent]
    /\ UNCHANGED <<trig, alive, born, used, disk, fired, removed, unsaved, disturbed, events,
                   boots>>

(* remove: out of the map ...                                              *)
Remove(t, i) ==
    /\ Begins(t)
    /\ i \in Present
    /\ trig' = [trig EXCEPT ![i] = Absent]
    /\ task' = [task EXCEPT ![t].pc = "unindex", ![t].ids = {i}, ![t].agent = AgentOf[i]]
    /\ UNCHANGED <<index, alive, born, used, disk, fired, removed, unsaved, events, boots>>

(* ... then out of the agent's list, if there is one.                      *)
Unindex(t) ==
    /\ task[t].pc = "unindex"
    /\ index' = IF task[t].agent \in DOMAIN index
                THEN [index EXCEPT ![task[t].agent] = @ \ task[t].ids]
                ELSE index
    /\ task' = [task EXCEPT ![t].pc = "persist", ![t].agent = NoAgent]
    /\ UNCHANGED <<trig, alive, born, used, disk, fired, removed, unsaved, disturbed, events,
                   boots>>

(* set_enabled.                                                            *)
SetEnabled(t, i, on) ==
    /\ Begins(t)
    /\ i \in Present
    /\ trig' = [trig EXCEPT ![i].enabled = on]
    /\ Goto(t, "persist")
    /\ UNCHANGED <<index, alive, born, used, disk, fired, removed, unsaved, events, boots>>

(* kill_agent and restart_agent: the agent leaves the registry, ...        *)
Kill(t, a) ==
    /\ Begins(t)
    /\ a \in alive
    /\ alive' = alive \ {a}
    /\ task' = [task EXCEPT ![t].pc = "take", ![t].agent = a]
    /\ UNCHANGED <<trig, index, born, used, disk, fired, removed, unsaved, events, boots>>

(* ... remove_agent_triggers takes its list (no list, nothing to do), ...  *)
TakeIndex(t) ==
    /\ task[t].pc = "take"
    /\ LET a == task[t].agent IN
       \/ /\ a \notin DOMAIN index
          /\ task' = [task EXCEPT ![t] = Idle]
          /\ UNCHANGED index
       \/ /\ a \in DOMAIN index
          /\ task' = [task EXCEPT ![t].pc = "removeAll", ![t].ids = index[a]]
          /\ index' = [b \in DOMAIN index \ {a} |-> index[b]]
    /\ UNCHANGED <<trig, alive, born, used, disk, fired, removed, unsaved, disturbed, events,
                   boots>>

(* ... and removes the triggers one by one.                                *)
RemoveAll(t) ==
    /\ task[t].pc = "removeAll"
    /\ \/ /\ task[t].ids = {}
          /\ task' = [task EXCEPT ![t].pc = "persist", ![t].agent = NoAgent]
          /\ UNCHANGED trig
       \/ \E i \in task[t].ids :
          /\ trig' = [trig EXCEPT ![i] = Absent]
          /\ task' = [task EXCEPT ![t].ids = @ \ {i}]
    /\ UNCHANGED <<index, alive, born, used, disk, fired, removed, unsaved, disturbed, events,
                   boots>>

-----------------------------------------------------------------------------
(* publish_event: evaluate every trigger.  The messages it then sends for  *)
(* the matches are tasks of their own.                                     *)
Publish(t, k) ==
    /\ Begins(t)
    /\ events < MaxEvents
    /\ events' = events + 1
    /\ task' = [task EXCEPT ![t].pc = "eval", ![t].ids = Present, ![t].kind = k]
    /\ UNCHANGED <<trig, index, alive, born, used, disk, fired, removed, unsaved, boots>>

(* spawn_agent registers a new agent and evaluates its Spawned event       *)
(* itself: the result is dropped.                                          *)
Spawn(t, a) ==
    /\ Begins(t)
    /\ a \notin born
    /\ born' = born \cup {a}
    /\ alive' = alive \cup {a}
    /\ task' = [task EXCEPT ![t].pc = "eval", ![t].ids = Present, ![t].kind = Spawned]
    /\ UNCHANGED <<trig, index, used, disk, fired, removed, unsaved, events, boots>>

Exhausted(i) == MaxFires[i] > 0 /\ trig[i].fires >= MaxFires[i]

(* evaluate, one entry, under its lock.                                    *)
EvalOne(t, i) ==
    /\ task[t].pc = "eval"
    /\ i \in task[t].ids
    /\ LET seen == [task EXCEPT ![t].ids = @ \ {i}]
           skip == ~trig[i].present \/ ~trig[i].enabled
       IN \/ /\ skip \/ (~Exhausted(i) /\ task[t].kind \notin Watch[i])
             /\ task' = seen
             /\ UNCHANGED <<trig, fired>>
          \/ /\ ~skip /\ Exhausted(i)
             /\ trig' = [trig EXCEPT ![i].enabled = FALSE]
             /\ task' = [seen EXCEPT ![t].changed = TRUE]
             /\ UNCHANGED fired
          \/ /\ ~skip /\ ~Exhausted(i) /\ task[t].kind \in Watch[i]
             /\ trig' = [trig EXCEPT ![i].fires = @ + 1]
             /\ fired' = [fired EXCEPT ![i] = @ + 1]
             /\ task' = [seen EXCEPT ![t].changed = TRUE]
    /\ UNCHANGED <<index, alive, born, used, disk, removed, unsaved, disturbed, events,
                   boots>>

EvalDone_NoPersist(t) ==
    /\ task[t].pc = "eval"
    /\ task[t].ids = {}
    /\ task' = [task EXCEPT ![t] = Idle]
    /\ UNCHANGED <<trig, index, alive, born, used, disk, fired, removed, unsaved, disturbed, events,
                   boots>>

(* evaluate, the end: persist if an entry changed.                         *)
EvalDone(t) ==
    /\ task[t].pc = "eval"
    /\ task[t].ids = {}
    /\ task' = [task EXCEPT ![t] = IF task[t].changed THEN [Idle EXCEPT !.pc = "persist"]
                                                      ELSE Idle]
    /\ UNCHANGED <<trig, index, alive, born, used, disk, fired, removed, unsaved, disturbed, events,
                   boots>>

(* persist: the snapshot of the map (entry by entry in the code; one step  *)
(* here, as no property relates two entries of the file) ...               *)
Persist(t) ==
    /\ task[t].pc = "persist"
    /\ task' = [task EXCEPT ![t].pc = "write", ![t].snap = trig]
    /\ UNCHANGED <<trig, index, alive, born, used, disk, fired, removed, unsaved, disturbed, events,
                   boots>>

(* ... and the file.  A write or a rename that fails is logged and leaves  *)
(* the old file: the caller does not learn of it and goes on as if it were *)
(* saved.  A remove() that gets here has removed its trigger.              *)
Write(t) ==
    /\ task[t].pc = "write"
    /\ \/ disk' = task[t].snap /\ unsaved' = FALSE
       \/ boots < MaxBoots      \* bound: nothing reads the file after the last boot
          /\ UNCHANGED disk /\ unsaved' = TRUE
    /\ removed' = removed \cup {i \in task[t].ids : ~task[t].snap[i].present}
    /\ task' = [task EXCEPT ![t] = Idle]
    /\ UNCHANGED <<trig, index, alive, born, used, fired, disturbed, events, boots>>

Quiet == \A t \in Tasks : task[t].pc = "idle"

(* with_persistence rebuilds the index from the file.                      *)
Reindex == [a \in {AgentOf[i] : i \in {j \in TrigIds : disk[j].present}} |->
              {i \in TrigIds : disk[i].present /\ AgentOf[i] = a}]

(* The process dies, inside a call or not, and a new one boots.  An agent whose kill was under    *)
(* way comes back if its database row was not deleted yet.                 *)
Boot ==
    /\ boots < MaxBoots
    /\ boots' = boots + 1
    /\ disturbed' = (disturbed \/ ~Quiet \/ unsaved)
    /\ unsaved' = FALSE
    /\ trig' = disk
    /\ index' = Reindex
    /\ \E back \in SUBSET {task[t].agent : t \in {u \in Tasks : task[u].pc \in {"take", "removeAll"}}} :
          alive' = alive \cup back
    /\ task' = [t \in Tasks |-> Idle]
    /\ UNCHANGED <<born, used, disk, fired, removed, events>>

TaskStep(t) ==
    \/ \E i \in TrigIds : Register(t, i) \/ Remove(t, i) \/ EvalOne(t, i)
    \/ \E i \in TrigIds, on \in BOOLEAN : SetEnabled(t, i, on)
    \/ \E a \in Agents : Kill(t, a) \/ Spawn(t, a)
    \/ \E k \in Kinds : Publish(t, k)
    \/ Insert(t) \/ Index(t) \/ Unindex(t) \/ TakeIndex(t) \/ RemoveAll(t)
    \/ EvalDone(t) \/ Persist(t) \/ Write(t)

Next == (\E t \in Tasks : TaskStep(t)) \/ Boot

-----------------------------------------------------------------------------
Counts == 0..(MaxEvents + Cardinality(Agents))
Triggers == [present : BOOLEAN, enabled : BOOLEAN, fires : Counts]

(* Type invariant.                                                         *)
TypeOK ==
    /\ trig \in [TrigIds -> Triggers]
    /\ DOMAIN index \subseteq Agents
    /\ \A a \in DOMAIN index : index[a] \subseteq TrigIds
    /\ alive \subseteq born /\ born \subseteq Agents
    /\ used \subseteq TrigIds /\ Present \subseteq used
    /\ disk \in [TrigIds -> Triggers]
    /\ \A t \in Tasks :
          /\ task[t].pc \in {"idle", "insert", "index", "unindex", "take", "removeAll",
                             "eval", "persist", "write"}
          /\ task[t].ids \subseteq used
          /\ task[t].snap \in [TrigIds -> Triggers]

(* The index never loses a trigger: one that is in the map is in the list  *)
(* of its agent, or a register() is about to put it there, or a            *)
(* remove_agent_triggers() holds it in its hands.  Otherwise killing the   *)
(* agent would leave the trigger firing.                                   *)
IndexComplete ==
    \A i \in Present :
        \/ i \in IndexOf(AgentOf[i])
        \/ \E t \in Tasks : task[t].pc \in {"index", "removeAll"} /\ i \in task[t].ids

(* Fires and removals last.  Concurrent evaluations never count past        *)
(* max_fires and never record more fires than there were.  The limit holds  *)
(* over restarts too, and a trigger whose remove() returned does not come   *)
(* back at a boot (test_persistence_remove_survives_reopen), as long as     *)
(* calls neither overlap nor are cut by a crash, and no restart comes       *)
(* between a persist() that could not write the file and the next one that  *)
(* can: a failed persist() is only logged, and after such a restart an      *)
(* exhausted trigger fires again and a removed one is back.                 *)
FiresAndRemovalsLast ==
    /\ \A i \in TrigIds : /\ MaxFires[i] > 0 => trig[i].fires <= MaxFires[i]
                          /\ trig[i].fires <= fired[i]
    /\ ~disturbed => /\ \A i \in TrigIds : MaxFires[i] > 0 => fired[i] <= MaxFires[i]
                     /\ removed \cap Present = {}

=============================================================================
