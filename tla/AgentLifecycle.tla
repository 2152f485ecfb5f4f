--------------------------- MODULE AgentLifecycle ---------------------------
(***************************************************************************)
(* Spawn, kill, restart, rename and edit of agents, and the daemon's boot, *)
(* shutdown and crash (kernel.rs, registry.rs, supervisor.rs and the agent *)
(* rows of structured.rs).                                                 *)
(*                                                                         *)
(* The handlers of the API, of the tools and of the terminal run           *)
(* concurrently and synchronise on single map operations only: an          *)
(* operation is the sequence of its map operations and row writes, and     *)
(* every interleaving of two operations is possible.  A restart gives the  *)
(* agent a new id; the ids an agent has had are its lineage.  A name and a *)
(* version stand for the manifest, one cron job for all of them.           *)
(***************************************************************************)
EXTENDS Naturals, FiniteSets, FiniteSetsExt, Functions

CONSTANTS
    Handlers,       \* concurrent requests
    Names,          \* agent names
    Lower,          \* Names -> Names, a name in lower case
    MaxRestarts,    \* AutonomousConfig.max_restarts
    MaxIds,         \* bound: ids given out
    MaxSpawns,      \* bound: spawns come before this many ids are given out
    MaxEdits,       \* bound: edits and renames of all agents
    MaxBoots        \* bound: restarts of the daemon

ASSUME ConstantAssumption ==
    /\ {MaxRestarts, MaxIds, MaxSpawns, MaxEdits, MaxBoots} \subseteq Nat 
    /\ MaxRestarts > 0 /\ MaxSpawns <= MaxIds
    /\ Lower \in [Names -> Names]

VARIABLES
    up,         \* the daemon runs
    agents,     \* registry.agents: id -> name and version
    index,      \* registry.name_index: name -> id
    restarts,   \* supervisor.agent_restarts: id -> count
    cron,       \* the agent the cron job runs (0: no job)
    rows,       \* the agents table: id -> name, version and rowid
    cronFile,   \* the job's agent on disk
    op,         \* the state of each handler
    nextId, edits, boots,
    root,       \* history: the first id of each id's lineage
    count,      \* history: restarts of each lineage in this process
    excused,    \* history: lineages with overlapping operations, a failed write, a
                \*   contested name or a crash in the middle of an operation
    stale,      \* history: lineages that a boot found restarted, or with a row behind
                \*   another of the same name, upper and lower case being the same
    killed      \* history: ids whose kill has ended

memory == <<agents, index, restarts, cron>>
disk == <<rows, cronFile>>
history == <<root, count, excused, stale, killed>>
bounds == <<nextId, edits, boots>>
vars == <<up, memory, disk, op, bounds, history>>

Ids == 1..MaxIds
Idle == [pc |-> "idle", id |-> 0, from |-> 0, name |-> "", copy |-> <<>>]

Without(f, k) == [x \in DOMAIN f \ {k} |-> f[x]]
With(f, k, v) == [x \in DOMAIN f \cup {k} |-> IF x = k THEN v ELSE f[x]]

Row(e, i) == [name |-> e.name, ver |-> e.ver, rowid |-> i]

(* SQLite gives a new row the rowid after the largest one, and a scan of   *)
(* the table is in the order of the rowids.                                *)
LastRowid(rs) == Max({0} \cup {rs[a].rowid : a \in DOMAIN rs})

Upsert_KeepsOld(rs, a, e) ==
    IF a \in DOMAIN rs THEN rs ELSE With(rs, a, Row(e, LastRowid(rs) + 1))

(* save_agent: INSERT ... ON CONFLICT(id) DO UPDATE.                       *)
Upsert(rs, a, e) ==
    With(rs, a, Row(e, IF a \in DOMAIN rs THEN rs[a].rowid ELSE LastRowid(rs) + 1))

Init ==
    /\ up = TRUE
    /\ agents = <<>> /\ index = <<>> /\ restarts = <<>>
    /\ cron = 0 /\ cronFile = 0 /\ rows = <<>>
    /\ op = [h \in Handlers |-> Idle]
    /\ nextId = 1 /\ edits = 0 /\ boots = 0
    /\ root = [a \in Ids |-> a] /\ count = [a \in Ids |-> 0]
    /\ excused = {} /\ stale = {} /\ killed = {}

-----------------------------------------------------------------------------
At(h, pc) == up /\ op[h].pc = pc
Goto(h, pc) == op' = [op EXCEPT ![h].pc = pc]
Done(h) == op' = [op EXCEPT ![h] = Idle]

Busy(h, a) == op[h].pc # "idle" /\ root[a] \in {root[b] : b \in {op[h].id, op[h].from} \ {0}}
Overlap(h, a) == IF \E g \in Handlers \ {h} : Busy(g, a) THEN {root[a]} ELSE {}

(* spawn_agent_with_parent up to registry.register, under a fresh id (the  *)
(* session row, the capabilities and the quota it sets up are not state    *)
(* here).                                                                  *)
SpawnStart(h, n) ==
    /\ At(h, "idle") /\ nextId <= MaxSpawns
    /\ op' = [op EXCEPT ![h] = [Idle EXCEPT !.pc = "check", !.id = nextId, !.name = n,
                                            !.copy = [name |-> n, ver |-> 0]]]
    /\ nextId' = nextId + 1
    /\ UNCHANGED <<up, agents, index, restarts, cron, disk, edits, boots, history>>

(* register: the name check.                                               *)
RegisterCheck(h) ==
    /\ At(h, "check")
    /\ IF op[h].name \in DOMAIN index THEN Done(h) ELSE Goto(h, "insert")
    /\ UNCHANGED <<up, memory, disk, bounds, history>>

(* ... and the insertion into the name index, by then perhaps taken, and   *)
(* into the agents (nobody else knows the id before).                      *)
RegisterInsert(h) ==
    /\ At(h, "insert")
    /\ index' = With(index, op[h].name, op[h].id)
    /\ agents' = With(agents, op[h].id, op[h].copy)
    /\ excused' = excused \cup IF op[h].name \in DOMAIN index
                               THEN {root[op[h].id], root[index[op[h].name]]} ELSE {}
    /\ Goto(h, "save")
    /\ UNCHANGED <<up, restarts, cron, disk, bounds, root, count, stale, killed>>

(* The entry as built is saved; an error leaves the agent registered, and  *)
(* a restart ends there.                                                   *)
SpawnSave(h) ==
    /\ At(h, "save")
    /\ \/ /\ rows' = Upsert(rows, op[h].id, op[h].copy)
          /\ IF op[h].from = 0 THEN Done(h) ELSE Goto(h, "carry")
          /\ UNCHANGED excused
       \/ /\ excused' = excused \cup {root[op[h].id]}
          /\ Done(h)
          /\ UNCHANGED rows
    /\ UNCHANGED <<up, memory, cronFile, bounds, root, count, stale, killed>>

-----------------------------------------------------------------------------
(* kill_agent and restart_agent: registry.remove takes the entry ...       *)
TakeEntry(h, a, next) ==
    /\ At(h, "idle") /\ a \in DOMAIN agents
    /\ agents' = Without(agents, a)
    /\ op' = [op EXCEPT ![h] = [Idle EXCEPT !.pc = next, !.id = a, !.name = agents[a].name,
                                            !.copy = agents[a]]]
    /\ excused' = excused \cup Overlap(h, a)
    /\ UNCHANGED <<up, index, restarts, cron, disk, bounds, root, count, stale, killed>>

(* The lineage that loses its name when op[h] takes the name off the index.*)
Robbed(h) == IF op[h].name \in DOMAIN index /\ index[op[h].name] # op[h].id
             THEN {root[index[op[h].name]]} ELSE {}

(* ... and then its name; the runtime state (loops, quota, capabilities,   *)
(* subscriptions, triggers, running turn) is torn down.                    *)
Unindex(h, pc, next) ==
    /\ At(h, pc)
    /\ index' = Without(index, op[h].name)
    /\ excused' = excused \cup Robbed(h)
    /\ Goto(h, next)
    /\ UNCHANGED <<up, agents, restarts, cron, disk, bounds, root, count, stale, killed>>

(* memory.remove_agent; a failure is logged.                               *)
RemoveRow(h) ==
    /\ At(h, "torn")
    /\ \/ rows' = Without(rows, op[h].id) /\ UNCHANGED excused
       \/ excused' = excused \cup {root[op[h].id]} /\ UNCHANGED rows
    /\ killed' = killed \cup {op[h].id}
    /\ Done(h)
    /\ UNCHANGED <<up, memory, cronFile, bounds, root, count, stale>>

(* restart_agent: record_agent_restart; beyond the limit the agent stays   *)
(* stopped, else spawn_agent begins under a fresh id.  The row stays.      *)
RestartRecord(h) ==
    /\ At(h, "stopped")
    /\ LET a == op[h].id
           n == (IF a \in DOMAIN restarts THEN restarts[a] ELSE 0) + 1
       IN /\ restarts' = With(restarts, a, n)
          /\ IF n > MaxRestarts
             THEN Done(h) /\ UNCHANGED <<nextId, root, count>>
             ELSE /\ nextId <= MaxIds
                  /\ op' = [op EXCEPT ![h].pc = "check", ![h].id = nextId, ![h].from = a]
                  /\ root' = [root EXCEPT ![nextId] = root[a]]
                  /\ count' = [count EXCEPT ![root[a]] = @ + 1]
                  /\ nextId' = nextId + 1
    /\ UNCHANGED <<up, agents, index, cron, disk, edits, boots, excused, stale, killed>>

Carry_Forgets(h) ==
    /\ At(h, "carry")
    /\ Goto(h, "reassign")
    /\ UNCHANGED <<up, memory, disk, bounds, history>>

(* carry_agent_restarts.                                                   *)
Carry(h) ==
    /\ At(h, "carry")
    /\ restarts' = IF op[h].from \in DOMAIN restarts
                   THEN With(Without(restarts, op[h].from), op[h].id, restarts[op[h].from])
                   ELSE restarts
    /\ Goto(h, "reassign")
    /\ UNCHANGED <<up, agents, index, cron, disk, bounds, history>>

Reassign_Forgets(h) ==
    /\ At(h, "reassign")
    /\ Done(h)
    /\ UNCHANGED <<up, memory, disk, bounds, history>>

(* cron_scheduler.reassign_agent, and persist if a job moved.              *)
Reassign(h) ==
    /\ At(h, "reassign")
    /\ IF cron = op[h].from
       THEN /\ cron' = op[h].id
            /\ \/ cronFile' = cron' /\ UNCHANGED excused
               \/ excused' = excused \cup {root[op[h].id]} /\ UNCHANGED cronFile
       ELSE UNCHANGED <<cron, cronFile, excused>>
    /\ Done(h)
    /\ UNCHANGED <<up, agents, index, restarts, rows, bounds, root, count, stale, killed>>

-----------------------------------------------------------------------------
(* update_name reserves the new name atomically (its own name: nothing to  *)
(* do but save; another's: an error).                                      *)
RenameStart(h, a, n) ==
    /\ At(h, "idle") /\ a \in DOMAIN agents /\ edits < MaxEdits
    /\ edits' = edits + 1
    /\ n \in DOMAIN index => index[n] = a
    /\ index' = With(index, n, a)
    /\ op' = [op EXCEPT ![h] = [Idle EXCEPT !.pc = IF n \in DOMAIN index THEN "copy" ELSE "rename",
                                            !.id = a, !.name = n]]
    /\ excused' = excused \cup Overlap(h, a)
    /\ UNCHANGED <<up, agents, restarts, cron, disk, nextId, boots, root, count, stale, killed>>

(* The entry takes the name and the old one, if it is another, is to go; or *)
(* the reservation is rolled back.                                          *)
RenameApply(h) ==
    /\ At(h, "rename")
    /\ LET a == op[h].id
       IN IF a \in DOMAIN agents
          THEN /\ agents' = [agents EXCEPT ![a].name = op[h].name]
               /\ op' = [op EXCEPT ![h].pc = IF agents[a].name = op[h].name THEN "copy" ELSE "old",
                                   ![h].name = agents[a].name]
               /\ UNCHANGED <<index, excused>>
          ELSE /\ index' = Without(index, op[h].name)
               /\ excused' = excused \cup Robbed(h)
               /\ Done(h)
               /\ UNCHANGED agents
    /\ UNCHANGED <<up, restarts, cron, disk, bounds, root, count, stale, killed>>

RenameOld_Keeps(h) ==
    /\ At(h, "old")
    /\ Goto(h, "copy")
    /\ UNCHANGED <<up, memory, disk, bounds, history>>

RenameOld(h) ==
    /\ At(h, "old")
    /\ index' = Without(index, op[h].name)
    /\ excused' = excused \cup Robbed(h)
    /\ Goto(h, "copy")
    /\ UNCHANGED <<up, agents, restarts, cron, disk, bounds, root, count, stale, killed>>

(* set_agent_model and its kin: update the entry in place ...              *)
Edit(h, a) ==
    /\ At(h, "idle") /\ a \in DOMAIN agents /\ edits < MaxEdits
    /\ agents' = [agents EXCEPT ![a].ver = @ + 1]
    /\ edits' = edits + 1
    /\ op' = [op EXCEPT ![h] = [Idle EXCEPT !.pc = "copy", !.id = a]]
    /\ excused' = excused \cup Overlap(h, a)
    /\ UNCHANGED <<up, index, restarts, cron, disk, nextId, boots, root, count, stale, killed>>

(* ... registry.get a copy, if the agent is still there ...                *)
Copy(h) ==
    /\ At(h, "copy")
    /\ IF op[h].id \in DOMAIN agents
       THEN op' = [op EXCEPT ![h].pc = "write", ![h].copy = agents[op[h].id]]
       ELSE Done(h)
    /\ UNCHANGED <<up, memory, disk, bounds, history>>

(* ... and save_agent it; a failure is logged.                             *)
Write(h) ==
    /\ At(h, "write")
    /\ \/ rows' = Upsert(rows, op[h].id, op[h].copy) /\ UNCHANGED excused
       \/ excused' = excused \cup {root[op[h].id]} /\ UNCHANGED rows
    /\ Done(h)
    /\ UNCHANGED <<up, memory, cronFile, bounds, root, count, stale, killed>>

(* The cron job is created for a registered agent and persisted.           *)
AddCron(a) ==
    /\ up /\ cron = 0 /\ a \in DOMAIN agents
    /\ cron' = a /\ cronFile' = a
    /\ excused' = excused \cup IF \E g \in Handlers : Busy(g, a) THEN {root[a]} ELSE {}
    /\ UNCHANGED <<up, agents, index, restarts, rows, op, bounds, root, count, stale, killed>>

-----------------------------------------------------------------------------
(* load_all_agents: of the rows whose names are one in lower case, the     *)
(* first.                                                                  *)
Restored(rs) ==
    {a \in DOMAIN rs : \A b \in DOMAIN rs :
        Lower[rs[b].name] = Lower[rs[a].name] => rs[a].rowid <= rs[b].rowid}

Shadowed(rs) ==
    {a \in DOMAIN rs : \E b \in DOMAIN rs :
        Lower[rs[b].name] = Lower[rs[a].name] /\ rs[b].rowid < rs[a].rowid}

(* Boot: every restored row is registered and set to Running.              *)
Boot ==
    /\ ~up /\ boots < MaxBoots
    /\ up' = TRUE /\ boots' = boots + 1
    /\ agents' = [a \in Restored(rows) |-> [name |-> rows[a].name, ver |-> rows[a].ver]]
    /\ index' = [n \in {rows[a].name : a \in Restored(rows)} |->
                    CHOOSE a \in Restored(rows) : rows[a].name = n]
    /\ restarts' = <<>>
    /\ cron' = cronFile
    /\ count' = [a \in Ids |-> 0]
    /\ stale' = stale
         \cup {root[a] : a \in {b \in Ids : root[b] # b}}
         \cup {root[a] : a \in Shadowed(rows)}
    /\ UNCHANGED <<disk, op, nextId, edits, root, excused, killed>>

Unfinished == {root[b] : b \in UNION {{op[h].id, op[h].from} : h \in Handlers} \ {0}}

Stop ==
    /\ up' = FALSE
    /\ agents' = <<>> /\ index' = <<>> /\ restarts' = <<>> /\ cron' = 0
    /\ op' = [h \in Handlers |-> Idle]
    /\ excused' = excused \cup Unfinished
    /\ UNCHANGED <<bounds, root, count, stale, killed>>

(* shutdown(): the cron job is persisted and every registered agent saved  *)
(* again, those without a row in any order.                                *)
Shutdown ==
    /\ up /\ boots < MaxBoots
    /\ cronFile' = cron
    /\ LET new == DOMAIN agents \ DOMAIN rows
       IN \E nth \in Bijection(new, 1..Cardinality(new)) :
             rows' = [a \in DOMAIN rows \cup DOMAIN agents |->
                        IF a \in new THEN Row(agents[a], LastRowid(rows) + nth[a])
                        ELSE IF a \in DOMAIN agents THEN Row(agents[a], rows[a].rowid)
                        ELSE rows[a]]
    /\ Stop

Crash ==
    /\ up /\ boots < MaxBoots
    /\ UNCHANGED disk
    /\ Stop

Next ==
    \/ \E h \in Handlers :
          \/ \E n \in Names : SpawnStart(h, n)
          \/ RegisterCheck(h) \/ RegisterInsert(h) \/ SpawnSave(h)
          \/ \E a \in Ids : TakeEntry(h, a, "kill") \/ TakeEntry(h, a, "restart") \/ Edit(h, a)
                            \/ \E n \in Names : RenameStart(h, a, n)
          \/ Unindex(h, "kill", "torn") \/ RemoveRow(h)
          \/ Unindex(h, "restart", "stopped") \/ RestartRecord(h) \/ Carry(h) \/ Reassign(h)
          \/ RenameApply(h) \/ RenameOld(h) \/ Copy(h) \/ Write(h)
    \/ \E a \in Ids : AddCron(a)
    \/ Shutdown \/ Crash \/ Boot

Spec == Init /\ [][Next]_vars

-----------------------------------------------------------------------------
(* Type invariant.                                                         *)
TypeOK ==
    /\ DOMAIN agents \subseteq Ids /\ DOMAIN index \subseteq Names
    /\ \A n \in DOMAIN index : index[n] \in Ids
    /\ \A a \in DOMAIN restarts : a \in Ids /\ restarts[a] \in 1..(MaxRestarts + 1)
    /\ {cron, cronFile} \subseteq 0..MaxIds
    /\ UNION {excused, stale, killed} \subseteq Ids

Quiet == up /\ \A h \in Handlers : op[h].pc = "idle"

(* The registry's two maps agree once the operations in progress end: an   *)
(* agent is found under its name, and a name leads to the agent that has   *)
(* it, unless two registrations took the name at once.                     *)
NameIndexSound ==
    Quiet => /\ \A a \in DOMAIN agents : root[a] \notin excused =>
                   agents[a].name \in DOMAIN index /\ index[agents[a].name] = a
             /\ \A n \in DOMAIN index : root[index[n]] \notin excused =>
                   index[n] \in DOMAIN agents /\ agents[index[n]].name = n

(* A restart of the daemon brings back what runs now, but for names that   *)
(* differ in case only: a registered agent has its current state in its    *)
(* row, and a row without an agent belongs to one that was restarted under *)
(* a new id, or stands behind another row of its name.  The registry takes *)
(* `Bot' and `bot' for two names and load_all_agents() for one, so of two  *)
(* such agents that run, the boot restores the first and drops the second  *)
(* (its lineage is stale from then on).  A killed agent stays away: no     *)
(* later operation and no boot registers its id again.  All of it as long  *)
(* as nothing else worked on the agent meanwhile.                          *)
RowsMatchRegistry ==
    /\ Quiet => \A a \in Ids : root[a] \notin excused \cup stale =>
          /\ a \in DOMAIN agents => a \in DOMAIN rows /\ rows[a] = Row(agents[a], rows[a].rowid)
          /\ a \in DOMAIN rows \ DOMAIN agents => count[root[a]] > 0
    /\ \A a \in killed \cap DOMAIN agents : root[a] \in excused

(* "the limit accumulates across restarts" (restart_agent): no lineage is  *)
(* restarted more than MaxRestarts times by one process.  (A boot forgets  *)
(* the counts; one that finds the rows of an agent's old and new id under  *)
(* two names registers both, and each has a limit of its own.)             *)
RestartLimitHolds ==
    \A a \in Ids : root[a] \notin excused \cup stale => count[root[a]] <= MaxRestarts

(* The cron job follows its agent through restarts: as long as the agent's *)
(* lineage lives, the job runs the agent that is registered.               *)
CronOwnerLives ==
    Quiet /\ cron # 0 /\ root[cron] \notin excused
       /\ (\E a \in DOMAIN agents : root[a] = root[cron]) => cron \in DOMAIN agents

(* ... which holds until the daemon boots with the rows of a restarted     *)
(* agent's old and new id.                                                 *)
CronFollowsRestart == cron # 0 /\ root[cron] \notin stale => CronOwnerLives

=============================================================================
