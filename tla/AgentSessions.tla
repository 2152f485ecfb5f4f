---------------------------- MODULE AgentSessions ----------------------------
(***************************************************************************)
(* The turns of one agent, its session rows, canonical session, token      *)
(* quota and abort handle (kernel.rs, scheduler.rs, session.rs).           *)
(*                                                                         *)
(* Nothing serialises the turns of an agent: each loads the session row,   *)
(* runs the agent loop on its copy (module AgentLoop) and writes the whole *)
(* row back, while other turns, a compaction, a session command, /stop or  *)
(* a kill do the same.  A row is the sequence of the turns it records.  A  *)
(* task is dropped by an abort only where it awaits: at "seg" it is inside *)
(* a poll and gets as far as the next await.  Database errors and the      *)
(* trimming of the canonical session (module AgentLoop) are left out;      *)
(* session commands and the kill do not overlap each other.                *)
(***************************************************************************)
EXTENDS Naturals, Sequences, FiniteSets, SequencesExt

CONSTANTS
    Turns,          \* turns to run
    Compactors,     \* compactions by command or after a turn
    Prior,          \* turns already in the first session
    CompactAbove,   \* CompactionConfig.threshold
    KeepCompact,    \* CompactionConfig.keep_recent
    Quota,          \* max_llm_tokens_per_hour
    TurnCost,       \* tokens a completed turn uses
    MaxSessions,    \* bound: sessions of the agent
    Delayed         \* bound: turns whose handle may be stored after the first answer

ASSUME SessionsAssumption ==
    /\ IsFiniteSet(Turns) /\ Turns \cap Compactors = {}
    /\ Delayed \subseteq Turns
    /\ Prior \in Seq(ToSet(Prior)) /\ IsInjective(Prior)
    /\ ToSet(Prior) \cap (Turns \cup Compactors) = {}
    /\ {CompactAbove, KeepCompact, Quota, TurnCost, MaxSessions} \subseteq Nat
    /\ KeepCompact <= CompactAbove

VARIABLES
    alive,      \* the agent is registered
    current,    \* entry.session_id
    rows,       \* the sessions table
    canon,      \* the canonical session: messages, and turns only its summary covers
    usage,      \* scheduler.usage of the window
    handle,     \* running_tasks: the turns whose abort handle is stored (at most one)
    spawned,    \* streaming turns that were spawned and whose handle is not stored yet
    task,       \* the state of every turn and compaction
    admin,      \* the session command, or the kill, in progress
    nextSid,
    collided,   \* history: tasks whose work on a row overlapped another's
    summarised, \* history: turns that a compaction took off a row
    forgotten,  \* history: turns whose summary was replaced, or was a placeholder
    crossed,    \* history: a summary was stored in the middle of an append
    deleted,    \* history: sessions that were deleted
    peak,       \* history: most turns between quota check and record at one time
    straggler   \* history: the kill found work that no stored handle aborts

history == <<collided, summarised, forgotten, crossed, deleted, peak, straggler>>
vars == <<alive, current, rows, canon, usage, handle, spawned, task, admin, nextSid, history>>

Tasks == Turns \cup Compactors
(* The session a task works on and its copy, the session it compacts and   *)
(* that copy (or, in an append, the canonical session's messages and its   *)
(* summary); whether it is to be spawned, and was aborted inside a poll.   *)
Fresh == [pc |-> "idle", sid |-> 0, copy |-> <<>>, csid |-> 0, ccopy |-> <<>>,
          csum |-> {}, stream |-> FALSE, cut |-> FALSE]
NoAdmin == [pc |-> "idle", sid |-> 0]

Init ==
    /\ alive = TRUE /\ current = 1 /\ nextSid = 2
    /\ rows = <<Prior>>
    /\ canon = [summary |-> {}, msgs |-> Prior]
    /\ usage = 0 /\ handle = {} /\ spawned = {}
    /\ task = [a \in Tasks |-> Fresh] /\ admin = NoAdmin
    /\ collided = {} /\ summarised = {} /\ forgotten = {} /\ crossed = FALSE
    /\ deleted = {} /\ peak = 0 /\ straggler = FALSE

-----------------------------------------------------------------------------
Ended == {"idle", "done", "refused", "failed", "aborted"}
Active(a) == task[a].pc \notin Ended
(* Between check_quota and record_usage.                                   *)
Metered == {t \in Turns : Active(t)}

(* get_session(sid), or an empty session with that id.                     *)
Session(sid) == IF sid \in DOMAIN rows THEN rows[sid] ELSE <<>>
SaveRow(sid, c) == rows' = [s \in DOMAIN rows \cup {sid} |-> IF s = sid THEN c ELSE rows[s]]

(* The sessions that a task has loaded and is going to write.              *)
Window(a) ==
    (IF task[a].pc \in {"compact", "c_llm", "c_row", "run", "seg"} THEN {task[a].sid} ELSE {})
    \cup (IF task[a].pc \in {"c_llm", "c_row"} THEN {task[a].csid} ELSE {})
Collide(a, sid) ==
    LET others == {b \in Tasks \ {a} : sid \in Window(b)}
    IN IF others = {} THEN collided ELSE collided \cup others \cup {a}

Step(a, pc) == task' = [task EXCEPT ![a].pc = pc]
Over(a, pc) == [Fresh EXCEPT !.pc = pc, !.sid = task[a].sid]
End(a, pc) == task' = [task EXCEPT ![a] = Over(a, pc)]

Enter_NoCheck(t, stream) ==
    /\ task[t].pc = "idle" /\ alive
    /\ task' = [task EXCEPT ![t].pc = "entered", ![t].sid = current, ![t].stream = stream]
    /\ peak' = IF Cardinality(Metered) >= peak THEN Cardinality(Metered) + 1 ELSE peak
    /\ UNCHANGED <<alive, current, rows, canon, usage, handle, spawned, admin, nextSid,
                   collided, summarised, forgotten, crossed, deleted, straggler>>

(* send_message_streaming or send_message_with_handle: check_quota and     *)
(* registry.get.                                                           *)
Enter(t, stream) ==
    /\ task[t].pc = "idle" /\ alive
    /\ IF usage > Quota
       THEN Step(t, "refused") /\ UNCHANGED peak
       ELSE /\ task' = [task EXCEPT ![t].pc = "entered", ![t].sid = current,
                                    ![t].stream = stream]
            /\ peak' = IF Cardinality(Metered) >= peak THEN Cardinality(Metered) + 1 ELSE peak
    /\ UNCHANGED <<alive, current, rows, canon, usage, handle, spawned, admin, nextSid,
                   collided, summarised, forgotten, crossed, deleted, straggler>>

(* get_session; a streaming turn is spawned, and compacts a session first  *)
(* that is long or whose tokens are estimated to be too many.              *)
Load(t) ==
    /\ task[t].pc = "entered"
    /\ \E pc \in {"compact", "run"}, c \in {Session(task[t].sid)} :
          /\ task[t].stream /\ Len(c) > CompactAbove => pc = "compact"
          /\ ~task[t].stream => pc = "run"
          /\ task' = [task EXCEPT ![t].copy = c, ![t].pc = pc, ![t].stream = FALSE]
    /\ spawned' = IF task[t].stream THEN spawned \cup {t} ELSE spawned
    /\ collided' = Collide(t, task[t].sid)
    /\ UNCHANGED <<alive, current, rows, canon, usage, handle, admin, nextSid,
                   summarised, forgotten, crossed, deleted, peak, straggler>>

(* The abort handle of the spawned turn replaces the stored one; nothing   *)
(* but the turn's wait for an answer keeps it from overtaking this.        *)
StoreHandle(t) ==
    /\ t \in spawned
    /\ spawned' = spawned \ {t} /\ handle' = {t}
    /\ UNCHANGED <<alive, current, rows, canon, usage, task, admin, nextSid, history>>

Answers(a) == a \in spawned => a \in Delayed

(* The model or a tool answered: the task is polled again.                 *)
Resume(t) ==
    /\ task[t].pc = "run" /\ Answers(t)
    /\ Step(t, "seg")
    /\ UNCHANGED <<alive, current, rows, canon, usage, handle, spawned, admin, nextSid, history>>

(* save_session of the copy with the turn's messages, after a round of     *)
(* tools or at the end.                                                    *)
Save(t) ==
    /\ task[t].pc = "seg"
    /\ LET c == IF t \in ToSet(task[t].copy) THEN task[t].copy ELSE Append(task[t].copy, t)
       IN /\ SaveRow(task[t].sid, c)
          /\ \E pc \in {"run", "canon"} :
                task' = [task EXCEPT ![t] =
                            IF task[t].cut THEN Over(t, "aborted")
                            ELSE IF pc = "run" THEN [task[t] EXCEPT !.copy = c, !.pc = pc]
                            ELSE Over(t, pc)]
    /\ UNCHANGED <<alive, current, canon, usage, handle, spawned, admin, nextSid, history>>

(* A provider error ends the turn without a save or a record of its usage. *)
Fail(t) ==
    /\ task[t].pc = "seg"
    /\ End(t, "failed")
    /\ UNCHANGED <<alive, current, rows, canon, usage, handle, spawned, admin, nextSid, history>>

(* append_canonical loads the canonical session under the connection's     *)
(* lock ...                                                                *)
CanonLoad(t) ==
    /\ task[t].pc = "canon"
    /\ task' = [task EXCEPT ![t].pc = "append", ![t].ccopy = canon.msgs,
                            ![t].csum = canon.summary]
    /\ collided' = IF \E b \in Turns : task[b].pc = "append"
                   THEN collided \cup {t} \cup {b \in Turns : task[b].pc = "append"}
                   ELSE collided
    /\ UNCHANGED <<alive, current, rows, canon, usage, handle, spawned, admin, nextSid,
                   summarised, forgotten, crossed, deleted, peak, straggler>>

CanonSave_NoSummary(t) ==
    /\ task[t].pc = "append"
    /\ canon' = [summary |-> {}, msgs |-> Append(task[t].ccopy, t)]
    /\ End(t, "record")
    /\ UNCHANGED <<alive, current, rows, usage, handle, spawned, admin, nextSid, history>>

(* ... and saves all it loaded, with the turn's messages, under a second.  *)
CanonSave(t) ==
    /\ task[t].pc = "append"
    /\ canon' = [summary |-> task[t].csum, msgs |-> Append(task[t].ccopy, t)]
    /\ End(t, "record")
    /\ UNCHANGED <<alive, current, rows, usage, handle, spawned, admin, nextSid, history>>

(* record_usage, for an agent that still has a tracker.                    *)
RecordUsage(t) ==
    /\ task[t].pc = "record"
    /\ usage' = IF alive THEN usage + TurnCost ELSE usage
    /\ End(t, "done")
    /\ UNCHANGED <<alive, current, rows, canon, handle, spawned, admin, nextSid, history>>

(* reset_if_expired: an hour has passed.                                   *)
NewWindow ==
    /\ usage > 0
    /\ usage' = 0
    /\ UNCHANGED <<alive, current, rows, canon, handle, spawned, task, admin, nextSid, history>>

-----------------------------------------------------------------------------
Reload_Keeps(a, ok) ==
    task' = [task EXCEPT ![a] =
        CASE a \in Compactors            -> Over(a, "done")
          [] a \in Turns /\ task[a].cut -> Over(a, "aborted")
          [] OTHER                      -> [Over(a, "run") EXCEPT !.copy = task[a].copy]]

(* The end of compact_agent_session: a turn reloads its session if the     *)
(* compaction succeeded and the row is there, and begins.                  *)
Reload(a, ok) ==
    task' = [task EXCEPT ![a] =
        CASE a \in Compactors            -> Over(a, "done")
          [] a \in Turns /\ task[a].cut -> Over(a, "aborted")
          [] OTHER                      -> [Over(a, "run") EXCEPT
                !.copy = IF ok /\ task[a].sid \in DOMAIN rows' THEN rows'[task[a].sid]
                                                              ELSE task[a].copy]]

(* compact_agent_session loads the agent's current session, which need not *)
(* be the turn's own, and asks the model for a summary of a long one.      *)
CompactLoad(a) ==
    /\ task[a].pc = IF a \in Turns THEN "compact" ELSE "idle"
    /\ LET c == Session(current)
       IN IF alive /\ Len(c) > CompactAbove
          THEN /\ task' = [task EXCEPT ![a].pc = "c_llm", ![a].csid = current, ![a].ccopy = c]
               /\ collided' = Collide(a, current)
               /\ UNCHANGED rows
          ELSE /\ UNCHANGED rows
               /\ Reload(a, alive)
               /\ UNCHANGED collided
    /\ UNCHANGED <<alive, current, canon, usage, handle, spawned, admin, nextSid,
                   summarised, forgotten, crossed, deleted, peak, straggler>>

Kept(c) == SubSeq(c, Len(c) + 1 - KeepCompact, Len(c))

(* store_llm_summary replaces the summary and the messages of the          *)
(* canonical session.  What the earlier summary told is not in the new     *)
(* one, and when the model is unavailable the new one is a placeholder     *)
(* that tells of no turn.  Without a driver the compaction ends.           *)
CompactStore(a) ==
    /\ task[a].pc = "c_llm" /\ Answers(a)
    /\ \/ LET c == task[a].ccopy
              dropped == ToSet(c) \ ToSet(Kept(c))
          IN \E summary \in {dropped, {}} :
                /\ canon' = [summary |-> summary, msgs |-> Kept(c)]
                /\ summarised' = summarised \cup dropped
                /\ forgotten' = forgotten \cup ((canon.summary \cup dropped) \ summary)
                /\ crossed' = (crossed \/ \E t \in Turns : task[t].pc = "append")
                /\ Step(a, "c_row")
       \/ /\ UNCHANGED <<canon, summarised, forgotten, crossed>>
          /\ Reload(a, FALSE)
    /\ UNCHANGED <<alive, current, rows, usage, handle, spawned, admin, nextSid,
                   collided, deleted, peak, straggler>>

(* save_session of the kept messages.                                      *)
CompactRow(a) ==
    /\ task[a].pc = "c_row"
    /\ SaveRow(task[a].csid, Kept(task[a].ccopy))
    /\ Reload(a, TRUE)
    /\ UNCHANGED <<alive, current, canon, usage, handle, spawned, admin, nextSid, history>>

-----------------------------------------------------------------------------
(* handle.abort() of the stored handle: the task ends where it awaits.     *)
Awaits(t) == task[t].pc \in {"compact", "c_llm", "run", "canon"}
Abort ==
    /\ task' = [t \in Tasks |->
                  IF t \notin handle THEN task[t]
                  ELSE IF Awaits(t) THEN Over(t, "aborted")
                  ELSE [task[t] EXCEPT !.cut = Active(t)]]
    /\ handle' = {}

(* stop_agent_run.                                                         *)
StopRun ==
    /\ handle # {} /\ Abort
    /\ UNCHANGED <<alive, current, rows, canon, usage, spawned, admin, nextSid, history>>

(* reset_session: the current session is deleted ...                       *)
ResetDelete ==
    /\ admin.pc = "idle" /\ alive /\ nextSid <= MaxSessions
    /\ rows' = [s \in DOMAIN rows \ {current} |-> rows[s]]
    /\ deleted' = deleted \cup {current}
    /\ admin' = [pc |-> "new", sid |-> 0]
    /\ UNCHANGED <<alive, current, canon, usage, handle, spawned, task, nextSid,
                   collided, summarised, forgotten, crossed, peak, straggler>>

(* ... and a fresh one created (create_agent_session begins here) ...      *)
NewSession ==
    /\ \/ admin.pc = "new"
       \/ admin.pc = "idle" /\ alive
    /\ nextSid <= MaxSessions
    /\ SaveRow(nextSid, <<>>)
    /\ nextSid' = nextSid + 1
    /\ admin' = [pc |-> "use", sid |-> nextSid]
    /\ UNCHANGED <<alive, current, canon, usage, handle, spawned, task, history>>

(* switch_agent_session finds the row ...                                  *)
SwitchSession(s) ==
    /\ admin.pc = "idle" /\ alive /\ s \in DOMAIN rows \ {current}
    /\ admin' = [pc |-> "use", sid |-> s]
    /\ UNCHANGED <<alive, current, rows, canon, usage, handle, spawned, task, nextSid, history>>

(* ... and update_session_id, an error if the agent is gone.               *)
UseSession ==
    /\ admin.pc = "use"
    /\ current' = IF alive THEN admin.sid ELSE current
    /\ admin' = NoAdmin
    /\ UNCHANGED <<alive, rows, canon, usage, handle, spawned, task, nextSid, history>>

(* kill_agent: out of the registry and the scheduler ...                   *)
KillRemove ==
    /\ admin.pc = "idle" /\ alive
    /\ alive' = FALSE /\ usage' = 0
    /\ admin' = [pc |-> "abort", sid |-> 0]
    /\ UNCHANGED <<current, rows, canon, handle, spawned, task, nextSid, history>>

KillAbort_Forgets ==
    /\ admin.pc = "abort"
    /\ straggler' = \E a \in Tasks : Active(a) /\ ~(a \in handle /\ Awaits(a))
    /\ admin' = [pc |-> "delete", sid |-> 0]
    /\ UNCHANGED <<alive, current, rows, canon, usage, handle, spawned, task, nextSid,
                   collided, summarised, forgotten, crossed, deleted, peak>>

(* ... the running task aborted ...                                        *)
KillAbort ==
    /\ admin.pc = "abort"
    /\ straggler' = \E a \in Tasks : Active(a) /\ ~(a \in handle /\ Awaits(a))
    /\ Abort
    /\ admin' = [pc |-> "delete", sid |-> 0]
    /\ UNCHANGED <<alive, current, rows, canon, usage, spawned, nextSid,
                   collided, summarised, forgotten, crossed, deleted, peak>>

(* ... and delete_agent_sessions (the canonical session stays).            *)
KillDelete ==
    /\ admin.pc = "delete"
    /\ deleted' = deleted \cup DOMAIN rows
    /\ rows' = <<>>
    /\ admin' = [pc |-> "killed", sid |-> 0]
    /\ UNCHANGED <<alive, current, canon, usage, handle, spawned, task, nextSid,
                   collided, summarised, forgotten, crossed, peak, straggler>>

Next ==
    \/ \E t \in Turns, stream \in BOOLEAN : Enter(t, stream)
    \/ \E t \in Turns : Load(t) \/ StoreHandle(t) \/ Resume(t) \/ Save(t) \/ Fail(t)
                        \/ CanonLoad(t) \/ CanonSave(t) \/ RecordUsage(t)
    \/ \E a \in Tasks : CompactLoad(a) \/ CompactStore(a) \/ CompactRow(a)
    \/ \E s \in 1..MaxSessions : SwitchSession(s)
    \/ NewWindow \/ StopRun \/ ResetDelete \/ NewSession \/ UseSession
    \/ KillRemove \/ KillAbort \/ KillDelete

Spec == Init /\ [][Next]_vars

-----------------------------------------------------------------------------
(* Type invariant: rows and tasks name sessions that exist, and at most    *)
(* one abort handle is stored.                                             *)
TypeOK ==
    /\ alive \in BOOLEAN /\ straggler \in BOOLEAN
    /\ current \in 1..nextSid - 1 /\ DOMAIN rows \subseteq 1..nextSid - 1
    /\ usage \in Nat /\ peak \in 0..Cardinality(Turns)
    /\ handle \subseteq Turns /\ Cardinality(handle) <= 1 /\ spawned \subseteq Turns
    /\ \A a \in Tasks : {task[a].sid, task[a].csid} \subseteq 0..nextSid - 1
    /\ collided \subseteq Tasks
    /\ summarised \subseteq Turns \cup ToSet(Prior) /\ forgotten \subseteq summarised
    /\ crossed \in BOOLEAN /\ deleted \subseteq 1..nextSid - 1

(* The turns whose final save is done, and their session.                  *)
Finished == ToSet(Prior) \cup
            {t \in Turns : task[t].pc \in {"canon", "append", "record", "done"}}
SessionOf(t) == IF t \in Turns THEN task[t].sid ELSE 1

(* A finished turn that overlapped no other work on its session stays in   *)
(* the session's row until the session is deleted or a compaction takes it *)
(* off; then the stored summary covers it until a later compaction, of     *)
(* any session, replaces that summary, unless it was a placeholder.  The   *)
(* exception is a summary that an append, begun before it was stored,      *)
(* overwrote with the one before.  And as long as nothing was compacted,   *)
(* the turn is in the canonical session, which tells one channel what the  *)
(* others were told.                                                       *)
TurnsAreKept ==
    /\ \A t \in Finished \ collided :
          LET s == SessionOf(t)
          IN s \notin deleted =>
                \/ s \in DOMAIN rows /\ t \in ToSet(rows[s])
                \/ t \in canon.summary \cup forgotten
                \/ crossed /\ t \in summarised
    /\ summarised = {} =>
          \A t \in Turns \ collided :
              task[t].pc \in {"record", "done"} => t \in ToSet(canon.msgs)

(* While nothing overlaps, what a compaction summarised does not come back *)
(* into the row, so that no turn is both summarised and sent in full.      *)
SummarisedStaysOut ==
    \A t \in summarised :
        LET s == SessionOf(t)
            moving == \E a \in Tasks : task[a].pc = "c_row" /\ task[a].csid = s
        IN collided = {} /\ ~moving /\ s \in DOMAIN rows => t \notin ToSet(rows[s])

(* After a kill no session row of the agent is left, unless the kill met   *)
(* work that it cannot abort: a turn that does not stream, an older        *)
(* stream, a compaction or a poll in progress.                             *)
KillLeavesNothing == admin.pc = "killed" /\ ~straggler => rows = <<>>

(* Turns that pass the quota check together overshoot the hourly limit,    *)
(* each by what it uses and no more.                                       *)
QuotaOvershootBounded ==
    usage + TurnCost * Cardinality(Metered) <= Quota + TurnCost * peak

=============================================================================
