----------------------------- MODULE AgentLoop ------------------------------
(***************************************************************************)
(* The turns of one agent over its session (run_agent_loop and             *)
(* run_agent_loop_streaming of agent_loop.rs, execute_llm_agent,           *)
(* compact_agent_session and retry_last_turn of kernel.rs).                *)
(*                                                                         *)
(* A turn loads the session row, appends the user's message, repairs a     *)
(* copy as the context of the model, and alternates requests with tool     *)
(* rounds.  `sess' is what will be saved, `msgs' what the model is sent;   *)
(* both grow together but are trimmed, repaired and pruned at different    *)
(* places.  A turn can be aborted, and the process can crash, at every     *)
(* await; a save can fail.  The turns of one agent follow each other here: *)
(* AgentSessions models turns that overlap.                                *)
(***************************************************************************)
EXTENDS MessageHistory, FiniteSets

CONSTANTS
    MaxHistory,         \* MAX_HISTORY_MESSAGES
    KeepRecent,         \* messages prune_heartbeat_turns leaves alone
    CompactAbove,       \* CompactionConfig.threshold
    KeepCompact,        \* CompactionConfig.keep_recent
    CanonThreshold,     \* DEFAULT_COMPACTION_THRESHOLD of the canonical session
    CanonWindow,        \* DEFAULT_CANONICAL_WINDOW
    MaxIterations,      \* max_iterations
    MaxContinuations,   \* MAX_CONTINUATIONS
    MaxBatch,           \* bound: tool calls of one response
    MaxTurns,           \* bound: turns started
    MaxCalls,           \* bound: tool calls with an id of their own
    SharedIds,          \* whether a driver gives ids of its own (Groq recovery)
    Histories           \* the rows a run starts from, with the turns already used

ASSUME ConstantAssumption ==
    /\ {MaxHistory, KeepRecent, CompactAbove, KeepCompact, CanonThreshold, CanonWindow,
        MaxIterations, MaxContinuations, MaxBatch, MaxTurns, MaxCalls} \subseteq Nat
    /\ CanonWindow <= CanonThreshold
    /\ SharedIds \in BOOLEAN

(* The row keeps at least the message of the turn; the histories are rows  *)
(* that the loop wrote, whatever was cut out of them afterwards.           *)
ASSUME RowsAssumption ==
    /\ MaxHistory > 0
    /\ \A h \in Histories : h.turns \in 0..MaxTurns /\ Proper(h.ms) /\ LostSound(h.ms)

VARIABLES
    saved,      \* the session row
    canon,      \* the messages of the canonical session
    pc,         \* "idle", "send", "waiting", "tools" or "record"
    sess,       \* session.messages of the running turn
    msgs,       \* the model's context
    before,     \* messages_before
    iter,       \* requests sent
    cont,       \* consecutive_max_tokens
    pending,    \* tool calls of the round not yet executed
    results,    \* tool_result_blocks
    turn,       \* turns started
    calls,      \* ids given by the provider
    done,       \* history: calls of the rounds whose interim save succeeded
    pruned      \* history: prune_heartbeat_turns has removed messages

work == <<sess, msgs, before, iter, cont, pending, results>>
vars == <<saved, canon, pc, work, turn, calls, done, pruned>>

User(n) == Msg("user", <<Block("text", n)>>)
Assistant(n) == Msg("assistant", <<Block("text", n)>>)
Note(role) == Msg(role, <<Block("text", 0)>>)

Init ==
    /\ \E h \in Histories : saved = h.ms /\ turn = h.turns
    /\ canon = <<>>
    /\ pc = "idle"
    /\ sess = <<>> /\ msgs = <<>> /\ before = 0
    /\ iter = 0 /\ cont = 0 /\ pending = <<>> /\ results = <<>>
    /\ calls = 0
    /\ pruned = FALSE
    /\ done = {}

-----------------------------------------------------------------------------
(* The context of a turn: the repaired history, cut to MaxHistory messages *)
(* and repaired again.                                                     *)
Context(ms) ==
    LET r == Repair(ms)
    IN IF Len(r) > MaxHistory THEN Repair(KeepLast(r, MaxHistory)) ELSE r

(* execute_llm_agent loads the row; the loop appends the message.          *)
Begin ==
    /\ pc = "idle" /\ turn < MaxTurns
    /\ turn' = turn + 1
    /\ before' = Len(saved)
    /\ sess' = Append(saved, User(turn'))
    /\ msgs' = Context(sess')
    /\ iter' = 0 /\ cont' = 0 /\ pending' = <<>> /\ results' = <<>>
    /\ pc' = "send"
    /\ UNCHANGED <<saved, canon, calls, done, pruned>>

(* One iteration: recover from overflow, then call the model.              *)
Send ==
    /\ pc = "send" /\ iter < MaxIterations
    /\ iter' = iter + 1
    /\ msgs' \in OverflowOutcomes(msgs)
    /\ pc' = "waiting"
    /\ UNCHANGED <<saved, canon, sess, before, cont, pending, results, turn, calls, done, pruned>>

(* End of a turn: the working state is gone.                               *)
Forget ==
    /\ sess' = <<>> /\ msgs' = <<>> /\ before' = 0 /\ iter' = 0 /\ cont' = 0
    /\ pending' = <<>> /\ results' = <<>>

(* save_session in places that only log a failure.                         *)
TrySave(ms) == saved' \in {saved, ms}

GiveUp_NoReturn ==
    /\ pc = "send" /\ iter = MaxIterations
    /\ TrySave(sess)
    /\ UNCHANGED <<canon, pc, work, turn, calls, done, pruned>>

(* The iterations are used up: save, and return an error.                  *)
GiveUp ==
    /\ pc = "send" /\ iter = MaxIterations
    /\ TrySave(sess)
    /\ pc' = "idle"
    /\ Forget
    /\ UNCHANGED <<canon, turn, calls, done, pruned>>

(* EndTurn with text (a placeholder stands for empty text): append, prune  *)
(* the heartbeat turns, save.                                              *)
Answer ==
    /\ pc = "waiting"
    /\ sess' = PruneHeartbeats(Append(sess, Assistant(turn)), KeepRecent)
    /\ pruned' = (pruned \/ Len(sess') # Len(sess) + 1)
    /\ saved' = sess'
    /\ pc' = "record"
    /\ UNCHANGED <<canon, msgs, before, iter, cont, pending, results, turn, calls, done>>

(* EndTurn with NO_REPLY: the marker is saved, nothing is pruned.          *)
NoReply ==
    /\ pc = "waiting"
    /\ sess' = Append(sess, Msg("assistant", <<Block("silent", 0)>>))
    /\ saved' = sess'
    /\ pc' = "record"
    /\ UNCHANGED <<canon, msgs, before, iter, cont, pending, results, turn, calls, done, pruned>>

(* The model call fails for good, or saving the answer does: the error     *)
(* ends the turn and nothing is saved.  Also: the turn is aborted or the   *)
(* process dies while it awaits the model, a tool, or the memory of the    *)
(* interaction.                                                            *)
Lose ==
    /\ pc \in {"waiting", "tools", "record"}
    /\ pc' = "idle"
    /\ Forget
    /\ UNCHANGED <<saved, canon, turn, calls, done, pruned>>

(* Empty text on the first request: ask once more, in the context only.    *)
EmptyRetry ==
    /\ pc = "waiting" /\ iter = 1
    /\ msgs' = msgs \o <<Note("assistant"), Note("user")>>
    /\ pc' = "send"
    /\ UNCHANGED <<saved, canon, sess, before, iter, cont, pending, results, turn, calls, done, pruned>>

OwnIds == IF SharedIds THEN BOOLEAN ELSE {FALSE}

(* ToolUse: n calls, with ids of the provider's (new ones) or of the Groq  *)
(* recovery (numbered within the response).                                *)
CallTools(n, own) ==
    /\ pc = "waiting"
    /\ ~own => calls + n <= MaxCalls
    /\ pending' = [j \in 1..n |-> IF own THEN -j ELSE calls + j]
    /\ calls' = IF own THEN calls ELSE calls + n
    /\ LET m == Msg("assistant", [j \in 1..n |-> Block("use", pending'[j])])
       IN sess' = Append(sess, m) /\ msgs' = Append(msgs, m)
    /\ results' = <<>> /\ cont' = 0
    /\ pc' = "tools"
    /\ UNCHANGED <<saved, canon, before, iter, turn, done, pruned>>

(* The next call is executed, times out, or is blocked by the loop guard   *)
(* or a hook: each way it has a result.                                    *)
RunTool ==
    /\ pc = "tools" /\ pending # <<>>
    /\ results' = Append(results, Block("result", Head(pending)))
    /\ pending' = Tail(pending)
    /\ UNCHANGED <<saved, canon, pc, sess, msgs, before, iter, cont, turn, calls, done, pruned>>

(* The loop guard breaks the circuit: save as it is, and return an error.  *)
CircuitBreak ==
    /\ pc = "tools" /\ pending # <<>>
    /\ TrySave(sess)
    /\ pc' = "idle"
    /\ Forget
    /\ UNCHANGED <<canon, turn, calls, done, pruned>>

ToolsDone_NoSave ==
    /\ pc = "tools" /\ pending = <<>>
    /\ sess' = Append(sess, Msg("user", results))
    /\ msgs' = Append(msgs, Msg("user", results))
    /\ done' = done \cup {b.n : b \in ToSet(results)}
    /\ pc' = "send"
    /\ UNCHANGED <<saved, canon, before, iter, cont, pending, results, turn, calls, pruned>>

(* The round is complete: its results join both histories, interim save.   *)
ToolsDone ==
    /\ pc = "tools" /\ pending = <<>>
    /\ sess' = Append(sess, Msg("user", results))
    /\ msgs' = Append(msgs, Msg("user", results))
    /\ \/ saved' = sess' /\ done' = done \cup {b.n : b \in ToSet(results)}
       \/ UNCHANGED <<saved, done>>
    /\ pc' = "send"
    /\ UNCHANGED <<canon, before, iter, cont, pending, results, turn, calls, pruned>>

(* MaxTokens: the partial text (which may be empty) is kept and the model  *)
(* asked to continue ...                                                   *)
Continue(text) ==
    /\ pc = "waiting" /\ cont + 1 < MaxContinuations
    /\ cont' = cont + 1
    /\ LET m == IF text THEN Assistant(turn) ELSE Msg("assistant", <<>>)
       IN /\ sess' = Append(sess, m)
          /\ msgs' = msgs \o <<m, Note("user")>>
    /\ pc' = "send"
    /\ UNCHANGED <<saved, canon, before, iter, pending, results, turn, calls, done, pruned>>

(* ... and the last continuation is the answer.                            *)
Partial ==
    /\ pc = "waiting" /\ cont + 1 = MaxContinuations
    /\ sess' = Append(sess, Assistant(turn))
    /\ TrySave(sess')
    /\ pc' = "record"
    /\ UNCHANGED <<canon, msgs, before, iter, cont, pending, results, turn, calls, done, pruned>>

(* append_canonical: the oldest messages give way beyond the threshold.    *)
Canon(ms) == IF Len(ms) > CanonThreshold THEN KeepLast(ms, CanonWindow) ELSE ms

(* The turn returned: what it appended goes to the canonical session.      *)
Record ==
    /\ pc = "record"
    /\ canon' = IF Len(sess) > before THEN Canon(canon \o SubSeq(sess, before + 1, Len(sess))) ELSE canon
    /\ pc' = "idle"
    /\ Forget
    /\ UNCHANGED <<saved, turn, calls, done, pruned>>

-----------------------------------------------------------------------------
(* compact_agent_session: the recent messages replace the canonical ones,  *)
(* then, repaired, the row (unless that save fails).                       *)
Compact ==
    /\ pc = "idle" /\ Len(saved) > CompactAbove
    /\ LET kept == KeepLast(saved, KeepCompact)
       IN /\ canon' = kept
          /\ saved' \in {saved, Repair(kept)}
    /\ done' = {id \in done : Block("result", id) \in Blocks(saved')}
    /\ UNCHANGED <<pc, work, turn, calls, pruned>>

(* retry_last_turn: the last user-role message and all after it go.        *)
RetryLastTurn ==
    /\ pc = "idle"
    /\ \E i \in DOMAIN saved :
          /\ saved[i].role = "user"
          /\ \A j \in DOMAIN saved : saved[j].role = "user" => j <= i
          /\ saved' = SubSeq(saved, 1, i - 1)
    /\ done' = {id \in done : Block("result", id) \in Blocks(saved')}
    /\ UNCHANGED <<canon, pc, work, turn, calls, pruned>>

(* The API stores image attachments as a user message before the turn      *)
(* (bound: one at a time).                                                 *)
AttachImages ==
    /\ pc = "idle" /\ turn < MaxTurns
    /\ saved # <<>> => Last(saved) # Note("user")
    /\ saved' = Append(saved, Note("user"))
    /\ UNCHANGED <<canon, pc, work, turn, calls, done, pruned>>

Next ==
    \/ Begin \/ Send \/ GiveUp \/ Answer \/ NoReply \/ Lose \/ EmptyRetry
    \/ \E n \in 1..MaxBatch, own \in OwnIds : CallTools(n, own)
    \/ RunTool \/ CircuitBreak \/ ToolsDone
    \/ \E text \in BOOLEAN : Continue(text)
    \/ Partial \/ Record
    \/ Compact \/ RetryLastTurn \/ AttachImages

Spec == Init /\ [][Next]_vars

(* What a model call can come to.                                          *)
Settles ==
    \/ Answer \/ NoReply \/ Lose \/ EmptyRetry \/ Partial
    \/ \E n \in 1..MaxBatch, own \in OwnIds : CallTools(n, own)
    \/ \E text \in BOOLEAN : Continue(text)

(* The loop runs by itself; the model answers or the call fails.           *)
Fairness == /\ WF_vars(Send) /\ WF_vars(GiveUp) /\ WF_vars(Settles)
            /\ WF_vars(RunTool) /\ WF_vars(ToolsDone) /\ WF_vars(Record)

FairSpec == Spec /\ Fairness

-----------------------------------------------------------------------------
(* Type invariant.                                                         *)
TypeOK ==
    /\ pc \in {"idle", "send", "waiting", "tools", "record"}
    /\ iter \in 0..MaxIterations /\ cont \in 0..MaxContinuations
    /\ turn \in 0..MaxTurns /\ calls \in 0..MaxCalls
    /\ before <= Len(sess) \/ pruned
    /\ Len(canon) <= CanonThreshold \/ Len(canon) <= KeepCompact

(* validate_and_repair, on every history whose calls have ids of their     *)
(* own.  It is sound: what it returns is what the providers accept,        *)
(* without empty messages, and repairing it again changes nothing.  And it *)
(* loses no content: the calls, the texts and the results of known calls   *)
(* are the same before and after, blank text apart, and only a call        *)
(* without any result is reported as lost.                                 *)
RepairCorrect ==
    LET r == Repair(saved)
        content(ms) == {b \in Blocks(ms) : /\ b.k \notin {"blank", "lost"}
                                           /\ b.k = "result" => b.n \in UseIds(ms)}
        idsOf(ms, k) == {b.n : b \in {x \in Blocks(ms) : x.k = k}}
    IN pc = "idle" /\ IdsUnique(saved) =>
          /\ WellFormed(r) /\ NoEmptyMessage(r) /\ Repair(r) = r
          /\ content(r) = content(saved)
          /\ idsOf(r, "lost") = UseIds(saved) \ idsOf(saved, "result")

(* Every request is one the providers accept ("Anthropic and OpenAI both   *)
(* reject orphan tool_results with HTTP 400", run_agent_loop), although    *)
(* the context is cut between iterations without another repair, as long   *)
(* as the tool calls of the session have ids of their own.                 *)
DistinctIdsWellFormed ==
    pc = "waiting" /\ IdsUnique(sess) => WellFormed(msgs) /\ Last(msgs).role = "user"

(* "Interim save after tool execution to prevent data loss on crash": the  *)
(* results of a completed round are in the row from then on, whatever ends *)
(* the turn, until a retry, a compaction or a pruning removes them.        *)
ToolWorkSurvives == ~pruned => \A id \in done : Block("result", id) \in Blocks(saved)

(* Every turn ends, whatever the model answers.                            *)
TurnEnds == (pc # "idle") ~> (pc = "idle")
=============================================================================
