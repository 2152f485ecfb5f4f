--------------------------- MODULE MessageHistory ---------------------------
(***************************************************************************)
(* The message history of a session and the pure functions that rewrite    *)
(* it: validate_and_repair and prune_heartbeat_turns (session_repair.rs),  *)
(* recover_from_overflow (context_overflow.rs) and the cut that every      *)
(* trimming of a history makes.                                            *)
(*                                                                         *)
(* A message is a role and a sequence of content blocks; a message with    *)
(* empty text has no block.  A block is a kind and a number: the tool call *)
(* of a "use", a "result" or a "lost" (the synthetic result of a call that *)
(* has none), the turn of a "text"; "blank" is text of white space only,   *)
(* "silent" the marker of a turn without reply.                            *)
(***************************************************************************)
EXTENDS Integers, Sequences, SequencesExt

CONSTANTS
    KeepModerate,       \* messages kept by stage 1 of the overflow recovery
    KeepAggressive      \* messages kept by its stage 2

ASSUME KeepAssumption == KeepModerate \in Nat /\ KeepAggressive \in Nat

(* Both constants of context_overflow.rs are even and positive.            *)
ASSUME EvenAssumption == /\ \E h \in 1..KeepModerate : KeepModerate = 2 * h
                         /\ \E h \in 1..KeepAggressive : KeepAggressive = 2 * h

Block(kind, n) == [k |-> kind, n |-> n]
Msg(role, blocks) == [role |-> role, blocks |-> blocks]

IsResult(b) == b.k \in {"result", "lost"}

(* The blocks of a history, and the calls and the results in a message     *)
(* and in a history.                                                       *)
Blocks(ms) == UNION {ToSet(ms[i].blocks) : i \in DOMAIN ms}
Uses(m) == {b.n : b \in {x \in ToSet(m.blocks) : x.k = "use"}}
Answers(m) == {b.n : b \in {x \in ToSet(m.blocks) : IsResult(x)}}
UseIds(ms) == UNION {Uses(ms[i]) : i \in DOMAIN ms}
ResultIds(ms) == UNION {Answers(ms[i]) : i \in DOMAIN ms}

(* The loop puts calls into assistant messages and results into user       *)
(* messages only.                                                          *)
Kinds == {"text", "blank", "silent", "use", "result", "lost"}
Message == [role : {"user", "assistant"}, blocks : Seq([k : Kinds, n : Int])]

Proper(ms) ==
    /\ ms \in Seq(Message)
    /\ \A i \in DOMAIN ms : ms[i].role = "user" => Uses(ms[i]) = {}
    /\ \A i \in DOMAIN ms : ms[i].role = "assistant" => Answers(ms[i]) = {}

(* A row that only the repair has put synthetic results into: each stands  *)
(* behind a call with its id, and a real result with the same id belongs   *)
(* to another call.                                                        *)
LostSound(ms) ==
    \A i \in DOMAIN ms : \A b \in ToSet(ms[i].blocks) : b.k = "lost" =>
       /\ \E j \in DOMAIN ms : j < i /\ b.n \in Uses(ms[j])
       /\ \A l \in DOMAIN ms : Block("result", b.n) \in ToSet(ms[l].blocks) =>
             \E p, q \in DOMAIN ms : /\ p < q /\ (q < i \/ q < l)
                                    /\ b.n \in Uses(ms[p]) /\ b.n \in Uses(ms[q])

(* What is left of a sequence when only the positions in I stay, and of a  *)
(* history when only the blocks at the positions stay[i] of message i do.  *)
Pick(s, I) == FlattenSeq([i \in DOMAIN s |-> IF i \in I THEN <<s[i]>> ELSE <<>>])

PickBlocks(ms, stay) == [i \in DOMAIN ms |-> Msg(ms[i].role, Pick(ms[i].blocks, stay[i]))]

DropEmpty(ms) == Pick(ms, {i \in DOMAIN ms : ms[i].blocks # <<>>})

KeepLast(ms, n) == IF Len(ms) > n THEN SubSeq(ms, Len(ms) - n + 1, Len(ms)) ELSE ms

-----------------------------------------------------------------------------
(* Phases 1 and 2: results of unknown calls and empty messages go.         *)
Known(ms, b) == IsResult(b) => b.n \in UseIds(ms)

Clean(ms) ==
    DropEmpty(PickBlocks(ms,
        [i \in DOMAIN ms |-> {j \in DOMAIN ms[i].blocks : Known(ms, ms[i].blocks[j])}]))

(* tool_use_index: the last assistant message with the call, 0 if none.    *)
Home(ms, id) ==
    LET at == {i \in DOMAIN ms : ms[i].role = "assistant" /\ id \in Uses(ms[i])}
    IN IF at = {} THEN 0 ELSE CHOOSE i \in at : \A j \in at : j <= i

(* The results waiting in after[i] join the user message that follows      *)
(* assistant message i, or form a new one.                                 *)
Attach(ms, after) ==
    LET joined(i) == IF i > 1 /\ ms[i].role = "user"
                     THEN Msg("user", ms[i].blocks \o after[i - 1]) ELSE ms[i]
        waits(i) == after[i] # <<>> /\ ~(i < Len(ms) /\ ms[i + 1].role = "user")
    IN FlattenSeq([i \in DOMAIN ms |->
          IF waits(i) THEN <<joined(i), Msg("user", after[i])>> ELSE <<joined(i)>>])

(* Phase 2b, reorder_tool_results: a result that is not in the user        *)
(* message right after its call moves there.                               *)
Misplaced(ms, i, b) == /\ ms[i].role = "user" /\ IsResult(b)
                       /\ Home(ms, b.n) # 0 /\ i # Home(ms, b.n) + 1

Reorder(ms) ==
    LET bad(i) == {j \in DOMAIN ms[i].blocks : Misplaced(ms, i, ms[i].blocks[j])}
        moved(a) == FlattenSeq([i \in DOMAIN ms |->
                        Pick(ms[i].blocks, {j \in bad(i) : Home(ms, ms[i].blocks[j].n) = a})])
        left == PickBlocks(ms, [i \in DOMAIN ms |-> DOMAIN ms[i].blocks \ bad(i)])
        kept == Pick([i \in DOMAIN ms |-> [m |-> left[i], after |-> moved(i)]],
                     {i \in DOMAIN ms : left[i].blocks # <<>>})
    IN Attach([i \in DOMAIN kept |-> kept[i].m], [i \in DOMAIN kept |-> kept[i].after])

(* Phase 2c, insert_synthetic_results: a call without any result gets one. *)
InsertSynthetic(ms) ==
    LET open(bs) == Pick(bs, {j \in DOMAIN bs : bs[j].k = "use" /\ bs[j].n \notin ResultIds(ms)})
        lost(bs) == [j \in DOMAIN open(bs) |-> Block("lost", open(bs)[j].n)]
    IN Attach(ms, [i \in DOMAIN ms |->
                      IF ms[i].role = "assistant" THEN lost(ms[i].blocks) ELSE <<>>])

(* Phase 2d, deduplicate_tool_results: the first result of a call stays.   *)
Repeats(ms, i, j) ==
    \E k \in 1..i : \E l \in DOMAIN ms[k].blocks :
       /\ k < i \/ l < j
       /\ IsResult(ms[i].blocks[j]) /\ IsResult(ms[k].blocks[l])
       /\ ms[k].blocks[l].n = ms[i].blocks[j].n

Dedup(ms) ==
    DropEmpty(PickBlocks(ms,
        [i \in DOMAIN ms |-> {j \in DOMAIN ms[i].blocks : ~Repeats(ms, i, j)}]))

(* Phase 2e, remove_aborted_assistant_messages: blank assistant messages   *)
(* go, except the last message.                                            *)
IsBlank(m) == m.role = "assistant" /\ \A b \in ToSet(m.blocks) : b.k = "blank"

RemoveAborted(ms) == Pick(ms, {i \in DOMAIN ms : i = Len(ms) \/ ~IsBlank(ms[i])})

(* Phase 3: neighbours of the same role become one message.                *)
MergeRoles(ms) ==
    LET starts == {i \in DOMAIN ms : i > 1 => ms[i - 1].role # ms[i].role}
        same(i) == {j \in DOMAIN ms : i <= j /\ \A l \in (i + 1)..j : l \notin starts}
        merged(i) == Msg(ms[i].role, FlattenSeq([j \in DOMAIN ms |->
                                        IF j \in same(i) THEN ms[j].blocks ELSE <<>>]))
    IN Pick([i \in DOMAIN ms |-> merged(i)], starts)

Repair_MergesFirst(ms) == RemoveAborted(Dedup(InsertSynthetic(Reorder(MergeRoles(Clean(ms))))))

(* validate_and_repair.                                                    *)
Repair(ms) == MergeRoles(RemoveAborted(Dedup(InsertSynthetic(Reorder(Clean(ms))))))

-----------------------------------------------------------------------------
IsSilent(m) == m.role = "assistant" /\ Len(m.blocks) = 1 /\ m.blocks[1].k = "silent"

(* prune_heartbeat_turns: a silent message that is not recent goes, with   *)
(* the user message before it.                                             *)
PruneHeartbeats(ms, keep) ==
    LET silent == {i \in 1..(Len(ms) - keep) : IsSilent(ms[i])}
        trigger == {i \in DOMAIN ms : i + 1 \in silent /\ ms[i].role = "user"}
    IN Pick(ms, DOMAIN ms \ (silent \cup trigger))

OverflowOutcomes_OddCut(ms) ==
    {ms, KeepLast(ms, KeepModerate - 1),
     IF Len(ms) > KeepAggressive
     THEN <<Msg("user", <<Block("text", 0)>>)>> \o KeepLast(ms, KeepAggressive - 1) ELSE ms}

OverflowSummary == Msg("user", <<Block("text", 0)>>)

(* recover_from_overflow, for every size the token estimate can find: no   *)
(* trim, the moderate trim, or the aggressive one, alone or after it (the  *)
(* same messages remain).  Stage 3 shortens the text of results only.      *)
OverflowOutcomes(ms) ==
    {ms, KeepLast(ms, KeepModerate),
     IF Len(ms) > KeepAggressive
     THEN <<OverflowSummary>> \o KeepLast(ms, KeepAggressive) ELSE ms}

-----------------------------------------------------------------------------
(* What the providers accept of a request, as the comments of the repair   *)
(* and of the agent loop state it: roles alternate, and the results in a   *)
(* message are exactly one for each call of the message before it.         *)
Alternates(ms) == \A i \in 1..(Len(ms) - 1) : ms[i].role # ms[i + 1].role

CallsAnswered(ms) ==
    \A i \in DOMAIN ms :
       /\ i = Len(ms) => Uses(ms[i]) = {}
       /\ Answers(ms[i]) = IF i = 1 THEN {} ELSE Uses(ms[i - 1])
       /\ \A j, l \in DOMAIN ms[i].blocks :
             /\ IsResult(ms[i].blocks[j]) /\ IsResult(ms[i].blocks[l])
             /\ ms[i].blocks[j].n = ms[i].blocks[l].n
             => j = l

WellFormed(ms) == Alternates(ms) /\ CallsAnswered(ms)

NoEmptyMessage(ms) == \A i \in DOMAIN ms : ms[i].blocks # <<>>

(* Every call of the history has an id of its own.                         *)
IdsUnique(ms) ==
    LET at == UNION {{<<i, j>> : j \in {l \in DOMAIN ms[i].blocks : ms[i].blocks[l].k = "use"}}
                      : i \in DOMAIN ms}
    IN \A p, q \in at : ms[p[1]].blocks[p[2]].n = ms[q[1]].blocks[q[2]].n => p = q

=============================================================================
