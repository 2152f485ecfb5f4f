---------------------------- MODULE ChannelBridge ----------------------------
(***************************************************************************)
(* A Telegram channel: the long-poll loop of the adapter (channels/src/    *)
(* telegram.rs), the queue between it and the bridge, the dispatch task    *)
(* (channels/src/bridge.rs), and stop, reload and crash of the bridge.     *)
(*                                                                         *)
(* Telegram keeps an update until a later request names a higher offset.   *)
(* The dispatch task handles one message at a time and waits for the whole *)
(* turn of a message that goes to an agent.  An update is its number and   *)
(* what becomes of it: "chat" goes to an agent, "control" answers an       *)
(* approval (a button, /approve, /reject) or is /stop, "junk" is filtered. *)
(***************************************************************************)
EXTENDS Naturals, Sequences, FiniteSets, SequencesExt

CONSTANTS
    QueueSize,      \* capacity of the mpsc channel
    MaxUpdates,     \* bound: updates sent by the users
    MaxStarts       \* bound: starts of the bridge

VARIABLES
    updates,    \* the updates of the chat; the index is the update_id
    confirmed,  \* Telegram has forgotten the updates before this one
    offset,     \* the loop's offset (0: None)
    poll,       \* the loop: "ask", "wait" for an answer, "batch", "ended"
    batch,      \* updates of the answer not looked at yet
    queue,      \* messages between loop and dispatch task
    disp,       \* the dispatch task: "idle", "turn" (it waits for one), "ended"
    turn,       \* that turn: "none", "running", "asking" for an approval
    stopping,   \* the shutdown flags of bridge and adapter
    starts,
    latest,     \* history: the last update dispatched since the start
    gone        \* history: updates dispatched, or dropped with the queue, ever

task == <<disp, turn>>
history == <<latest, gone>>
vars == <<updates, confirmed, offset, poll, batch, queue, task, stopping, starts, history>>

Kinds == {"chat", "control", "junk"}

(* start: everything the bridge keeps is in memory.                        *)
Fresh ==
    /\ offset' = 0 /\ poll' = "ask" /\ batch' = <<>> /\ queue' = <<>>
    /\ disp' = "idle" /\ turn' = "none" /\ stopping' = FALSE
    /\ latest' = 0

Init ==
    /\ updates = <<>> /\ confirmed = 1
    /\ offset = 0 /\ poll = "ask" /\ batch = <<>> /\ queue = <<>>
    /\ disp = "idle" /\ turn = "none" /\ stopping = FALSE /\ starts = 1
    /\ latest = 0 /\ gone = {}

(* A user writes, or presses a button.                                     *)
Arrive(kind) ==
    /\ Len(updates) < MaxUpdates
    /\ updates' = Append(updates, kind)
    /\ UNCHANGED <<confirmed, offset, poll, batch, queue, task, stopping, starts, history>>

-----------------------------------------------------------------------------
(* The head of the polling loop.                                           *)
Ask ==
    /\ poll = "ask"
    /\ poll' = IF stopping THEN "ended" ELSE "wait"
    /\ UNCHANGED <<updates, confirmed, offset, batch, queue, task, stopping, starts, history>>

(* Telegram receives the request and forgets what it confirms.             *)
Confirm == confirmed' = IF offset > confirmed THEN offset ELSE confirmed

(* The answer: the updates that are left, none if the long poll timed out. *)
Answer ==
    /\ poll = "wait"
    /\ Confirm
    /\ batch' = [k \in 1..(Len(updates) + 1 - confirmed') |-> confirmed' + k - 1]
    /\ poll' = "batch"
    /\ UNCHANGED <<updates, offset, queue, task, stopping, starts, history>>

(* A network error, an error status, a body that cannot be read: the loop  *)
(* sleeps and asks again, whether Telegram received the request or not.    *)
LoseAnswer ==
    /\ poll = "wait"
    /\ Confirm \/ UNCHANGED confirmed
    /\ poll' = "ask"
    /\ UNCHANGED <<updates, offset, batch, queue, task, stopping, starts, history>>

(* 409: another instance polls; the loop ends.  Or the flag of stop().     *)
EndPoll ==
    /\ poll = "wait"
    /\ Confirm \/ UNCHANGED confirmed
    /\ poll' = "ended"
    /\ UNCHANGED <<updates, offset, batch, queue, task, stopping, starts, history>>

TakeUpdate_OffsetLags ==
    /\ poll = "batch" /\ batch # <<>>
    /\ offset' = Head(batch)
    /\ batch' = Tail(batch)
    /\ \/ /\ updates[Head(batch)] = "junk"
          /\ UNCHANGED <<poll, queue>>
       \/ /\ updates[Head(batch)] # "junk" /\ disp = "ended"
          /\ poll' = "ended" /\ UNCHANGED queue
       \/ /\ updates[Head(batch)] # "junk" /\ disp # "ended" /\ Len(queue) < QueueSize
          /\ queue' = Append(queue, Head(batch)) /\ UNCHANGED poll
    /\ UNCHANGED <<updates, confirmed, task, stopping, starts, history>>

(* One update: the offset moves on, the message is put into the queue,     *)
(* which may have to wait for room and fails when its receiver is gone.    *)
TakeUpdate ==
    /\ poll = "batch" /\ batch # <<>>
    /\ offset' = Head(batch) + 1
    /\ batch' = Tail(batch)
    /\ \/ /\ updates[Head(batch)] = "junk"
          /\ UNCHANGED <<poll, queue>>
       \/ /\ updates[Head(batch)] # "junk" /\ disp = "ended"
          /\ poll' = "ended" /\ UNCHANGED queue
       \/ /\ updates[Head(batch)] # "junk" /\ disp # "ended" /\ Len(queue) < QueueSize
          /\ queue' = Append(queue, Head(batch)) /\ UNCHANGED poll
    /\ UNCHANGED <<updates, confirmed, task, stopping, starts, history>>

BatchDone ==
    /\ poll = "batch" /\ batch = <<>>
    /\ poll' = "ask"
    /\ UNCHANGED <<updates, confirmed, offset, batch, queue, task, stopping, starts, history>>

-----------------------------------------------------------------------------
(* dispatch_message: a message is refused by a policy or a rate limit or   *)
(* answered without an agent; or a chat message is sent to an agent, and   *)
(* the task waits for the whole turn; or a button settles the approval a   *)
(* turn waits for, or /stop ends the turn.                                 *)
Effect(kind) ==
    \/ UNCHANGED task
    \/ kind = "chat" /\ disp' = "turn" /\ turn' = "running"
    \/ /\ kind = "control"
       /\ turn' \in IF turn = "none" THEN {"none"} ELSE {"running", "none"}
       /\ UNCHANGED disp

Dispatch ==
    /\ disp = "idle" /\ queue # <<>>
    /\ Effect(updates[Head(queue)])
    /\ queue' = Tail(queue)
    /\ latest' = Head(queue) /\ gone' = gone \cup {Head(queue)}
    /\ UNCHANGED <<updates, confirmed, offset, poll, batch, stopping, starts>>

(* The turn reaches a tool that needs an approval; buttons are pushed.     *)
AskApproval ==
    /\ turn = "running" /\ turn' = "asking"
    /\ UNCHANGED <<updates, confirmed, offset, poll, batch, queue, disp, stopping, starts, history>>

(* The wait ends by its timeout or by an operator elsewhere.               *)
Settle ==
    /\ turn = "asking" /\ turn' = "running"
    /\ UNCHANGED <<updates, confirmed, offset, poll, batch, queue, disp, stopping, starts, history>>

(* The turn ends, and the response is relayed.                             *)
EndTurn ==
    /\ turn = "running" /\ turn' = "none" /\ disp' = "idle"
    /\ UNCHANGED <<updates, confirmed, offset, poll, batch, queue, stopping, starts, history>>

-----------------------------------------------------------------------------
(* The dispatch task ends: its receiver and what it holds are dropped (the *)
(* turn it waited for goes on without it).                                 *)
EndDispatch ==
    /\ disp' = "ended" /\ turn' = "none"
    /\ gone' = gone \cup ToSet(queue)
    /\ queue' = <<>>
    /\ UNCHANGED <<updates, confirmed, offset, poll, batch, stopping, starts, latest>>

(* Shutdown signal, or the loop has ended and the stream is empty.         *)
LeaveLoop == disp = "idle" /\ (stopping \/ (queue = <<>> /\ poll = "ended")) /\ EndDispatch

(* stop() aborts the tasks that have not ended within its budget.          *)
AbortTasks == disp = "turn" /\ stopping /\ EndDispatch

(* stop(), by a reload or the daemon's shutdown.                           *)
Stop ==
    /\ ~stopping /\ stopping' = TRUE
    /\ UNCHANGED <<updates, confirmed, offset, poll, batch, queue, task, starts, history>>

(* The end of a reload, or a new daemon after a shutdown or a crash.  (A   *)
(* loop that outlives its bridge reads the flag before it asks again.)     *)
Restart ==
    /\ starts < MaxStarts
    /\ starts' = starts + 1
    /\ Fresh
    /\ gone' = gone \cup ToSet(queue)
    /\ UNCHANGED <<updates, confirmed>>

(* What the two tasks do without waiting for Telegram or for a turn.       *)
PollStep == Ask \/ TakeUpdate \/ BatchDone \/ (stopping /\ EndPoll)
DispatchStep == Dispatch \/ LeaveLoop \/ AbortTasks \/ Settle

Next ==
    \/ \E kind \in Kinds : Arrive(kind)
    \/ Ask \/ Answer \/ LoseAnswer \/ EndPoll \/ TakeUpdate \/ BatchDone
    \/ Dispatch \/ AskApproval \/ Settle \/ EndTurn
    \/ LeaveLoop \/ AbortTasks \/ Stop \/ Restart

-----------------------------------------------------------------------------
(* Type invariant.                                                         *)
TypeOK ==
    /\ updates \in Seq(Kinds) /\ confirmed \in 1..Len(updates) + 1
    /\ offset \in 0..Len(updates) + 1
    /\ poll \in {"ask", "wait", "batch", "ended"}
    /\ disp \in {"idle", "turn", "ended"} /\ turn \in {"none", "running", "asking"}
    /\ disp = "turn" <=> turn # "none"
    /\ Len(queue) <= QueueSize

(* Between two starts of the bridge no message is dispatched twice or out  *)
(* of order, whatever answers are lost: what waits is in order, and beyond *)
(* what was dispatched.  And what Telegram has forgotten was dispatched,   *)
(* waits in the queue, or was dropped with the queue of an earlier bridge. *)
DispatchedOnce ==
    /\ LET seen == <<latest>> \o queue
       IN \A j, k \in DOMAIN seen : j < k => seen[j] < seen[k]
    /\ \A i \in 1..confirmed - 1 : updates[i] = "junk" \/ i \in gone \cup ToSet(queue)

(* Messages sent and neither dispatched nor dropped with a queue yet.       *)
Pending == {i \in DOMAIN updates : updates[i] # "junk" /\ i \notin gone}

(* Every message is dispatched in the end unless the bridge is stopped or  *)
(* its loop meets another instance; and after stop() both tasks end, even  *)
(* if one waits for a turn and the other for room in the queue.            *)
BridgeGoesOn ==
    /\ Pending # {} ~> (Pending = {} \/ stopping \/ poll = "ended")
    /\ stopping ~> (~stopping \/ (poll = "ended" /\ disp = "ended"))

(* The buttons pushed to the chat ("Inline keyboard buttons                *)
(* (Approve/Reject) pushed automatically", README) and /stop ("cancel      *)
(* current agent run") reach a turn that waits for its approval, without   *)
(* the help of the timeout or of another operator.                         *)
ChatReachesTurn ==
    turn = "asking" /\ (\E i \in ToSet(queue) : updates[i] = "control")
        ~> turn # "asking"

=============================================================================
