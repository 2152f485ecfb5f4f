-------------------------- MODULE ApprovalManager --------------------------
(***************************************************************************)
(* The approval gate: tool_runner asks the ApprovalManager (kernel/src/    *)
(* approval.rs) before it runs a gated tool, an operator resolves the      *)
(* request over the API or a chat channel, and a timeout ends the wait.    *)
(*                                                                         *)
(* A task is one flow of tool calls (an agent turn, or a request posted to *)
(* /api/approvals); it makes one request at a time.  A request lives in    *)
(* `pending' and owns a oneshot channel.  The wait runs inside the tool    *)
(* timeout of the agent loop (TOOL_TIMEOUT_SECS = 120, shorter than the    *)
(* default approval timeout of 300), and inside a turn that /stop, a cron  *)
(* timeout or a shutdown can abort: the future is then dropped where it    *)
(* stands.                                                                 *)
(***************************************************************************)
EXTENDS Naturals, FiniteSets

CONSTANTS
    Tasks,          \* concurrent flows of tool calls
    Ids,            \* request ids (bound on the requests ever made)
    Agents,
    AgentOf,        \* the agent a task acts for
    MaxPending,     \* MAX_PENDING_PER_AGENT
    Policies,       \* [gated : BOOLEAN, auto : BOOLEAN] the configuration takes
    NoId

ASSUME ConstantAssumption ==
    /\ IsFiniteSet(Tasks)
    /\ AgentOf \in [Tasks -> Agents]
    /\ MaxPending \in Nat
    /\ Policies \subseteq [gated : BOOLEAN, auto : BOOLEAN]
    /\ NoId \notin Ids \cup Tasks

VARIABLES
    policy,     \* is the tool in require_approval; auto_approve_autonomous
    pc,         \* where each task stands
    cur,        \* its current request
    pending,    \* ids in the map
    owner,      \* the task whose request it is
    chan,       \* what the oneshot channel holds
    deciding,   \* decisions taken out of the map and not sent yet
    verdict,    \* history: the decision an operator was told succeeded
    via         \* history: how the current call of a task got past the gate

vars == <<policy, pc, cur, pending, owner, chan, deciding, verdict, via>>

Decisions == {"Approved", "Denied"}
Resting == {"idle", "run", "blocked"}

Init ==
    /\ policy \in Policies
    /\ pc = [t \in Tasks |-> "idle"]
    /\ cur = [t \in Tasks |-> NoId]
    /\ pending = {}
    /\ owner = [i \in Ids |-> NoId]
    /\ chan = [i \in Ids |-> "empty"]
    /\ deciding = [i \in Ids |-> "none"]
    /\ verdict = [i \in Ids |-> "none"]
    /\ via = [t \in Tasks |-> "none"]

(* execute_tool reaches the gate: requires_approval decides whether the    *)
(* tool runs at once or a request with a fresh id is made.                 *)
Gate(t, i) ==
    /\ pc[t] \in Resting
    /\ \/ /\ ~policy.gated
          /\ pc' = [pc EXCEPT ![t] = "run"]
          /\ via' = [via EXCEPT ![t] = "free"]
          /\ cur' = [cur EXCEPT ![t] = NoId]
          /\ UNCHANGED owner
       \/ /\ policy.gated
          /\ owner[i] = NoId
          /\ pc' = [pc EXCEPT ![t] = "asked"]
          /\ via' = [via EXCEPT ![t] = "ask"]
          /\ cur' = [cur EXCEPT ![t] = i]
          /\ owner' = [owner EXCEPT ![i] = t]
    /\ UNCHANGED <<policy, pending, chan, deciding, verdict>>

(* request_approval, trust mode.                                           *)
AutoApprove(t) ==
    /\ pc[t] = "asked"
    /\ policy.auto
    /\ pc' = [pc EXCEPT ![t] = "run"]
    /\ via' = [via EXCEPT ![t] = "auto"]
    /\ UNCHANGED <<policy, cur, pending, owner, chan, deciding, verdict>>

PendingOf(a) == {i \in pending : AgentOf[owner[i]] = a}

Full_OffByOne(a) == Cardinality(PendingOf(a)) > MaxPending

Full(a) == Cardinality(PendingOf(a)) >= MaxPending

(* request_approval, the per-agent limit: a full agent is denied at once.  *)
LimitCheck(t) ==
    /\ pc[t] = "asked"
    /\ ~policy.auto
    /\ pc' = [pc EXCEPT ![t] = IF Full(AgentOf[t]) THEN "blocked" ELSE "admitted"]
    /\ UNCHANGED <<policy, cur, pending, owner, chan, deciding, verdict, via>>

(* request_approval, insertion and notification, then the wait.            *)
Submit(t) ==
    /\ pc[t] = "admitted"
    /\ pending' = pending \cup {cur[t]}
    /\ pc' = [pc EXCEPT ![t] = "waiting"]
    /\ UNCHANGED <<policy, cur, owner, chan, deciding, verdict, via>>

Resolve_EntryKept(i, d) ==
    /\ i \in pending
    /\ pending' = pending
    /\ deciding' = [deciding EXCEPT ![i] = d]
    /\ verdict' = [verdict EXCEPT ![i] = d]
    /\ UNCHANGED <<policy, pc, cur, owner, chan, via>>

(* resolve(): the request is taken out of the map, and the caller will be  *)
(* told that its decision was recorded, ...                                *)
Resolve(i, d) ==
    /\ i \in pending
    /\ pending' = pending \ {i}
    /\ deciding' = [deciding EXCEPT ![i] = d]
    /\ verdict' = [verdict EXCEPT ![i] = d]
    /\ UNCHANGED <<policy, pc, cur, owner, chan, via>>

Waits(i) == \E t \in Tasks : pc[t] = "waiting" /\ cur[t] = i

(* ... then the decision is sent; it is dropped if nobody waits any more.  *)
Send(i) ==
    /\ deciding[i] # "none"
    /\ chan' = [chan EXCEPT ![i] = IF Waits(i) THEN deciding[i] ELSE @]
    /\ deciding' = [deciding EXCEPT ![i] = "none"]
    /\ UNCHANGED <<policy, pc, cur, pending, owner, verdict, via>>

Outcome_AnyDecisionRuns(d) == "run"
(* The tool runs only for ApprovalDecision::Approved.                      *)
Outcome(d) == IF d = "Approved" THEN "run" ELSE "blocked"

Receive_ApprovalsOnly(t) ==
    /\ pc[t] = "waiting"
    /\ chan[cur[t]] = "Approved"
    /\ pc' = [pc EXCEPT ![t] = "run"]
    /\ UNCHANGED <<policy, cur, pending, owner, chan, deciding, verdict, via>>

(* The waiting task receives the decision.                                 *)
Receive(t) ==
    /\ pc[t] = "waiting"
    /\ chan[cur[t]] \in Decisions
    /\ pc' = [pc EXCEPT ![t] = Outcome(chan[cur[t]])]
    /\ UNCHANGED <<policy, cur, pending, owner, chan, deciding, verdict, via>>

(* The approval timeout fires before a decision arrived: the task removes  *)
(* its own request and reports TimedOut, which blocks the tool.            *)
Timeout(t) ==
    /\ pc[t] = "waiting"
    /\ chan[cur[t]] = "empty"
    /\ pending' = pending \ {cur[t]}
    /\ pc' = [pc EXCEPT ![t] = "blocked"]
    /\ UNCHANGED <<policy, cur, owner, chan, deciding, verdict, via>>

(* The future is dropped while it waits, by the tool timeout or by an      *)
(* abort of the turn.  Nothing removes the request from the map.           *)
Cancel(t) ==
    /\ pc[t] = "waiting"
    /\ pc' = [pc EXCEPT ![t] = "blocked"]
    /\ UNCHANGED <<policy, cur, pending, owner, chan, deciding, verdict, via>>

(* update_policy on hot reload.                                            *)
UpdatePolicy(p) ==
    /\ p # policy
    /\ policy' = p
    /\ UNCHANGED <<pc, cur, pending, owner, chan, deciding, verdict, via>>

Next ==
    \/ \E t \in Tasks, i \in Ids : Gate(t, i)
    \/ \E t \in Tasks : \/ AutoApprove(t) \/ LimitCheck(t) \/ Submit(t)
                        \/ Receive(t) \/ Timeout(t) \/ Cancel(t)
    \/ \E i \in Ids, d \in Decisions : Resolve(i, d)
    \/ \E i \in Ids : Send(i)
    \/ \E p \in Policies : UpdatePolicy(p)

Spec == Init /\ [][Next]_vars

(* Timers fire and a polled future makes progress; operators need not act. *)
Fairness ==
    /\ \A t \in Tasks : WF_vars(Receive(t)) /\ WF_vars(Timeout(t)) /\ WF_vars(Submit(t))
    /\ \A i \in Ids : WF_vars(Send(i))

FairSpec == Spec /\ Fairness

-----------------------------------------------------------------------------
(* Type invariant.                                                         *)
TypeOK ==
    /\ policy \in Policies
    /\ pc \in [Tasks -> Resting \cup {"asked", "admitted", "waiting"}]
    /\ cur \in [Tasks -> Ids \cup {NoId}]
    /\ pending \in SUBSET Ids
    /\ owner \in [Ids -> Tasks \cup {NoId}]
    /\ chan \in [Ids -> Decisions \cup {"empty"}]
    /\ deciding \in [Ids -> Decisions \cup {"none"}]
    /\ verdict \in [Ids -> Decisions \cup {"none"}]
    /\ via \in [Tasks -> {"none", "free", "auto", "ask"}]

(* A gated tool runs only if the policy let it through at the gate, trust  *)
(* mode approved it, or an operator's approval of this very request was    *)
(* recorded: no timeout, late answer, cancelled wait or policy change ever *)
(* turns into a run.                                                       *)
RunIsAuthorised ==
    \A t \in Tasks : pc[t] = "run" =>
        via[t] \in {"free", "auto"} \/ (cur[t] \in Ids /\ verdict[cur[t]] = "Approved")

(* Why it holds: a decision travels unchanged from the operator through    *)
(* `deciding' and the channel, and a request that can still be resolved    *)
(* (or is not even in the map yet) carries no decision at all.             *)
Undecided(i) == verdict[i] = "none" /\ deciding[i] = "none" /\ chan[i] = "empty"

DecisionFlow ==
    /\ \A i \in Ids : /\ deciding[i] # "none" => verdict[i] = deciding[i]
                      /\ chan[i] # "empty" => verdict[i] = chan[i]
                      /\ i \in pending => Undecided(i)
                      /\ owner[i] = NoId => Undecided(i) /\ i \notin pending
    /\ \A t \in Tasks : pc[t] \in {"asked", "admitted", "waiting"} =>
          cur[t] \in Ids /\ owner[cur[t]] = t /\ via[t] = "ask"
    /\ \A t \in Tasks : pc[t] \in {"asked", "admitted"} =>
          Undecided(cur[t]) /\ cur[t] \notin pending

(* Two operators never both succeed: once resolve() reported a decision    *)
(* for a request, no later resolve() changes it.                           *)
FirstVerdictStands ==
    [][\A i \in Ids : verdict[i] # "none" => verdict'[i] = verdict[i]]_vars

(* What is left of the per-agent limit when requests race between the      *)
(* count and the insertion: each other task of the agent may overshoot by  *)
(* one.                                                                    *)
TasksOf(a) == {t \in Tasks : AgentOf[t] = a}
LimitOvershootBounded ==
    \A a \in Agents : TasksOf(a) # {} =>
        Cardinality(PendingOf(a)) < MaxPending + Cardinality(TasksOf(a))

(* A task that waits for an answer is not left waiting: a decision, the    *)
(* timeout or a cancellation ends the wait, also when the operator removed *)
(* the request from the map just as the timeout fired.                     *)
WaitEnds == \A t \in Tasks : pc[t] = "waiting" ~> pc[t] # "waiting"

=============================================================================
