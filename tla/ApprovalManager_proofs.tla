----------------------- MODULE ApprovalManager_proofs ----------------------
(* Proofs about the approval gate, for any number of tasks and requests.   *)
EXTENDS ApprovalManager, FiniteSetTheorems, TLAPS

Inv == TypeOK /\ DecisionFlow /\ RunIsAuthorised

LEMMA InitInv == Init => Inv
BY ConstantAssumption
   DEF Init, Inv, TypeOK, DecisionFlow, RunIsAuthorised, Undecided, Resting, Decisions

LEMMA TypeStep == TypeOK /\ DecisionFlow /\ [Next]_vars => TypeOK'
<1> SUFFICES ASSUME TypeOK, DecisionFlow, [Next]_vars PROVE TypeOK'
  OBVIOUS
<1> USE ConstantAssumption DEF TypeOK, Resting, Decisions
<1>1. ASSUME NEW t \in Tasks, NEW i \in Ids, Gate(t, i) PROVE TypeOK'
  BY <1>1 DEF Gate
<1>2. ASSUME NEW t \in Tasks, AutoApprove(t) PROVE TypeOK'
  BY <1>2 DEF AutoApprove
<1>3. ASSUME NEW t \in Tasks, LimitCheck(t) PROVE TypeOK'
  BY <1>3 DEF LimitCheck
<1>4. ASSUME NEW t \in Tasks, Submit(t) PROVE TypeOK'
  BY <1>4 DEF Submit, DecisionFlow
<1>5. ASSUME NEW i \in Ids, NEW d \in Decisions, Resolve(i, d) PROVE TypeOK'
  BY <1>5 DEF Resolve
<1>6. ASSUME NEW i \in Ids, Send(i) PROVE TypeOK'
  BY <1>6 DEF Send
<1>7. ASSUME NEW t \in Tasks, Receive(t) PROVE TypeOK'
  BY <1>7 DEF Receive, Outcome
<1>8. ASSUME NEW t \in Tasks, Timeout(t) \/ Cancel(t) PROVE TypeOK'
  BY <1>8 DEF Timeout, Cancel
<1>9. ASSUME NEW p \in Policies, UpdatePolicy(p) PROVE TypeOK'
  BY <1>9 DEF UpdatePolicy
<1>10. CASE UNCHANGED vars
  BY <1>10 DEF vars
<1> QED
  BY <1>1, <1>2, <1>3, <1>4, <1>5, <1>6, <1>7, <1>8, <1>9, <1>10 DEF Next

LEMMA FlowStep == TypeOK /\ DecisionFlow /\ [Next]_vars => DecisionFlow'
<1> SUFFICES ASSUME TypeOK, DecisionFlow, [Next]_vars PROVE DecisionFlow'
  OBVIOUS
<1> USE ConstantAssumption DEF TypeOK, DecisionFlow, Undecided
<1>1. ASSUME NEW t \in Tasks, NEW i \in Ids, Gate(t, i) PROVE DecisionFlow'
  <2>1. CASE ~policy.gated
    BY <1>1, <2>1 DEF Gate, Resting
  <2>2. CASE policy.gated
    <3>1. /\ pc' = [pc EXCEPT ![t] = "asked"] /\ via' = [via EXCEPT ![t] = "ask"]
          /\ cur' = [cur EXCEPT ![t] = i] /\ owner' = [owner EXCEPT ![i] = t]
          /\ owner[i] = NoId /\ UNCHANGED <<pending, chan, deciding, verdict>>
      BY <1>1, <2>2 DEF Gate
    <3>2. Undecided(i) /\ i \notin pending
      BY <3>1
    <3>3. \A u \in Tasks \ {t} :
            /\ pc'[u] = pc[u] /\ cur'[u] = cur[u] /\ via'[u] = via[u]
            /\ (cur[u] \in Ids /\ owner[cur[u]] = u) => cur[u] # i
      BY <3>1
    <3>4. pc'[t] = "asked" /\ cur'[t] = i /\ via'[t] = "ask" /\ owner'[i] = t
      BY <3>1
    <3>5. \A j \in Ids \ {i} : owner'[j] = owner[j]
      BY <3>1
    <3>6. \A j \in Ids : owner'[j] = NoId => owner[j] = NoId
      BY <3>1
    <3>7. \A u \in Tasks : pc'[u] \in {"asked", "admitted", "waiting"} =>
            cur'[u] \in Ids /\ owner'[cur'[u]] = u /\ via'[u] = "ask"
      <4>1. \A u \in Tasks : pc[u] \in {"asked", "admitted", "waiting"} =>
              cur[u] \in Ids /\ owner[cur[u]] = u /\ via[u] = "ask"
        OBVIOUS
      <4> HIDE DEF TypeOK, DecisionFlow, Undecided
      <4>2. \A u \in Tasks \ {t} : pc'[u] \in {"asked", "admitted", "waiting"} =>
              cur'[u] \in Ids /\ owner'[cur'[u]] = u /\ via'[u] = "ask"
        BY <3>3, <3>5, <4>1
      <4> QED BY <3>4, <4>2
    <3>8. \A u \in Tasks : pc'[u] \in {"asked", "admitted"} =>
            Undecided(cur'[u]) /\ cur'[u] \notin pending
      <4>1. \A u \in Tasks : pc[u] \in {"asked", "admitted"} =>
              Undecided(cur[u]) /\ cur[u] \notin pending
        OBVIOUS
      <4>2. \A u \in Tasks \ {t} : pc'[u] \in {"asked", "admitted"} =>
              Undecided(cur'[u]) /\ cur'[u] \notin pending
        <5> HIDE DEF TypeOK, DecisionFlow, Undecided
        <5> QED BY <3>3, <4>1
      <4> HIDE DEF TypeOK, DecisionFlow, Undecided
      <4> QED BY <3>2, <3>4, <4>2
    <3> QED BY <3>1, <3>6, <3>7, <3>8
  <2> QED BY <2>1, <2>2
<1>2. ASSUME NEW t \in Tasks, AutoApprove(t) PROVE DecisionFlow'
  BY <1>2 DEF AutoApprove
<1>3. ASSUME NEW t \in Tasks, LimitCheck(t) PROVE DecisionFlow'
  BY <1>3 DEF LimitCheck
<1>4. ASSUME NEW t \in Tasks, Submit(t) PROVE DecisionFlow'
  <2>1. cur[t] \in Ids /\ owner[cur[t]] = t /\ Undecided(cur[t]) /\ via[t] = "ask"
    BY <1>4 DEF Submit
  <2>2. \A u \in Tasks \ {t} :
          /\ pc'[u] = pc[u]
          /\ pc[u] \in {"asked", "admitted"} => cur[u] # cur[t]
    BY <1>4, <2>1 DEF Submit
  <2>3. pc'[t] = "waiting" /\ pending' = pending \cup {cur[t]}
    BY <1>4 DEF Submit
  <2>4. \A u \in Tasks : pc'[u] \in {"asked", "admitted", "waiting"} =>
          pc[u] \in {"asked", "admitted", "waiting"}
    BY <1>4, <2>2 DEF Submit
  <2> QED BY <1>4, <2>1, <2>2, <2>3, <2>4 DEF Submit
<1>5. ASSUME NEW i \in Ids, NEW d \in Decisions, Resolve(i, d) PROVE DecisionFlow'
  BY <1>5 DEF Resolve, Decisions
<1>6. ASSUME NEW i \in Ids, Send(i) PROVE DecisionFlow'
  BY <1>6 DEF Send, Decisions
<1>7. ASSUME NEW t \in Tasks, Receive(t) PROVE DecisionFlow'
  BY <1>7 DEF Receive, Outcome
<1>8. ASSUME NEW t \in Tasks, Timeout(t) \/ Cancel(t) PROVE DecisionFlow'
  BY <1>8 DEF Timeout, Cancel
<1>9. ASSUME NEW p \in Policies, UpdatePolicy(p) PROVE DecisionFlow'
  BY <1>9 DEF UpdatePolicy
<1>10. CASE UNCHANGED vars
  BY <1>10 DEF vars
<1> QED
  BY <1>1, <1>2, <1>3, <1>4, <1>5, <1>6, <1>7, <1>8, <1>9, <1>10 DEF Next

(* A recorded verdict is never changed: only requests without one can be   *)
(* resolved.                                                               *)
LEMMA VerdictStands ==
    ASSUME TypeOK, DecisionFlow, [Next]_vars, NEW i \in Ids, verdict[i] # "none"
    PROVE  verdict'[i] = verdict[i]
<1>1. ASSUME NEW j \in Ids, NEW d \in Decisions, Resolve(j, d)
      PROVE  verdict'[i] = verdict[i]
  BY <1>1 DEF Resolve, TypeOK, DecisionFlow, Undecided
<1> QED
  BY <1>1 DEF Next, vars, Gate, AutoApprove, LimitCheck, Submit, Send, Receive, Timeout,
              Cancel, UpdatePolicy

LEMMA RunStep == Inv /\ [Next]_vars => RunIsAuthorised'
<1> SUFFICES ASSUME TypeOK, DecisionFlow, RunIsAuthorised, [Next]_vars,
                    NEW u \in Tasks, pc'[u] = "run"
             PROVE  \/ via'[u] \in {"free", "auto"}
                    \/ cur'[u] \in Ids /\ verdict'[cur'[u]] = "Approved"
  BY DEF Inv, RunIsAuthorised
<1> USE DEF TypeOK
<1>1. ASSUME NEW t \in Tasks, NEW i \in Ids, Gate(t, i), t = u
      PROVE  via'[u] = "free"
  BY <1>1 DEF Gate
<1>2. ASSUME AutoApprove(u) PROVE via'[u] = "auto"
  BY <1>2 DEF AutoApprove
<1>3. ASSUME Receive(u) PROVE cur'[u] \in Ids /\ verdict'[cur'[u]] = "Approved"
  BY <1>3 DEF Receive, Outcome, DecisionFlow, Decisions
<1>4. ASSUME pc[u] = "run", UNCHANGED <<cur[u], via[u]>>
      PROVE  \/ via'[u] \in {"free", "auto"}
             \/ cur'[u] \in Ids /\ verdict'[cur'[u]] = "Approved"
  <2>1. CASE via[u] \in {"free", "auto"}
    BY <1>4, <2>1
  <2>2. CASE cur[u] \in Ids /\ verdict[cur[u]] = "Approved"
    BY <1>4, <2>2, VerdictStands
  <2> QED BY <1>4, <2>1, <2>2 DEF RunIsAuthorised
<1>5. ASSUME NEW t \in Tasks, t # u,
             \/ \E i \in Ids : Gate(t, i)
             \/ AutoApprove(t) \/ LimitCheck(t) \/ Submit(t) \/ Receive(t) \/ Timeout(t)
             \/ Cancel(t)
      PROVE  pc[u] = "run" /\ UNCHANGED <<cur[u], via[u]>>
  BY <1>5 DEF Gate, AutoApprove, LimitCheck, Submit, Receive, Timeout, Cancel
<1>6. ASSUME LimitCheck(u) \/ Submit(u) \/ Timeout(u) \/ Cancel(u) PROVE FALSE
  BY <1>6 DEF LimitCheck, Submit, Timeout, Cancel
<1>7. ASSUME \/ \E i \in Ids, d \in Decisions : Resolve(i, d)
             \/ \E i \in Ids : Send(i)
             \/ \E p \in Policies : UpdatePolicy(p)
             \/ UNCHANGED vars
      PROVE  pc[u] = "run" /\ UNCHANGED <<cur[u], via[u]>>
  BY <1>7 DEF Resolve, Send, UpdatePolicy, vars
<1> QED
  BY <1>1, <1>2, <1>3, <1>4, <1>5, <1>6, <1>7 DEF Next

LEMMA InvStep == Inv /\ [Next]_vars => Inv'
BY TypeStep, FlowStep, RunStep DEF Inv

(* A gated tool runs only with an authorisation: the policy at the gate,   *)
(* trust mode, or the recorded approval of this very request.              *)
THEOREM ToolRunsAreAuthorised == Spec => []RunIsAuthorised
<1>1. Inv => RunIsAuthorised
  BY DEF Inv
<1> QED BY InitInv, InvStep, <1>1, PTL DEF Spec

(* A decision reported to an operator is final: of two operators only one  *)
(* is told that its decision counts.                                       *)
THEOREM VerdictsAreFinal == Spec => FirstVerdictStands
<1>1. Inv /\ [Next]_vars => [\A i \in Ids : verdict[i] # "none" => verdict'[i] = verdict[i]]_vars
  BY VerdictStands DEF Inv
<1> QED BY InitInv, InvStep, <1>1, PTL DEF Spec, FirstVerdictStands

-----------------------------------------------------------------------------
(* The per-agent limit: a task that was counted and has not inserted its   *)
(* request yet is accounted for together with the requests in the map.     *)
AdmittedOf(a) == {t \in TasksOf(a) : pc[t] = "admitted"}

Accounted(a) ==
    TasksOf(a) # {} =>
        Cardinality(PendingOf(a)) + Cardinality(AdmittedOf(a))
            < MaxPending + Cardinality(TasksOf(a))

LimitInv == IsFiniteSet(pending) /\ \A a \in Agents : Accounted(a)

LEMMA SmallerSet ==
    ASSUME NEW S, NEW T, IsFiniteSet(S), T \subseteq S
    PROVE  /\ IsFiniteSet(T) /\ Cardinality(T) \in Nat /\ Cardinality(S) \in Nat
           /\ Cardinality(T) <= Cardinality(S)
BY FS_Subset, FS_CardinalityType

LEMMA CountsAreNumbers ==
    ASSUME IsFiniteSet(pending), NEW a
    PROVE  /\ IsFiniteSet(PendingOf(a)) /\ IsFiniteSet(AdmittedOf(a)) /\ IsFiniteSet(TasksOf(a))
           /\ Cardinality(PendingOf(a)) \in Nat
           /\ Cardinality(AdmittedOf(a)) \in Nat
           /\ Cardinality(TasksOf(a)) \in Nat
           /\ Cardinality(AdmittedOf(a)) <= Cardinality(TasksOf(a))
<1>1. PendingOf(a) \subseteq pending /\ TasksOf(a) \subseteq Tasks
      /\ AdmittedOf(a) \subseteq TasksOf(a)
  BY DEF PendingOf, TasksOf, AdmittedOf
<1> QED BY <1>1, SmallerSet, ConstantAssumption

(* A step that adds neither a request nor a counted task.                  *)
LEMMA AccountKept ==
    ASSUME LimitInv, NEW a \in Agents, IsFiniteSet(pending'),
           PendingOf(a)' \subseteq PendingOf(a), AdmittedOf(a)' \subseteq AdmittedOf(a)
    PROVE  Accounted(a)'
<1>1. /\ Cardinality(PendingOf(a)') \in Nat
      /\ Cardinality(PendingOf(a)') <= Cardinality(PendingOf(a))
  BY CountsAreNumbers, SmallerSet DEF LimitInv
<1>2. /\ Cardinality(AdmittedOf(a)') \in Nat
      /\ Cardinality(AdmittedOf(a)') <= Cardinality(AdmittedOf(a))
  BY CountsAreNumbers, SmallerSet DEF LimitInv
<1>3. TasksOf(a)' = TasksOf(a)
  BY DEF TasksOf
<1>4. Accounted(a)
  BY DEF LimitInv
<1> QED
  BY <1>1, <1>2, <1>3, <1>4, CountsAreNumbers, ConstantAssumption DEF Accounted, LimitInv

LEMMA LimitStep == Inv /\ LimitInv /\ [Next]_vars => LimitInv'
<1> SUFFICES ASSUME Inv, LimitInv, [Next]_vars PROVE LimitInv'
  OBVIOUS
<1>0. TypeOK /\ DecisionFlow /\ IsFiniteSet(pending)
  BY DEF Inv, LimitInv
<1>1. ASSUME pending' \subseteq pending,
             \A i \in pending' : owner'[i] = owner[i],
             \A t \in Tasks : pc'[t] = "admitted" => pc[t] = "admitted"
      PROVE  LimitInv'
  <2>1. IsFiniteSet(pending')
    BY <1>0, <1>1, SmallerSet
  <2>2. ASSUME NEW a \in Agents
        PROVE  PendingOf(a)' \subseteq PendingOf(a) /\ AdmittedOf(a)' \subseteq AdmittedOf(a)
    BY <1>1 DEF PendingOf, AdmittedOf, TasksOf
  <2> QED BY <2>1, <2>2, AccountKept DEF LimitInv
<1>2. ASSUME NEW t \in Tasks, NEW i \in Ids, Gate(t, i) PROVE LimitInv'
  <2>1. pending' = pending /\ \A j \in pending : owner'[j] = owner[j]
    BY <1>0, <1>2, ConstantAssumption DEF Gate, TypeOK, DecisionFlow
  <2>2. \A u \in Tasks : pc'[u] = "admitted" => pc[u] = "admitted"
    BY <1>0, <1>2 DEF Gate, TypeOK
  <2> QED BY <1>1, <2>1, <2>2
<1>3. ASSUME NEW t \in Tasks, AutoApprove(t) \/ Receive(t) \/ Timeout(t) \/ Cancel(t)
      PROVE  LimitInv'
  <2>1. pending' \subseteq pending /\ owner' = owner
    BY <1>3 DEF AutoApprove, Receive, Timeout, Cancel
  <2>2. \A u \in Tasks : pc'[u] = "admitted" => pc[u] = "admitted"
    BY <1>0, <1>3 DEF AutoApprove, Receive, Timeout, Cancel, Outcome, TypeOK
  <2> QED BY <1>1, <2>1, <2>2
<1>4. ASSUME NEW t \in Tasks, LimitCheck(t) PROVE LimitInv'
  <2>1. /\ pending' = pending /\ owner' = owner
        /\ pc' = [pc EXCEPT ![t] = IF Full(AgentOf[t]) THEN "blocked" ELSE "admitted"]
    BY <1>4 DEF LimitCheck
  <2>2. CASE Full(AgentOf[t])
    BY <1>0, <1>1, <2>1, <2>2 DEF TypeOK
  <2>3. CASE ~Full(AgentOf[t])
    <3> SUFFICES ASSUME NEW a \in Agents PROVE Accounted(a)'
      BY <1>0, <2>1 DEF LimitInv
    <3>1. PendingOf(a)' = PendingOf(a) /\ TasksOf(a)' = TasksOf(a)
      BY <2>1 DEF PendingOf, TasksOf
    <3>2. CASE a = AgentOf[t]
      <4>1. Cardinality(PendingOf(a)) < MaxPending
        BY <1>0, <2>3, <3>2, CountsAreNumbers, ConstantAssumption DEF Full
      <4>2. /\ Cardinality(AdmittedOf(a)') \in Nat
            /\ Cardinality(AdmittedOf(a)') <= Cardinality(TasksOf(a))
        <5>1. AdmittedOf(a)' \subseteq TasksOf(a)
          BY DEF AdmittedOf, TasksOf
        <5> QED BY <1>0, <5>1, CountsAreNumbers, SmallerSet
      <4> QED BY <1>0, <3>1, <4>1, <4>2, CountsAreNumbers, ConstantAssumption DEF Accounted
    <3>3. CASE a # AgentOf[t]
      <4>1. AdmittedOf(a)' \subseteq AdmittedOf(a)
        BY <1>0, <2>1, <3>3 DEF AdmittedOf, TasksOf, TypeOK
      <4> QED BY <1>0, <2>1, <3>1, <4>1, AccountKept
    <3> QED BY <3>2, <3>3
  <2> QED BY <2>2, <2>3
<1>5. ASSUME NEW t \in Tasks, Submit(t) PROVE LimitInv'
  <2>1. /\ pc[t] = "admitted" /\ pending' = pending \cup {cur[t]} /\ owner' = owner
        /\ pc' = [pc EXCEPT ![t] = "waiting"]
    BY <1>5 DEF Submit
  <2>2. cur[t] \in Ids /\ owner[cur[t]] = t
    BY <1>0, <2>1 DEF DecisionFlow
  <2>3. IsFiniteSet(pending')
    BY <1>0, <2>1, FS_AddElement
  <2> SUFFICES ASSUME NEW a \in Agents PROVE Accounted(a)'
    BY <2>3 DEF LimitInv
  <2>4. CASE a = AgentOf[t]
    <3>1. PendingOf(a)' = PendingOf(a) \cup {cur[t]} /\ TasksOf(a)' = TasksOf(a)
      BY <2>1, <2>2, <2>4 DEF PendingOf, TasksOf
    <3>2. AdmittedOf(a)' = AdmittedOf(a) \ {t} /\ t \in AdmittedOf(a)
      BY <1>0, <2>1, <2>4 DEF AdmittedOf, TasksOf, TypeOK
    <3>3. /\ Cardinality(PendingOf(a)') \in Nat
          /\ Cardinality(PendingOf(a)') <= Cardinality(PendingOf(a)) + 1
      <4> DEFINE S == PendingOf(a)
      <4>1. IsFiniteSet(S) /\ Cardinality(S) \in Nat
        BY <1>0, CountsAreNumbers
      <4> HIDE DEF S
      <4>2. Cardinality(S \cup {cur[t]}) = IF cur[t] \in S THEN Cardinality(S) ELSE Cardinality(S) + 1
        BY <4>1, FS_AddElement
      <4>3. /\ Cardinality(S \cup {cur[t]}) \in Nat
            /\ Cardinality(S \cup {cur[t]}) <= Cardinality(S) + 1
        BY <4>1, <4>2
      <4> QED BY <3>1, <4>3 DEF S
    <3>4. Cardinality(AdmittedOf(a)') = Cardinality(AdmittedOf(a)) - 1
      BY <1>0, <3>2, CountsAreNumbers, FS_RemoveElement
    <3>5. Accounted(a)
      BY DEF LimitInv
    <3>6. MaxPending \in Nat /\ Cardinality(TasksOf(a)) \in Nat
          /\ Cardinality(PendingOf(a)) \in Nat /\ Cardinality(AdmittedOf(a)) \in Nat
      BY <1>0, CountsAreNumbers, ConstantAssumption
    <3>7. Cardinality(TasksOf(a)') = Cardinality(TasksOf(a)) /\ (TasksOf(a)' = {} <=> TasksOf(a) = {})
      BY <3>1
    <3>8. CASE TasksOf(a) = {}
      BY <3>7, <3>8 DEF Accounted
    <3>9. CASE TasksOf(a) # {}
      <4>1. Cardinality(PendingOf(a)) + Cardinality(AdmittedOf(a))
              < MaxPending + Cardinality(TasksOf(a))
        BY <3>5, <3>9 DEF Accounted
      <4>2. Cardinality(PendingOf(a)') + Cardinality(AdmittedOf(a)')
              < MaxPending + Cardinality(TasksOf(a)')
        BY <3>3, <3>4, <3>6, <3>7, <4>1
      <4> QED BY <4>2 DEF Accounted
    <3> QED BY <3>8, <3>9
  <2>5. CASE a # AgentOf[t]
    <3>1. PendingOf(a)' \subseteq PendingOf(a) /\ AdmittedOf(a)' \subseteq AdmittedOf(a)
      BY <1>0, <2>1, <2>2, <2>5 DEF PendingOf, AdmittedOf, TasksOf, TypeOK
    <3> QED BY <2>3, <3>1, AccountKept
  <2> QED BY <2>4, <2>5
<1>6. ASSUME NEW i \in Ids, NEW d \in Decisions, Resolve(i, d) PROVE LimitInv'
  BY <1>1, <1>6 DEF Resolve
<1>7. ASSUME NEW i \in Ids, Send(i) PROVE LimitInv'
  BY <1>1, <1>7 DEF Send
<1>8. ASSUME NEW p \in Policies, UpdatePolicy(p) PROVE LimitInv'
  BY <1>1, <1>8 DEF UpdatePolicy
<1>9. CASE UNCHANGED vars
  BY <1>1, <1>9 DEF vars
<1> QED
  BY <1>2, <1>3, <1>4, <1>5, <1>6, <1>7, <1>8, <1>9 DEF Next

LEMMA LimitInitially == Init => LimitInv
<1> SUFFICES ASSUME Init PROVE LimitInv
  OBVIOUS
<1>1. pending = {} /\ IsFiniteSet(pending)
  BY FS_EmptySet DEF Init
<1> SUFFICES ASSUME NEW a \in Agents, TasksOf(a) # {}
             PROVE  Cardinality(PendingOf(a)) + Cardinality(AdmittedOf(a))
                        < MaxPending + Cardinality(TasksOf(a))
  BY <1>1 DEF LimitInv, Accounted
<1>2. PendingOf(a) = {} /\ AdmittedOf(a) = {}
  BY <1>1 DEF Init, PendingOf, AdmittedOf, TasksOf
<1>3. Cardinality(TasksOf(a)) \in Nat \ {0}
  BY <1>1, CountsAreNumbers, FS_EmptySet
<1> QED BY <1>2, <1>3, FS_EmptySet, ConstantAssumption

(* Requests of one agent racing between the count and the insertion in     *)
(* request_approval exceed MAX_PENDING_PER_AGENT by less than the agent    *)
(* has flows of tool calls, whatever is resolved, timed out or cancelled.  *)
THEOREM LimitOvershootIsBounded == Spec => []LimitOvershootBounded
<1>1. LimitInv => LimitOvershootBounded
  <2> SUFFICES ASSUME LimitInv, NEW a \in Agents, TasksOf(a) # {}
               PROVE  Cardinality(PendingOf(a)) < MaxPending + Cardinality(TasksOf(a))
    BY DEF LimitOvershootBounded
  <2> QED BY CountsAreNumbers, ConstantAssumption DEF LimitInv, Accounted
<1> QED BY InitInv, InvStep, LimitInitially, LimitStep, <1>1, PTL DEF Spec

=============================================================================
