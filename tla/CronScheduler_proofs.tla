----------------------- MODULE CronScheduler_proofs -----------------------
(* Proofs about the cron scheduler, for any number of jobs, callers and    *)
(* agents and any values of the caps.                                      *)
EXTENDS CronScheduler, TLAPS

USE ConstantAssumption

(* A function from a set of ids to jobs is a job map, and conversely.      *)
LEMMA JobMapIntro ==
    ASSUME NEW S \in SUBSET JobIds, NEW f \in [S -> Job]
    PROVE  f \in JobMap
BY DEF JobMap

LEMMA JobMapElim ==
    ASSUME NEW f \in JobMap
    PROVE  DOMAIN f \in SUBSET JobIds /\ f \in [DOMAIN f -> Job]
BY DEF JobMap

LEMMA NoJobsType == NoJobs \in JobMap
<1>1. NoJobs \in [{} -> Job]
  BY DEF NoJobs
<1> QED BY <1>1, JobMapIntro

(* The three ways the code edits the map keep it a job map.                *)
LEMMA WithType ==
    ASSUME NEW js \in JobMap, NEW id \in JobIds, NEW j \in Job
    PROVE  /\ With(js, id, j) \in JobMap
           /\ DOMAIN With(js, id, j) = DOMAIN js \cup {id}
           /\ With(js, id, j)[id] = j
           /\ \A i \in DOMAIN js \ {id} : With(js, id, j)[i] = js[i]
<1>1. With(js, id, j) \in [DOMAIN js \cup {id} -> Job]
  BY JobMapElim DEF With
<1>2. DOMAIN js \cup {id} \in SUBSET JobIds
  BY JobMapElim
<1>3. With(js, id, j) \in JobMap
  BY <1>1, <1>2, JobMapIntro
<1> QED BY <1>1, <1>3 DEF With

LEMMA WithoutType ==
    ASSUME NEW js \in JobMap, NEW id
    PROVE  /\ Without(js, id) \in JobMap
           /\ DOMAIN Without(js, id) = DOMAIN js \ {id}
           /\ \A i \in DOMAIN js \ {id} : Without(js, id)[i] = js[i]
<1>1. Without(js, id) \in [DOMAIN js \ {id} -> Job]
  BY JobMapElim DEF Without
<1>2. DOMAIN js \ {id} \in SUBSET JobIds
  BY JobMapElim
<1>3. Without(js, id) \in JobMap
  BY <1>1, <1>2, JobMapIntro
<1> QED BY <1>1, <1>3 DEF Without

LEMMA ExceptType ==
    ASSUME NEW js \in JobMap, NEW id \in DOMAIN js, NEW j \in Job
    PROVE  /\ [js EXCEPT ![id] = j] \in JobMap
           /\ DOMAIN [js EXCEPT ![id] = j] = DOMAIN js
           /\ [js EXCEPT ![id] = j][id] = j
           /\ \A i \in DOMAIN js \ {id} : [js EXCEPT ![id] = j][i] = js[i]
<1>1. [js EXCEPT ![id] = j] \in [DOMAIN js -> Job]
  BY JobMapElim
<1>2. [js EXCEPT ![id] = j] \in JobMap
  BY <1>1, JobMapElim, JobMapIntro
<1> QED BY <1>1, <1>2

(* Re-arming a job gives it a next_run and changes nothing else.           *)
LEMMA RearmType ==
    ASSUME NEW j \in Job
    PROVE  /\ Rearm(j) \in Job
           /\ Rearm(j).next # "None"
           /\ Rearm(j).enabled = j.enabled
           /\ Rearm(j).sched = j.sched
           /\ Rearm(j).oneShot = j.oneShot
BY DEF Rearm, ComputeNextRun, Job

(* Enabling, disabling and moving a job keep it a job.                     *)
LEMMA EnableType ==
    ASSUME NEW j \in Job
    PROVE  /\ [j EXCEPT !.enabled = TRUE, !.errs = 0] \in Job
           /\ [j EXCEPT !.enabled = FALSE] \in Job
<1>1. 0 \in 0..MaxErrors
  OBVIOUS
<1> QED BY <1>1 DEF Job

LEMMA MoveType ==
    ASSUME NEW j \in Job, NEW a \in Agents
    PROVE  /\ [j EXCEPT !.agent = a] \in Job
           /\ [j EXCEPT !.agent = a].next = j.next
           /\ [j EXCEPT !.agent = a].enabled = j.enabled
BY DEF Job

LEMMA NewJobType ==
    ASSUME NEW s \in JobSpecs, NEW b \in BOOLEAN
    PROVE  NewJob(s, b) \in Job /\ NewJob(s, b).next # "None"
BY DEF NewJob, Job

(* What record_success does to the map: only its own job changes, and that *)
(* job ends armed unless it is about to be removed.                        *)
LEMMA RecordSuccessEffect ==
    ASSUME NEW js \in JobMap, NEW id
    PROVE  /\ RecordSuccess(js, id) \in JobMap
           /\ DOMAIN RecordSuccess(js, id) = DOMAIN js
           /\ \A i \in DOMAIN js \ {id} : RecordSuccess(js, id)[i] = js[i]
           /\ id \in DOMAIN js =>
                IF SingleRun(js[id]) THEN RecordSuccess(js, id)[id].next = js[id].next
                                     ELSE RecordSuccess(js, id)[id].next # "None"
<1>1. CASE id \notin DOMAIN js
  BY <1>1 DEF RecordSuccess
<1>2. CASE id \in DOMAIN js
  <2> DEFINE j == [js[id] EXCEPT !.errs = 0]
             k == IF SingleRun(js[id]) THEN j ELSE Rearm(j)
  <2>1. js[id] \in Job
    BY <1>2, JobMapElim
  <2>2. j \in Job /\ j.next = js[id].next
    BY <2>1 DEF Job
  <2>3. k \in Job /\ IF SingleRun(js[id]) THEN k.next = js[id].next ELSE k.next # "None"
    BY <2>2, RearmType
  <2>4. RecordSuccess(js, id) = [js EXCEPT ![id] = k]
    BY <1>2, Zenon DEF RecordSuccess
  <2> HIDE DEF k
  <2>5. /\ [js EXCEPT ![id] = k] \in JobMap
        /\ DOMAIN [js EXCEPT ![id] = k] = DOMAIN js
        /\ [js EXCEPT ![id] = k][id] = k
        /\ \A i \in DOMAIN js \ {id} : [js EXCEPT ![id] = k][i] = js[i]
    BY <1>2, <2>3, ExceptType
  <2> HIDE DEF j
  <2> QED BY <2>3, <2>4, <2>5
<1> QED BY <1>1, <1>2

(* What record_failure does to the map: an At job is left for removal, any *)
(* other job ends armed or disabled.                                       *)
LEMMA RecordFailureEffect ==
    ASSUME NEW js \in JobMap, NEW id, NEW t \in BOOLEAN
    PROVE  /\ RecordFailure(js, id, t) \in JobMap
           /\ DOMAIN RecordFailure(js, id, t) = DOMAIN js
           /\ \A i \in DOMAIN js \ {id} : RecordFailure(js, id, t)[i] = js[i]
           /\ id \in DOMAIN js =>
                IF js[id].sched = "At" THEN RecordFailure(js, id, t)[id] = js[id]
                ELSE \/ RecordFailure(js, id, t)[id].next # "None"
                     \/ /\ ~RecordFailure(js, id, t)[id].enabled
                        /\ RecordFailure(js, id, t)[id].next = js[id].next
<1>1. CASE id \notin DOMAIN js
  BY <1>1 DEF RecordFailure
<1>2. CASE id \in DOMAIN js
  <2> DEFINE j == js[id]
             e == CountError(j.errs)
             counted == [j EXCEPT !.errs = e]
             off == [j EXCEPT !.errs = e, !.enabled = FALSE]
             k == CASE j.sched = "At" -> j
                    [] j.sched # "At" /\ t -> Rearm(j)
                    [] j.sched # "At" /\ ~t /\ e < MaxErrors -> Rearm(counted)
                    [] OTHER -> off
  <2>1. j \in Job
    BY <1>2, JobMapElim
  <2>2. e \in 0..MaxErrors
    BY <2>1 DEF CountError, Job
  <2>3. counted \in Job /\ off \in Job /\ ~off.enabled /\ off.next = j.next
    BY <2>1, <2>2 DEF Job
  <2>4. RecordFailure(js, id, t) = [js EXCEPT ![id] = k]
    BY <1>2, Zenon DEF RecordFailure
  <2>5. /\ Rearm(j) \in Job /\ Rearm(j).next # "None"
        /\ Rearm(counted) \in Job /\ Rearm(counted).next # "None"
    BY <2>1, <2>3, RearmType
  <2> HIDE DEF counted, off, e
  <2>6. /\ k \in Job
        /\ IF j.sched = "At" THEN k = j ELSE k.next # "None" \/ (~k.enabled /\ k.next = j.next)
    <3>1. CASE j.sched = "At"
      BY <2>1, <3>1
    <3>2. CASE j.sched # "At" /\ t
      BY <2>5, <3>2
    <3>3. CASE j.sched # "At" /\ ~t /\ e < MaxErrors
      BY <2>5, <3>3
    <3>4. CASE j.sched # "At" /\ ~t /\ ~(e < MaxErrors)
      BY <2>3, <3>4
    <3> QED BY <3>1, <3>2, <3>3, <3>4
  <2> HIDE DEF k
  <2>7. /\ [js EXCEPT ![id] = k] \in JobMap
        /\ DOMAIN [js EXCEPT ![id] = k] = DOMAIN js
        /\ [js EXCEPT ![id] = k][id] = k
        /\ \A i \in DOMAIN js \ {id} : [js EXCEPT ![id] = k][i] = js[i]
    BY <1>2, <2>6, ExceptType
  <2> QED BY <2>4, <2>6, <2>7
<1> QED BY <1>1, <1>2

LEMMA ReconcileType ==
    ASSUME NEW j \in Job
    PROVE  /\ Reconcile(j) \in Job
           /\ Reconcile(j).enabled => Reconcile(j).next # "None"
<1>1. CASE j.enabled /\ j.next = "None"
  BY <1>1, RearmType DEF Reconcile
<1>2. CASE ~(j.enabled /\ j.next = "None")
  BY <1>2 DEF Reconcile
<1> QED BY <1>1, <1>2

-----------------------------------------------------------------------------
(* A step that records an outcome keeps the map well typed.                *)
LEMMA SucceedType ==
    ASSUME TypeOK, NEW id \in JobIds, Succeed(id)
    PROVE  /\ jobs' \in JobMap /\ removing' \in SUBSET JobIds
           /\ spent' \in SUBSET JobIds
BY RecordSuccessEffect DEF TypeOK, Succeed, RemovedOnSuccess

LEMMA FailType ==
    ASSUME TypeOK, NEW id \in JobIds, NEW t \in BOOLEAN, Fail(id, t)
    PROVE  /\ jobs' \in JobMap /\ removing' \in SUBSET JobIds
           /\ spent' \in SUBSET JobIds
BY RecordFailureEffect DEF TypeOK, Fail, RemovedOnFailure

(* Every step keeps every variable in its type.                            *)
LEMMA TypeStep == TypeOK /\ [Next]_vars => TypeOK'
<1> SUFFICES ASSUME TypeOK, [Next]_vars PROVE TypeOK'
  OBVIOUS
<1> USE DEF Procs
<1>1. ASSUME NEW c \in Callers, NEW id \in JobIds, NEW s \in JobSpecs, AddCheck(c, id, s)
      PROVE TypeOK'
  <2>1. [id |-> id, job |-> NewJob(s, TRUE)] \in EditOp
    BY NewJobType DEF EditOp
  <2> QED BY <1>1, <2>1 DEF TypeOK, AddCheck, Goto, memory, ticking, flight, history
<1>2. ASSUME NEW c \in Callers, AddInsert(c) PROVE TypeOK'
  <2>1. op[c].id \in JobIds /\ op[c].job \in Job
    BY <1>2 DEF TypeOK, AddInsert, EditOp
  <2>2. jobs' \in JobMap
    BY <1>2, <2>1, WithType DEF TypeOK, AddInsert
  <2> QED BY <1>2, <2>2 DEF TypeOK, AddInsert, Goto, ticking, flight, history
<1>3. ASSUME NEW c \in Callers, NEW id \in JobIds, RemoveJob(c, id) PROVE TypeOK'
  <2>1. jobs' \in JobMap
    BY <1>3, WithoutType DEF TypeOK, RemoveJob
  <2> QED BY <1>3, <2>1 DEF TypeOK, RemoveJob, Goto, ticking, flight, history
<1>4. ASSUME NEW c \in Callers, NEW id \in JobIds, NEW b \in BOOLEAN, SetEnabled(c, id, b)
      PROVE TypeOK'
  <2> DEFINE on == [jobs[id] EXCEPT !.enabled = TRUE, !.errs = 0]
             off == [jobs[id] EXCEPT !.enabled = FALSE]
             k == IF b THEN Rearm(on) ELSE off
  <2>1. id \in DOMAIN jobs /\ jobs[id] \in Job
    BY <1>4, JobMapElim DEF TypeOK, SetEnabled
  <2>2. on \in Job /\ off \in Job
    BY <2>1, EnableType
  <2>3. k \in Job
    BY <2>2, RearmType
  <2>4. jobs' = [jobs EXCEPT ![id] = k]
    BY <1>4, Zenon DEF SetEnabled
  <2>5. jobs' \in JobMap
    <3> HIDE DEF k
    <3> QED BY <2>1, <2>3, <2>4, ExceptType DEF TypeOK
  <2> HIDE DEF k
  <2> QED BY <1>4, <2>5 DEF TypeOK, SetEnabled, Goto, ticking, flight, history
<1>5. ASSUME NEW c \in Callers, NEW id \in JobIds, NEW s \in JobSpecs, NEW b \in BOOLEAN,
             UpdateCheck(c, id, s, b)
      PROVE TypeOK'
  <2>1. [id |-> id, job |-> NewJob(s, b)] \in EditOp
    BY NewJobType DEF EditOp
  <2> QED BY <1>5, <2>1 DEF TypeOK, UpdateCheck, Goto, memory, ticking, flight, history
<1>6. ASSUME NEW c \in Callers, UpdateApply(c) PROVE TypeOK'
  <2>1. op[c].id \in JobIds /\ op[c].job \in Job
    BY <1>6 DEF TypeOK, UpdateApply, EditOp
  <2>2. jobs' \in JobMap /\ rearmed' \in SUBSET JobIds
    <3>1. CASE op[c].id \in DOMAIN jobs
      <4>1. jobs' = With(jobs, op[c].id, op[c].job) /\ rearmed' = rearmed \cup {op[c].id}
        BY <1>6, <3>1 DEF UpdateApply
      <4>2. With(jobs, op[c].id, op[c].job) \in JobMap
        BY <2>1, WithType DEF TypeOK
      <4> QED BY <2>1, <4>1, <4>2 DEF TypeOK
    <3>2. CASE op[c].id \notin DOMAIN jobs
      BY <1>6, <3>2 DEF TypeOK, UpdateApply
    <3> QED BY <3>1, <3>2
  <2> QED BY <1>6, <2>2 DEF TypeOK, UpdateApply, Goto, ticking, flight, history
<1>7. ASSUME NEW c \in Callers, NEW old \in Agents, NEW new \in Agents,
             ReassignAgent(c, old, new)
      PROVE TypeOK'
  <2>1. jobs' \in [DOMAIN jobs -> Job]
    <3>1. \A i \in DOMAIN jobs : jobs[i] \in Job
      BY JobMapElim DEF TypeOK
    <3>2. \A i \in DOMAIN jobs : [jobs[i] EXCEPT !.agent = new] \in Job
      BY <3>1, MoveType
    <3> QED BY <1>7, <3>1, <3>2 DEF ReassignAgent
  <2>2. jobs' \in JobMap
    BY <2>1, JobMapElim, JobMapIntro DEF TypeOK
  <2> QED BY <1>7, <2>2 DEF TypeOK, ReassignAgent, Goto, ticking, flight, history
<1>8. ASSUME NEW n \in Caps, SetMaxTotalJobs(n) PROVE TypeOK'
  BY <1>8 DEF TypeOK, SetMaxTotalJobs, memory, ticking, flight, history
<1>9. ASSUME NEW c \in Callers, NEW id \in JobIds, ManualRun(c, id) PROVE TypeOK'
  <2>1. [id |-> id] \in RunOp
    BY DEF RunOp
  <2> QED BY <1>9, <2>1 DEF TypeOK, ManualRun, Goto, memory, ticking, flight, history
<1>10. ASSUME NEW c \in Callers, ManualDone(c) PROVE TypeOK'
  <2>1. op[c].id \in JobIds
    BY <1>10 DEF TypeOK, ManualDone, RunOp
  <2>2. /\ jobs' \in JobMap /\ removing' \in SUBSET JobIds
        /\ spent' \in SUBSET JobIds
    BY <1>10, <2>1, SucceedType, FailType DEF ManualDone
  <2> QED BY <1>10, <2>1, <2>2 DEF TypeOK, ManualDone, Goto, ticking, flight
<1>11. ASSUME TickBegin PROVE TypeOK'
  <2>1. scan' \in SUBSET JobIds
    BY <1>11, JobMapElim DEF TypeOK, TickBegin
  <2> QED BY <1>11, <2>1 DEF TypeOK, TickBegin, Goto, memory, flight, history
<1>12. ASSUME NEW id \in JobIds, ClaimVisit(id) PROVE TypeOK'
  <2>1. jobs' \in JobMap
    <3>1. CASE IsDue(id)
      <4>1. id \in DOMAIN jobs /\ jobs[id] \in Job
        BY <3>1, JobMapElim DEF TypeOK, IsDue
      <4>2. Claim(jobs[id]) \in Job
        BY <4>1 DEF Claim, Job
      <4>3. jobs' = [jobs EXCEPT ![id] = Claim(jobs[id])]
        BY <1>12, <3>1 DEF ClaimVisit
      <4> QED BY <4>1, <4>2, <4>3, ExceptType DEF TypeOK
    <3>2. CASE ~IsDue(id)
      BY <1>12, <3>2 DEF TypeOK, ClaimVisit
    <3> QED BY <3>1, <3>2
  <2> QED BY <1>12, <2>1 DEF TypeOK, ClaimVisit, flight
<1>13. ASSUME NEW id \in JobIds, Spawn(id) PROVE TypeOK'
  <2>1. /\ jobs' \in JobMap /\ removing' \in SUBSET JobIds
        /\ spent' \in SUBSET JobIds
    BY <1>13, FailType DEF TypeOK, Spawn, memory
  <2>2. running' \in [JobIds -> Nat]
    <3>1. CASE running' = running
      BY <3>1 DEF TypeOK
    <3>2. CASE running' = [running EXCEPT ![id] = @ + 1]
      BY <3>2 DEF TypeOK
    <3> QED BY <1>13, <3>1, <3>2 DEF Spawn
  <2> QED BY <1>13, <2>1, <2>2 DEF TypeOK, Spawn
<1>14. ASSUME TickEnd PROVE TypeOK'
  BY <1>14 DEF TypeOK, TickEnd, Goto, memory, ticking, flight, history
<1>15. ASSUME NEW id \in JobIds, ExecSucceed(id) PROVE TypeOK'
  <2>1. /\ jobs' \in JobMap /\ removing' \in SUBSET JobIds
        /\ spent' \in SUBSET JobIds
    BY <1>15, SucceedType DEF ExecSucceed
  <2>2. running' \in [JobIds -> Nat] /\ delivering' \in [JobIds -> Nat]
    BY <1>15 DEF TypeOK, ExecSucceed
  <2> QED BY <1>15, <2>1, <2>2 DEF TypeOK, ExecSucceed, ticking
<1>16. ASSUME NEW id \in JobIds, ExecFail(id) PROVE TypeOK'
  <2>1. /\ jobs' \in JobMap /\ removing' \in SUBSET JobIds
        /\ spent' \in SUBSET JobIds
    BY <1>16, FailType DEF ExecFail
  <2>2. running' \in [JobIds -> Nat]
    BY <1>16 DEF TypeOK, ExecFail
  <2> QED BY <1>16, <2>1, <2>2 DEF TypeOK, ExecFail, ticking
<1>17. ASSUME NEW id \in JobIds, Deliver(id) PROVE TypeOK'
  <2>1. /\ jobs' \in JobMap /\ removing' \in SUBSET JobIds
        /\ spent' \in SUBSET JobIds /\ rearmed' \in SUBSET JobIds
    BY <1>17, FailType DEF TypeOK, Deliver, memory
  <2>2. delivering' \in [JobIds -> Nat]
    BY <1>17 DEF TypeOK, Deliver
  <2> QED BY <1>17, <2>1, <2>2 DEF TypeOK, Deliver, ticking
<1>18. ASSUME NEW id \in JobIds, RemoveSpent(id) PROVE TypeOK'
  <2>1. jobs' \in JobMap
    BY <1>18, WithoutType DEF TypeOK, RemoveSpent
  <2> QED BY <1>18, <2>1 DEF TypeOK, RemoveSpent, ticking, flight, history
<1>19. ASSUME NEW p \in Procs, PersistCollect(p) PROVE TypeOK'
  BY <1>19 DEF TypeOK, PersistCollect, Goto, memory, ticking, flight, history
<1>20. ASSUME NEW p \in Procs, PersistWrite(p) PROVE TypeOK'
  BY <1>20, NoJobsType DEF TypeOK, PersistWrite, Goto, memory, ticking, flight, history
<1>21. ASSUME Shutdown PROVE TypeOK'
  BY <1>21 DEF TypeOK, Shutdown, Goto, memory, ticking, flight, history
<1>22. ASSUME Crash PROVE TypeOK'
  BY <1>22, NoJobsType DEF TypeOK, Crash
<1>23. ASSUME Boot PROVE TypeOK'
  <2>1. jobs' \in [DOMAIN disk -> Job] /\ DOMAIN disk \in SUBSET JobIds
    BY <1>23, JobMapElim, ReconcileType DEF TypeOK, Boot
  <2>2. jobs' \in JobMap
    BY <2>1, JobMapIntro
  <2> QED BY <1>23, <2>2 DEF TypeOK, Boot, ticking, flight, history
<1>24. ASSUME NEW id \in JobIds, Elapse(id) PROVE TypeOK'
  <2> DEFINE k == [jobs[id] EXCEPT !.next = "Due", !.passed = (jobs[id].sched = "At")]
  <2>1. id \in DOMAIN jobs /\ jobs[id] \in Job
    BY <1>24, JobMapElim DEF TypeOK, Elapse
  <2>2. k \in Job
    BY <2>1 DEF Job
  <2>3. jobs' = [jobs EXCEPT ![id] = k]
    BY <1>24, <2>1, JobMapElim DEF TypeOK, Elapse, Job
  <2>4. jobs' \in JobMap
    <3> HIDE DEF k
    <3> QED BY <2>1, <2>2, <2>3, ExceptType DEF TypeOK
  <2> QED BY <1>24, <2>4 DEF TypeOK, Elapse, ticking, flight, history
<1>25. CASE UNCHANGED vars
  BY <1>25 DEF TypeOK, vars
<1> QED
  BY <1>1, <1>2, <1>3, <1>4, <1>5, <1>6, <1>7, <1>8, <1>9, <1>10, <1>11, <1>12, <1>13,
     <1>14, <1>15, <1>16, <1>17, <1>18, <1>19, <1>20, <1>21, <1>22, <1>23, <1>24, <1>25
     DEF Next, Edit, Tick, Finish, Persist

LEMMA TypeInit == Init => TypeOK
<1> SUFFICES ASSUME Init PROVE TypeOK
  OBVIOUS
<1>1. jobs \in JobMap /\ disk \in JobMap /\ snap \in [Procs -> JobMap]
  BY NoJobsType DEF Init
<1>2. /\ pc \in [Procs -> {"idle"}]
      /\ op \in [Callers -> {NoOp}]
      /\ running \in [JobIds -> Nat] /\ delivering \in [JobIds -> Nat]
  BY DEF Init
<1>3. \A c \in Callers : pc[c] = "idle"
  BY <1>2 DEF Procs
<1> QED BY <1>1, <1>2, <1>3 DEF Init, TypeOK

(* The scheduler's variables keep their types (type correctness).          *)
THEOREM TypeCorrect == Spec => []TypeOK
BY TypeInit, TypeStep, PTL DEF Spec

-----------------------------------------------------------------------------
(* No job is stuck: the invariant and its strengthening.                   *)
ArmedInv == TypeOK /\ PendingArmed /\ NoStuckJob

LEMMA PendingArmedStep == TypeOK /\ PendingArmed /\ [Next]_vars => PendingArmed'
<1> SUFFICES ASSUME TypeOK, PendingArmed, [Next]_vars PROVE PendingArmed'
  OBVIOUS
<1> USE DEF Procs
<1>1. ASSUME NEW c \in Callers, NEW id \in JobIds, NEW s \in JobSpecs, NEW b \in BOOLEAN,
             AddCheck(c, id, s) \/ UpdateCheck(c, id, s, b)
      PROVE PendingArmed'
  <2>1. PICK j \in Job : j.next # "None" /\ op' = [op EXCEPT ![c] = [id |-> id, job |-> j]]
    BY <1>1, NewJobType DEF AddCheck, UpdateCheck
  <2>2. op'[c].job.next # "None" /\ \A d \in Callers \ {c} : op'[d] = op[d]
    BY <2>1 DEF TypeOK
  <2>3. \A d \in Callers \ {c} : pc'[d] = pc[d]
    BY <1>1 DEF TypeOK, AddCheck, UpdateCheck, Goto
  <2> QED BY <2>2, <2>3 DEF PendingArmed
<1>2. ASSUME NEW c \in Callers,
             AddInsert(c) \/ UpdateApply(c) \/ ManualDone(c)
      PROVE PendingArmed'
  BY <1>2 DEF TypeOK, PendingArmed, AddInsert, UpdateApply, ManualDone, Goto
<1>3. ASSUME NEW c \in Callers, NEW id \in JobIds, NEW b \in BOOLEAN,
             RemoveJob(c, id) \/ SetEnabled(c, id, b) \/ ManualRun(c, id)
      PROVE PendingArmed'
  BY <1>3 DEF TypeOK, PendingArmed, RemoveJob, SetEnabled, ManualRun, Goto
<1>4. ASSUME NEW c \in Callers, NEW old \in Agents, NEW new \in Agents,
             ReassignAgent(c, old, new)
      PROVE PendingArmed'
  BY <1>4 DEF TypeOK, PendingArmed, ReassignAgent, Goto
<1>5. ASSUME TickBegin \/ TickEnd \/ Shutdown PROVE PendingArmed'
  BY <1>5 DEF TypeOK, PendingArmed, TickBegin, TickEnd, Shutdown, Goto
<1>6. ASSUME NEW p \in Procs, Persist(p) PROVE PendingArmed'
  BY <1>6 DEF TypeOK, PendingArmed, Persist, PersistCollect, PersistWrite, Goto
<1>7. ASSUME NEW id \in JobIds,
             \/ ClaimVisit(id) \/ Spawn(id) \/ ExecSucceed(id) \/ ExecFail(id)
             \/ Deliver(id) \/ RemoveSpent(id) \/ Elapse(id)
      PROVE PendingArmed'
  BY <1>7 DEF PendingArmed, ClaimVisit, Spawn, ExecSucceed, ExecFail, Deliver,
              RemoveSpent, Elapse
<1>8. ASSUME NEW n \in Caps, SetMaxTotalJobs(n) PROVE PendingArmed'
  BY <1>8 DEF PendingArmed, SetMaxTotalJobs
<1>9. ASSUME Crash PROVE PendingArmed'
  BY <1>9 DEF PendingArmed, Crash
<1>10. ASSUME Boot PROVE PendingArmed'
  BY <1>10 DEF PendingArmed, Boot
<1>11. CASE UNCHANGED vars
  BY <1>11 DEF PendingArmed, vars
<1>12. ASSUME NEW c \in Callers, Edit(c) PROVE PendingArmed'
  BY <1>1, <1>2, <1>3, <1>4, <1>12 DEF Edit
<1> QED
  BY <1>5, <1>6, <1>7, <1>8, <1>9, <1>10, <1>11, <1>12 DEF Next, Tick, Finish

(* Recording an outcome for one job keeps every job of the map unstuck,    *)
(* provided the claims on the other jobs stay.                             *)
LEMMA SucceedUnstuck ==
    ASSUME TypeOK, NoStuckJob, NEW id \in JobIds, Succeed(id),
           due' = due,
           \A i \in JobIds \ {id} : running'[i] = running[i]
    PROVE  NoStuckJob'
<1> SUFFICES ASSUME NEW i \in DOMAIN jobs', jobs'[i].enabled, jobs'[i].next = "None"
             PROVE  Claimed(i)'
  BY DEF NoStuckJob
<1>1. DOMAIN jobs' = DOMAIN jobs /\ i \in JobIds
  BY RecordSuccessEffect, JobMapElim DEF TypeOK, Succeed
<1>2. CASE i = id
  <2>1. SingleRun(jobs[id])
    BY <1>1, <1>2, RecordSuccessEffect DEF TypeOK, Succeed
  <2> QED BY <1>1, <1>2, <2>1 DEF Succeed, RemovedOnSuccess, Claimed
<1>3. CASE i # id
  <2>1. jobs'[i] = jobs[i]
    BY <1>1, <1>3, RecordSuccessEffect DEF TypeOK, Succeed
  <2>2. Claimed(i)
    BY <1>1, <2>1 DEF NoStuckJob
  <2> QED BY <1>1, <1>3, <2>2 DEF Claimed, Succeed
<1> QED BY <1>2, <1>3

LEMMA FailUnstuck ==
    ASSUME TypeOK, NoStuckJob, NEW id \in JobIds, NEW t \in BOOLEAN, Fail(id, t),
           \A i \in JobIds \ {id} : /\ i \in due => i \in due'
                                    /\ running'[i] = running[i]
    PROVE  NoStuckJob'
<1> SUFFICES ASSUME NEW i \in DOMAIN jobs', jobs'[i].enabled, jobs'[i].next = "None"
             PROVE  Claimed(i)'
  BY DEF NoStuckJob
<1>1. DOMAIN jobs' = DOMAIN jobs /\ i \in JobIds
  BY RecordFailureEffect, JobMapElim DEF TypeOK, Fail
<1>2. CASE i = id
  <2>1. jobs[id].sched = "At"
    BY <1>1, <1>2, RecordFailureEffect DEF TypeOK, Fail
  <2> QED BY <1>1, <1>2, <2>1 DEF Fail, RemovedOnFailure, Claimed
<1>3. CASE i # id
  <2>1. jobs'[i] = jobs[i]
    BY <1>1, <1>3, RecordFailureEffect DEF TypeOK, Fail
  <2>2. Claimed(i)
    BY <1>1, <2>1 DEF NoStuckJob
  <2> QED BY <1>1, <1>3, <2>2 DEF Claimed, Fail
<1> QED BY <1>2, <1>3

(* A step that replaces one job of the map by an armed or disabled one and *)
(* leaves all claims alone.                                                *)
LEMMA EditUnstuck ==
    ASSUME NoStuckJob, UNCHANGED <<due, running, removing>>,
           \A i \in DOMAIN jobs' :
              \/ i \in DOMAIN jobs /\ jobs'[i].next = jobs[i].next
                                   /\ jobs'[i].enabled = jobs[i].enabled
              \/ jobs'[i].next # "None"
              \/ ~jobs'[i].enabled
    PROVE  NoStuckJob'
BY DEF NoStuckJob, Claimed

LEMMA NoStuckStep == ArmedInv /\ [Next]_vars => NoStuckJob'
<1> SUFFICES ASSUME TypeOK, PendingArmed, NoStuckJob, [Next]_vars PROVE NoStuckJob'
  BY DEF ArmedInv
<1>1. ASSUME NEW c \in Callers, AddInsert(c) PROVE NoStuckJob'
  <2>1. op[c].id \in JobIds /\ op[c].job \in Job /\ op[c].job.next # "None"
    BY <1>1 DEF TypeOK, PendingArmed, AddInsert, EditOp
  <2>2. \A i \in DOMAIN jobs' : \/ i \in DOMAIN jobs /\ jobs'[i] = jobs[i]
                                \/ jobs'[i].next # "None"
    <3> DEFINE js == With(jobs, op[c].id, op[c].job)
    <3>1. /\ DOMAIN js = DOMAIN jobs \cup {op[c].id}
          /\ js[op[c].id] = op[c].job
          /\ \A i \in DOMAIN jobs \ {op[c].id} : js[i] = jobs[i]
      BY DEF With
    <3>2. jobs' = js
      BY <1>1 DEF AddInsert
    <3> HIDE DEF js
    <3> QED BY <2>1, <3>1, <3>2
  <2> QED BY <1>1, <2>2, EditUnstuck DEF AddInsert, ticking, flight
<1>2. ASSUME NEW c \in Callers, UpdateApply(c) PROVE NoStuckJob'
  <2>1. op[c].id \in JobIds /\ op[c].job \in Job /\ op[c].job.next # "None"
    BY <1>2 DEF TypeOK, PendingArmed, UpdateApply, EditOp
  <2>2. jobs' = With(jobs, op[c].id, op[c].job) \/ jobs' = jobs
    BY <1>2 DEF UpdateApply
  <2>3. \A i \in DOMAIN jobs' : \/ i \in DOMAIN jobs /\ jobs'[i] = jobs[i]
                                \/ jobs'[i].next # "None"
    <3> DEFINE js == With(jobs, op[c].id, op[c].job)
    <3>1. /\ DOMAIN js = DOMAIN jobs \cup {op[c].id}
          /\ js[op[c].id] = op[c].job
          /\ \A i \in DOMAIN jobs \ {op[c].id} : js[i] = jobs[i]
      BY DEF With
    <3>2. jobs' = js \/ jobs' = jobs
      BY <2>2
    <3> HIDE DEF js
    <3> QED BY <2>1, <3>1, <3>2
  <2> QED BY <1>2, <2>3, EditUnstuck DEF UpdateApply, ticking, flight
<1>3. ASSUME NEW c \in Callers, NEW id \in JobIds, RemoveJob(c, id) PROVE NoStuckJob'
  <2>1. \A i \in DOMAIN jobs' : i \in DOMAIN jobs /\ jobs'[i] = jobs[i]
    <3>1. jobs' = Without(jobs, id)
      BY <1>3 DEF RemoveJob
    <3>2. /\ DOMAIN Without(jobs, id) = DOMAIN jobs \ {id}
          /\ \A i \in DOMAIN jobs \ {id} : Without(jobs, id)[i] = jobs[i]
      BY WithoutType DEF TypeOK
    <3> QED BY <3>1, <3>2
  <2> QED BY <1>3, <2>1, EditUnstuck DEF RemoveJob, ticking, flight
<1>4. ASSUME NEW c \in Callers, NEW id \in JobIds, NEW b \in BOOLEAN, SetEnabled(c, id, b)
      PROVE NoStuckJob'
  <2> DEFINE on == [jobs[id] EXCEPT !.enabled = TRUE, !.errs = 0]
             off == [jobs[id] EXCEPT !.enabled = FALSE]
             k == IF b THEN Rearm(on) ELSE off
  <2>1. id \in DOMAIN jobs /\ jobs[id] \in Job
    BY <1>4, JobMapElim DEF TypeOK, SetEnabled
  <2>2. on \in Job /\ off \in Job /\ ~off.enabled
    BY <2>1, EnableType DEF Job
  <2>3. k \in Job /\ (k.next # "None" \/ ~k.enabled)
    BY <2>2, RearmType
  <2>4. jobs' = [jobs EXCEPT ![id] = k]
    BY <1>4, Zenon DEF SetEnabled
  <2> HIDE DEF k
  <2>5. \A i \in DOMAIN jobs' : \/ i \in DOMAIN jobs /\ jobs'[i] = jobs[i]
                                \/ jobs'[i].next # "None" \/ ~jobs'[i].enabled
    BY <2>1, <2>3, <2>4, ExceptType DEF TypeOK
  <2> QED BY <1>4, <2>5, EditUnstuck DEF SetEnabled, ticking, flight
<1>5. ASSUME NEW c \in Callers, NEW old \in Agents, NEW new \in Agents,
             ReassignAgent(c, old, new)
      PROVE NoStuckJob'
  <2>1. \A i \in DOMAIN jobs : jobs[i] \in Job
    BY JobMapElim DEF TypeOK
  <2>2. \A i \in DOMAIN jobs : /\ [jobs[i] EXCEPT !.agent = new].next = jobs[i].next
                               /\ [jobs[i] EXCEPT !.agent = new].enabled = jobs[i].enabled
    BY <2>1, MoveType
  <2>3. \A i \in DOMAIN jobs' : /\ i \in DOMAIN jobs
                                /\ jobs'[i].next = jobs[i].next
                                /\ jobs'[i].enabled = jobs[i].enabled
    BY <1>5, <2>2 DEF ReassignAgent
  <2> QED BY <1>5, <2>3, EditUnstuck DEF ReassignAgent, ticking, flight
<1>6. ASSUME NEW c \in Callers, ManualDone(c) PROVE NoStuckJob'
  <2>1. op[c].id \in JobIds
    BY <1>6 DEF TypeOK, ManualDone, RunOp
  <2>2. due' = due /\ running' = running
    BY <1>6 DEF ManualDone, ticking, flight
  <2>3. CASE Succeed(op[c].id)
    BY <2>1, <2>2, <2>3, SucceedUnstuck
  <2>4. ASSUME NEW t \in BOOLEAN, Fail(op[c].id, t) PROVE NoStuckJob'
    BY <2>1, <2>2, <2>4, FailUnstuck
  <2> QED BY <1>6, <2>3, <2>4 DEF ManualDone
<1>7. ASSUME NEW id \in JobIds, ClaimVisit(id) PROVE NoStuckJob'
  <2>1. CASE IsDue(id)
    <3>1. id \in DOMAIN jobs /\ jobs[id] \in Job
      BY <2>1, JobMapElim DEF TypeOK, IsDue
    <3>2. Claim(jobs[id]) \in Job
      BY <3>1 DEF Claim, Job
    <3>3. jobs' = [jobs EXCEPT ![id] = Claim(jobs[id])] /\ due' = due \cup {id}
      BY <1>7, <2>1 DEF ClaimVisit
    <3>4. DOMAIN jobs' = DOMAIN jobs /\ \A i \in DOMAIN jobs \ {id} : jobs'[i] = jobs[i]
      BY <3>1, <3>2, <3>3, ExceptType DEF TypeOK
    <3> QED BY <1>7, <3>3, <3>4 DEF ClaimVisit, NoStuckJob, Claimed, flight
  <2>2. CASE ~IsDue(id)
    BY <1>7, <2>2 DEF ClaimVisit, NoStuckJob, Claimed, flight
  <2> QED BY <2>1, <2>2
<1>8. ASSUME NEW id \in JobIds, Spawn(id) PROVE NoStuckJob'
  <2>1. CASE stopping
    <3>1. Fail(id, TRUE) /\ running' = running /\ due' = due \ {id}
      BY <1>8, <2>1 DEF Spawn
    <3> QED BY <3>1, FailUnstuck
  <2>2. CASE ~stopping
    <3>1. /\ running' = [running EXCEPT ![id] = @ + 1] /\ due' = due \ {id}
          /\ UNCHANGED <<jobs, removing>>
      BY <1>8, <2>2 DEF Spawn, memory
    <3>2. \A i \in JobIds : Claimed(i) => Claimed(i)'
      BY <3>1 DEF Claimed, TypeOK
    <3> QED BY <3>1, <3>2, JobMapElim DEF NoStuckJob, TypeOK
  <2> QED BY <2>1, <2>2
<1>9. ASSUME NEW id \in JobIds, ExecSucceed(id) PROVE NoStuckJob'
  <2>1. Succeed(id) /\ due' = due /\ running' = [running EXCEPT ![id] = @ - 1]
    BY <1>9 DEF ExecSucceed, ticking
  <2> QED BY <2>1, SucceedUnstuck DEF TypeOK
<1>10. ASSUME NEW id \in JobIds, ExecFail(id) PROVE NoStuckJob'
  <2>1. due' = due /\ running' = [running EXCEPT ![id] = @ - 1]
    BY <1>10 DEF ExecFail, ticking
  <2>2. PICK t \in BOOLEAN : Fail(id, t)
    BY <1>10 DEF ExecFail
  <2> QED BY <2>1, <2>2, FailUnstuck DEF TypeOK
<1>11. ASSUME NEW id \in JobIds, Deliver(id) PROVE NoStuckJob'
  <2>1. due' = due /\ running' = running
    BY <1>11 DEF Deliver, ticking
  <2>2. CASE Fail(id, FALSE)
    BY <2>1, <2>2, FailUnstuck
  <2>3. CASE UNCHANGED memory
    BY <2>1, <2>3, EditUnstuck DEF memory
  <2> QED BY <1>11, <2>2, <2>3 DEF Deliver
<1>12. ASSUME NEW id \in JobIds, RemoveSpent(id) PROVE NoStuckJob'
  <2>0. jobs \in JobMap /\ jobs' = Without(jobs, id)
    BY <1>12 DEF TypeOK, RemoveSpent
  <2>1. DOMAIN jobs' = DOMAIN jobs \ {id} /\ \A i \in DOMAIN jobs' : jobs'[i] = jobs[i]
    BY <2>0, WithoutType
  <2> QED BY <1>12, <2>1 DEF RemoveSpent, NoStuckJob, Claimed, ticking, flight
<1>13. ASSUME NEW id \in JobIds, Elapse(id) PROVE NoStuckJob'
  <2> DEFINE k == [jobs[id] EXCEPT !.next = "Due", !.passed = (jobs[id].sched = "At")]
  <2>1. id \in DOMAIN jobs /\ jobs[id] \in Job
    BY <1>13, JobMapElim DEF TypeOK, Elapse
  <2>2. k \in Job /\ k.next # "None"
    BY <2>1 DEF Job
  <2>3. jobs' = [jobs EXCEPT ![id] = k]
    BY <1>13, <2>1, JobMapElim DEF TypeOK, Elapse, Job
  <2> HIDE DEF k
  <2>4. \A i \in DOMAIN jobs' : \/ i \in DOMAIN jobs /\ jobs'[i] = jobs[i]
                                \/ jobs'[i].next # "None"
    BY <2>1, <2>2, <2>3, ExceptType DEF TypeOK
  <2> QED BY <1>13, <2>4, EditUnstuck DEF Elapse, ticking, flight
<1>14. ASSUME Crash PROVE NoStuckJob'
  BY <1>14 DEF Crash, NoStuckJob, NoJobs
<1>15. ASSUME Boot PROVE NoStuckJob'
  <2>1. \A i \in DOMAIN jobs' : jobs'[i].enabled => jobs'[i].next # "None"
    BY <1>15, JobMapElim, ReconcileType DEF TypeOK, Boot
  <2> QED BY <2>1 DEF NoStuckJob
<1>16. ASSUME UNCHANGED <<jobs, due, running, removing>> PROVE NoStuckJob'
  BY <1>16 DEF NoStuckJob, Claimed
<1>17. ASSUME NEW c \in Callers, Edit(c) PROVE NoStuckJob'
  BY <1>1, <1>2, <1>3, <1>4, <1>5, <1>6, <1>16, <1>17
     DEF Edit, AddCheck, UpdateCheck, ManualRun, memory, ticking, flight
<1>18. ASSUME Tick PROVE NoStuckJob'
  BY <1>7, <1>8, <1>16, <1>18 DEF Tick, TickBegin, TickEnd, memory, ticking, flight
<1>19. ASSUME NEW p \in Procs, Persist(p) PROVE NoStuckJob'
  BY <1>16, <1>19 DEF Persist, PersistCollect, PersistWrite, memory, ticking, flight
<1>20. ASSUME NEW n \in Caps, SetMaxTotalJobs(n) PROVE NoStuckJob'
  BY <1>16, <1>20 DEF SetMaxTotalJobs, memory, ticking, flight
<1>21. ASSUME Shutdown PROVE NoStuckJob'
  BY <1>16, <1>21 DEF Shutdown, memory, ticking, flight
<1>22. CASE UNCHANGED vars
  BY <1>16, <1>22 DEF vars
<1> QED
  BY <1>9, <1>10, <1>11, <1>12, <1>13, <1>14, <1>15, <1>17, <1>18, <1>19, <1>20, <1>21,
     <1>22 DEF Next, Finish

(* No job is lost in the claimed state: an enabled job without a next_run  *)
(* always has somebody who will record its outcome, whatever the number of *)
(* jobs, handlers and overlapping executions.                              *)
THEOREM NoJobIsEverStuck == Spec => []NoStuckJob
<1>1. Init => ArmedInv
  <2> SUFFICES ASSUME Init PROVE PendingArmed /\ NoStuckJob
    BY TypeInit DEF ArmedInv
  <2>1. \A c \in Callers : pc[c] = "idle"
    BY DEF Init, Procs
  <2> QED BY <2>1 DEF Init, PendingArmed, NoStuckJob, NoJobs
<1>2. ArmedInv /\ [Next]_vars => ArmedInv'
  BY TypeStep, PendingArmedStep, NoStuckStep DEF ArmedInv
<1>3. ArmedInv => NoStuckJob
  BY DEF ArmedInv
<1> QED BY <1>1, <1>2, <1>3, PTL DEF Spec

-----------------------------------------------------------------------------
(* One execution at a time, and single runs run once.                      *)

(* An id that nothing in the process knows.                                *)
Unknown(id) ==
    id \notin DOMAIN jobs \cup due \cup removing \cup fired \cup spent /\ running[id] = 0

(* Ids are given out once: what is in memory or in the file was given out, *)
(* and the id a caller is adding is known to that caller only.  A process  *)
(* that is down remembers nothing.                                         *)
IdsInv ==
    /\ DOMAIN jobs \subseteq used /\ DOMAIN disk \subseteq used
    /\ \A p \in Procs : DOMAIN snap[p] \subseteq used
    /\ \A id \in JobIds \ used : Unknown(id)
    /\ \A c \in Callers : pc[c] = "adding" => op[c].id \in used /\ Unknown(op[c].id)
    /\ \A c, d \in Callers : pc[c] = "adding" /\ pc[d] = "adding" /\ op[c].id = op[d].id => c = d
    /\ ~up => (\A id \in JobIds : Unknown(id)) /\ (\A c \in Callers : pc[c] = "idle")

(* The claim on a job is held once: by the tick loop, by one execution, or *)
(* by a recorder that removes the job, a single-run one; as long as it is  *)
(* held next_run is None.  Single runs that fired or succeeded stay so.    *)
Exclusive(id) ==
    /\ running[id] <= 1
    /\ id \in due => running[id] = 0 /\ id \notin removing
    /\ id \in removing => running[id] = 0 /\ SingleRun(jobs[id])
    /\ Claimed(id) => jobs[id].next = "None"
    /\ id \in fired => jobs[id].sched = "At" /\ jobs[id].next = "None"
    /\ id \in spent => id \in removing

ClaimInv == \A id \in DOMAIN jobs \ rearmed : Exclusive(id)

FlightInv == TypeOK /\ IdsInv /\ ClaimInv

(* The recorders leave the kind of a job alone.                            *)
LEMMA RecordSuccessKind ==
    ASSUME NEW js \in JobMap, NEW id \in DOMAIN js
    PROVE  /\ RecordSuccess(js, id)[id].sched = js[id].sched
           /\ RecordSuccess(js, id)[id].oneShot = js[id].oneShot
<1> DEFINE j == [js[id] EXCEPT !.errs = 0]
           k == IF SingleRun(js[id]) THEN j ELSE Rearm(j)
<1>1. js[id] \in Job
  BY JobMapElim
<1>2. j \in Job /\ j.sched = js[id].sched /\ j.oneShot = js[id].oneShot
  BY <1>1 DEF Job
<1>3. k.sched = js[id].sched /\ k.oneShot = js[id].oneShot
  BY <1>2, RearmType
<1>4. RecordSuccess(js, id) = [js EXCEPT ![id] = k]
  BY Zenon DEF RecordSuccess
<1> HIDE DEF k
<1> QED BY <1>3, <1>4, JobMapElim

LEMMA RecordFailureKind ==
    ASSUME NEW js \in JobMap, NEW id \in DOMAIN js, NEW t \in BOOLEAN
    PROVE  /\ RecordFailure(js, id, t)[id].sched = js[id].sched
           /\ RecordFailure(js, id, t)[id].oneShot = js[id].oneShot
<1> DEFINE j == js[id]
           e == CountError(j.errs)
           counted == [j EXCEPT !.errs = e]
           off == [j EXCEPT !.errs = e, !.enabled = FALSE]
           k == CASE j.sched = "At" -> j
                  [] j.sched # "At" /\ t -> Rearm(j)
                  [] j.sched # "At" /\ ~t /\ e < MaxErrors -> Rearm(counted)
                  [] OTHER -> off
           Same(x) == x.sched = j.sched /\ x.oneShot = j.oneShot
<1>1. j \in Job
  BY JobMapElim
<1>2. e \in 0..MaxErrors
  BY <1>1 DEF CountError, Job
<1>3. counted \in Job /\ Same(counted) /\ Same(off)
  BY <1>1, <1>2 DEF Job
<1>4. RecordFailure(js, id, t) = [js EXCEPT ![id] = k]
  BY Zenon DEF RecordFailure
<1>5. Same(Rearm(j)) /\ Same(Rearm(counted))
  BY <1>1, <1>3, RearmType
<1> HIDE DEF counted, off, e
<1>6. Same(k)
  <2>1. CASE j.sched = "At"
    BY <2>1
  <2>2. CASE j.sched # "At" /\ t
    BY <1>5, <2>2
  <2>3. CASE j.sched # "At" /\ ~t /\ e < MaxErrors
    BY <1>5, <2>3
  <2>4. CASE j.sched # "At" /\ ~t /\ ~(e < MaxErrors)
    BY <1>3, <2>4
  <2> QED BY <2>1, <2>2, <2>3, <2>4
<1> HIDE DEF k
<1>7. [js EXCEPT ![id] = k][id] = k
  BY JobMapElim
<1> QED BY <1>4, <1>6, <1>7

(* What recording an outcome means to the jobs, the recorded one and the   *)
(* others.                                                                 *)
LEMMA SucceedEffect ==
    ASSUME TypeOK, NEW id \in JobIds, Succeed(id)
    PROVE  /\ DOMAIN jobs' = DOMAIN jobs
           /\ \A i \in DOMAIN jobs \ {id} : jobs'[i] = jobs[i]
           /\ removing \subseteq removing' /\ removing' \subseteq removing \cup ({id} \cap DOMAIN jobs)
           /\ spent \subseteq spent' /\ spent' \subseteq spent \cup ({id} \cap DOMAIN jobs)
           /\ id \in DOMAIN jobs =>
                /\ jobs'[id].sched = jobs[id].sched /\ jobs'[id].oneShot = jobs[id].oneShot
                /\ IF SingleRun(jobs[id])
                   THEN jobs'[id].next = jobs[id].next /\ id \in removing' /\ id \in spent'
                   ELSE removing' = removing /\ spent' = spent
<1>1. jobs \in JobMap /\ jobs' = RecordSuccess(jobs, id)
  BY DEF TypeOK, Succeed
<1>2. /\ DOMAIN jobs' = DOMAIN jobs /\ \A i \in DOMAIN jobs \ {id} : jobs'[i] = jobs[i]
      /\ id \in DOMAIN jobs /\ SingleRun(jobs[id]) => jobs'[id].next = jobs[id].next
  BY <1>1, RecordSuccessEffect
<1>3. id \in DOMAIN jobs => jobs'[id].sched = jobs[id].sched /\ jobs'[id].oneShot = jobs[id].oneShot
  BY <1>1, RecordSuccessKind
<1> QED BY <1>2, <1>3 DEF Succeed, RemovedOnSuccess

LEMMA FailEffect ==
    ASSUME TypeOK, NEW id \in JobIds, NEW t \in BOOLEAN, Fail(id, t)
    PROVE  /\ DOMAIN jobs' = DOMAIN jobs
           /\ \A i \in DOMAIN jobs \ {id} : jobs'[i] = jobs[i]
           /\ removing \subseteq removing' /\ removing' \subseteq removing \cup ({id} \cap DOMAIN jobs)
           /\ spent' = spent
           /\ id \in DOMAIN jobs =>
                /\ jobs'[id].sched = jobs[id].sched /\ jobs'[id].oneShot = jobs[id].oneShot
                /\ IF jobs[id].sched = "At"
                   THEN jobs'[id].next = jobs[id].next /\ id \in removing'
                   ELSE removing' = removing
<1>1. jobs \in JobMap /\ jobs' = RecordFailure(jobs, id, t)
  BY DEF TypeOK, Fail
<1>2. /\ DOMAIN jobs' = DOMAIN jobs /\ \A i \in DOMAIN jobs \ {id} : jobs'[i] = jobs[i]
      /\ id \in DOMAIN jobs /\ jobs[id].sched = "At" => jobs'[id] = jobs[id]
  BY <1>1, RecordFailureEffect
<1>3. id \in DOMAIN jobs => jobs'[id].sched = jobs[id].sched /\ jobs'[id].oneShot = jobs[id].oneShot
  BY <1>1, RecordFailureKind
<1> QED BY <1>2, <1>3 DEF Fail, RemovedOnFailure

(* Steps that bring no new id into the process.                            *)
LEMMA IdsKept ==
    ASSUME TypeOK, IdsInv, up, up', used' = used, DOMAIN jobs' \subseteq DOMAIN jobs,
           DOMAIN disk' \subseteq used, \A p \in Procs : DOMAIN snap'[p] \subseteq used,
           due' \cup removing' \cup fired' \cup spent'
              \subseteq due \cup removing \cup fired \cup spent \cup DOMAIN jobs,
           \A id \in JobIds : running[id] = 0 /\ id \notin due => running'[id] = 0,
           \A c \in Callers : pc'[c] = "adding" => pc[c] = "adding" /\ op'[c] = op[c]
    PROVE  IdsInv'
<1>1. \A id \in JobIds : Unknown(id) => Unknown(id)'
  BY DEF Unknown
<1>2. \A c \in Callers : pc[c] = "adding" => op[c].id \in JobIds
  BY DEF TypeOK, EditOp
<1> QED BY <1>1, <1>2 DEF IdsInv

LEMMA IdsStep == TypeOK /\ IdsInv /\ [Next]_vars => IdsInv'
<1> SUFFICES ASSUME TypeOK, IdsInv, [Next]_vars PROVE IdsInv'
  OBVIOUS
<1> USE DEF Procs
<1>0. /\ jobs \in JobMap /\ DOMAIN jobs \subseteq used /\ DOMAIN disk \subseteq used
      /\ \A p \in Procs : DOMAIN snap[p] \subseteq used
  BY DEF TypeOK, IdsInv
<1>1. ASSUME NEW c \in Callers, NEW id \in JobIds, NEW s \in JobSpecs, AddCheck(c, id, s)
      PROVE IdsInv'
  <2>1. /\ id \notin used /\ used' = used \cup {id} /\ op'[c].id = id
        /\ \A d \in Callers \ {c} : op'[d] = op[d] /\ pc'[d] = pc[d]
    BY <1>1 DEF AddCheck, Goto, TypeOK
  <2>2. up /\ UNCHANGED <<up, jobs, disk, snap, due, running, removing, fired, spent>>
    BY <1>1 DEF AddCheck, memory, ticking, flight, history
  <2>3. \A i \in JobIds : Unknown(i)' <=> Unknown(i)
    BY <2>2 DEF Unknown
  <2>4. \A d \in Callers : pc[d] = "adding" => op[d].id \in JobIds
    BY DEF TypeOK, EditOp
  <2> QED BY <2>1, <2>2, <2>3, <2>4 DEF IdsInv
<1>2. ASSUME NEW c \in Callers, AddInsert(c) PROVE IdsInv'
  <2>1. pc[c] = "adding" /\ pc'[c] # "adding" /\ op[c].id \in JobIds
        /\ \A d \in Callers \ {c} : op'[d] = op[d] /\ pc'[d] = pc[d]
    BY <1>2 DEF AddInsert, Goto, TypeOK, EditOp
  <2>2. /\ up /\ jobs' = With(jobs, op[c].id, op[c].job)
        /\ UNCHANGED <<up, disk, snap, used, due, running, removing, fired, spent>>
    BY <1>2 DEF AddInsert, ticking, flight, history
  <2>3. DOMAIN jobs' = DOMAIN jobs \cup {op[c].id}
    BY <2>2 DEF With
  <2>4. \A i \in JobIds \ {op[c].id} : Unknown(i) => Unknown(i)'
    BY <2>2, <2>3 DEF Unknown
  <2>5. \A d \in Callers : pc[d] = "adding" => op[d].id \in JobIds
    BY DEF TypeOK, EditOp
  <2> QED BY <2>1, <2>2, <2>3, <2>4, <2>5 DEF IdsInv
<1>3. ASSUME NEW c \in Callers, NEW id \in JobIds, RemoveJob(c, id) PROVE IdsInv'
  <2>1. jobs' = Without(jobs, id)
    BY <1>3 DEF RemoveJob
  <2>2. DOMAIN jobs' \subseteq DOMAIN jobs
    BY <1>0, <2>1, WithoutType
  <2>3. \A d \in Callers : pc'[d] = "adding" => pc[d] = "adding"
    BY <1>3 DEF RemoveJob, Goto, TypeOK
  <2> QED BY <1>0, <1>3, <2>2, <2>3, IdsKept DEF RemoveJob, ticking, flight, history
<1>4. ASSUME NEW c \in Callers, NEW id \in JobIds, NEW b \in BOOLEAN, SetEnabled(c, id, b)
      PROVE IdsInv'
  <2>1. DOMAIN jobs' = DOMAIN jobs
    BY <1>4 DEF SetEnabled
  <2>2. \A d \in Callers : pc'[d] = "adding" => pc[d] = "adding"
    BY <1>4 DEF SetEnabled, Goto, TypeOK
  <2> QED BY <1>0, <1>4, <2>1, <2>2, IdsKept DEF SetEnabled, ticking, flight
<1>5. ASSUME NEW c \in Callers, NEW id \in JobIds, NEW s \in JobSpecs, NEW b \in BOOLEAN,
             UpdateCheck(c, id, s, b)
      PROVE IdsInv'
  <2>1. \A d \in Callers : pc'[d] = "adding" => pc[d] = "adding" /\ op'[d] = op[d]
    BY <1>5 DEF UpdateCheck, Goto, TypeOK
  <2> QED BY <1>0, <1>5, <2>1, IdsKept DEF UpdateCheck, memory, ticking, flight, history
<1>20. ASSUME NEW c \in Callers, NEW id \in JobIds, ManualRun(c, id) PROVE IdsInv'
  <2>1. \A d \in Callers : pc'[d] = "adding" => pc[d] = "adding" /\ op'[d] = op[d]
    BY <1>20 DEF ManualRun, Goto, TypeOK
  <2> QED BY <1>0, <1>20, <2>1, IdsKept DEF ManualRun, memory, ticking, flight, history
<1>6. ASSUME NEW c \in Callers, UpdateApply(c) PROVE IdsInv'
  <2>1. \A d \in Callers : pc'[d] = "adding" => pc[d] = "adding" /\ op'[d] = op[d]
    BY <1>6 DEF UpdateApply, Goto, TypeOK
  <2>2. DOMAIN jobs' = DOMAIN jobs
    BY <1>6 DEF UpdateApply, With
  <2> QED BY <1>0, <1>6, <2>1, <2>2, IdsKept DEF UpdateApply, ticking, flight
<1>7. ASSUME NEW c \in Callers, NEW old \in Agents, NEW new \in Agents,
             ReassignAgent(c, old, new)
      PROVE IdsInv'
  <2>1. \A d \in Callers : pc'[d] = "adding" => pc[d] = "adding"
    BY <1>7 DEF ReassignAgent, Goto, TypeOK
  <2>2. DOMAIN jobs' = DOMAIN jobs
    BY <1>7 DEF ReassignAgent
  <2> QED BY <1>0, <1>7, <2>1, <2>2, IdsKept DEF ReassignAgent, ticking, flight, history
<1>8. ASSUME NEW c \in Callers, ManualDone(c) PROVE IdsInv'
  <2>1. \A d \in Callers : pc'[d] = "adding" => pc[d] = "adding" /\ op'[d] = op[d]
    BY <1>8 DEF ManualDone, Goto, TypeOK
  <2>2. op[c].id \in JobIds
    BY <1>8 DEF TypeOK, ManualDone, RunOp
  <2>3. Succeed(op[c].id) \/ \E t \in BOOLEAN : Fail(op[c].id, t)
    BY <1>8 DEF ManualDone
  <2>4. /\ DOMAIN jobs' = DOMAIN jobs /\ removing' \subseteq removing \cup DOMAIN jobs
        /\ spent' \subseteq spent \cup DOMAIN jobs
    BY <2>2, <2>3, SucceedEffect, FailEffect
  <2> QED BY <1>0, <1>8, <2>1, <2>4, IdsKept DEF ManualDone, ticking, flight
<1>9. ASSUME NEW id \in JobIds, ClaimVisit(id) PROVE IdsInv'
  <2>1. DOMAIN jobs' = DOMAIN jobs /\ due' \cup fired' \subseteq due \cup fired \cup DOMAIN jobs
    BY <1>9 DEF ClaimVisit, IsDue
  <2> QED BY <1>0, <1>9, <2>1, IdsKept DEF ClaimVisit, flight
<1>10. ASSUME NEW id \in JobIds, Spawn(id) PROVE IdsInv'
  <2>1. \/ UNCHANGED <<jobs, removing, spent>>
        \/ Fail(id, TRUE)
    BY <1>10 DEF Spawn, memory
  <2>2. /\ DOMAIN jobs' = DOMAIN jobs /\ removing' \subseteq removing \cup DOMAIN jobs /\ spent' = spent
    BY <2>1, FailEffect
  <2>3. due' \subseteq due /\ \A i \in JobIds : running[i] = 0 /\ i \notin due => running'[i] = 0
    BY <1>10 DEF Spawn, TypeOK
  <2>4. up /\ UNCHANGED <<up, used, disk, snap, fired, pc, op>>
    BY <1>10 DEF Spawn
  <2> QED BY <1>0, <2>2, <2>3, <2>4, IdsKept
<1>11. ASSUME NEW id \in JobIds, ExecSucceed(id) \/ ExecFail(id) \/ Deliver(id) PROVE IdsInv'
  <2>1. \/ UNCHANGED <<jobs, removing, spent>> \/ Succeed(id) \/ \E t \in BOOLEAN : Fail(id, t)
    BY <1>11 DEF ExecSucceed, ExecFail, Deliver, memory
  <2>2. /\ DOMAIN jobs' = DOMAIN jobs /\ removing' \subseteq removing \cup DOMAIN jobs
        /\ spent' \subseteq spent \cup DOMAIN jobs
    BY <2>1, SucceedEffect, FailEffect
  <2>3. \A i \in JobIds : running[i] = 0 => running'[i] = 0
    <3>1. CASE ExecSucceed(id) \/ ExecFail(id)
      BY <3>1 DEF ExecSucceed, ExecFail, TypeOK
    <3>2. CASE Deliver(id)
      BY <3>2 DEF Deliver
    <3> QED BY <1>11, <3>1, <3>2
  <2>4. up /\ UNCHANGED <<up, used, disk, snap, fired, pc, op, due>>
    BY <1>11 DEF ExecSucceed, ExecFail, Deliver, ticking
  <2> QED BY <1>0, <2>2, <2>3, <2>4, IdsKept
<1>12. ASSUME NEW id \in JobIds, RemoveSpent(id) PROVE IdsInv'
  <2>1. jobs' = Without(jobs, id)
    BY <1>12 DEF RemoveSpent
  <2>2. DOMAIN jobs' \subseteq DOMAIN jobs
    BY <1>0, <2>1, WithoutType
  <2> QED BY <1>0, <1>12, <2>2, IdsKept DEF RemoveSpent, ticking, flight, history
<1>13. ASSUME NEW id \in JobIds, Elapse(id) PROVE IdsInv'
  <2>1. DOMAIN jobs' = DOMAIN jobs
    BY <1>13 DEF Elapse
  <2> QED BY <1>0, <1>13, <2>1, IdsKept DEF Elapse, ticking, flight, history
<1>14. ASSUME NEW p \in Procs, Persist(p) PROVE IdsInv'
  <2>1. \A d \in Callers : pc'[d] = "adding" => pc[d] = "adding"
    BY <1>14 DEF Persist, PersistCollect, PersistWrite, Goto, TypeOK
  <2>2. DOMAIN disk' \subseteq used /\ \A q \in Procs : DOMAIN snap'[q] \subseteq used
    <3>1. CASE PersistCollect(p)
      BY <1>0, <3>1 DEF PersistCollect, TypeOK
    <3>2. CASE PersistWrite(p)
      <4>1. disk' = snap[p] /\ snap' = [snap EXCEPT ![p] = NoJobs] /\ DOMAIN NoJobs = {}
        BY <3>2 DEF PersistWrite, NoJobs
      <4> QED BY <1>0, <4>1 DEF TypeOK
    <3> QED BY <1>14, <3>1, <3>2 DEF Persist
  <2>3. up /\ UNCHANGED <<up, used, jobs, due, removing, fired, spent, running, op>>
    BY <1>14 DEF Persist, PersistCollect, PersistWrite, memory, ticking, flight, history
  <2> QED BY <2>1, <2>2, <2>3, IdsKept
<1>15. ASSUME TickBegin \/ TickEnd \/ Shutdown \/ \E n \in Caps : SetMaxTotalJobs(n) PROVE IdsInv'
  <2>1. \A d \in Callers : pc'[d] = pc[d]
    BY <1>15 DEF TickBegin, TickEnd, Shutdown, SetMaxTotalJobs, Goto, TypeOK
  <2>2. up /\ UNCHANGED <<up, used, jobs, disk, snap, due, removing, fired, spent, running, op>>
    BY <1>15 DEF TickBegin, TickEnd, Shutdown, SetMaxTotalJobs, memory, ticking, flight, history
  <2> QED BY <1>0, <2>1, <2>2, IdsKept
<1>16. CASE Crash
  <2>1. \A id \in JobIds : Unknown(id)'
    BY <1>16 DEF Crash, Unknown, NoJobs
  <2>2. (\A c \in Callers : pc'[c] = "idle") /\ DOMAIN jobs' = {} /\ \A p \in Procs : DOMAIN snap'[p] = {}
    BY <1>16 DEF Crash, NoJobs
  <2>3. UNCHANGED <<disk, used>>
    BY <1>16 DEF Crash
  <2> QED BY <1>0, <2>1, <2>2, <2>3 DEF IdsInv
<1>17. CASE Boot
  <2>1. /\ ~up /\ up' /\ DOMAIN jobs' = DOMAIN disk
        /\ UNCHANGED <<disk, snap, used, due, running, removing, fired, spent, pc>>
    BY <1>17 DEF Boot, ticking, flight, history
  <2>2. (\A id \in JobIds : Unknown(id)) /\ (\A c \in Callers : pc[c] = "idle")
    BY <2>1 DEF IdsInv
  <2>3. \A id \in JobIds \ used : Unknown(id)'
    BY <1>0, <2>1, <2>2 DEF Unknown
  <2> QED BY <1>0, <2>1, <2>2, <2>3 DEF IdsInv
<1>18. CASE UNCHANGED vars
  <2>1. UNCHANGED <<up, used, jobs, disk, snap, due, removing, fired, spent, running, op, pc>>
    BY <1>18 DEF vars
  <2>2. \A id : Unknown(id)' <=> Unknown(id)
    BY <2>1 DEF Unknown
  <2> QED BY <2>1, <2>2 DEF IdsInv
<1>19. ASSUME NEW c \in Callers, Edit(c) PROVE IdsInv'
  BY <1>1, <1>2, <1>3, <1>4, <1>5, <1>6, <1>7, <1>8, <1>19, <1>20 DEF Edit
<1> QED
  BY <1>9, <1>10, <1>11, <1>12, <1>13, <1>14, <1>15, <1>16, <1>17, <1>18, <1>19
     DEF Next, Tick, Finish

(* A step that leaves a job's claim, kind and next_run alone.              *)
LEMMA ExclusiveKept ==
    ASSUME NEW id, Exclusive(id), running'[id] = running[id],
           id \in due' <=> id \in due, id \in removing' <=> id \in removing,
           id \in fired' <=> id \in fired, id \in spent' <=> id \in spent,
           jobs'[id].sched = jobs[id].sched, jobs'[id].oneShot = jobs[id].oneShot,
           jobs'[id].next = jobs[id].next
    PROVE  Exclusive(id)'
BY DEF Exclusive, Claimed, SingleRun

(* Recording the outcome of the one execution, or of the claim the tick    *)
(* loop gives back, ends the claim or hands it to the removal.             *)
LEMMA SucceedExclusive ==
    ASSUME TypeOK, NEW id \in DOMAIN jobs, Exclusive(id), Claimed(id), id \notin removing,
           Succeed(id), running'[id] = 0, id \notin due', fired' = fired
    PROVE  Exclusive(id)'
<1>1. id \in JobIds
  BY JobMapElim DEF TypeOK
<1>2. /\ jobs'[id].sched = jobs[id].sched /\ jobs'[id].oneShot = jobs[id].oneShot
      /\ IF SingleRun(jobs[id])
         THEN jobs'[id].next = jobs[id].next /\ id \in removing' /\ id \in spent'
         ELSE removing' = removing /\ spent' = spent
  BY <1>1, SucceedEffect
<1>3. CASE SingleRun(jobs[id])
  BY <1>2, <1>3 DEF Exclusive, Claimed, SingleRun
<1>4. CASE ~SingleRun(jobs[id])
  BY <1>2, <1>4 DEF Exclusive, Claimed, SingleRun
<1> QED BY <1>3, <1>4

LEMMA FailExclusive ==
    ASSUME TypeOK, NEW id \in DOMAIN jobs, Exclusive(id), Claimed(id), id \notin removing,
           NEW t \in BOOLEAN, Fail(id, t), running'[id] = 0, id \notin due', fired' = fired
    PROVE  Exclusive(id)'
<1>1. id \in JobIds
  BY JobMapElim DEF TypeOK
<1>2. /\ jobs'[id].sched = jobs[id].sched /\ jobs'[id].oneShot = jobs[id].oneShot
      /\ spent' = spent
      /\ IF jobs[id].sched = "At"
         THEN jobs'[id].next = jobs[id].next /\ id \in removing'
         ELSE removing' = removing
  BY <1>1, FailEffect
<1>3. CASE jobs[id].sched = "At"
  BY <1>2, <1>3 DEF Exclusive, Claimed, SingleRun
<1>4. CASE jobs[id].sched # "At"
  BY <1>2, <1>4 DEF Exclusive, Claimed, SingleRun
<1> QED BY <1>3, <1>4

(* Nothing holds a claim on an id the process does not know.               *)
LEMMA UnknownExclusive ==
    ASSUME NEW id, Unknown(id), UNCHANGED <<due, removing, fired, spent, running>>
    PROVE  Exclusive(id)'
BY DEF Unknown, Exclusive, Claimed

(* The jobs whose entry a step does not touch.                             *)
LEMMA ClaimRest ==
    ASSUME TypeOK, ClaimInv, NEW id, rearmed \subseteq rearmed',
           \A i \in DOMAIN jobs' \ {id} : i \in DOMAIN jobs /\ jobs'[i] = jobs[i],
           \A i \in JobIds \ {id} :
              /\ running'[i] = running[i]
              /\ i \in due' <=> i \in due
              /\ i \in removing' <=> i \in removing
              /\ i \in fired' <=> i \in fired
              /\ i \in spent' <=> i \in spent,
           id \in DOMAIN jobs' \ rearmed' => Exclusive(id)'
    PROVE  ClaimInv'
<1> SUFFICES ASSUME NEW i \in DOMAIN jobs' \ rearmed', i # id PROVE Exclusive(i)'
  BY DEF ClaimInv
<1>1. i \in DOMAIN jobs \ rearmed /\ jobs'[i] = jobs[i]
  OBVIOUS
<1>2. i \in JobIds
  BY <1>1, JobMapElim DEF TypeOK
<1>3. Exclusive(i)
  BY <1>1 DEF ClaimInv
<1> QED BY <1>1, <1>2, <1>3, ExclusiveKept

LEMMA ClaimStep == FlightInv /\ [Next]_vars => ClaimInv'
<1> SUFFICES ASSUME TypeOK, IdsInv, ClaimInv, [Next]_vars PROVE ClaimInv'
  BY DEF FlightInv
<1> DEFINE still == UNCHANGED <<due, removing, fired, spent, running>>
<1>0. jobs \in JobMap /\ \A id \in DOMAIN jobs : id \in JobIds /\ jobs[id] \in Job
  BY JobMapElim DEF TypeOK
<1>1. ASSUME UNCHANGED <<jobs, rearmed>>, still PROVE ClaimInv'
  BY <1>1, ExclusiveKept DEF ClaimInv
<1>2. ASSUME NEW c \in Callers, AddInsert(c) PROVE ClaimInv'
  <2> DEFINE id == op[c].id
  <2>1. Unknown(id)
    BY <1>2 DEF AddInsert, IdsInv
  <2>2. jobs' = With(jobs, id, op[c].job) /\ UNCHANGED rearmed /\ still
    BY <1>2 DEF AddInsert, ticking, flight, history
  <2>3. \A i \in DOMAIN jobs' \ {id} : i \in DOMAIN jobs /\ jobs'[i] = jobs[i]
    BY <2>2 DEF With
  <2> QED BY <2>1, <2>2, <2>3, UnknownExclusive, ClaimRest
<1>3. ASSUME NEW c \in Callers, NEW id \in JobIds, RemoveJob(c, id) PROVE ClaimInv'
  <2>1. jobs' = Without(jobs, id) /\ UNCHANGED rearmed /\ still
    BY <1>3 DEF RemoveJob, ticking, flight, history
  <2>2. id \notin DOMAIN jobs' /\ \A i \in DOMAIN jobs' \ {id} : i \in DOMAIN jobs /\ jobs'[i] = jobs[i]
    BY <2>1 DEF Without
  <2> QED BY <2>1, <2>2, ClaimRest
<1>4. ASSUME NEW c \in Callers, NEW id \in JobIds, NEW b \in BOOLEAN, SetEnabled(c, id, b)
      PROVE ClaimInv'
  <2>1. id \in DOMAIN jobs /\ still
    BY <1>4 DEF SetEnabled, ticking, flight
  <2>2. CASE b
    <3>1. rearmed' = rearmed \cup {id}
      BY <1>4, <2>2 DEF SetEnabled
    <3>2. \A i \in DOMAIN jobs' \ {id} : i \in DOMAIN jobs /\ jobs'[i] = jobs[i]
      BY <1>4 DEF SetEnabled
    <3> QED BY <2>1, <3>1, <3>2, ClaimRest
  <2>3. CASE ~b
    <3>1. jobs' = [jobs EXCEPT ![id] = [@ EXCEPT !.enabled = FALSE]] /\ rearmed' = rearmed
      BY <1>4, <2>3 DEF SetEnabled
    <3>2. \A i \in DOMAIN jobs' \ {id} : i \in DOMAIN jobs /\ jobs'[i] = jobs[i]
      BY <3>1
    <3>3. /\ jobs'[id].sched = jobs[id].sched /\ jobs'[id].oneShot = jobs[id].oneShot
          /\ jobs'[id].next = jobs[id].next
      BY <1>0, <2>1, <3>1 DEF Job
    <3>4. id \in DOMAIN jobs' \ rearmed' => Exclusive(id)
      BY <2>1, <3>1 DEF ClaimInv
    <3>5. id \in DOMAIN jobs' \ rearmed' => Exclusive(id)'
      BY <2>1, <3>3, <3>4, ExclusiveKept
    <3> QED BY <2>1, <3>1, <3>2, <3>5, ClaimRest
  <2> QED BY <2>2, <2>3
<1>5. ASSUME NEW c \in Callers, UpdateApply(c) PROVE ClaimInv'
  <2>1. still
    BY <1>5 DEF UpdateApply, ticking, flight
  <2>2. CASE op[c].id \in DOMAIN jobs
    <3>1. jobs' = With(jobs, op[c].id, op[c].job) /\ rearmed' = rearmed \cup {op[c].id}
      BY <1>5, <2>2 DEF UpdateApply
    <3>2. \A i \in DOMAIN jobs' \ {op[c].id} : i \in DOMAIN jobs /\ jobs'[i] = jobs[i]
      BY <3>1 DEF With
    <3> QED BY <2>1, <3>1, <3>2, ClaimRest
  <2>3. CASE op[c].id \notin DOMAIN jobs
    <3>1. UNCHANGED <<jobs, rearmed>>
      BY <1>5, <2>3 DEF UpdateApply
    <3> QED BY <1>1, <2>1, <3>1
  <2> QED BY <2>2, <2>3
<1>6. ASSUME NEW c \in Callers, NEW old \in Agents, NEW new \in Agents,
             ReassignAgent(c, old, new)
      PROVE ClaimInv'
  <2>1. /\ jobs' = [id \in DOMAIN jobs |->
                      IF jobs[id].agent = old THEN [jobs[id] EXCEPT !.agent = new] ELSE jobs[id]]
        /\ UNCHANGED rearmed /\ still
    BY <1>6 DEF ReassignAgent, ticking, flight, history
  <2>2. ASSUME NEW id \in DOMAIN jobs
        PROVE  /\ jobs'[id].sched = jobs[id].sched /\ jobs'[id].oneShot = jobs[id].oneShot
               /\ jobs'[id].next = jobs[id].next
    BY <1>0, <2>1 DEF Job
  <2>3. DOMAIN jobs' = DOMAIN jobs
    BY <2>1
  <2> QED BY <2>1, <2>2, <2>3, ExclusiveKept DEF ClaimInv
<1>7. ASSUME NEW id \in JobIds, Succeed(id) \/ \E t \in BOOLEAN : Fail(id, t)
      PROVE  /\ DOMAIN jobs' = DOMAIN jobs
             /\ \A i \in DOMAIN jobs' \ {id} : i \in DOMAIN jobs /\ jobs'[i] = jobs[i]
             /\ \A i \in JobIds \ {id} : /\ i \in removing' <=> i \in removing
                                         /\ i \in spent' <=> i \in spent
  BY <1>7, SucceedEffect, FailEffect
<1>8. ASSUME NEW c \in Callers, ManualDone(c) PROVE ClaimInv'
  <2>1. op[c].id \in JobIds
    BY <1>8 DEF TypeOK, ManualDone, RunOp
  <2>2. /\ Succeed(op[c].id) \/ \E t \in BOOLEAN : Fail(op[c].id, t)
        /\ rearmed' = rearmed \cup {op[c].id} /\ UNCHANGED <<due, fired, running>>
    BY <1>8 DEF ManualDone, ticking, flight
  <2> QED BY <1>7, <2>1, <2>2, ClaimRest
<1>9. ASSUME NEW id \in JobIds, ClaimVisit(id) PROVE ClaimInv'
  <2>1. UNCHANGED <<running, removing, rearmed, spent>>
    BY <1>9 DEF ClaimVisit, flight
  <2>2. CASE ~IsDue(id)
    BY <1>1, <1>9, <2>1, <2>2 DEF ClaimVisit
  <2>3. CASE IsDue(id)
    <3>1. /\ id \in DOMAIN jobs /\ jobs[id].next = "Due" /\ due' = due \cup {id}
          /\ jobs' = [jobs EXCEPT ![id] = Claim(@)]
          /\ fired' = IF jobs[id].sched = "At" THEN fired \cup {id} ELSE fired
      BY <1>9, <2>3 DEF ClaimVisit, IsDue
    <3>2. \A i \in DOMAIN jobs' \ {id} : i \in DOMAIN jobs /\ jobs'[i] = jobs[i]
      BY <3>1
    <3>3. /\ jobs'[id].sched = jobs[id].sched /\ jobs'[id].oneShot = jobs[id].oneShot
          /\ jobs'[id].next = "None"
      BY <1>0, <3>1 DEF Claim, Job
    <3>4. ASSUME id \in DOMAIN jobs' \ rearmed' PROVE Exclusive(id)'
      <4>1. Exclusive(id)
        BY <2>1, <3>1, <3>4 DEF ClaimInv
      <4>2. running[id] = 0 /\ id \notin removing /\ id \notin spent /\ id \notin fired
        BY <3>1, <4>1 DEF Exclusive, Claimed, TypeOK
      <4> QED BY <2>1, <3>1, <3>3, <4>2 DEF Exclusive, Claimed
    <3>5. \A i \in JobIds \ {id} : (i \in due' <=> i \in due) /\ (i \in fired' <=> i \in fired)
      BY <3>1
    <3> QED BY <2>1, <3>1, <3>2, <3>4, <3>5, ClaimRest
  <2> QED BY <2>2, <2>3
<1>10. ASSUME NEW id \in JobIds, Spawn(id) PROVE ClaimInv'
  <2>1. id \in due /\ due' = due \ {id} /\ UNCHANGED <<rearmed, fired>>
    BY <1>10 DEF Spawn
  <2>2. CASE ~stopping
    <3>1. running' = [running EXCEPT ![id] = @ + 1] /\ UNCHANGED <<jobs, removing, spent>>
      BY <1>10, <2>2 DEF Spawn, memory
    <3>2. ASSUME id \in DOMAIN jobs' \ rearmed' PROVE Exclusive(id)'
      <4>1. Exclusive(id)
        BY <2>1, <3>1, <3>2 DEF ClaimInv
      <4>2. running'[id] = 1
        BY <2>1, <3>1, <4>1 DEF Exclusive, TypeOK
      <4> QED BY <2>1, <3>1, <4>1, <4>2 DEF Exclusive, Claimed
    <3>3. \A i \in JobIds \ {id} : running'[i] = running[i]
      BY <3>1 DEF TypeOK
    <3> QED BY <2>1, <3>1, <3>2, <3>3, ClaimRest
  <2>3. CASE stopping
    <3>1. Fail(id, TRUE) /\ running' = running
      BY <1>10, <2>3 DEF Spawn
    <3>2. ASSUME id \in DOMAIN jobs' \ rearmed' PROVE Exclusive(id)'
      <4>1. id \in DOMAIN jobs
        BY <1>7, <3>1, <3>2
      <4>2. Exclusive(id)
        BY <2>1, <3>2, <4>1 DEF ClaimInv
      <4>3. Claimed(id) /\ id \notin removing /\ running'[id] = 0 /\ id \notin due'
        BY <2>1, <3>1, <4>2 DEF Exclusive, Claimed
      <4> QED BY <2>1, <3>1, <4>1, <4>2, <4>3, FailExclusive
    <3> QED BY <1>7, <2>1, <3>1, <3>2, ClaimRest
  <2> QED BY <2>2, <2>3
<1>11. ASSUME NEW id \in JobIds, ExecSucceed(id) \/ ExecFail(id) PROVE ClaimInv'
  <2>1. /\ running[id] > 0 /\ running' = [running EXCEPT ![id] = @ - 1]
        /\ UNCHANGED <<due, rearmed, fired>>
    BY <1>11 DEF ExecSucceed, ExecFail, ticking
  <2>2. Succeed(id) \/ \E t \in BOOLEAN : Fail(id, t)
    BY <1>11 DEF ExecSucceed, ExecFail
  <2>3. ASSUME id \in DOMAIN jobs' \ rearmed' PROVE Exclusive(id)'
    <3>1. id \in DOMAIN jobs
      BY <1>7, <2>2, <2>3
    <3>2. Exclusive(id)
      BY <2>1, <2>3, <3>1 DEF ClaimInv
    <3>3. Claimed(id) /\ id \notin removing /\ running'[id] = 0 /\ id \notin due'
      BY <2>1, <3>2 DEF Exclusive, Claimed, TypeOK
    <3> QED BY <2>1, <2>2, <3>1, <3>2, <3>3, SucceedExclusive, FailExclusive
  <2>4. \A i \in JobIds \ {id} : running'[i] = running[i]
    BY <2>1 DEF TypeOK
  <2> QED BY <1>7, <2>1, <2>2, <2>3, <2>4, ClaimRest
<1>12. ASSUME NEW id \in JobIds, Deliver(id) PROVE ClaimInv'
  <2>1. UNCHANGED <<due, running, fired>>
    BY <1>12 DEF Deliver, ticking
  <2>2. CASE UNCHANGED <<memory, rearmed, spent>>
    BY <1>1, <2>1, <2>2 DEF memory
  <2>3. CASE Fail(id, FALSE) /\ rearmed' = rearmed \cup {id}
    BY <1>7, <2>1, <2>3, ClaimRest
  <2> QED BY <1>12, <2>2, <2>3 DEF Deliver
<1>13. ASSUME NEW id \in JobIds, RemoveSpent(id) PROVE ClaimInv'
  <2>1. /\ jobs' = Without(jobs, id) /\ removing' = removing \ {id}
        /\ UNCHANGED <<rearmed, due, fired, spent, running>>
    BY <1>13 DEF RemoveSpent, ticking, flight, history
  <2>2. id \notin DOMAIN jobs' /\ \A i \in DOMAIN jobs' \ {id} : i \in DOMAIN jobs /\ jobs'[i] = jobs[i]
    BY <2>1 DEF Without
  <2> QED BY <2>1, <2>2, ClaimRest
<1>14. ASSUME NEW id \in JobIds, Elapse(id) PROVE ClaimInv'
  <2>1. id \in DOMAIN jobs /\ jobs[id].next = "Future" /\ UNCHANGED rearmed /\ still
    BY <1>14 DEF Elapse, ticking, flight, history
  <2>2. DOMAIN jobs' = DOMAIN jobs /\ \A i \in DOMAIN jobs' \ {id} : i \in DOMAIN jobs /\ jobs'[i] = jobs[i]
    BY <1>14 DEF Elapse
  <2>3. ASSUME id \in DOMAIN jobs' \ rearmed' PROVE Exclusive(id)'
    <3>1. Exclusive(id)
      BY <2>1, <2>3 DEF ClaimInv
    <3>2. ~Claimed(id) /\ id \notin fired /\ id \notin spent
      BY <2>1, <3>1 DEF Exclusive, Claimed
    <3> QED BY <2>1, <3>1, <3>2 DEF Exclusive, Claimed
  <2> QED BY <2>1, <2>2, <2>3, ClaimRest
<1>15. CASE Crash
  BY <1>15 DEF Crash, ClaimInv, NoJobs
<1>16. CASE Boot
  <2>1. ~up /\ DOMAIN jobs' = DOMAIN disk /\ still
    BY <1>16 DEF Boot, ticking, flight, history
  <2>2. \A id \in JobIds : Unknown(id)
    BY <2>1 DEF IdsInv
  <2>3. DOMAIN disk \subseteq JobIds
    BY JobMapElim DEF TypeOK
  <2> QED BY <2>1, <2>2, <2>3, UnknownExclusive DEF ClaimInv
<1>17. ASSUME NEW c \in Callers, NEW id \in JobIds, NEW s \in JobSpecs, AddCheck(c, id, s)
       PROVE ClaimInv'
  BY <1>1, <1>17 DEF AddCheck, memory, ticking, flight, history
<1>18. ASSUME NEW c \in Callers, NEW id \in JobIds, NEW s \in JobSpecs, NEW b \in BOOLEAN,
              UpdateCheck(c, id, s, b)
       PROVE ClaimInv'
  BY <1>1, <1>18 DEF UpdateCheck, memory, ticking, flight, history
<1>19. ASSUME NEW c \in Callers, NEW id \in JobIds, ManualRun(c, id) PROVE ClaimInv'
  BY <1>1, <1>19 DEF ManualRun, memory, ticking, flight, history
<1>20. ASSUME NEW p \in Procs, Persist(p) PROVE ClaimInv'
  BY <1>1, <1>20 DEF Persist, PersistCollect, PersistWrite, memory, ticking, flight, history
<1>21. ASSUME TickBegin \/ TickEnd \/ Shutdown \/ \E n \in Caps : SetMaxTotalJobs(n)
       PROVE ClaimInv'
  BY <1>1, <1>21 DEF TickBegin, TickEnd, Shutdown, SetMaxTotalJobs, memory, ticking, flight, history
<1>22. CASE UNCHANGED vars
  BY <1>1, <1>22 DEF vars
<1>23. ASSUME NEW c \in Callers, Edit(c) PROVE ClaimInv'
  BY <1>2, <1>3, <1>4, <1>5, <1>6, <1>8, <1>17, <1>18, <1>19, <1>23 DEF Edit
<1> QED
  BY <1>9, <1>10, <1>11, <1>12, <1>13, <1>14, <1>15, <1>16, <1>20, <1>21, <1>22, <1>23
     DEF Next, Tick, Finish

LEMMA FlightInitially == Init => FlightInv
<1> SUFFICES ASSUME Init PROVE FlightInv
  OBVIOUS
<1>1. TypeOK
  BY TypeInit
<1>2. IdsInv /\ ClaimInv
  BY DEF Init, IdsInv, ClaimInv, Unknown, NoJobs, Procs
<1> QED BY <1>1, <1>2 DEF FlightInv

LEMMA FlightInvariance == Spec => []FlightInv
<1>1. FlightInv /\ [Next]_vars => FlightInv'
  BY TypeStep, IdsStep, ClaimStep DEF FlightInv
<1> QED BY <1>1, FlightInitially, PTL DEF Spec

(* A job nobody re-armed from outside runs one execution at a time: from   *)
(* claim_due_jobs until record_success or record_failure its next_run is   *)
(* None, and no tick, API call, shutdown, crash or boot makes a second     *)
(* claim.                                                                  *)
THEOREM ClaimsExcludeOverlap == Spec => []ClaimExcludesOverlap
<1>1. FlightInv => ClaimExcludesOverlap
  BY DEF FlightInv, ClaimInv, Exclusive, ClaimExcludesOverlap
<1> QED BY <1>1, FlightInvariance, PTL

(* An At job that fired, or a one-shot job that succeeded, keeps its       *)
(* next_run None until the second access of record_success or              *)
(* record_failure removes it.                                              *)
THEOREM SingleRunsFireOnce == Spec => []SingleRunFiresOnce
<1>1. FlightInv => SingleRunFiresOnce
  BY DEF FlightInv, ClaimInv, Exclusive, Claimed, SingleRunFiresOnce
<1> QED BY <1>1, FlightInvariance, PTL

(* Which steps take a job out of the map: remove_job, the removal of a     *)
(* spent job, and the end of the process.                                  *)
LEMMA LeavingSteps ==
    ASSUME FlightInv, [Next]_vars, NEW id \in DOMAIN jobs, id \notin DOMAIN jobs'
    PROVE  \/ \E c \in Callers : RemoveJob(c, id)
           \/ RemoveSpent(id)
           \/ ~up'
<1> DEFINE keeps == DOMAIN jobs \subseteq DOMAIN jobs'
<1>0. TypeOK /\ id \in JobIds
  BY JobMapElim DEF FlightInv, TypeOK
<1>1. ASSUME NEW i \in JobIds, Succeed(i) \/ \E t \in BOOLEAN : Fail(i, t) PROVE keeps
  BY <1>0, <1>1, SucceedEffect, FailEffect
<1>2. ASSUME NEW c \in Callers, Edit(c) PROVE keeps \/ RemoveJob(c, id)
  <2>1. ASSUME NEW i \in JobIds, NEW s \in JobSpecs, AddCheck(c, i, s) PROVE keeps
    BY <2>1 DEF AddCheck, memory
  <2>2. CASE AddInsert(c)
    BY <2>2 DEF AddInsert, With
  <2>3. ASSUME NEW i \in JobIds, RemoveJob(c, i) PROVE RemoveJob(c, id)
    <3>1. i = id
      BY <2>3 DEF RemoveJob, Without
    <3> QED BY <2>3, <3>1
  <2>4. ASSUME NEW i \in JobIds, ManualRun(c, i) PROVE keeps
    BY <2>4 DEF ManualRun, memory
  <2>5. ASSUME NEW i \in JobIds, NEW b \in BOOLEAN, SetEnabled(c, i, b) PROVE keeps
    BY <2>5 DEF SetEnabled
  <2>6. ASSUME NEW i \in JobIds, NEW s \in JobSpecs, NEW b \in BOOLEAN, UpdateCheck(c, i, s, b)
        PROVE keeps
    BY <2>6 DEF UpdateCheck, memory
  <2>7. CASE UpdateApply(c)
    BY <2>7 DEF UpdateApply, With
  <2>8. ASSUME NEW old \in Agents, NEW new \in Agents, ReassignAgent(c, old, new) PROVE keeps
    BY <2>8 DEF ReassignAgent
  <2>9. CASE ManualDone(c)
    <3>1. op[c].id \in JobIds
      BY <1>0, <2>9 DEF TypeOK, ManualDone, RunOp
    <3> QED BY <1>1, <2>9, <3>1 DEF ManualDone
  <2> HIDE DEF keeps
  <2> QED BY <1>2, <2>1, <2>2, <2>3, <2>4, <2>5, <2>6, <2>7, <2>8, <2>9 DEF Edit
<1>3. ASSUME NEW i \in JobIds, ClaimVisit(i) PROVE keeps
  BY <1>3 DEF ClaimVisit
<1>4. ASSUME NEW i \in JobIds, Spawn(i) PROVE keeps
  BY <1>1, <1>4 DEF Spawn, memory
<1>5. ASSUME NEW i \in JobIds, Finish(i) \/ Deliver(i) PROVE keeps
  BY <1>1, <1>5 DEF Finish, ExecSucceed, ExecFail, Deliver, memory
<1>6. ASSUME NEW i \in JobIds, RemoveSpent(i) PROVE RemoveSpent(id)
  <2>1. i = id
    BY <1>6 DEF RemoveSpent, Without
  <2> QED BY <1>6, <2>1
<1>7. ASSUME NEW i \in JobIds, Elapse(i) PROVE keeps
  BY <1>7 DEF Elapse
<1>8. ASSUME NEW p \in Procs, Persist(p) PROVE keeps
  BY <1>8 DEF Persist, PersistCollect, PersistWrite, memory
<1>9. ASSUME TickBegin \/ TickEnd \/ Shutdown \/ \E n \in Caps : SetMaxTotalJobs(n) PROVE keeps
  BY <1>9 DEF TickBegin, TickEnd, Shutdown, SetMaxTotalJobs, memory
<1>10. CASE Crash
  BY <1>10 DEF Crash
<1>11. ~Boot
  <2>1. up
    BY <1>0 DEF FlightInv, IdsInv, Unknown
  <2> QED BY <2>1 DEF Boot
<1>12. CASE UNCHANGED vars
  BY <1>12 DEF vars
<1>13. ~keeps
  OBVIOUS
<1> HIDE DEF keeps
<1> QED
  BY <1>2, <1>3, <1>4, <1>5, <1>6, <1>7, <1>8, <1>9, <1>10, <1>11, <1>12, <1>13 DEF Next, Tick

(* The scheduler itself never drops a recurring job: record_success and    *)
(* record_failure remove single runs only, so that a recurring job leaves  *)
(* the map of a live process through remove_job alone.                     *)
THEOREM RecurringJobsDoSurvive == Spec => RecurringJobsSurvive
<1>1. ASSUME FlightInv, [Next]_vars
      PROVE  [\A id \in DOMAIN jobs \ rearmed :
                ~SingleRun(jobs[id]) /\ id \notin DOMAIN jobs' /\ up'
                   => \E c \in Callers : RemoveJob(c, id)]_vars
  <2> SUFFICES ASSUME NEW id \in DOMAIN jobs \ rearmed, ~SingleRun(jobs[id]),
                      id \notin DOMAIN jobs', up'
               PROVE  \E c \in Callers : RemoveJob(c, id)
    OBVIOUS
  <2>1. id \notin removing
    BY <1>1 DEF FlightInv, ClaimInv, Exclusive
  <2> QED BY <1>1, <2>1, LeavingSteps DEF RemoveSpent
<1> QED BY <1>1, FlightInvariance, PTL DEF Spec, RecurringJobsSurvive

=============================================================================
