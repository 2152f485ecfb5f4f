--------------------------- MODULE CronScheduler ---------------------------
(***************************************************************************)
(* The cron scheduler of the kernel (crates/rusty-hand-kernel/src/cron.rs) *)
(* with everything that drives it: the 15-second tick loop, the spawned    *)
(* executions, the API, tool and chat handlers that edit jobs, hot reload  *)
(* of the job cap, shutdown, crash and boot (kernel.rs, routes.rs,         *)
(* channel_bridge.rs).                                                     *)
(*                                                                         *)
(* Abstractions.  Time is qualitative: `next` says whether next_run is     *)
(* None, in the Future, or Due (at or before now); Elapse moves it.        *)
(* `Every' stands for the two recurring schedules (Every and Cron), whose  *)
(* next fire time always lies in the future; an `At' schedule fires at one *)
(* instant and `passed' says whether that instant is over.  What a job     *)
(* does is the nondeterministic outcome of its execution.  The file on     *)
(* disk is replaced in one step; SnapshotFile takes that step apart.       *)
(***************************************************************************)
EXTENDS Naturals, FiniteSets

CONSTANTS
    JobIds,         \* CronJobId values (each is used for one job only)
    Agents,         \* AgentId values
    Callers,        \* concurrent API, tool and chat handlers
    Caps,           \* the values max_cron_jobs takes in the configuration
    MaxCap,         \* an upper bound of them
    MaxPerAgent,    \* MAX_JOBS_PER_AGENT
    MaxErrors,      \* MAX_CONSECUTIVE_ERRORS
    MaxRuns,        \* bound: executions of one job in flight at once
    MaxDeliveries,  \* bound: deliveries of one job's responses at once
    MaxPersists,    \* bound: persist() calls between collecting and writing
    JobSpecs,       \* [agent, sched, oneShot] a caller may ask for
    Ticker,         \* the cron tick loop, as a process that persists
    Stopper         \* the thread that runs shutdown()

ASSUME ConstantAssumption ==
    /\ MaxCap \in Nat /\ Caps \subseteq 0..MaxCap
    /\ MaxPerAgent \in Nat
    /\ MaxErrors \in Nat \ {0}
    /\ MaxRuns \in Nat \ {0}
    /\ MaxDeliveries \in Nat
    /\ MaxPersists \in Nat
    /\ JobSpecs \subseteq [agent : Agents, sched : {"Every", "At"}, oneShot : BOOLEAN]
    /\ Ticker # Stopper /\ Ticker \notin Callers /\ Stopper \notin Callers

VARIABLES
    up,         \* the process is alive
    stopping,   \* supervisor.is_shutting_down()
    jobs,       \* the DashMap: a function from the ids present to jobs
    cap,        \* max_total_jobs
    disk,       \* contents of cron_jobs.json
    pc,         \* control state of callers, tick loop and shutdown
    op,         \* the job a caller is adding, updating or running
    snap,       \* what a persist() collected and has not written yet
    scan,       \* ids claim_due_jobs has still to visit in this pass
    due,        \* ids claimed in this pass and not spawned yet
    running,    \* spawned executions in flight, per job
    delivering, \* executions recorded as success, delivering the response
    removing,   \* ids record_success or record_failure is about to remove
    used,       \* ids ever allocated
    rearmed,    \* history: ids whose claim was disturbed from outside
    fired,      \* history: At jobs claimed since boot
    spent       \* history: single-run jobs whose success was recorded since boot

memory == <<jobs, removing>>
ticking == <<scan, due>>
flight == <<running, delivering>>
history == <<rearmed, fired, spent>>
vars == <<up, stopping, jobs, cap, disk, pc, op, snap, scan, due, running,
          delivering, removing, used, rearmed, fired, spent>>

Job == [agent : Agents, sched : {"Every", "At"}, passed : BOOLEAN,
        oneShot : BOOLEAN, enabled : BOOLEAN,
        next : {"None", "Future", "Due"}, errs : 0..MaxErrors]

JobMap == UNION {[S -> Job] : S \in SUBSET JobIds}
NoJobs == [id \in {} |-> {}]
Procs == Callers \cup {Ticker, Stopper}
NoOp == [id |-> "none"]
EditOp == [id : JobIds, job : Job]
RunOp == [id : JobIds]

Without(js, id) == [i \in DOMAIN js \ {id} |-> js[i]]
With(js, id, j) == [i \in DOMAIN js \cup {id} |-> IF i = id THEN j ELSE js[i]]

-----------------------------------------------------------------------------
(* Definitions whose name ends in _Something are faulty variants of the    *)
(* definition that follows them; they are used only to show that the       *)
(* properties below notice the fault.                                      *)

(* compute_next_run: a recurring schedule always yields a time in the      *)
(* future, an At schedule its own instant even when that is over.          *)
ComputeNextRun(j) == IF j.sched = "At" /\ j.passed THEN "Due" ELSE "Future"

Rearm(j) == [j EXCEPT !.next = ComputeNextRun(j)]

(* A job as add_job inserts it: validate() refuses an At in the past.      *)
NewJob(s, enabled) ==
    [agent |-> s.agent, sched |-> s.sched, passed |-> FALSE,
     oneShot |-> s.oneShot, enabled |-> enabled, next |-> "Future", errs |-> 0]

(* The effect of record_success on the map up to its removal step; the     *)
(* removal of a single-run job is a second access of the map.              *)
SingleRun_OnlyOneShot(j) == j.oneShot

SingleRun(j) == j.oneShot \/ j.sched = "At"

RecordSuccess_NotRearmed(js, id) ==
    IF id \notin DOMAIN js THEN js ELSE [js EXCEPT ![id].errs = 0]

RecordSuccess(js, id) ==
    IF id \notin DOMAIN js THEN js
    ELSE [js EXCEPT ![id] = IF SingleRun(@) THEN [@ EXCEPT !.errs = 0]
                            ELSE Rearm([@ EXCEPT !.errs = 0])]

(* The error counter only matters against MaxErrors: it saturates there.   *)
CountError(n) == IF n < MaxErrors THEN n + 1 ELSE MaxErrors

(* The effect of record_failure, its At branch's removal excepted.         *)
RecordFailure(js, id, transient) ==
    IF id \notin DOMAIN js THEN js
    ELSE LET j == js[id]
             e == CountError(j.errs)
         IN  [js EXCEPT ![id] =
                CASE j.sched = "At" -> j
                  [] j.sched # "At" /\ transient -> Rearm(j)
                  [] j.sched # "At" /\ ~transient /\ e < MaxErrors ->
                        Rearm([j EXCEPT !.errs = e])
                  [] OTHER -> [j EXCEPT !.errs = e, !.enabled = FALSE]]

(* The ids the two recorders go on to remove.                              *)
RemovedOnSuccess(id) == IF id \in DOMAIN jobs /\ SingleRun(jobs[id]) THEN {id} ELSE {}
RemovedOnFailure_Always(id) == {id} \cap DOMAIN jobs
RemovedOnFailure(id) == IF id \in DOMAIN jobs /\ jobs[id].sched = "At" THEN {id} ELSE {}

(* load(): a claim orphaned by a crash is rescheduled.                     *)
Reconcile_AsStored(j) == j

Reconcile(j) == IF j.enabled /\ j.next = "None"
                THEN Rearm(j) ELSE j

JobsOf(a) == {id \in DOMAIN jobs : jobs[id].agent = a}

-----------------------------------------------------------------------------
Init ==
    /\ up = TRUE
    /\ stopping = FALSE
    /\ jobs = NoJobs
    /\ cap \in Caps
    /\ disk = NoJobs
    /\ pc = [p \in Procs |-> "idle"]
    /\ op = [c \in Callers |-> NoOp]
    /\ snap = [p \in Procs |-> NoJobs]
    /\ scan = {}
    /\ due = {}
    /\ running = [id \in JobIds |-> 0]
    /\ delivering = [id \in JobIds |-> 0]
    /\ removing = {}
    /\ used = {}
    /\ rearmed = {}
    /\ fired = {}
    /\ spent = {}

Goto(p, label) == pc' = [pc EXCEPT ![p] = label]

UnderCap == Cardinality(DOMAIN jobs) < cap

(* add_job, first part: the global cap, the per-agent count and the        *)
(* validation, each a separate look at the map.                            *)
AddCheck(c, id, s) ==
    /\ up /\ pc[c] = "idle"
    /\ id \notin used
    /\ UnderCap
    /\ Cardinality(JobsOf(s.agent)) < MaxPerAgent
    /\ op' = [op EXCEPT ![c] = [id |-> id, job |-> NewJob(s, TRUE)]]
    /\ used' = used \cup {id}
    /\ Goto(c, "adding")
    /\ UNCHANGED <<up, stopping, memory, cap, disk, snap, ticking, flight, history>>

(* add_job, second part: the insertion.  cron_create persists afterwards;  *)
(* the chat command /schedule add does not.                                *)
AddInsert(c) ==
    /\ up /\ pc[c] = "adding"
    /\ jobs' = With(jobs, op[c].id, op[c].job)
    /\ op' = [op EXCEPT ![c] = NoOp]
    /\ Goto(c, "dirty") \/ Goto(c, "idle")
    /\ UNCHANGED <<up, stopping, cap, disk, snap, ticking, flight, removing, used, history>>

(* remove_job, from cron_cancel and the DELETE route (which persist) or    *)
(* from the chat command /schedule del (which does not).                   *)
RemoveJob(c, id) ==
    /\ up /\ pc[c] = "idle"
    /\ id \in DOMAIN jobs
    /\ jobs' = Without(jobs, id)
    /\ Goto(c, "dirty") \/ Goto(c, "idle")
    /\ UNCHANGED <<up, stopping, cap, disk, op, snap, ticking, flight, removing, used, history>>

(* set_enabled from the toggle route.                                      *)
SetEnabled(c, id, enabled) ==
    /\ up /\ pc[c] = "idle"
    /\ id \in DOMAIN jobs
    /\ jobs' = [jobs EXCEPT ![id] =
                  IF enabled
                  THEN Rearm([@ EXCEPT !.enabled = TRUE, !.errs = 0])
                  ELSE [@ EXCEPT !.enabled = FALSE]]
    /\ rearmed' = IF enabled THEN rearmed \cup {id} ELSE rearmed
    /\ Goto(c, "dirty")
    /\ UNCHANGED <<up, stopping, cap, disk, op, snap, ticking, flight, removing, used, fired, spent>>

(* update_job, first part: presence, the count of the agent's other jobs   *)
(* and the validation.                                                     *)
UpdateCheck(c, id, s, enabled) ==
    /\ up /\ pc[c] = "idle"
    /\ id \in DOMAIN jobs
    /\ Cardinality(JobsOf(s.agent) \ {id}) < MaxPerAgent
    /\ op' = [op EXCEPT ![c] = [id |-> id, job |-> NewJob(s, enabled)]]
    /\ Goto(c, "updating")
    /\ UNCHANGED <<up, stopping, memory, cap, disk, snap, ticking, flight, used, history>>

(* update_job, second part: the entry is replaced if it is still there.    *)
UpdateApply(c) ==
    /\ up /\ pc[c] = "updating"
    /\ \/ /\ op[c].id \in DOMAIN jobs
          /\ jobs' = With(jobs, op[c].id, op[c].job)
          /\ rearmed' = rearmed \cup {op[c].id}
          /\ Goto(c, "dirty")
       \/ /\ op[c].id \notin DOMAIN jobs
          /\ Goto(c, "idle")
          /\ UNCHANGED <<jobs, rearmed>>
    /\ op' = [op EXCEPT ![c] = NoOp]
    /\ UNCHANGED <<up, stopping, cap, disk, snap, ticking, flight, removing, used, fired, spent>>

(* reassign_agent from restart_agent; the caller persists if jobs moved.   *)
ReassignAgent(c, old, new) ==
    /\ up /\ pc[c] = "idle"
    /\ old # new /\ JobsOf(old) # {}
    /\ jobs' = [id \in DOMAIN jobs |->
                  IF jobs[id].agent = old THEN [jobs[id] EXCEPT !.agent = new] ELSE jobs[id]]
    /\ Goto(c, "dirty")
    /\ UNCHANGED <<up, stopping, cap, disk, op, snap, ticking, flight, removing, used, history>>

(* set_max_total_jobs on hot reload.                                       *)
SetMaxTotalJobs(n) ==
    /\ up /\ n # cap
    /\ cap' = n
    /\ UNCHANGED <<up, stopping, memory, disk, pc, op, snap, ticking, flight, used, history>>

-----------------------------------------------------------------------------
(* The outcomes of execute_cron_job, as they reach the map: success,       *)
(* transient failure (timeout, provider down, workflow failed), permanent  *)
(* failure (agent gone, panic).                                            *)
Succeed(id) ==
    /\ jobs' = RecordSuccess(jobs, id)
    /\ removing' = removing \cup RemovedOnSuccess(id)
    /\ spent' = spent \cup RemovedOnSuccess(id)

Fail(id, transient) ==
    /\ jobs' = RecordFailure(jobs, id, transient)
    /\ removing' = removing \cup RemovedOnFailure(id)
    /\ spent' = spent

(* POST /api/cron/jobs/{id}/run: reads the job without claiming it, ...    *)
ManualRun(c, id) ==
    /\ up /\ pc[c] = "idle"
    /\ id \in DOMAIN jobs
    /\ op' = [op EXCEPT ![c] = [id |-> id]]
    /\ Goto(c, "running")
    /\ UNCHANGED <<up, stopping, memory, cap, disk, snap, ticking, flight, used, history>>

(* ... executes it, records the outcome, and persists.                     *)
ManualDone(c) ==
    /\ up /\ pc[c] = "running"
    /\ Succeed(op[c].id) \/ \E transient \in BOOLEAN : Fail(op[c].id, transient)
    /\ rearmed' = rearmed \cup {op[c].id}
    /\ op' = [op EXCEPT ![c] = NoOp]
    /\ Goto(c, "dirty")
    /\ UNCHANGED <<up, stopping, cap, disk, snap, ticking, flight, used, fired>>

(* The tick loop wakes up; once shutdown has begun it persists and ends.   *)
TickBegin ==
    /\ up /\ pc[Ticker] = "idle"
    /\ \/ stopping /\ Goto(Ticker, "dirty") /\ scan' = scan
       \/ ~stopping /\ Goto(Ticker, "scanning") /\ scan' = DOMAIN jobs
    /\ UNCHANGED <<up, stopping, memory, cap, disk, op, snap, due, flight, used, history>>

Claim_NextRunKept(j) == j

(* The claim: next_run is cleared, so that later passes skip the job.      *)
Claim(j) == [j EXCEPT !.next = "None"]

IsDue(id) == id \in DOMAIN jobs /\ jobs[id].enabled /\ jobs[id].next = "Due"

(* claim_due_jobs visits one entry of the map, under that entry's lock.    *)
ClaimVisit(id) ==
    /\ up /\ pc[Ticker] = "scanning"
    /\ id \in scan
    /\ scan' = scan \ {id}
    /\ \/ /\ IsDue(id)
          /\ jobs' = [jobs EXCEPT ![id] = Claim(@)]
          /\ due' = due \cup {id}
          /\ fired' = IF jobs[id].sched = "At" THEN fired \cup {id} ELSE fired
       \/ ~IsDue(id) /\ UNCHANGED <<jobs, due, fired>>
    /\ UNCHANGED <<up, stopping, cap, disk, pc, op, snap, flight, removing, used, rearmed, spent>>

(* The body of the tick loop for one claimed job: spawn its execution, or  *)
(* record a transient failure when shutdown began in between.              *)
Spawn(id) ==
    /\ up /\ pc[Ticker] = "scanning" /\ scan = {}
    /\ id \in due
    /\ due' = due \ {id}
    /\ \/ /\ ~stopping /\ running[id] < MaxRuns
          /\ running' = [running EXCEPT ![id] = @ + 1]
          /\ UNCHANGED <<memory, spent>>
       \/ stopping /\ Fail(id, TRUE) /\ running' = running
    /\ UNCHANGED <<up, stopping, cap, disk, pc, op, snap, scan, delivering, used, rearmed, fired>>

(* The end of a pass; every twentieth one persists.                        *)
TickEnd ==
    /\ up /\ pc[Ticker] = "scanning" /\ scan = {} /\ due = {}
    /\ Goto(Ticker, "idle") \/ Goto(Ticker, "dirty")
    /\ UNCHANGED <<up, stopping, memory, cap, disk, op, snap, ticking, flight, used, history>>

(* A spawned execution ends and its outcome is recorded.  After a          *)
(* successful agent turn the task goes on to deliver the response.         *)
ExecSucceed(id) ==
    /\ up /\ running[id] > 0
    /\ Succeed(id)
    /\ running' = [running EXCEPT ![id] = @ - 1]
    /\ \/ delivering' = delivering
       \/ delivering[id] < MaxDeliveries /\ delivering' = [delivering EXCEPT ![id] = @ + 1]
    /\ UNCHANGED <<up, stopping, cap, disk, pc, op, snap, ticking, used, rearmed, fired>>

ExecFail(id) ==
    /\ up /\ running[id] > 0
    /\ \E transient \in BOOLEAN : Fail(id, transient)
    /\ running' = [running EXCEPT ![id] = @ - 1]
    /\ UNCHANGED <<up, stopping, cap, disk, pc, op, snap, ticking, delivering, used, rearmed, fired>>

(* cron_deliver_response returns, or panics: catch_unwind then records a   *)
(* permanent failure for the execution already recorded as a success.      *)
Deliver(id) ==
    /\ up /\ delivering[id] > 0
    /\ delivering' = [delivering EXCEPT ![id] = @ - 1]
    /\ \/ UNCHANGED <<memory, rearmed, spent>>
       \/ Fail(id, FALSE) /\ rearmed' = rearmed \cup {id}
    /\ UNCHANGED <<up, stopping, cap, disk, pc, op, snap, ticking, running, used, fired>>

(* The second access of record_success and record_failure: the removal.    *)
RemoveSpent(id) ==
    /\ up /\ id \in removing
    /\ jobs' = Without(jobs, id)
    /\ removing' = removing \ {id}
    /\ UNCHANGED <<up, stopping, cap, disk, pc, op, snap, ticking, flight, used, history>>

-----------------------------------------------------------------------------
(* persist(): collect the map, then replace the file.                      *)
PersistCollect(p) ==
    /\ up /\ pc[p] = "dirty"
    /\ Cardinality({q \in Procs : pc[q] = "writing"}) < MaxPersists
    /\ snap' = [snap EXCEPT ![p] = jobs]
    /\ Goto(p, "writing")
    /\ UNCHANGED <<up, stopping, memory, cap, disk, op, ticking, flight, used, history>>

PersistWrite(p) ==
    /\ up /\ pc[p] = "writing"
    /\ disk' = snap[p]
    /\ snap' = [snap EXCEPT ![p] = NoJobs]
    /\ Goto(p, IF p = Stopper \/ (p = Ticker /\ stopping) THEN "done" ELSE "idle")
    /\ UNCHANGED <<up, stopping, memory, cap, op, ticking, flight, used, history>>

(* shutdown(): raise the flag, then persist; background tasks are aborted  *)
(* at their next await, which for the tick loop is its sleep.              *)
Shutdown ==
    /\ up /\ ~stopping
    /\ stopping' = TRUE
    /\ Goto(Stopper, "dirty")
    /\ UNCHANGED <<up, memory, cap, disk, op, snap, ticking, flight, used, history>>

(* The process ends, by a crash at any point or after shutdown().          *)
Crash ==
    /\ up
    /\ up' = FALSE
    /\ stopping' = FALSE
    /\ jobs' = NoJobs /\ removing' = {}
    /\ pc' = [p \in Procs |-> "idle"]
    /\ op' = [c \in Callers |-> NoOp]
    /\ snap' = [p \in Procs |-> NoJobs]
    /\ scan' = {} /\ due' = {}
    /\ running' = [id \in JobIds |-> 0]
    /\ delivering' = [id \in JobIds |-> 0]
    /\ rearmed' = {} /\ fired' = {} /\ spent' = {}
    /\ UNCHANGED <<cap, disk, used>>

(* Boot: CronScheduler::new and load().                                    *)
Boot ==
    /\ ~up
    /\ up' = TRUE
    /\ jobs' = [id \in DOMAIN disk |-> Reconcile(disk[id])]
    /\ cap' \in Caps
    /\ UNCHANGED <<stopping, disk, pc, op, snap, ticking, flight, removing, used, history>>

(* Time passes a job's next_run, and the instant of an At schedule.        *)
Elapse(id) ==
    /\ up /\ id \in DOMAIN jobs
    /\ jobs[id].next = "Future"
    /\ jobs' = [jobs EXCEPT ![id].next = "Due", ![id].passed = (jobs[id].sched = "At")]
    /\ UNCHANGED <<up, stopping, cap, disk, pc, op, snap, ticking, flight, removing, used, history>>

-----------------------------------------------------------------------------
Edit(c) ==
    \/ \E id \in JobIds, s \in JobSpecs : AddCheck(c, id, s)
    \/ AddInsert(c)
    \/ \E id \in JobIds : RemoveJob(c, id) \/ ManualRun(c, id)
    \/ \E id \in JobIds, b \in BOOLEAN : SetEnabled(c, id, b)
    \/ \E id \in JobIds, s \in JobSpecs, b \in BOOLEAN : UpdateCheck(c, id, s, b)
    \/ UpdateApply(c)
    \/ \E old, new \in Agents : ReassignAgent(c, old, new)
    \/ ManualDone(c)

Tick == TickBegin \/ TickEnd \/ \E id \in JobIds : ClaimVisit(id) \/ Spawn(id)

Finish(id) == ExecSucceed(id) \/ ExecFail(id)

Persist(p) == PersistCollect(p) \/ PersistWrite(p)

Next ==
    \/ \E c \in Callers : Edit(c)
    \/ Tick
    \/ \E id \in JobIds : Finish(id) \/ Deliver(id) \/ RemoveSpent(id) \/ Elapse(id)
    \/ \E p \in Procs : Persist(p)
    \/ \E n \in Caps : SetMaxTotalJobs(n)
    \/ Shutdown \/ Crash \/ Boot

(* The tick loop is polled by a 15 s interval, an execution ends by its    *)
(* timeout at the latest, and time passes.                                 *)
Fairness ==
    /\ WF_vars(Tick)
    /\ WF_vars(Persist(Ticker))
    /\ \A id \in JobIds : /\ WF_vars(Finish(id))
                          /\ WF_vars(RemoveSpent(id))
                          /\ WF_vars(Elapse(id))

Spec == Init /\ [][Next]_vars

FairSpec == Spec /\ Fairness

-----------------------------------------------------------------------------
(* Type invariant.                                                         *)
TypeOK ==
    /\ up \in BOOLEAN
    /\ stopping \in BOOLEAN
    /\ jobs \in JobMap
    /\ cap \in Caps
    /\ disk \in JobMap
    /\ pc \in [Procs -> {"idle", "adding", "updating", "running", "dirty", "writing",
                         "scanning", "done"}]
    /\ op \in [Callers -> EditOp \cup RunOp \cup {NoOp}]
    /\ \A c \in Callers : /\ pc[c] \in {"adding", "updating"} => op[c] \in EditOp
                          /\ pc[c] = "running" => op[c] \in RunOp
    /\ snap \in [Procs -> JobMap]
    /\ scan \in SUBSET JobIds
    /\ due \in SUBSET JobIds
    /\ running \in [JobIds -> Nat]
    /\ delivering \in [JobIds -> Nat]
    /\ removing \in SUBSET JobIds
    /\ used \in SUBSET JobIds
    /\ rearmed \in SUBSET JobIds
    /\ fired \in SUBSET JobIds
    /\ spent \in SUBSET JobIds

(* A claim on job id is held by the tick loop, by an execution, or by a    *)
(* recorder that is about to remove the job.                               *)
Claimed(id) == id \in due \/ running[id] > 0 \/ id \in removing

(* No job is lost in the claimed state.  claim_due_jobs never returns a    *)
(* job whose next_run is None, so an enabled job without a next_run must   *)
(* have somebody who will record its outcome: whatever edits, failures,    *)
(* shutdowns, crashes and reloads happened, stuck jobs do not exist.       *)
NoStuckJob ==
    \A id \in DOMAIN jobs :
        jobs[id].enabled /\ jobs[id].next = "None" => Claimed(id)

(* A job on its way into the map carries a next_run (needed for the        *)
(* induction: AddInsert and UpdateApply put it there).                     *)
PendingArmed ==
    \A c \in Callers : pc[c] \in {"adding", "updating"} => op[c].job.next # "None"

(* A job nobody re-armed from outside runs one execution at a time: the    *)
(* claim (next_run = None) keeps later ticks away until it is recorded.    *)
ClaimExcludesOverlap ==
    \A id \in DOMAIN jobs \ rearmed :
        /\ running[id] <= 1
        /\ id \in due => running[id] = 0
        /\ Claimed(id) => jobs[id].next = "None"

(* An At job that fired, and a one-shot job that succeeded, is never       *)
(* claimed again in this process (record_success and record_failure take   *)
(* it away, in two accesses to the map), unless an operator re-armed it.   *)
SingleRunFiresOnce ==
    \A id \in DOMAIN jobs \ rearmed : id \in fired \cup spent => jobs[id].next = "None"

(* The scheduler itself never drops a recurring job: while the process     *)
(* runs, a job that is neither At nor one-shot and that nobody changed     *)
(* from outside leaves the map only through remove_job.                    *)
RecurringJobsSurvive ==
    [][\A id \in DOMAIN jobs \ rearmed :
          ~SingleRun(jobs[id]) /\ id \notin DOMAIN jobs' /\ up'
             => \E c \in Callers : RemoveJob(c, id)]_vars

(* An enabled job that is left alone is claimed again and again: it always *)
(* reaches its next claim, unless the process stops, or an operator        *)
(* removes, disables or re-arms it.                                        *)
ArmedJobIsClaimed ==
    \A id \in JobIds :
        (up /\ id \in DOMAIN jobs \ rearmed /\ jobs[id].enabled)
        ~> \/ ~up \/ stopping
           \/ id \notin DOMAIN jobs \/ id \in rearmed
           \/ ~jobs[id].enabled \/ id \in due

=============================================================================
