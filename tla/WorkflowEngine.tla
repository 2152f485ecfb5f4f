--------------------------- MODULE WorkflowEngine ---------------------------
(***************************************************************************)
(* Workflow runs (kernel/src/workflow.rs) and the kernel's run_workflow.   *)
(* A driver is a caller of run_workflow: an API handler, a cron job, the   *)
(* MCP server.  Its future executes the steps of the run one after the     *)
(* other, awaits the agents and the lock of the run map between them, and  *)
(* can be dropped at each of these points.                                 *)
(*                                                                         *)
(* A text is abstracted to the set of keywords it contains, which is all   *)
(* that conditions look at; joining texts is the union.  Agents answer     *)
(* with any text, so prompts and template variables have no effect here.   *)
(* Whether an agent is in the registry is free at every lookup.            *)
(***************************************************************************)
EXTENDS Naturals, Sequences, FiniteSets

CONSTANTS
    Drivers,
    Workflows,      \* workflow id -> sequence of steps
    Menu,           \* driver -> the ids it runs (a cron job has one)
    Keywords,
    NoWord,         \* an empty `condition' or `until'
    MaxRetained,    \* MAX_RETAINED_RUNS
    MaxRuns         \* bound on the runs created

Modes == {"Sequential", "FanOut", "Collect", "Conditional", "Loop"}

Steps == [mode : Modes,
          error : {"Fail", "Skip", "Retry"},
          retries : Nat,                    \* max_retries
          iterations : Nat,                 \* max_iterations of a Loop
          word : Keywords \cup {NoWord}]    \* `condition' or `until'

ASSUME ConstantAssumption ==
    /\ Workflows \in [DOMAIN Workflows -> Seq(Steps)]
    /\ Menu \in [Drivers -> SUBSET DOMAIN Workflows]
    /\ NoWord \notin Keywords
    /\ IsFiniteSet(Drivers)
    /\ MaxRetained \in Nat /\ MaxRuns \in Nat

VARIABLES
    defs,       \* ids of the registered definitions
    runs,       \* the retained runs; ids are numbered by started_at
    driver,     \* the state of each driver's future
    created,    \* number of runs created
    dropped     \* history: runs whose driver was dropped from outside

vars == <<defs, runs, driver, created, dropped>>

Texts == SUBSET Keywords
Terminal == {"Completed", "Failed"}

Idle == [pc |-> "idle", run |-> 0, steps |-> <<>>, i |-> 1, cur |-> {}, outs |-> {},
         attempt |-> 0, iter |-> 0, wait |-> <<>>]

Init ==
    /\ defs = {}
    /\ runs = <<>>
    /\ driver = [c \in Drivers |-> Idle]
    /\ created = 0
    /\ dropped = {}

-----------------------------------------------------------------------------
(* register.                                                               *)
Register(w) ==
    /\ w \notin defs
    /\ defs' = defs \cup {w}
    /\ UNCHANGED <<runs, driver, created, dropped>>

(* remove_workflow.                                                        *)
RemoveWorkflow(w) ==
    /\ w \in defs
    /\ defs' = defs \ {w}
    /\ UNCHANGED <<runs, driver, created, dropped>>

OpenIn(all) == {r \in DOMAIN all : all[r].state \notin Terminal}

Evictable_All(all) == DOMAIN all

Evictable(all) == DOMAIN all \ OpenIn(all)

(* The oldest evictable runs, as many as exceed the cap.                   *)
Evicted(all) ==
    LET old == Evictable(all)
    IN {r \in old : Cardinality({q \in old : q <= r}) + MaxRetained <= Cardinality(DOMAIN all)}

(* create_run: the new run is inserted, then the oldest finished ones go.  *)
CreateRun(c, w, text) ==
    /\ driver[c].pc = "idle"
    /\ created < MaxRuns
    /\ w \in Menu[c] \cap defs
    /\ created' = created + 1
    /\ LET new == [wf |-> w, state |-> "Pending", results |-> <<>>, error |-> "none"]
           all == [r \in DOMAIN runs \cup {created'} |-> IF r = created' THEN new ELSE runs[r]]
       IN runs' = [r \in DOMAIN all \ Evicted(all) |-> all[r]]
    /\ driver' = [driver EXCEPT ![c] = [Idle EXCEPT !.pc = "created", !.run = created',
                                                    !.cur = text]]
    /\ UNCHANGED <<defs, dropped>>

-----------------------------------------------------------------------------
(* Every write to the run is `if let Some(r) = runs.get_mut(&run_id)'.     *)
Retained(c) == driver[c].run \in DOMAIN runs
RunOf(c) == runs[driver[c].run]
Update(c, run) == IF Retained(c) THEN [runs EXCEPT ![driver[c].run] = run] ELSE runs

Fail(c, why) == Update(c, [RunOf(c) EXCEPT !.state = "Failed", !.error = why])

FailIfOpen_Always(c, why) == Fail(c, why)

(* What execute_run and mark_run_failed do to a run that is not terminal.  *)
FailIfOpen(c, why) ==
    IF Retained(c) /\ RunOf(c).state \notin Terminal THEN Fail(c, why) ELSE runs

(* execute_run_inner: the run is Running, its definition is cloned.        *)
Start(c) ==
    /\ driver[c].pc = "created"
    /\ runs' = Update(c, [RunOf(c) EXCEPT !.state = "Running"])
    /\ driver' = IF Retained(c) /\ RunOf(c).wf \in defs
                 THEN [driver EXCEPT ![c].pc = "step", ![c].steps = Workflows[RunOf(c).wf]]
                 ELSE [driver EXCEPT ![c].pc = "err"]
    /\ UNCHANGED <<defs, created, dropped>>

Step(c) == driver[c].steps[driver[c].i]
AtStep(c, modes) ==
    /\ driver[c].pc = "step"
    /\ driver[c].i <= Len(driver[c].steps)
    /\ Step(c).mode \in modes

(* Every text contains the empty condition.                                *)
Unmet(c) == /\ Step(c).mode = "Conditional"
            /\ Step(c).word \notin driver[c].cur \cup {NoWord}

(* Conditional: the previous output does not contain the condition.        *)
SkipStep(c) ==
    /\ AtStep(c, {"Conditional"})
    /\ Unmet(c)
    /\ driver' = [driver EXCEPT ![c].i = @ + 1]
    /\ UNCHANGED <<defs, runs, created, dropped>>

(* Collect joins all outputs so far, not only those of the fan-out.        *)
Collect(c) ==
    /\ AtStep(c, {"Collect"})
    /\ driver' = [driver EXCEPT ![c].cur = driver[c].outs, ![c].i = @ + 1]
    /\ UNCHANGED <<defs, runs, created, dropped>>

(* agent_resolver finds no agent: `?' leaves execute_run_inner.            *)
AgentNotFound(c) ==
    /\ AtStep(c, Modes \ {"Collect"})
    /\ ~Unmet(c)
    /\ driver' = [driver EXCEPT ![c].pc = "err"]
    /\ UNCHANGED <<defs, runs, created, dropped>>

(* A FanOut step runs together with the FanOut steps right after it.       *)
Group(c) ==
    LET s == driver[c].steps
        i == driver[c].i
    IN IF s[i].mode = "FanOut" THEN {k \in i..Len(s) : \A n \in i..k : s[n].mode = "FanOut"}
                               ELSE {i}

Pending == [st |-> "pending", text |-> {}]
Waits(c) == [k \in Group(c) |-> Pending]

(* The messages of the step, or of the whole fan-out, are sent.            *)
Send(c) ==
    /\ AtStep(c, {"Sequential", "FanOut", "Conditional"})
    /\ ~Unmet(c)
    /\ driver' = [driver EXCEPT ![c].pc = "waiting", ![c].wait = Waits(c), ![c].attempt = 0]
    /\ UNCHANGED <<defs, runs, created, dropped>>

EnterLoop(c) ==
    /\ AtStep(c, {"Loop"})
    /\ driver' = [driver EXCEPT ![c].pc = "loop", ![c].iter = 0]
    /\ UNCHANGED <<defs, runs, created, dropped>>

LoopSend(c) ==
    /\ driver[c].pc = "loop"
    /\ driver[c].iter < Step(c).iterations
    /\ driver' = [driver EXCEPT ![c].pc = "waiting", ![c].wait = Waits(c), ![c].attempt = 0]
    /\ UNCHANGED <<defs, runs, created, dropped>>

(* The loop is over: its last output joins the others.                     *)
LoopOver(d) == [d EXCEPT !.pc = "step", !.i = @ + 1, !.outs = @ \cup d.cur, !.wait = <<>>]

LoopExhausted(c) ==
    /\ driver[c].pc = "loop"
    /\ driver[c].iter = Step(c).iterations
    /\ driver' = [driver EXCEPT ![c] = LoopOver(@)]
    /\ UNCHANGED <<defs, runs, created, dropped>>

(* An agent answers, fails, or exceeds timeout_secs.                       *)
Answer(c, k, text) ==
    /\ driver[c].pc = "waiting"
    /\ k \in DOMAIN driver[c].wait /\ driver[c].wait[k].st = "pending"
    /\ driver' = [driver EXCEPT ![c].wait[k] = [st |-> "ok", text |-> text]]
    /\ UNCHANGED <<defs, runs, created, dropped>>

NoAnswer(c, k) ==
    /\ driver[c].pc = "waiting"
    /\ k \in DOMAIN driver[c].wait /\ driver[c].wait[k].st = "pending"
    /\ driver' = [driver EXCEPT ![c].wait[k].st = "error"]
    /\ UNCHANGED <<defs, runs, created, dropped>>

(* join_all, or the single message, is ready; results are taken in order.  *)
Ready(c) ==
    /\ driver[c].pc = "waiting"
    /\ \A k \in DOMAIN driver[c].wait : driver[c].wait[k].st # "pending"

First(c) == CHOOSE k \in DOMAIN driver[c].wait : \A n \in DOMAIN driver[c].wait : k <= n

WithResult(c, k) == Update(c, [RunOf(c) EXCEPT !.results = Append(@, k)])

(* A result is recorded: a step is done, a loop goes on unless its `until' *)
(* is met, a fan-out is done with its last member.                         *)
Succeeds(c) ==
    /\ Ready(c)
    /\ LET k == First(c)
           text == driver[c].wait[k].text
           step == driver[c].steps[k]
           d == [driver[c] EXCEPT !.cur = text]
           rest == [n \in DOMAIN d.wait \ {k} |-> d.wait[n]]
       IN /\ d.wait[k].st = "ok"
          /\ runs' = WithResult(c, k)
          /\ driver' = [driver EXCEPT ![c] =
                IF step.mode # "Loop"
                THEN [d EXCEPT !.outs = @ \cup text, !.i = k + 1, !.wait = rest,
                               !.pc = IF rest = <<>> THEN "step" ELSE "waiting"]
                ELSE IF step.word \in text THEN LoopOver(d)
                ELSE [d EXCEPT !.pc = "loop", !.iter = @ + 1, !.wait = <<>>]]
    /\ UNCHANGED <<defs, created, dropped>>

ErrorAt(c, k) == Ready(c) /\ k = First(c) /\ driver[c].wait[k].st = "error"

(* error_mode is obeyed by execute_step_with_error_mode, which a fan-out   *)
(* does not use.                                                           *)
ErrorMode(c, k) == IF driver[c].steps[k].mode = "FanOut" THEN "Fail" ELSE driver[c].steps[k].error

MayRetry(c, k) == ErrorMode(c, k) = "Retry" /\ driver[c].attempt < driver[c].steps[k].retries

Retry(c, k) ==
    /\ ErrorAt(c, k) /\ MayRetry(c, k)
    /\ driver' = [driver EXCEPT ![c].wait[k] = Pending, ![c].attempt = @ + 1]
    /\ UNCHANGED <<defs, runs, created, dropped>>

(* Past step k, without a result; a loop has the results it got so far.    *)
Past(c, k) == IF driver[c].steps[k].mode = "Loop" THEN LoopOver(driver[c])
              ELSE [driver[c] EXCEPT !.pc = "step", !.i = k + 1, !.wait = <<>>]

SkipError_RetriesGiveUp(c, k) ==
    /\ ErrorAt(c, k) /\ ErrorMode(c, k) # "Fail"
    /\ driver' = [driver EXCEPT ![c] = Past(c, k)]
    /\ UNCHANGED <<defs, runs, created, dropped>>

(* ErrorMode::Skip goes on with the next step.                             *)
SkipError(c, k) ==
    /\ ErrorAt(c, k) /\ ErrorMode(c, k) = "Skip"
    /\ driver' = [driver EXCEPT ![c] = Past(c, k)]
    /\ UNCHANGED <<defs, runs, created, dropped>>

(* The error fails the run and leaves execute_run_inner.                   *)
StepFails(c, k) ==
    /\ ErrorAt(c, k) /\ ErrorMode(c, k) # "Skip" /\ ~MayRetry(c, k)
    /\ runs' = Fail(c, "step")
    /\ driver' = [driver EXCEPT ![c].pc = "err"]
    /\ UNCHANGED <<defs, created, dropped>>

(* All steps are done.                                                     *)
Complete(c) ==
    /\ driver[c].pc = "step"
    /\ driver[c].i > Len(driver[c].steps)
    /\ runs' = Update(c, [RunOf(c) EXCEPT !.state = "Completed"])
    /\ driver' = [driver EXCEPT ![c] = Idle]
    /\ UNCHANGED <<defs, created, dropped>>

Finalize_Missing(c) ==
    /\ driver[c].pc = "err"
    /\ driver' = [driver EXCEPT ![c] = Idle]
    /\ UNCHANGED <<defs, runs, created, dropped>>

(* execute_run: an error finalizes the run.                                *)
Finalize(c) ==
    /\ driver[c].pc = "err"
    /\ runs' = FailIfOpen(c, "early")
    /\ driver' = [driver EXCEPT ![c] = Idle]
    /\ UNCHANGED <<defs, created, dropped>>

-----------------------------------------------------------------------------
(* MAX_WORKFLOW_SECS drops the future of execute_run wherever it is ...    *)
Timeout(c) ==
    /\ driver[c].pc \notin {"idle", "timedout"}
    /\ driver' = [driver EXCEPT ![c] = [Idle EXCEPT !.pc = "timedout", !.run = driver[c].run]]
    /\ UNCHANGED <<defs, runs, created, dropped>>

(* ... and run_workflow marks the run failed.                              *)
MarkRunFailed(c) ==
    /\ driver[c].pc = "timedout"
    /\ runs' = FailIfOpen(c, "timeout")
    /\ driver' = [driver EXCEPT ![c] = Idle]
    /\ UNCHANGED <<defs, created, dropped>>

(* The caller drops run_workflow itself: the timeout of a cron job, a      *)
(* client that hangs up.                                                   *)
DropDriver(c) ==
    /\ driver[c].pc # "idle"
    /\ dropped' = dropped \cup {driver[c].run}
    /\ driver' = [driver EXCEPT ![c] = Idle]
    /\ UNCHANGED <<defs, runs, created>>

-----------------------------------------------------------------------------
Indices == UNION {DOMAIN Workflows[w] : w \in DOMAIN Workflows}

(* What the future does by itself; an agent that does not answer runs into *)
(* the step's timeout.                                                     *)
Execute(c) ==
    \/ Start(c) \/ SkipStep(c) \/ Collect(c) \/ AgentNotFound(c) \/ Send(c)
    \/ EnterLoop(c) \/ LoopSend(c) \/ LoopExhausted(c) \/ Succeeds(c)
    \/ Complete(c) \/ Finalize(c) \/ MarkRunFailed(c)
    \/ \E k \in Indices : Retry(c, k) \/ SkipError(c, k) \/ StepFails(c, k) \/ NoAnswer(c, k)
    \/ \E k \in Indices, text \in Texts : Answer(c, k, text)

Next ==
    \/ \E w \in DOMAIN Workflows : Register(w) \/ RemoveWorkflow(w)
    \/ \E c \in Drivers, w \in DOMAIN Workflows, text \in Texts : CreateRun(c, w, text)
    \/ \E c \in Drivers : Execute(c) \/ Timeout(c) \/ DropDriver(c)

Spec == Init /\ [][Next]_vars

(* A future that is not dropped is polled.                                 *)
FairSpec == Spec /\ \A c \in Drivers : WF_vars(Execute(c))

-----------------------------------------------------------------------------
(* Type invariant.                                                         *)
TypeOK ==
    /\ defs \subseteq DOMAIN Workflows
    /\ created \in 0..MaxRuns
    /\ DOMAIN runs \subseteq 1..created /\ dropped \subseteq 1..created
    /\ \A r \in DOMAIN runs :
          /\ runs[r].wf \in DOMAIN Workflows
          /\ runs[r].state \in {"Pending", "Running"} \cup Terminal
          /\ runs[r].results \in Seq(Indices)
          /\ runs[r].error \in {"none", "early", "step", "timeout"}
    /\ \A c \in Drivers :
          /\ driver[c].pc \in {"idle", "created", "step", "waiting", "loop", "err", "timedout"}
          /\ driver[c].pc # "idle" => driver[c].run \in 1..created
          /\ driver[c].cur \in Texts /\ driver[c].outs \in Texts
          /\ driver[c].pc = "waiting" => driver[c].attempt <= driver[c].steps[First(c)].retries

(* Eviction never takes a run that is still executing, and nothing else    *)
(* finishes it, so that no result or final state of a driver gets lost.    *)
(* (A run whose failure is recorded may go before its driver returns.)     *)
ExecutingRunIsKept ==
    \A c \in Drivers : driver[c].pc \in {"created", "step", "waiting", "loop"} =>
        Retained(c) /\ RunOf(c).state \notin Terminal

(* A terminal run never changes again: neither a timeout that fires while  *)
(* the failed run is being finalized, nor the finalization itself, touches *)
(* its state, its error or its results ("No-op if the run is already       *)
(* terminal", mark_run_failed).                                            *)
TerminalIsFinal ==
    [][\A r \in DOMAIN runs \cap DOMAIN runs' :
          runs[r].state \in Terminal => runs'[r] = runs[r]]_vars

(* A step that neither a condition nor its error mode may leave out.       *)
Mandatory(step) ==
    \/ step.mode = "FanOut"
    \/ step.mode = "Sequential" /\ step.error # "Skip"
    \/ step.mode = "Loop" /\ step.error # "Skip" /\ step.iterations > 0

Count(seq, k) == Cardinality({n \in DOMAIN seq : seq[n] = k})

(* The record of a run fits its definition: results are in step order, a   *)
(* step has one result and a loop at most max_iterations, and a Completed  *)
(* run left out no mandatory step.                                         *)
RecordFitsDefinition ==
    \A r \in DOMAIN runs :
        LET steps == Workflows[runs[r].wf]
            res == runs[r].results
        IN /\ \A m, n \in DOMAIN res : m < n => res[m] <= res[n]
           /\ \A k \in DOMAIN steps :
                 Count(res, k) <= IF steps[k].mode = "Loop" THEN steps[k].iterations ELSE 1
           /\ runs[r].state = "Completed" =>
                 \A k \in DOMAIN steps : Mandatory(steps[k]) => Count(res, k) > 0

Open(r) == r \in OpenIn(runs)

(* Every run whose driver is not dropped from outside reaches Completed or *)
(* Failed, on every early return and after the workflow timeout.           *)
RunEnds == \A r \in 1..MaxRuns : Open(r) ~> (~Open(r) \/ r \in dropped)

=============================================================================
