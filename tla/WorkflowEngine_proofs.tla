----------------------- MODULE WorkflowEngine_proofs -----------------------
(***************************************************************************)
(* Proofs about WorkflowEngine, for all drivers, workflows and bounds: a   *)
(* run that executes is neither evicted nor finished by anybody else, a    *)
(* terminal run never changes again, and the results of a run fit the      *)
(* definition it executes.                                                 *)
(*                                                                         *)
(* The argument rests on ownership: no two futures drive the same run,     *)
(* because ids are never reused, and every write of a driver goes to its   *)
(* own run.                                                                *)
(*                                                                         *)
(* The last part is about the file the engine persists to, SnapshotFile:   *)
(* with unique temporary names every open descriptor is linked under its   *)
(* writer's own name only, and the lock leaves one writer at work.         *)
(***************************************************************************)
EXTENDS WorkflowEngine, SnapshotFile, FiniteSetTheorems, TLAPS

Executing == {"created", "step", "waiting", "loop"}

(* The parts of the data that the argument looks at.                       *)
Shape ==
    /\ created \in Nat
    /\ DOMAIN runs \subseteq 1..created
    /\ runs = [r \in DOMAIN runs |-> runs[r]]
    /\ \A r \in DOMAIN runs : "state" \in DOMAIN runs[r]
    /\ driver = [c \in Drivers |-> driver[c]]
    /\ \A c \in Drivers : {"pc", "run"} \subseteq DOMAIN driver[c]

(* A run belongs to one driver at most.                                    *)
Owned ==
    /\ \A c \in Drivers : driver[c].pc # "idle" => driver[c].run \in 1..created
    /\ \A c, e \in Drivers :
          c # e /\ driver[c].pc # "idle" /\ driver[e].pc # "idle" => driver[c].run # driver[e].run

Inv == Shape /\ Owned /\ ExecutingRunIsKept

(* What a step of driver c may do to the drivers: the others stay, c keeps *)
(* its run or becomes idle, and only an executing driver goes on executing.*)
DriverMoves(c) ==
    /\ driver' = [e \in Drivers |-> driver'[e]]
    /\ \A e \in Drivers : {"pc", "run"} \subseteq DOMAIN driver'[e]
    /\ \A e \in Drivers \ {c} : driver'[e] = driver[e]
    /\ driver[c].pc # "idle"
    /\ driver'[c].pc # "idle" => driver'[c].run = driver[c].run
    /\ driver'[c].pc \in Executing => driver[c].pc \in Executing

(* What it may do to the runs: nothing but a change of its own run, which  *)
(* was open, and stays open if the driver goes on executing.               *)
RunWritten(c) ==
    \/ runs' = runs
    \/ /\ driver[c].run \in DOMAIN runs
       /\ runs[driver[c].run].state \notin Terminal
       /\ DOMAIN runs' = DOMAIN runs
       /\ runs' = [r \in DOMAIN runs |-> runs'[r]]
       /\ \A r \in DOMAIN runs \ {driver[c].run} : runs'[r] = runs[r]
       /\ "state" \in DOMAIN runs'[driver[c].run]
       /\ driver'[c].pc \in Executing => runs'[driver[c].run].state \notin Terminal

(* Eviction in create_run takes finished runs only.                        *)
LEMMA EvictsFinishedOnly ==
    ASSUME NEW all, NEW r \in DOMAIN all, all[r].state \notin Terminal
    PROVE  r \notin Evicted(all)
BY DEF Evicted, Evictable, OpenIn

(* Such a step preserves the invariant.                                    *)
LEMMA MovesPreserve ==
    ASSUME Inv, NEW c \in Drivers, DriverMoves(c), RunWritten(c), created' = created
    PROVE  Inv'
<1>1. DOMAIN runs' = DOMAIN runs
    BY DEF RunWritten
<1>2. \A r \in DOMAIN runs : r # driver[c].run => runs'[r] = runs[r]
    BY DEF RunWritten
<1>3. Shape'
    <2>1. \A r \in DOMAIN runs : "state" \in DOMAIN runs'[r]
        BY <1>2 DEF RunWritten, Inv, Shape
    <2>2. runs' = [r \in DOMAIN runs' |-> runs'[r]]
        BY DEF RunWritten, Inv, Shape
    <2> QED
        BY <1>1, <2>1, <2>2 DEF Inv, Shape, DriverMoves
<1>4. Owned'
    BY DEF Inv, Owned, DriverMoves
<1>5. ASSUME NEW e \in Drivers, driver'[e].pc \in Executing
      PROVE  driver'[e].run \in DOMAIN runs' /\ runs'[driver'[e].run].state \notin Terminal
    <2>1. CASE e = c
        <3>1. driver[c].pc \in Executing /\ driver'[c].run = driver[c].run
            BY <1>5, <2>1 DEF DriverMoves, Executing
        <3>2. driver[c].run \in DOMAIN runs /\ runs[driver[c].run].state \notin Terminal
            BY <3>1 DEF Inv, ExecutingRunIsKept, Executing, Retained, RunOf
        <3> QED
            BY <1>1, <1>5, <2>1, <3>1, <3>2 DEF RunWritten
    <2>2. CASE e # c
        <3>1. driver'[e] = driver[e]
            BY <2>2 DEF DriverMoves
        <3>2. driver[e].run \in DOMAIN runs /\ runs[driver[e].run].state \notin Terminal
            BY <1>5, <3>1 DEF Inv, ExecutingRunIsKept, Executing, Retained, RunOf
        <3>3. driver[e].run # driver[c].run
            BY <1>5, <2>2, <3>1 DEF Inv, Owned, DriverMoves, Executing
        <3> QED
            BY <1>1, <1>2, <3>1, <3>2, <3>3
    <2> QED
        BY <2>1, <2>2
<1>6. ExecutingRunIsKept'
    BY <1>5 DEF ExecutingRunIsKept, Executing, Retained, RunOf
<1> QED
    BY <1>3, <1>4, <1>6 DEF Inv

(* Every write of an executing driver, and every finalization, satisfies   *)
(* the above.                                                              *)
LEMMA UpdateWrites ==
    ASSUME Inv, NEW c \in Drivers, driver[c].pc \in Executing, NEW run,
           "state" \in DOMAIN run, runs' = Update(c, run),
           driver'[c].pc \in Executing => run.state \notin Terminal
    PROVE  RunWritten(c)
<1>1. driver[c].run \in DOMAIN runs /\ runs[driver[c].run].state \notin Terminal
    BY DEF Inv, ExecutingRunIsKept, Executing, Retained, RunOf
<1>2. runs' = [runs EXCEPT ![driver[c].run] = run]
    BY <1>1 DEF Update, Retained
<1>3. /\ DOMAIN runs' = DOMAIN runs
      /\ runs' = [r \in DOMAIN runs |-> runs'[r]]
      /\ \A r \in DOMAIN runs \ {driver[c].run} : runs'[r] = runs[r]
      /\ runs'[driver[c].run] = run
    BY <1>1, <1>2
<1> QED
    BY <1>1, <1>3 DEF RunWritten

LEMMA FinalizationWrites ==
    ASSUME Inv, NEW c \in Drivers, driver[c].pc # "idle", NEW why,
           runs' = FailIfOpen(c, why), driver'[c].pc = "idle"
    PROVE  RunWritten(c)
<1>1. CASE ~(Retained(c) /\ RunOf(c).state \notin Terminal)
    BY <1>1 DEF FailIfOpen, RunWritten
<1>2. CASE Retained(c) /\ RunOf(c).state \notin Terminal
    <2>1. runs' = [runs EXCEPT ![driver[c].run] =
                     [RunOf(c) EXCEPT !.state = "Failed", !.error = why]]
        BY <1>2 DEF FailIfOpen, Fail, Update
    <2>2. "state" \in DOMAIN [RunOf(c) EXCEPT !.state = "Failed", !.error = why]
        BY <1>2 DEF Inv, Shape, RunOf, Retained
    <2> QED
        BY <1>2, <2>1, <2>2 DEF RunWritten, Retained, RunOf, Executing
<1> QED
    BY <1>1, <1>2

(* The steps of a driver's future.                                         *)
LEMMA ExecuteMoves ==
    ASSUME Inv, NEW c \in Drivers, Execute(c)
    PROVE  DriverMoves(c) /\ RunWritten(c) /\ created' = created
<1> USE DEF Inv, Shape
<1>a. {"pc", "run"} \subseteq DOMAIN Idle /\ Idle.pc = "idle"
    BY DEF Idle
<1>b. driver[c].pc \in Executing => "state" \in DOMAIN RunOf(c) /\ RunOf(c).state \notin Terminal
    BY DEF ExecutingRunIsKept, Executing, Retained, RunOf
<1>1. CASE Start(c)
    <2>1. DriverMoves(c)
        BY <1>1 DEF Start, DriverMoves, Executing
    <2>2. DEFINE run == [RunOf(c) EXCEPT !.state = "Running"]
    <2>3. "state" \in DOMAIN run /\ run.state = "Running"
        BY <1>1, <1>b DEF Start, Executing
    <2>4. runs' = Update(c, run) /\ driver[c].pc \in Executing /\ created' = created
        BY <1>1 DEF Start, Executing
    <2> HIDE DEF run
    <2> QED
        BY <2>1, <2>3, <2>4, UpdateWrites DEF Terminal
<1>2. CASE SkipStep(c) \/ Collect(c) \/ AgentNotFound(c) \/ Send(c)
    BY <1>2 DEF SkipStep, Collect, AgentNotFound, Send, AtStep, DriverMoves, RunWritten, Executing
<1>3. CASE EnterLoop(c) \/ LoopSend(c) \/ LoopExhausted(c)
    <2>1. CASE EnterLoop(c) \/ LoopSend(c)
        BY <2>1 DEF EnterLoop, LoopSend, AtStep, DriverMoves, RunWritten, Executing
    <2>2. CASE LoopExhausted(c)
        BY <2>2 DEF LoopExhausted, LoopOver, DriverMoves, RunWritten, Executing
    <2> QED
        BY <1>3, <2>1, <2>2
<1>4. CASE Succeeds(c)
    <2>a. /\ driver[c].pc \in Executing
          /\ "pc" \in DOMAIN driver[c] /\ "run" \in DOMAIN driver[c]
          /\ \E d : /\ driver' = [driver EXCEPT ![c] = d]
                   /\ DOMAIN d = DOMAIN driver[c]
                   /\ d.run = driver[c].run
                   /\ d.pc \in {"step", "waiting", "loop"}
        <3>1. driver[c].pc \in Executing
            BY <1>4 DEF Succeeds, Ready, Executing
        <3> DEFINE k == First(c)
                   text == driver[c].wait[k].text
                   d == [driver[c] EXCEPT !.cur = text]
                   rest == [n \in DOMAIN d.wait \ {k} |-> d.wait[n]]
                   next == [d EXCEPT !.outs = @ \cup text, !.i = k + 1, !.wait = rest,
                                     !.pc = IF rest = <<>> THEN "step" ELSE "waiting"]
                   again == [d EXCEPT !.pc = "loop", !.iter = @ + 1, !.wait = <<>>]
        <3>2. \/ driver' = [driver EXCEPT ![c] = next]
              \/ driver' = [driver EXCEPT ![c] = LoopOver(d)]
              \/ driver' = [driver EXCEPT ![c] = again]
            BY <1>4, Zenon DEF Succeeds
        <3>3. /\ "pc" \in DOMAIN d /\ "run" \in DOMAIN d
              /\ d.run = driver[c].run /\ DOMAIN d = DOMAIN driver[c]
            OBVIOUS
        <3> HIDE DEF d, rest
        <3>4. DOMAIN next = DOMAIN d /\ next.run = d.run /\ next.pc \in {"step", "waiting"}
            BY <3>3
        <3>5. DOMAIN again = DOMAIN d /\ again.run = d.run /\ again.pc = "loop"
            BY <3>3
        <3>6. /\ DOMAIN LoopOver(d) = DOMAIN d /\ LoopOver(d).run = d.run
              /\ LoopOver(d).pc = "step"
            BY <3>3 DEF LoopOver
        <3> HIDE DEF next, again
        <3> QED
            BY <3>1, <3>2, <3>3, <3>4, <3>5, <3>6
    <2>1. DriverMoves(c)
        BY <2>a DEF DriverMoves, Executing
    <2>2. DEFINE run == [RunOf(c) EXCEPT !.results = Append(@, First(c))]
    <2>3. "state" \in DOMAIN run /\ run.state = RunOf(c).state
        BY <1>4, <1>b DEF Succeeds, Ready, Executing
    <2>4. runs' = Update(c, run) /\ driver[c].pc \in Executing /\ created' = created
        BY <1>4 DEF Succeeds, Ready, WithResult, Executing
    <2> HIDE DEF run
    <2> QED
        BY <1>b, <2>1, <2>3, <2>4, UpdateWrites
<1>5. CASE Complete(c)
    <2>1. DriverMoves(c) /\ driver'[c].pc = "idle"
        BY <1>5, <1>a DEF Complete, DriverMoves, Executing
    <2>2. DEFINE run == [RunOf(c) EXCEPT !.state = "Completed"]
    <2>3. "state" \in DOMAIN run
        BY <1>5, <1>b DEF Complete, Executing
    <2>4. runs' = Update(c, run) /\ driver[c].pc \in Executing /\ created' = created
        BY <1>5 DEF Complete, Executing
    <2> HIDE DEF run
    <2> QED
        BY <2>1, <2>3, <2>4, UpdateWrites DEF Executing
<1>6. CASE Finalize(c)
    <2>1. DriverMoves(c) /\ driver'[c].pc = "idle" /\ driver[c].pc # "idle"
        BY <1>6, <1>a DEF Finalize, DriverMoves, Executing
    <2> QED
        BY <1>6, <2>1, FinalizationWrites DEF Finalize
<1>7. CASE MarkRunFailed(c)
    <2>1. DriverMoves(c) /\ driver'[c].pc = "idle" /\ driver[c].pc # "idle"
        BY <1>7, <1>a DEF MarkRunFailed, DriverMoves, Executing
    <2> QED
        BY <1>7, <2>1, FinalizationWrites DEF MarkRunFailed
<1>8. ASSUME NEW k \in Indices, Retry(c, k) \/ SkipError(c, k) \/ NoAnswer(c, k)
      PROVE  DriverMoves(c) /\ RunWritten(c) /\ created' = created
    <2>1. CASE Retry(c, k) \/ NoAnswer(c, k)
        BY <2>1 DEF Retry, NoAnswer, ErrorAt, Ready, DriverMoves, RunWritten, Executing
    <2>2. CASE SkipError(c, k)
        <3>1. /\ "pc" \in DOMAIN Past(c, k) /\ "run" \in DOMAIN Past(c, k)
              /\ Past(c, k).run = driver[c].run
            BY DEF Past, LoopOver
        <3>2. /\ driver' = [driver EXCEPT ![c] = Past(c, k)]
              /\ runs' = runs /\ created' = created /\ driver[c].pc = "waiting"
            BY <2>2 DEF SkipError, ErrorAt, Ready
        <3> QED
            BY <3>1, <3>2 DEF DriverMoves, RunWritten, Executing
    <2> QED
        BY <1>8, <2>1, <2>2
<1>9. ASSUME NEW k \in Indices, StepFails(c, k)
      PROVE  DriverMoves(c) /\ RunWritten(c) /\ created' = created
    <2>1. DriverMoves(c) /\ driver'[c].pc \notin Executing
        BY <1>9 DEF StepFails, ErrorAt, Ready, DriverMoves, Executing
    <2>2. DEFINE run == [RunOf(c) EXCEPT !.state = "Failed", !.error = "step"]
    <2>3. "state" \in DOMAIN run
        BY <1>9, <1>b DEF StepFails, ErrorAt, Ready, Executing
    <2>4. runs' = Update(c, run) /\ driver[c].pc \in Executing /\ created' = created
        BY <1>9 DEF StepFails, ErrorAt, Ready, Fail, Executing
    <2> HIDE DEF run
    <2> QED
        BY <2>1, <2>3, <2>4, UpdateWrites
<1>10. ASSUME NEW k \in Indices, NEW text \in Texts, Answer(c, k, text)
       PROVE  DriverMoves(c) /\ RunWritten(c) /\ created' = created
    BY <1>10 DEF Answer, DriverMoves, RunWritten, Executing
<1> QED
    BY <1>1, <1>2, <1>3, <1>4, <1>5, <1>6, <1>7, <1>8, <1>9, <1>10 DEF Execute

(* What ends it from outside.                                              *)
LEMMA InterruptMoves ==
    ASSUME Inv, NEW c \in Drivers, Timeout(c) \/ DropDriver(c)
    PROVE  DriverMoves(c) /\ RunWritten(c) /\ created' = created
<1>a. {"pc", "run"} \subseteq DOMAIN Idle /\ Idle.pc = "idle"
    BY DEF Idle
<1>1. CASE Timeout(c)
    <2>1. DEFINE d == [Idle EXCEPT !.pc = "timedout", !.run = driver[c].run]
    <2>2. {"pc", "run"} \subseteq DOMAIN d /\ d.pc = "timedout" /\ d.run = driver[c].run
        BY <1>a
    <2>3. driver' = [driver EXCEPT ![c] = d] /\ driver[c].pc # "idle"
        BY <1>1 DEF Timeout
    <2>4. runs' = runs /\ created' = created
        BY <1>1 DEF Timeout
    <2> HIDE DEF d
    <2> QED
        BY <2>2, <2>3, <2>4 DEF Inv, Shape, DriverMoves, RunWritten, Executing
<1>2. CASE DropDriver(c)
    BY <1>a, <1>2 DEF Inv, Shape, DropDriver, DriverMoves, RunWritten, Executing
<1> QED
    BY <1>1, <1>2

(* create_run gives the new run to its driver alone.                       *)
LEMMA CreatePreserves ==
    ASSUME Inv, NEW c \in Drivers, NEW w, NEW text, CreateRun(c, w, text)
    PROVE  /\ Inv'
           /\ \A r \in DOMAIN runs \cap DOMAIN runs' : runs'[r] = runs[r]
<1> DEFINE new == [wf |-> w, state |-> "Pending", results |-> <<>>, error |-> "none"]
           all == [r \in DOMAIN runs \cup {created'} |-> IF r = created' THEN new ELSE runs[r]]
           d == [Idle EXCEPT !.pc = "created", !.run = created', !.cur = text]
<1>1. /\ created \in Nat /\ created' = created + 1
      /\ driver[c].pc = "idle"
      /\ runs' = [r \in DOMAIN all \ Evicted(all) |-> all[r]]
      /\ driver' = [driver EXCEPT ![c] = d]
    BY DEF CreateRun, Inv, Shape
<1>2. DOMAIN all = DOMAIN runs \cup {created'} /\ created' \notin DOMAIN runs
    BY <1>1 DEF Inv, Shape
<1>3. /\ all[created'] = new
      /\ \A r \in DOMAIN runs : all[r] = runs[r]
    BY <1>2
<1>4. {"pc", "run"} \subseteq DOMAIN d /\ d.pc = "created" /\ d.run = created'
    BY DEF Idle
<1>5. "state" \in DOMAIN new /\ new.state \notin Terminal
    BY DEF Terminal
<1> HIDE DEF new, all, d
<1>6. /\ driver' = [e \in Drivers |-> driver'[e]]
      /\ driver'[c] = d
      /\ \A e \in Drivers \ {c} : driver'[e] = driver[e]
    BY <1>1 DEF Inv, Shape
<1>7. /\ runs' = [r \in DOMAIN runs' |-> runs'[r]]
      /\ DOMAIN runs' \subseteq DOMAIN all
      /\ \A r \in DOMAIN runs' : runs'[r] = all[r]
    BY <1>1
<1>8. \A r \in DOMAIN all : all[r].state \notin Terminal => r \in DOMAIN runs'
    BY <1>1, EvictsFinishedOnly
<1>9. Shape'
    <2>1. DOMAIN runs' \subseteq 1..created'
        BY <1>1, <1>2, <1>7 DEF Inv, Shape
    <2>2. \A r \in DOMAIN runs' : "state" \in DOMAIN runs'[r]
        BY <1>2, <1>3, <1>5, <1>7 DEF Inv, Shape
    <2>3. \A e \in Drivers : {"pc", "run"} \subseteq DOMAIN driver'[e]
        BY <1>4, <1>6 DEF Inv, Shape
    <2> QED
        BY <1>1, <1>6, <1>7, <2>1, <2>2, <2>3 DEF Shape
<1>10. Owned'
    <2>1. \A e \in Drivers \ {c} : driver[e].pc # "idle" => driver[e].run # created'
        BY <1>1 DEF Inv, Owned
    <2>2. 1..created \subseteq 1..created' /\ created' \in 1..created'
        BY <1>1
    <2> QED
        BY <1>4, <1>6, <2>1, <2>2 DEF Inv, Owned
<1>11. ASSUME NEW e \in Drivers, driver'[e].pc \in Executing
       PROVE  driver'[e].run \in DOMAIN runs' /\ runs'[driver'[e].run].state \notin Terminal
    <2>1. CASE e = c
        BY <1>2, <1>3, <1>4, <1>5, <1>6, <1>7, <1>8, <2>1
    <2>2. CASE e # c
        <3>1. driver'[e] = driver[e]
            BY <1>6, <2>2
        <3>2. driver[e].run \in DOMAIN runs /\ runs[driver[e].run].state \notin Terminal
            BY <1>11, <3>1 DEF Inv, ExecutingRunIsKept, Executing, Retained, RunOf
        <3> QED
            BY <1>2, <1>3, <1>7, <1>8, <3>1, <3>2
    <2> QED
        BY <2>1, <2>2
<1>12. ExecutingRunIsKept'
    BY <1>11 DEF ExecutingRunIsKept, Executing, Retained, RunOf
<1> QED
    BY <1>3, <1>7, <1>9, <1>10, <1>12 DEF Inv

-----------------------------------------------------------------------------
LEMMA InvInit == Init => Inv
BY DEF Init, Inv, Shape, Owned, ExecutingRunIsKept, Idle, Retained, RunOf

LEMMA InvNext == Inv /\ [Next]_vars => Inv'
<1> SUFFICES ASSUME Inv, [Next]_vars PROVE Inv'
    OBVIOUS
<1>1. ASSUME NEW w \in DOMAIN Workflows, Register(w) \/ RemoveWorkflow(w) PROVE Inv'
    BY <1>1 DEF Register, RemoveWorkflow, Inv, Shape, Owned, ExecutingRunIsKept, Retained, RunOf
<1>2. ASSUME NEW c \in Drivers, NEW w \in DOMAIN Workflows, NEW text \in Texts,
             CreateRun(c, w, text)
      PROVE  Inv'
    BY <1>2, CreatePreserves
<1>3. ASSUME NEW c \in Drivers, Execute(c) \/ Timeout(c) \/ DropDriver(c) PROVE Inv'
    BY <1>3, ExecuteMoves, InterruptMoves, MovesPreserve
<1>4. CASE UNCHANGED vars
    BY <1>4 DEF vars, Inv, Shape, Owned, ExecutingRunIsKept, Retained, RunOf
<1> QED
    BY <1>1, <1>2, <1>3, <1>4 DEF Next

LEMMA Invariance == Spec => []Inv
BY InvInit, InvNext, PTL DEF Spec

(* A run that executes is never evicted from the run map, and nobody but   *)
(* its own driver finishes it.                                             *)
THEOREM ExecutingRunsAreKept == Spec => []ExecutingRunIsKept
<1>1. Inv => ExecutingRunIsKept
    BY DEF Inv
<1> QED
    BY <1>1, Invariance, PTL

(* A run that is Completed or Failed never changes again.                  *)
THEOREM TerminalRunsAreFinal == Spec => TerminalIsFinal
<1>1. Inv /\ [Next]_vars =>
        [\A r \in DOMAIN runs \cap DOMAIN runs' :
            runs[r].state \in Terminal => runs'[r] = runs[r]]_vars
    <2> SUFFICES ASSUME Inv, Next
                 PROVE  \A r \in DOMAIN runs \cap DOMAIN runs' :
                            runs[r].state \in Terminal => runs'[r] = runs[r]
        OBVIOUS
    <2>1. ASSUME NEW w \in DOMAIN Workflows, Register(w) \/ RemoveWorkflow(w)
          PROVE  runs' = runs
        BY <2>1 DEF Register, RemoveWorkflow
    <2>2. ASSUME NEW c \in Drivers, NEW w \in DOMAIN Workflows, NEW text \in Texts,
                 CreateRun(c, w, text)
          PROVE  \A r \in DOMAIN runs \cap DOMAIN runs' : runs'[r] = runs[r]
        BY <2>2, CreatePreserves
    <2>3. ASSUME NEW c \in Drivers, Execute(c) \/ Timeout(c) \/ DropDriver(c)
          PROVE  \A r \in DOMAIN runs : runs[r].state \in Terminal => runs'[r] = runs[r]
        BY <2>3, ExecuteMoves, InterruptMoves DEF RunWritten
    <2> QED
        BY <2>1, <2>2, <2>3 DEF Next
<1> QED
    BY <1>1, Invariance, PTL DEF Spec, TerminalIsFinal

-----------------------------------------------------------------------------
(* The record of a run fits its definition.                                *)

Limit(step) == IF step.mode = "Loop" THEN step.iterations ELSE 1

Ordered(res) == \A m, n \in DOMAIN res : m < n => res[m] <= res[n]
Below(res, i) == \A n \in DOMAIN res : res[n] < i
InLimits(steps, res) == \A k \in DOMAIN steps : Count(res, k) <= Limit(steps[k])
Covered(steps, res, i) ==
    \A k \in DOMAIN steps : k < i /\ Mandatory(steps[k]) => Count(res, k) > 0

RunRecords == [wf : DOMAIN Workflows, state : {"Pending", "Running"} \cup Terminal,
               results : Seq(Nat), error : {"none", "early", "step", "timeout"}]

Waitings == UNION {[S -> [st : {"pending", "ok", "error"}, text : Texts]] : S \in SUBSET Nat}

DriverRecords ==
    [pc : Executing \cup {"idle", "err", "timedout"}, run : Nat, steps : Seq(Steps), i : Nat,
     cur : Texts, outs : Texts, attempt : Nat, iter : Nat, wait : Waitings]

(* What a run in the map satisfies, whoever drives it.                     *)
Fits(run) ==
    LET steps == Workflows[run.wf]
    IN /\ Ordered(run.results)
       /\ InLimits(steps, run.results)
       /\ run.state = "Completed" => Covered(steps, run.results, Len(steps) + 1)

(* The step a driver waits at: a fan-out is taken member by member, in     *)
(* order, and a loop has as many results as it made iterations.            *)
AtLoop(d, res) ==
    /\ d.steps[d.i].mode = "Loop"
    /\ Below(res, d.i + 1)
    /\ Count(res, d.i) = d.iter

AtWait(d, res) ==
    /\ d.i \in DOMAIN d.wait /\ DOMAIN d.wait \subseteq DOMAIN d.steps
    /\ \A k \in DOMAIN d.wait : d.i <= k /\ \A n \in d.i..k : n \in DOMAIN d.wait
    /\ \A k \in DOMAIN d.wait : k # d.i =>
          d.steps[k].mode = "FanOut" /\ d.steps[d.i].mode = "FanOut"
    /\ IF d.steps[d.i].mode = "Loop"
       THEN AtLoop(d, res) /\ d.iter < d.steps[d.i].iterations
       ELSE Below(res, d.i)

(* How far a driver got with its run.                                      *)
Progress(d, run) ==
    /\ d.pc = "created" => run.results = <<>> /\ d.i = 1
    /\ d.pc \in {"step", "waiting", "loop"} =>
          /\ d.steps = Workflows[run.wf]
          /\ d.i \in 1..(Len(d.steps) + 1)
          /\ Covered(d.steps, run.results, d.i)
    /\ d.pc = "step" => Below(run.results, d.i)
    /\ d.pc = "loop" => /\ d.i \in DOMAIN d.steps
                        /\ AtLoop(d, run.results)
                        /\ d.iter <= d.steps[d.i].iterations
    /\ d.pc = "waiting" => AtWait(d, run.results)

RecordInv ==
    /\ \A r \in DOMAIN runs : runs[r] \in RunRecords /\ Fits(runs[r])
    /\ driver \in [Drivers -> DriverRecords]
    /\ \A c \in Drivers : driver[c].pc \in Executing => Progress(driver[c], RunOf(c))

(* Counting results.                                                       *)
LEMMA CountType ==
    ASSUME NEW res \in Seq(Nat), NEW k
    PROVE  /\ Count(res, k) \in Nat
           /\ (\A n \in DOMAIN res : res[n] # k) => Count(res, k) = 0
<1> DEFINE S == {n \in DOMAIN res : res[n] = k}
<1>1. IsFiniteSet(1..Len(res))
    BY FS_Interval
<1>2. S \subseteq 1..Len(res)
    OBVIOUS
<1>3. IsFiniteSet(S)
    BY <1>1, <1>2, FS_Subset
<1>4. Cardinality(S) \in Nat
    BY <1>3, FS_CardinalityType
<1>5. S = {} => Cardinality(S) = 0
    BY FS_EmptySet
<1> QED
    BY <1>4, <1>5 DEF Count

LEMMA CountAppend ==
    ASSUME NEW res \in Seq(Nat), NEW k \in Nat
    PROVE  /\ Append(res, k) \in Seq(Nat)
           /\ Count(Append(res, k), k) = Count(res, k) + 1
           /\ \A j : j # k => Count(Append(res, k), j) = Count(res, j)
<1> DEFINE more == Append(res, k)
           S(j) == {n \in DOMAIN res : res[n] = j}
<1>1. /\ more \in Seq(Nat) /\ DOMAIN more = DOMAIN res \cup {Len(res) + 1}
      /\ Len(res) + 1 \notin DOMAIN res /\ more[Len(res) + 1] = k
      /\ \A n \in DOMAIN res : more[n] = res[n]
    OBVIOUS
<1>2. {n \in DOMAIN more : more[n] = k} = S(k) \cup {Len(res) + 1}
    BY <1>1
<1>3. IsFiniteSet(S(k))
    <2>1. IsFiniteSet(1..Len(res))
        BY FS_Interval
    <2>2. S(k) \subseteq 1..Len(res)
        OBVIOUS
    <2> QED BY <2>1, <2>2, FS_Subset
<1>4. Len(res) + 1 \notin S(k)
    BY <1>1
<1> HIDE DEF more, S
<1>5. Cardinality(S(k) \cup {Len(res) + 1}) = Cardinality(S(k)) + 1
    BY <1>3, <1>4, FS_AddElement
<1>6. Count(more, k) = Count(res, k) + 1
    BY <1>2, <1>5 DEF Count, S
<1>7. ASSUME NEW j, j # k PROVE Count(more, j) = Count(res, j)
    <2>1. {n \in DOMAIN more : more[n] = j} = {n \in DOMAIN res : res[n] = j}
        BY <1>1, <1>7
    <2> QED BY <2>1 DEF Count
<1> QED
    BY <1>1, <1>6, <1>7 DEF more

LEMMA WaitingsElim ==
    ASSUME NEW w \in Waitings
    PROVE  /\ DOMAIN w \subseteq Nat
           /\ w = [k \in DOMAIN w |-> w[k]]
           /\ \A k \in DOMAIN w : w[k] \in [st : {"pending", "ok", "error"}, text : Texts]
BY DEF Waitings

LEMMA WaitingsIntro ==
    ASSUME NEW S \in SUBSET Nat, NEW w \in [S -> [st : {"pending", "ok", "error"}, text : Texts]]
    PROVE  w \in Waitings
BY DEF Waitings

LEMMA NoWaiting == <<>> \in Waitings
<1>1. <<>> \in [{} -> [st : {"pending", "ok", "error"}, text : Texts]]
    OBVIOUS
<1> QED BY <1>1, WaitingsIntro

LEMMA IdleRecord == Idle \in DriverRecords
<1>1. {} \in Texts /\ <<>> \in Seq(Steps)
    BY DEF Texts
<1> QED BY <1>1, NoWaiting DEF Idle, DriverRecords

LEMMA DefinitionType ==
    ASSUME NEW w \in DOMAIN Workflows
    PROVE  Workflows[w] \in Seq(Steps)
BY ConstantAssumption

(* A run takes one more result, at the step its driver has reached.        *)
LEMMA FitsAppend ==
    ASSUME NEW run \in RunRecords, Fits(run), run.state \notin Terminal,
           NEW k \in DOMAIN Workflows[run.wf], Below(run.results, k + 1),
           Count(run.results, k) < Limit(Workflows[run.wf][k])
    PROVE  LET x == [run EXCEPT !.results = Append(@, k)]
           IN /\ x \in RunRecords /\ Fits(x) /\ x.wf = run.wf /\ x.state = run.state
              /\ x.results = Append(run.results, k)
<1> DEFINE steps == Workflows[run.wf]
           res == run.results
           x == [run EXCEPT !.results = Append(@, k)]
           more == Append(res, k)
<1>1. res \in Seq(Nat) /\ steps \in Seq(Steps) /\ k \in Nat
    BY DefinitionType DEF RunRecords
<1>2. more \in Seq(Nat)
    BY <1>1, CountAppend
<1>3. x \in RunRecords /\ x.wf = run.wf /\ x.state = run.state /\ x.results = more
    BY <1>2 DEF RunRecords
<1>4. Ordered(more)
    <2>1. /\ DOMAIN more = DOMAIN res \cup {Len(res) + 1} /\ more[Len(res) + 1] = k
          /\ \A n \in DOMAIN res : n \in Nat /\ n < Len(res) + 1 /\ more[n] = res[n] /\ res[n] \in Nat
        <3>1. Len(res) \in Nat /\ DOMAIN res = 1..Len(res) /\ \A n \in DOMAIN res : res[n] \in Nat
            BY <1>1
        <3>2. /\ DOMAIN more = 1..(Len(res) + 1) /\ more[Len(res) + 1] = k
              /\ \A n \in 1..Len(res) : more[n] = res[n]
            BY <1>1
        <3> QED BY <3>1, <3>2
    <2>2. \A n \in DOMAIN res : res[n] < k + 1
        BY DEF Below
    <2>3. \A m, n \in DOMAIN res : m < n => res[m] <= res[n]
        BY DEF Fits, Ordered
    <2> SUFFICES ASSUME NEW m \in DOMAIN more, NEW n \in DOMAIN more, m < n
                 PROVE  more[m] <= more[n]
        BY DEF Ordered
    <2>4. m \in DOMAIN res
        BY <1>1, <2>1
    <2>5. CASE n \in DOMAIN res
        BY <2>1, <2>3, <2>4, <2>5
    <2>6. CASE n = Len(res) + 1
        BY <1>1, <2>1, <2>2, <2>4, <2>6
    <2> QED BY <2>1, <2>5, <2>6
<1>5. InLimits(steps, more)
    <2> SUFFICES ASSUME NEW j \in DOMAIN steps PROVE Count(more, j) <= Limit(steps[j])
        BY DEF InLimits
    <2>0. Limit(steps[j]) \in Nat /\ Count(res, j) \in Nat
        <3>1. steps[j] \in Steps
            BY <1>1
        <3>2. Limit(steps[j]) \in Nat
            BY <3>1 DEF Limit, Steps
        <3> QED BY <1>1, <3>2, CountType
    <2>1. CASE j = k
        BY <1>1, <2>0, <2>1, CountAppend
    <2>2. CASE j # k
        BY <1>1, <2>2, CountAppend DEF Fits, InLimits
    <2> QED BY <2>1, <2>2
<1> HIDE DEF x
<1>6. Fits(x)
    BY <1>3, <1>4, <1>5 DEF Fits, Terminal
<1> QED BY <1>3, <1>6 DEF x

(* A state change of a run that does not complete it.                      *)
LEMMA FitsState ==
    ASSUME NEW run \in RunRecords, Fits(run), NEW x \in RunRecords,
           x.wf = run.wf, x.results = run.results, x.state # "Completed"
    PROVE  Fits(x)
BY DEF Fits

-----------------------------------------------------------------------------
(* A step of driver c, which moves to d and may write its run.             *)
LEMMA DriverFrame ==
    ASSUME Inv, RecordInv, NEW c \in Drivers, driver[c].pc # "idle", NEW d \in DriverRecords,
           driver' = [driver EXCEPT ![c] = d], runs' = runs,
           d.pc \in Executing => d.run = driver[c].run /\ Progress(d, RunOf(c))
    PROVE  RecordInv'
<1>1. driver'[c] = d /\ \A e \in Drivers \ {c} : driver'[e] = driver[e]
    BY DEF RecordInv
<1>2. driver' \in [Drivers -> DriverRecords]
    BY DEF RecordInv
<1>3. ASSUME NEW e \in Drivers, driver'[e].pc \in Executing
      PROVE  Progress(driver'[e], runs'[driver'[e].run])
    <2>1. CASE e = c
        BY <1>1, <1>3, <2>1 DEF RunOf
    <2>2. CASE e # c
        BY <1>1, <1>3, <2>2 DEF RecordInv, RunOf
    <2> QED BY <2>1, <2>2
<1> QED BY <1>2, <1>3 DEF RecordInv, RunOf

LEMMA WriteFrame ==
    ASSUME Inv, RecordInv, NEW c \in Drivers, driver[c].pc # "idle", NEW d \in DriverRecords,
           driver' = [driver EXCEPT ![c] = d], Retained(c), NEW x \in RunRecords, Fits(x),
           runs' = [runs EXCEPT ![driver[c].run] = x],
           d.pc \in Executing => d.run = driver[c].run /\ Progress(d, x)
    PROVE  RecordInv'
<1>1. driver'[c] = d /\ \A e \in Drivers \ {c} : driver'[e] = driver[e]
    BY DEF RecordInv
<1>2. driver' \in [Drivers -> DriverRecords]
    BY DEF RecordInv
<1>3. /\ DOMAIN runs' = DOMAIN runs /\ runs'[driver[c].run] = x
      /\ \A r \in DOMAIN runs : r # driver[c].run => runs'[r] = runs[r]
    BY DEF Retained
<1>4. \A r \in DOMAIN runs' : runs'[r] \in RunRecords /\ Fits(runs'[r])
    BY <1>3 DEF RecordInv
<1>5. ASSUME NEW e \in Drivers, driver'[e].pc \in Executing
      PROVE  Progress(driver'[e], runs'[driver'[e].run])
    <2>1. CASE e = c
        BY <1>1, <1>3, <1>5, <2>1
    <2>2. CASE e # c
        <3>1. driver[e].pc \in Executing /\ driver'[e] = driver[e]
            BY <1>1, <1>5, <2>2
        <3>2. driver[e].run # driver[c].run
            BY <2>2, <3>1 DEF Inv, Owned, Executing
        <3>3. driver[e].run \in DOMAIN runs
            BY <3>1 DEF Inv, ExecutingRunIsKept, Executing, Retained
        <3>4. runs'[driver[e].run] = RunOf(e)
            BY <1>3, <3>2, <3>3 DEF RunOf
        <3> QED BY <3>1, <3>4 DEF RecordInv
    <2> QED BY <2>1, <2>2
<1> QED BY <1>2, <1>4, <1>5 DEF RecordInv, RunOf

(* What is known of an executing driver and of its run.                    *)
LEMMA ExecutingFacts ==
    ASSUME Inv, RecordInv, NEW c \in Drivers, driver[c].pc \in Executing
    PROVE  /\ driver \in [Drivers -> DriverRecords] /\ driver[c] \in DriverRecords
           /\ Retained(c) /\ RunOf(c) \in RunRecords /\ Fits(RunOf(c))
           /\ RunOf(c).state \notin Terminal /\ RunOf(c).results \in Seq(Nat)
           /\ RunOf(c).wf \in DOMAIN Workflows
           /\ Progress(driver[c], RunOf(c))
           /\ driver[c].pc \in {"step", "waiting", "loop"} =>
                 driver[c].steps = Workflows[RunOf(c).wf] /\ driver[c].steps \in Seq(Steps)
<1>1. Retained(c) /\ RunOf(c).state \notin Terminal
    BY DEF Inv, ExecutingRunIsKept, Executing
<1>2. driver \in [Drivers -> DriverRecords] /\ Progress(driver[c], RunOf(c))
    BY DEF RecordInv
<1>3. RunOf(c) \in RunRecords /\ Fits(RunOf(c))
    BY <1>1 DEF RecordInv, Retained, RunOf
<1>4. RunOf(c).wf \in DOMAIN Workflows /\ RunOf(c).results \in Seq(Nat)
    BY <1>3 DEF RunRecords
<1>5. driver[c].pc \in {"step", "waiting", "loop"} => driver[c].steps = Workflows[RunOf(c).wf]
    BY <1>2 DEF Progress
<1> QED BY <1>1, <1>2, <1>3, <1>4, <1>5, DefinitionType

LEMMA StartRecord ==
    ASSUME Inv, RecordInv, NEW c \in Drivers, Start(c)
    PROVE  RecordInv'
<1> DEFINE old == driver[c]
           x == [RunOf(c) EXCEPT !.state = "Running"]
           go == [old EXCEPT !.pc = "step", !.steps = Workflows[RunOf(c).wf]]
           no == [old EXCEPT !.pc = "err"]
<1>1. old.pc = "created" /\ old.pc \in Executing
    BY DEF Start, Executing
<1>2. /\ driver \in [Drivers -> DriverRecords] /\ old \in DriverRecords
      /\ Retained(c) /\ RunOf(c) \in RunRecords /\ Fits(RunOf(c))
      /\ RunOf(c).wf \in DOMAIN Workflows
      /\ Progress(old, RunOf(c))
    BY <1>1, ExecutingFacts
<1>3. x \in RunRecords /\ x.wf = RunOf(c).wf /\ x.results = RunOf(c).results /\ x.state = "Running"
    BY <1>2 DEF RunRecords
<1>4. runs' = [runs EXCEPT ![old.run] = x]
    BY <1>2 DEF Start, Update
<1> HIDE DEF x
<1>5. Fits(x)
    BY <1>2, <1>3, FitsState
<1>6. Workflows[RunOf(c).wf] \in Seq(Steps)
    BY <1>2, DefinitionType
<1>7. /\ go \in DriverRecords /\ go.pc = "step" /\ go.run = old.run /\ go.i = old.i
      /\ go.steps = Workflows[RunOf(c).wf]
    BY <1>2, <1>6 DEF DriverRecords, Executing
<1>8. no \in DriverRecords /\ no.pc = "err"
    BY <1>2 DEF DriverRecords
<1>9. driver' = [driver EXCEPT ![c] = go] \/ driver' = [driver EXCEPT ![c] = no]
    <2>1. CASE Retained(c) /\ RunOf(c).wf \in defs
        BY <1>2, <2>1 DEF Start, DriverRecords
    <2>2. CASE ~(Retained(c) /\ RunOf(c).wf \in defs)
        BY <1>2, <2>2 DEF Start, DriverRecords
    <2> QED BY <2>1, <2>2
<1> HIDE DEF go, no
<1>10. old.i = 1 /\ RunOf(c).results = <<>>
    BY <1>1, <1>2 DEF Progress
<1>11. Progress(go, x)
    <2>1. Below(x.results, 1) /\ Covered(go.steps, x.results, 1)
        BY <1>3, <1>6, <1>7, <1>10 DEF Below, Covered
    <2>2. 1 \in 1..(Len(go.steps) + 1)
        BY <1>6, <1>7
    <2> QED BY <1>3, <1>7, <1>10, <2>1, <2>2 DEF Progress
<1> QED
    BY <1>1, <1>2, <1>3, <1>4, <1>5, <1>7, <1>8, <1>9, <1>11, WriteFrame DEF Executing

(* Past a step that needs no result.                                       *)
LEMMA Advance ==
    ASSUME NEW steps \in Seq(Steps), NEW res \in Seq(Nat), NEW i \in DOMAIN steps,
           Covered(steps, res, i), Mandatory(steps[i]) => Count(res, i) > 0
    PROVE  Covered(steps, res, i + 1) /\ i + 1 \in 1..(Len(steps) + 1)
BY DEF Covered

LEMMA BelowNext ==
    ASSUME NEW res \in Seq(Nat), NEW i \in Nat, Below(res, i)
    PROVE  Below(res, i + 1)
BY DEF Below

(* SkipStep and Collect go on with the next step.                          *)
LEMMA PassRecord ==
    ASSUME Inv, RecordInv, NEW c \in Drivers, SkipStep(c) \/ Collect(c)
    PROVE  RecordInv'
<1> DEFINE old == driver[c]
           res == RunOf(c).results
<1>1. /\ old.pc = "step" /\ old.pc \in Executing /\ old.i <= Len(old.steps)
      /\ runs' = runs
      /\ old.steps[old.i].mode \in {"Conditional", "Collect"}
    BY DEF SkipStep, Collect, AtStep, Executing, Step
<1>2. /\ driver \in [Drivers -> DriverRecords] /\ old \in DriverRecords
      /\ res \in Seq(Nat) /\ old.steps \in Seq(Steps) /\ Progress(old, RunOf(c))
    BY <1>1, ExecutingFacts
<1>3. /\ old.steps = Workflows[RunOf(c).wf] /\ old.i \in 1..(Len(old.steps) + 1)
      /\ Covered(old.steps, res, old.i) /\ Below(res, old.i)
    BY <1>1, <1>2 DEF Progress
<1>4. old.i \in DOMAIN old.steps
    BY <1>1, <1>2, <1>3
<1>5. ~Mandatory(old.steps[old.i])
    BY <1>1 DEF Mandatory
<1>6. Covered(old.steps, res, old.i + 1) /\ old.i + 1 \in 1..(Len(old.steps) + 1)
    BY <1>2, <1>3, <1>4, <1>5, Advance
<1>7. Below(res, old.i + 1)
    BY <1>2, <1>3, <1>4, BelowNext
<1>8. ASSUME NEW d \in DriverRecords, d.pc = "step", d.run = old.run, d.steps = old.steps,
             d.i = old.i + 1, driver' = [driver EXCEPT ![c] = d]
      PROVE  RecordInv'
    <2>1. Progress(d, RunOf(c))
        BY <1>3, <1>6, <1>7, <1>8 DEF Progress
    <2> QED BY <1>1, <1>8, <2>1, DriverFrame
<1>11. old \in DriverRecords
    BY <1>2
<1>12. old.i + 1 \in Nat
    BY <1>6
<1>9. CASE SkipStep(c)
    <2> DEFINE d == [old EXCEPT !.i = @ + 1]
    <2>1. driver' = [driver EXCEPT ![c] = d]
        BY <1>2, <1>9 DEF SkipStep, DriverRecords
    <2>2. d \in DriverRecords /\ d.pc = "step" /\ d.run = old.run /\ d.steps = old.steps
          /\ d.i = old.i + 1
        BY <1>1, <1>11, <1>12 DEF DriverRecords
    <2> HIDE DEF d
    <2> QED BY <1>8, <2>1, <2>2
<1>10. CASE Collect(c)
    <2> DEFINE d == [old EXCEPT !.cur = old.outs, !.i = @ + 1]
    <2>1. driver' = [driver EXCEPT ![c] = d]
        BY <1>2, <1>10 DEF Collect, DriverRecords
    <2>2. d \in DriverRecords /\ d.pc = "step" /\ d.run = old.run /\ d.steps = old.steps
          /\ d.i = old.i + 1
        BY <1>1, <1>11, <1>12 DEF DriverRecords
    <2> HIDE DEF d
    <2> QED BY <1>8, <2>1, <2>2
<1> QED BY <1>9, <1>10

(* The agents' messages are in flight: nothing is recorded yet.            *)
LEMMA WaitsType ==
    ASSUME NEW c \in Drivers, driver[c].steps \in Seq(Steps), driver[c].i \in DOMAIN driver[c].steps
    PROVE  /\ Waits(c) \in Waitings /\ DOMAIN Waits(c) = Group(c)
           /\ driver[c].i \in Group(c) /\ Group(c) \subseteq DOMAIN driver[c].steps
           /\ \A k \in Group(c) : driver[c].i <= k /\ \A n \in driver[c].i..k : n \in Group(c)
           /\ \A k \in Group(c) : k # driver[c].i =>
                 driver[c].steps[k].mode = "FanOut" /\ driver[c].steps[driver[c].i].mode = "FanOut"
<1> DEFINE s == driver[c].steps
           i == driver[c].i
<1>1. i \in Nat /\ i \in 1..Len(s) /\ Len(s) \in Nat
    OBVIOUS
<1> HIDE DEF s, i
<1>2. Group(c) = IF s[i].mode = "FanOut"
                 THEN {k \in i..Len(s) : \A n \in i..k : s[n].mode = "FanOut"} ELSE {i}
    BY DEF Group, s, i
<1>3. /\ i \in Group(c) /\ Group(c) \subseteq 1..Len(s)
      /\ \A k \in Group(c) : i <= k /\ \A n \in i..k : n \in Group(c)
      /\ \A k \in Group(c) : k # i => s[k].mode = "FanOut" /\ s[i].mode = "FanOut"
    <2>1. CASE s[i].mode = "FanOut"
        BY <1>1, <1>2, <2>1
    <2>2. CASE s[i].mode # "FanOut"
        BY <1>1, <1>2, <2>2
    <2> QED BY <2>1, <2>2
<1>4. Pending \in [st : {"pending", "ok", "error"}, text : Texts]
    BY DEF Pending, Texts
<1>5. Waits(c) \in [Group(c) -> [st : {"pending", "ok", "error"}, text : Texts]]
    BY <1>4 DEF Waits
<1>6. Group(c) \in SUBSET Nat
    BY <1>1, <1>3
<1>7. Waits(c) \in Waitings
    BY <1>5, <1>6, WaitingsIntro
<1>8. DOMAIN Waits(c) = Group(c) /\ DOMAIN s = 1..Len(s)
    BY DEF Waits, s
<1> QED BY <1>3, <1>7, <1>8 DEF s, i

LEMMA SendRecord ==
    ASSUME Inv, RecordInv, NEW c \in Drivers, Send(c) \/ LoopSend(c)
    PROVE  RecordInv'
<1> DEFINE old == driver[c]
           res == RunOf(c).results
           d == [old EXCEPT !.pc = "waiting", !.wait = Waits(c), !.attempt = 0]
<1>1. old.pc \in {"step", "loop"} /\ old.pc \in Executing /\ runs' = runs
    BY DEF Send, LoopSend, AtStep, Executing
<1>2. /\ driver \in [Drivers -> DriverRecords] /\ old \in DriverRecords
      /\ res \in Seq(Nat) /\ old.steps \in Seq(Steps) /\ Progress(old, RunOf(c))
    BY <1>1, ExecutingFacts
<1>3. driver' = [driver EXCEPT ![c] = d]
    BY <1>2 DEF Send, LoopSend, DriverRecords
<1>4. /\ old.steps = Workflows[RunOf(c).wf] /\ old.i \in 1..(Len(old.steps) + 1)
      /\ Covered(old.steps, res, old.i)
    BY <1>1, <1>2 DEF Progress
<1>5. old.i \in DOMAIN old.steps
    BY <1>1, <1>2, <1>4 DEF Send, LoopSend, AtStep, Progress
<1>6. Waits(c) \in Waitings
    BY <1>2, <1>5, WaitsType
<1>7. /\ d \in DriverRecords /\ d.pc = "waiting" /\ d.run = old.run /\ d.steps = old.steps
      /\ d.i = old.i /\ d.wait = Waits(c) /\ d.iter = old.iter
    BY <1>2, <1>6 DEF DriverRecords, Executing
<1> HIDE DEF d
<1>8. IF d.steps[d.i].mode = "Loop"
      THEN AtLoop(d, res) /\ d.iter < d.steps[d.i].iterations
      ELSE Below(res, d.i)
    <2>1. CASE Send(c)
        <3>1. d.steps[d.i].mode # "Loop"
            BY <1>7, <2>1 DEF Send, AtStep, Step
        <3>2. Below(res, d.i)
            BY <1>2, <1>7, <2>1 DEF Progress, Send, AtStep
        <3> QED BY <3>1, <3>2
    <2>2. CASE LoopSend(c)
        <3>1. old.pc = "loop" /\ old.iter < old.steps[old.i].iterations
            BY <2>2 DEF LoopSend, Step
        <3>2. AtLoop(old, res)
            BY <1>2, <3>1 DEF Progress
        <3> QED BY <1>7, <3>1, <3>2 DEF AtLoop
    <2> QED BY <2>1, <2>2
<1>9. AtWait(d, res)
    BY <1>2, <1>5, <1>7, <1>8, WaitsType DEF AtWait
<1>10. Progress(d, RunOf(c))
    BY <1>4, <1>7, <1>9 DEF Progress
<1> QED BY <1>1, <1>3, <1>7, <1>10, DriverFrame DEF Executing

LEMMA EnterLoopRecord ==
    ASSUME Inv, RecordInv, NEW c \in Drivers, EnterLoop(c)
    PROVE  RecordInv'
<1> DEFINE old == driver[c]
           res == RunOf(c).results
           d == [old EXCEPT !.pc = "loop", !.iter = 0]
<1>1. /\ old.pc = "step" /\ old.pc \in Executing /\ runs' = runs
      /\ old.i <= Len(old.steps) /\ old.steps[old.i].mode = "Loop"
    BY DEF EnterLoop, AtStep, Step, Executing
<1>2. /\ driver \in [Drivers -> DriverRecords] /\ old \in DriverRecords
      /\ res \in Seq(Nat) /\ old.steps \in Seq(Steps) /\ Progress(old, RunOf(c))
    BY <1>1, ExecutingFacts
<1>3. driver' = [driver EXCEPT ![c] = d]
    BY <1>2 DEF EnterLoop, DriverRecords
<1>4. /\ old.steps = Workflows[RunOf(c).wf] /\ old.i \in 1..(Len(old.steps) + 1)
      /\ Covered(old.steps, res, old.i) /\ Below(res, old.i)
    BY <1>1, <1>2 DEF Progress
<1>5. old.i \in DOMAIN old.steps /\ old.i \in Nat /\ old.steps[old.i] \in Steps
    BY <1>1, <1>2, <1>4
<1>6. /\ d \in DriverRecords /\ d.pc = "loop" /\ d.run = old.run /\ d.steps = old.steps
      /\ d.i = old.i /\ d.iter = 0
    BY <1>2 DEF DriverRecords, Executing
<1> HIDE DEF d
<1>7. Count(res, old.i) = 0
    <2>1. \A n \in DOMAIN res : res[n] # old.i
        BY <1>2, <1>4, <1>5 DEF Below
    <2> QED BY <1>2, <2>1, CountType
<1>8. Below(res, old.i + 1)
    BY <1>2, <1>4, <1>5, BelowNext
<1>9. 0 <= old.steps[old.i].iterations
    BY <1>5 DEF Steps
<1>10. Progress(d, RunOf(c))
    BY <1>1, <1>4, <1>5, <1>6, <1>7, <1>8, <1>9 DEF Progress, AtLoop
<1> QED BY <1>1, <1>3, <1>6, <1>10, DriverFrame DEF Executing

(* A step of the driver that ends or interrupts its execution.             *)
LEMMA LeaveRecord ==
    ASSUME Inv, RecordInv, NEW c \in Drivers, driver[c].pc # "idle", NEW d \in DriverRecords,
           driver' = [driver EXCEPT ![c] = d], d.pc \notin Executing,
           \/ runs' = runs
           \/ \E why \in {"early", "step", "timeout"} : runs' = Fail(c, why)
    PROVE  RecordInv'
<1>1. CASE runs' = runs
    BY <1>1, DriverFrame
<1>2. ASSUME NEW why \in {"early", "step", "timeout"}, runs' = Fail(c, why), Retained(c)
      PROVE  RecordInv'
    <2> DEFINE x == [RunOf(c) EXCEPT !.state = "Failed", !.error = why]
    <2>1. RunOf(c) \in RunRecords /\ Fits(RunOf(c))
        BY <1>2 DEF RecordInv, Retained, RunOf
    <2>2. x \in RunRecords /\ x.wf = RunOf(c).wf /\ x.results = RunOf(c).results /\ x.state = "Failed"
        BY <1>2, <2>1 DEF RunRecords, Terminal
    <2>3. runs' = [runs EXCEPT ![driver[c].run] = x]
        BY <1>2 DEF Fail, Update
    <2> HIDE DEF x
    <2>4. Fits(x)
        BY <2>1, <2>2, FitsState
    <2> QED BY <1>2, <2>2, <2>3, <2>4, WriteFrame
<1>3. ASSUME NEW why, runs' = Fail(c, why), ~Retained(c) PROVE runs' = runs
    BY <1>3 DEF Fail, Update
<1> QED BY <1>1, <1>2, <1>3

LEMMA FailIfOpenWrites ==
    ASSUME NEW c, NEW why, runs' = FailIfOpen(c, why)
    PROVE  runs' = runs \/ runs' = Fail(c, why)
BY DEF FailIfOpen

LEMMA LeavingRecord ==
    ASSUME Inv, RecordInv, NEW c \in Drivers,
           \/ AgentNotFound(c) \/ Finalize(c) \/ MarkRunFailed(c) \/ Timeout(c) \/ DropDriver(c)
           \/ \E k \in Indices : StepFails(c, k)
    PROVE  RecordInv'
<1>1. driver \in [Drivers -> DriverRecords] /\ driver[c] \in DriverRecords
    BY DEF RecordInv
<1>2. CASE AgentNotFound(c) \/ \E k \in Indices : StepFails(c, k)
    <2> DEFINE d == [driver[c] EXCEPT !.pc = "err"]
    <2>1. d \in DriverRecords /\ d.pc = "err"
        BY <1>1 DEF DriverRecords
    <2>2. driver' = [driver EXCEPT ![c] = d]
        BY <1>1, <1>2 DEF AgentNotFound, StepFails, DriverRecords
    <2>3. driver[c].pc # "idle" /\ (runs' = runs \/ runs' = Fail(c, "step"))
        BY <1>2 DEF AgentNotFound, StepFails, AtStep, ErrorAt, Ready
    <2> HIDE DEF d
    <2> QED BY <2>1, <2>2, <2>3, LeaveRecord DEF Executing
<1>3. CASE Finalize(c) \/ MarkRunFailed(c) \/ DropDriver(c)
    <2>1. Idle \in DriverRecords /\ Idle.pc = "idle"
        BY IdleRecord DEF Idle
    <2>2. driver' = [driver EXCEPT ![c] = Idle] /\ driver[c].pc # "idle"
        BY <1>3 DEF Finalize, MarkRunFailed, DropDriver
    <2>3. runs' = runs \/ runs' = Fail(c, "early") \/ runs' = Fail(c, "timeout")
        BY <1>3, FailIfOpenWrites DEF Finalize, MarkRunFailed, DropDriver
    <2> QED BY <2>1, <2>2, <2>3, LeaveRecord DEF Executing
<1>4. CASE Timeout(c)
    <2> DEFINE d == [Idle EXCEPT !.pc = "timedout", !.run = driver[c].run]
    <2>1. driver[c].run \in Nat
        BY <1>1 DEF DriverRecords
    <2>2. d \in DriverRecords /\ d.pc = "timedout"
        BY <2>1, IdleRecord DEF DriverRecords
    <2>3. driver' = [driver EXCEPT ![c] = d] /\ driver[c].pc # "idle" /\ runs' = runs
        BY <1>4 DEF Timeout
    <2> HIDE DEF d
    <2> QED BY <2>2, <2>3, LeaveRecord DEF Executing
<1> QED BY <1>2, <1>3, <1>4

LEMMA CompleteRecord ==
    ASSUME Inv, RecordInv, NEW c \in Drivers, Complete(c)
    PROVE  RecordInv'
<1> DEFINE old == driver[c]
           x == [RunOf(c) EXCEPT !.state = "Completed"]
<1>1. old.pc = "step" /\ old.pc \in Executing /\ old.i > Len(old.steps)
    BY DEF Complete, Executing
<1>2. /\ Retained(c) /\ RunOf(c) \in RunRecords /\ Fits(RunOf(c)) /\ old.steps \in Seq(Steps)
      /\ Progress(old, RunOf(c))
    BY <1>1, ExecutingFacts
<1>3. /\ old.steps = Workflows[RunOf(c).wf] /\ old.i \in 1..(Len(old.steps) + 1)
      /\ Covered(old.steps, RunOf(c).results, old.i)
    BY <1>1, <1>2 DEF Progress
<1>4. old.i = Len(old.steps) + 1
    BY <1>1, <1>2, <1>3
<1>5. x \in RunRecords /\ x.wf = RunOf(c).wf /\ x.results = RunOf(c).results
    BY <1>2 DEF RunRecords, Terminal
<1>6. runs' = [runs EXCEPT ![old.run] = x] /\ driver' = [driver EXCEPT ![c] = Idle]
    BY <1>2 DEF Complete, Update
<1> HIDE DEF x
<1>7. Fits(x)
    BY <1>2, <1>3, <1>4, <1>5 DEF Fits
<1>8. Idle \in DriverRecords /\ Idle.pc = "idle"
    BY IdleRecord DEF Idle
<1> QED BY <1>1, <1>2, <1>5, <1>6, <1>7, <1>8, WriteFrame DEF Executing

(* The driver is past a loop.                                              *)
LEMMA LoopOverType ==
    ASSUME NEW d \in DriverRecords
    PROVE  /\ LoopOver(d) \in DriverRecords /\ LoopOver(d).pc = "step"
           /\ LoopOver(d).i = d.i + 1 /\ LoopOver(d).run = d.run /\ LoopOver(d).steps = d.steps
<1>1. d.outs \cup d.cur \in Texts /\ d.i + 1 \in Nat
    BY DEF DriverRecords, Texts
<1> QED BY <1>1, NoWaiting DEF LoopOver, DriverRecords, Executing

LEMMA LoopExhaustedRecord ==
    ASSUME Inv, RecordInv, NEW c \in Drivers, LoopExhausted(c)
    PROVE  RecordInv'
<1> DEFINE old == driver[c]
           res == RunOf(c).results
<1>1. /\ old.pc = "loop" /\ old.pc \in Executing /\ runs' = runs
      /\ old.iter = old.steps[old.i].iterations
      /\ driver' = [driver EXCEPT ![c] = LoopOver(old)]
    BY DEF LoopExhausted, Executing, Step
<1>2. /\ old \in DriverRecords /\ res \in Seq(Nat) /\ old.steps \in Seq(Steps)
      /\ Progress(old, RunOf(c))
    BY <1>1, ExecutingFacts
<1>3. /\ old.steps = Workflows[RunOf(c).wf] /\ old.i \in DOMAIN old.steps
      /\ Covered(old.steps, res, old.i) /\ AtLoop(old, res)
    BY <1>1, <1>2 DEF Progress
<1>4. Mandatory(old.steps[old.i]) => Count(res, old.i) > 0
    BY <1>1, <1>3 DEF Mandatory, AtLoop
<1>5. Covered(old.steps, res, old.i + 1) /\ old.i + 1 \in 1..(Len(old.steps) + 1)
    BY <1>2, <1>3, <1>4, Advance
<1>6. Progress(LoopOver(old), RunOf(c))
    BY <1>2, <1>3, <1>5, LoopOverType DEF Progress, AtLoop
<1> QED BY <1>1, <1>2, <1>6, LoopOverType, DriverFrame DEF Executing

(* The first awaited answer belongs to the step the driver is at.          *)
LEMMA FirstIsCurrent ==
    ASSUME Inv, RecordInv, NEW c \in Drivers, driver[c].pc = "waiting"
    PROVE  /\ First(c) = driver[c].i /\ driver[c].i \in Nat
           /\ driver[c].i \in DOMAIN driver[c].steps /\ driver[c].i \in DOMAIN driver[c].wait
           /\ driver[c].wait \in Waitings
           /\ AtWait(driver[c], RunOf(c).results)
<1>1. driver[c] \in DriverRecords /\ Progress(driver[c], RunOf(c))
    BY ExecutingFacts DEF Executing
<1>2. AtWait(driver[c], RunOf(c).results) /\ driver[c].wait \in Waitings /\ driver[c].i \in Nat
    BY <1>1 DEF Progress, DriverRecords
<1>3. DOMAIN driver[c].wait \subseteq Nat
    BY <1>2, WaitingsElim
<1>4. driver[c].i \in DOMAIN driver[c].wait /\ \A n \in DOMAIN driver[c].wait : driver[c].i <= n
    BY <1>2 DEF AtWait
<1>5. First(c) = driver[c].i
    BY <1>2, <1>3, <1>4 DEF First
<1> QED BY <1>2, <1>4, <1>5 DEF AtWait

(* An answer, its absence, or a retry: the driver waits on.                *)
LEMMA WaitOnRecord ==
    ASSUME Inv, RecordInv, NEW c \in Drivers, NEW k \in Indices,
           Retry(c, k) \/ NoAnswer(c, k) \/ \E text \in Texts : Answer(c, k, text)
    PROVE  RecordInv'
<1> DEFINE old == driver[c]
           res == RunOf(c).results
<1>1. old.pc = "waiting" /\ old.pc \in Executing /\ runs' = runs
    BY DEF Retry, NoAnswer, Answer, ErrorAt, Ready, Executing
<1>2. /\ driver \in [Drivers -> DriverRecords] /\ old \in DriverRecords
      /\ Progress(old, RunOf(c))
    BY <1>1, ExecutingFacts
<1>3. old.wait \in Waitings /\ First(c) \in DOMAIN old.wait /\ AtWait(old, res)
    BY <1>1, FirstIsCurrent
<1>4. k \in DOMAIN old.wait
    BY <1>3 DEF Retry, NoAnswer, Answer, ErrorAt
<1>5. ASSUME NEW v \in [st : {"pending", "ok", "error"}, text : Texts], NEW n \in Nat,
             driver' = [driver EXCEPT ![c] = [old EXCEPT !.wait = [old.wait EXCEPT ![k] = v],
                                                         !.attempt = n]]
      PROVE  RecordInv'
    <2> DEFINE w == [old.wait EXCEPT ![k] = v]
               d == [old EXCEPT !.wait = w, !.attempt = n]
    <2>1. w \in [DOMAIN old.wait -> [st : {"pending", "ok", "error"}, text : Texts]]
        BY <1>3, <1>4, WaitingsElim
    <2>2. w \in Waitings /\ DOMAIN w = DOMAIN old.wait
        BY <1>3, <2>1, WaitingsElim, WaitingsIntro
    <2> HIDE DEF w
    <2>3. /\ d \in DriverRecords /\ d.pc = "waiting" /\ d.run = old.run /\ d.steps = old.steps
          /\ d.i = old.i /\ d.iter = old.iter /\ d.wait = w
        BY <1>1, <1>2, <2>2 DEF DriverRecords
    <2>4. driver' = [driver EXCEPT ![c] = d]
        BY <1>5 DEF w
    <2> HIDE DEF d
    <2>5. AtWait(d, res)
        BY <1>3, <2>2, <2>3 DEF AtWait, AtLoop
    <2>6. Progress(d, RunOf(c))
        BY <1>1, <1>2, <2>3, <2>5 DEF Progress
    <2> QED BY <1>1, <2>3, <2>4, <2>6, DriverFrame DEF Executing
<1>6. old.attempt \in Nat /\ old.attempt + 1 \in Nat
    BY <1>2 DEF DriverRecords
<1>7. CASE Retry(c, k)
    <2>1. Pending \in [st : {"pending", "ok", "error"}, text : Texts]
        BY DEF Pending, Texts
    <2>2. driver' = [driver EXCEPT ![c] = [old EXCEPT !.wait = [old.wait EXCEPT ![k] = Pending],
                                                      !.attempt = old.attempt + 1]]
        BY <1>2, <1>7 DEF Retry, DriverRecords
    <2> QED BY <1>5, <1>6, <2>1, <2>2
<1>8. CASE NoAnswer(c, k)
    <2> DEFINE v == [old.wait[k] EXCEPT !.st = "error"]
    <2>1. v \in [st : {"pending", "ok", "error"}, text : Texts]
        BY <1>3, <1>4, WaitingsElim
    <2>2. driver' = [driver EXCEPT ![c] = [old EXCEPT !.wait = [old.wait EXCEPT ![k] = v],
                                                      !.attempt = old.attempt]]
        BY <1>2, <1>8 DEF NoAnswer, DriverRecords
    <2> HIDE DEF v
    <2> QED BY <1>5, <1>6, <2>1, <2>2
<1>9. ASSUME NEW text \in Texts, Answer(c, k, text) PROVE RecordInv'
    <2> DEFINE v == [st |-> "ok", text |-> text]
    <2>1. v \in [st : {"pending", "ok", "error"}, text : Texts]
        OBVIOUS
    <2>2. driver' = [driver EXCEPT ![c] = [old EXCEPT !.wait = [old.wait EXCEPT ![k] = v],
                                                      !.attempt = old.attempt]]
        BY <1>2, <1>9 DEF Answer, DriverRecords
    <2> HIDE DEF v
    <2> QED BY <1>5, <1>6, <2>1, <2>2
<1> QED BY <1>7, <1>8, <1>9

LEMMA SkipErrorRecord ==
    ASSUME Inv, RecordInv, NEW c \in Drivers, NEW k \in Indices, SkipError(c, k)
    PROVE  RecordInv'
<1> DEFINE old == driver[c]
           res == RunOf(c).results
           d == Past(c, k)
<1>1. /\ old.pc = "waiting" /\ old.pc \in Executing /\ runs' = runs /\ k = First(c)
      /\ ErrorMode(c, k) = "Skip" /\ driver' = [driver EXCEPT ![c] = d]
    BY DEF SkipError, ErrorAt, Ready, Executing
<1>2. /\ old \in DriverRecords /\ res \in Seq(Nat) /\ old.steps \in Seq(Steps)
      /\ old.steps = Workflows[RunOf(c).wf] /\ Progress(old, RunOf(c))
    BY <1>1, ExecutingFacts
<1>3. k = old.i /\ k \in Nat /\ k \in DOMAIN old.steps /\ AtWait(old, res)
    BY <1>1, FirstIsCurrent
<1>4. old.steps[k].mode # "FanOut" /\ old.steps[k].error = "Skip"
    BY <1>1 DEF ErrorMode
<1>5. ~Mandatory(old.steps[k])
    BY <1>4 DEF Mandatory
<1>6. Covered(old.steps, res, k)
    BY <1>1, <1>2, <1>3 DEF Progress
<1>7. Covered(old.steps, res, k + 1) /\ k + 1 \in 1..(Len(old.steps) + 1)
    BY <1>2, <1>3, <1>5, <1>6, Advance
<1>8. Below(res, k + 1)
    BY <1>2, <1>3, BelowNext DEF AtWait, AtLoop
<1>9. /\ d \in DriverRecords /\ d.pc = "step" /\ d.i = k + 1 /\ d.run = old.run
      /\ d.steps = old.steps
    <2>1. CASE old.steps[k].mode = "Loop"
        BY <1>2, <1>3, <2>1, LoopOverType DEF Past
    <2>2. CASE old.steps[k].mode # "Loop"
        <3> DEFINE e == [old EXCEPT !.pc = "step", !.i = k + 1, !.wait = <<>>]
        <3>1. d = e
            BY <2>2 DEF Past
        <3>2. k + 1 \in Nat
            BY <1>3
        <3>3. /\ e \in DriverRecords /\ e.pc = "step" /\ e.i = k + 1 /\ e.run = old.run
              /\ e.steps = old.steps
            BY <1>2, <3>2, NoWaiting DEF DriverRecords, Executing
        <3> QED BY <3>1, <3>3
    <2> QED BY <2>1, <2>2
<1> HIDE DEF d
<1>10. Progress(d, RunOf(c))
    BY <1>2, <1>7, <1>8, <1>9 DEF Progress
<1> QED BY <1>1, <1>9, <1>10, DriverFrame

LEMMA EmptyWaiting ==
    ASSUME NEW w \in Waitings, DOMAIN w = {}
    PROVE  w = <<>>
BY WaitingsElim

(* The result of step k is recorded.                                       *)
LEMMA RecordedResult ==
    ASSUME NEW steps \in Seq(Steps), NEW res \in Seq(Nat), NEW k \in DOMAIN steps,
           Covered(steps, res, k), Below(res, k + 1)
    PROVE  LET more == Append(res, k)
           IN /\ Covered(steps, more, k + 1) /\ Below(more, k + 1)
              /\ k + 1 \in 1..(Len(steps) + 1)
              /\ Count(more, k) = Count(res, k) + 1
<1> DEFINE more == Append(res, k)
<1>1. k \in Nat /\ k \in 1..Len(steps)
    OBVIOUS
<1>2. Count(more, k) = Count(res, k) + 1 /\ \A j : j # k => Count(more, j) = Count(res, j)
    BY <1>1, CountAppend
<1>3. Count(res, k) \in Nat
    BY CountType
<1>4. Below(more, k + 1)
    BY <1>1 DEF Below
<1> HIDE DEF more
<1>5. Covered(steps, more, k + 1)
    <2> SUFFICES ASSUME NEW j \in DOMAIN steps, j < k + 1, Mandatory(steps[j])
                 PROVE  Count(more, j) > 0
        BY DEF Covered
    <2>1. CASE j = k
        BY <1>2, <1>3, <2>1
    <2>2. CASE j # k
        <3>1. j < k
            BY <1>1, <2>2
        <3> QED BY <1>2, <2>2, <3>1 DEF Covered
    <2> QED BY <2>1, <2>2
<1> QED BY <1>1, <1>2, <1>4, <1>5 DEF more

LEMMA SucceedsRecord ==
    ASSUME Inv, RecordInv, NEW c \in Drivers, Succeeds(c)
    PROVE  RecordInv'
<1> DEFINE old == driver[c]
           run == RunOf(c)
           res == RunOf(c).results
           k == First(c)
           step == old.steps[k]
           text == old.wait[k].text
           d0 == [old EXCEPT !.cur = text]
           rest == [n \in DOMAIN d0.wait \ {k} |-> d0.wait[n]]
           next == [d0 EXCEPT !.outs = @ \cup text, !.i = k + 1, !.wait = rest,
                              !.pc = IF rest = <<>> THEN "step" ELSE "waiting"]
           again == [d0 EXCEPT !.pc = "loop", !.iter = @ + 1, !.wait = <<>>]
           x == [run EXCEPT !.results = Append(@, k)]
<1>1. old.pc = "waiting" /\ old.pc \in Executing
    BY DEF Succeeds, Ready, Executing
<1>2. /\ driver' = [driver EXCEPT ![c] =
                      IF step.mode # "Loop" THEN next
                      ELSE IF step.word \in text THEN LoopOver(d0) ELSE again]
      /\ runs' = WithResult(c, k)
    BY Zenon DEF Succeeds
<1>3. /\ old \in DriverRecords /\ res \in Seq(Nat) /\ old.steps \in Seq(Steps)
      /\ old.steps = Workflows[run.wf] /\ Progress(old, run)
      /\ Retained(c) /\ run \in RunRecords /\ Fits(run) /\ run.state \notin Terminal
    BY <1>1, ExecutingFacts
<1>4. k = old.i /\ k \in Nat /\ k \in DOMAIN old.steps /\ k \in DOMAIN old.wait
      /\ old.wait \in Waitings /\ AtWait(old, res)
    BY <1>1, FirstIsCurrent
<1>5. text \in Texts
    BY <1>4, WaitingsElim
<1>6. /\ d0 \in DriverRecords /\ d0.pc = "waiting" /\ d0.i = k /\ d0.run = old.run
      /\ d0.steps = old.steps /\ d0.wait = old.wait /\ d0.iter = old.iter /\ d0.outs = old.outs
    BY <1>1, <1>3, <1>4, <1>5 DEF DriverRecords
<1>7. Covered(old.steps, res, k) /\ Below(res, k + 1)
    BY <1>1, <1>3, <1>4, BelowNext DEF Progress, AtWait, AtLoop
<1>8. Count(res, k) < Limit(step)
    <2>1. CASE step.mode = "Loop"
        BY <1>4, <2>1 DEF AtWait, AtLoop, Limit
    <2>2. CASE step.mode # "Loop"
        <3>1. \A n \in DOMAIN res : res[n] # k
            BY <1>3, <1>4, <2>2 DEF AtWait, Below
        <3>2. Count(res, k) = 0
            BY <1>3, <3>1, CountType
        <3> QED BY <2>2, <3>2 DEF Limit
    <2> QED BY <2>1, <2>2
<1>9. /\ x \in RunRecords /\ Fits(x) /\ x.wf = run.wf /\ x.results = Append(res, k)
    <2>1. k \in DOMAIN Workflows[run.wf] /\ Count(res, k) < Limit(Workflows[run.wf][k])
        BY <1>3, <1>4, <1>8
    <2> QED BY <1>3, <1>7, <2>1, FitsAppend
<1>10. runs' = [runs EXCEPT ![old.run] = x]
    BY <1>2, <1>3 DEF WithResult, Update
<1>11. /\ Covered(old.steps, x.results, k + 1) /\ Below(x.results, k + 1)
       /\ k + 1 \in 1..(Len(old.steps) + 1)
       /\ Count(x.results, k) = Count(res, k) + 1
    BY <1>3, <1>4, <1>7, <1>9, RecordedResult
<1>12. k + 1 \in Nat /\ old.iter \in Nat
    BY <1>3, <1>4 DEF DriverRecords
<1>13. rest \in Waitings /\ DOMAIN rest = DOMAIN old.wait \ {k}
    <2>1. rest = [n \in DOMAIN old.wait \ {k} |-> old.wait[n]]
        BY <1>6
    <2>2. rest \in [DOMAIN old.wait \ {k} -> [st : {"pending", "ok", "error"}, text : Texts]]
        BY <1>4, <2>1, WaitingsElim
    <2>3. DOMAIN old.wait \ {k} \in SUBSET Nat
        BY <1>4, WaitingsElim
    <2> QED BY <2>1, <2>2, <2>3, WaitingsIntro
<1> HIDE DEF x, d0, rest, k, text
<1>14. CASE step.mode # "Loop"
    <2>1. d0.outs \cup text \in Texts
        BY <1>5, <1>6 DEF Texts, DriverRecords
    <2>2. /\ next \in DriverRecords /\ next.i = k + 1 /\ next.run = old.run
          /\ next.steps = old.steps /\ next.wait = rest
          /\ next.pc = IF rest = <<>> THEN "step" ELSE "waiting"
        BY <1>6, <1>12, <1>13, <2>1 DEF DriverRecords, Executing
    <2>3. driver' = [driver EXCEPT ![c] = next]
        BY <1>2, <1>14
    <2> HIDE DEF next
    <2>4. CASE rest = <<>>
        <3>1. Progress(next, x)
            BY <1>3, <1>9, <1>11, <2>2, <2>4 DEF Progress
        <3> QED BY <1>1, <1>3, <1>9, <1>10, <2>2, <2>3, <3>1, WriteFrame
    <2>5. CASE rest # <<>>
        <3>1. PICK m \in DOMAIN old.wait : m # k
            BY <1>13, <2>5, EmptyWaiting
        <3>2. m \in Nat /\ k < m /\ DOMAIN old.wait \subseteq Nat
            <4>1. DOMAIN old.wait \subseteq Nat
                BY <1>4, WaitingsElim
            <4>2. k <= m
                BY <1>4 DEF AtWait
            <4> QED BY <1>4, <3>1, <4>1, <4>2
        <3>3. k + 1 \in DOMAIN rest
            BY <1>4, <1>12, <1>13, <3>1, <3>2 DEF AtWait
        <3>4. \A n \in DOMAIN rest : k + 1 <= n /\ \A j \in (k + 1)..n : j \in DOMAIN rest
            BY <1>4, <1>13, <3>2 DEF AtWait
        <3>5. \A n \in DOMAIN rest : old.steps[n].mode = "FanOut"
            BY <1>4, <1>13 DEF AtWait
        <3>6. DOMAIN rest \subseteq DOMAIN old.steps
            BY <1>4, <1>13 DEF AtWait
        <3>7. AtWait(next, x.results)
            BY <1>11, <2>2, <3>3, <3>4, <3>5, <3>6 DEF AtWait
        <3>8. Progress(next, x)
            BY <1>3, <1>9, <1>11, <2>2, <2>5, <3>7 DEF Progress
        <3> QED BY <1>1, <1>3, <1>9, <1>10, <2>2, <2>3, <3>8, WriteFrame
    <2> QED BY <2>4, <2>5
<1>15. CASE step.mode = "Loop" /\ step.word \in text
    <2>1. driver' = [driver EXCEPT ![c] = LoopOver(d0)]
        BY <1>2, <1>15
    <2>2. /\ LoopOver(d0) \in DriverRecords /\ LoopOver(d0).pc = "step"
          /\ LoopOver(d0).i = k + 1 /\ LoopOver(d0).run = old.run
          /\ LoopOver(d0).steps = old.steps
        BY <1>6, LoopOverType
    <2>3. Progress(LoopOver(d0), x)
        BY <1>3, <1>9, <1>11, <2>2 DEF Progress
    <2> QED BY <1>1, <1>3, <1>9, <1>10, <2>1, <2>2, <2>3, WriteFrame
<1>16. CASE step.mode = "Loop" /\ step.word \notin text
    <2>1. driver' = [driver EXCEPT ![c] = again]
        BY <1>2, <1>16
    <2>2. old.iter + 1 \in Nat
        BY <1>12
    <2>3. /\ again \in DriverRecords /\ again.pc = "loop" /\ again.i = k
          /\ again.run = old.run /\ again.steps = old.steps /\ again.iter = old.iter + 1
        BY <1>6, <2>2, NoWaiting DEF DriverRecords, Executing
    <2> HIDE DEF again
    <2>4. Count(res, k) = old.iter /\ old.iter < step.iterations
        BY <1>4, <1>16 DEF AtWait, AtLoop
    <2>5. step.iterations \in Nat
        <3>1. step \in Steps
            BY <1>3, <1>4
        <3> QED BY <3>1 DEF Steps
    <2>6. again.iter <= step.iterations /\ Count(x.results, k) = again.iter
        BY <1>11, <1>12, <2>3, <2>4, <2>5
    <2>7. Covered(old.steps, x.results, k)
        BY <1>3, <1>4, <1>11 DEF Covered
    <2>8. k \in 1..(Len(old.steps) + 1)
        BY <1>3, <1>4
    <2>9. AtLoop(again, x.results)
        BY <1>11, <1>16, <2>3, <2>6 DEF AtLoop
    <2>10. Progress(again, x)
        BY <1>3, <1>4, <1>9, <2>3, <2>6, <2>7, <2>8, <2>9 DEF Progress
    <2> QED BY <1>1, <1>3, <1>9, <1>10, <2>1, <2>3, <2>10, WriteFrame
<1> QED BY <1>14, <1>15, <1>16

(* A new run is empty, and eviction leaves the others as they are.         *)
LEMMA CreateRecord ==
    ASSUME Inv, RecordInv, NEW c \in Drivers, NEW w \in DOMAIN Workflows, NEW text \in Texts,
           CreateRun(c, w, text)
    PROVE  RecordInv'
<1> DEFINE new == [wf |-> w, state |-> "Pending", results |-> <<>>, error |-> "none"]
           all == [r \in DOMAIN runs \cup {created'} |-> IF r = created' THEN new ELSE runs[r]]
           d == [Idle EXCEPT !.pc = "created", !.run = created', !.cur = text]
<1>1. /\ created \in Nat /\ created' = created + 1
      /\ runs' = [r \in DOMAIN all \ Evicted(all) |-> all[r]]
      /\ driver' = [driver EXCEPT ![c] = d]
    BY DEF CreateRun, Inv, Shape
<1>2. created' \notin DOMAIN runs /\ created' \in Nat
    BY <1>1 DEF Inv, Shape
<1>3. new \in RunRecords /\ new.results = <<>> /\ new.wf = w /\ new.state = "Pending"
    BY DEF RunRecords
<1>4. /\ d \in DriverRecords /\ d.pc = "created" /\ d.run = created' /\ d.i = 1
    BY <1>2, IdleRecord DEF DriverRecords, Executing, Idle
<1>5. Fits(new)
    <2>1. <<>> \in Seq(Nat) /\ DOMAIN <<>> = {}
        OBVIOUS
    <2>2. \A k : Count(<<>>, k) = 0
        BY <2>1, CountType
    <2>3. Workflows[w] \in Seq(Steps)
        BY DefinitionType
    <2>4. InLimits(Workflows[w], <<>>)
        <3> SUFFICES ASSUME NEW k \in DOMAIN Workflows[w] PROVE 0 <= Limit(Workflows[w][k])
            BY <2>2 DEF InLimits
        <3>1. Workflows[w][k] \in Steps
            BY <2>3
        <3> QED BY <3>1 DEF Limit, Steps
    <2>5. Ordered(<<>>)
        BY <2>1 DEF Ordered
    <2> QED BY <1>3, <2>4, <2>5 DEF Fits
<1>6. /\ DOMAIN all = DOMAIN runs \cup {created'} /\ all[created'] = new
      /\ \A r \in DOMAIN runs : all[r] = runs[r]
    BY <1>2
<1> HIDE DEF new, all, d
<1>7. /\ DOMAIN runs' \subseteq DOMAIN runs \cup {created'}
      /\ \A r \in DOMAIN runs' : runs'[r] = IF r = created' THEN new ELSE runs[r]
    BY <1>1, <1>2, <1>6
<1>8. \A r \in DOMAIN runs' : runs'[r] \in RunRecords /\ Fits(runs'[r])
    BY <1>3, <1>5, <1>7 DEF RecordInv
<1>9. /\ driver' \in [Drivers -> DriverRecords] /\ driver'[c] = d
      /\ \A e \in Drivers \ {c} : driver'[e] = driver[e]
    BY <1>1, <1>4 DEF RecordInv
<1>10. Inv'
    BY CreatePreserves
<1>11. ASSUME NEW e \in Drivers, driver'[e].pc \in Executing
       PROVE  Progress(driver'[e], runs'[driver'[e].run])
    <2>1. driver'[e].run \in DOMAIN runs'
        BY <1>10, <1>11 DEF Inv, ExecutingRunIsKept, Executing, Retained
    <2>2. CASE e = c
        BY <1>3, <1>4, <1>7, <1>9, <2>1, <2>2 DEF Progress
    <2>3. CASE e # c
        <3>1. driver'[e] = driver[e] /\ driver[e].pc \in Executing
            BY <1>9, <1>11, <2>3
        <3>2. driver[e].run \in DOMAIN runs
            BY <3>1 DEF Inv, ExecutingRunIsKept, Executing, Retained
        <3> QED BY <1>2, <1>7, <2>1, <3>1, <3>2 DEF RecordInv, RunOf
    <2> QED BY <2>2, <2>3
<1> QED BY <1>8, <1>9, <1>11 DEF RecordInv, RunOf

LEMMA RecordInit == Init => RecordInv
<1> SUFFICES ASSUME Init PROVE RecordInv
    OBVIOUS
<1>1. DOMAIN runs = {} /\ driver = [c \in Drivers |-> Idle]
    BY DEF Init
<1>2. \A c \in Drivers : driver[c].pc = "idle"
    BY <1>1 DEF Idle
<1> QED BY <1>1, <1>2, IdleRecord DEF RecordInv, Executing

LEMMA RecordNext == Inv /\ RecordInv /\ [Next]_vars => RecordInv'
<1> SUFFICES ASSUME Inv, RecordInv, [Next]_vars PROVE RecordInv'
    OBVIOUS
<1>1. ASSUME runs' = runs, driver' = driver PROVE RecordInv'
    BY <1>1 DEF RecordInv, RunOf
<1>2. ASSUME NEW w \in DOMAIN Workflows, Register(w) \/ RemoveWorkflow(w) PROVE RecordInv'
    BY <1>1, <1>2 DEF Register, RemoveWorkflow
<1>3. ASSUME NEW c \in Drivers, NEW w \in DOMAIN Workflows, NEW text \in Texts,
             CreateRun(c, w, text)
      PROVE  RecordInv'
    BY <1>3, CreateRecord
<1>4. ASSUME NEW c \in Drivers, Execute(c) PROVE RecordInv'
    <2>1. ASSUME NEW k \in Indices,
                 Retry(c, k) \/ NoAnswer(c, k) \/ \E text \in Texts : Answer(c, k, text)
          PROVE  RecordInv'
        BY <2>1, WaitOnRecord
    <2>2. ASSUME NEW k \in Indices, SkipError(c, k) PROVE RecordInv'
        BY <2>2, SkipErrorRecord
    <2>3. CASE \/ AgentNotFound(c) \/ Finalize(c) \/ MarkRunFailed(c)
               \/ \E k \in Indices : StepFails(c, k)
        BY <2>3, LeavingRecord
    <2>4. CASE Start(c)
        BY <2>4, StartRecord
    <2>5. CASE SkipStep(c) \/ Collect(c)
        BY <2>5, PassRecord
    <2>6. CASE Send(c) \/ LoopSend(c)
        BY <2>6, SendRecord
    <2>7. CASE EnterLoop(c)
        BY <2>7, EnterLoopRecord
    <2>8. CASE LoopExhausted(c)
        BY <2>8, LoopExhaustedRecord
    <2>9. CASE Succeeds(c)
        BY <2>9, SucceedsRecord
    <2>10. CASE Complete(c)
        BY <2>10, CompleteRecord
    <2> QED
        BY <1>4, <2>1, <2>2, <2>3, <2>4, <2>5, <2>6, <2>7, <2>8, <2>9, <2>10 DEF Execute
<1>5. ASSUME NEW c \in Drivers, Timeout(c) \/ DropDriver(c) PROVE RecordInv'
    BY <1>5, LeavingRecord
<1>6. CASE UNCHANGED vars
    BY <1>1, <1>6 DEF vars
<1> QED
    BY <1>2, <1>3, <1>4, <1>5, <1>6 DEF Next

(* The record of a run fits its definition, for any workflow: results in   *)
(* step order, one per step and at most max_iterations per loop, and none  *)
(* of the mandatory steps left out by a run that is Completed, whatever    *)
(* was skipped, retried, timed out, dropped or evicted on the way.         *)
THEOREM RecordsFitDefinitions == Spec => []RecordFitsDefinition
<1>1. RecordInv => RecordFitsDefinition
    <2> SUFFICES ASSUME RecordInv, NEW r \in DOMAIN runs
                 PROVE  LET steps == Workflows[runs[r].wf]
                            res == runs[r].results
                        IN /\ \A m, n \in DOMAIN res : m < n => res[m] <= res[n]
                           /\ \A k \in DOMAIN steps :
                                 Count(res, k) <= IF steps[k].mode = "Loop"
                                                  THEN steps[k].iterations ELSE 1
                           /\ runs[r].state = "Completed" =>
                                 \A k \in DOMAIN steps : Mandatory(steps[k]) => Count(res, k) > 0
        BY DEF RecordFitsDefinition
    <2>1. runs[r] \in RunRecords /\ Fits(runs[r])
        BY DEF RecordInv
    <2>2. Workflows[runs[r].wf] \in Seq(Steps)
        BY <2>1, DefinitionType DEF RunRecords
    <2>3. \A k \in DOMAIN Workflows[runs[r].wf] : k < Len(Workflows[runs[r].wf]) + 1
        BY <2>2
    <2> QED BY <2>1, <2>3 DEF Fits, Ordered, InLimits, Limit, Covered
<1> QED BY InvInit, InvNext, RecordInit, RecordNext, <1>1, PTL DEF Spec

-----------------------------------------------------------------------------
(* The file of the engine (SnapshotFile): unique temporary names alone     *)
(* keep it readable; with the lock as well, the file protocol implements   *)
(* DurableMap, for any number of writers.                                  *)

InFile(w) == pc[w] \in {"open", "written"}
Busy(w) == pc[w] \in {"holds", "snapped", "open", "written"}

(* With unique names, the inode of an open descriptor is linked under the  *)
(* writer's own name and nowhere else, and holds its snapshot once it is   *)
(* written.                                                                *)
OwnInode ==
    \A w \in Writers : InFile(w) =>
        /\ fd[w] \in Inodes
        /\ dir[w] = fd[w]
        /\ \A n \in Names : n # w => dir[n] # fd[w]
        /\ pc[w] = "open" => data[fd[w]] = Empty
        /\ pc[w] = "written" => data[fd[w]] = snap[w]

(* A writer that is not writing has no link and no descriptor.             *)
NoLeftover == \A w \in Writers : ~InFile(w) => dir[w] = None /\ fd[w] = None

UniqueInv == FileTypeOK /\ OwnInode /\ NoLeftover /\ FileReadable

(* Unique temporary names keep the links apart and the file readable.      *)
LEMMA UniqueInductive ==
    ASSUME UniqueTmp
    PROVE  /\ FileInit => UniqueInv
           /\ UniqueInv /\ [FileNext]_fileVars => UniqueInv'
<1> USE FileAssumption
<1>0. \A w \in Writers : w # Json /\ w # FixedTmp
  OBVIOUS
<1>1. FileInit => UniqueInv
  BY <1>0 DEF FileInit, UniqueInv, FileTypeOK, OwnInode, NoLeftover, FileReadable, Disk, InFile, Names, Versions
<1>2. UniqueInv /\ [FileNext]_fileVars => UniqueInv'
  <2> SUFFICES ASSUME UniqueInv, [FileNext]_fileVars PROVE UniqueInv'
    OBVIOUS
  <2> USE <1>0 DEF UniqueInv, Versions
  <2>t. \A w \in Writers : TmpOf(w) = w /\ w \in Names
    BY DEF TmpOf, Names
  <2>j. Json \in Names
    BY DEF Names
  <2>1. ASSUME NEW w \in Writers, Mutate(w) PROVE UniqueInv'
    BY <2>1 DEF Mutate, FileTypeOK, OwnInode, NoLeftover, FileReadable, Disk, InFile
  <2>2. ASSUME NEW w \in Writers, Cancel(w) PROVE UniqueInv'
    BY <2>2 DEF Cancel, Release, FileTypeOK, OwnInode, NoLeftover, FileReadable, Disk, InFile
  <2>3. ASSUME NEW w \in Writers, Acquire(w) PROVE UniqueInv'
    BY <2>3 DEF Acquire, FileTypeOK, OwnInode, NoLeftover, FileReadable, Disk, InFile
  <2>4. ASSUME NEW w \in Writers, Snapshot(w) PROVE UniqueInv'
    BY <2>4 DEF Snapshot, FileTypeOK, OwnInode, NoLeftover, FileReadable, Disk, InFile
  <2>5. ASSUME NEW w \in Writers, OpenTmp(w) PROVE UniqueInv'
    BY <2>5, <2>t, <2>j DEF OpenTmp, Free, FileTypeOK, OwnInode, NoLeftover, FileReadable, Disk, InFile
  <2>6. ASSUME NEW w \in Writers, WriteData(w) PROVE UniqueInv'
    BY <2>6, <2>t, <2>j DEF WriteData, Overlay, FileTypeOK, OwnInode, NoLeftover, FileReadable, Disk, InFile
  <2>7. ASSUME NEW w \in Writers, WriteFails(w) PROVE UniqueInv'
    BY <2>7, <2>t, <2>j DEF WriteFails, CleanUp, Release, FileTypeOK, OwnInode, NoLeftover, FileReadable, Disk, InFile
  <2>8. ASSUME NEW w \in Writers, Rename(w) PROVE UniqueInv'
    BY <2>8, <2>t, <2>j DEF Rename, Release, FileTypeOK, OwnInode, NoLeftover, FileReadable, Disk, InFile
  <2>9. ASSUME NEW w \in Writers, RenameFails(w) PROVE UniqueInv'
    BY <2>9, <2>t, <2>j DEF RenameFails, CleanUp, Release, FileTypeOK, OwnInode, NoLeftover, FileReadable, Disk, InFile
  <2>10. ASSUME Restart PROVE UniqueInv'
    BY <2>10, <2>j DEF Restart, Loaded, FileTypeOK, OwnInode, NoLeftover, FileReadable, Disk, InFile, Names
  <2>11. ASSUME UNCHANGED fileVars PROVE UniqueInv'
    BY <2>11 DEF fileVars, FileTypeOK, OwnInode, NoLeftover, FileReadable, Disk, InFile
  <2>12. QED
    BY <2>1, <2>2, <2>3, <2>4, <2>5, <2>6, <2>7, <2>8, <2>9, <2>10, <2>11 DEF FileNext, PersistStep
<1>3. QED
  BY <1>1, <1>2

(* FileReadable of unique_tmp_path: whatever the interleaving, whatever    *)
(* write or rename fails and wherever the process dies, the file holds a   *)
(* whole version of the map, also without persist_lock.                    *)
THEOREM UniqueNamesSuffice ==
    ASSUME UniqueTmp
    PROVE  FileSpec => []FileReadable
<1>1. FileInit => UniqueInv
  BY UniqueInductive
<1>2. UniqueInv /\ [FileNext]_fileVars => UniqueInv'
  BY UniqueInductive
<1>3. UniqueInv => FileReadable
  BY DEF UniqueInv
<1>4. QED
  BY <1>1, <1>2, <1>3, PTL DEF FileSpec

-----------------------------------------------------------------------------
(* With the lock, one persist at a time is past its acquisition, and the   *)
(* snapshot it holds is not older than the file.                           *)
OneAtATime == \A w \in Writers : Busy(w) <=> lock = w

InOrder ==
    /\ Disk <= mem
    /\ \A w \in Writers : pc[w] \in {"snapped", "open", "written"} =>
          Disk <= snap[w] /\ snap[w] <= mem

LockedInv == UniqueInv /\ OneAtATime /\ InOrder

(* What each action does to the file, seen through the mapping.            *)
LEMMA DiskSteps ==
    ASSUME UniqueTmp, UniqueInv, NEW w \in Writers
    PROVE  /\ Mutate(w) \/ Cancel(w) \/ Acquire(w) \/ Snapshot(w) \/ OpenTmp(w)
              \/ WriteData(w) \/ WriteFails(w) \/ RenameFails(w) => Disk' = Disk
           /\ Rename(w) => Disk' = snap[w]
           /\ Restart => Disk' = Disk /\ Loaded = Disk
<1> USE FileAssumption DEF Versions
<1>0. w # Json /\ w # FixedTmp
  OBVIOUS
<1>t. TmpOf(w) = w /\ w \in Names /\ Json \in Names
  BY DEF TmpOf, Names
<1>1. Mutate(w) \/ Cancel(w) \/ Acquire(w) \/ Snapshot(w) => Disk' = Disk
  BY DEF Mutate, Cancel, Acquire, Snapshot, Disk
<1>2. OpenTmp(w) => Disk' = Disk
  BY <1>0, <1>t DEF OpenTmp, Free, Disk, UniqueInv, NoLeftover, InFile, FileTypeOK
<1>3. WriteData(w) => Disk' = Disk
  BY <1>0, <1>t DEF WriteData, Disk, UniqueInv, OwnInode, InFile, FileTypeOK
<1>4. WriteFails(w) => Disk' = Disk
  BY <1>0, <1>t DEF WriteFails, CleanUp, Disk, UniqueInv, OwnInode, InFile, FileTypeOK
<1>5. RenameFails(w) => Disk' = Disk
  BY <1>0, <1>t DEF RenameFails, CleanUp, Disk, UniqueInv, OwnInode, InFile, FileTypeOK
<1>6. Rename(w) => Disk' = snap[w]
  BY <1>0, <1>t DEF Rename, Disk, UniqueInv, OwnInode, InFile, FileTypeOK
<1>7. Restart => Disk' = Disk /\ Loaded = Disk
  BY <1>t DEF Restart, Disk, Loaded, UniqueInv, FileReadable
<1>8. QED
  BY <1>1, <1>2, <1>3, <1>4, <1>5, <1>6, <1>7

(* The lock keeps persists, and so the versions of the file, in order.     *)
LEMMA LockedInductive ==
    ASSUME UniqueTmp, Locked
    PROVE  /\ FileInit => LockedInv
           /\ LockedInv /\ [FileNext]_fileVars => LockedInv'
<1> USE FileAssumption
<1>1. FileInit => LockedInv
  <2> SUFFICES ASSUME FileInit PROVE LockedInv
    OBVIOUS
  <2>1. UniqueInv
    BY UniqueInductive
  <2>2. OneAtATime /\ InOrder
    BY DEF FileInit, OneAtATime, InOrder, Busy, Disk, Names
  <2>3. QED
    BY <2>1, <2>2 DEF LockedInv
<1>2. LockedInv /\ [FileNext]_fileVars => LockedInv'
  <2> SUFFICES ASSUME LockedInv, [FileNext]_fileVars PROVE LockedInv'
    OBVIOUS
  <2>u. UniqueInv /\ UniqueInv'
    BY UniqueInductive DEF LockedInv
  <2>d. Disk \in Nat /\ mem \in Nat /\ Disk <= mem /\ \A x \in Writers : snap[x] \in Nat
    BY <2>u DEF UniqueInv, FileReadable, FileTypeOK, Versions, LockedInv, InOrder
  <2>f. /\ pc \in [Writers -> {"idle", "want", "holds", "snapped", "open", "written"}]
        /\ snap \in [Writers -> Versions] /\ lock \in Writers \cup {None}
    BY <2>u DEF UniqueInv, FileTypeOK
  <2>1. ASSUME NEW w \in Writers, Mutate(w) PROVE OneAtATime' /\ InOrder'
    <3>1. Disk' = Disk BY <2>1, <2>u, DiskSteps
    <3>2. QED BY <3>1, <2>1, <2>d, <2>f DEF Mutate, LockedInv, OneAtATime, InOrder, Busy
  <2>2. ASSUME NEW w \in Writers, Cancel(w) PROVE OneAtATime' /\ InOrder'
    <3>1. Disk' = Disk BY <2>2, <2>u, DiskSteps
    <3>2. QED BY <3>1, <2>2, <2>d, <2>f DEF Cancel, Release, LockedInv, OneAtATime, InOrder, Busy
  <2>3. ASSUME NEW w \in Writers, Acquire(w) PROVE OneAtATime' /\ InOrder'
    <3>1. Disk' = Disk BY <2>3, <2>u, DiskSteps
    <3>2. QED BY <3>1, <2>3, <2>d, <2>f DEF Acquire, LockedInv, OneAtATime, InOrder, Busy
  <2>4. ASSUME NEW w \in Writers, Snapshot(w) PROVE OneAtATime' /\ InOrder'
    <3>1. Disk' = Disk BY <2>4, <2>u, DiskSteps
    <3>2. QED BY <3>1, <2>4, <2>d, <2>f DEF Snapshot, LockedInv, OneAtATime, InOrder, Busy
  <2>5. ASSUME NEW w \in Writers, OpenTmp(w) PROVE OneAtATime' /\ InOrder'
    <3>1. Disk' = Disk BY <2>5, <2>u, DiskSteps
    <3>2. QED BY <3>1, <2>5, <2>d, <2>f DEF OpenTmp, LockedInv, OneAtATime, InOrder, Busy
  <2>6. ASSUME NEW w \in Writers, WriteData(w) PROVE OneAtATime' /\ InOrder'
    <3>1. Disk' = Disk BY <2>6, <2>u, DiskSteps
    <3>2. QED BY <3>1, <2>6, <2>d, <2>f DEF WriteData, LockedInv, OneAtATime, InOrder, Busy
  <2>7. ASSUME NEW w \in Writers, WriteFails(w) PROVE OneAtATime' /\ InOrder'
    <3>1. Disk' = Disk BY <2>7, <2>u, DiskSteps
    <3>2. QED BY <3>1, <2>7, <2>d, <2>f DEF WriteFails, Release, LockedInv, OneAtATime, InOrder, Busy
  <2>8. ASSUME NEW w \in Writers, Rename(w) PROVE OneAtATime' /\ InOrder'
    <3>1. Disk' = snap[w] BY <2>8, <2>u, DiskSteps
    <3>2. QED BY <3>1, <2>8, <2>d, <2>f DEF Rename, Release, LockedInv, OneAtATime, InOrder, Busy
  <2>9. ASSUME NEW w \in Writers, RenameFails(w) PROVE OneAtATime' /\ InOrder'
    <3>1. Disk' = Disk BY <2>9, <2>u, DiskSteps
    <3>2. QED BY <3>1, <2>9, <2>d, <2>f DEF RenameFails, Release, LockedInv, OneAtATime, InOrder, Busy
  <2>10. ASSUME Restart PROVE OneAtATime' /\ InOrder'
    <3>1. Disk' = Disk /\ Loaded = Disk
      BY <2>10, <2>u DEF Restart, Disk, Loaded, UniqueInv, FileReadable, Names
    <3>2. QED BY <3>1, <2>10, <2>d DEF Restart, OneAtATime, InOrder, Busy
  <2>11. ASSUME UNCHANGED fileVars PROVE OneAtATime' /\ InOrder'
    BY <2>11 DEF fileVars, LockedInv, OneAtATime, InOrder, Busy, Disk
  <2>12. QED
    BY <2>u, <2>1, <2>2, <2>3, <2>4, <2>5, <2>6, <2>7, <2>8, <2>9, <2>10, <2>11
       DEF FileNext, PersistStep, LockedInv
<1>3. QED
  BY <1>1, <1>2

(* WorkflowEngine::persist implements DurableMap: with the lock and the    *)
(* unique names, every step of the file protocol is a change of the map, a *)
(* forward move of the file, a restart, or invisible.                      *)
THEOREM LockedPersistIsDurable ==
    ASSUME UniqueTmp, Locked
    PROVE  FileSpec => ImplementsDurableMap
<1> USE FileAssumption
<1>1. FileInit => LockedInv
  BY LockedInductive
<1>2. LockedInv /\ [FileNext]_fileVars => LockedInv'
  BY LockedInductive
<1>3. FileInit => Promise!Init
  BY DEF FileInit, Promise!Init, Disk, Names
<1>4. LockedInv /\ [FileNext]_fileVars => [Promise!Next]_Promise!vars
  <2> SUFFICES ASSUME LockedInv, [FileNext]_fileVars PROVE [Promise!Next]_Promise!vars
    OBVIOUS
  <2>u. UniqueInv
    BY DEF LockedInv
  <2>d. Disk \in Nat /\ mem \in Nat /\ \A x \in Writers : snap[x] \in Nat
    BY <2>u DEF UniqueInv, FileReadable, FileTypeOK, Versions
  <2>1. ASSUME NEW w \in Writers, Mutate(w) PROVE Promise!Mutate
    <3>1. Disk' = Disk BY <2>1, <2>u, DiskSteps
    <3>2. QED BY <3>1, <2>1 DEF Mutate, Promise!Mutate
  <2>2. ASSUME NEW w \in Writers, Rename(w) PROVE Promise!Save
    <3>1. Disk' = snap[w] BY <2>2, <2>u, DiskSteps
    <3>2. Disk <= snap[w] /\ snap[w] <= mem
      BY <2>2 DEF Rename, LockedInv, InOrder
    <3>3. QED BY <3>1, <3>2, <2>2, <2>d DEF Rename, Promise!Save
  <2>3. ASSUME Restart PROVE Promise!Restart
    <3>1. Disk' = Disk /\ Loaded = Disk
      BY <2>3, <2>u DEF Restart, Disk, Loaded, UniqueInv, FileReadable, Names
    <3>2. QED BY <3>1, <2>3 DEF Restart, Promise!Restart
  <2>4. ASSUME NEW w \in Writers,
               Cancel(w) \/ Acquire(w) \/ Snapshot(w) \/ OpenTmp(w) \/ WriteData(w)
               \/ WriteFails(w) \/ RenameFails(w)
        PROVE  UNCHANGED Promise!vars
    <3>1. Disk' = Disk BY <2>4, <2>u, DiskSteps
    <3>2. mem' = mem
      BY <2>4 DEF Cancel, Acquire, Snapshot, OpenTmp, WriteData, WriteFails, RenameFails
    <3>3. QED BY <3>1, <3>2 DEF Promise!vars
  <2>5. ASSUME UNCHANGED fileVars PROVE UNCHANGED Promise!vars
    BY <2>5 DEF fileVars, Promise!vars, Disk
  <2>6. QED
    BY <2>1, <2>2, <2>3, <2>4, <2>5 DEF FileNext, PersistStep, Promise!Next
<1>5. QED
  BY <1>1, <1>2, <1>3, <1>4, PTL DEF FileSpec, ImplementsDurableMap, Promise!Spec

=============================================================================
