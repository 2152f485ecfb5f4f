------------------------- MODULE DaemonLoops_proofs -------------------------
(***************************************************************************)
(* Proofs about the daemon's loops: the safety of the background loops,    *)
(* the circuit breaker, the Telegram bridge and the Discord gateway, for   *)
(* any number of agents, calls, permits, messages, restarts, sessions and  *)
(* events, and any durations.                                              *)
(***************************************************************************)
EXTENDS DaemonLoops, TLAPS, FiniteSetTheorems, SequenceTheorems

-----------------------------------------------------------------------------
(* The background loops.                                                   *)

(* A loop whose flag is clear has no prompt anywhere, and only the flag's  *)
(* owner clears it; the queue holds loops that wait, each at one place.    *)
FlagGuards ==
    \A a \in Agents : ~busy[a] => loop[a] # "wait" /\ turns[a] = 0 /\ clearing[a] = 0

QueueWaits ==
    /\ \A i \in DOMAIN queue : loop[queue[i]] = "wait"
    /\ \A i, j \in DOMAIN queue : queue[i] = queue[j] => i = j

BackgroundInv ==
    /\ BG!TypeOK
    /\ BG!OneTickPerAgent
    /\ FlagGuards
    /\ QueueWaits
    /\ IsFiniteSet(BG!Running)
    /\ BG!PermitsConserved

LEMMA PermitsType == Permits \in Nat
BY LoopsAssumption

LEMMA Counting == ASSUME NEW S PROVE BG!Cardinality(S) = Cardinality(S)
BY DEF BG!Cardinality, Cardinality

LEMMA BackgroundInit == BG!Init => BackgroundInv
<1> SUFFICES ASSUME BG!Init PROVE BackgroundInv
  OBVIOUS
<1>1. BG!TypeOK /\ QueueWaits
  <2>1. queue = <<>> /\ queue \in Seq(Agents) /\ DOMAIN queue = {}
    BY DEF BG!Init
  <2> QED BY <2>1, PermitsType DEF BG!Init, BG!TypeOK, QueueWaits
<1>2. BG!Running = {}
  BY DEF BG!Init, BG!Running
<1>3. BG!PermitsConserved /\ IsFiniteSet(BG!Running)
  <2>1. IsFiniteSet(BG!Running) /\ Cardinality(BG!Running) = 0
    BY <1>2, FS_EmptySet
  <2> QED BY <2>1, PermitsType, Counting DEF BG!Init, BG!PermitsConserved
<1>4. BG!OneTickPerAgent /\ FlagGuards
  BY DEF BG!Init, BG!OneTickPerAgent, FlagGuards
<1> QED BY <1>1, <1>3, <1>4 DEF BackgroundInv

(* A step that starts and ends no turn keeps the permits.                  *)
LEMMA PermitsStay ==
    ASSUME BackgroundInv, UNCHANGED <<free, turns>>
    PROVE  IsFiniteSet(BG!Running)' /\ BG!PermitsConserved'
<1>1. BG!Running' = BG!Running
  BY DEF BG!Running
<1> QED BY <1>1 DEF BackgroundInv, BG!PermitsConserved

LEMMA WakeKeeps == ASSUME BackgroundInv, NEW a \in Agents, BG!Wake(a) PROVE BackgroundInv'
<1>1. /\ loop[a] = "sleep" /\ ~busy[a] /\ UNCHANGED <<free, turns, clearing, down>>
      /\ busy' = [busy EXCEPT ![a] = TRUE] /\ loop' = [loop EXCEPT ![a] = "wait"]
      /\ queue' = Append(queue, a)
  BY DEF BG!Wake
<1>2. BG!TypeOK'
  BY <1>1 DEF BackgroundInv, BG!TypeOK
<1>3. turns[a] = 0 /\ clearing[a] = 0
  BY <1>1 DEF BackgroundInv, FlagGuards
<1>4. BG!OneTickPerAgent'
  BY <1>1, <1>3 DEF BackgroundInv, BG!OneTickPerAgent, BG!TypeOK
<1>5. FlagGuards'
  BY <1>1 DEF BackgroundInv, FlagGuards, BG!TypeOK
<1>6. QueueWaits'
  <2>1. Len(queue') = Len(queue) + 1 /\ queue'[Len(queue) + 1] = a
        /\ \A i \in 1..Len(queue) : queue'[i] = queue[i] /\ queue[i] \in Agents
        /\ DOMAIN queue = 1..Len(queue) /\ DOMAIN queue' = 1..Len(queue) + 1
        /\ Len(queue) \in Nat
    BY <1>1 DEF BackgroundInv, BG!TypeOK
  <2>2. \A i \in 1..Len(queue) : queue[i] # a
    BY <1>1, <2>1 DEF BackgroundInv, QueueWaits
  <2>3. \A b \in Agents : loop'[b] = IF b = a THEN "wait" ELSE loop[b]
    BY <1>1 DEF BackgroundInv, BG!TypeOK
  <2>4. \A i \in DOMAIN queue' : i \in 1..Len(queue) \/ i = Len(queue) + 1
    BY <2>1
  <2>5. \A i \in DOMAIN queue' : loop'[queue'[i]] = "wait"
    BY <2>1, <2>2, <2>3, <2>4 DEF BackgroundInv, QueueWaits
  <2>6. \A i, j \in DOMAIN queue' : queue'[i] = queue'[j] => i = j
    BY <2>1, <2>2, <2>4 DEF BackgroundInv, QueueWaits
  <2> QED BY <2>5, <2>6 DEF QueueWaits
<1> QED BY <1>1, <1>2, <1>4, <1>5, <1>6, PermitsStay DEF BackgroundInv

LEMMA AcquireKeeps == ASSUME BackgroundInv, BG!Acquire PROVE BackgroundInv'
<1> DEFINE a == Head(queue)
<1>1. /\ queue # <<>> /\ free > 0 /\ UNCHANGED <<busy, clearing, down>>
      /\ loop' = [loop EXCEPT ![a] = "sleep"] /\ turns' = [turns EXCEPT ![a] = @ + 1]
      /\ queue' = Tail(queue) /\ free' = free - 1
  BY DEF BG!Acquire
<1>2. a \in Agents /\ a = queue[1] /\ 1 \in DOMAIN queue
  BY <1>1 DEF BackgroundInv, BG!TypeOK
<1> HIDE DEF a
<1>3. loop[a] = "wait" /\ turns[a] = 0 /\ clearing[a] = 0 /\ busy[a]
  BY <1>2 DEF BackgroundInv, QueueWaits, BG!OneTickPerAgent, BG!TypeOK, FlagGuards
<1>4. BG!TypeOK'
  BY <1>1, <1>2 DEF BackgroundInv, BG!TypeOK
<1>5. BG!OneTickPerAgent' /\ FlagGuards'
  BY <1>1, <1>2, <1>3 DEF BackgroundInv, BG!OneTickPerAgent, FlagGuards, BG!TypeOK
<1>6. QueueWaits'
  <2>1. /\ DOMAIN queue' = 1..(Len(queue) - 1) /\ DOMAIN queue = 1..Len(queue)
        /\ Len(queue) \in Nat /\ \A i \in DOMAIN queue' : queue'[i] = queue[i + 1]
        /\ \A i \in DOMAIN queue : queue[i] \in Agents
    BY <1>1 DEF BackgroundInv, BG!TypeOK
  <2>2. \A i \in DOMAIN queue' : i + 1 \in DOMAIN queue /\ queue[i + 1] # a
    BY <1>2, <2>1 DEF BackgroundInv, QueueWaits
  <2>3. \A b \in Agents : b # a => loop'[b] = loop[b]
    BY <1>1 DEF BackgroundInv, BG!TypeOK
  <2>4. \A i \in DOMAIN queue' : loop'[queue'[i]] = "wait"
    BY <2>1, <2>2, <2>3 DEF BackgroundInv, QueueWaits
  <2>5. \A i, j \in DOMAIN queue' : queue'[i] = queue'[j] => i = j
    BY <2>1, <2>2 DEF BackgroundInv, QueueWaits
  <2> QED BY <2>4, <2>5 DEF QueueWaits
<1>7. BG!Running' = BG!Running \cup {a} /\ a \notin BG!Running
  BY <1>1, <1>2, <1>3 DEF BG!Running, BackgroundInv, BG!TypeOK
<1>8. IsFiniteSet(BG!Running)' /\ Cardinality(BG!Running') = Cardinality(BG!Running) + 1
      /\ Cardinality(BG!Running) \in Nat
  BY <1>7, FS_AddElement, FS_CardinalityType DEF BackgroundInv
<1>9. BG!PermitsConserved'
  BY <1>1, <1>8, PermitsType, Counting DEF BackgroundInv, BG!PermitsConserved, BG!TypeOK
<1> QED BY <1>4, <1>5, <1>6, <1>8, <1>9 DEF BackgroundInv

LEMMA ReleaseKeeps == ASSUME BackgroundInv, NEW a \in Agents, BG!Release(a) PROVE BackgroundInv'
<1>1. /\ turns[a] > 0 /\ UNCHANGED <<loop, busy, queue, down>>
      /\ turns' = [turns EXCEPT ![a] = @ - 1] /\ clearing' = [clearing EXCEPT ![a] = @ + 1]
      /\ free' = free + 1
  BY DEF BG!Release
<1>2. turns[a] = 1 /\ clearing[a] = 0 /\ busy[a]
  BY <1>1 DEF BackgroundInv, BG!OneTickPerAgent, BG!TypeOK, FlagGuards
<1>3. BG!TypeOK'
  BY <1>1, <1>2 DEF BackgroundInv, BG!TypeOK
<1>4. BG!OneTickPerAgent' /\ FlagGuards'
  BY <1>1, <1>2 DEF BackgroundInv, BG!OneTickPerAgent, FlagGuards, BG!TypeOK
<1>5. QueueWaits'
  BY <1>1 DEF BackgroundInv, QueueWaits
<1>6. BG!Running' = BG!Running \ {a} /\ a \in BG!Running
  BY <1>1, <1>2 DEF BG!Running, BackgroundInv, BG!TypeOK
<1>7. IsFiniteSet(BG!Running)' /\ Cardinality(BG!Running') = Cardinality(BG!Running) - 1
      /\ Cardinality(BG!Running) \in Nat
  BY <1>6, FS_RemoveElement, FS_CardinalityType DEF BackgroundInv
<1>8. BG!PermitsConserved'
  BY <1>1, <1>7, PermitsType, Counting DEF BackgroundInv, BG!PermitsConserved, BG!TypeOK
<1> QED BY <1>3, <1>4, <1>5, <1>7, <1>8 DEF BackgroundInv

LEMMA ClearKeeps == ASSUME BackgroundInv, NEW a \in Agents, BG!Clear(a) PROVE BackgroundInv'
<1>1. /\ clearing[a] > 0 /\ UNCHANGED <<loop, free, queue, turns, down>>
      /\ clearing' = [clearing EXCEPT ![a] = @ - 1] /\ busy' = [busy EXCEPT ![a] = FALSE]
  BY DEF BG!Clear
<1>2. clearing[a] = 1 /\ turns[a] = 0 /\ loop[a] # "wait"
  BY <1>1 DEF BackgroundInv, BG!OneTickPerAgent, BG!TypeOK
<1>3. BG!TypeOK'
  BY <1>1, <1>2 DEF BackgroundInv, BG!TypeOK
<1>4. \A b \in Agents : IF b = a THEN clearing'[b] = 0 /\ ~busy'[b]
                         ELSE clearing'[b] = clearing[b] /\ busy'[b] = busy[b]
  BY <1>1, <1>2 DEF BackgroundInv, BG!TypeOK
<1>5. BG!OneTickPerAgent' /\ FlagGuards'
  BY <1>1, <1>2, <1>4 DEF BackgroundInv, BG!OneTickPerAgent, FlagGuards
<1>6. QueueWaits'
  BY <1>1 DEF BackgroundInv, QueueWaits
<1> QED BY <1>1, <1>3, <1>5, <1>6, PermitsStay DEF BackgroundInv

LEMMA ExitKeeps == ASSUME BackgroundInv, NEW a \in Agents, BG!Exit(a) PROVE BackgroundInv'
<1>1. /\ loop[a] = "sleep" /\ UNCHANGED <<busy, free, queue, turns, clearing, down>>
      /\ loop' = [loop EXCEPT ![a] = "ended"]
  BY DEF BG!Exit
<1>2. BG!TypeOK' /\ BG!OneTickPerAgent' /\ FlagGuards'
  BY <1>1 DEF BackgroundInv, BG!TypeOK, BG!OneTickPerAgent, FlagGuards
<1>3. QueueWaits'
  BY <1>1 DEF BackgroundInv, QueueWaits, BG!TypeOK
<1> QED BY <1>1, <1>2, <1>3, PermitsStay DEF BackgroundInv

(* A loop that is stopped while it waits leaves its one place in the queue.*)
LEMMA StopAgentKeeps ==
    ASSUME BackgroundInv, NEW a \in Agents, BG!StopAgent(a) PROVE BackgroundInv'
<1>1. /\ UNCHANGED <<busy, free, turns, clearing, down>>
      /\ loop' = [loop EXCEPT ![a] = "ended"]
  BY DEF BG!StopAgent
<1>2. BG!OneTickPerAgent' /\ FlagGuards'
  BY <1>1 DEF BackgroundInv, BG!TypeOK, BG!OneTickPerAgent, FlagGuards
<1>3. CASE loop[a] = "sleep" /\ UNCHANGED queue
  <2>1. BG!TypeOK' /\ QueueWaits'
    BY <1>1, <1>3 DEF BackgroundInv, QueueWaits, BG!TypeOK
  <2> QED BY <1>1, <1>2, <2>1, PermitsStay DEF BackgroundInv
<1>4. ASSUME NEW i \in DOMAIN queue, queue[i] = a, queue' = BG!RemoveAt(queue, i)
      PROVE  BackgroundInv'
  <2>1. /\ queue \in Seq(Agents) /\ DOMAIN queue = 1..Len(queue) /\ Len(queue) \in Nat
        /\ i \in 1..Len(queue)
    BY <1>4 DEF BackgroundInv, BG!TypeOK
  <2>2. /\ queue' \in Seq(Agents) /\ DOMAIN queue' = 1..(Len(queue) - 1)
        /\ \A k \in 1..(Len(queue) - 1) :
              queue'[k] = queue[IF k < i THEN k ELSE k + 1]
    <3> DEFINE u == SubSeq(queue, 1, i - 1)
               v == SubSeq(queue, i + 1, Len(queue))
    <3>1. /\ u \in Seq(Agents) /\ Len(u) = i - 1
          /\ \A k \in 1..(i - 1) : u[k] = queue[k]
      BY <2>1
    <3>2. /\ v \in Seq(Agents) /\ Len(v) = Len(queue) - i
          /\ \A k \in 1..(Len(queue) - i) : v[k] = queue[k + i]
      BY <2>1
    <3>3. queue' = u \o v
      BY <1>4 DEF BG!RemoveAt
    <3> HIDE DEF u, v
    <3>4. /\ queue' \in Seq(Agents) /\ Len(queue') = Len(u) + Len(v)
          /\ \A k \in 1..(Len(u) + Len(v)) :
                queue'[k] = IF k <= Len(u) THEN u[k] ELSE v[k - Len(u)]
      BY <3>1, <3>2, <3>3, ConcatProperties
    <3>5. Len(u) + Len(v) = Len(queue) - 1 /\ DOMAIN queue' = 1..(Len(queue) - 1)
      BY <2>1, <3>1, <3>2, <3>4
    <3>6. ASSUME NEW k \in 1..(Len(queue) - 1)
          PROVE  queue'[k] = queue[IF k < i THEN k ELSE k + 1]
      <4>1. CASE k < i
        <5>1. k <= Len(u) /\ k \in 1..(i - 1)
          BY <2>1, <3>1, <4>1
        <5> QED BY <3>1, <3>4, <3>5, <4>1, <5>1
      <4>2. CASE ~(k < i)
        <5>1. /\ ~(k <= Len(u)) /\ k - Len(u) \in 1..(Len(queue) - i)
              /\ (k - Len(u)) + i = k + 1
          BY <2>1, <3>1, <4>2
        <5>2. queue'[k] = v[k - Len(u)]
          BY <3>4, <3>5, <5>1
        <5> QED BY <3>2, <4>2, <5>1, <5>2
      <4> QED BY <4>1, <4>2
    <3> QED BY <3>4, <3>5, <3>6
  <2>3. BG!TypeOK'
    BY <1>1, <2>2 DEF BackgroundInv, BG!TypeOK
  <2>4. \A k \in DOMAIN queue : k # i => queue[k] # a /\ queue[k] \in Agents
    BY <1>4, <2>1 DEF BackgroundInv, QueueWaits
  <2>5. \A b \in Agents : b # a => loop'[b] = loop[b]
    BY <1>1 DEF BackgroundInv, BG!TypeOK
  <2>6. \A k \in DOMAIN queue' : \E m \in DOMAIN queue :
            m = (IF k < i THEN k ELSE k + 1) /\ m # i /\ queue'[k] = queue[m]
    BY <2>1, <2>2
  <2>7. \A k \in DOMAIN queue' : loop'[queue'[k]] = "wait"
    BY <2>4, <2>5, <2>6 DEF BackgroundInv, QueueWaits
  <2>8. \A k, l \in DOMAIN queue' : queue'[k] = queue'[l] => k = l
    BY <2>1, <2>2, <2>6 DEF BackgroundInv, QueueWaits
  <2>9. QueueWaits'
    BY <2>7, <2>8 DEF QueueWaits
  <2> QED BY <1>1, <1>2, <2>3, <2>9, PermitsStay DEF BackgroundInv
<1> QED BY <1>3, <1>4 DEF BG!StopAgent

LEMMA BackgroundStep == BackgroundInv /\ BG!Next => BackgroundInv'
<1> SUFFICES ASSUME BackgroundInv, BG!Next PROVE BackgroundInv'
  OBVIOUS
<1>1. CASE BG!Signal
  <2>1. UNCHANGED <<loop, busy, free, queue, turns, clearing>> /\ down' \in BOOLEAN
    BY <1>1 DEF BG!Signal
  <2> QED
    BY <2>1, PermitsStay DEF BackgroundInv, BG!TypeOK, BG!OneTickPerAgent, FlagGuards, QueueWaits
<1> QED
  BY <1>1, WakeKeeps, AcquireKeeps, ReleaseKeeps, ClearKeeps, ExitKeeps, StopAgentKeeps
  DEF BG!Next

LEMMA BackgroundStutters == BackgroundInv /\ UNCHANGED bgVars => BackgroundInv'
BY DEF bgVars, BackgroundInv, BG!TypeOK, BG!OneTickPerAgent, FlagGuards, QueueWaits,
       BG!Running, BG!PermitsConserved

(* An agent's prompts never overlap and every permit is accounted for, for *)
(* any number of agents and permits, through kills, panics and shutdown    *)
(* (background.rs).                                                        *)
THEOREM BackgroundIsSound == Spec => []BackgroundSound
<1>1. Init => BackgroundInv
  BY BackgroundInit DEF Init
<1>2. BackgroundInv /\ [Next]_vars => BackgroundInv'
  BY BackgroundStep, BackgroundStutters
  DEF Next, Background, Breaker, Bridge, Gateway, vars
<1>3. BackgroundInv => BackgroundSound
  BY DEF BackgroundInv, BackgroundSound
<1> QED BY <1>1, <1>2, <1>3, PTL DEF Spec

-----------------------------------------------------------------------------
(* The circuit breaker.                                                    *)

(* Errors are counted only while the breaker is open, and then the last    *)
(* failure is what started the cooldown and pinned the next probe.         *)
BreakerInv ==
    /\ call \in [Calls -> [pc : {"idle", "trying", "sleeping"}, attempt : Nat]]
    /\ errors > 0 => open
    /\ open => probed /\ age = sinceFail /\ probeAge = sinceFail

LEMMA BreakerInit == PC!Init => BreakerInv
BY DEF PC!Init, PC!Idle, BreakerInv

LEMMA BreakerStep == BreakerInv /\ PC!Next => BreakerInv'
<1> SUFFICES ASSUME BreakerInv, PC!Next PROVE BreakerInv'
  OBVIOUS
<1> USE DEF BreakerInv
<1>1. ASSUME NEW c \in Calls, PC!Begin(c) \/ PC!Transient(c) \/ PC!Retry(c) \/ PC!Abort(c)
      PROVE  BreakerInv'
  <2>1. UNCHANGED <<errors, open, probed, age, probeAge, sinceFail>>
    BY <1>1 DEF PC!Begin, PC!Transient, PC!Retry, PC!Abort, PC!breaker
  <2>2. call' \in [Calls -> [pc : {"idle", "trying", "sleeping"}, attempt : Nat]]
    BY <1>1 DEF PC!Begin, PC!Transient, PC!Retry, PC!Abort, PC!Idle
  <2> QED BY <2>1, <2>2
<1>2. ASSUME NEW c \in Calls, PC!Succeed(c) PROVE BreakerInv'
  BY <1>2 DEF PC!Succeed, PC!RecordSuccess, PC!Idle
<1>3. ASSUME NEW c \in Calls, NEW bill \in BOOLEAN, PC!Fail(c, bill) PROVE BreakerInv'
  BY <1>3 DEF PC!Fail, PC!RecordFailure, PC!Idle
<1>4. CASE PC!Tick
  BY <1>4 DEF PC!Tick
<1>5. CASE PC!Flip
  BY <1>5 DEF PC!Flip, PC!breaker
<1> QED BY <1>1, <1>2, <1>3, <1>4, <1>5 DEF PC!Next

LEMMA BreakerStutters == BreakerInv /\ UNCHANGED pcVars => BreakerInv'
BY DEF pcVars, BreakerInv

(* Only check() lets a call begin; a retry continues one that has begun.   *)
LEMMA BeginsAreThrottled ==
    ASSUME BreakerInv, PC!Next, NEW c \in Calls,
           call[c].pc = "idle", call'[c].pc = "trying", errors > 0
    PROVE  sinceFail >= ProbeInterval \/ sinceFail >= duration
<1> USE DEF BreakerInv
<1>1. PC!Begin(c)
  <2>1. ASSUME NEW d \in Calls, PC!Begin(d) PROVE d = c
    BY <2>1 DEF PC!Begin
  <2>2. ASSUME NEW d \in Calls,
               \/ PC!Succeed(d) \/ PC!Abort(d) \/ \E bill \in BOOLEAN : PC!Fail(d, bill)
        PROVE  FALSE
    BY <2>2 DEF PC!Succeed, PC!Abort, PC!Fail, PC!Idle
  <2>3. ASSUME NEW d \in Calls, PC!Transient(d) PROVE FALSE
    BY <2>3 DEF PC!Transient
  <2>4. ASSUME NEW d \in Calls, PC!Retry(d) PROVE FALSE
    BY <2>4 DEF PC!Retry
  <2>5. ~PC!Tick /\ ~PC!Flip
    BY DEF PC!Tick, PC!Flip
  <2> QED BY <2>1, <2>2, <2>3, <2>4, <2>5 DEF PC!Next
<1> QED BY <1>1 DEF PC!Begin, PC!Verdict

(* While the breaker is open a call begins one probe interval after the    *)
(* last recorded failure at the earliest, or after the whole cooldown, for *)
(* all durations and in whatever order results are recorded                *)
(* (auth_cooldown.rs).                                                     *)
THEOREM ProbesWait == Spec => ProbesAreThrottled
<1> DEFINE Throttled ==
        \A c \in Calls : (call[c].pc = "idle" /\ call'[c].pc = "trying" /\ errors > 0)
            => sinceFail >= ProbeInterval \/ sinceFail >= duration
<1>1. Init => BreakerInv
  BY BreakerInit DEF Init
<1>2. BreakerInv /\ [Next]_vars => BreakerInv'
  BY BreakerStep, BreakerStutters
  DEF Next, Background, Breaker, Bridge, Gateway, vars
<1>3. BreakerInv /\ [Next]_vars => [Throttled]_PC!vars
  <2>1. BreakerInv /\ PC!Next => Throttled
    BY BeginsAreThrottled
  <2>2. UNCHANGED pcVars => UNCHANGED PC!vars
    BY DEF pcVars, PC!vars, PC!breaker
  <2> QED BY <2>1, <2>2 DEF Next, Background, Breaker, Bridge, Gateway, vars
<1>4. [][Throttled]_PC!vars <=> ProbesAreThrottled
  BY DEF ProbesAreThrottled, PC!ProbesAreThrottled
<1> QED BY <1>1, <1>2, <1>3, <1>4, PTL DEF Spec

-----------------------------------------------------------------------------
(* The Discord gateway.                                                    *)

(* A client with a session has handed on the events up to its sequence     *)
(* number, and over a live connection the server's cursor is that number.  *)
GatewayInv ==
    /\ sessions \in Nat /\ sequence \in Nat /\ cursor \in Nat
    /\ session # 0 => sequence > 0 /\ got = [k \in 1..sequence - 1 |-> k + 1]
    /\ link \in {"resume", "live"} => session # 0
    /\ link = "live" => cursor = sequence

LEMMA GatewayInit == DG!Init => GatewayInv
BY DEF DG!Init, GatewayInv

LEMMA GatewayStep == GatewayInv /\ DG!Next => GatewayInv'
<1> SUFFICES ASSUME GatewayInv, DG!Next PROVE GatewayInv'
  OBVIOUS
<1>1. CASE DG!Connect \/ DG!Hello \/ DG!Drop \/ DG!Leave
  BY <1>1 DEF GatewayInv, DG!Connect, DG!Hello, DG!Drop, DG!Leave, DG!server
<1>2. CASE DG!Stop \/ DG!Happen \/ DG!Forget
  BY <1>2 DEF GatewayInv, DG!Stop, DG!Happen, DG!Forget, DG!server, DG!client
<1>3. CASE DG!Ready
  <2>1. /\ sessions' = sessions + 1 /\ session' = sessions' /\ sequence' = 1 /\ cursor' = 1
        /\ link' = "live" /\ got' = <<>>
    BY <1>3 DEF DG!Ready
  <2>2. <<>> = [k \in 1..0 |-> k + 1]
    OBVIOUS
  <2> QED BY <2>1, <2>2 DEF GatewayInv
<1>4. CASE DG!Resumed
  BY <1>4 DEF GatewayInv, DG!Resumed
<1>5. CASE DG!Invalid
  BY <1>5 DEF GatewayInv, DG!Invalid, DG!server
<1>6. CASE DG!Deliver
  <2>1. /\ link = "live" /\ link' = "live" /\ UNCHANGED <<session, sessions>>
        /\ cursor' = cursor + 1 /\ sequence' = cursor + 1 /\ got' = Append(got, cursor + 1)
    BY <1>6 DEF DG!Deliver
  <2>2. session # 0 /\ cursor = sequence /\ sequence \in Nat /\ sequence > 0
    BY <2>1 DEF GatewayInv
  <2>3. got = [k \in 1..sequence - 1 |-> k + 1]
    BY <2>2 DEF GatewayInv
  <2>4. /\ got \in Seq(Nat) /\ Len(got) = sequence - 1
    BY <2>2, <2>3
  <2>5. Append(got, sequence + 1) = [k \in 1..sequence |-> k + 1]
    BY <2>2, <2>3, <2>4
  <2> QED BY <2>1, <2>2, <2>5 DEF GatewayInv
<1> QED BY <1>1, <1>2, <1>3, <1>4, <1>5, <1>6 DEF DG!Next

LEMMA GatewayStutters == GatewayInv /\ UNCHANGED dgVars => GatewayInv'
BY DEF dgVars, GatewayInv

(* For any number of sessions, events and dropped connections the events   *)
(* of a session are handed on in order, none twice and none left out       *)
(* (discord.rs).                                                           *)
THEOREM EventsArriveInOrder == Spec => []GatewayResumes
<1>1. Init => GatewayInv
  BY GatewayInit DEF Init
<1>2. GatewayInv /\ [Next]_vars => GatewayInv'
  BY GatewayStep, GatewayStutters
  DEF Next, Background, Breaker, Bridge, Gateway, vars
<1>3. GatewayInv => GatewayResumes
  BY DEF GatewayInv, GatewayResumes, DG!EventsContiguous
<1> QED BY <1>1, <1>2, <1>3, PTL DEF Spec

-----------------------------------------------------------------------------
(* The Telegram bridge.                                                    *)

(* Update i needs no further attention: filtered, dispatched, dropped with *)
(* a queue, or waiting in it.                                              *)
Settled(i) == updates[i] = "junk" \/ i \in gone \/ \E k \in DOMAIN inbox : inbox[k] = i

BridgeTypes ==
    /\ updates \in Seq(CB!Kinds) /\ inbox \in Seq(Nat) /\ batch \in Seq(Nat)
    /\ confirmed \in 1..Len(updates) + 1
    /\ offset \in 0..Len(updates) + 1
    /\ latest \in Nat

(* What was dispatched and what waits is in order and below the offset.    *)
InOrder ==
    /\ offset = 0 => latest = 0 /\ inbox = <<>>
    /\ offset > 0 => latest < offset
    /\ \A k \in DOMAIN inbox : latest < inbox[k] /\ inbox[k] < offset
    /\ \A j, k \in DOMAIN inbox : j < k => inbox[j] < inbox[k]

(* The rest of the answer is a run of updates from the offset on.          *)
BatchInOrder ==
    \A k \in DOMAIN batch : /\ batch[k] = batch[1] + k - 1
                            /\ offset <= batch[k] /\ batch[k] \in DOMAIN updates

(* All updates are settled that Telegram has forgotten, that the offset of *)
(* a loop which asks again confirms, or that come before the batch.        *)
AllSettled ==
    /\ \A i \in 1..confirmed - 1 : Settled(i)
    /\ poll # "ended" => \A i \in 1..offset - 1 : Settled(i)
    /\ poll = "batch" /\ batch # <<>> => \A i \in 1..batch[1] - 1 : Settled(i)

BridgeInv == BridgeTypes /\ InOrder /\ BatchInOrder /\ AllSettled

LEMMA FirstOf == ASSUME NEW s \in Seq(Nat), s # <<>> PROVE 1 \in DOMAIN s
<1>1. Len(s) # 0 /\ Len(s) \in Nat /\ DOMAIN s = 1..Len(s)
  BY EmptySeq
<1> QED BY <1>1

LEMMA BridgeInit == CB!Init => BridgeInv
<1> SUFFICES ASSUME CB!Init PROVE BridgeInv
  OBVIOUS
<1>1. /\ updates = <<>> /\ inbox = <<>> /\ batch = <<>> /\ confirmed = 1 /\ offset = 0
      /\ latest = 0
  BY DEF CB!Init
<1>2. /\ updates \in Seq(CB!Kinds) /\ inbox \in Seq(Nat) /\ batch \in Seq(Nat)
      /\ Len(updates) = 0 /\ DOMAIN inbox = {} /\ DOMAIN batch = {}
  BY <1>1
<1> QED BY <1>1, <1>2 DEF BridgeInv, BridgeTypes, InOrder, BatchInOrder, AllSettled

LEMMA ArriveKeeps ==
    ASSUME BridgeInv, NEW kind \in CB!Kinds, CB!Arrive(kind) PROVE BridgeInv'
<1>1. /\ updates' = Append(updates, kind)
      /\ UNCHANGED <<confirmed, offset, poll, batch, inbox, latest, gone>>
  BY DEF CB!Arrive, CB!history
<1>2. /\ updates' \in Seq(CB!Kinds) /\ Len(updates') = Len(updates) + 1
      /\ Len(updates) \in Nat
      /\ DOMAIN updates = 1..Len(updates) /\ DOMAIN updates' = 1..(Len(updates) + 1)
      /\ \A i \in 1..Len(updates) : updates'[i] = updates[i]
  BY <1>1 DEF BridgeInv, BridgeTypes
<1>3. BridgeTypes' /\ InOrder'
  BY <1>1, <1>2 DEF BridgeInv, BridgeTypes, InOrder
<1>4. BatchInOrder'
  BY <1>1, <1>2 DEF BridgeInv, BatchInOrder
<1>5. \A i \in 1..Len(updates) : Settled(i) => Settled(i)'
  BY <1>1, <1>2 DEF Settled
<1>6. /\ confirmed - 1 <= Len(updates) /\ offset - 1 <= Len(updates)
      /\ confirmed \in Nat /\ offset \in Nat
  BY <1>2 DEF BridgeInv, BridgeTypes
<1>7. batch # <<>> => batch[1] - 1 <= Len(updates) /\ batch[1] \in Nat
  <2> SUFFICES ASSUME batch # <<>> PROVE batch[1] - 1 <= Len(updates) /\ batch[1] \in Nat
    OBVIOUS
  <2>1. 1 \in DOMAIN batch
    BY DEF BridgeInv, BridgeTypes
  <2> QED BY <1>2, <2>1 DEF BridgeInv, BatchInOrder
<1>8. AllSettled'
  <2>1. \A i \in 1..confirmed - 1 : Settled(i)'
    BY <1>2, <1>5, <1>6 DEF BridgeInv, AllSettled
  <2>2. poll # "ended" => \A i \in 1..offset - 1 : Settled(i)'
    BY <1>2, <1>5, <1>6 DEF BridgeInv, AllSettled
  <2>3. poll = "batch" /\ batch # <<>> => \A i \in 1..batch[1] - 1 : Settled(i)'
    BY <1>2, <1>5, <1>7 DEF BridgeInv, AllSettled
  <2> QED BY <1>1, <2>1, <2>2, <2>3 DEF AllSettled
<1> QED BY <1>3, <1>4, <1>8 DEF BridgeInv

(* Telegram forgets what the offset confirms, which is settled.            *)
LEMMA ConfirmedAreSettled ==
    ASSUME BridgeInv, poll = "wait", CB!Confirm \/ UNCHANGED confirmed
    PROVE  /\ confirmed' \in 1..Len(updates) + 1
           /\ \A i \in 1..confirmed' - 1 : Settled(i)
<1>1. confirmed' = offset \/ confirmed' = confirmed
  BY DEF CB!Confirm
<1>2. offset > confirmed \/ confirmed' = confirmed
  BY DEF CB!Confirm
<1> QED BY <1>1, <1>2 DEF BridgeInv, BridgeTypes, AllSettled

(* A step of the polling loop that takes no update.                        *)
LEMMA PollKeeps ==
    ASSUME BridgeInv, CB!Ask \/ CB!LoseAnswer \/ CB!EndPoll \/ CB!BatchDone
    PROVE  BridgeInv'
<1>1. UNCHANGED <<updates, offset, batch, inbox, latest, gone>>
  BY DEF CB!Ask, CB!LoseAnswer, CB!EndPoll, CB!BatchDone, CB!history
<1>2. /\ poll' \in {"ended", "wait", "ask"} /\ poll # "ended"
      /\ UNCHANGED confirmed \/ (poll = "wait" /\ CB!Confirm)
  BY DEF CB!Ask, CB!LoseAnswer, CB!EndPoll, CB!BatchDone
<1>3. confirmed' \in 1..Len(updates) + 1 /\ \A i \in 1..confirmed' - 1 : Settled(i)
  BY <1>2, ConfirmedAreSettled DEF BridgeInv, BridgeTypes, AllSettled
<1>4. \A i : Settled(i) => Settled(i)'
  BY <1>1 DEF Settled
<1>5. BridgeTypes' /\ InOrder' /\ BatchInOrder'
  BY <1>1, <1>3 DEF BridgeInv, BridgeTypes, InOrder, BatchInOrder
<1>6. AllSettled'
  BY <1>1, <1>2, <1>3, <1>4 DEF BridgeInv, AllSettled
<1> QED BY <1>5, <1>6 DEF BridgeInv

(* The answer begins where Telegram's memory does, behind the offset.      *)
LEMMA AnswerKeeps == ASSUME BridgeInv, CB!Answer PROVE BridgeInv'
<1>1. /\ UNCHANGED <<updates, offset, inbox, latest, gone>>
      /\ poll = "wait" /\ poll' = "batch" /\ CB!Confirm
      /\ batch' = [k \in 1..(Len(updates) + 1 - confirmed') |-> confirmed' + k - 1]
  BY DEF CB!Answer, CB!history
<1>2. confirmed' \in 1..Len(updates) + 1 /\ \A i \in 1..confirmed' - 1 : Settled(i)
  BY <1>1, ConfirmedAreSettled
<1>3. /\ Len(updates) \in Nat /\ DOMAIN updates = 1..Len(updates)
      /\ offset \in Nat /\ confirmed \in Nat /\ confirmed' \in Nat /\ offset <= confirmed'
  BY <1>1, <1>2 DEF BridgeInv, BridgeTypes, CB!Confirm
<1>4. batch' \in Seq(Nat) /\ DOMAIN batch' = 1..(Len(updates) + 1 - confirmed')
  BY <1>1, <1>2, <1>3
<1>5. \A k \in DOMAIN batch' : batch'[k] = confirmed' + k - 1
  BY <1>1, <1>4
<1>6. batch' # <<>> => 1 \in DOMAIN batch'
  BY <1>4, FirstOf
<1>7. ASSUME NEW k \in DOMAIN batch' PROVE 1 \in DOMAIN batch' /\ batch'[1] = confirmed'
  <2>1. Len(updates) + 1 - confirmed' \in Int /\ k \in 1..(Len(updates) + 1 - confirmed')
    BY <1>3, <1>4, <1>7
  <2>2. 1 \in DOMAIN batch'
    BY <1>4, <2>1
  <2> QED BY <1>3, <1>5, <2>2
<1>8. BridgeTypes' /\ InOrder'
  BY <1>1, <1>2, <1>4 DEF BridgeInv, BridgeTypes, InOrder
<1>9. BatchInOrder'
  <2> SUFFICES ASSUME NEW k \in DOMAIN batch'
               PROVE  /\ batch'[k] = batch'[1] + k - 1
                      /\ offset <= batch'[k] /\ batch'[k] \in DOMAIN updates
    BY <1>1 DEF BatchInOrder
  <2>1. batch'[k] = confirmed' + k - 1 /\ batch'[1] = confirmed'
    BY <1>5, <1>7
  <2>2. k \in 1..(Len(updates) + 1 - confirmed')
    BY <1>4
  <2>3. confirmed' + k - 1 \in 1..Len(updates) /\ offset <= confirmed' + k - 1
    BY <1>2, <1>3, <2>2
  <2> QED BY <1>3, <2>1, <2>3
<1>10. \A i : Settled(i) => Settled(i)'
  BY <1>1 DEF Settled
<1>11. AllSettled'
  BY <1>1, <1>2, <1>6, <1>7, <1>10 DEF BridgeInv, AllSettled
<1> QED BY <1>8, <1>9, <1>11 DEF BridgeInv

(* An update that is taken is filtered or queued behind all others, unless *)
(* nobody receives any more and the loop ends.                             *)
LEMMA TakeUpdateKeeps == ASSUME BridgeInv, CB!TakeUpdate PROVE BridgeInv'
<1>0. PICK u : u = Head(batch)
  OBVIOUS
<1>1. /\ UNCHANGED <<updates, confirmed, latest, gone>> /\ poll = "batch" /\ batch # <<>>
      /\ offset' = u + 1 /\ batch' = Tail(batch)
      /\ \/ updates[u] = "junk" /\ UNCHANGED <<poll, inbox>>
         \/ poll' = "ended" /\ UNCHANGED inbox
         \/ inbox' = Append(inbox, u) /\ UNCHANGED poll
  BY <1>0 DEF CB!TakeUpdate, CB!history
<1>2. /\ u = batch[1] /\ 1 \in DOMAIN batch /\ Len(batch) \in Nat
      /\ DOMAIN batch = 1..Len(batch) /\ batch' \in Seq(Nat)
      /\ DOMAIN batch' = 1..(Len(batch) - 1) /\ Len(batch') = Len(batch) - 1
      /\ \A k \in DOMAIN batch' : k + 1 \in DOMAIN batch /\ batch'[k] = batch[k + 1]
  BY <1>0, <1>1 DEF BridgeInv, BridgeTypes
<1>3. /\ u \in 1..Len(updates) /\ u \in Nat /\ offset <= u /\ Len(updates) \in Nat
      /\ offset \in Nat /\ latest \in Nat /\ DOMAIN updates = 1..Len(updates)
  <2>1. u \in DOMAIN updates /\ offset <= u
    BY <1>2 DEF BridgeInv, BatchInOrder
  <2> QED BY <2>1 DEF BridgeInv, BridgeTypes
<1>4. \A k \in DOMAIN batch' : k \in Nat /\ batch'[k] = u + k /\ batch'[k] \in DOMAIN updates
  BY <1>2, <1>3 DEF BridgeInv, BatchInOrder
<1>5. latest < offset' /\ \A k \in DOMAIN inbox : inbox[k] \in Nat /\ inbox[k] < u
  BY <1>1, <1>3 DEF BridgeInv, InOrder, BridgeTypes
<1>6. /\ inbox \in Seq(Nat) /\ DOMAIN inbox = 1..Len(inbox) /\ Len(inbox) \in Nat
  BY DEF BridgeInv, BridgeTypes
<1>7. ASSUME inbox' = Append(inbox, u)
      PROVE  /\ inbox' \in Seq(Nat) /\ DOMAIN inbox' = 1..(Len(inbox) + 1)
             /\ inbox'[Len(inbox) + 1] = u
             /\ \A k \in DOMAIN inbox : inbox'[k] = inbox[k]
  BY <1>3, <1>6, <1>7, AppendProperties
<1>8. latest < u
  BY <1>3 DEF BridgeInv, InOrder, BridgeTypes
<1>9. BridgeTypes'
  <2>1. inbox' \in Seq(Nat) /\ offset' \in 0..Len(updates) + 1
    BY <1>1, <1>3, <1>6, <1>7
  <2> QED BY <1>1, <1>2, <2>1 DEF BridgeInv, BridgeTypes
<1>10. InOrder'
  <2>1. offset' > 0 /\ latest' < offset'
    BY <1>1, <1>3, <1>5
  <2>2. CASE UNCHANGED inbox
    BY <1>1, <1>3, <1>5, <2>1, <2>2 DEF BridgeInv, InOrder
  <2>3. CASE inbox' = Append(inbox, u)
    <3>1. \A k \in DOMAIN inbox' : k \in DOMAIN inbox \/ k = Len(inbox) + 1
      BY <1>6, <1>7, <2>3
    <3>2. \A k \in DOMAIN inbox' : latest < inbox'[k] /\ inbox'[k] < offset'
      <4>1. u < offset' /\ \A k \in DOMAIN inbox : inbox[k] < offset' /\ latest < inbox[k]
        BY <1>1, <1>3, <1>5 DEF BridgeInv, InOrder
      <4> QED BY <1>7, <1>8, <2>3, <3>1, <4>1
    <3>3. \A j, k \in DOMAIN inbox' : j < k => inbox'[j] < inbox'[k]
      BY <1>5, <1>6, <1>7, <2>3, <3>1 DEF BridgeInv, InOrder
    <3> QED BY <1>1, <2>1, <3>2, <3>3 DEF InOrder
  <2> QED BY <1>1, <2>2, <2>3
<1>11. BatchInOrder'
  <2> SUFFICES ASSUME NEW k \in DOMAIN batch'
               PROVE  /\ batch'[k] = batch'[1] + k - 1
                      /\ offset' <= batch'[k] /\ batch'[k] \in DOMAIN updates
    BY <1>1 DEF BatchInOrder
  <2>1. 1 \in DOMAIN batch' /\ k \in Nat /\ k >= 1
    BY <1>2
  <2>2. batch'[k] = u + k /\ batch'[1] = u + 1 /\ batch'[k] \in DOMAIN updates
    BY <1>4, <2>1
  <2> QED BY <1>1, <1>3, <2>1, <2>2
<1>12. \A i : Settled(i) => Settled(i)'
  <2>1. \A k \in DOMAIN inbox : k \in DOMAIN inbox' /\ inbox'[k] = inbox[k]
    BY <1>1, <1>6, <1>7
  <2> QED BY <1>1, <2>1 DEF Settled
<1>13. poll' # "ended" => Settled(u)'
  <2>1. inbox' = Append(inbox, u) => Len(inbox) + 1 \in DOMAIN inbox' /\ inbox'[Len(inbox) + 1] = u
    BY <1>6, <1>7
  <2> QED BY <1>1, <2>1 DEF Settled
<1>14. poll' # "ended" => \A i \in 1..u : Settled(i)'
  <2>1. \A i \in 1..(u - 1) : Settled(i)
    BY <1>1, <1>2 DEF BridgeInv, AllSettled
  <2> QED BY <1>3, <1>12, <1>13, <2>1
<1>15. AllSettled'
  <2>1. \A i \in 1..confirmed' - 1 : Settled(i)'
    BY <1>1, <1>12 DEF BridgeInv, AllSettled
  <2>2. offset' - 1 = u /\ (batch' # <<>> => batch'[1] - 1 = u)
    <3>1. batch' # <<>> => 1 \in DOMAIN batch'
      BY <1>2
    <3> QED BY <1>1, <1>3, <1>4, <3>1
  <2> QED BY <1>14, <2>1, <2>2 DEF AllSettled
<1> QED BY <1>9, <1>10, <1>11, <1>15 DEF BridgeInv

(* Messages leave the queue in its order.                                  *)
LEMMA DispatchKeeps == ASSUME BridgeInv, CB!Dispatch PROVE BridgeInv'
<1>0. PICK u : u = Head(inbox)
  OBVIOUS
<1>1. /\ UNCHANGED <<updates, confirmed, offset, poll, batch>> /\ inbox # <<>>
      /\ inbox' = Tail(inbox) /\ latest' = u /\ gone' = gone \cup {u}
  BY <1>0 DEF CB!Dispatch
<1>2. /\ u = inbox[1] /\ 1 \in DOMAIN inbox /\ Len(inbox) \in Nat
      /\ DOMAIN inbox = 1..Len(inbox) /\ inbox' \in Seq(Nat)
      /\ DOMAIN inbox' = 1..(Len(inbox) - 1)
      /\ \A k \in DOMAIN inbox' : k + 1 \in DOMAIN inbox /\ inbox'[k] = inbox[k + 1]
      /\ \A k \in DOMAIN inbox : k \in Nat /\ k >= 1 /\ inbox[k] \in Nat
  BY <1>0, <1>1 DEF BridgeInv, BridgeTypes
<1>3. BridgeTypes' /\ BatchInOrder'
  BY <1>1, <1>2 DEF BridgeInv, BridgeTypes, BatchInOrder
<1>4. InOrder'
  <2>1. u < offset /\ offset > 0
    <3>1. u \in Nat /\ offset \in Nat
      BY <1>2 DEF BridgeInv, BridgeTypes
    <3>2. u < offset
      BY <1>2 DEF BridgeInv, InOrder
    <3> QED BY <3>1, <3>2
  <2>2. ASSUME NEW k \in DOMAIN inbox' PROVE u < inbox'[k] /\ inbox'[k] < offset
    <3>1. k + 1 \in DOMAIN inbox /\ 1 < k + 1 /\ inbox'[k] = inbox[k + 1]
      BY <1>2, <2>2
    <3> QED BY <1>2, <3>1 DEF BridgeInv, InOrder
  <2>3. \A j, k \in DOMAIN inbox' : j < k => inbox'[j] < inbox'[k]
    BY <1>2 DEF BridgeInv, InOrder
  <2> QED BY <1>1, <2>1, <2>2, <2>3 DEF InOrder
<1>5. \A i : Settled(i) => Settled(i)'
  <2>1. \A k \in DOMAIN inbox : k = 1 \/ (k - 1 \in DOMAIN inbox' /\ inbox'[k - 1] = inbox[k])
    BY <1>2
  <2> QED BY <1>1, <1>2, <2>1 DEF Settled
<1>6. AllSettled'
  BY <1>1, <1>5 DEF BridgeInv, AllSettled
<1> QED BY <1>3, <1>4, <1>6 DEF BridgeInv

(* What is dropped with the queue counts as gone.                          *)
LEMMA DroppedAreGone ==
    ASSUME BridgeInv, UNCHANGED updates, gone' = gone \cup CB!ToSet(inbox)
    PROVE  \A i : Settled(i) => Settled(i)'
BY DEF Settled, CB!ToSet

LEMMA EndDispatchKeeps == ASSUME BridgeInv, CB!EndDispatch PROVE BridgeInv'
<1>1. /\ UNCHANGED <<updates, confirmed, offset, poll, batch, latest>>
      /\ inbox' = <<>> /\ gone' = gone \cup CB!ToSet(inbox)
  BY DEF CB!EndDispatch
<1>2. inbox' \in Seq(Nat) /\ DOMAIN inbox' = {}
  BY <1>1
<1>3. BridgeTypes' /\ InOrder' /\ BatchInOrder'
  BY <1>1, <1>2 DEF BridgeInv, BridgeTypes, InOrder, BatchInOrder
<1>4. AllSettled'
  BY <1>1, DroppedAreGone DEF BridgeInv, AllSettled
<1> QED BY <1>3, <1>4 DEF BridgeInv

LEMMA RestartKeeps == ASSUME BridgeInv, CB!Restart PROVE BridgeInv'
<1>1. /\ UNCHANGED <<updates, confirmed>> /\ offset' = 0 /\ poll' = "ask" /\ batch' = <<>>
      /\ inbox' = <<>> /\ latest' = 0 /\ gone' = gone \cup CB!ToSet(inbox)
  BY DEF CB!Restart, CB!Fresh
<1>2. /\ inbox' \in Seq(Nat) /\ DOMAIN inbox' = {}
      /\ batch' \in Seq(Nat) /\ DOMAIN batch' = {}
  BY <1>1
<1>3. BridgeTypes'
  BY <1>1, <1>2 DEF BridgeInv, BridgeTypes
<1>4. InOrder' /\ BatchInOrder'
  BY <1>1, <1>2 DEF InOrder, BatchInOrder
<1>5. AllSettled'
  BY <1>1, DroppedAreGone DEF BridgeInv, AllSettled
<1> QED BY <1>3, <1>4, <1>5 DEF BridgeInv

LEMMA BridgeStep == BridgeInv /\ CB!Next => BridgeInv'
<1> SUFFICES ASSUME BridgeInv, CB!Next PROVE BridgeInv'
  OBVIOUS
<1>1. CASE CB!AskApproval \/ CB!Settle \/ CB!EndTurn \/ CB!Stop
  <2>1. UNCHANGED <<updates, confirmed, offset, poll, batch, inbox, latest, gone>>
    BY <1>1 DEF CB!AskApproval, CB!Settle, CB!EndTurn, CB!Stop, CB!history
  <2> QED
    BY <2>1 DEF BridgeInv, BridgeTypes, InOrder, BatchInOrder, AllSettled, Settled
<1>2. CASE CB!LeaveLoop \/ CB!AbortTasks
  BY <1>2, EndDispatchKeeps DEF CB!LeaveLoop, CB!AbortTasks
<1> QED
  BY <1>1, <1>2, ArriveKeeps, PollKeeps, AnswerKeeps, TakeUpdateKeeps, DispatchKeeps, RestartKeeps
  DEF CB!Next

LEMMA BridgeStutters == BridgeInv /\ UNCHANGED cbVars => BridgeInv'
BY DEF cbVars, BridgeInv, BridgeTypes, InOrder, BatchInOrder, AllSettled, Settled

LEMMA BridgeIsSafe == BridgeInv => BridgeDelivers
<1> SUFFICES ASSUME BridgeInv PROVE CB!DispatchedOnce
  BY DEF BridgeDelivers
<1> DEFINE seen == <<latest>> \o inbox
<1>1. /\ DOMAIN seen = 1..(Len(inbox) + 1) /\ Len(inbox) \in Nat
      /\ seen[1] = latest /\ \A k \in 2..(Len(inbox) + 1) : seen[k] = inbox[k - 1]
      /\ DOMAIN inbox = 1..Len(inbox)
  <2>1. /\ <<latest>> \in Seq(Nat) /\ Len(<<latest>>) = 1 /\ <<latest>>[1] = latest
        /\ inbox \in Seq(Nat)
    BY DEF BridgeInv, BridgeTypes
  <2> QED BY <2>1, ConcatProperties
<1>2. \A j, k \in DOMAIN seen : j < k => seen[j] < seen[k]
  <2> HIDE DEF seen
  <2> SUFFICES ASSUME NEW j \in DOMAIN seen, NEW k \in DOMAIN seen, j < k
               PROVE  seen[j] < seen[k]
    OBVIOUS
  <2>1. k \in 2..(Len(inbox) + 1) /\ k - 1 \in DOMAIN inbox
    BY <1>1
  <2>2. CASE j = 1
    BY <1>1, <2>1, <2>2 DEF BridgeInv, InOrder
  <2>3. CASE j # 1
    <3>1. j \in 2..(Len(inbox) + 1) /\ j - 1 \in DOMAIN inbox /\ j - 1 < k - 1
      BY <1>1, <2>1, <2>3
    <3> QED BY <1>1, <2>1, <3>1 DEF BridgeInv, InOrder
  <2> QED BY <2>2, <2>3
<1>3. \A i \in 1..confirmed - 1 : updates[i] = "junk" \/ i \in gone \cup CB!ToSet(inbox)
  BY DEF BridgeInv, AllSettled, Settled, CB!ToSet
<1> QED BY <1>2, <1>3 DEF CB!DispatchedOnce

(* Whatever answers are lost and whenever the bridge stops or restarts, no *)
(* message is dispatched twice or out of order between two starts, and     *)
(* Telegram forgets none that was not dispatched, queued or dropped with a *)
(* queue, for any number of messages, starts and queue size (telegram.rs,  *)
(* bridge.rs).                                                             *)
THEOREM MessagesAreDispatchedOnce == Spec => []BridgeDelivers
<1>1. Init => BridgeInv
  BY BridgeInit DEF Init
<1>2. BridgeInv /\ [Next]_vars => BridgeInv'
  BY BridgeStep, BridgeStutters
  DEF Next, Background, Breaker, Bridge, Gateway, vars
<1> QED BY <1>1, <1>2, BridgeIsSafe, PTL DEF Spec

=============================================================================
