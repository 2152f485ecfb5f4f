------------------------ MODULE AgentSessions_proofs ------------------------
(***************************************************************************)
(* Proofs about AgentSessions, for any number of turns, compactions and    *)
(* sessions: what a kill leaves behind, how far the quota is overshot, and *)
(* where turns which do not overlap are kept, and where not.               *)
(***************************************************************************)
EXTENDS AgentSessions, FiniteSetTheorems, TLAPS

Everyone == Turns \cup ToSet(Prior)

(* Where a task stands: before its first save, with a copy of its session  *)
(* that it will write back, with a copy that it compacts, past its final   *)
(* save, and past the canonical session.                                   *)
Unstarted == {"idle", "entered", "compact", "c_llm", "c_row"}
Loaded == {"compact", "c_llm", "c_row", "run", "seg"}
Compacting == {"c_llm", "c_row"}
Closed == {"canon", "append", "record", "done"}
Recorded == {"record", "done"}
Places == Unstarted \cup Loaded \cup Closed \cup {"refused", "failed", "aborted"}

TaskRecords == [pc : Places, sid : Nat, copy : Seq(Everyone), csid : Nat,
                ccopy : Seq(Everyone), csum : SUBSET Everyone, stream : BOOLEAN, cut : BOOLEAN]

Sids == 1..(nextSid - 1)

Types ==
    /\ nextSid \in Nat /\ current \in Sids /\ DOMAIN rows \subseteq Sids
    /\ \A s \in DOMAIN rows : rows[s] \in Seq(Everyone)
    /\ canon \in [summary : SUBSET Everyone, msgs : Seq(Everyone)]
    /\ task \in [Tasks -> TaskRecords]
    /\ \A t \in Turns : task[t].pc \notin {"idle", "refused"} => task[t].sid \in Sids
    /\ \A b \in Tasks : task[b].pc \in Compacting => task[b].csid \in Sids
    /\ \A b \in Compactors : task[b].sid = 0 /\ task[b].pc \in {"idle", "c_llm", "c_row", "done"}
    /\ handle \subseteq Turns
    /\ admin.pc = "use" => admin.sid \in Sids
    /\ summarised \subseteq Everyone

Distinct(q) == \A m, n \in DOMAIN q : q[m] = q[n] => m = n

(* Of session s alone, and nothing twice.                                  *)
Proper(q, s) == Distinct(q) /\ \A t \in ToSet(q) : SessionOf(t) = s

(* Rows and copies hold turns of their session only, each once.            *)
HomeInv ==
    /\ \A s \in DOMAIN rows : Proper(rows[s], s)
    /\ \A b \in Turns : task[b].pc \in Loaded => Proper(task[b].copy, task[b].sid)
    /\ \A b \in Tasks : task[b].pc \in Compacting => Proper(task[b].ccopy, task[b].csid)

(* A turn is in no row, no copy and no summary before its first save.      *)
StartInv ==
    \A t \in Turns : task[t].pc \in Unstarted =>
        /\ \A s \in DOMAIN rows : t \notin ToSet(rows[s])
        /\ \A b \in Turns : task[b].pc \in Loaded => t \notin ToSet(task[b].copy)
        /\ \A b \in Tasks : task[b].pc \in Compacting => t \notin ToSet(task[b].ccopy)
        /\ t \notin summarised

(* Tasks that work on the same session at the same time have collided, and *)
(* so have turns that append to the canonical session at the same time.    *)
OverlapInv ==
    /\ \A a, b \in Tasks : \A s \in Sids :
          a # b /\ s \in Window(a) /\ s \in Window(b) => a \in collided /\ b \in collided
    /\ \A a, b \in Turns : a # b /\ task[a].pc = "append" /\ task[b].pc = "append"
          => a \in collided /\ b \in collided

(* A finished turn that collided with none is in its row, and in whatever  *)
(* was loaded of its session since, or it was summarised.                  *)
KeptInv ==
    \A t \in Finished \ collided : SessionOf(t) \notin deleted =>
        /\ t \in summarised \/ (SessionOf(t) \in DOMAIN rows /\ t \in ToSet(rows[SessionOf(t)]))
        /\ \A b \in Turns : task[b].pc \in Loaded /\ task[b].sid = SessionOf(t)
              => t \in summarised \/ t \in ToSet(task[b].copy)
        /\ \A b \in Tasks : task[b].pc \in Compacting /\ task[b].csid = SessionOf(t)
              => t \in summarised \/ t \in ToSet(task[b].ccopy)

(* A compaction works on a long session.                                   *)
LongInv == \A a \in Tasks : task[a].pc \in Compacting => Len(task[a].ccopy) > CompactAbove

(* Once its summary is stored, that covers all it is about to drop.        *)
StoredInv ==
    \A a \in Tasks : task[a].pc = "c_row" =>
        \A t \in ToSet(task[a].ccopy) : t \in summarised \/ t \in ToSet(Kept(task[a].ccopy))

(* Until a compaction replaces it, the canonical session and every copy    *)
(* that is about to be written hold the turns recorded in it.              *)
CanonInv ==
    summarised = {} =>
        \A t \in Turns \ collided : task[t].pc \in Recorded =>
            /\ t \in ToSet(canon.msgs)
            /\ \A b \in Turns : task[b].pc = "append" => t \in ToSet(task[b].ccopy)

Moving(s) == \E a \in Tasks : task[a].pc = "c_row" /\ task[a].csid = s

(* While nothing collided, what was summarised is in no row and no copy    *)
(* that will be written.                                                   *)
CleanInv ==
    collided = {} =>
        \A t \in summarised :
            /\ SessionOf(t) \in DOMAIN rows /\ ~Moving(SessionOf(t))
                  => t \notin ToSet(rows[SessionOf(t)])
            /\ t \in Turns => task[t].pc \notin {"run", "seg"}
            /\ \A b \in Turns :
                  /\ task[b].pc \in Loaded /\ task[b].sid = SessionOf(t)
                  /\ ~(task[b].pc = "c_row" /\ task[b].csid = SessionOf(t))
                  => t \notin ToSet(task[b].copy)
            /\ \A b \in Tasks : task[b].pc = "c_llm" /\ task[b].csid = SessionOf(t)
                  => t \notin ToSet(task[b].ccopy)
            /\ \A b \in Tasks : task[b].pc = "c_row" /\ task[b].csid = SessionOf(t)
                  => t \notin ToSet(Kept(task[b].ccopy))

Inv == /\ Types /\ LongInv /\ HomeInv /\ StartInv /\ OverlapInv /\ KeptInv
       /\ StoredInv /\ CanonInv /\ CleanInv

-----------------------------------------------------------------------------
(* Sequences of turns.                                                     *)
LEMMA ToSetMember ==
    ASSUME NEW q, NEW t
    PROVE  t \in ToSet(q) <=> \E n \in DOMAIN q : q[n] = t
BY DEF ToSet

LEMMA EmptyFacts == <<>> \in Seq(Everyone) /\ Distinct(<<>>) /\ \A t : t \notin ToSet(<<>>)
BY DEF Distinct, ToSet

LEMMA AppendFacts ==
    ASSUME NEW q \in Seq(Everyone), NEW t \in Everyone
    PROVE  /\ Append(q, t) \in Seq(Everyone)
           /\ \A u : u \in ToSet(Append(q, t)) <=> u \in ToSet(q) \/ u = t
           /\ Distinct(q) /\ t \notin ToSet(q) => Distinct(Append(q, t))
<1> DEFINE r == Append(q, t)
<1>1. /\ r \in Seq(Everyone) /\ DOMAIN r = DOMAIN q \cup {Len(q) + 1}
      /\ Len(q) + 1 \notin DOMAIN q /\ r[Len(q) + 1] = t
      /\ \A n \in DOMAIN q : r[n] = q[n]
  OBVIOUS
<1> HIDE DEF r
<1>2. \A u : u \in ToSet(r) <=> u \in ToSet(q) \/ u = t
  BY <1>1, ToSetMember
<1>3. Distinct(q) /\ t \notin ToSet(q) => Distinct(r)
  BY <1>1, ToSetMember DEF Distinct
<1> QED BY <1>1, <1>2, <1>3 DEF r

(* A compaction keeps some of a long session, and drops some.              *)
LEMMA KeptFacts ==
    ASSUME NEW q \in Seq(Everyone), Len(q) > CompactAbove
    PROVE  /\ Kept(q) \in Seq(Everyone)
           /\ \A t \in ToSet(Kept(q)) : t \in ToSet(q)
           /\ Distinct(q) => /\ Distinct(Kept(q))
                             /\ \E t \in ToSet(q) : t \notin ToSet(Kept(q))
<1> DEFINE m == Len(q) + 1 - KeepCompact
           k == Kept(q)
<1>1. Len(q) \in Nat /\ KeepCompact \in Nat /\ m \in Nat /\ m > 1 /\ m <= Len(q) + 1
  BY SessionsAssumption
<1>2. k = SubSeq(q, m, Len(q))
  BY DEF Kept
<1> HIDE DEF m
<1>3. k \in Seq(Everyone) /\ Len(k) = Len(q) + 1 - m /\ \A n \in 1..Len(k) : k[n] = q[n + m - 1]
  BY <1>1, <1>2
<1> HIDE DEF k
<1>4. DOMAIN k = 1..Len(k) /\ \A n \in DOMAIN k : n + m - 1 \in DOMAIN q /\ n + m - 1 > 1
  BY <1>1, <1>3
<1>5. \A t \in ToSet(k) : t \in ToSet(q)
  BY <1>3, <1>4, ToSetMember
<1>6. ASSUME Distinct(q) PROVE Distinct(k)
  <2> SUFFICES ASSUME NEW a \in DOMAIN k, NEW b \in DOMAIN k, k[a] = k[b] PROVE a = b
    BY DEF Distinct
  <2>1. a + m - 1 = b + m - 1
    BY <1>3, <1>4, <1>6 DEF Distinct
  <2> QED BY <1>1, <1>4, <2>1
<1>7. ASSUME Distinct(q) PROVE q[1] \in ToSet(q) /\ q[1] \notin ToSet(k)
  <2>1. 1 \in DOMAIN q
    BY <1>1, SessionsAssumption
  <2>2. ASSUME NEW n \in DOMAIN k, k[n] = q[1] PROVE FALSE
    BY <1>3, <1>4, <1>7, <2>1, <2>2 DEF Distinct
  <2> QED BY <2>1, <2>2, ToSetMember
<1> QED BY <1>3, <1>5, <1>6, <1>7 DEF k

-----------------------------------------------------------------------------
(* What each operation does to the tasks.                                  *)
Typed == task \in [Tasks -> TaskRecords]

Others(a) == \A b \in Tasks \ {a} : task'[b] = task[b]

LEMMA TaskSets == Turns \subseteq Tasks /\ Compactors \subseteq Tasks /\ Turns \subseteq Everyone
                  /\ (\A a \in Tasks : a \in Turns <=> a \notin Compactors)
                  /\ ToSet(Prior) \cap Tasks = {}
BY SessionsAssumption DEF Tasks, Everyone

LEMMA TaskFields ==
    ASSUME Typed, NEW a \in Tasks
    PROVE  /\ task[a] \in TaskRecords
           /\ task[a].pc \in Places /\ task[a].sid \in Nat /\ task[a].csid \in Nat
           /\ task[a].copy \in Seq(Everyone) /\ task[a].ccopy \in Seq(Everyone)
           /\ task[a].csum \in SUBSET Everyone
           /\ task[a].stream \in BOOLEAN /\ task[a].cut \in BOOLEAN
<1>1. task[a] \in TaskRecords
  BY DEF Typed
<1> QED BY <1>1 DEF TaskRecords

LEMMA SetTask ==
    ASSUME Typed, NEW a \in Tasks, NEW r \in TaskRecords, task' = [task EXCEPT ![a] = r]
    PROVE  Typed' /\ task'[a] = r /\ Others(a)
BY DEF Typed, Others

LEMMA OverFacts ==
    ASSUME Typed, NEW a \in Tasks, NEW pc \in Places
    PROVE  /\ Over(a, pc) \in TaskRecords
           /\ Over(a, pc).pc = pc /\ Over(a, pc).sid = task[a].sid
           /\ Over(a, pc).copy = <<>>
<1> DEFINE f == Fresh
           g == [f EXCEPT !.pc = pc]
           h == [g EXCEPT !.sid = task[a].sid]
<1>1. f \in TaskRecords /\ f.copy = <<>>
  BY EmptyFacts DEF Fresh, TaskRecords, Places, Unstarted
<1>2. task[a].sid \in Nat
  BY TaskFields
<1>3. Over(a, pc) = h
  BY Zenon DEF Over
<1> HIDE DEF f
<1>4. g \in TaskRecords /\ g.pc = pc /\ g.copy = <<>>
  BY <1>1 DEF TaskRecords
<1> HIDE DEF g
<1>5. h \in TaskRecords /\ h.pc = pc /\ h.sid = task[a].sid /\ h.copy = <<>>
  BY <1>2, <1>4 DEF TaskRecords
<1> QED BY <1>3, <1>5

LEMMA EndFacts ==
    ASSUME Typed, NEW a \in Tasks, NEW pc \in Places, End(a, pc)
    PROVE  Typed' /\ Others(a) /\ task'[a].pc = pc /\ task'[a].sid = task[a].sid
<1>1. Over(a, pc) \in TaskRecords /\ Over(a, pc).pc = pc /\ Over(a, pc).sid = task[a].sid
  BY OverFacts
<1>2. task' = [task EXCEPT ![a] = Over(a, pc)]
  BY DEF End
<1> QED BY <1>1, <1>2, SetTask

LEMMA StepFacts ==
    ASSUME Typed, NEW a \in Tasks, NEW pc \in Places, Step(a, pc)
    PROVE  /\ Typed' /\ Others(a) /\ task'[a].pc = pc
           /\ task'[a].sid = task[a].sid /\ task'[a].copy = task[a].copy
           /\ task'[a].csid = task[a].csid /\ task'[a].ccopy = task[a].ccopy
<1> DEFINE r == [task[a] EXCEPT !.pc = pc]
<1>1. r \in TaskRecords /\ r.pc = pc /\ r.sid = task[a].sid /\ r.copy = task[a].copy
      /\ r.csid = task[a].csid /\ r.ccopy = task[a].ccopy
  BY TaskFields DEF TaskRecords
<1>2. task' = [task EXCEPT ![a] = r]
  BY DEF Step
<1> HIDE DEF r
<1> QED BY <1>1, <1>2, SetTask

LEMMA ReloadFacts ==
    ASSUME Typed, NEW a \in Tasks, NEW ok \in BOOLEAN, Reload(a, ok),
           ok /\ task[a].sid \in DOMAIN rows' => rows'[task[a].sid] \in Seq(Everyone)
    PROVE  /\ Typed' /\ Others(a) /\ task'[a].sid = task[a].sid
           /\ task'[a].pc \in IF a \in Compactors THEN {"done"} ELSE {"aborted", "run"}
           /\ task'[a].pc = "run" =>
                 task'[a].copy = IF ok /\ task[a].sid \in DOMAIN rows' THEN rows'[task[a].sid]
                                                                      ELSE task[a].copy
<1> DEFINE c == IF ok /\ task[a].sid \in DOMAIN rows' THEN rows'[task[a].sid] ELSE task[a].copy
           o(pc) == Over(a, pc)
           n == [o("run") EXCEPT !.copy = c]
           r == CASE a \in Compactors -> o("done") [] a \in Turns /\ task[a].cut -> o("aborted") [] OTHER -> n
<1>1. c \in Seq(Everyone)
  BY TaskFields
<1>2. \A pc \in {"done", "aborted", "run"} :
          o(pc) \in TaskRecords /\ o(pc).pc = pc /\ o(pc).sid = task[a].sid
  BY OverFacts DEF Places, Unstarted, Loaded, Closed
<1>3. task' = [task EXCEPT ![a] = r]
  BY Zenon DEF Reload
<1> HIDE DEF c, o
<1>4. n \in TaskRecords /\ n.pc = "run" /\ n.sid = task[a].sid /\ n.copy = c
  BY <1>1, <1>2 DEF TaskRecords
<1> HIDE DEF n
<1>5. task[a].cut \in BOOLEAN
  BY TaskFields
<1>6. /\ r \in TaskRecords /\ r.sid = task[a].sid
      /\ r.pc \in IF a \in Compactors THEN {"done"} ELSE {"aborted", "run"}
      /\ r.pc = "run" => r.copy = c
  BY <1>2, <1>4, <1>5, TaskSets
<1> HIDE DEF r
<1>7. Typed' /\ task'[a] = r /\ Others(a)
  BY <1>3, <1>6, SetTask
<1> QED BY <1>6, <1>7 DEF c

LEMMA EnterFacts ==
    ASSUME Types, NEW t \in Turns, NEW stream \in BOOLEAN, Enter(t, stream)
    PROVE  /\ Typed' /\ Others(t) /\ task[t].pc = "idle" /\ alive
           /\ \/ task'[t].pc = "refused"
              \/ task'[t].pc = "entered" /\ task'[t].sid = current
<1> USE TaskSets
<1>1. Typed /\ current \in Nat
  BY DEF Types, Typed, Sids
<1>2. task[t].pc = "idle" /\ alive
  BY DEF Enter
<1>3. CASE Step(t, "refused")
  BY <1>1, <1>2, <1>3, StepFacts DEF Places
<1>4. CASE task' = [task EXCEPT ![t].pc = "entered", ![t].sid = current, ![t].stream = stream]
  <2> DEFINE r == [task[t] EXCEPT !.pc = "entered", !.sid = current, !.stream = stream]
  <2>1. task' = [task EXCEPT ![t] = r]
    BY <1>1, <1>4 DEF Typed
  <2>2. r \in TaskRecords /\ r.pc = "entered" /\ r.sid = current
    BY <1>1, TaskFields DEF TaskRecords, Places, Unstarted
  <2> HIDE DEF r
  <2> QED BY <1>1, <1>2, <2>1, <2>2, SetTask
<1> QED BY <1>3, <1>4, Zenon DEF Enter

LEMMA SessionFacts ==
    ASSUME Types, NEW s
    PROVE  /\ Session(s) \in Seq(Everyone)
           /\ s \in DOMAIN rows => Session(s) = rows[s]
           /\ s \notin DOMAIN rows => Session(s) = <<>>
BY EmptyFacts DEF Types, Session

LEMMA LoadFacts ==
    ASSUME Types, NEW t \in Turns, Load(t)
    PROVE  /\ Typed' /\ Others(t) /\ task[t].pc = "entered"
           /\ task'[t].pc \in {"compact", "run"}
           /\ task'[t].sid = task[t].sid /\ task'[t].copy = Session(task[t].sid)
<1> USE TaskSets
<1> DEFINE c == Session(task[t].sid)
           r(p) == [task[t] EXCEPT !.copy = c, !.pc = p, !.stream = FALSE]
<1>1. Typed /\ c \in Seq(Everyone) /\ task[t].pc = "entered"
  BY SessionFacts DEF Types, Typed, Load
<1>2. PICK p \in {"compact", "run"} :
          task' = [task EXCEPT ![t].copy = c, ![t].pc = p, ![t].stream = FALSE]
  BY Zenon DEF Load
<1> HIDE DEF c
<1>3. r(p) \in TaskRecords /\ r(p).pc = p /\ r(p).sid = task[t].sid /\ r(p).copy = c
  BY <1>1, <1>2, TaskFields DEF TaskRecords, Places, Loaded
<1>4. task' = [task EXCEPT ![t] = r(p)]
  BY <1>1, <1>2 DEF Typed
<1> HIDE DEF r
<1> QED BY <1>1, <1>2, <1>3, <1>4, SetTask DEF c

(* The copy with the turn's own messages.                                  *)
WithTurn(t) == IF t \in ToSet(task[t].copy) THEN task[t].copy ELSE Append(task[t].copy, t)

LEMMA WithTurnFacts ==
    ASSUME Typed, NEW t \in Turns
    PROVE  /\ WithTurn(t) \in Seq(Everyone)
           /\ \A u : u \in ToSet(WithTurn(t)) <=> u \in ToSet(task[t].copy) \/ u = t
           /\ Distinct(task[t].copy) => Distinct(WithTurn(t))
<1>1. task[t].copy \in Seq(Everyone) /\ t \in Everyone
  BY TaskSets, TaskFields
<1> QED BY <1>1, AppendFacts DEF WithTurn

LEMMA SaveFacts ==
    ASSUME Types, NEW t \in Turns, Save(t)
    PROVE  /\ Typed' /\ Others(t) /\ task[t].pc = "seg" /\ task'[t].sid = task[t].sid
           /\ task'[t].pc \in {"run", "canon", "aborted"}
           /\ task'[t].pc = "run" => task'[t].copy = WithTurn(t)
           /\ SaveRow(task[t].sid, WithTurn(t))
<1> USE TaskSets
<1> DEFINE c == WithTurn(t)
           n == [task[t] EXCEPT !.copy = c, !.pc = "run"]
           o(p) == Over(t, p)
<1>1. Typed /\ c \in Seq(Everyone) /\ task[t].pc = "seg"
  BY WithTurnFacts DEF Types, Typed, Save
<1>2. SaveRow(task[t].sid, c)
  BY Zenon DEF Save, WithTurn
<1>3. PICK p \in {"run", "canon"} :
          task' = [task EXCEPT ![t] = IF task[t].cut THEN Over(t, "aborted")
                                      ELSE IF p = "run" THEN [task[t] EXCEPT !.copy = c, !.pc = p]
                                      ELSE Over(t, p)]
  BY Zenon DEF Save, WithTurn
<1>4. \A q \in {"aborted", "canon"} :
          o(q) \in TaskRecords /\ o(q).pc = q /\ o(q).sid = task[t].sid
  BY <1>1, OverFacts DEF Places, Closed
<1>5. \/ task' = [task EXCEPT ![t] = o("aborted")]
      \/ task' = [task EXCEPT ![t] = n]
      \/ task' = [task EXCEPT ![t] = o("canon")]
  BY <1>3
<1> HIDE DEF c, o
<1>6. n \in TaskRecords /\ n.pc = "run" /\ n.sid = task[t].sid /\ n.copy = c
  BY <1>1, TaskFields DEF TaskRecords, Places, Loaded
<1> HIDE DEF n
<1>7. CASE task' = [task EXCEPT ![t] = n]
  BY <1>1, <1>2, <1>6, <1>7, SetTask DEF c
<1>8. CASE task' = [task EXCEPT ![t] = o("canon")]
  BY <1>1, <1>2, <1>4, <1>8, SetTask DEF c
<1>9. CASE task' = [task EXCEPT ![t] = o("aborted")]
  BY <1>1, <1>2, <1>4, <1>9, SetTask DEF c
<1> QED BY <1>5, <1>7, <1>8, <1>9

LEMMA CanonLoadFacts ==
    ASSUME Types, NEW t \in Turns, CanonLoad(t)
    PROVE  /\ Typed' /\ Others(t) /\ task[t].pc = "canon" /\ task'[t].pc = "append"
           /\ task'[t].sid = task[t].sid /\ task'[t].ccopy = canon.msgs
           /\ task'[t].csum = canon.summary
<1> USE TaskSets
<1> DEFINE m == canon.msgs
           u == canon.summary
           r == [task[t] EXCEPT !.pc = "append", !.ccopy = m, !.csum = u]
<1>1. Typed /\ m \in Seq(Everyone) /\ u \in SUBSET Everyone /\ task[t].pc = "canon"
  BY DEF Types, Typed, CanonLoad
<1>2. task' = [task EXCEPT ![t] = r]
  BY <1>1 DEF Typed, CanonLoad
<1> HIDE DEF m, u
<1>3. r \in TaskRecords /\ r.pc = "append" /\ r.sid = task[t].sid /\ r.ccopy = m /\ r.csum = u
  BY <1>1, TaskFields DEF TaskRecords, Places, Closed
<1> HIDE DEF r
<1> QED BY <1>1, <1>2, <1>3, SetTask DEF m, u

(* A compaction begins, or finds nothing to compact.                       *)
CompactBegins(a) ==
    /\ task'[a].pc = "c_llm" /\ task'[a].csid = current /\ task'[a].ccopy = Session(current)
    /\ task'[a].sid = task[a].sid /\ task'[a].copy = task[a].copy
    /\ Len(Session(current)) > CompactAbove /\ alive
    /\ collided' = Collide(a, current)
CompactSkips(a) ==
    /\ task'[a].sid = task[a].sid /\ collided' = collided
    /\ task'[a].pc \in IF a \in Compactors THEN {"done"} ELSE {"aborted", "run"}
    /\ task'[a].pc = "run" => task'[a].copy \in {task[a].copy, Session(task[a].sid)}

LEMMA CompactLoadFacts ==
    ASSUME Types, NEW a \in Tasks, CompactLoad(a)
    PROVE  /\ Typed' /\ Others(a)
           /\ task[a].pc = (IF a \in Turns THEN "compact" ELSE "idle")
           /\ rows' = rows
           /\ CompactBegins(a) \/ CompactSkips(a)
<1> DEFINE c == Session(current)
<1>1. /\ Typed /\ c \in Seq(Everyone) /\ current \in Nat
      /\ task[a].pc = (IF a \in Turns THEN "compact" ELSE "idle")
      /\ rows' = rows
  BY SessionFacts DEF Types, Typed, CompactLoad, Sids
<1>2. CASE ~(alive /\ Len(c) > CompactAbove)
  <2>1. Reload(a, alive) /\ collided' = collided
    BY <1>2 DEF CompactLoad
  <2>2. Reload(a, TRUE) \/ Reload(a, FALSE)
    BY <2>1 DEF Reload
  <2>3. task[a].sid \in DOMAIN rows' =>
            rows'[task[a].sid] \in Seq(Everyone) /\ rows'[task[a].sid] = Session(task[a].sid)
    BY <1>1, SessionFacts
  <2>4. CASE Reload(a, TRUE)
    BY <1>1, <2>1, <2>3, <2>4, ReloadFacts DEF CompactSkips
  <2>5. CASE Reload(a, FALSE)
    BY <1>1, <2>1, <2>3, <2>5, ReloadFacts DEF CompactSkips
  <2> QED BY <1>1, <2>2, <2>4, <2>5
<1>3. CASE alive /\ Len(c) > CompactAbove
  <2> DEFINE r == [task[a] EXCEPT !.pc = "c_llm", !.csid = current, !.ccopy = c]
  <2>1. task' = [task EXCEPT ![a] = r] /\ collided' = Collide(a, current)
    BY <1>1, <1>3 DEF CompactLoad, Typed
  <2>2. c = Session(current)
    OBVIOUS
  <2> HIDE DEF c
  <2>3. r \in TaskRecords /\ r.pc = "c_llm" /\ r.csid = current /\ r.ccopy = c
        /\ r.sid = task[a].sid /\ r.copy = task[a].copy
    BY <1>1, TaskFields DEF TaskRecords, Places, Loaded
  <2> HIDE DEF r
  <2> QED BY <1>1, <1>3, <2>1, <2>2, <2>3, SetTask DEF CompactBegins
<1> QED BY <1>2, <1>3

Dropped(a) == ToSet(task[a].ccopy) \ ToSet(Kept(task[a].ccopy))

(* What a stored summary does to the canonical session and to what the     *)
(* summary before it covered; it may be the placeholder.                   *)
NewSummary(a) ==
    /\ \E summary \in {Dropped(a), {}} :
          /\ canon' = [summary |-> summary, msgs |-> Kept(task[a].ccopy)]
          /\ forgotten' = forgotten \cup ((canon.summary \cup Dropped(a)) \ summary)
    /\ summarised' = summarised \cup Dropped(a)
    /\ crossed' = (crossed \/ \E t \in Turns : task[t].pc = "append")
NoSummary == UNCHANGED <<canon, summarised, forgotten, crossed>>

(* A summary is stored, or the compaction ends without one.                *)
SummaryStored(a) ==
    /\ task'[a].pc = "c_row" /\ task'[a].sid = task[a].sid /\ task'[a].copy = task[a].copy
    /\ task'[a].csid = task[a].csid /\ task'[a].ccopy = task[a].ccopy
    /\ NewSummary(a)
CompactFails(a) ==
    /\ task'[a].sid = task[a].sid
    /\ task'[a].pc \in IF a \in Compactors THEN {"done"} ELSE {"aborted", "run"}
    /\ task'[a].pc = "run" => task'[a].copy = task[a].copy
    /\ NoSummary

LEMMA CompactStoreFacts ==
    ASSUME Types, NEW a \in Tasks, CompactStore(a)
    PROVE  /\ Typed' /\ Others(a) /\ task[a].pc = "c_llm" /\ rows' = rows
           /\ SummaryStored(a) \/ CompactFails(a)
<1>1. Typed /\ task[a].pc = "c_llm" /\ rows' = rows
  BY DEF Types, Typed, CompactStore
<1>2. \/ Reload(a, FALSE) /\ NoSummary
      \/ Step(a, "c_row") /\ NewSummary(a)
  BY Zenon DEF CompactStore, Dropped, NewSummary, NoSummary
<1>3. CASE Reload(a, FALSE) /\ NoSummary
  BY <1>1, <1>3, ReloadFacts DEF CompactFails
<1>4. CASE Step(a, "c_row") /\ NewSummary(a)
  BY <1>1, <1>4, StepFacts DEF SummaryStored, Places, Loaded
<1> QED BY <1>2, <1>3, <1>4

LEMMA SavedRow ==
    ASSUME NEW s, NEW c, SaveRow(s, c)
    PROVE  /\ DOMAIN rows' = DOMAIN rows \cup {s} /\ rows'[s] = c
           /\ \A u \in DOMAIN rows \ {s} : rows'[u] = rows[u]
BY DEF SaveRow

LEMMA CompactRowFacts ==
    ASSUME Types, LongInv, NEW a \in Tasks, CompactRow(a)
    PROVE  /\ Typed' /\ Others(a) /\ task[a].pc = "c_row" /\ task'[a].sid = task[a].sid
           /\ SaveRow(task[a].csid, Kept(task[a].ccopy))
           /\ task'[a].pc \in IF a \in Compactors THEN {"done"} ELSE {"aborted", "run"}
           /\ task'[a].pc = "run" =>
                 task'[a].copy = IF task[a].sid \in DOMAIN rows' THEN rows'[task[a].sid]
                                                                ELSE task[a].copy
<1>1. Typed /\ task[a].pc = "c_row" /\ SaveRow(task[a].csid, Kept(task[a].ccopy)) /\ Reload(a, TRUE)
  BY DEF Types, Typed, CompactRow
<1>2. Len(task[a].ccopy) > CompactAbove /\ task[a].ccopy \in Seq(Everyone)
  BY <1>1, TaskFields DEF LongInv, Compacting
<1>3. \A s \in DOMAIN rows' : rows'[s] \in Seq(Everyone)
  <2> DEFINE k == Kept(task[a].ccopy)
             u == task[a].csid
  <2>1. k \in Seq(Everyone)
    BY <1>2, KeptFacts
  <2>2. SaveRow(u, k)
    BY <1>1
  <2> HIDE DEF k, u
  <2>3. DOMAIN rows' = DOMAIN rows \cup {u} /\ rows'[u] = k
        /\ \A s \in DOMAIN rows \ {u} : rows'[s] = rows[s]
    BY <2>2, SavedRow
  <2> QED BY <2>1, <2>3 DEF Types
<1> QED BY <1>1, <1>3, ReloadFacts

(* An abort ends tasks, or marks them.                                     *)
Aborted(b) == task'[b].pc = "aborted" /\ task'[b].sid = task[b].sid /\ task[b].pc # "idle"
Marked(b) ==
    /\ task'[b].pc = task[b].pc /\ task'[b].sid = task[b].sid /\ task'[b].copy = task[b].copy
    /\ task'[b].csid = task[b].csid /\ task'[b].ccopy = task[b].ccopy
    /\ task'[b].csum = task[b].csum

LEMMA AbortFacts ==
    ASSUME Types, Abort
    PROVE  /\ Typed' /\ handle' = {}
           /\ \A b \in Tasks : b \notin handle \/ ~Awaits(b) => Marked(b)
           /\ \A b \in handle : Awaits(b) => Aborted(b)
<1> DEFINE r(t) == IF t \notin handle THEN task[t]
                   ELSE IF Awaits(t) THEN Over(t, "aborted")
                   ELSE [task[t] EXCEPT !.cut = Active(t)]
<1>1. Typed /\ handle \subseteq Tasks
  BY TaskSets DEF Types, Typed
<1>2. task' = [t \in Tasks |-> r(t)] /\ handle' = {}
  BY Zenon DEF Abort
<1>3. ASSUME NEW b \in Tasks
      PROVE  /\ r(b) \in TaskRecords
             /\ b \in handle /\ Awaits(b) =>
                    r(b).pc = "aborted" /\ r(b).sid = task[b].sid /\ task[b].pc # "idle"
             /\ b \notin handle \/ ~Awaits(b) =>
                    /\ r(b).pc = task[b].pc /\ r(b).sid = task[b].sid /\ r(b).copy = task[b].copy
                    /\ r(b).csid = task[b].csid /\ r(b).ccopy = task[b].ccopy
                    /\ r(b).csum = task[b].csum
  <2> DEFINE o == Over(b, "aborted")
             c == [task[b] EXCEPT !.cut = Active(b)]
  <2>1. o \in TaskRecords /\ o.pc = "aborted" /\ o.sid = task[b].sid
    BY <1>1, OverFacts DEF Places
  <2>2. task[b] \in TaskRecords
    BY <1>1, TaskFields
  <2>3. Active(b) \in BOOLEAN
    BY DEF Active
  <2>4. /\ c \in TaskRecords /\ c.pc = task[b].pc /\ c.sid = task[b].sid /\ c.copy = task[b].copy
        /\ c.csid = task[b].csid /\ c.ccopy = task[b].ccopy /\ c.csum = task[b].csum
    <3> DEFINE x == Active(b)
    <3>1. x \in BOOLEAN
      BY <2>3
    <3> HIDE DEF x
    <3>2. [task[b] EXCEPT !.cut = x] \in TaskRecords
      BY <2>2, <3>1 DEF TaskRecords
    <3> QED BY <2>2, <3>2 DEF TaskRecords, x
  <2>5. Awaits(b) => task[b].pc # "idle"
    BY DEF Awaits
  <2>6. r(b) = IF b \notin handle THEN task[b] ELSE IF Awaits(b) THEN o ELSE c
    BY Zenon
  <2> HIDE DEF r, o, c
  <2> QED BY <2>1, <2>2, <2>4, <2>5, <2>6
<1> HIDE DEF r
<1>4. Typed' /\ \A b \in Tasks : task'[b] = r(b)
  BY <1>2, <1>3 DEF Typed
<1> QED BY <1>1, <1>2, <1>3, <1>4 DEF Aborted, Marked

-----------------------------------------------------------------------------
(* Types.  The conjuncts about tasks are those a step of one task can      *)
(* disturb.                                                                *)
TaskTypes ==
    /\ Typed
    /\ \A t \in Turns : task[t].pc \notin {"idle", "refused"} => task[t].sid \in Sids
    /\ \A b \in Tasks : task[b].pc \in Compacting => task[b].csid \in Sids
    /\ \A b \in Compactors : task[b].sid = 0 /\ task[b].pc \in {"idle", "c_llm", "c_row", "done"}

RowTypes ==
    /\ nextSid \in Nat /\ current \in Sids /\ DOMAIN rows \subseteq Sids
    /\ \A s \in DOMAIN rows : rows[s] \in Seq(Everyone)
    /\ admin.pc = "use" => admin.sid \in Sids

LEMMA TypesParts ==
    Types <=> /\ TaskTypes /\ RowTypes /\ handle \subseteq Turns /\ summarised \subseteq Everyone
              /\ canon \in [summary : SUBSET Everyone, msgs : Seq(Everyone)]
BY DEF Types, TaskTypes, RowTypes, Typed

LEMMA TypesPartsNext ==
    ASSUME TaskTypes', RowTypes', handle' \subseteq Turns, summarised' \subseteq Everyone,
           canon' \in [summary : SUBSET Everyone, msgs : Seq(Everyone)]
    PROVE  Types'
BY DEF Types, TaskTypes, RowTypes, Typed

LEMMA TaskTypesStep ==
    ASSUME Types, NEW a \in Tasks, Typed', Others(a), nextSid' = nextSid,
           a \in Turns /\ task'[a].pc \notin {"idle", "refused"} => task'[a].sid \in Sids,
           task'[a].pc \in Compacting => task'[a].csid \in Sids,
           a \in Compactors => task'[a].sid = 0 /\ task'[a].pc \in {"idle", "c_llm", "c_row", "done"}
    PROVE  TaskTypes'
<1>1. Sids' = Sids
  BY DEF Sids
<1>2. \A b \in Tasks : b # a => task'[b] = task[b]
  BY DEF Others
<1> QED BY <1>1, <1>2, TaskSets DEF Types, TaskTypes, Typed

LEMMA RowTypesStep ==
    ASSUME Types, nextSid' = nextSid, NEW s \in Sids, NEW c \in Seq(Everyone), SaveRow(s, c),
           current' = current, admin' = admin
    PROVE  RowTypes'
<1>1. Sids' = Sids
  BY DEF Sids
<1>2. DOMAIN rows' = DOMAIN rows \cup {s} /\ rows'[s] = c
      /\ \A u \in DOMAIN rows \ {s} : rows'[u] = rows[u]
  BY SavedRow
<1> QED BY <1>1, <1>2 DEF Types, RowTypes

LEMMA RowTypesKept ==
    ASSUME Types, nextSid' = nextSid, rows' = rows, current' = current, admin' = admin
    PROVE  RowTypes'
BY DEF Types, RowTypes, Sids

(* Sessions are only ever added.                                           *)
LEMMA SidsGrow ==
    ASSUME Types, nextSid' \in {nextSid, nextSid + 1}
    PROVE  nextSid' \in Nat /\ Sids \subseteq Sids' /\ nextSid \in Nat
           /\ (nextSid' = nextSid + 1 => nextSid \in Sids')
<1>1. nextSid \in Nat /\ nextSid > 1
  BY DEF Types, Sids
<1>2. nextSid' \in Nat /\ nextSid' >= nextSid
  BY <1>1
<1> DEFINE n == nextSid'
<1>3. Sids' = 1..(n - 1) /\ n \in Nat /\ n >= nextSid
  BY <1>2 DEF Sids
<1> HIDE DEF n
<1>4. \A s \in Sids : s \in 1..(n - 1)
  BY <1>1, <1>3 DEF Sids
<1>5. n = nextSid + 1 => nextSid \in 1..(n - 1)
  BY <1>1, <1>3
<1> QED BY <1>1, <1>3, <1>4, <1>5 DEF n

LEMMA TypesInit == Init => Types /\ LongInv
<1> SUFFICES ASSUME Init PROVE Types /\ LongInv
  OBVIOUS
<1> USE TaskSets
<1>1. Prior \in Seq(Everyone)
  BY SessionsAssumption DEF Everyone
<1>2. Fresh \in TaskRecords /\ Fresh.pc = "idle" /\ Fresh.sid = 0
  BY EmptyFacts DEF Fresh, TaskRecords, Places, Unstarted
<1>3. task = [a \in Tasks |-> Fresh]
  BY DEF Init
<1>4. Typed /\ \A a \in Tasks : task[a].pc = "idle" /\ task[a].sid = 0
  BY <1>2, <1>3 DEF Typed
<1>5. TaskTypes
  BY <1>4 DEF TaskTypes, Compacting
<1>6. nextSid = 2 /\ Sids = {1}
  BY DEF Init, Sids
<1>7. RowTypes
  BY <1>1, <1>6 DEF RowTypes, Init, NoAdmin
<1>8. handle \subseteq Turns /\ summarised \subseteq Everyone
      /\ canon \in [summary : SUBSET Everyone, msgs : Seq(Everyone)]
  BY <1>1 DEF Init
<1>9. LongInv
  BY <1>4 DEF LongInv, Compacting
<1> QED BY <1>5, <1>7, <1>8, <1>9, TypesParts

LEMMA TypesNext == ASSUME Types, LongInv, [Next]_vars PROVE Types' /\ LongInv'
<1> USE TaskSets
<1>t. /\ TaskTypes /\ RowTypes /\ handle \subseteq Turns /\ summarised \subseteq Everyone /\ Typed
      /\ canon \in [summary : SUBSET Everyone, msgs : Seq(Everyone)]
  BY TypesParts DEF TaskTypes
<1>l. ASSUME NEW a \in Tasks, Others(a), LongInv,
             task'[a].pc \in Compacting => Len(task'[a].ccopy) > CompactAbove
      PROVE  LongInv'
  BY <1>l DEF LongInv, Others
<1>k. ASSUME task' = task, LongInv PROVE LongInv'
  BY <1>k DEF LongInv
<1>q. ASSUME task' = task, nextSid' = nextSid PROVE TaskTypes'
  BY <1>q, <1>t DEF TaskTypes, Typed, Sids
<1>1. ASSUME NEW t \in Turns, NEW stream \in BOOLEAN, Enter(t, stream) PROVE Types' /\ LongInv'
  <2>1. /\ Typed' /\ Others(t) /\ t \in Tasks /\ t \notin Compactors
        /\ task'[t].pc = "refused" \/ (task'[t].pc = "entered" /\ task'[t].sid = current)
    BY <1>1, EnterFacts
  <2>2. UNCHANGED <<nextSid, rows, current, admin, handle, summarised, canon>>
    BY <1>1, Zenon DEF Enter
  <2>3. TaskTypes'
    BY <2>1, <2>2, <1>t, TaskTypesStep DEF RowTypes, Compacting
  <2>4. LongInv'
    BY <2>1, <1>l DEF Compacting
  <2> QED BY <2>2, <2>3, <2>4, <1>t, RowTypesKept, TypesPartsNext
<1>2. ASSUME NEW t \in Turns, Load(t) PROVE Types' /\ LongInv'
  <2>1. /\ Typed' /\ Others(t) /\ task[t].pc = "entered" /\ task'[t].pc \in {"compact", "run"}
        /\ task'[t].sid = task[t].sid /\ t \in Tasks /\ t \notin Compactors
    BY <1>2, LoadFacts
  <2>2. UNCHANGED <<nextSid, rows, current, admin, handle, summarised, canon>>
    BY <1>2, Zenon DEF Load
  <2>3. TaskTypes'
    BY <2>1, <2>2, <1>t, TaskTypesStep DEF TaskTypes, Compacting
  <2>4. LongInv'
    BY <2>1, <1>l DEF Compacting
  <2> QED BY <2>1, <2>2, <2>3, <2>4, <1>t, RowTypesKept, TypesPartsNext
<1>3. ASSUME NEW t \in Turns, Resume(t) PROVE Types' /\ LongInv'
  <2>1. /\ Typed' /\ Others(t) /\ task[t].pc = "run" /\ task'[t].pc = "seg"
        /\ task'[t].sid = task[t].sid /\ t \in Tasks /\ t \notin Compactors
    BY <1>3, <1>t, StepFacts DEF Resume, Places, Loaded
  <2>2. UNCHANGED <<nextSid, rows, current, admin, summarised, canon, handle>>
    BY <1>3 DEF Resume, history
  <2>3. TaskTypes'
    BY <2>1, <2>2, <1>t, TaskTypesStep DEF TaskTypes, Compacting
  <2>4. LongInv'
    BY <2>1, <1>l DEF Compacting
  <2> QED BY <2>1, <2>2, <2>3, <2>4, <1>t, RowTypesKept, TypesPartsNext
<1>4. ASSUME NEW t \in Turns, Save(t) PROVE Types' /\ LongInv'
  <2>1. /\ Typed' /\ Others(t) /\ task[t].pc = "seg" /\ task'[t].pc \in {"run", "canon", "aborted"}
        /\ task'[t].sid = task[t].sid /\ t \in Tasks /\ t \notin Compactors
        /\ SaveRow(task[t].sid, WithTurn(t))
    BY <1>4, <1>t, SaveFacts
  <2>2. UNCHANGED <<nextSid, current, admin, summarised, canon, handle>>
    BY <1>4 DEF Save, history
  <2>3. TaskTypes' /\ task[t].sid \in Sids
    BY <2>1, <2>2, <1>t, TaskTypesStep DEF TaskTypes, Compacting
  <2>4. LongInv'
    BY <2>1, <1>l DEF Compacting
  <2>5. WithTurn(t) \in Seq(Everyone)
    BY <1>t, WithTurnFacts
  <2>6. RowTypes'
    BY <2>1, <2>2, <2>3, <2>5, RowTypesStep
  <2> QED BY <2>2, <2>3, <2>4, <2>6, <1>t, TypesPartsNext
<1>5. ASSUME NEW t \in Turns, Fail(t) PROVE Types' /\ LongInv'
  <2>1. /\ Typed' /\ Others(t) /\ task[t].pc = "seg" /\ task'[t].pc = "failed"
        /\ task'[t].sid = task[t].sid /\ t \in Tasks /\ t \notin Compactors
    BY <1>5, <1>t, EndFacts DEF Fail, Places
  <2>2. UNCHANGED <<nextSid, rows, current, admin, summarised, canon, handle>>
    BY <1>5 DEF Fail, history
  <2>3. TaskTypes'
    BY <2>1, <2>2, <1>t, TaskTypesStep DEF TaskTypes, Compacting
  <2>4. LongInv'
    BY <2>1, <1>l DEF Compacting
  <2> QED BY <2>1, <2>2, <2>3, <2>4, <1>t, RowTypesKept, TypesPartsNext
<1>6. ASSUME NEW t \in Turns, CanonLoad(t) PROVE Types' /\ LongInv'
  <2>1. /\ Typed' /\ Others(t) /\ task[t].pc = "canon" /\ task'[t].pc = "append"
        /\ task'[t].sid = task[t].sid /\ t \in Tasks /\ t \notin Compactors
    BY <1>6, CanonLoadFacts
  <2>2. UNCHANGED <<nextSid, rows, current, admin, summarised, canon, handle>>
    BY <1>6, Zenon DEF CanonLoad
  <2>3. TaskTypes'
    BY <2>1, <2>2, <1>t, TaskTypesStep DEF TaskTypes, Compacting
  <2>4. LongInv'
    BY <2>1, <1>l DEF Compacting
  <2> QED BY <2>1, <2>2, <2>3, <2>4, <1>t, RowTypesKept, TypesPartsNext
<1>7. ASSUME NEW t \in Turns, CanonSave(t) PROVE Types' /\ LongInv'
  <2>1. /\ Typed' /\ Others(t) /\ task[t].pc = "append" /\ task'[t].pc = "record"
        /\ task'[t].sid = task[t].sid /\ t \in Tasks /\ t \notin Compactors
    BY <1>7, <1>t, EndFacts DEF CanonSave, Places, Closed
  <2>2. UNCHANGED <<nextSid, rows, current, admin, summarised, handle>>
    BY <1>7 DEF CanonSave, history
  <2>3. TaskTypes'
    BY <2>1, <2>2, <1>t, TaskTypesStep DEF TaskTypes, Compacting
  <2>4. LongInv'
    BY <2>1, <1>l DEF Compacting
  <2>5. canon' \in [summary : SUBSET Everyone, msgs : Seq(Everyone)]
    <3> DEFINE m == Append(task[t].ccopy, t)
    <3>1. m \in Seq(Everyone) /\ task[t].csum \in SUBSET Everyone
      BY <1>t, <2>1, TaskFields, AppendFacts
    <3>2. canon' = [summary |-> task[t].csum, msgs |-> m]
      BY <1>7 DEF CanonSave
    <3> HIDE DEF m
    <3> QED BY <3>1, <3>2
  <2> QED BY <2>1, <2>2, <2>3, <2>4, <2>5, <1>t, RowTypesKept, TypesPartsNext
<1>8. ASSUME NEW t \in Turns, RecordUsage(t) PROVE Types' /\ LongInv'
  <2>1. /\ Typed' /\ Others(t) /\ task[t].pc = "record" /\ task'[t].pc = "done"
        /\ task'[t].sid = task[t].sid /\ t \in Tasks /\ t \notin Compactors
    BY <1>8, <1>t, EndFacts DEF RecordUsage, Places, Closed
  <2>2. UNCHANGED <<nextSid, rows, current, admin, summarised, canon, handle>>
    BY <1>8 DEF RecordUsage, history
  <2>3. TaskTypes'
    BY <2>1, <2>2, <1>t, TaskTypesStep DEF TaskTypes, Compacting
  <2>4. LongInv'
    BY <2>1, <1>l DEF Compacting
  <2> QED BY <2>1, <2>2, <2>3, <2>4, <1>t, RowTypesKept, TypesPartsNext
<1>9. ASSUME NEW a \in Tasks, CompactLoad(a) PROVE Types' /\ LongInv'
  <2>1. /\ Typed' /\ Others(a) /\ task[a].pc = (IF a \in Turns THEN "compact" ELSE "idle")
        /\ CompactBegins(a) \/ CompactSkips(a)
    BY <1>9, CompactLoadFacts
  <2>2. UNCHANGED <<nextSid, rows, current, admin, summarised, canon, handle>>
    BY <1>9, CompactLoadFacts DEF CompactLoad
  <2>3. task'[a].sid = task[a].sid
    BY <2>1 DEF CompactBegins, CompactSkips
  <2>4. /\ task'[a].pc \in Compacting =>
              task'[a].csid \in Sids /\ Len(task'[a].ccopy) > CompactAbove
        /\ a \in Compactors => task'[a].pc \in {"c_llm", "done"}
    BY <2>1, <1>t DEF CompactBegins, CompactSkips, Compacting, RowTypes
  <2>5. TaskTypes'
    BY <2>1, <2>2, <2>3, <2>4, <1>t, TaskTypesStep DEF TaskTypes
  <2>6. LongInv'
    BY <2>1, <2>4, <1>l
  <2> QED BY <2>2, <2>5, <2>6, <1>t, RowTypesKept, TypesPartsNext
<1>10. ASSUME NEW a \in Tasks, CompactStore(a) PROVE Types' /\ LongInv'
  <2>1. /\ Typed' /\ Others(a) /\ task[a].pc = "c_llm" /\ rows' = rows
        /\ SummaryStored(a) \/ CompactFails(a)
    BY <1>10, CompactStoreFacts
  <2>2. UNCHANGED <<nextSid, current, admin, handle>>
    BY <1>10, Zenon DEF CompactStore
  <2>3. task'[a].sid = task[a].sid
    BY <2>1 DEF SummaryStored, CompactFails
  <2>4. task[a].csid \in Sids /\ Len(task[a].ccopy) > CompactAbove /\ task[a].ccopy \in Seq(Everyone)
    BY <2>1, <1>t, TaskFields DEF TaskTypes, LongInv, Compacting
  <2>5. /\ task'[a].pc \in Compacting =>
              task'[a].csid \in Sids /\ Len(task'[a].ccopy) > CompactAbove
        /\ a \in Compactors => task'[a].pc \in {"c_row", "done"}
    BY <2>1, <2>4 DEF SummaryStored, CompactFails, Compacting
  <2>6. TaskTypes'
    BY <2>1, <2>2, <2>3, <2>5, <1>t, TaskTypesStep DEF TaskTypes, Compacting
  <2>7. LongInv'
    BY <2>1, <2>5, <1>l
  <2>8. summarised' \subseteq Everyone /\ canon' \in [summary : SUBSET Everyone, msgs : Seq(Everyone)]
    <3>1. Kept(task[a].ccopy) \in Seq(Everyone)
      BY <2>4, KeptFacts
    <3>2. Dropped(a) \subseteq Everyone
      BY <2>4, ToSetMember DEF Dropped
    <3>3. CASE NewSummary(a)
      BY <3>1, <3>2, <3>3, <1>t DEF NewSummary
    <3>4. CASE NoSummary
      BY <3>4, <1>t DEF NoSummary
    <3> QED BY <2>1, <3>3, <3>4 DEF SummaryStored, CompactFails
  <2> QED BY <2>1, <2>2, <2>6, <2>7, <2>8, <1>t, RowTypesKept, TypesPartsNext
<1>11. ASSUME NEW a \in Tasks, CompactRow(a) PROVE Types' /\ LongInv'
  <2>1. /\ Typed' /\ Others(a) /\ task[a].pc = "c_row" /\ task'[a].sid = task[a].sid
        /\ SaveRow(task[a].csid, Kept(task[a].ccopy))
        /\ task'[a].pc \in IF a \in Compactors THEN {"done"} ELSE {"aborted", "run"}
    BY <1>11, CompactRowFacts
  <2>2. UNCHANGED <<nextSid, current, admin, handle, canon, summarised>>
    BY <1>11 DEF CompactRow, history
  <2>3. task[a].csid \in Sids /\ Len(task[a].ccopy) > CompactAbove /\ task[a].ccopy \in Seq(Everyone)
    BY <2>1, <1>t, TaskFields DEF TaskTypes, LongInv, Compacting
  <2>4. TaskTypes'
    BY <2>1, <2>2, <1>t, TaskTypesStep DEF TaskTypes, Compacting
  <2>5. LongInv'
    BY <2>1, <1>l DEF Compacting
  <2>6. RowTypes'
    <3>1. Kept(task[a].ccopy) \in Seq(Everyone)
      BY <2>3, KeptFacts
    <3> QED BY <2>1, <2>2, <2>3, <3>1, RowTypesStep
  <2> QED BY <2>2, <2>4, <2>5, <2>6, <1>t, TypesPartsNext
<1>12. ASSUME NEW s \in 1..MaxSessions, SwitchSession(s) PROVE Types' /\ LongInv'
  <2>1. UNCHANGED <<nextSid, rows, current, task, handle, canon, summarised>> /\ s \in Sids
        /\ admin' = [pc |-> "use", sid |-> s]
    BY <1>12, <1>t DEF SwitchSession, history, RowTypes
  <2>2. RowTypes'
    BY <1>t, <2>1 DEF RowTypes, Sids
  <2> QED BY <2>1, <2>2, <1>k, <1>q, <1>t, TypesPartsNext
<1>13. ASSUME NewWindow PROVE Types' /\ LongInv'
  <2>1. UNCHANGED <<nextSid, rows, current, admin, task, handle, canon, summarised>>
    BY <1>13 DEF NewWindow, history
  <2> QED BY <2>1, <1>k, <1>q, <1>t, RowTypesKept, TypesPartsNext
<1>14. ASSUME Abort, nextSid' = nextSid PROVE TaskTypes' /\ LongInv' /\ handle' \subseteq Turns
  <2>1. /\ Typed' /\ handle' = {}
        /\ \A b \in Tasks : b \notin handle \/ ~Awaits(b) => Marked(b)
        /\ \A b \in handle : Awaits(b) => Aborted(b)
    BY <1>14, AbortFacts
  <2>2. \A b \in Tasks : b \in Compactors => Marked(b)
    BY <2>1, <1>t
  <2>3. \A b \in Tasks : Marked(b) \/ Aborted(b)
    BY <2>1
  <2>4. Sids' = Sids
    BY <1>14 DEF Sids
  <2>5. TaskTypes'
    <3>1. ASSUME NEW t \in Turns, task'[t].pc \notin {"idle", "refused"} PROVE task'[t].sid \in Sids
      BY <2>1, <2>3, <3>1, <1>t DEF Aborted, Marked, TaskTypes, Awaits
    <3>2. ASSUME NEW b \in Tasks, task'[b].pc \in Compacting PROVE task'[b].csid \in Sids
      BY <2>3, <3>2, <1>t DEF Aborted, Marked, TaskTypes, Compacting
    <3>3. ASSUME NEW b \in Compactors
          PROVE  task'[b].sid = 0 /\ task'[b].pc \in {"idle", "c_llm", "c_row", "done"}
      BY <2>2, <1>t DEF Marked, TaskTypes
    <3> QED BY <2>1, <2>4, <3>1, <3>2, <3>3 DEF TaskTypes
  <2>6. LongInv'
    BY <2>3 DEF LongInv, Marked, Aborted, Compacting
  <2> QED BY <2>1, <2>5, <2>6
<1>15. ASSUME StopRun PROVE Types' /\ LongInv'
  <2>1. UNCHANGED <<nextSid, rows, current, admin, canon, summarised>> /\ Abort
    BY <1>15 DEF StopRun, history
  <2> QED BY <2>1, <1>14, <1>t, RowTypesKept, TypesPartsNext
<1>16. ASSUME ResetDelete PROVE Types' /\ LongInv'
  <2>1. UNCHANGED <<nextSid, current, task, handle, canon, summarised>>
        /\ admin' = [pc |-> "new", sid |-> 0]
        /\ rows' = [s \in DOMAIN rows \ {current} |-> rows[s]]
    BY <1>16 DEF ResetDelete
  <2>2. RowTypes'
    BY <1>t, <2>1 DEF RowTypes, Sids
  <2> QED BY <2>1, <2>2, <1>k, <1>q, <1>t, TypesPartsNext
<1>17. ASSUME NewSession PROVE Types' /\ LongInv'
  <2>1. UNCHANGED <<current, task, handle, canon, summarised>> /\ nextSid' = nextSid + 1
        /\ admin' = [pc |-> "use", sid |-> nextSid] /\ SaveRow(nextSid, <<>>)
    BY <1>17 DEF NewSession, history
  <2>2. nextSid' \in Nat /\ Sids \subseteq Sids' /\ nextSid \in Sids'
    BY <2>1, SidsGrow
  <2>3. DOMAIN rows' = DOMAIN rows \cup {nextSid} /\ rows'[nextSid] = <<>>
        /\ \A u \in DOMAIN rows \ {nextSid} : rows'[u] = rows[u]
    BY <2>1, SavedRow
  <2>4. RowTypes'
    BY <1>t, <2>1, <2>2, <2>3, EmptyFacts DEF RowTypes
  <2>5. TaskTypes'
    BY <1>t, <2>1, <2>2 DEF TaskTypes, Typed
  <2> QED BY <2>1, <2>4, <2>5, <1>k, <1>t, TypesPartsNext
<1>18. ASSUME UseSession PROVE Types' /\ LongInv'
  <2>1. UNCHANGED <<nextSid, rows, task, handle, canon, summarised>> /\ admin' = NoAdmin
        /\ current' \in Sids
    BY <1>18, <1>t DEF UseSession, history, RowTypes
  <2>2. RowTypes'
    BY <1>t, <2>1 DEF RowTypes, Sids, NoAdmin
  <2> QED BY <2>1, <2>2, <1>k, <1>q, <1>t, TypesPartsNext
<1>19. ASSUME KillRemove PROVE Types' /\ LongInv'
  <2>1. UNCHANGED <<nextSid, rows, current, task, handle, canon, summarised>>
        /\ admin' = [pc |-> "abort", sid |-> 0]
    BY <1>19 DEF KillRemove, history
  <2>2. RowTypes'
    BY <1>t, <2>1 DEF RowTypes, Sids
  <2> QED BY <2>1, <2>2, <1>k, <1>q, <1>t, TypesPartsNext
<1>20. ASSUME KillAbort PROVE Types' /\ LongInv'
  <2>1. UNCHANGED <<nextSid, rows, current, canon, summarised>> /\ Abort
        /\ admin' = [pc |-> "delete", sid |-> 0]
    BY <1>20 DEF KillAbort
  <2>2. RowTypes'
    BY <1>t, <2>1 DEF RowTypes, Sids
  <2> QED BY <2>1, <2>2, <1>14, <1>t, TypesPartsNext
<1>21. ASSUME KillDelete PROVE Types' /\ LongInv'
  <2>1. UNCHANGED <<nextSid, current, task, handle, canon, summarised>>
        /\ admin' = [pc |-> "killed", sid |-> 0] /\ rows' = <<>>
    BY <1>21 DEF KillDelete
  <2>2. RowTypes'
    BY <1>t, <2>1 DEF RowTypes, Sids
  <2> QED BY <2>1, <2>2, <1>k, <1>q, <1>t, TypesPartsNext
<1>22. ASSUME NEW t \in Turns, StoreHandle(t) PROVE Types' /\ LongInv'
  <2>1. UNCHANGED <<nextSid, rows, current, admin, task, canon, summarised>> /\ handle' = {t}
    BY <1>22 DEF StoreHandle, history
  <2> QED BY <2>1, <1>k, <1>q, <1>t, RowTypesKept, TypesPartsNext
<1>23. ASSUME UNCHANGED vars PROVE Types' /\ LongInv'
  <2>1. UNCHANGED <<nextSid, rows, current, admin, task, handle, canon, summarised>>
    BY <1>23 DEF vars, history
  <2> QED BY <2>1, <1>k, <1>q, <1>t, RowTypesKept, TypesPartsNext
<1> QED
  BY <1>1, <1>2, <1>3, <1>4, <1>5, <1>6, <1>7, <1>8, <1>9, <1>10, <1>11, <1>12, <1>13, <1>15,
     <1>16, <1>17, <1>18, <1>19, <1>20, <1>21, <1>22, <1>23 DEF Next

LEMMA TypesHold == Spec => [](Types /\ LongInv)
<1>1. Init => Types /\ LongInv
  BY TypesInit
<1>2. Types /\ LongInv /\ [Next]_vars => (Types /\ LongInv)'
  BY TypesNext
<1> QED BY <1>1, <1>2, PTL DEF Spec

-----------------------------------------------------------------------------
(* The kill.  Once it aborted, only what no handle reaches is left, and    *)
(* nothing starts any more: a task that is not active stays so.            *)
KillInv ==
    /\ admin.pc \in {"abort", "delete", "killed"} => ~alive
    /\ admin.pc \in {"delete", "killed"} /\ ~straggler => \A a \in Tasks : ~Active(a)
    /\ KillLeavesNothing

LEMMA KillInit == Init => KillInv
BY DEF Init, KillInv, KillLeavesNothing, NoAdmin

(* A step of a task that is active leaves the kill's promises alone.       *)
LEMMA KillWorkStep ==
    ASSUME KillInv, NEW a \in Tasks, Active(a), UNCHANGED <<alive, admin, straggler>>
    PROVE  KillInv'
BY DEF KillInv, KillLeavesNothing

LEMMA KillNext == ASSUME Types, LongInv, KillInv, [Next]_vars PROVE KillInv'
<1> USE TaskSets
<1>t. Typed
  BY DEF Types, Typed
<1>1. ASSUME NEW t \in Turns, NEW stream \in BOOLEAN, Enter(t, stream) PROVE KillInv'
  <2>1. alive /\ UNCHANGED <<alive, admin, straggler>>
    BY <1>1, Zenon DEF Enter
  <2> QED BY <2>1 DEF KillInv, KillLeavesNothing
<1>2. ASSUME NEW t \in Turns,
             Load(t) \/ Resume(t) \/ Save(t) \/ Fail(t) \/ CanonLoad(t) \/ CanonSave(t) \/ RecordUsage(t)
      PROVE  KillInv'
  <2>1. Active(t) /\ UNCHANGED <<alive, admin, straggler>>
    BY <1>2 DEF Active, Ended, Load, Resume, Save, Fail, CanonLoad, CanonSave, RecordUsage, history
  <2> QED BY <2>1, KillWorkStep
<1>3. ASSUME NEW a \in Tasks, CompactLoad(a) PROVE KillInv'
  <2>1. /\ UNCHANGED <<alive, admin, straggler, rows>> /\ Others(a)
        /\ task[a].pc = (IF a \in Turns THEN "compact" ELSE "idle")
        /\ CompactBegins(a) \/ CompactSkips(a)
    BY <1>3, CompactLoadFacts DEF CompactLoad
  <2>2. CASE a \in Turns
    BY <2>1, <2>2, KillWorkStep DEF Active, Ended
  <2>3. CASE CompactBegins(a)
    BY <2>1, <2>3 DEF CompactBegins, KillInv, KillLeavesNothing
  <2>4. CASE a \in Compactors /\ CompactSkips(a)
    BY <2>1, <2>4 DEF CompactSkips, KillInv, KillLeavesNothing, Active, Ended, Others
  <2> QED BY <2>1, <2>2, <2>3, <2>4
<1>4. ASSUME NEW a \in Tasks, CompactStore(a) \/ CompactRow(a) PROVE KillInv'
  <2>1. Active(a) /\ UNCHANGED <<alive, admin, straggler>>
    BY <1>4 DEF Active, Ended, CompactStore, CompactRow, history
  <2> QED BY <2>1, KillWorkStep
<1>5. ASSUME StopRun PROVE KillInv'
  <2>1. UNCHANGED <<alive, admin, straggler, rows>> /\ Abort
    BY <1>5 DEF StopRun, history
  <2>2. \A b \in Tasks : Marked(b) \/ Aborted(b)
    BY <2>1, AbortFacts
  <2> QED BY <2>1, <2>2 DEF KillInv, KillLeavesNothing, Active, Ended, Marked, Aborted
<1>6. ASSUME NewWindow \/ \E t \in Turns : StoreHandle(t) PROVE KillInv'
  <2>1. UNCHANGED <<alive, admin, straggler, rows, task>>
    BY <1>6 DEF NewWindow, StoreHandle, history
  <2> QED BY <2>1 DEF KillInv, KillLeavesNothing, Active
<1>7. ASSUME ResetDelete \/ NewSession \/ UseSession \/ (\E s \in 1..MaxSessions : SwitchSession(s))
      PROVE  KillInv'
  <2>1. admin'.pc \notin {"abort", "delete", "killed"}
    BY <1>7 DEF ResetDelete, NewSession, UseSession, SwitchSession, NoAdmin
  <2> QED BY <2>1 DEF KillInv, KillLeavesNothing
<1>8. ASSUME KillRemove PROVE KillInv'
  <2>1. admin'.pc = "abort" /\ ~alive'
    BY <1>8 DEF KillRemove
  <2> QED BY <2>1 DEF KillInv, KillLeavesNothing
<1>9. ASSUME KillAbort PROVE KillInv'
  <2>1. admin.pc = "abort" /\ admin'.pc = "delete" /\ alive' = alive /\ Abort
    BY <1>9 DEF KillAbort
  <2>2. ~straggler' => \A a \in Tasks : ~(Active(a) /\ ~(a \in handle /\ Awaits(a)))
    BY <1>9, Zenon DEF KillAbort
  <2>3. /\ \A b \in Tasks : b \notin handle \/ ~Awaits(b) => Marked(b)
        /\ \A b \in handle : Awaits(b) => Aborted(b)
    BY <2>1, AbortFacts
  <2>4. ~straggler' => \A a \in Tasks : ~Active(a)'
    <3>1. ASSUME NEW a \in Tasks, ~Active(a) \/ (a \in handle /\ Awaits(a)) PROVE ~Active(a)'
      BY <2>3, <3>1 DEF Active, Ended, Marked, Aborted
    <3> QED BY <2>2, <3>1, Zenon
  <2> QED BY <2>1, <2>4 DEF KillInv, KillLeavesNothing
<1>10. ASSUME KillDelete PROVE KillInv'
  <2>1. admin.pc = "delete" /\ admin'.pc = "killed" /\ rows' = <<>> /\ UNCHANGED <<alive, straggler, task>>
    BY <1>10 DEF KillDelete
  <2> QED BY <2>1 DEF KillInv, KillLeavesNothing, Active
<1>11. ASSUME UNCHANGED vars PROVE KillInv'
  <2>1. UNCHANGED <<alive, admin, straggler, rows, task>>
    BY <1>11 DEF vars, history
  <2> QED BY <2>1 DEF KillInv, KillLeavesNothing, Active
<1> QED
  BY <1>1, <1>2, <1>3, <1>4, <1>5, <1>6, <1>7, <1>8, <1>9, <1>10, <1>11 DEF Next

(* However turns, compactions, /stop and session commands interleave with  *)
(* kill_agent, and whatever a stored handle reaches: a kill that met only  *)
(* work it can abort leaves no session row, ever.                          *)
THEOREM KillsLeaveNothing == Spec => []KillLeavesNothing
<1>1. Types /\ LongInv /\ KillInv /\ [Next]_vars => KillInv'
  BY KillNext
<1>2. KillInv => KillLeavesNothing
  BY DEF KillInv
<1> QED BY <1>1, <1>2, KillInit, TypesHold, PTL DEF Spec

-----------------------------------------------------------------------------
(* The quota.                                                              *)
QuotaInv ==
    /\ usage \in Nat /\ peak \in Nat
    /\ QuotaOvershootBounded

LEMMA MeteredFinite == IsFiniteSet(Metered) /\ Cardinality(Metered) \in Nat
<1>1. IsFiniteSet(Turns) /\ Metered \subseteq Turns
  BY SessionsAssumption DEF Metered
<1> QED BY <1>1, FS_Subset, FS_CardinalityType

LEMMA CostMonotone ==
    ASSUME NEW m \in Nat, NEW n \in Nat, m <= n
    PROVE  TurnCost * m \in Nat /\ TurnCost * m <= TurnCost * n
BY SessionsAssumption

LEMMA CostSuccessor ==
    ASSUME NEW n \in Nat
    PROVE  TurnCost * (n + 1) = TurnCost * n + TurnCost /\ TurnCost \in Nat
BY SessionsAssumption

(* A step that meters no new turn and uses nothing keeps the bound.        *)
LEMMA QuotaQuiet ==
    ASSUME QuotaInv, usage' \in Nat, usage' <= usage, peak' = peak,
           \A t \in Turns : Active(t)' => Active(t)
    PROVE  QuotaInv'
<1> DEFINE M == Metered'
           c == Cardinality(Metered)
           d == Cardinality(M)
<1>1. M \subseteq Metered
  BY DEF Metered
<1> HIDE DEF M
<1>2. d \in Nat /\ c \in Nat /\ d <= c
  BY <1>1, MeteredFinite, FS_Subset, FS_CardinalityType
<1> HIDE DEF c, d
<1>3. TurnCost * d \in Nat /\ TurnCost * d <= TurnCost * c /\ TurnCost * c \in Nat
  BY <1>2, CostMonotone
<1>4. usage + TurnCost * c <= Quota + TurnCost * peak /\ usage \in Nat /\ peak \in Nat
  BY DEF QuotaInv, QuotaOvershootBounded, c
<1>5. TurnCost * peak \in Nat /\ Quota \in Nat
  BY <1>4, CostMonotone, SessionsAssumption
<1>6. usage' + TurnCost * d <= Quota + TurnCost * peak
  BY <1>3, <1>4, <1>5
<1> QED BY <1>4, <1>6 DEF QuotaInv, QuotaOvershootBounded, d, M

LEMMA QuotaEnter ==
    ASSUME Types, QuotaInv, NEW t \in Turns, NEW stream \in BOOLEAN, Enter(t, stream)
    PROVE  QuotaInv'
<1> USE TaskSets
<1>1. /\ task[t].pc = "idle" /\ Others(t) /\ usage' = usage
      /\ task'[t].pc \in {"refused", "entered"}
  BY EnterFacts, Zenon DEF Enter
<1>2. usage \in Nat /\ peak \in Nat /\ Quota \in Nat
  BY SessionsAssumption DEF QuotaInv
<1>3. CASE usage > Quota
  <2>1. Step(t, "refused") /\ peak' = peak /\ Typed
    BY <1>3 DEF Enter, Types, Typed
  <2>2. task'[t].pc = "refused"
    BY <2>1, StepFacts DEF Places
  <2>3. \A u \in Turns : Active(u)' => Active(u)
    BY <1>1, <2>2 DEF Active, Ended, Others
  <2> QED BY <1>1, <1>2, <2>1, <2>3, QuotaQuiet
<1>4. CASE ~(usage > Quota)
  <2> DEFINE M == Metered'
             c == Cardinality(Metered)
             d == Cardinality(M)
  <2>1. peak' = IF Cardinality(Metered) >= peak THEN Cardinality(Metered) + 1 ELSE peak
    BY <1>4, Zenon DEF Enter
  <2>2. M \subseteq Metered \cup {t} /\ t \notin Metered
    BY <1>1 DEF Metered, Active, Ended, Others
  <2> HIDE DEF M
  <2>3. IsFiniteSet(Metered) /\ c \in Nat
    BY MeteredFinite
  <2>4. IsFiniteSet(Metered \cup {t}) /\ Cardinality(Metered \cup {t}) = c + 1
    BY <2>2, <2>3, FS_AddElement
  <2>5. d \in Nat /\ d <= c + 1
    BY <2>2, <2>4, FS_Subset, FS_CardinalityType
  <2>6. peak' \in Nat /\ peak' >= c + 1
    BY <1>2, <2>1, <2>3
  <2> HIDE DEF c, d
  <2> DEFINE p == peak'
  <2>7. p \in Nat /\ d \in Nat /\ d <= p
    BY <2>3, <2>5, <2>6
  <2> HIDE DEF p
  <2>8. TurnCost * d \in Nat /\ TurnCost * p \in Nat /\ TurnCost * d <= TurnCost * p
    BY <2>7, CostMonotone
  <2>9. usage + TurnCost * d <= Quota + TurnCost * p
    BY <1>2, <1>4, <2>8
  <2> QED BY <1>1, <1>2, <2>7, <2>9 DEF QuotaInv, QuotaOvershootBounded, d, M, p
<1> QED BY <1>3, <1>4

LEMMA QuotaRecord ==
    ASSUME Types, QuotaInv, NEW t \in Turns, RecordUsage(t)
    PROVE  QuotaInv'
<1> USE TaskSets
<1> DEFINE M == Metered'
           c == Cardinality(Metered)
           d == Cardinality(M)
<1>1. task[t].pc = "record" /\ End(t, "done") /\ peak' = peak /\ Typed
      /\ usage' \in {usage, usage + TurnCost}
  BY DEF RecordUsage, history, Types, Typed
<1>2. Others(t) /\ task'[t].pc = "done"
  BY <1>1, EndFacts DEF Places, Closed
<1>3. t \in Metered /\ M \subseteq Metered \ {t}
  BY <1>1, <1>2 DEF Metered, Active, Ended, Others
<1>4. IsFiniteSet(Metered) /\ c \in Nat
  BY MeteredFinite
<1> HIDE DEF M
<1>5. IsFiniteSet(Metered \ {t}) /\ Cardinality(Metered \ {t}) = c - 1
  BY <1>3, <1>4, FS_RemoveElement
<1>6. d \in Nat /\ d <= c - 1
  BY <1>3, <1>5, FS_Subset, FS_CardinalityType
<1> HIDE DEF c, d
<1>7. d + 1 \in Nat /\ d + 1 <= c
  BY <1>4, <1>6
<1>8. TurnCost * (d + 1) \in Nat /\ TurnCost * (d + 1) <= TurnCost * c /\ TurnCost * c \in Nat
  BY <1>4, <1>7, CostMonotone
<1>9. TurnCost * (d + 1) = TurnCost * d + TurnCost /\ TurnCost \in Nat /\ TurnCost * d \in Nat
  BY <1>6, CostSuccessor, CostMonotone
<1>10. usage + TurnCost * c <= Quota + TurnCost * peak /\ usage \in Nat /\ peak \in Nat
  BY DEF QuotaInv, QuotaOvershootBounded, c
<1>11. TurnCost * peak \in Nat /\ Quota \in Nat
  BY <1>10, CostMonotone, SessionsAssumption
<1>12. usage' + TurnCost * d <= Quota + TurnCost * peak /\ usage' \in Nat
  BY <1>1, <1>8, <1>9, <1>10, <1>11
<1> QED BY <1>1, <1>10, <1>12 DEF QuotaInv, QuotaOvershootBounded, d, M

LEMMA QuotaNext == ASSUME Types, LongInv, QuotaInv, [Next]_vars PROVE QuotaInv'
<1> USE TaskSets
<1>t. Typed /\ usage \in Nat
  BY DEF Types, Typed, QuotaInv
<1>1. ASSUME NEW a \in Tasks, Others(a), UNCHANGED <<usage, peak>>, Active(a) \/ a \notin Turns
      PROVE  QuotaInv'
  <2>1. \A t \in Turns : Active(t)' => Active(t)
    BY <1>1 DEF Active, Others
  <2> QED BY <1>1, <1>t, <2>1, QuotaQuiet
<1>2. ASSUME task' = task, peak' = peak, usage' \in {usage, 0} PROVE QuotaInv'
  <2>1. \A t \in Turns : Active(t)' => Active(t)
    BY <1>2 DEF Active
  <2> QED BY <1>2, <1>t, <2>1, QuotaQuiet
<1>3. ASSUME NEW t \in Turns, Load(t) \/ Save(t) \/ CanonLoad(t) PROVE QuotaInv'
  <2>1. Others(t) /\ Active(t) /\ UNCHANGED <<usage, peak>>
    BY <1>3, LoadFacts, SaveFacts, CanonLoadFacts DEF Load, Save, CanonLoad, Active, Ended, history
  <2> QED BY <2>1, <1>1
<1>4. ASSUME NEW t \in Turns, Resume(t) \/ Fail(t) \/ CanonSave(t) PROVE QuotaInv'
  <2>1. Active(t) /\ UNCHANGED <<usage, peak>>
        /\ (Step(t, "seg") \/ End(t, "failed") \/ End(t, "record"))
    BY <1>4 DEF Resume, Fail, CanonSave, Active, Ended, history
  <2>2. Others(t)
    BY <2>1, <1>t, StepFacts, EndFacts DEF Places, Loaded, Closed
  <2> QED BY <2>1, <2>2, <1>1
<1>5. ASSUME NEW a \in Tasks, CompactLoad(a) \/ CompactStore(a) \/ CompactRow(a) PROVE QuotaInv'
  <2>1. Others(a) /\ (Active(a) \/ a \notin Turns) /\ UNCHANGED <<usage, peak>>
    BY <1>5, CompactLoadFacts, CompactStoreFacts, CompactRowFacts
    DEF CompactLoad, CompactStore, CompactRow, Active, Ended, history
  <2> QED BY <2>1, <1>1
<1>6. ASSUME StopRun \/ KillAbort PROVE QuotaInv'
  <2>1. Abort /\ UNCHANGED <<usage, peak>>
    BY <1>6 DEF StopRun, KillAbort, history
  <2>2. \A b \in Tasks : Marked(b) \/ Aborted(b)
    BY <2>1, AbortFacts
  <2>3. \A t \in Turns : Active(t)' => Active(t)
    BY <2>2 DEF Active, Ended, Marked, Aborted
  <2> QED BY <2>1, <2>3, <1>t, QuotaQuiet
<1>7. ASSUME \/ NewWindow \/ ResetDelete \/ NewSession \/ UseSession \/ KillRemove \/ KillDelete
             \/ \E s \in 1..MaxSessions : SwitchSession(s)
             \/ \E t \in Turns : StoreHandle(t)
             \/ UNCHANGED vars
      PROVE  QuotaInv'
  <2>1. task' = task /\ peak' = peak /\ usage' \in {usage, 0}
    BY <1>7 DEF NewWindow, ResetDelete, NewSession, UseSession, KillRemove, KillDelete,
                SwitchSession, StoreHandle, vars, history
  <2> QED BY <2>1, <1>2
<1> QED
  BY <1>3, <1>4, <1>5, <1>6, <1>7, QuotaEnter, QuotaRecord DEF Next

(* The turns of an agent that passed check_quota and have not reached      *)
(* record_usage are what its hourly limit can be overshot by, for any      *)
(* limit, any cost of a turn and any number of turns at once.              *)
THEOREM QuotaOvershootIsBounded == Spec => []QuotaOvershootBounded
<1>1. Init => QuotaInv
  <2> SUFFICES ASSUME Init PROVE QuotaInv
    OBVIOUS
  <2>1. Metered = {}
    BY TaskSets DEF Init, Metered, Active, Ended, Fresh
  <2>2. Cardinality(Metered) = 0
    BY <2>1, FS_EmptySet
  <2>3. usage = 0 /\ peak = 0
    BY DEF Init
  <2> QED BY <2>2, <2>3, SessionsAssumption DEF QuotaInv, QuotaOvershootBounded
<1>2. Types /\ LongInv /\ QuotaInv /\ [Next]_vars => QuotaInv'
  BY QuotaNext
<1>3. QuotaInv => QuotaOvershootBounded
  BY DEF QuotaInv
<1> QED BY <1>1, <1>2, <1>3, TypesHold, PTL DEF Spec

-----------------------------------------------------------------------------
(* Turns are kept and summaries stay out.                                  *)

(* A task has a copy of session s that it is going to write.               *)
Works(b, s) ==
    \/ b \in Turns /\ task[b].pc \in Loaded /\ task[b].sid = s
    \/ task[b].pc \in Compacting /\ task[b].csid = s

LEMMA WorksInWindow ==
    ASSUME NEW b \in Tasks, NEW s, Works(b, s) PROVE s \in Window(b)
BY DEF Works, Window, Loaded, Compacting

LEMMA WorksOnSession ==
    ASSUME Types, NEW b \in Tasks, NEW s, Works(b, s) PROVE s \in Sids
BY DEF Types, Works, Loaded, Compacting

(* Two tasks that work on one session have collided.                       *)
LEMMA Clash ==
    ASSUME Types, OverlapInv, NEW a \in Tasks, NEW b \in Tasks, a # b, NEW s, Works(a, s), Works(b, s)
    PROVE  a \in collided /\ b \in collided
BY WorksInWindow, WorksOnSession DEF OverlapInv

LEMMA SessionProper ==
    ASSUME Types, HomeInv, NEW s PROVE Proper(Session(s), s)
<1>1. s \in DOMAIN rows => Proper(rows[s], s)
  BY DEF HomeInv
<1>2. Proper(<<>>, s)
  BY EmptyFacts DEF Proper
<1> QED BY <1>1, <1>2, SessionFacts

LEMMA SessionMember ==
    ASSUME Types, NEW s, NEW t
    PROVE  t \in ToSet(Session(s)) <=> s \in DOMAIN rows /\ t \in ToSet(rows[s])
BY SessionFacts, EmptyFacts

(* What a step that writes no row and no summary may do to task b: stay in *)
(* its place or leave it, or load a session that no compaction is about to *)
(* replace.                                                                *)
Reads(s) == collided' = {} => ~Moving(s)

Careful(b) ==
    /\ task'[b].pc \in Compacting =>
          \/ task'[b].pc = task[b].pc /\ task'[b].csid = task[b].csid /\ task'[b].ccopy = task[b].ccopy
          \/ task'[b].pc = "c_llm" /\ task'[b].ccopy = Session(task'[b].csid) /\ Reads(task'[b].csid)
    /\ task[b].pc = "c_row" => task'[b].pc = "c_row" /\ task'[b].csid = task[b].csid
CarefulTurn(b) ==
    /\ task'[b].pc \in Unstarted => task[b].pc \in Unstarted
    /\ task'[b].pc \in Closed => task[b].pc \in Closed
    /\ task'[b].pc \in {"run", "seg"} => task[b].pc \in Unstarted \cup {"run", "seg"}
    /\ task'[b].sid = task[b].sid \/ task[b].pc = "idle"
    /\ task'[b].pc \in Loaded =>
          /\ task'[b].sid = task[b].sid
          /\ \/ task[b].pc \in Loaded /\ task'[b].copy = task[b].copy
             \/ task'[b].copy = Session(task[b].sid) /\ Reads(task[b].sid)
CarefulStep ==
    /\ UNCHANGED <<rows, summarised, deleted>> /\ collided \subseteq collided'
    /\ \A b \in Tasks : Careful(b)
    /\ \A b \in Turns : CarefulTurn(b)

Core == HomeInv /\ StartInv /\ KeptInv /\ StoredInv /\ CleanInv

(* The session of a turn is fixed before it is anywhere.                   *)
LEMMA SessionOfStays ==
    ASSUME \A b \in Turns : task'[b].sid = task[b].sid \/ task[b].pc = "idle"
    PROVE  \A t : (t \in Turns => task[t].pc # "idle") => SessionOf(t)' = SessionOf(t)
BY DEF SessionOf

LEMMA Elsewhere ==
    ASSUME Types, StartInv, NEW t \in Turns, task[t].pc = "idle"
    PROVE  /\ \A s \in DOMAIN rows : t \notin ToSet(rows[s])
           /\ \A b \in Turns : task[b].pc \in Loaded => t \notin ToSet(task[b].copy)
           /\ \A b \in Tasks : task[b].pc \in Compacting => t \notin ToSet(task[b].ccopy)
           /\ t \notin summarised
BY DEF StartInv, Unstarted

LEMMA CarefulHome == ASSUME Types, HomeInv, StartInv, CarefulStep PROVE HomeInv'
<1> USE TaskSets
<1>s. \A t : (t \in Turns => task[t].pc # "idle") => SessionOf(t)' = SessionOf(t)
  BY SessionOfStays DEF CarefulStep, CarefulTurn
<1>1. ASSUME NEW s \in DOMAIN rows' PROVE Proper(rows[s], s)'
  <2>1. rows' = rows /\ Proper(rows[s], s)
    BY <1>1 DEF CarefulStep, HomeInv
  <2>2. \A t \in ToSet(rows[s]) : SessionOf(t)' = SessionOf(t)
    BY <1>s, <1>1, <2>1, Elsewhere
  <2> QED BY <2>1, <2>2 DEF Proper
<1>r. ASSUME NEW s PROVE Distinct(Session(s)) /\ \A t \in ToSet(Session(s)) : SessionOf(t)' = s
  <2>1. Proper(Session(s), s)
    BY SessionProper
  <2>2. \A t \in ToSet(Session(s)) : SessionOf(t)' = SessionOf(t)
    BY <1>s, SessionMember, Elsewhere
  <2> QED BY <2>1, <2>2 DEF Proper
<1>2. ASSUME NEW b \in Turns, task'[b].pc \in Loaded PROVE Proper(task[b].copy, task[b].sid)'
  <2>1. /\ task'[b].sid = task[b].sid
        /\ \/ task[b].pc \in Loaded /\ task'[b].copy = task[b].copy
           \/ task'[b].copy = Session(task[b].sid)
    BY <1>2 DEF CarefulStep, CarefulTurn
  <2>2. CASE task[b].pc \in Loaded /\ task'[b].copy = task[b].copy
    <3>1. Proper(task[b].copy, task[b].sid)
      BY <2>2 DEF HomeInv
    <3>2. \A t \in ToSet(task[b].copy) : SessionOf(t)' = SessionOf(t)
      BY <1>s, <2>2, Elsewhere
    <3> QED BY <2>1, <2>2, <3>1, <3>2 DEF Proper
  <2>3. CASE task'[b].copy = Session(task[b].sid)
    BY <2>1, <2>3, <1>r DEF Proper
  <2> QED BY <2>1, <2>2, <2>3
<1>3. ASSUME NEW b \in Tasks, task'[b].pc \in Compacting PROVE Proper(task[b].ccopy, task[b].csid)'
  <2>1. \/ task'[b].pc = task[b].pc /\ task'[b].csid = task[b].csid /\ task'[b].ccopy = task[b].ccopy
        \/ task'[b].ccopy = Session(task'[b].csid)
    BY <1>3 DEF CarefulStep, Careful
  <2>2. CASE task'[b].pc = task[b].pc /\ task'[b].csid = task[b].csid /\ task'[b].ccopy = task[b].ccopy
    <3>1. Proper(task[b].ccopy, task[b].csid)
      BY <1>3, <2>2 DEF HomeInv
    <3>2. \A t \in ToSet(task[b].ccopy) : SessionOf(t)' = SessionOf(t)
      BY <1>s, <1>3, <2>2, Elsewhere
    <3> QED BY <2>2, <3>1, <3>2 DEF Proper
  <2>3. CASE task'[b].ccopy = Session(task'[b].csid)
    BY <2>3, <1>r DEF Proper
  <2> QED BY <2>1, <2>2, <2>3
<1> QED BY <1>1, <1>2, <1>3 DEF HomeInv

LEMMA CarefulStart == ASSUME Types, StartInv, CarefulStep PROVE StartInv'
<1> USE TaskSets
<1> SUFFICES ASSUME NEW t \in Turns, task'[t].pc \in Unstarted
             PROVE  /\ \A s \in DOMAIN rows' : t \notin ToSet(rows'[s])
                    /\ \A b \in Turns : task'[b].pc \in Loaded => t \notin ToSet(task'[b].copy)
                    /\ \A b \in Tasks : task'[b].pc \in Compacting => t \notin ToSet(task'[b].ccopy)
                    /\ t \notin summarised'
  BY DEF StartInv
<1>1. task[t].pc \in Unstarted
  BY DEF CarefulStep, CarefulTurn
<1>2. /\ \A s \in DOMAIN rows : t \notin ToSet(rows[s])
      /\ \A b \in Turns : task[b].pc \in Loaded => t \notin ToSet(task[b].copy)
      /\ \A b \in Tasks : task[b].pc \in Compacting => t \notin ToSet(task[b].ccopy)
      /\ t \notin summarised
  BY <1>1 DEF StartInv
<1>3. \A s : t \notin ToSet(Session(s))
  BY <1>2, SessionMember
<1>4. ASSUME NEW b \in Turns, task'[b].pc \in Loaded PROVE t \notin ToSet(task'[b].copy)
  BY <1>2, <1>3, <1>4 DEF CarefulStep, CarefulTurn
<1>5. ASSUME NEW b \in Tasks, task'[b].pc \in Compacting PROVE t \notin ToSet(task'[b].ccopy)
  BY <1>2, <1>3, <1>5 DEF CarefulStep, Careful
<1> QED BY <1>2, <1>4, <1>5 DEF CarefulStep

LEMMA CarefulKept == ASSUME Types, KeptInv, CarefulStep PROVE KeptInv'
<1> USE TaskSets
<1> SUFFICES ASSUME NEW t \in (Finished \ collided)', SessionOf(t)' \notin deleted'
             PROVE  /\ \/ t \in summarised'
                       \/ SessionOf(t)' \in DOMAIN rows' /\ t \in ToSet(rows'[SessionOf(t)'])
                    /\ \A b \in Turns : task'[b].pc \in Loaded /\ task'[b].sid = SessionOf(t)'
                          => t \in summarised' \/ t \in ToSet(task'[b].copy)
                    /\ \A b \in Tasks : task'[b].pc \in Compacting /\ task'[b].csid = SessionOf(t)'
                          => t \in summarised' \/ t \in ToSet(task'[b].ccopy)
  BY DEF KeptInv
<1>1. rows' = rows /\ summarised' = summarised /\ deleted' = deleted
  BY DEF CarefulStep
<1>2. t \in Finished /\ t \notin collided /\ (t \in Turns => task[t].pc # "idle")
  BY DEF Finished, CarefulStep, CarefulTurn, Closed
<1>3. SessionOf(t)' = SessionOf(t)
  BY <1>2, SessionOfStays DEF CarefulStep, CarefulTurn
<1> DEFINE s == SessionOf(t)
<1> HIDE DEF s
<1>4. /\ t \in summarised \/ (s \in DOMAIN rows /\ t \in ToSet(rows[s]))
      /\ \A b \in Turns : task[b].pc \in Loaded /\ task[b].sid = s
            => t \in summarised \/ t \in ToSet(task[b].copy)
      /\ \A b \in Tasks : task[b].pc \in Compacting /\ task[b].csid = s
            => t \in summarised \/ t \in ToSet(task[b].ccopy)
  BY <1>1, <1>2, <1>3 DEF KeptInv, s
<1>5. t \in summarised \/ t \in ToSet(Session(s))
  BY <1>4, SessionMember
<1>6. ASSUME NEW b \in Turns, task'[b].pc \in Loaded, task'[b].sid = s
      PROVE  t \in summarised \/ t \in ToSet(task'[b].copy)
  <2>1. /\ task[b].sid = s
        /\ (task[b].pc \in Loaded /\ task'[b].copy = task[b].copy) \/ task'[b].copy = Session(s)
    BY <1>6 DEF CarefulStep, CarefulTurn
  <2> QED BY <2>1, <1>4, <1>5
<1>7. ASSUME NEW b \in Tasks, task'[b].pc \in Compacting, task'[b].csid = s
      PROVE  t \in summarised \/ t \in ToSet(task'[b].ccopy)
  <2>1. \/ task[b].pc \in Compacting /\ task[b].csid = s /\ task'[b].ccopy = task[b].ccopy
        \/ task'[b].ccopy = Session(s)
    BY <1>7 DEF CarefulStep, Careful
  <2> QED BY <2>1, <1>4, <1>5
<1> QED BY <1>1, <1>3, <1>4, <1>6, <1>7 DEF s

LEMMA CarefulStored == ASSUME StoredInv, CarefulStep PROVE StoredInv'
<1> SUFFICES ASSUME NEW a \in Tasks, task'[a].pc = "c_row"
             PROVE  \A t \in ToSet(task'[a].ccopy) :
                        t \in summarised' \/ t \in ToSet(Kept(task'[a].ccopy))
  BY DEF StoredInv, Kept
<1>1. task[a].pc = "c_row" /\ task'[a].ccopy = task[a].ccopy /\ summarised' = summarised
  BY DEF CarefulStep, Careful, Compacting
<1> QED BY <1>1 DEF StoredInv

LEMMA CarefulClean == ASSUME Types, StartInv, CleanInv, CarefulStep PROVE CleanInv'
<1> USE TaskSets
<1> SUFFICES ASSUME collided' = {}, NEW t \in summarised'
             PROVE  /\ SessionOf(t)' \in DOMAIN rows' /\ ~Moving(SessionOf(t))'
                          => t \notin ToSet(rows'[SessionOf(t)'])
                    /\ t \in Turns => task'[t].pc \notin {"run", "seg"}
                    /\ \A b \in Turns :
                          /\ task'[b].pc \in Loaded /\ task'[b].sid = SessionOf(t)'
                          /\ ~(task'[b].pc = "c_row" /\ task'[b].csid = SessionOf(t)')
                          => t \notin ToSet(task'[b].copy)
                    /\ \A b \in Tasks : task'[b].pc = "c_llm" /\ task'[b].csid = SessionOf(t)'
                          => t \notin ToSet(task'[b].ccopy)
                    /\ \A b \in Tasks : task'[b].pc = "c_row" /\ task'[b].csid = SessionOf(t)'
                          => t \notin ToSet(Kept(task'[b].ccopy))
  BY DEF CleanInv, Kept
<1>1. rows' = rows /\ t \in summarised /\ collided = {}
  BY DEF CarefulStep
<1>2. t \in Turns => task[t].pc \notin Unstarted
  BY <1>1 DEF StartInv
<1>3. SessionOf(t)' = SessionOf(t)
  BY <1>2, SessionOfStays DEF CarefulStep, CarefulTurn, Unstarted
<1> DEFINE s == SessionOf(t)
<1> HIDE DEF s
<1>4. /\ s \in DOMAIN rows /\ ~Moving(s) => t \notin ToSet(rows[s])
      /\ t \in Turns => task[t].pc \notin {"run", "seg"}
      /\ \A b \in Turns :
            task[b].pc \in Loaded /\ task[b].sid = s /\ ~(task[b].pc = "c_row" /\ task[b].csid = s)
            => t \notin ToSet(task[b].copy)
      /\ \A b \in Tasks : task[b].pc = "c_llm" /\ task[b].csid = s => t \notin ToSet(task[b].ccopy)
      /\ \A b \in Tasks : task[b].pc = "c_row" /\ task[b].csid = s
            => t \notin ToSet(Kept(task[b].ccopy))
  BY <1>1 DEF CleanInv, s
<1>5. ~Moving(s) => t \notin ToSet(Session(s))
  BY <1>4, SessionMember
<1>6. ASSUME ~(\E a \in Tasks : task'[a].pc = "c_row" /\ task'[a].csid = s) PROVE ~Moving(s)
  BY <1>6 DEF CarefulStep, Careful, Moving
<1>7. t \in Turns => task'[t].pc \notin {"run", "seg"}
  BY <1>2, <1>4 DEF CarefulStep, CarefulTurn
<1>8. ASSUME NEW b \in Turns, task'[b].pc \in Loaded, task'[b].sid = s,
             ~(task'[b].pc = "c_row" /\ task'[b].csid = s)
      PROVE  t \notin ToSet(task'[b].copy)
  <2>1. /\ task[b].sid = s
        /\ \/ task[b].pc \in Loaded /\ task'[b].copy = task[b].copy
           \/ task'[b].copy = Session(s) /\ ~Moving(s)
    BY <1>8 DEF CarefulStep, CarefulTurn, Reads
  <2>2. ~(task[b].pc = "c_row" /\ task[b].csid = s)
    BY <1>8 DEF CarefulStep, Careful
  <2> QED BY <2>1, <2>2, <1>4, <1>5
<1>9. ASSUME NEW b \in Tasks, task'[b].pc = "c_llm", task'[b].csid = s
      PROVE  t \notin ToSet(task'[b].ccopy)
  <2>1. \/ task[b].pc = "c_llm" /\ task[b].csid = s /\ task'[b].ccopy = task[b].ccopy
        \/ task'[b].ccopy = Session(s) /\ ~Moving(s)
    BY <1>9 DEF CarefulStep, Careful, Compacting, Reads
  <2> QED BY <2>1, <1>4, <1>5
<1>10. ASSUME NEW b \in Tasks, task'[b].pc = "c_row", task'[b].csid = s
       PROVE  t \notin ToSet(Kept(task'[b].ccopy))
  <2>1. task[b].pc = "c_row" /\ task[b].csid = s /\ task'[b].ccopy = task[b].ccopy
    BY <1>10 DEF CarefulStep, Careful, Compacting
  <2> QED BY <2>1, <1>4
<1>11. ~Moving(SessionOf(t))' => ~(\E a \in Tasks : task'[a].pc = "c_row" /\ task'[a].csid = s)
  BY <1>3 DEF Moving, s
<1> QED BY <1>1, <1>3, <1>4, <1>6, <1>7, <1>8, <1>9, <1>10, <1>11 DEF s

LEMMA CarefulCore == ASSUME Types, Core, CarefulStep PROVE Core'
BY CarefulHome, CarefulStart, CarefulKept, CarefulStored, CarefulClean DEF Core

(* The canonical session is only read.                                     *)
CanonQuiet ==
    /\ UNCHANGED <<canon, summarised>> /\ collided \subseteq collided'
    /\ \A b \in Turns :
          /\ task'[b].pc \in Recorded => task[b].pc \in Recorded
          /\ task'[b].pc = "append" =>
                \/ task[b].pc = "append" /\ task'[b].ccopy = task[b].ccopy
                \/ task'[b].ccopy = canon.msgs

LEMMA CanonQuietStep == ASSUME CanonInv, CanonQuiet PROVE CanonInv'
<1> SUFFICES ASSUME summarised' = {}, NEW t \in Turns, t \notin collided', task'[t].pc \in Recorded
             PROVE  /\ t \in ToSet(canon'.msgs)
                    /\ \A b \in Turns : task'[b].pc = "append" => t \in ToSet(task'[b].ccopy)
  BY DEF CanonInv
<1>1. canon' = canon /\ summarised = {} /\ t \notin collided /\ task[t].pc \in Recorded
  BY DEF CanonQuiet
<1>2. /\ t \in ToSet(canon.msgs)
      /\ \A b \in Turns : task[b].pc = "append" => t \in ToSet(task[b].ccopy)
  BY <1>1 DEF CanonInv
<1> QED BY <1>1, <1>2 DEF CanonQuiet

(* Overlaps: no task gains a session, or one task does and collides with   *)
(* whoever works on it.                                                    *)
LEMMA OverlapShrinks ==
    ASSUME OverlapInv, nextSid' = nextSid, collided \subseteq collided',
           \A b \in Tasks : \A s \in Sids : s \in Window(b)' => s \in Window(b),
           \A b \in Turns : task'[b].pc = "append" => task[b].pc = "append"
    PROVE  OverlapInv'
<1>1. Sids' = Sids
  BY DEF Sids
<1>2. ASSUME NEW a \in Tasks, NEW b \in Tasks, NEW s \in Sids, a # b,
             s \in Window(a)', s \in Window(b)'
      PROVE  a \in collided' /\ b \in collided'
  BY <1>2 DEF OverlapInv
<1>3. ASSUME NEW a \in Turns, NEW b \in Turns, a # b, task'[a].pc = "append", task'[b].pc = "append"
      PROVE  a \in collided' /\ b \in collided'
  BY <1>3 DEF OverlapInv
<1> QED BY <1>1, <1>2, <1>3 DEF OverlapInv

LEMMA CollideFacts ==
    ASSUME NEW a \in Tasks, NEW s, collided' = Collide(a, s)
    PROVE  /\ collided \subseteq collided'
           /\ \A b \in Tasks : b # a /\ s \in Window(b) => a \in collided' /\ b \in collided'
<1> DEFINE others == {b \in Tasks \ {a} : s \in Window(b)}
<1>1. collided' = IF others = {} THEN collided ELSE collided \cup others \cup {a}
  BY Zenon DEF Collide
<1>2. \A b \in Tasks : b # a /\ s \in Window(b) => b \in others
  OBVIOUS
<1> HIDE DEF others
<1> QED BY <1>1, <1>2

LEMMA OverlapGains ==
    ASSUME OverlapInv, nextSid' = nextSid, NEW a \in Tasks, NEW u, Others(a),
           collided' = Collide(a, u),
           \A s \in Sids : s \in Window(a)' => s \in Window(a) \/ s = u,
           task'[a].pc # "append"
    PROVE  OverlapInv'
<1> USE TaskSets
<1>1. Sids' = Sids
  BY DEF Sids
<1>2. collided \subseteq collided' /\ \A b \in Tasks : b # a /\ u \in Window(b) => a \in collided' /\ b \in collided'
  BY CollideFacts
<1>3. \A b \in Tasks : b # a => Window(b)' = Window(b)
  BY DEF Window, Others
<1>4. ASSUME NEW x \in Tasks, NEW y \in Tasks, NEW s \in Sids, x # y,
             s \in Window(x)', s \in Window(y)'
      PROVE  x \in collided' /\ y \in collided'
  <2>1. CASE s \in Window(x) /\ s \in Window(y)
    BY <1>2, <1>4, <2>1 DEF OverlapInv
  <2>2. CASE s \notin Window(x)
    <3>1. x = a /\ s = u /\ s \in Window(y)
      BY <1>3, <1>4, <2>2
    <3> QED BY <1>2, <1>4, <3>1
  <2>3. CASE s \notin Window(y)
    <3>1. y = a /\ s = u /\ s \in Window(x)
      BY <1>3, <1>4, <2>3
    <3> QED BY <1>2, <1>4, <3>1
  <2> QED BY <2>1, <2>2, <2>3
<1>5. ASSUME NEW x \in Turns, NEW y \in Turns, x # y, task'[x].pc = "append", task'[y].pc = "append"
      PROVE  x \in collided' /\ y \in collided'
  BY <1>2, <1>5 DEF OverlapInv, Others
<1> QED BY <1>1, <1>4, <1>5 DEF OverlapInv

-----------------------------------------------------------------------------
(* The operations, one by one: the ones that only read first.              *)
InvStep == Core' /\ OverlapInv' /\ CanonInv'

(* A task that only moves on, keeping its copies or dropping them.         *)
MovesOn(b) ==
    /\ task'[b].pc \in Compacting => task'[b].pc = task[b].pc /\ task'[b].csid = task[b].csid
                                     /\ task'[b].ccopy = task[b].ccopy
    /\ task[b].pc = "c_row" => task'[b].pc = "c_row" /\ task'[b].csid = task[b].csid
    /\ b \in Turns =>
          /\ task'[b].pc \in Unstarted => task[b].pc \in Unstarted
          /\ task'[b].pc \in Closed => task[b].pc \in Closed
          /\ task'[b].pc \in {"run", "seg"} => task[b].pc \in Unstarted \cup {"run", "seg"}
          /\ task'[b].sid = task[b].sid \/ task[b].pc = "idle"
          /\ task'[b].pc \in Loaded =>
                task'[b].sid = task[b].sid /\ task[b].pc \in Loaded /\ task'[b].copy = task[b].copy
          /\ task'[b].pc \in Recorded => task[b].pc \in Recorded
          /\ task'[b].pc = "append" => task[b].pc = "append" /\ task'[b].ccopy = task[b].ccopy
    /\ b \in Compactors => task'[b].sid = 0

LEMMA QuietStep ==
    ASSUME Inv, UNCHANGED <<rows, summarised, deleted, collided, canon, nextSid>>,
           \A b \in Tasks : MovesOn(b)
    PROVE  InvStep
<1> USE TaskSets
<1>1. CarefulStep
  BY DEF CarefulStep, Careful, CarefulTurn, MovesOn
<1>2. CanonQuiet
  BY DEF CanonQuiet, MovesOn
<1>3. ASSUME NEW b \in Tasks, NEW s \in Sids, s \in Window(b)' PROVE s \in Window(b)
  <2>1. \/ task'[b].pc \in Loaded /\ s = task'[b].sid
        \/ task'[b].pc \in Compacting /\ s = task'[b].csid
    BY <1>3 DEF Window, Loaded, Compacting
  <2>2. b \in Compactors => s # task'[b].sid
    BY DEF MovesOn, Sids
  <2>3. \/ task[b].pc \in Loaded /\ s = task[b].sid
        \/ task[b].pc \in Compacting /\ s = task[b].csid
    BY <2>1, <2>2 DEF MovesOn
  <2> QED BY <2>3 DEF Window, Loaded, Compacting
<1>4. OverlapInv'
  BY <1>3, OverlapShrinks DEF Inv, MovesOn
<1> QED BY <1>1, <1>2, <1>4, CarefulCore, CanonQuietStep DEF InvStep, Inv, Core

LEMMA StayMovesOn ==
    ASSUME Types, NEW b \in Tasks, task'[b] = task[b] PROVE MovesOn(b)
BY DEF MovesOn, Types

LEMMA EnterStep ==
    ASSUME Inv, NEW t \in Turns, NEW stream \in BOOLEAN, Enter(t, stream) PROVE InvStep
<1> USE TaskSets
<1>1. /\ Others(t) /\ task[t].pc = "idle" /\ task'[t].pc \in {"refused", "entered"}
  BY EnterFacts DEF Inv
<1>2. UNCHANGED <<rows, summarised, deleted, collided, canon, nextSid>>
  BY Zenon DEF Enter
<1>3. MovesOn(t)
  BY <1>1 DEF MovesOn, Unstarted, Loaded, Compacting, Closed, Recorded
<1> QED BY <1>1, <1>2, <1>3, QuietStep, StayMovesOn DEF Others, Inv

LEMMA ForwardStep ==
    ASSUME Inv, NEW t \in Turns, Resume(t) \/ Fail(t) \/ RecordUsage(t) PROVE InvStep
<1> USE TaskSets
<1>1. Typed
  BY DEF Inv, Types, Typed
<1>2. /\ UNCHANGED <<rows, summarised, deleted, collided, canon, nextSid>>
      /\ \/ task[t].pc = "run" /\ Step(t, "seg")
         \/ task[t].pc = "seg" /\ End(t, "failed")
         \/ task[t].pc = "record" /\ End(t, "done")
  BY DEF Resume, Fail, RecordUsage, history
<1>3. /\ Others(t) /\ task'[t].sid = task[t].sid
      /\ \/ task[t].pc = "run" /\ task'[t].pc = "seg" /\ task'[t].copy = task[t].copy
         \/ task[t].pc = "seg" /\ task'[t].pc = "failed"
         \/ task[t].pc = "record" /\ task'[t].pc = "done"
  BY <1>1, <1>2, StepFacts, EndFacts DEF Places, Loaded, Closed
<1>4. MovesOn(t)
  BY <1>3 DEF MovesOn, Unstarted, Loaded, Compacting, Closed, Recorded
<1> QED BY <1>2, <1>3, <1>4, QuietStep, StayMovesOn DEF Others, Inv

LEMMA AbortStep ==
    ASSUME Inv, Abort, UNCHANGED <<rows, summarised, deleted, collided, canon, nextSid>>
    PROVE  InvStep
<1> USE TaskSets
<1>1. /\ \A b \in Tasks : b \notin handle \/ ~Awaits(b) => Marked(b)
      /\ \A b \in handle : Awaits(b) => Aborted(b)
  BY AbortFacts DEF Inv
<1>2. ASSUME NEW b \in Tasks PROVE MovesOn(b)
  <2>1. CASE Marked(b)
    BY <2>1 DEF Marked, MovesOn, Inv, Types
  <2>2. CASE b \in handle /\ Awaits(b)
    <3>1. Aborted(b) /\ task[b].pc # "c_row" /\ b \notin Compactors
      BY <1>1, <2>2 DEF Awaits, Inv, Types
    <3> QED BY <3>1 DEF Aborted, MovesOn, Unstarted, Loaded, Compacting, Closed, Recorded
  <2> QED BY <1>1, <2>1, <2>2
<1> QED BY <1>2, QuietStep

LEMMA IdleStep ==
    ASSUME Inv, UNCHANGED <<rows, summarised, deleted, collided, canon, nextSid, task>>
    PROVE  InvStep
BY QuietStep, StayMovesOn DEF Inv

LEMMA LoadStep == ASSUME Inv, NEW t \in Turns, Load(t) PROVE InvStep
<1> USE TaskSets
<1> DEFINE s == task[t].sid
<1>1. /\ Others(t) /\ task[t].pc = "entered" /\ task'[t].pc \in {"compact", "run"}
      /\ task'[t].sid = s /\ task'[t].copy = Session(s)
  BY LoadFacts DEF Inv
<1>2. UNCHANGED <<rows, summarised, deleted, canon, nextSid>> /\ collided' = Collide(t, s)
  BY Zenon DEF Load
<1>3. collided \subseteq collided' /\ \A b \in Tasks : b # t /\ s \in Window(b) => t \in collided'
  BY <1>2, CollideFacts
<1>4. Reads(s)
  <2>1. ASSUME NEW b \in Tasks, task[b].pc = "c_row", task[b].csid = s PROVE t \in collided'
    <3>1. b # t /\ s \in Window(b)
      BY <1>1, <2>1 DEF Window
    <3> QED BY <1>3, <3>1
  <2> QED BY <2>1 DEF Reads, Moving
<1>5. CarefulStep
  <2>1. Careful(t) /\ CarefulTurn(t)
    BY <1>1, <1>4 DEF Careful, CarefulTurn, Unstarted, Loaded, Compacting, Closed
  <2>2. \A b \in Tasks : b # t => Careful(b)
    BY <1>1 DEF Others, Careful
  <2>3. \A b \in Turns : b # t => CarefulTurn(b)
    BY <1>1 DEF Others, CarefulTurn
  <2> QED BY <1>2, <1>3, <2>1, <2>2, <2>3 DEF CarefulStep
<1>6. CanonQuiet
  BY <1>1, <1>2, <1>3 DEF CanonQuiet, Others, Recorded
<1>7. OverlapInv'
  <2>1. \A u \in Sids : u \in Window(t)' => u \in Window(t) \/ u = s
    BY <1>1 DEF Window
  <2> QED BY <1>1, <1>2, <2>1, OverlapGains DEF Inv
<1> QED BY <1>5, <1>6, <1>7, CarefulCore, CanonQuietStep DEF InvStep, Inv, Core

LEMMA CompactLoadStep == ASSUME Inv, NEW a \in Tasks, CompactLoad(a) PROVE InvStep
<1> USE TaskSets
<1>1. /\ Others(a) /\ task[a].pc = (IF a \in Turns THEN "compact" ELSE "idle")
      /\ rows' = rows /\ (CompactBegins(a) \/ CompactSkips(a))
  BY CompactLoadFacts DEF Inv
<1>2. UNCHANGED <<rows, summarised, deleted, canon, nextSid>>
  BY <1>1 DEF CompactLoad
<1>3. /\ \A b \in Tasks : b # a => Careful(b)
      /\ \A b \in Turns : b # a => CarefulTurn(b)
  BY <1>1 DEF Others, Careful, CarefulTurn
<1>4. task[a].pc # "c_row" /\ (a \in Compactors => task[a].sid = 0)
  BY <1>1 DEF Inv, Types
<1>5. CASE CompactBegins(a)
  <2>1. /\ task'[a].pc = "c_llm" /\ task'[a].csid = current /\ task'[a].ccopy = Session(current)
        /\ task'[a].sid = task[a].sid /\ task'[a].copy = task[a].copy
        /\ collided' = Collide(a, current)
    BY <1>5 DEF CompactBegins
  <2>2. collided \subseteq collided' /\ \A b \in Tasks : b # a /\ current \in Window(b) => a \in collided'
    BY <2>1, CollideFacts
  <2>3. Reads(current)
    <3>1. ASSUME NEW b \in Tasks, task[b].pc = "c_row", task[b].csid = current PROVE a \in collided'
      <4>1. b # a /\ current \in Window(b)
        BY <1>4, <3>1 DEF Window
      <4> QED BY <2>2, <4>1
    <3> QED BY <3>1 DEF Reads, Moving
  <2>4. CarefulStep
    <3>1. Careful(a)
      BY <1>4, <2>1, <2>3 DEF Careful
    <3>2. a \in Turns => CarefulTurn(a)
      BY <1>1, <2>1 DEF CarefulTurn, Unstarted, Loaded, Closed
    <3> QED BY <1>2, <1>3, <2>2, <3>1, <3>2 DEF CarefulStep
  <2>5. CanonQuiet
    BY <1>1, <1>2, <2>1, <2>2 DEF CanonQuiet, Others, Recorded
  <2>6. OverlapInv'
    <3>1. \A u \in Sids : u \in Window(a)' => u \in Window(a) \/ u = current
      <4>1. Window(a)' = {task[a].sid} \cup {current}
        BY <2>1 DEF Window
      <4>2. a \in Turns => task[a].sid \in Window(a)
        BY <1>1 DEF Window
      <4>3. 0 \notin Sids
        BY DEF Sids
      <4> QED BY <1>4, <4>1, <4>2, <4>3
    <3> QED BY <1>1, <1>2, <2>1, <3>1, OverlapGains DEF Inv
  <2> QED BY <2>4, <2>5, <2>6, CarefulCore, CanonQuietStep DEF InvStep, Inv, Core
<1>6. CASE CompactSkips(a) /\ a \in Compactors
  <2>1. task'[a].pc = "done" /\ task'[a].sid = 0 /\ collided' = collided /\ a \notin Turns
    BY <1>4, <1>6 DEF CompactSkips
  <2>2. MovesOn(a)
    BY <1>4, <2>1 DEF MovesOn, Compacting
  <2> QED BY <1>1, <1>2, <2>1, <2>2, QuietStep, StayMovesOn DEF Others, Inv
<1>7. CASE CompactSkips(a) /\ a \in Turns
  <2> DEFINE s == task[a].sid
  <2>1. /\ task[a].pc = "compact" /\ task'[a].sid = s /\ task'[a].pc \in {"aborted", "run"}
        /\ collided' = collided
        /\ task'[a].pc = "run" => task'[a].copy \in {task[a].copy, Session(s)}
    BY <1>1, <1>7 DEF CompactSkips
  <2>2. Reads(s)
    <3>1. ASSUME NEW b \in Tasks, task[b].pc = "c_row", task[b].csid = s PROVE a \in collided'
      <4>1. b # a /\ Works(b, s) /\ Works(a, s)
        BY <1>4, <1>7, <2>1, <3>1 DEF Works, Loaded, Compacting
      <4> QED BY <2>1, <4>1, Clash DEF Inv
    <3> QED BY <3>1 DEF Reads, Moving
  <2>3. CarefulStep
    <3>1. Careful(a)
      BY <1>4, <2>1 DEF Careful, Compacting
    <3>2. CarefulTurn(a)
      BY <2>1, <2>2 DEF CarefulTurn, Unstarted, Loaded, Closed
    <3> QED BY <1>2, <1>3, <2>1, <3>1, <3>2 DEF CarefulStep
  <2>4. CanonQuiet
    BY <1>1, <1>2, <2>1 DEF CanonQuiet, Others, Recorded
  <2>5. OverlapInv'
    <3>1. ASSUME NEW b \in Tasks, NEW u \in Sids, u \in Window(b)' PROVE u \in Window(b)
      <4>1. CASE b = a
        BY <2>1, <3>1, <4>1 DEF Window
      <4>2. CASE b # a
        BY <1>1, <3>1, <4>2 DEF Window, Others
      <4> QED BY <4>1, <4>2
    <3>2. \A b \in Turns : task'[b].pc = "append" => task[b].pc = "append"
      BY <1>1, <2>1 DEF Others
    <3> QED BY <1>2, <2>1, <3>1, <3>2, OverlapShrinks DEF Inv
  <2> QED BY <2>3, <2>4, <2>5, CarefulCore, CanonQuietStep DEF InvStep, Inv, Core
<1> QED BY <1>1, <1>5, <1>6, <1>7

LEMMA CanonLoadStep == ASSUME Inv, NEW t \in Turns, CanonLoad(t) PROVE InvStep
<1> USE TaskSets
<1>1. /\ Others(t) /\ task[t].pc = "canon" /\ task'[t].pc = "append"
      /\ task'[t].sid = task[t].sid /\ task'[t].ccopy = canon.msgs
  BY CanonLoadFacts DEF Inv
<1>2. UNCHANGED <<rows, summarised, deleted, canon, nextSid>>
  BY Zenon DEF CanonLoad
<1> DEFINE B == {b \in Turns : task[b].pc = "append"}
<1>3. collided' = IF \E b \in Turns : task[b].pc = "append" THEN collided \cup {t} \cup B ELSE collided
  BY Zenon DEF CanonLoad
<1>4. /\ collided \subseteq collided'
      /\ \A b \in Turns : task[b].pc = "append" => t \in collided' /\ b \in collided'
  BY <1>3
<1>5. CarefulStep
  <2>1. Careful(t) /\ CarefulTurn(t)
    BY <1>1 DEF Careful, CarefulTurn, Unstarted, Loaded, Compacting, Closed
  <2>2. \A b \in Tasks : b # t => Careful(b)
    BY <1>1 DEF Others, Careful
  <2>3. \A b \in Turns : b # t => CarefulTurn(b)
    BY <1>1 DEF Others, CarefulTurn
  <2> QED BY <1>2, <1>4, <2>1, <2>2, <2>3 DEF CarefulStep
<1>6. CanonQuiet
  BY <1>1, <1>2, <1>4 DEF CanonQuiet, Others, Recorded
<1>7. OverlapInv'
  <2>1. Sids' = Sids
    BY <1>2 DEF Sids
  <2>2. \A b \in Tasks : Window(b)' = Window(b)
    <3>1. Window(t)' = Window(t)
      BY <1>1 DEF Window
    <3>2. \A b \in Tasks : b # t => Window(b)' = Window(b)
      BY <1>1 DEF Window, Others
    <3> QED BY <3>1, <3>2
  <2>3. ASSUME NEW x \in Tasks, NEW y \in Tasks, NEW s \in Sids, x # y,
               s \in Window(x)', s \in Window(y)'
        PROVE  x \in collided' /\ y \in collided'
    BY <1>4, <2>2, <2>3 DEF OverlapInv, Inv
  <2>4. ASSUME NEW x \in Turns, NEW y \in Turns, x # y, task'[x].pc = "append", task'[y].pc = "append"
        PROVE  x \in collided' /\ y \in collided'
    BY <1>1, <1>4, <2>4 DEF OverlapInv, Inv, Others
  <2> QED BY <2>1, <2>3, <2>4 DEF OverlapInv
<1> QED BY <1>5, <1>6, <1>7, CarefulCore, CanonQuietStep DEF InvStep, Inv, Core

LEMMA CanonSaveStep == ASSUME Inv, NEW t \in Turns, CanonSave(t) PROVE InvStep
<1> USE TaskSets
<1>1. /\ Others(t) /\ task[t].pc = "append" /\ task'[t].pc = "record" /\ task'[t].sid = task[t].sid
  BY EndFacts DEF Inv, Types, Typed, CanonSave, Places, Closed
<1>2. /\ UNCHANGED <<rows, summarised, deleted, collided, nextSid>>
      /\ canon' = [summary |-> task[t].csum, msgs |-> Append(task[t].ccopy, t)]
  BY DEF CanonSave, history
<1>3. CarefulStep
  <2>1. Careful(t) /\ CarefulTurn(t)
    BY <1>1 DEF Careful, CarefulTurn, Unstarted, Loaded, Compacting, Closed
  <2>2. \A b \in Tasks : b # t => Careful(b)
    BY <1>1 DEF Others, Careful
  <2>3. \A b \in Turns : b # t => CarefulTurn(b)
    BY <1>1 DEF Others, CarefulTurn
  <2> QED BY <1>2, <2>1, <2>2, <2>3 DEF CarefulStep
<1>4. OverlapInv'
  <2>1. \A b \in Tasks : \A s \in Sids : s \in Window(b)' => s \in Window(b)
    <3>1. Window(t)' = Window(t)
      BY <1>1 DEF Window
    <3>2. \A b \in Tasks : b # t => Window(b)' = Window(b)
      BY <1>1 DEF Window, Others
    <3> QED BY <3>1, <3>2
  <2>2. \A b \in Turns : task'[b].pc = "append" => task[b].pc = "append"
    BY <1>1 DEF Others
  <2> QED BY <1>2, <2>1, <2>2, OverlapShrinks DEF Inv
<1>5. CanonInv'
  <2> SUFFICES ASSUME summarised = {}, NEW u \in Turns, u \notin collided, task'[u].pc \in Recorded
               PROVE  /\ u \in ToSet(canon'.msgs)
                      /\ \A b \in Turns : task'[b].pc = "append" => u \in ToSet(task'[b].ccopy)
    BY <1>2 DEF CanonInv
  <2>1. \A v : v \in ToSet(canon'.msgs) <=> v \in ToSet(task[t].ccopy) \/ v = t
    <3> DEFINE m == Append(task[t].ccopy, t)
    <3>1. \A v : v \in ToSet(m) <=> v \in ToSet(task[t].ccopy) \/ v = t
      BY AppendFacts, TaskFields DEF Inv, Types, Typed
    <3> HIDE DEF m
    <3>2. canon'.msgs = m
      BY <1>2 DEF m
    <3> QED BY <3>1, <3>2
  <2>2. \A b \in Turns : task'[b].pc = "append" => b # t /\ task[b].pc = "append" /\ task'[b].ccopy = task[b].ccopy
    BY <1>1 DEF Others
  <2>3. CASE u = t
    <3>1. \A b \in Turns : task'[b].pc # "append"
      BY <1>1, <2>2, <2>3 DEF Inv, OverlapInv
    <3> QED BY <2>1, <2>3, <3>1
  <2>4. CASE u # t
    <3>1. task[u].pc \in Recorded
      BY <1>1, <2>4 DEF Others
    <3>2. \A b \in Turns : task[b].pc = "append" => u \in ToSet(task[b].ccopy)
      BY <3>1 DEF Inv, CanonInv
    <3> QED BY <1>1, <2>1, <2>2, <3>2
  <2> QED BY <2>3, <2>4
<1> QED BY <1>3, <1>4, <1>5, CarefulCore DEF InvStep, Inv, Core

-----------------------------------------------------------------------------
(* The operations that write.                                              *)
LEMMA SaveStep == ASSUME Inv, NEW t \in Turns, Save(t) PROVE InvStep
<1> USE TaskSets
<1> DEFINE s == task[t].sid
           c == WithTurn(t)
<1>1. /\ Others(t) /\ task[t].pc = "seg" /\ task'[t].sid = s
      /\ task'[t].pc \in {"run", "canon", "aborted"}
      /\ task'[t].pc = "run" => task'[t].copy = c
      /\ SaveRow(s, c)
  BY SaveFacts DEF Inv
<1>2. UNCHANGED <<summarised, deleted, collided, canon, nextSid>>
  BY DEF Save, history
<1>3. /\ \A u : u \in ToSet(c) <=> u \in ToSet(task[t].copy) \/ u = t
      /\ Distinct(task[t].copy) => Distinct(c)
  BY WithTurnFacts DEF Inv, Types, Typed
<1> HIDE DEF c
<1>4. DOMAIN rows' = DOMAIN rows \cup {s} /\ rows'[s] = c
      /\ \A u \in DOMAIN rows \ {s} : rows'[u] = rows[u]
  BY <1>1, SavedRow
<1>5. \A u : SessionOf(u)' = SessionOf(u)
  BY <1>1 DEF SessionOf, Others
<1>6. SessionOf(t) = s /\ Works(t, s)
  BY <1>1 DEF SessionOf, Works, Loaded
<1>7. Proper(task[t].copy, s)
  BY <1>1 DEF Inv, HomeInv, Loaded
<1>8. \A b \in Tasks : b # t => task'[b] = task[b]
  BY <1>1 DEF Others
<1>9. HomeInv'
  <2>1. Distinct(c) /\ \A u \in ToSet(c) : SessionOf(u)' = s
    BY <1>3, <1>5, <1>6, <1>7 DEF Proper
  <2>2. ASSUME NEW x \in DOMAIN rows' PROVE Proper(rows[x], x)'
    <3>1. CASE x = s
      BY <1>4, <2>1, <3>1 DEF Proper
    <3>2. CASE x # s
      BY <1>4, <1>5, <2>2, <3>2 DEF Inv, HomeInv, Proper
    <3> QED BY <3>1, <3>2
  <2>3. ASSUME NEW b \in Turns, task'[b].pc \in Loaded PROVE Proper(task[b].copy, task[b].sid)'
    <3>1. CASE b = t
      BY <1>1, <2>1, <2>3, <3>1 DEF Proper, Loaded
    <3>2. CASE b # t
      BY <1>5, <1>8, <2>3, <3>2 DEF Inv, HomeInv, Proper
    <3> QED BY <3>1, <3>2
  <2>4. ASSUME NEW b \in Tasks, task'[b].pc \in Compacting PROVE Proper(task[b].ccopy, task[b].csid)'
    <3>1. b # t
      BY <1>1, <2>4 DEF Compacting
    <3> QED BY <1>5, <1>8, <2>4, <3>1 DEF Inv, HomeInv, Proper
  <2> QED BY <2>2, <2>3, <2>4 DEF HomeInv
<1>10. StartInv'
  <2> SUFFICES ASSUME NEW u \in Turns, task'[u].pc \in Unstarted
               PROVE  /\ \A x \in DOMAIN rows' : u \notin ToSet(rows'[x])
                      /\ \A b \in Turns : task'[b].pc \in Loaded => u \notin ToSet(task'[b].copy)
                      /\ \A b \in Tasks : task'[b].pc \in Compacting => u \notin ToSet(task'[b].ccopy)
                      /\ u \notin summarised'
    BY DEF StartInv
  <2>1. u # t /\ task[u].pc \in Unstarted
    BY <1>1, <1>8 DEF Unstarted
  <2>2. /\ \A x \in DOMAIN rows : u \notin ToSet(rows[x])
        /\ \A b \in Turns : task[b].pc \in Loaded => u \notin ToSet(task[b].copy)
        /\ \A b \in Tasks : task[b].pc \in Compacting => u \notin ToSet(task[b].ccopy)
        /\ u \notin summarised
    BY <2>1 DEF Inv, StartInv
  <2>3. u \notin ToSet(c)
    BY <1>1, <1>3, <2>1, <2>2 DEF Loaded
  <2>4. \A b \in Turns : task'[b].pc \in Loaded => u \notin ToSet(task'[b].copy)
    BY <1>1, <1>8, <2>2, <2>3 DEF Loaded
  <2>5. \A b \in Tasks : task'[b].pc \in Compacting => u \notin ToSet(task'[b].ccopy)
    BY <1>1, <1>8, <2>2 DEF Compacting
  <2> QED BY <1>2, <1>4, <2>2, <2>3, <2>4, <2>5
<1>11. KeptInv'
  <2> SUFFICES ASSUME NEW u \in (Finished \ collided)', SessionOf(u) \notin deleted
               PROVE  /\ u \in summarised \/ (SessionOf(u) \in DOMAIN rows' /\ u \in ToSet(rows'[SessionOf(u)]))
                      /\ \A b \in Turns : task'[b].pc \in Loaded /\ task'[b].sid = SessionOf(u)
                            => u \in summarised \/ u \in ToSet(task'[b].copy)
                      /\ \A b \in Tasks : task'[b].pc \in Compacting /\ task'[b].csid = SessionOf(u)
                            => u \in summarised \/ u \in ToSet(task'[b].ccopy)
    BY <1>2, <1>5 DEF KeptInv
  <2>1. u \notin collided /\ (u \in Finished \/ (u = t /\ task'[t].pc = "canon"))
    BY <1>1, <1>2, <1>8 DEF Finished
  <2>2. CASE u = t /\ task'[t].pc = "canon"
    <3>1. u \in ToSet(rows'[s]) /\ s \in DOMAIN rows'
      BY <1>3, <1>4, <2>2
    <3>2. \A b \in Tasks : b # t => ~Works(b, s)
      BY <1>6, <2>1, <2>2, Clash DEF Inv
    <3>3. \A b \in Turns : task'[b].pc \in Loaded => task'[b].sid # s
      BY <1>8, <2>2, <3>2 DEF Works, Loaded
    <3>4. \A b \in Tasks : task'[b].pc \in Compacting => task'[b].csid # s
      BY <1>8, <2>2, <3>2 DEF Works, Compacting
    <3> QED BY <1>6, <2>2, <3>1, <3>3, <3>4
  <2>3. CASE u \in Finished
    <3>1. /\ u \in summarised \/ (SessionOf(u) \in DOMAIN rows /\ u \in ToSet(rows[SessionOf(u)]))
          /\ \A b \in Turns : task[b].pc \in Loaded /\ task[b].sid = SessionOf(u)
                => u \in summarised \/ u \in ToSet(task[b].copy)
          /\ \A b \in Tasks : task[b].pc \in Compacting /\ task[b].csid = SessionOf(u)
                => u \in summarised \/ u \in ToSet(task[b].ccopy)
      BY <2>1, <2>3 DEF Inv, KeptInv
    <3>2. SessionOf(u) = s => u \in summarised \/ u \in ToSet(c)
      BY <1>1, <1>3, <3>1 DEF Loaded
    <3>3. u \in summarised \/ (SessionOf(u) \in DOMAIN rows' /\ u \in ToSet(rows'[SessionOf(u)]))
      BY <1>4, <3>1, <3>2
    <3>4. ASSUME NEW b \in Turns, task'[b].pc \in Loaded, task'[b].sid = SessionOf(u)
          PROVE  u \in summarised \/ u \in ToSet(task'[b].copy)
      BY <1>1, <1>8, <3>1, <3>2, <3>4 DEF Loaded
    <3>5. ASSUME NEW b \in Tasks, task'[b].pc \in Compacting, task'[b].csid = SessionOf(u)
          PROVE  u \in summarised \/ u \in ToSet(task'[b].ccopy)
      BY <1>1, <1>8, <3>1, <3>5 DEF Compacting
    <3> QED BY <3>3, <3>4, <3>5
  <2> QED BY <2>1, <2>2, <2>3
<1>12. StoredInv'
  <2>1. \A b \in Tasks : task'[b].pc = "c_row" => task[b].pc = "c_row" /\ task'[b].ccopy = task[b].ccopy
    BY <1>1, <1>8
  <2> QED BY <1>2, <2>1 DEF StoredInv, Inv, Kept
<1>13. CleanInv'
  <2> SUFFICES ASSUME collided = {}, NEW u \in summarised
               PROVE  /\ SessionOf(u) \in DOMAIN rows' /\ ~Moving(SessionOf(u))
                            => u \notin ToSet(rows'[SessionOf(u)])
                      /\ u \in Turns => task'[u].pc \notin {"run", "seg"}
                      /\ \A b \in Turns :
                            /\ task'[b].pc \in Loaded /\ task'[b].sid = SessionOf(u)
                            /\ ~(task'[b].pc = "c_row" /\ task'[b].csid = SessionOf(u))
                            => u \notin ToSet(task'[b].copy)
                      /\ \A b \in Tasks : task'[b].pc = "c_llm" /\ task'[b].csid = SessionOf(u)
                            => u \notin ToSet(task'[b].ccopy)
                      /\ \A b \in Tasks : task'[b].pc = "c_row" /\ task'[b].csid = SessionOf(u)
                            => u \notin ToSet(Kept(task'[b].ccopy))
    <3>1. \A x : Moving(x)' <=> \E a \in Tasks : task'[a].pc = "c_row" /\ task'[a].csid = x
      BY DEF Moving
    <3>2. \A x : Moving(x)' => Moving(x)
      BY <1>1, <1>8, <3>1 DEF Moving
    <3>3. \A x : Moving(x) => Moving(x)'
      BY <1>1, <1>8, <3>1 DEF Moving
    <3> QED BY <1>2, <1>5, <3>2, <3>3 DEF CleanInv, Kept
  <2> DEFINE x == SessionOf(u)
  <2> HIDE DEF x
  <2>1. /\ x \in DOMAIN rows /\ ~Moving(x) => u \notin ToSet(rows[x])
        /\ u \in Turns => task[u].pc \notin {"run", "seg"}
        /\ \A b \in Turns :
              task[b].pc \in Loaded /\ task[b].sid = x /\ ~(task[b].pc = "c_row" /\ task[b].csid = x)
              => u \notin ToSet(task[b].copy)
        /\ \A b \in Tasks : task[b].pc = "c_llm" /\ task[b].csid = x => u \notin ToSet(task[b].ccopy)
        /\ \A b \in Tasks : task[b].pc = "c_row" /\ task[b].csid = x
              => u \notin ToSet(Kept(task[b].ccopy))
    BY DEF Inv, CleanInv, x
  <2>2. u # t
    BY <1>1, <2>1
  <2>3. x = s => u \notin ToSet(c)
    BY <1>1, <1>3, <2>1, <2>2 DEF Loaded
  <2>4. x \in DOMAIN rows' /\ ~Moving(x) => u \notin ToSet(rows'[x])
    BY <1>4, <2>1, <2>3
  <2>5. u \in Turns => task'[u].pc \notin {"run", "seg"}
    BY <1>8, <2>1, <2>2
  <2>6. ASSUME NEW b \in Turns, task'[b].pc \in Loaded, task'[b].sid = x,
               ~(task'[b].pc = "c_row" /\ task'[b].csid = x)
        PROVE  u \notin ToSet(task'[b].copy)
    BY <1>1, <1>8, <2>1, <2>3, <2>6 DEF Loaded
  <2>7. /\ \A b \in Tasks : task'[b].pc = "c_llm" /\ task'[b].csid = x => u \notin ToSet(task'[b].ccopy)
        /\ \A b \in Tasks : task'[b].pc = "c_row" /\ task'[b].csid = x
              => u \notin ToSet(Kept(task'[b].ccopy))
    BY <1>1, <1>8, <2>1
  <2> QED BY <2>4, <2>5, <2>6, <2>7 DEF x
<1>14. OverlapInv'
  <2>1. ASSUME NEW b \in Tasks, NEW u \in Sids, u \in Window(b)' PROVE u \in Window(b)
    <3>1. CASE b = t
      BY <1>1, <2>1, <3>1 DEF Window
    <3>2. CASE b # t
      BY <1>8, <2>1, <3>2 DEF Window
    <3> QED BY <3>1, <3>2
  <2>2. \A b \in Turns : task'[b].pc = "append" => task[b].pc = "append"
    BY <1>1, <1>8
  <2> QED BY <1>2, <2>1, <2>2, OverlapShrinks DEF Inv
<1>15. CanonInv'
  <2>1. CanonQuiet
    BY <1>1, <1>2, <1>8 DEF CanonQuiet, Recorded
  <2> QED BY <2>1, CanonQuietStep DEF Inv
<1> QED BY <1>9, <1>10, <1>11, <1>12, <1>13, <1>14, <1>15 DEF InvStep, Core

(* The summary is stored: from here on the compaction's row is moving.     *)
LEMMA StoreStep ==
    ASSUME Inv, NEW a \in Tasks, task[a].pc = "c_llm", Others(a), SummaryStored(a),
           UNCHANGED <<rows, deleted, collided, nextSid>>
    PROVE  InvStep
<1> USE TaskSets
<1> DEFINE s == task[a].csid
           q == task[a].ccopy
           k == Kept(q)
           D == Dropped(a)
<1>1. /\ task'[a].pc = "c_row" /\ task'[a].sid = task[a].sid /\ task'[a].copy = task[a].copy
      /\ task'[a].csid = s /\ task'[a].ccopy = q /\ summarised' = summarised \cup D
  BY DEF SummaryStored, NewSummary
<1>2. q \in Seq(Everyone) /\ Len(q) > CompactAbove /\ Proper(q, s)
  BY TaskFields DEF Inv, Types, Typed, LongInv, HomeInv, Compacting
<1>3. /\ \A u \in ToSet(k) : u \in ToSet(q)
      /\ \E u \in ToSet(q) : u \notin ToSet(k)
      /\ \A u : u \in D <=> u \in ToSet(q) /\ u \notin ToSet(k)
  BY <1>2, KeptFacts DEF Dropped, Proper
<1> HIDE DEF D, k
<1>4. \A u : SessionOf(u)' = SessionOf(u)
  BY <1>1 DEF SessionOf, Others
<1>5. \A b \in Tasks : b # a => task'[b] = task[b]
  BY DEF Others
<1>6. \A u \in D : SessionOf(u) = s
  BY <1>2, <1>3 DEF Proper
<1>7. Works(a, s)
  BY DEF Works, Compacting
<1>8. \A b \in Tasks :
          /\ task'[b].pc \in Loaded <=> task[b].pc \in Loaded
          /\ task'[b].pc \in Compacting <=> task[b].pc \in Compacting
          /\ task'[b].pc \in Unstarted <=> task[b].pc \in Unstarted
          /\ task'[b].pc \in {"run", "seg"} <=> task[b].pc \in {"run", "seg"}
          /\ task'[b].sid = task[b].sid /\ task'[b].copy = task[b].copy
          /\ task'[b].csid = task[b].csid /\ task'[b].ccopy = task[b].ccopy
  BY <1>1, <1>5 DEF Loaded, Compacting, Unstarted
<1>9. HomeInv'
  BY <1>4, <1>8 DEF Inv, HomeInv, Proper
<1>10. StartInv'
  <2> SUFFICES ASSUME NEW u \in Turns, task'[u].pc \in Unstarted
               PROVE  /\ \A x \in DOMAIN rows : u \notin ToSet(rows[x])
                      /\ \A b \in Turns : task'[b].pc \in Loaded => u \notin ToSet(task'[b].copy)
                      /\ \A b \in Tasks : task'[b].pc \in Compacting => u \notin ToSet(task'[b].ccopy)
                      /\ u \notin summarised'
    BY DEF StartInv
  <2>1. /\ \A x \in DOMAIN rows : u \notin ToSet(rows[x])
        /\ \A b \in Turns : task[b].pc \in Loaded => u \notin ToSet(task[b].copy)
        /\ \A b \in Tasks : task[b].pc \in Compacting => u \notin ToSet(task[b].ccopy)
        /\ u \notin summarised
    BY <1>8 DEF Inv, StartInv
  <2>2. u \notin D
    BY <1>3, <2>1 DEF Compacting
  <2> QED BY <1>1, <1>8, <2>1, <2>2
<1>11. KeptInv'
  <2> SUFFICES ASSUME NEW u \in (Finished \ collided)', SessionOf(u) \notin deleted
               PROVE  /\ u \in summarised' \/ (SessionOf(u) \in DOMAIN rows /\ u \in ToSet(rows[SessionOf(u)]))
                      /\ \A b \in Turns : task'[b].pc \in Loaded /\ task'[b].sid = SessionOf(u)
                            => u \in summarised' \/ u \in ToSet(task'[b].copy)
                      /\ \A b \in Tasks : task'[b].pc \in Compacting /\ task'[b].csid = SessionOf(u)
                            => u \in summarised' \/ u \in ToSet(task'[b].ccopy)
    BY <1>4 DEF KeptInv
  <2>1. u \in Finished \ collided
    BY <1>1, <1>5 DEF Finished
  <2>2. /\ u \in summarised \/ (SessionOf(u) \in DOMAIN rows /\ u \in ToSet(rows[SessionOf(u)]))
        /\ \A b \in Turns : task[b].pc \in Loaded /\ task[b].sid = SessionOf(u)
              => u \in summarised \/ u \in ToSet(task[b].copy)
        /\ \A b \in Tasks : task[b].pc \in Compacting /\ task[b].csid = SessionOf(u)
              => u \in summarised \/ u \in ToSet(task[b].ccopy)
    BY <2>1 DEF Inv, KeptInv
  <2> QED BY <1>1, <1>8, <2>2
<1>12. StoredInv'
  <2>1. ASSUME NEW b \in Tasks, task'[b].pc = "c_row"
        PROVE  \A u \in ToSet(task'[b].ccopy) : u \in summarised' \/ u \in ToSet(Kept(task'[b].ccopy))
    <3>1. CASE b = a
      BY <1>1, <1>3, <3>1 DEF k
    <3>2. CASE b # a
      BY <1>1, <1>5, <2>1, <3>2 DEF Inv, StoredInv
    <3> QED BY <3>1, <3>2
  <2> QED BY <2>1 DEF StoredInv, Kept
<1>13. CleanInv'
  <2> SUFFICES ASSUME collided = {}, NEW u \in summarised'
               PROVE  /\ SessionOf(u) \in DOMAIN rows /\ ~Moving(SessionOf(u)) /\ SessionOf(u) # s
                            => u \notin ToSet(rows[SessionOf(u)])
                      /\ u \in Turns => task'[u].pc \notin {"run", "seg"}
                      /\ \A b \in Turns :
                            /\ task'[b].pc \in Loaded /\ task'[b].sid = SessionOf(u)
                            /\ ~(task'[b].pc = "c_row" /\ task'[b].csid = SessionOf(u))
                            => u \notin ToSet(task'[b].copy)
                      /\ \A b \in Tasks : task'[b].pc = "c_llm" /\ task'[b].csid = SessionOf(u)
                            => u \notin ToSet(task'[b].ccopy)
                      /\ \A b \in Tasks : task'[b].pc = "c_row" /\ task'[b].csid = SessionOf(u)
                            => u \notin ToSet(Kept(task'[b].ccopy))
    <3>1. \A x : Moving(x)' <=> \E b \in Tasks : task'[b].pc = "c_row" /\ task'[b].csid = x
      BY DEF Moving
    <3>2. \A x : Moving(x) \/ x = s => Moving(x)'
      BY <1>1, <1>5, <3>1 DEF Moving
    <3> QED BY <1>4, <3>2 DEF CleanInv, Kept
  <2>1. CASE u \in D
    <3>1. SessionOf(u) = s
      BY <1>6, <2>1
    <3>2. \A b \in Tasks : b # a => ~Works(b, s)
      BY <1>7, Clash DEF Inv
    <3>3. u \in Turns => task'[u].pc \notin {"run", "seg"}
      <4>1. ASSUME u \in Turns, task'[u].pc \in {"run", "seg"} PROVE FALSE
        <5>1. u # a /\ task[u].pc \in Loaded /\ task[u].sid = s
          BY <1>1, <1>8, <3>1, <4>1 DEF SessionOf, Loaded
        <5> QED BY <3>2, <4>1, <5>1 DEF Works
      <4> QED BY <4>1
    <3>4. ASSUME NEW b \in Turns, task'[b].pc \in Loaded, task'[b].sid = s,
                 ~(task'[b].pc = "c_row" /\ task'[b].csid = s)
          PROVE  FALSE
      <4>1. b # a
        BY <1>1, <3>4
      <4> QED BY <1>5, <3>2, <3>4, <4>1 DEF Works
    <3>5. ASSUME NEW b \in Tasks, task'[b].pc \in Compacting, task'[b].csid = s PROVE b = a
      BY <1>5, <3>2, <3>5 DEF Works
    <3>6. u \notin ToSet(k)
      BY <1>3, <2>1
    <3> QED BY <1>1, <3>1, <3>3, <3>4, <3>5, <3>6 DEF Compacting, k
  <2>2. CASE u \in summarised
    <3> DEFINE x == SessionOf(u)
    <3> HIDE DEF x
    <3>1. /\ x \in DOMAIN rows /\ ~Moving(x) => u \notin ToSet(rows[x])
          /\ u \in Turns => task[u].pc \notin {"run", "seg"}
          /\ \A b \in Turns :
                task[b].pc \in Loaded /\ task[b].sid = x /\ ~(task[b].pc = "c_row" /\ task[b].csid = x)
                => u \notin ToSet(task[b].copy)
          /\ \A b \in Tasks : task[b].pc = "c_llm" /\ task[b].csid = x => u \notin ToSet(task[b].ccopy)
          /\ \A b \in Tasks : task[b].pc = "c_row" /\ task[b].csid = x
                => u \notin ToSet(Kept(task[b].ccopy))
      BY <2>2 DEF Inv, CleanInv, x
    <3>2. ASSUME NEW b \in Turns, task'[b].pc \in Loaded, task'[b].sid = x,
                 ~(task'[b].pc = "c_row" /\ task'[b].csid = x)
          PROVE  u \notin ToSet(task'[b].copy)
      <4>1. ~(task[b].pc = "c_row" /\ task[b].csid = x)
        BY <1>5, <3>2
      <4> QED BY <1>8, <3>1, <3>2, <4>1
    <3>3. \A b \in Tasks : task'[b].pc = "c_llm" /\ task'[b].csid = x => u \notin ToSet(task'[b].ccopy)
      BY <1>1, <1>5, <3>1
    <3>4. ASSUME NEW b \in Tasks, task'[b].pc = "c_row", task'[b].csid = x
          PROVE  u \notin ToSet(Kept(task'[b].ccopy))
      <4>1. CASE b = a
        BY <1>1, <1>3, <3>1, <3>4, <4>1 DEF k
      <4>2. CASE b # a
        BY <1>5, <3>1, <3>4, <4>2
      <4> QED BY <4>1, <4>2
    <3>5. u \in Turns => task'[u].pc \notin {"run", "seg"}
      BY <1>8, <3>1
    <3> QED BY <3>1, <3>2, <3>3, <3>4, <3>5 DEF x
  <2> QED BY <1>1, <2>1, <2>2
<1>14. OverlapInv'
  <2>1. ASSUME NEW b \in Tasks PROVE Window(b)' = Window(b)
    <3>1. CASE b = a
      BY <1>1, <3>1 DEF Window
    <3>2. CASE b # a
      BY <1>5, <3>2 DEF Window
    <3> QED BY <3>1, <3>2
  <2>2. \A b \in Turns : task'[b].pc = "append" => task[b].pc = "append"
    BY <1>1, <1>5
  <2> QED BY <2>1, <2>2, OverlapShrinks DEF Inv
<1>15. CanonInv'
  <2>1. summarised' # {}
    BY <1>1, <1>3
  <2> QED BY <2>1 DEF CanonInv
<1> QED BY <1>9, <1>10, <1>11, <1>12, <1>13, <1>14, <1>15 DEF InvStep, Core

LEMMA CompactStoreStep == ASSUME Inv, NEW a \in Tasks, CompactStore(a) PROVE InvStep
<1> USE TaskSets
<1>1. /\ Others(a) /\ task[a].pc = "c_llm" /\ rows' = rows
      /\ SummaryStored(a) \/ CompactFails(a)
  BY CompactStoreFacts DEF Inv
<1>2. UNCHANGED <<rows, deleted, collided, nextSid>>
  BY <1>1 DEF CompactStore
<1>3. CASE SummaryStored(a)
  BY <1>1, <1>2, <1>3, StoreStep
<1>4. CASE CompactFails(a)
  <2>1. MovesOn(a)
    BY <1>1, <1>4 DEF CompactFails, MovesOn, Inv, Types, Unstarted, Loaded, Compacting, Closed, Recorded
  <2>2. canon' = canon /\ summarised' = summarised
    BY <1>4 DEF CompactFails, NoSummary
  <2> QED BY <1>1, <1>2, <2>1, <2>2, QuietStep, StayMovesOn DEF Others, Inv
<1> QED BY <1>1, <1>3, <1>4

(* The compacted row is written, and a turn goes on from what it finds.    *)
LEMMA CompactRowStep == ASSUME Inv, NEW a \in Tasks, CompactRow(a) PROVE InvStep
<1> USE TaskSets
<1> DEFINE s == task[a].csid
           q == task[a].ccopy
           k == Kept(q)
           h == task[a].sid
<1>1. /\ Others(a) /\ task[a].pc = "c_row" /\ task'[a].sid = h
      /\ task'[a].pc \in IF a \in Compactors THEN {"done"} ELSE {"aborted", "run"}
      /\ task'[a].pc = "run" =>
            task'[a].copy = IF h \in DOMAIN rows' THEN rows'[h] ELSE task[a].copy
      /\ SaveRow(s, k)
  BY CompactRowFacts DEF Inv
<1>2. UNCHANGED <<summarised, deleted, collided, canon, nextSid>>
  BY DEF CompactRow, history
<1>3. q \in Seq(Everyone) /\ Len(q) > CompactAbove /\ Proper(q, s) /\ Works(a, s)
  BY <1>1, TaskFields DEF Inv, Types, Typed, LongInv, HomeInv, Compacting, Works
<1>4. /\ \A u \in ToSet(k) : u \in ToSet(q)
      /\ Distinct(k)
  BY <1>3, KeptFacts DEF Proper
<1>5. \A u \in ToSet(q) : u \in summarised \/ u \in ToSet(k)
  BY <1>1 DEF Inv, StoredInv
<1> HIDE DEF k
<1>6. DOMAIN rows' = DOMAIN rows \cup {s} /\ rows'[s] = k
      /\ \A u \in DOMAIN rows \ {s} : rows'[u] = rows[u]
  BY <1>1, SavedRow
<1>7. \A u : SessionOf(u)' = SessionOf(u)
  BY <1>1 DEF SessionOf, Others
<1>8. \A b \in Tasks : b # a => task'[b] = task[b]
  BY <1>1 DEF Others
<1>9. task'[a].pc \in {"run", "aborted", "done"} /\ (a \in Turns => task'[a].pc # "done")
      /\ (task'[a].pc = "run" => a \in Turns)
  BY <1>1
<1>10. /\ \A b \in Turns : task'[b].pc \in Loaded /\ b # a => task[b].pc \in Loaded
       /\ \A b \in Tasks : task'[b].pc \in Compacting =>
             b # a /\ task[b].pc \in Compacting /\ task'[b].pc = task[b].pc
             /\ task'[b].csid = task[b].csid /\ task'[b].ccopy = task[b].ccopy
  BY <1>8, <1>9 DEF Compacting
<1>11. a \in Turns => Proper(task[a].copy, h) /\ Works(a, h)
  BY <1>1 DEF Inv, HomeInv, Loaded, Works
<1>12. HomeInv'
  <2>1. ASSUME NEW x \in DOMAIN rows' PROVE Distinct(rows'[x]) /\ \A u \in ToSet(rows'[x]) : SessionOf(u) = x
    <3>1. CASE x = s
      BY <1>3, <1>4, <1>6, <3>1 DEF Proper
    <3>2. CASE x # s
      BY <1>6, <2>1, <3>2 DEF Inv, HomeInv, Proper
    <3> QED BY <3>1, <3>2
  <2>2. ASSUME NEW b \in Turns, task'[b].pc \in Loaded PROVE Proper(task[b].copy, task[b].sid)'
    <3>1. CASE b = a
      <4>1. (task'[b].copy = rows'[h] /\ h \in DOMAIN rows') \/ task'[b].copy = task[a].copy
        BY <1>1, <1>9, <2>2, <3>1 DEF Loaded
      <4> QED BY <1>1, <1>7, <1>11, <2>1, <3>1, <4>1 DEF Proper
    <3>2. CASE b # a
      BY <1>7, <1>8, <2>2, <3>2 DEF Inv, HomeInv, Proper
    <3> QED BY <3>1, <3>2
  <2>3. ASSUME NEW b \in Tasks, task'[b].pc \in Compacting PROVE Proper(task[b].ccopy, task[b].csid)'
    BY <1>7, <1>10, <2>3 DEF Inv, HomeInv, Proper
  <2> QED BY <1>7, <2>1, <2>2, <2>3 DEF HomeInv, Proper
<1>13. StartInv'
  <2> SUFFICES ASSUME NEW u \in Turns, task'[u].pc \in Unstarted
               PROVE  /\ \A x \in DOMAIN rows' : u \notin ToSet(rows'[x])
                      /\ \A b \in Turns : task'[b].pc \in Loaded => u \notin ToSet(task'[b].copy)
                      /\ \A b \in Tasks : task'[b].pc \in Compacting => u \notin ToSet(task'[b].ccopy)
                      /\ u \notin summarised'
    BY DEF StartInv
  <2>1. u # a /\ task[u].pc \in Unstarted
    BY <1>8, <1>9 DEF Unstarted
  <2>2. /\ \A x \in DOMAIN rows : u \notin ToSet(rows[x])
        /\ \A b \in Turns : task[b].pc \in Loaded => u \notin ToSet(task[b].copy)
        /\ \A b \in Tasks : task[b].pc \in Compacting => u \notin ToSet(task[b].ccopy)
        /\ u \notin summarised
    BY <2>1 DEF Inv, StartInv
  <2>3. u \notin ToSet(k)
    BY <1>1, <1>4, <2>2 DEF Compacting
  <2>4. \A x \in DOMAIN rows' : u \notin ToSet(rows'[x])
    BY <1>6, <2>2, <2>3
  <2>5. ASSUME NEW b \in Turns, task'[b].pc \in Loaded PROVE u \notin ToSet(task'[b].copy)
    <3>1. CASE b = a
      BY <1>1, <1>9, <2>2, <2>4, <2>5, <3>1 DEF Loaded
    <3>2. CASE b # a
      BY <1>8, <2>2, <2>5, <3>2
    <3> QED BY <3>1, <3>2
  <2>6. \A b \in Tasks : task'[b].pc \in Compacting => u \notin ToSet(task'[b].ccopy)
    BY <1>10, <2>2
  <2> QED BY <1>2, <2>2, <2>4, <2>5, <2>6
<1>14. KeptInv'
  <2> SUFFICES ASSUME NEW u \in (Finished \ collided)', SessionOf(u) \notin deleted
               PROVE  /\ u \in summarised \/ (SessionOf(u) \in DOMAIN rows' /\ u \in ToSet(rows'[SessionOf(u)]))
                      /\ \A b \in Turns : task'[b].pc \in Loaded /\ task'[b].sid = SessionOf(u)
                            => u \in summarised \/ u \in ToSet(task'[b].copy)
                      /\ \A b \in Tasks : task'[b].pc \in Compacting /\ task'[b].csid = SessionOf(u)
                            => u \in summarised \/ u \in ToSet(task'[b].ccopy)
    BY <1>2, <1>7 DEF KeptInv
  <2>1. u \in Finished \ collided
    BY <1>2, <1>8, <1>9 DEF Finished
  <2> DEFINE x == SessionOf(u)
  <2> HIDE DEF x
  <2>2. /\ u \in summarised \/ (x \in DOMAIN rows /\ u \in ToSet(rows[x]))
        /\ \A b \in Turns : task[b].pc \in Loaded /\ task[b].sid = x
              => u \in summarised \/ u \in ToSet(task[b].copy)
        /\ \A b \in Tasks : task[b].pc \in Compacting /\ task[b].csid = x
              => u \in summarised \/ u \in ToSet(task[b].ccopy)
    BY <2>1 DEF Inv, KeptInv, x
  <2>3. x = s => u \in summarised \/ u \in ToSet(k)
    BY <1>1, <1>5, <2>2 DEF Compacting
  <2>4. u \in summarised \/ (x \in DOMAIN rows' /\ u \in ToSet(rows'[x]))
    BY <1>6, <2>2, <2>3
  <2>5. ASSUME NEW b \in Turns, task'[b].pc \in Loaded, task'[b].sid = x
        PROVE  u \in summarised \/ u \in ToSet(task'[b].copy)
    <3>1. CASE b = a
      BY <1>1, <1>9, <2>2, <2>4, <2>5, <3>1 DEF Loaded
    <3>2. CASE b # a
      BY <1>8, <2>2, <2>5, <3>2
    <3> QED BY <3>1, <3>2
  <2>6. ASSUME NEW b \in Tasks, task'[b].pc \in Compacting, task'[b].csid = x
        PROVE  u \in summarised \/ u \in ToSet(task'[b].ccopy)
    BY <1>10, <2>2, <2>6
  <2> QED BY <2>4, <2>5, <2>6 DEF x
<1>15. StoredInv'
  <2>1. \A b \in Tasks : task'[b].pc = "c_row" => task[b].pc = "c_row" /\ task'[b].ccopy = task[b].ccopy
    BY <1>8, <1>9
  <2> QED BY <1>2, <2>1 DEF StoredInv, Inv, Kept
<1>16. CleanInv'
  <2> SUFFICES ASSUME collided = {}, NEW u \in summarised
               PROVE  /\ SessionOf(u) \in DOMAIN rows' /\ (SessionOf(u) # s => ~Moving(SessionOf(u)))
                            => u \notin ToSet(rows'[SessionOf(u)])
                      /\ u \in Turns => task'[u].pc \notin {"run", "seg"}
                      /\ \A b \in Turns :
                            /\ task'[b].pc \in Loaded /\ task'[b].sid = SessionOf(u)
                            /\ ~(task'[b].pc = "c_row" /\ task'[b].csid = SessionOf(u))
                            => u \notin ToSet(task'[b].copy)
                      /\ \A b \in Tasks : task'[b].pc = "c_llm" /\ task'[b].csid = SessionOf(u)
                            => u \notin ToSet(task'[b].ccopy)
                      /\ \A b \in Tasks : task'[b].pc = "c_row" /\ task'[b].csid = SessionOf(u)
                            => u \notin ToSet(Kept(task'[b].ccopy))
    <3>1. \A x : Moving(x)' <=> \E b \in Tasks : task'[b].pc = "c_row" /\ task'[b].csid = x
      BY DEF Moving
    <3>2. \A x : x # s /\ Moving(x) => Moving(x)'
      BY <1>8, <3>1 DEF Moving
    <3> QED BY <1>2, <1>7, <3>2 DEF CleanInv, Kept
  <2> DEFINE x == SessionOf(u)
  <2> HIDE DEF x
  <2>1. /\ x \in DOMAIN rows /\ ~Moving(x) => u \notin ToSet(rows[x])
        /\ u \in Turns => task[u].pc \notin {"run", "seg"}
        /\ \A b \in Turns :
              task[b].pc \in Loaded /\ task[b].sid = x /\ ~(task[b].pc = "c_row" /\ task[b].csid = x)
              => u \notin ToSet(task[b].copy)
        /\ \A b \in Tasks : task[b].pc = "c_llm" /\ task[b].csid = x => u \notin ToSet(task[b].ccopy)
        /\ \A b \in Tasks : task[b].pc = "c_row" /\ task[b].csid = x
              => u \notin ToSet(Kept(task[b].ccopy))
    BY DEF Inv, CleanInv, x
  <2>2. x = s => u \notin ToSet(k)
    BY <1>1, <2>1 DEF k
  <2>3. x \in DOMAIN rows' /\ (x # s => ~Moving(x)) => u \notin ToSet(rows'[x])
    BY <1>6, <2>1, <2>2
  <2>4. u \in Turns => task'[u].pc \notin {"run", "seg"}
    <3>1. u \in Turns => u # a
      BY <1>1 DEF Inv, StartInv, Unstarted
    <3> QED BY <1>8, <2>1, <3>1
  <2>5. ASSUME NEW b \in Turns, task'[b].pc \in Loaded, task'[b].sid = x,
               ~(task'[b].pc = "c_row" /\ task'[b].csid = x)
        PROVE  u \notin ToSet(task'[b].copy)
    <3>1. CASE b # a
      BY <1>8, <2>1, <2>5, <3>1
    <3>2. CASE b = a
      <4>1. task'[a].pc = "run" /\ h = x /\ a \in Turns
        BY <1>1, <1>9, <2>5, <3>2 DEF Loaded
      <4>2. CASE h \in DOMAIN rows'
        <5>1. ASSUME NEW c \in Tasks, task[c].pc = "c_row", task[c].csid = h, h # s PROVE FALSE
          <6>1. c # a /\ Works(c, h)
            BY <5>1 DEF Works, Compacting
          <6> QED BY <1>11, <4>1, <6>1, Clash DEF Inv
        <5>2. h # s => ~Moving(h)
          BY <5>1 DEF Moving
        <5> QED BY <1>1, <2>3, <3>2, <4>1, <4>2, <5>2
      <4>3. CASE h \notin DOMAIN rows'
        <5>1. h # s /\ task'[a].copy = task[a].copy
          BY <1>1, <1>6, <4>1, <4>3
        <5> QED BY <1>1, <2>1, <3>2, <4>1, <5>1 DEF Loaded
      <4> QED BY <4>2, <4>3
    <3> QED BY <3>1, <3>2
  <2>6. /\ \A b \in Tasks : task'[b].pc = "c_llm" /\ task'[b].csid = x => u \notin ToSet(task'[b].ccopy)
        /\ \A b \in Tasks : task'[b].pc = "c_row" /\ task'[b].csid = x
              => u \notin ToSet(Kept(task'[b].ccopy))
    BY <1>8, <1>9, <2>1
  <2> QED BY <2>3, <2>4, <2>5, <2>6 DEF x
<1>17. OverlapInv'
  <2>1. ASSUME NEW b \in Tasks, NEW u \in Sids, u \in Window(b)' PROVE u \in Window(b)
    <3>1. CASE b = a
      BY <1>1, <1>9, <2>1, <3>1 DEF Window
    <3>2. CASE b # a
      BY <1>8, <2>1, <3>2 DEF Window
    <3> QED BY <3>1, <3>2
  <2>2. \A b \in Turns : task'[b].pc = "append" => task[b].pc = "append"
    BY <1>8, <1>9
  <2> QED BY <1>2, <2>1, <2>2, OverlapShrinks DEF Inv
<1>18. CanonInv'
  <2>1. CanonQuiet
    BY <1>2, <1>8, <1>9 DEF CanonQuiet, Recorded
  <2> QED BY <2>1, CanonQuietStep DEF Inv
<1> QED BY <1>12, <1>13, <1>14, <1>15, <1>16, <1>17, <1>18 DEF InvStep, Core

(* Sessions are deleted.                                                   *)
LEMMA DeleteStep ==
    ASSUME Inv, UNCHANGED <<task, summarised, collided, canon, nextSid>>,
           DOMAIN rows' \subseteq DOMAIN rows, \A s \in DOMAIN rows' : rows'[s] = rows[s],
           deleted \subseteq deleted', DOMAIN rows \ DOMAIN rows' \subseteq deleted'
    PROVE  InvStep
<1>1. \A u : SessionOf(u)' = SessionOf(u)
  BY DEF SessionOf
<1>2. HomeInv'
  BY <1>1 DEF Inv, HomeInv, Proper
<1>3. StartInv'
  BY DEF Inv, StartInv
<1>4. Finished' = Finished
  BY DEF Finished
<1>5. KeptInv'
  BY <1>1, <1>4 DEF Inv, KeptInv
<1>6. StoredInv'
  BY DEF Inv, StoredInv, Kept
<1>7. \A s : Moving(s)' <=> Moving(s)
  BY DEF Moving
<1>8. CleanInv'
  BY <1>1, <1>7 DEF Inv, CleanInv, Kept
<1>9. OverlapInv'
  BY OverlapShrinks DEF Inv, Window
<1>10. CanonInv'
  BY DEF Inv, CanonInv
<1> QED BY <1>2, <1>3, <1>5, <1>6, <1>8, <1>9, <1>10 DEF InvStep, Core

LEMMA NewSessionStep == ASSUME Inv, NewSession PROVE InvStep
<1> USE TaskSets
<1>1. UNCHANGED <<task, summarised, collided, canon, deleted>> /\ nextSid' = nextSid + 1
      /\ SaveRow(nextSid, <<>>)
  BY DEF NewSession, history
<1>2. DOMAIN rows' = DOMAIN rows \cup {nextSid} /\ rows'[nextSid] = <<>>
      /\ \A u \in DOMAIN rows \ {nextSid} : rows'[u] = rows[u]
  BY <1>1, SavedRow
<1>3. nextSid \in Nat /\ nextSid > 1 /\ nextSid \notin DOMAIN rows
  BY DEF Inv, Types, Sids
<1>4. \A u : SessionOf(u)' = SessionOf(u)
  BY <1>1 DEF SessionOf
<1>5. HomeInv'
  <2>1. ASSUME NEW s \in DOMAIN rows' PROVE Proper(rows[s], s)'
    <3>1. CASE s = nextSid
      BY <1>2, <3>1, EmptyFacts DEF Proper
    <3>2. CASE s # nextSid
      BY <1>2, <1>4, <2>1, <3>2 DEF Inv, HomeInv, Proper
    <3> QED BY <3>1, <3>2
  <2> QED BY <1>1, <1>4, <2>1 DEF Inv, HomeInv, Proper
<1>6. StartInv'
  <2>1. \A u \in Turns : task[u].pc \in Unstarted => \A s \in DOMAIN rows' : u \notin ToSet(rows'[s])
    BY <1>2, EmptyFacts DEF Inv, StartInv
  <2> QED BY <1>1, <2>1 DEF Inv, StartInv
<1>7. Finished' = Finished
  BY <1>1 DEF Finished
<1>8. KeptInv'
  <2>1. \A u : SessionOf(u) \in DOMAIN rows =>
            SessionOf(u) \in DOMAIN rows' /\ rows'[SessionOf(u)] = rows[SessionOf(u)]
    BY <1>2, <1>3
  <2> QED BY <1>1, <1>4, <1>7, <2>1 DEF Inv, KeptInv
<1>9. StoredInv'
  BY <1>1 DEF Inv, StoredInv, Kept
<1>10. \A s : Moving(s)' <=> Moving(s)
  BY <1>1 DEF Moving
<1>11. CleanInv'
  <2>1. \A u : SessionOf(u) \in DOMAIN rows' =>
            \/ rows'[SessionOf(u)] = <<>>
            \/ SessionOf(u) \in DOMAIN rows /\ rows'[SessionOf(u)] = rows[SessionOf(u)]
    BY <1>2
  <2> QED BY <1>1, <1>4, <1>10, <2>1, EmptyFacts DEF Inv, CleanInv, Kept
<1>12. OverlapInv'
  <2>1. ASSUME NEW b \in Tasks, NEW s \in Sids', s \in Window(b) PROVE s \in Sids
    <3>1. \/ task[b].pc \in Loaded /\ s = task[b].sid
          \/ task[b].pc \in Compacting /\ s = task[b].csid
      BY <2>1 DEF Window, Loaded, Compacting
    <3>2. b \in Turns /\ task[b].pc \in Loaded => task[b].sid \in Sids
      BY DEF Inv, Types, Loaded
    <3>3. b \in Compactors => task[b].sid = 0
      BY DEF Inv, Types
    <3>4. task[b].pc \in Compacting => task[b].csid \in Sids
      BY DEF Inv, Types
    <3>5. s # 0
      BY <2>1 DEF Sids
    <3> QED BY <3>1, <3>2, <3>3, <3>4, <3>5
  <2>2. \A b \in Tasks : Window(b)' = Window(b)
    BY <1>1 DEF Window
  <2>3. ASSUME NEW x \in Tasks, NEW y \in Tasks, NEW s \in Sids', x # y,
               s \in Window(x)', s \in Window(y)'
        PROVE  x \in collided' /\ y \in collided'
    BY <1>1, <2>1, <2>2, <2>3 DEF OverlapInv, Inv
  <2> QED BY <1>1, <2>3 DEF OverlapInv, Inv
<1>13. CanonInv'
  BY <1>1 DEF Inv, CanonInv
<1> QED BY <1>5, <1>6, <1>8, <1>9, <1>11, <1>12, <1>13 DEF InvStep, Core

LEMMA InvInit == Init => Inv
<1> SUFFICES ASSUME Init PROVE Inv
  OBVIOUS
<1> USE TaskSets
<1>1. Types /\ LongInv
  BY TypesInit
<1>2. \A a \in Tasks : task[a].pc = "idle"
  BY DEF Init, Fresh
<1>3. rows = <<Prior>> /\ collided = {} /\ summarised = {} /\ deleted = {}
  BY DEF Init
<1>4. DOMAIN rows = {1} /\ rows[1] = Prior
  BY <1>3
<1>5. \A t \in ToSet(Prior) : SessionOf(t) = 1
  BY DEF SessionOf
<1>6. HomeInv
  <2>1. Distinct(Prior)
    BY SessionsAssumption DEF Distinct, IsInjective
  <2> QED BY <1>2, <1>4, <1>5, <2>1 DEF HomeInv, Proper, Loaded, Compacting
<1>7. StartInv
  BY <1>2, <1>3, <1>4 DEF StartInv, Loaded, Compacting
<1>8. OverlapInv
  BY <1>2 DEF OverlapInv, Window
<1>9. KeptInv
  <2>1. Finished = ToSet(Prior)
    BY <1>2 DEF Finished
  <2> QED BY <1>2, <1>4, <1>5, <2>1 DEF KeptInv, Loaded, Compacting
<1>10. StoredInv /\ CanonInv /\ CleanInv
  BY <1>2, <1>3 DEF StoredInv, CanonInv, CleanInv, Recorded
<1> QED BY <1>1, <1>6, <1>7, <1>8, <1>9, <1>10 DEF Inv

LEMMA InvNext == ASSUME Inv, [Next]_vars PROVE Inv'
<1>1. Types' /\ LongInv'
  BY TypesNext DEF Inv
<1>2. ASSUME StopRun \/ KillAbort PROVE InvStep
  <2>1. Abort /\ UNCHANGED <<rows, summarised, deleted, collided, canon, nextSid>>
    BY <1>2 DEF StopRun, KillAbort, history
  <2> QED BY <2>1, AbortStep
<1>3. ASSUME ResetDelete PROVE InvStep
  <2>1. /\ UNCHANGED <<task, summarised, collided, canon, nextSid>>
        /\ rows' = [s \in DOMAIN rows \ {current} |-> rows[s]] /\ deleted' = deleted \cup {current}
    BY <1>3 DEF ResetDelete
  <2> QED BY <2>1, DeleteStep
<1>4. ASSUME KillDelete PROVE InvStep
  <2>1. /\ UNCHANGED <<task, summarised, collided, canon, nextSid>>
        /\ rows' = <<>> /\ deleted' = deleted \cup DOMAIN rows
    BY <1>4 DEF KillDelete
  <2>2. DOMAIN rows' = {}
    BY <2>1
  <2> QED BY <2>1, <2>2, DeleteStep
<1>5. ASSUME \/ NewWindow \/ UseSession \/ KillRemove \/ UNCHANGED vars
             \/ \E s \in 1..MaxSessions : SwitchSession(s)
             \/ \E t \in Turns : StoreHandle(t)
      PROVE  InvStep
  <2>1. UNCHANGED <<rows, summarised, deleted, collided, canon, nextSid, task>>
    BY <1>5 DEF NewWindow, UseSession, KillRemove, SwitchSession, StoreHandle, vars, history
  <2> QED BY <2>1, IdleStep
<1>6. InvStep
  BY <1>2, <1>3, <1>4, <1>5, EnterStep, LoadStep, ForwardStep, SaveStep, CanonLoadStep, CanonSaveStep,
     CompactLoadStep, CompactStoreStep, CompactRowStep, NewSessionStep DEF Next
<1> QED BY <1>1, <1>6 DEF Inv, InvStep, Core

LEMMA InvHolds == Spec => []Inv
<1>1. Inv /\ [Next]_vars => Inv'
  BY InvNext
<1> QED BY <1>1, InvInit, PTL DEF Spec

-----------------------------------------------------------------------------
(* The stored summary.  Unless one was stored in the middle of an append,  *)
(* every turn that a compaction took off a row is in it, or was in one     *)
(* that a compaction replaced or left empty; and an append writes back the *)
(* summary that is stored.                                                 *)
SummaryInv ==
    ~crossed =>
        /\ summarised \subseteq canon.summary \cup forgotten
        /\ \A b \in Turns : task[b].pc = "append" => task[b].csum = canon.summary

LEMMA SummaryInit == Init => SummaryInv
<1> SUFFICES ASSUME Init PROVE SummaryInv
  OBVIOUS
<1>1. summarised = {} /\ \A b \in Turns : task[b].pc = "idle"
  BY TaskSets DEF Init, Fresh
<1> QED BY <1>1 DEF SummaryInv

(* A step that stores no summary and begins no append.                     *)
LEMMA SummaryQuiet ==
    ASSUME SummaryInv, UNCHANGED <<canon, summarised, forgotten, crossed>>,
           \A b \in Turns : task'[b].pc = "append" =>
               task[b].pc = "append" /\ task'[b].csum = task[b].csum
    PROVE  SummaryInv'
BY DEF SummaryInv

LEMMA SummaryWork ==
    ASSUME SummaryInv, UNCHANGED <<canon, summarised, forgotten, crossed>>,
           NEW a \in Tasks, Others(a), task'[a].pc # "append"
    PROVE  SummaryInv'
<1>1. \A b \in Turns : task'[b].pc = "append" => b # a /\ task'[b] = task[b]
  BY TaskSets DEF Others
<1> QED BY <1>1, SummaryQuiet

LEMMA SummaryNext == ASSUME Types, LongInv, SummaryInv, [Next]_vars PROVE SummaryInv'
<1> USE TaskSets
<1>t. Typed
  BY DEF Types, Typed
<1>1. ASSUME NEW t \in Turns, NEW stream \in BOOLEAN, Enter(t, stream) PROVE SummaryInv'
  <2>1. Others(t) /\ task'[t].pc \in {"refused", "entered"}
    BY <1>1, EnterFacts
  <2>2. UNCHANGED <<canon, summarised, forgotten, crossed>>
    BY <1>1, Zenon DEF Enter
  <2> QED BY <2>1, <2>2, SummaryWork
<1>2. ASSUME NEW t \in Turns, Load(t) \/ Save(t) PROVE SummaryInv'
  <2>1. Others(t) /\ task'[t].pc # "append"
    BY <1>2, LoadFacts, SaveFacts
  <2>2. UNCHANGED <<canon, summarised, forgotten, crossed>>
    BY <1>2, Zenon DEF Load, Save, history
  <2> QED BY <2>1, <2>2, SummaryWork
<1>3. ASSUME NEW t \in Turns, Resume(t) \/ Fail(t) \/ RecordUsage(t) PROVE SummaryInv'
  <2>1. /\ UNCHANGED <<canon, summarised, forgotten, crossed>>
        /\ Step(t, "seg") \/ End(t, "failed") \/ End(t, "done")
    BY <1>3 DEF Resume, Fail, RecordUsage, history
  <2>2. Others(t) /\ task'[t].pc # "append"
    BY <2>1, <1>t, StepFacts, EndFacts DEF Places, Loaded, Closed
  <2> QED BY <2>1, <2>2, SummaryWork
<1>4. ASSUME NEW t \in Turns, CanonLoad(t) PROVE SummaryInv'
  <2>1. Others(t) /\ task'[t].csum = canon.summary
    BY <1>4, CanonLoadFacts
  <2>2. UNCHANGED <<canon, summarised, forgotten, crossed>>
    BY <1>4, Zenon DEF CanonLoad
  <2>3. \A b \in Turns : b # t => task'[b] = task[b]
    BY <2>1 DEF Others
  <2> QED BY <2>1, <2>2, <2>3 DEF SummaryInv
<1>5. ASSUME NEW t \in Turns, CanonSave(t) PROVE SummaryInv'
  <2>1. /\ task[t].pc = "append" /\ canon'.summary = task[t].csum
        /\ UNCHANGED <<summarised, forgotten, crossed>> /\ End(t, "record")
    BY <1>5 DEF CanonSave, history
  <2>2. Others(t) /\ task'[t].pc = "record"
    BY <2>1, <1>t, EndFacts DEF Places, Closed
  <2>3. \A b \in Turns : task'[b].pc = "append" => task'[b] = task[b]
    BY <2>2 DEF Others
  <2>4. ~crossed => canon'.summary = canon.summary
    BY <2>1 DEF SummaryInv
  <2> QED BY <2>1, <2>3, <2>4 DEF SummaryInv
<1>6. ASSUME NEW a \in Tasks, CompactLoad(a) \/ CompactRow(a) PROVE SummaryInv'
  <2>1. Others(a) /\ task'[a].pc # "append"
    BY <1>6, CompactLoadFacts, CompactRowFacts DEF CompactBegins, CompactSkips
  <2>2. UNCHANGED <<canon, summarised, forgotten, crossed>>
    BY <1>6, Zenon DEF CompactLoad, CompactRow, history
  <2> QED BY <2>1, <2>2, SummaryWork
<1>7. ASSUME NEW a \in Tasks, CompactStore(a) PROVE SummaryInv'
  <2>1. Others(a) /\ (SummaryStored(a) \/ CompactFails(a))
    BY <1>7, CompactStoreFacts
  <2>2. CASE CompactFails(a)
    BY <2>1, <2>2, SummaryWork DEF CompactFails, NoSummary
  <2>3. CASE SummaryStored(a)
    <3>1. PICK summary \in {Dropped(a), {}} :
              /\ canon' = [summary |-> summary, msgs |-> Kept(task[a].ccopy)]
              /\ forgotten' = forgotten \cup ((canon.summary \cup Dropped(a)) \ summary)
      BY <2>3, Zenon DEF SummaryStored, NewSummary
    <3>2. canon'.summary = summary
      BY <3>1
    <3>3. /\ summarised' = summarised \cup Dropped(a)
          /\ crossed' = (crossed \/ \E t \in Turns : task[t].pc = "append")
          /\ task'[a].pc = "c_row"
      BY <2>3, Zenon DEF SummaryStored, NewSummary
    <3>4. ASSUME ~crossed' PROVE summarised \subseteq canon.summary \cup forgotten
      BY <3>3, <3>4, Zenon DEF SummaryInv
    <3>5. ASSUME ~crossed' PROVE summarised' \subseteq canon'.summary \cup forgotten'
      BY <3>1, <3>2, <3>3, <3>4, <3>5
    <3>6. ASSUME ~crossed' PROVE \A b \in Turns : task'[b].pc # "append"
      BY <2>1, <3>3, <3>6 DEF Others
    <3> QED BY <3>5, <3>6 DEF SummaryInv
  <2> QED BY <2>1, <2>2, <2>3
<1>8. ASSUME StopRun \/ KillAbort PROVE SummaryInv'
  <2>1. Abort /\ UNCHANGED <<canon, summarised, forgotten, crossed>>
    BY <1>8 DEF StopRun, KillAbort, history
  <2>2. \A b \in Tasks : Marked(b) \/ Aborted(b)
    BY <2>1, AbortFacts
  <2>3. \A b \in Turns : task'[b].pc = "append" =>
            task[b].pc = "append" /\ task'[b].csum = task[b].csum
    BY <2>2 DEF Marked, Aborted
  <2> QED BY <2>1, <2>3, SummaryQuiet
<1>9. ASSUME \/ NewWindow \/ ResetDelete \/ NewSession \/ UseSession \/ KillRemove \/ KillDelete
             \/ \E s \in 1..MaxSessions : SwitchSession(s)
             \/ \E t \in Turns : StoreHandle(t)
             \/ UNCHANGED vars
      PROVE  SummaryInv'
  <2>1. UNCHANGED <<task, canon, summarised, forgotten, crossed>>
    BY <1>9 DEF NewWindow, ResetDelete, NewSession, UseSession, KillRemove, KillDelete,
                SwitchSession, StoreHandle, vars, history
  <2> QED BY <2>1, SummaryQuiet
<1> QED
  BY <1>1, <1>2, <1>3, <1>4, <1>5, <1>6, <1>7, <1>8, <1>9 DEF Next

LEMMA SummaryHolds == Spec => []SummaryInv
<1>1. Types /\ LongInv /\ SummaryInv /\ [Next]_vars => SummaryInv'
  BY SummaryNext
<1> QED BY <1>1, SummaryInit, TypesHold, PTL DEF Spec

(* However turns, compactions, /stop, session commands and a kill are      *)
(* interleaved: a turn that overlapped no other work on its session is in  *)
(* the session's row until that is deleted or a compaction takes the turn  *)
(* off, and then in the stored summary until the next compaction replaces  *)
(* it, but for the placeholder and for an append that was under way.       *)
THEOREM TurnsStayUntilReplaced == Spec => []TurnsAreKept
<1>1. Inv /\ SummaryInv => TurnsAreKept
  <2> SUFFICES ASSUME Inv, SummaryInv PROVE TurnsAreKept
    OBVIOUS
  <2>1. ASSUME NEW t \in Finished \ collided, SessionOf(t) \notin deleted
        PROVE  \/ SessionOf(t) \in DOMAIN rows /\ t \in ToSet(rows[SessionOf(t)])
               \/ t \in canon.summary \cup forgotten
               \/ crossed /\ t \in summarised
    <3>1. \/ SessionOf(t) \in DOMAIN rows /\ t \in ToSet(rows[SessionOf(t)])
          \/ t \in summarised
      BY <2>1 DEF Inv, KeptInv
    <3>2. ~crossed /\ t \in summarised => t \in canon.summary \cup forgotten
      BY DEF SummaryInv
    <3> QED BY <3>1, <3>2
  <2>2. ASSUME summarised = {}, NEW t \in Turns \ collided, task[t].pc \in {"record", "done"}
        PROVE  t \in ToSet(canon.msgs)
    BY <2>2 DEF Inv, CanonInv, Recorded
  <2> QED BY <2>1, <2>2 DEF TurnsAreKept
<1> QED BY <1>1, InvHolds, SummaryHolds, PTL

(* While no two tasks overlapped, no turn that a compaction summarised is  *)
(* back in its session's row: no later save of an older copy restores it.  *)
THEOREM SummarisedTurnsStayOut == Spec => []SummarisedStaysOut
<1>1. Inv => SummarisedStaysOut
  <2> SUFFICES ASSUME Inv, NEW t \in summarised, collided = {}, ~Moving(SessionOf(t)),
                      SessionOf(t) \in DOMAIN rows
               PROVE  t \notin ToSet(rows[SessionOf(t)])
    BY DEF SummarisedStaysOut, Moving
  <2> QED BY DEF Inv, CleanInv
<1> QED BY <1>1, InvHolds, PTL

=============================================================================
