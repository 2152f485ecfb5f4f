------------------------ MODULE AgentLifecycle_proofs ------------------------
(***************************************************************************)
(* Proofs about AgentLifecycle for any handlers, names and bounds: the     *)
(* registry and its name index, the agents' rows, the restart limit and    *)
(* the owner of the cron job.                                              *)
(*                                                                         *)
(* The properties speak of quiet moments or of lineages that no two        *)
(* operations worked on at once.  The invariant says what holds in the     *)
(* middle: which handler owes the index, the row, the count or the cron    *)
(* job its next step.  Its backbone is OneHandler: a lineage that is not   *)
(* excused has at most one handler at work.                                *)
(***************************************************************************)
EXTENDS AgentLifecycle, TLAPS, FiniteSetTheorems, WellFoundedInduction

Entries == [name : Names, ver : Nat]
RowRecords == [name : Names, ver : Nat, rowid : Nat]
Pcs == {"idle", "check", "insert", "save", "kill", "torn", "restart", "stopped", "carry",
        "reassign", "rename", "old", "copy", "write"}
OpRecords == [pc : Pcs, id : Nat, from : Nat, name : Names \cup {""},
              copy : Entries \cup {<<>>}]

Entering == {"check", "insert"}
Leaving == {"kill", "torn", "restart", "stopped"}
Holding == {"save", "carry", "reassign", "rename", "old", "copy", "write"}

(* No two operations met on the lineage, and no boot found it split.       *)
Clean(a) == root[a] \notin excused
Sound(a) == root[a] \notin excused /\ root[a] \notin stale

Given == 1..(nextId - 1)

Types ==
    /\ agents \in [DOMAIN agents -> Entries] /\ DOMAIN agents \subseteq Given
    /\ index \in [DOMAIN index -> Given] /\ DOMAIN index \subseteq Names
    /\ restarts \in [DOMAIN restarts -> Nat] /\ DOMAIN restarts \subseteq Given
    /\ rows \in [DOMAIN rows -> RowRecords] /\ DOMAIN rows \subseteq Given
    /\ op \in [Handlers -> OpRecords]
    /\ nextId \in 1..(MaxIds + 1)
    /\ cron \in 0..(nextId - 1) /\ cronFile \in 0..(nextId - 1)
    /\ root \in [Ids -> Ids] /\ count \in [Ids -> Nat]
    /\ killed \subseteq Given

(* An id not given out yet is a lineage of its own.                        *)
Lineages ==
    \A a \in Ids : IF a < nextId THEN root[a] < nextId ELSE root[a] = a /\ count[a] = 0

(* Nothing is in memory while the daemon is down.                          *)
Down ==
    ~up => /\ DOMAIN agents = {} /\ DOMAIN index = {} /\ cron = 0
           /\ \A h \in Handlers : op[h].pc = "idle"

(* What a handler knows of its own operation.                              *)
Operation(h) ==
    op[h].pc # "idle" =>
      /\ op[h].id \in Given
      /\ op[h].from # 0 =>
            /\ op[h].pc \in {"check", "insert", "save", "carry", "reassign"}
            /\ op[h].from \in Given /\ root[op[h].from] = root[op[h].id]
      /\ op[h].pc \in {"carry", "reassign"} => op[h].from # 0
      /\ op[h].pc \in Entering \cup Leaving =>
            op[h].copy \in Entries /\ op[h].copy.name = op[h].name
      /\ op[h].pc \in Entering \cup Leaving \cup {"rename"} => op[h].name \in Names
      /\ op[h].pc \in {"save", "write"} => op[h].copy \in Entries
      /\ op[h].pc \in Entering \cup Leaving => op[h].id \notin DOMAIN agents
      /\ op[h].pc \in Entering => op[h].id \notin killed

Operations == \A h \in Handlers : Operation(h)

(* The handlers meet on excused lineages only, and on a fresh id never.    *)
OneHandler ==
    \A g, h \in Handlers :
       g # h /\ op[g].pc # "idle" /\ op[h].pc # "idle" =>
          /\ op[h].pc \in Entering => op[g].id # op[h].id
          /\ root[op[g].id] = root[op[h].id] => ~Clean(op[h].id)

(* What a handler may rely on as long as its lineage is clean.             *)
Reliance(h) ==
    op[h].pc # "idle" /\ Clean(op[h].id) =>
      /\ op[h].pc \in Holding => op[h].id \in DOMAIN agents
      /\ op[h].pc \in {"save", "write"} => op[h].copy = agents[op[h].id]
      /\ op[h].pc = "rename" => op[h].name \in DOMAIN index /\ index[op[h].name] = op[h].id
      /\ op[h].pc \in {"rename", "old"} => agents[op[h].id].name # op[h].name
      /\ op[h].pc \in {"check", "insert", "save"} /\ op[h].from = 0 =>
            \A b \in Ids : root[b] = root[op[h].id] => b = op[h].id

Reliances == \A h \in Handlers : Reliance(h)

(* An agent is found under its name; a name leads to its agent or to the   *)
(* agent of a handler that is about to take the name away or to give it.   *)
Found ==
    \A a \in DOMAIN agents : Clean(a) =>
       agents[a].name \in DOMAIN index /\ index[agents[a].name] = a

Leads ==
    \A n \in DOMAIN index : Clean(index[n]) =>
       \/ index[n] \in DOMAIN agents /\ agents[index[n]].name = n
       \/ \E h \in Handlers : /\ op[h].pc \in {"kill", "restart", "rename", "old"}
                              /\ op[h].id = index[n] /\ op[h].name = n

(* A sound lineage has one agent at most, and none while a handler takes   *)
(* it from one id to the next.                                             *)
OneAgent ==
    /\ \A a, b \in DOMAIN agents : Sound(a) /\ root[a] = root[b] => a = b
    /\ \A h \in Handlers, a \in DOMAIN agents :
          op[h].pc \in Entering \cup Leaving /\ Sound(a) => root[a] # root[op[h].id]

(* The restarts of a sound lineage are in the counter of its agent, or of  *)
(* the id the handler comes from.                                          *)
Restarts(a) == IF a \in DOMAIN restarts THEN restarts[a] ELSE 0

Counting(h) ==
    op[h].pc # "idle" /\ Sound(op[h].id) =>
      /\ op[h].pc \in {"restart", "stopped"} => count[root[op[h].id]] = Restarts(op[h].id)
      /\ op[h].pc \in {"check", "insert", "save", "carry"} /\ op[h].from # 0 =>
            op[h].from \in DOMAIN restarts /\ count[root[op[h].id]] = restarts[op[h].from]
      /\ op[h].pc \in Entering /\ op[h].from = 0 =>
            count[root[op[h].id]] = 0 /\ op[h].id \notin DOMAIN restarts

Counts ==
    /\ \A r \in Ids : r \notin excused /\ r \notin stale => count[r] <= MaxRestarts
    /\ \A a \in DOMAIN agents : Sound(a) =>
          \/ count[root[a]] = Restarts(a)
          \/ \E h \in Handlers : op[h].id = a /\ op[h].from # 0 /\ op[h].pc \in {"save", "carry"}
    /\ \A h \in Handlers : Counting(h)

(* The cron job of a sound lineage belongs to its agent, or to the id the  *)
(* handler comes from.                                                     *)
Owner ==
    cron # 0 /\ Sound(cron) =>
       /\ \A a \in DOMAIN agents : root[a] = root[cron] =>
             \/ a = cron
             \/ \E h \in Handlers : /\ op[h].id = a /\ op[h].from = cron
                                    /\ op[h].pc \in {"save", "carry", "reassign"}
       /\ \A h \in Handlers : op[h].pc # "idle" /\ root[op[h].id] = root[cron] =>
             /\ op[h].pc \in {"restart", "stopped"} => op[h].id = cron
             /\ op[h].pc \in Entering /\ op[h].from # 0 => op[h].from = cron

(* An agent's row is up to date, or a handler is about to write it; a row  *)
(* without an agent is being removed or was left by a restart; the row of  *)
(* a killed agent stays away.                                              *)
Written ==
    \A a \in DOMAIN agents : Clean(a) =>
       \/ a \in DOMAIN rows /\ rows[a].name = agents[a].name /\ rows[a].ver = agents[a].ver
       \/ \E h \in Handlers : op[h].id = a /\ op[h].pc \in {"save", "rename", "old", "copy", "write"}

Orphans ==
    up => \A a \in DOMAIN rows \ DOMAIN agents : Sound(a) =>
             \/ count[root[a]] > 0
             \/ \E h \in Handlers : op[h].id = a /\ op[h].pc \in Leaving

KilledStays ==
    \A a \in killed : a \in DOMAIN agents \/ a \in DOMAIN rows => ~Clean(a)

(* No two rows have one rowid.                                             *)
Rowids ==
    /\ \E k \in Nat : \A a \in DOMAIN rows : rows[a].rowid <= k
    /\ \A a, b \in DOMAIN rows : rows[a].rowid = rows[b].rowid => a = b

Inv ==
    /\ Types /\ Lineages /\ Down
    /\ Operations /\ OneHandler /\ Reliances
    /\ Found /\ Leads
    /\ OneAgent /\ Counts /\ Owner
    /\ Written /\ Orphans /\ KilledStays /\ Rowids

-----------------------------------------------------------------------------
(* The operators.                                                          *)

(* A bounded set of naturals with a member has a largest one.              *)
LEMMA MaxOfBounded ==
    ASSUME NEW S \in SUBSET Nat, 0 \in S, NEW k \in Nat, \A x \in S : x <= k
    PROVE  Max(S) \in S /\ \A x \in S : x <= Max(S)
<1> DEFINE R == OpToRel(<, Nat)
           B == {b \in Nat : \A x \in S : x <= b}
<1>1. IsWellFoundedOn(R, Nat)
    BY NatLessThanWellFounded
<1>2. B \subseteq Nat /\ B # {}
    OBVIOUS
<1>3. PICK m \in B : \A y \in B : ~ (<<y, m>> \in R)
    <2> HIDE DEF R, B
    <2> QED BY <1>1, <1>2, WFMin
<1>4. \A y \in B : ~ (y < m)
    BY <1>3 DEF OpToRel
<1>5. m \in S
    <2> SUFFICES ASSUME m \notin S PROVE FALSE
        OBVIOUS
    <2>1. m \in Nat /\ m # 0 /\ \A x \in S : x <= m
        OBVIOUS
    <2>2. m - 1 \in Nat
        BY <2>1
    <2>3. \A x \in S : x <= m - 1
        BY <2>1
    <2>4. m - 1 \in B
        BY <2>2, <2>3
    <2> HIDE DEF B
    <2> QED BY <2>1, <2>2, <2>4, <1>4
<1>6. \E x \in S : \A y \in S : x >= y
    BY <1>5
<1> QED BY <1>6 DEF Max

LEMMA LastRowidIs ==
    ASSUME Types, Rowids
    PROVE  LastRowid(rows) \in Nat /\ \A a \in DOMAIN rows : rows[a].rowid <= LastRowid(rows)
<1> DEFINE S == {0} \cup {rows[a].rowid : a \in DOMAIN rows}
<1>1. \A a \in DOMAIN rows : rows[a].rowid \in Nat
    BY DEF Types, RowRecords
<1>2. S \in SUBSET Nat /\ 0 \in S
    BY <1>1
<1>3. PICK k \in Nat : \A a \in DOMAIN rows : rows[a].rowid <= k
    BY DEF Rowids
<1>4. \A x \in S : x <= k
    BY <1>3
<1>5. \A a \in DOMAIN rows : rows[a].rowid \in S
    OBVIOUS
<1> HIDE DEF S
<1>6. Max(S) \in S /\ \A x \in S : x <= Max(S)
    BY <1>2, <1>4, MaxOfBounded
<1>7. LastRowid(rows) = Max(S)
    BY DEF LastRowid, S
<1> QED BY <1>2, <1>5, <1>6, <1>7

(* Handler h moves on, the others stay.                                    *)
Moved(h, p, i, f, n, c) ==
    /\ op' \in [Handlers -> OpRecords]
    /\ op'[h].pc = p /\ op'[h].id = i /\ op'[h].from = f
    /\ op'[h].name = n /\ op'[h].copy = c
    /\ \A g \in Handlers : g # h => op'[g] = op[g]

LEMMA SetOp ==
    ASSUME Types, NEW h \in Handlers, NEW r \in OpRecords, op' = [op EXCEPT ![h] = r]
    PROVE  Moved(h, r.pc, r.id, r.from, r.name, r.copy)
    BY DEF Types, Moved

LEMMA GotoIs ==
    ASSUME Types, NEW h \in Handlers, NEW pc \in Pcs, Goto(h, pc)
    PROVE  Moved(h, pc, op[h].id, op[h].from, op[h].name, op[h].copy)
<1> DEFINE r == [op[h] EXCEPT !.pc = pc]
<1>1. op[h] \in OpRecords
    BY DEF Types
<1>2. /\ r \in OpRecords
      /\ r.pc = pc /\ r.id = op[h].id /\ r.from = op[h].from
      /\ r.name = op[h].name /\ r.copy = op[h].copy
    BY <1>1 DEF OpRecords
<1>3. op' = [op EXCEPT ![h] = r]
    BY DEF Goto
<1> HIDE DEF r
<1>4. Moved(h, r.pc, r.id, r.from, r.name, r.copy)
    BY <1>2, <1>3, SetOp
<1> QED BY <1>2, <1>4

LEMMA DoneIs ==
    ASSUME Types, NEW h \in Handlers, Done(h)
    PROVE  Moved(h, "idle", 0, 0, "", <<>>)
<1>1. Idle \in OpRecords
    BY DEF Idle, OpRecords, Pcs
<1>2. Moved(h, Idle.pc, Idle.id, Idle.from, Idle.name, Idle.copy)
    BY <1>1, SetOp DEF Done
<1> QED BY <1>2 DEF Idle

(* An operation begins from the idle record.                               *)
LEMMA BeginIs ==
    ASSUME Types, NEW h \in Handlers, NEW p \in Pcs, NEW i \in Nat, NEW n \in Names \cup {""},
           NEW c \in Entries \cup {<<>>},
           \/ op' = [op EXCEPT ![h] = [Idle EXCEPT !.pc = p, !.id = i, !.name = n, !.copy = c]]
           \/ op' = [op EXCEPT ![h] = [Idle EXCEPT !.pc = p, !.id = i, !.name = n]] /\ c = <<>>
           \/ op' = [op EXCEPT ![h] = [Idle EXCEPT !.pc = p, !.id = i]] /\ n = "" /\ c = <<>>
    PROVE  Moved(h, p, i, 0, n, c)
<1>1. Idle \in OpRecords /\ Idle.from = 0 /\ Idle.name = "" /\ Idle.copy = <<>>
    BY DEF Idle, OpRecords, Pcs
<1>2. \E r \in OpRecords : /\ r.pc = p /\ r.id = i /\ r.from = 0 /\ r.name = n /\ r.copy = c
                           /\ op' = [op EXCEPT ![h] = r]
    <2>1. CASE op' = [op EXCEPT ![h] = [Idle EXCEPT !.pc = p, !.id = i, !.name = n, !.copy = c]]
        BY <1>1, <2>1 DEF OpRecords
    <2>2. CASE op' = [op EXCEPT ![h] = [Idle EXCEPT !.pc = p, !.id = i, !.name = n]] /\ c = <<>>
        BY <1>1, <2>2 DEF OpRecords
    <2>3. CASE op' = [op EXCEPT ![h] = [Idle EXCEPT !.pc = p, !.id = i]] /\ n = "" /\ c = <<>>
        BY <1>1, <2>3 DEF OpRecords
    <2> QED BY <2>1, <2>2, <2>3
<1>3. PICK r \in OpRecords : /\ r.pc = p /\ r.id = i /\ r.from = 0 /\ r.name = n /\ r.copy = c
                            /\ op' = [op EXCEPT ![h] = r]
    BY <1>2
<1>4. Moved(h, r.pc, r.id, r.from, r.name, r.copy)
    BY <1>3, SetOp
<1> QED BY <1>3, <1>4

(* A row is written, the others stay, and no rowid is given out twice.     *)
LEMMA UpsertIs ==
    ASSUME NEW a, NEW e, rows' = Upsert(rows, a, e)
    PROVE  /\ DOMAIN rows' = DOMAIN rows \cup {a}
           /\ rows'[a].name = e.name /\ rows'[a].ver = e.ver
           /\ \A b \in DOMAIN rows : b # a => rows'[b] = rows[b]
    BY DEF Upsert, Row, With

LEMMA UpsertType ==
    ASSUME Types, Rowids, NEW a, NEW e \in Entries, rows' = Upsert(rows, a, e)
    PROVE  Rowids' /\ rows' \in [DOMAIN rows' -> RowRecords]
<1> DEFINE k == IF a \in DOMAIN rows THEN rows[a].rowid ELSE LastRowid(rows) + 1
<1>1. LastRowid(rows) \in Nat /\ \A b \in DOMAIN rows : rows[b].rowid <= LastRowid(rows)
    BY LastRowidIs
<1>2. \A b \in DOMAIN rows : rows[b] \in RowRecords /\ rows[b].rowid \in Nat
    BY DEF Types, RowRecords
<1>3. /\ k \in Nat /\ k <= LastRowid(rows) + 1
      /\ \A b \in DOMAIN rows : b # a => rows[b].rowid # k
    BY <1>1, <1>2 DEF Rowids
<1>4. rows' = With(rows, a, Row(e, k))
    BY DEF Upsert
<1> HIDE DEF k
<1>5. Row(e, k) \in RowRecords /\ Row(e, k).rowid = k
    BY <1>3 DEF Row, RowRecords, Entries
<1>6. /\ DOMAIN rows' = DOMAIN rows \cup {a}
      /\ rows'[a] = Row(e, k)
      /\ \A b \in DOMAIN rows : b # a => rows'[b] = rows[b]
      /\ rows' \in [DOMAIN rows' -> RowRecords]
    BY <1>4, <1>5 DEF With, Types
<1>7. \A b \in DOMAIN rows' : rows'[b].rowid <= LastRowid(rows) + 1
    BY <1>1, <1>2, <1>3, <1>5, <1>6
<1>8. \A b, d \in DOMAIN rows' : rows'[b].rowid = rows'[d].rowid => b = d
    BY <1>3, <1>5, <1>6 DEF Rowids
<1>9. LastRowid(rows) + 1 \in Nat
    BY <1>1
<1> QED BY <1>6, <1>7, <1>8, <1>9 DEF Rowids

(* Who works on the lineage of a when h begins to makes it excused.        *)
LEMMA OverlapIs ==
    ASSUME Types, Operations, NEW h \in Handlers, NEW a, op[h].pc = "idle",
           NEW g \in Handlers, op[g].pc # "idle", root[op[g].id] = root[a]
    PROVE  root[a] \in Overlap(h, a) /\ Busy(g, a)
<1>1. op[g].id # 0
    BY DEF Operations, Operation, Given, Types
<1>2. Busy(g, a)
    BY <1>1 DEF Busy
<1>3. g # h
    OBVIOUS
<1> QED BY <1>2, <1>3 DEF Overlap

-----------------------------------------------------------------------------
(* The steps, as their effect on the handler's record.                     *)

LEMMA SpawnStartMoves ==
    ASSUME Types, NEW h \in Handlers, NEW n \in Names, SpawnStart(h, n)
    PROVE  Moved(h, "check", nextId, 0, n, [name |-> n, ver |-> 0])
<1>1. [name |-> n, ver |-> 0] \in Entries /\ "check" \in Pcs /\ nextId \in Nat
    BY DEF Entries, Pcs, Types
<1> QED BY <1>1, BeginIs DEF SpawnStart

LEMMA TakeEntryMoves ==
    ASSUME Types, NEW h \in Handlers, NEW a \in Ids, NEW next \in Pcs, TakeEntry(h, a, next)
    PROVE  Moved(h, next, a, 0, agents[a].name, agents[a])
<1>1. a \in Nat /\ agents[a] \in Entries
    BY DEF TakeEntry, Types, Ids
<1>2. agents[a].name \in Names
    BY <1>1 DEF Entries
<1> QED BY <1>1, <1>2, BeginIs DEF TakeEntry

LEMMA RenameStartMoves ==
    ASSUME Types, NEW h \in Handlers, NEW a \in Ids, NEW n \in Names, RenameStart(h, a, n)
    PROVE  \/ n \in DOMAIN index /\ Moved(h, "copy", a, 0, n, <<>>)
           \/ n \notin DOMAIN index /\ Moved(h, "rename", a, 0, n, <<>>)
<1> DEFINE p == IF n \in DOMAIN index THEN "copy" ELSE "rename"
<1>1. a \in Nat /\ p \in Pcs
    BY DEF Ids, Pcs
<1>2. op' = [op EXCEPT ![h] = [Idle EXCEPT !.pc = p, !.id = a, !.name = n]]
    BY DEF RenameStart
<1>3. /\ n \in DOMAIN index => p = "copy"
      /\ n \notin DOMAIN index => p = "rename"
    OBVIOUS
<1> HIDE DEF p
<1>4. Moved(h, p, a, 0, n, <<>>)
    BY <1>1, <1>2, BeginIs
<1> QED BY <1>3, <1>4

LEMMA EditMoves ==
    ASSUME Types, NEW h \in Handlers, NEW a \in Ids, Edit(h, a)
    PROVE  Moved(h, "copy", a, 0, "", <<>>)
<1>1. a \in Nat /\ "copy" \in Pcs
    BY DEF Ids, Pcs
<1> QED BY <1>1, BeginIs DEF Edit

LEMMA RestartRecordMoves ==
    ASSUME Types, NEW h \in Handlers, RestartRecord(h), ~ (Restarts(op[h].id) + 1 > MaxRestarts)
    PROVE  Moved(h, "check", nextId, op[h].id, op[h].name, op[h].copy)
<1> DEFINE r == [op[h] EXCEPT !.pc = "check", !.id = nextId, !.from = op[h].id]
<1>1. op[h] \in OpRecords /\ nextId \in Nat /\ op \in [Handlers -> OpRecords]
    BY DEF Types
<1>2. /\ r \in OpRecords
      /\ r.pc = "check" /\ r.id = nextId /\ r.from = op[h].id
      /\ r.name = op[h].name /\ r.copy = op[h].copy
    BY <1>1 DEF OpRecords, Pcs
<1>3. op' = [op EXCEPT ![h].pc = "check", ![h].id = nextId, ![h].from = op[h].id]
    BY DEF RestartRecord, Restarts
<1>4. op' = [op EXCEPT ![h] = r]
    BY <1>1, <1>3
<1> HIDE DEF r
<1>5. Moved(h, r.pc, r.id, r.from, r.name, r.copy)
    BY <1>2, <1>4, SetOp
<1> QED BY <1>2, <1>5

LEMMA RenameApplyMoves ==
    ASSUME Types, NEW h \in Handlers, RenameApply(h), op[h].id \in DOMAIN agents
    PROVE  Moved(h, IF agents[op[h].id].name = op[h].name THEN "copy" ELSE "old",
                 op[h].id, op[h].from, agents[op[h].id].name, op[h].copy)
<1> DEFINE n == agents[op[h].id].name
           p == IF n = op[h].name THEN "copy" ELSE "old"
           r == [op[h] EXCEPT !.pc = p, !.name = n]
<1>1. op[h] \in OpRecords /\ op \in [Handlers -> OpRecords] /\ n \in Names
    BY DEF Types, Entries
<1>2. /\ r \in OpRecords
      /\ r.pc = p /\ r.id = op[h].id /\ r.from = op[h].from
      /\ r.name = n /\ r.copy = op[h].copy
    <2> HIDE DEF n
    <2> QED BY <1>1 DEF OpRecords, Pcs
<1>3. op' = [op EXCEPT ![h].pc = p, ![h].name = n]
    BY DEF RenameApply
<1>4. op' = [op EXCEPT ![h] = r]
    <2> HIDE DEF n, p
    <2> QED BY <1>1, <1>3
<1> HIDE DEF r
<1>5. Moved(h, r.pc, r.id, r.from, r.name, r.copy)
    BY <1>2, <1>4, SetOp
<1> QED BY <1>2, <1>5

LEMMA CopyMoves ==
    ASSUME Types, NEW h \in Handlers, Copy(h), op[h].id \in DOMAIN agents
    PROVE  Moved(h, "write", op[h].id, op[h].from, op[h].name, agents[op[h].id])
<1> DEFINE c == agents[op[h].id]
           r == [op[h] EXCEPT !.pc = "write", !.copy = c]
<1>1. op[h] \in OpRecords /\ op \in [Handlers -> OpRecords] /\ c \in Entries
    BY DEF Types
<1>2. /\ r \in OpRecords
      /\ r.pc = "write" /\ r.id = op[h].id /\ r.from = op[h].from
      /\ r.name = op[h].name /\ r.copy = c
    <2> HIDE DEF c
    <2> QED BY <1>1 DEF OpRecords, Pcs
<1>3. op' = [op EXCEPT ![h].pc = "write", ![h].copy = c]
    BY DEF Copy
<1>4. op' = [op EXCEPT ![h] = r]
    <2> HIDE DEF c
    <2> QED BY <1>1, <1>3
<1> HIDE DEF r
<1>5. Moved(h, r.pc, r.id, r.from, r.name, r.copy)
    BY <1>2, <1>4, SetOp
<1> QED BY <1>2, <1>5

LEMMA IdleIs == Idle \in OpRecords /\ Idle.pc = "idle"
    BY DEF Idle, OpRecords, Pcs

(* The rows that a shutdown adds have rowids of their own.                 *)
LEMMA ShutdownRows ==
    ASSUME Types, Rowids, Shutdown
    PROVE  /\ DOMAIN rows' = DOMAIN rows \cup DOMAIN agents
           /\ rows' \in [DOMAIN rows' -> RowRecords]
           /\ Rowids'
<1> DEFINE new == DOMAIN agents \ DOMAIN rows
           c == Cardinality(new)
           last == LastRowid(rows)
<1>1. PICK nth \in Bijection(new, 1..c) :
         rows' = [a \in DOMAIN rows \cup DOMAIN agents |->
                    IF a \in new THEN Row(agents[a], last + nth[a])
                    ELSE IF a \in DOMAIN agents THEN Row(agents[a], rows[a].rowid)
                    ELSE rows[a]]
    BY DEF Shutdown
<1>2. last \in Nat /\ \A a \in DOMAIN rows : rows[a].rowid <= last
    BY LastRowidIs
<1>3. IsFiniteSet(new)
    <2>1. IsFiniteSet(Given)
        <3>1. 1 \in Int /\ nextId - 1 \in Int
            BY DEF Types
        <3> QED BY <3>1, FS_Interval DEF Given
    <2> QED BY <2>1, FS_Subset DEF Types
<1>4. c \in Nat
    BY <1>3, FS_CardinalityType
<1> HIDE DEF new, c, last
<1>5. /\ \A a \in new : nth[a] \in 1..c
      /\ \A a, b \in new : nth[a] = nth[b] => a = b
    BY <1>1 DEF Bijection, Injection, IsInjective
<1>6. /\ \A a \in DOMAIN rows : rows[a] \in RowRecords /\ rows[a].rowid \in Nat
      /\ \A a \in DOMAIN agents : agents[a] \in Entries
    BY DEF Types, RowRecords
<1> DEFINE k(a) == IF a \in new THEN last + nth[a] ELSE rows[a].rowid
<1>7. \A a \in DOMAIN rows \cup DOMAIN agents : k(a) \in Nat /\ k(a) <= last + c
    BY <1>2, <1>4, <1>5, <1>6 DEF new
<1>8. \A a, b \in DOMAIN rows \cup DOMAIN agents : k(a) = k(b) => a = b
    BY <1>2, <1>4, <1>5, <1>6 DEF Rowids, new
<1>9. \A a \in DOMAIN rows \cup DOMAIN agents :
         rows'[a] = IF a \in DOMAIN agents THEN Row(agents[a], k(a)) ELSE rows[a]
    BY <1>1 DEF new
<1>10. \A a \in DOMAIN rows : a \notin DOMAIN agents => k(a) = rows[a].rowid
    BY DEF new
<1>11. DOMAIN rows' = DOMAIN rows \cup DOMAIN agents
    BY <1>1
<1> HIDE DEF k
<1>12. \A a \in DOMAIN rows' : rows'[a] \in RowRecords /\ rows'[a].rowid = k(a)
    <2>1. \A e \in Entries, i \in Nat : Row(e, i) \in RowRecords /\ Row(e, i).rowid = i
        BY DEF Row, RowRecords, Entries
    <2> QED BY <1>6, <1>7, <1>9, <1>10, <1>11, <2>1
<1>13. rows' \in [DOMAIN rows' -> RowRecords]
    BY <1>1, <1>11, <1>12
<1>14. last + c \in Nat
    BY <1>2, <1>4
<1>15. Rowids'
    BY <1>7, <1>8, <1>11, <1>12, <1>14 DEF Rowids
<1> QED BY <1>11, <1>13, <1>15

-----------------------------------------------------------------------------
(* Every step of a handler keeps the invariant.                            *)

(* The name check reads the index only.                                    *)
LEMMA RegisterCheckKeeps ==
    ASSUME Inv, NEW h \in Handlers, RegisterCheck(h)
    PROVE  Inv'
<1> USE DEF Inv
<1>1. /\ UNCHANGED <<up, agents, index, restarts, cron, rows, cronFile>>
      /\ UNCHANGED <<nextId, root, count, excused, stale, killed>>
      /\ up /\ op[h].pc = "check"
    BY DEF RegisterCheck, memory, disk, bounds, history, At
<1>2. PICK p, i, f, n, c :
         /\ Moved(h, p, i, f, n, c)
         /\ \/ p = "idle"
            \/ /\ p = "insert" /\ i = op[h].id /\ f = op[h].from
               /\ n = op[h].name /\ c = op[h].copy
    BY GotoIs, DoneIs DEF RegisterCheck, Pcs
<1>10. Types'
    BY <1>1, <1>2 DEF Types, Moved, Given, Ids
<1>11. Lineages'
    BY <1>1 DEF Lineages, Ids
<1>12. Down'
    BY <1>1, <1>2 DEF Down
<1>13. Operations'
    BY <1>1, <1>2 DEF Operations, Operation, Moved, Given, Entering, Leaving
<1>14. OneHandler'
    BY <1>1, <1>2 DEF OneHandler, Operations, Operation, Moved, Entering, Clean
<1>15. Reliances'
    BY <1>1, <1>2 DEF Reliances, Reliance, Moved, Holding, Clean, Ids
<1>16. Found'
    BY <1>1 DEF Found, Clean
<1>17. Leads'
    BY <1>1, <1>2 DEF Leads, Clean, Moved
<1>18. OneAgent'
    BY <1>1, <1>2 DEF OneAgent, Sound, Entering, Leaving, Moved
<1>19. Counts'
    BY <1>1, <1>2 DEF Counts, Counting, Restarts, Sound, Entering, Leaving, Moved, Ids
<1>20. Owner'
    BY <1>1, <1>2 DEF Owner, Sound, Entering, Moved
<1>21. Written'
    BY <1>1, <1>2 DEF Written, Moved, Clean
<1>22. Orphans'
    BY <1>1, <1>2 DEF Orphans, Sound, Moved, Leaving
<1>23. KilledStays'
    BY <1>1 DEF KilledStays, Clean
<1>24. Rowids'
    BY <1>1 DEF Rowids
<1> QED
    BY <1>10, <1>11, <1>12, <1>13, <1>14, <1>15, <1>16, <1>17, <1>18, <1>19, <1>20, <1>21,
       <1>22, <1>23, <1>24

(* The new agent takes the name; who has it already is excused with it.    *)
LEMMA RegisterInsertKeeps ==
    ASSUME Inv, NEW h \in Handlers, RegisterInsert(h)
    PROVE  Inv'
<1> USE DEF Inv
<1>1. /\ UNCHANGED <<up, restarts, cron, rows, cronFile>>
      /\ UNCHANGED <<nextId, root, count, stale, killed>>
      /\ up /\ op[h].pc = "insert"
    BY DEF RegisterInsert, disk, bounds, At
<1>2. Moved(h, "save", op[h].id, op[h].from, op[h].name, op[h].copy)
    BY GotoIs DEF RegisterInsert, Pcs
<1>3. /\ op[h].id \in Given /\ op[h].copy \in Entries /\ op[h].name \in Names
      /\ op[h].copy.name = op[h].name /\ op[h].id \notin DOMAIN agents /\ op[h].id \notin killed
    BY <1>1 DEF Operations, Operation, Entering
<1>4. /\ DOMAIN index' = DOMAIN index \cup {op[h].name}
      /\ index'[op[h].name] = op[h].id
      /\ \A n \in DOMAIN index : n # op[h].name => index'[n] = index[n]
      /\ index' \in [DOMAIN index' -> Given]
    BY <1>3 DEF RegisterInsert, Types, With
<1>5. /\ DOMAIN agents' = DOMAIN agents \cup {op[h].id}
      /\ agents'[op[h].id] = op[h].copy
      /\ \A a \in DOMAIN agents : a # op[h].id => agents'[a] = agents[a]
      /\ agents' \in [DOMAIN agents' -> Entries]
    BY <1>3 DEF RegisterInsert, Types, With
<1>6. /\ excused \subseteq excused'
      /\ op[h].name \in DOMAIN index =>
            root[op[h].id] \in excused' /\ root[index[op[h].name]] \in excused'
    BY DEF RegisterInsert
<1>10. Types'
    BY <1>1, <1>2, <1>3, <1>4, <1>5 DEF Types, Moved, Given, Ids
<1>11. Lineages'
    BY <1>1, <1>3 DEF Lineages, Ids
<1>12. Down'
    BY <1>1, <1>2, <1>3, <1>4, <1>5 DEF Down
<1>13. Operations'
    BY <1>1, <1>2, <1>3, <1>5 DEF Operations, Operation, Moved, Given, Entering, Leaving,
       OneHandler
<1>14. OneHandler'
    BY <1>1, <1>2, <1>3, <1>6 DEF OneHandler, Operations, Operation, Moved, Entering, Clean
<1>15. Reliances'
    BY <1>1, <1>2, <1>3, <1>4, <1>5, <1>6 DEF Reliances, Reliance, Moved, Holding, Clean,
       Ids
<1>16. Found'
    BY <1>1, <1>3, <1>4, <1>5, <1>6 DEF Found, Clean
<1>17. Leads'
    BY <1>1, <1>2, <1>3, <1>4, <1>5, <1>6 DEF Leads, Clean, Moved
<1>18. OneAgent'
    BY <1>1, <1>2, <1>3, <1>5, <1>6 DEF OneAgent, Sound, Entering, Leaving, Moved,
       OneHandler, Operations, Operation, Clean
<1>19. Counts'
    BY <1>1, <1>2, <1>3, <1>5, <1>6 DEF Counts, Counting, Restarts, Sound, Entering,
       Leaving, Moved, Ids
<1>20. Owner'
    <2> SUFFICES ASSUME cron # 0, Sound(cron) PROVE Owner'
        BY <1>1, <1>6 DEF Owner, Sound
    <2>1. root[op[h].id] = root[cron] => op[h].id = cron \/ op[h].from = cron
        <3>1. op[h].from # 0 /\ root[op[h].id] = root[cron] => op[h].from = cron
            BY <1>1 DEF Owner, Entering
        <3>2. cron \in Ids
            BY ConstantAssumption DEF Types, Ids, ConstantAssumption
        <3>3. op[h].from = 0 /\ root[op[h].id] = root[cron] => op[h].id = cron
            BY <1>1, <3>2 DEF Reliances, Reliance, Sound, Clean
        <3> QED BY <3>1, <3>3
    <2>2. \A g \in Handlers : g # h => op'[g] = op[g]
        BY <1>2 DEF Moved
    <2>3. op'[h].pc = "save" /\ op'[h].id = op[h].id /\ op'[h].from = op[h].from
        BY <1>2 DEF Moved
    <2>4. \A a \in DOMAIN agents' : root[a] = root[cron] =>
             \/ a = cron
             \/ \E g \in Handlers : /\ op'[g].id = a /\ op'[g].from = cron
                                    /\ op'[g].pc \in {"save", "carry", "reassign"}
        BY <1>1, <1>5, <2>1, <2>2, <2>3 DEF Owner
    <2>5. \A g \in Handlers : op'[g].pc # "idle" /\ root[op'[g].id] = root[cron] =>
             /\ op'[g].pc \in {"restart", "stopped"} => op'[g].id = cron
             /\ op'[g].pc \in Entering /\ op'[g].from # 0 => op'[g].from = cron
        BY <1>1, <2>2, <2>3 DEF Owner, Entering
    <2> QED BY <1>1, <2>4, <2>5 DEF Owner
<1>21. Written'
    BY <1>1, <1>2, <1>3, <1>5, <1>6 DEF Written, Moved, Clean
<1>22. Orphans'
    BY <1>1, <1>2, <1>3, <1>5, <1>6 DEF Orphans, Sound, Moved, Leaving
<1>23. KilledStays'
    BY <1>1, <1>3, <1>5, <1>6 DEF KilledStays, Clean
<1>24. Rowids'
    BY <1>1, <1>3 DEF Rowids
<1> QED
    BY <1>10, <1>11, <1>12, <1>13, <1>14, <1>15, <1>16, <1>17, <1>18, <1>19, <1>20, <1>21,
       <1>22, <1>23, <1>24

(* The row is written from the entry as registered, or the lineage is      *)
(* excused.                                                                *)
LEMMA SpawnSaveKeeps ==
    ASSUME Inv, NEW h \in Handlers, SpawnSave(h)
    PROVE  Inv'
<1> USE DEF Inv
<1>1. /\ UNCHANGED <<up, agents, index, restarts, cron, cronFile>>
      /\ UNCHANGED <<nextId, root, count, stale, killed>>
      /\ up /\ op[h].pc = "save"
    BY DEF SpawnSave, memory, disk, bounds, history, At
<1>2. PICK p, i, f, n, c :
         /\ Moved(h, p, i, f, n, c)
         /\ \/ /\ p = "idle"
               /\ op[h].from = 0 \/ root[op[h].id] \in excused'
            \/ /\ p = "carry" /\ i = op[h].id /\ f = op[h].from /\ op[h].from # 0
               /\ n = op[h].name /\ c = op[h].copy
    BY GotoIs, DoneIs DEF SpawnSave, Pcs
<1>3. op[h].id \in Given /\ op[h].copy \in Entries
    BY <1>1 DEF Operations, Operation
<1>4. \/ rows' = rows /\ root[op[h].id] \in excused'
      \/ /\ DOMAIN rows' = DOMAIN rows \cup {op[h].id}
         /\ rows'[op[h].id].name = op[h].copy.name /\ rows'[op[h].id].ver = op[h].copy.ver
         /\ \A a \in DOMAIN rows : a # op[h].id => rows'[a] = rows[a]
    BY UpsertIs, <1>3 DEF SpawnSave
<1>5. Rowids' /\ rows' \in [DOMAIN rows' -> RowRecords]
    BY UpsertType, <1>3 DEF SpawnSave, Types, Rowids
<1>6. excused \subseteq excused'
    BY DEF SpawnSave
<1>7. root[op[h].id] \notin excused =>
         op[h].id \in DOMAIN agents /\ op[h].copy = agents[op[h].id]
    BY <1>1 DEF Reliances, Reliance, Clean, Holding
<1>10. Types'
    BY <1>1, <1>2, <1>3, <1>4, <1>5, <1>7 DEF Types, Moved, Given, Ids
<1>11. Lineages'
    BY <1>1, <1>3, <1>7 DEF Lineages, Ids
<1>12. Down'
    BY <1>1, <1>2, <1>3, <1>7 DEF Down
<1>13. Operations'
    BY <1>1, <1>2, <1>3, <1>7 DEF Operations, Operation, Moved, Given, Entering, Leaving
<1>14. OneHandler'
    BY <1>1, <1>2, <1>3, <1>4, <1>6, <1>7 DEF OneHandler, Operations, Operation, Moved,
       Entering, Clean
<1>15. Reliances'
    BY <1>1, <1>2, <1>3, <1>4, <1>6, <1>7 DEF Reliances, Reliance, Moved, Holding, Clean,
       Ids
<1>16. Found'
    BY <1>1, <1>2, <1>3, <1>4, <1>6, <1>7 DEF Found, Clean
<1>17. Leads'
    BY <1>1, <1>2, <1>3, <1>4, <1>6, <1>7 DEF Leads, Clean, Moved
<1>18. OneAgent'
    BY <1>1, <1>2, <1>3, <1>4, <1>6, <1>7 DEF OneAgent, Sound, Entering, Leaving, Moved
<1>19. Counts'
    BY <1>1, <1>2, <1>3, <1>4, <1>6, <1>7 DEF Counts, Counting, Restarts, Sound, Entering,
       Leaving, Moved, Ids
<1>20. Owner'
    BY <1>1, <1>2, <1>3, <1>4, <1>6, <1>7 DEF Owner, Sound, Entering, Moved
<1>21. Written'
    BY <1>1, <1>2, <1>3, <1>4, <1>5, <1>6, <1>7 DEF Written, Moved, Clean
<1>22. Orphans'
    BY <1>1, <1>2, <1>3, <1>4, <1>5, <1>6, <1>7 DEF Orphans, Sound, Moved, Leaving
<1>23. KilledStays'
    BY <1>1, <1>2, <1>3, <1>4, <1>5, <1>6, <1>7 DEF KilledStays, Clean
<1>24. Rowids'
    BY <1>5
<1> QED
    BY <1>10, <1>11, <1>12, <1>13, <1>14, <1>15, <1>16, <1>17, <1>18, <1>19, <1>20, <1>21,
       <1>22, <1>23, <1>24

(* The name stays with the handler, which owes the index its removal.      *)
LEMMA TakeKillKeeps ==
    ASSUME Inv, NEW h \in Handlers, NEW a \in Ids, TakeEntry(h, a, "kill")
    PROVE  Inv'
<1> USE DEF Inv
<1>1. /\ UNCHANGED <<up, index, restarts, cron, rows, cronFile>>
      /\ UNCHANGED <<nextId, root, count, stale, killed>>
      /\ up /\ op[h].pc = "idle"
    BY DEF TakeEntry, memory, disk, bounds, history, At
<1>2. Moved(h, "kill", a, 0, agents[a].name, agents[a])
    BY TakeEntryMoves DEF Pcs
<1>3. a \in DOMAIN agents /\ a \in Given /\ agents[a] \in Entries /\ agents[a].name \in Names
    BY DEF TakeEntry, Types, Entries
<1>4. /\ DOMAIN agents' = DOMAIN agents \ {a}
      /\ \A b \in DOMAIN agents : b # a => agents'[b] = agents[b]
      /\ agents' \in [DOMAIN agents' -> Entries]
    BY DEF TakeEntry, Types, Without
<1>5. excused \subseteq excused'
    BY DEF TakeEntry
<1>6. \A g \in Handlers : op[g].pc # "idle" /\ root[op[g].id] = root[a] => root[a] \in excused'
    BY <1>1, OverlapIs DEF TakeEntry
<1>10. Types'
    BY <1>1, <1>2, <1>3, <1>4 DEF Types, Moved, Given, Ids
<1>11. Lineages'
    BY <1>1, <1>3 DEF Lineages, Ids
<1>12. Down'
    BY <1>1, <1>2, <1>3, <1>4 DEF Down
<1>13. Operations'
    BY <1>1, <1>2, <1>3, <1>4 DEF Operations, Operation, Moved, Given, Entering, Leaving
<1>14. OneHandler'
    BY <1>1, <1>2, <1>3, <1>5, <1>6 DEF OneHandler, Operations, Operation, Moved, Entering,
       Clean
<1>15. Reliances'
    BY <1>1, <1>2, <1>3, <1>4, <1>5, <1>6 DEF Reliances, Reliance, Moved, Holding, Clean,
       Ids
<1>16. Found'
    BY <1>1, <1>3, <1>4, <1>5, <1>6 DEF Found, Clean
<1>17. Leads'
    BY <1>1, <1>2, <1>3, <1>4, <1>5, <1>6 DEF Leads, Clean, Moved
<1>18. OneAgent'
    BY <1>1, <1>2, <1>3, <1>4, <1>5, <1>6 DEF OneAgent, Sound, Entering, Leaving, Moved
<1>19. Counts'
    BY <1>1, <1>2, <1>3, <1>4, <1>5, <1>6 DEF Counts, Counting, Restarts, Sound, Entering,
       Leaving, Moved, Ids
<1>20. Owner'
    BY <1>1, <1>2, <1>3, <1>4, <1>5, <1>6 DEF Owner, Sound, Entering, Moved
<1>21. Written'
    BY <1>1, <1>2, <1>3, <1>4, <1>5, <1>6 DEF Written, Moved, Clean
<1>22. Orphans'
    BY <1>1, <1>2, <1>3, <1>4, <1>5, <1>6 DEF Orphans, Sound, Moved, Leaving
<1>23. KilledStays'
    BY <1>1, <1>3, <1>4, <1>5, <1>6 DEF KilledStays, Clean
<1>24. Rowids'
    BY <1>1, <1>3 DEF Rowids
<1> QED
    BY <1>10, <1>11, <1>12, <1>13, <1>14, <1>15, <1>16, <1>17, <1>18, <1>19, <1>20, <1>21,
       <1>22, <1>23, <1>24

(* Likewise, and count and cron job wait with the old id.                  *)
LEMMA TakeRestartKeeps ==
    ASSUME Inv, NEW h \in Handlers, NEW a \in Ids, TakeEntry(h, a, "restart")
    PROVE  Inv'
<1> USE DEF Inv
<1>1. /\ UNCHANGED <<up, index, restarts, cron, rows, cronFile>>
      /\ UNCHANGED <<nextId, root, count, stale, killed>>
      /\ up /\ op[h].pc = "idle"
    BY DEF TakeEntry, memory, disk, bounds, history, At
<1>2. Moved(h, "restart", a, 0, agents[a].name, agents[a])
    BY TakeEntryMoves DEF Pcs
<1>3. a \in DOMAIN agents /\ a \in Given /\ agents[a] \in Entries /\ agents[a].name \in Names
    BY DEF TakeEntry, Types, Entries
<1>4. /\ DOMAIN agents' = DOMAIN agents \ {a}
      /\ \A b \in DOMAIN agents : b # a => agents'[b] = agents[b]
      /\ agents' \in [DOMAIN agents' -> Entries]
    BY DEF TakeEntry, Types, Without
<1>5. excused \subseteq excused'
    BY DEF TakeEntry
<1>6. \A g \in Handlers : op[g].pc # "idle" /\ root[op[g].id] = root[a] => root[a] \in excused'
    BY <1>1, OverlapIs DEF TakeEntry
<1>10. Types'
    BY <1>1, <1>2, <1>3, <1>4 DEF Types, Moved, Given, Ids
<1>11. Lineages'
    BY <1>1, <1>3 DEF Lineages, Ids
<1>12. Down'
    BY <1>1, <1>2, <1>3, <1>4 DEF Down
<1>13. Operations'
    BY <1>1, <1>2, <1>3, <1>4 DEF Operations, Operation, Moved, Given, Entering, Leaving
<1>14. OneHandler'
    BY <1>1, <1>2, <1>3, <1>5, <1>6 DEF OneHandler, Operations, Operation, Moved, Entering,
       Clean
<1>15. Reliances'
    BY <1>1, <1>2, <1>3, <1>4, <1>5, <1>6 DEF Reliances, Reliance, Moved, Holding, Clean,
       Ids
<1>16. Found'
    BY <1>1, <1>3, <1>4, <1>5, <1>6 DEF Found, Clean
<1>17. Leads'
    BY <1>1, <1>2, <1>3, <1>4, <1>5, <1>6 DEF Leads, Clean, Moved
<1>18. OneAgent'
    BY <1>1, <1>2, <1>3, <1>4, <1>5, <1>6 DEF OneAgent, Sound, Entering, Leaving, Moved
<1>19. Counts'
    BY <1>1, <1>2, <1>3, <1>4, <1>5, <1>6 DEF Counts, Counting, Restarts, Sound, Entering,
       Leaving, Moved, Ids
<1>20. Owner'
    BY <1>1, <1>2, <1>3, <1>4, <1>5, <1>6 DEF Owner, Sound, Entering, Moved
<1>21. Written'
    BY <1>1, <1>2, <1>3, <1>4, <1>5, <1>6 DEF Written, Moved, Clean
<1>22. Orphans'
    BY <1>1, <1>2, <1>3, <1>4, <1>5, <1>6 DEF Orphans, Sound, Moved, Leaving
<1>23. KilledStays'
    BY <1>1, <1>3, <1>4, <1>5, <1>6 DEF KilledStays, Clean
<1>24. Rowids'
    BY <1>1, <1>3 DEF Rowids
<1> QED
    BY <1>10, <1>11, <1>12, <1>13, <1>14, <1>15, <1>16, <1>17, <1>18, <1>19, <1>20, <1>21,
       <1>22, <1>23, <1>24

(* Only the own name is given up, or the lineage robbed is excused.        *)
LEMMA UnindexKillKeeps ==
    ASSUME Inv, NEW h \in Handlers, Unindex(h, "kill", "torn")
    PROVE  Inv'
<1> USE DEF Inv
<1>1. /\ UNCHANGED <<up, agents, restarts, cron, rows, cronFile>>
      /\ UNCHANGED <<nextId, root, count, stale, killed>>
      /\ up /\ op[h].pc = "kill"
    BY DEF Unindex, memory, disk, bounds, history, At
<1>2. Moved(h, "torn", op[h].id, op[h].from, op[h].name, op[h].copy)
    BY GotoIs DEF Unindex, Pcs
<1>3. /\ DOMAIN index' = DOMAIN index \ {op[h].name}
      /\ \A n \in DOMAIN index : n # op[h].name => index'[n] = index[n]
      /\ index' \in [DOMAIN index' -> Given]
    BY DEF Unindex, Types, Without
<1>4. /\ excused \subseteq excused'
      /\ op[h].name \in DOMAIN index /\ index[op[h].name] # op[h].id =>
            root[index[op[h].name]] \in excused'
    BY DEF Unindex, Robbed
<1>10. Types'
    BY <1>1, <1>2, <1>3 DEF Types, Moved, Given, Ids
<1>11. Lineages'
    BY <1>1 DEF Lineages, Ids
<1>12. Down'
    BY <1>1, <1>2, <1>3 DEF Down
<1>13. Operations'
    BY <1>1, <1>2 DEF Operations, Operation, Moved, Given, Entering, Leaving
<1>14. OneHandler'
    BY <1>1, <1>2, <1>4 DEF OneHandler, Operations, Operation, Moved, Entering, Clean
<1>15. Reliances'
    BY <1>1, <1>2, <1>3, <1>4 DEF Reliances, Reliance, Moved, Holding, Clean, Ids,
       OneHandler
<1>16. Found'
    BY <1>1, <1>3, <1>4 DEF Found, Clean, Operations, Operation, Leaving
<1>17. Leads'
    BY <1>1, <1>2, <1>3, <1>4 DEF Leads, Clean, Moved
<1>18. OneAgent'
    BY <1>1, <1>2, <1>4 DEF OneAgent, Sound, Entering, Leaving, Moved
<1>19. Counts'
    BY <1>1, <1>2, <1>4 DEF Counts, Counting, Restarts, Sound, Entering, Leaving, Moved, Ids
<1>20. Owner'
    BY <1>1, <1>2, <1>4 DEF Owner, Sound, Entering, Moved
<1>21. Written'
    BY <1>1, <1>2, <1>4 DEF Written, Moved, Clean
<1>22. Orphans'
    BY <1>1, <1>2, <1>4 DEF Orphans, Sound, Moved, Leaving
<1>23. KilledStays'
    BY <1>1, <1>4 DEF KilledStays, Clean
<1>24. Rowids'
    BY <1>1 DEF Rowids
<1> QED
    BY <1>10, <1>11, <1>12, <1>13, <1>14, <1>15, <1>16, <1>17, <1>18, <1>19, <1>20, <1>21,
       <1>22, <1>23, <1>24

(* Likewise for a restart.                                                 *)
LEMMA UnindexRestartKeeps ==
    ASSUME Inv, NEW h \in Handlers, Unindex(h, "restart", "stopped")
    PROVE  Inv'
<1> USE DEF Inv
<1>1. /\ UNCHANGED <<up, agents, restarts, cron, rows, cronFile>>
      /\ UNCHANGED <<nextId, root, count, stale, killed>>
      /\ up /\ op[h].pc = "restart"
    BY DEF Unindex, memory, disk, bounds, history, At
<1>2. Moved(h, "stopped", op[h].id, op[h].from, op[h].name, op[h].copy)
    BY GotoIs DEF Unindex, Pcs
<1>3. /\ DOMAIN index' = DOMAIN index \ {op[h].name}
      /\ \A n \in DOMAIN index : n # op[h].name => index'[n] = index[n]
      /\ index' \in [DOMAIN index' -> Given]
    BY DEF Unindex, Types, Without
<1>4. /\ excused \subseteq excused'
      /\ op[h].name \in DOMAIN index /\ index[op[h].name] # op[h].id =>
            root[index[op[h].name]] \in excused'
    BY DEF Unindex, Robbed
<1>10. Types'
    BY <1>1, <1>2, <1>3 DEF Types, Moved, Given, Ids
<1>11. Lineages'
    BY <1>1 DEF Lineages, Ids
<1>12. Down'
    BY <1>1, <1>2, <1>3 DEF Down
<1>13. Operations'
    BY <1>1, <1>2 DEF Operations, Operation, Moved, Given, Entering, Leaving
<1>14. OneHandler'
    BY <1>1, <1>2, <1>4 DEF OneHandler, Operations, Operation, Moved, Entering, Clean
<1>15. Reliances'
    BY <1>1, <1>2, <1>3, <1>4 DEF Reliances, Reliance, Moved, Holding, Clean, Ids,
       OneHandler
<1>16. Found'
    BY <1>1, <1>3, <1>4 DEF Found, Clean, Operations, Operation, Leaving
<1>17. Leads'
    BY <1>1, <1>2, <1>3, <1>4 DEF Leads, Clean, Moved
<1>18. OneAgent'
    BY <1>1, <1>2, <1>4 DEF OneAgent, Sound, Entering, Leaving, Moved
<1>19. Counts'
    BY <1>1, <1>2, <1>4 DEF Counts, Counting, Restarts, Sound, Entering, Leaving, Moved, Ids
<1>20. Owner'
    BY <1>1, <1>2, <1>4 DEF Owner, Sound, Entering, Moved
<1>21. Written'
    BY <1>1, <1>2, <1>4 DEF Written, Moved, Clean
<1>22. Orphans'
    BY <1>1, <1>2, <1>4 DEF Orphans, Sound, Moved, Leaving
<1>23. KilledStays'
    BY <1>1, <1>4 DEF KilledStays, Clean
<1>24. Rowids'
    BY <1>1 DEF Rowids
<1> QED
    BY <1>10, <1>11, <1>12, <1>13, <1>14, <1>15, <1>16, <1>17, <1>18, <1>19, <1>20, <1>21,
       <1>22, <1>23, <1>24

(* The id is killed for good: no row, no agent, no handler has it.         *)
LEMMA RemoveRowKeeps ==
    ASSUME Inv, NEW h \in Handlers, RemoveRow(h)
    PROVE  Inv'
<1> USE DEF Inv
<1>1. /\ UNCHANGED <<up, agents, index, restarts, cron, cronFile>>
      /\ UNCHANGED <<nextId, root, count, stale>>
      /\ up /\ op[h].pc = "torn"
    BY DEF RemoveRow, memory, disk, bounds, history, At
<1>2. PICK p, i, f, n, c : Moved(h, p, i, f, n, c) /\ p = "idle"
    BY DoneIs DEF RemoveRow
<1>3. killed' = killed \cup {op[h].id} /\ excused \subseteq excused'
    BY DEF RemoveRow
<1>4. op[h].id \in Given /\ op[h].id \notin DOMAIN agents
    BY <1>1 DEF Operations, Operation, Leaving
<1>5. /\ \/ rows' = rows /\ root[op[h].id] \in excused'
         \/ DOMAIN rows' = DOMAIN rows \ {op[h].id}
      /\ \A a \in DOMAIN rows' : a \in DOMAIN rows /\ rows'[a] = rows[a]
      /\ rows' \in [DOMAIN rows' -> RowRecords]
    BY DEF RemoveRow, Types, Without
<1>10. Types'
    BY <1>1, <1>2, <1>3, <1>4, <1>5 DEF Types, Moved, Given, Ids
<1>11. Lineages'
    BY <1>1, <1>4 DEF Lineages, Ids
<1>12. Down'
    BY <1>1, <1>2, <1>4 DEF Down
<1>13. Operations'
    BY <1>1, <1>2, <1>3, <1>4 DEF Operations, Operation, Moved, Given, Entering, Leaving,
       OneHandler
<1>14. OneHandler'
    BY <1>1, <1>2, <1>3, <1>4, <1>5 DEF OneHandler, Operations, Operation, Moved, Entering,
       Clean
<1>15. Reliances'
    BY <1>1, <1>2, <1>3, <1>4, <1>5 DEF Reliances, Reliance, Moved, Holding, Clean, Ids
<1>16. Found'
    BY <1>1, <1>3, <1>4, <1>5 DEF Found, Clean
<1>17. Leads'
    BY <1>1, <1>2, <1>3, <1>4, <1>5 DEF Leads, Clean, Moved
<1>18. OneAgent'
    BY <1>1, <1>2, <1>3, <1>4, <1>5 DEF OneAgent, Sound, Entering, Leaving, Moved
<1>19. Counts'
    BY <1>1, <1>2, <1>3, <1>4, <1>5 DEF Counts, Counting, Restarts, Sound, Entering,
       Leaving, Moved, Ids
<1>20. Owner'
    BY <1>1, <1>2, <1>3, <1>4, <1>5 DEF Owner, Sound, Entering, Moved
<1>21. Written'
    BY <1>1, <1>2, <1>3, <1>4, <1>5 DEF Written, Moved, Clean
<1>22. Orphans'
    BY <1>1, <1>2, <1>3, <1>4, <1>5 DEF Orphans, Sound, Moved, Leaving
<1>23. KilledStays'
    BY <1>1, <1>3, <1>4, <1>5 DEF KilledStays, Clean
<1>24. Rowids'
    BY <1>4, <1>5 DEF Rowids
<1> QED
    BY <1>10, <1>11, <1>12, <1>13, <1>14, <1>15, <1>16, <1>17, <1>18, <1>19, <1>20, <1>21,
       <1>22, <1>23, <1>24

(* The job goes where the agent went.                                      *)
LEMMA ReassignKeeps ==
    ASSUME Inv, NEW h \in Handlers, Reassign(h)
    PROVE  Inv'
<1> USE DEF Inv
<1>1. /\ UNCHANGED <<up, agents, index, restarts, rows>>
      /\ UNCHANGED <<nextId, root, count, stale, killed>>
      /\ up /\ op[h].pc = "reassign"
    BY DEF Reassign, memory, disk, bounds, history, At
<1>2. PICK p, i, f, n, c : Moved(h, p, i, f, n, c) /\ p = "idle"
    BY DoneIs DEF Reassign
<1>3. /\ op[h].id \in Given /\ op[h].from \in Given /\ op[h].from # 0
      /\ root[op[h].from] = root[op[h].id]
      /\ root[op[h].id] \notin excused => op[h].id \in DOMAIN agents
    BY <1>1 DEF Operations, Operation, Reliances, Reliance, Clean, Holding
<1>4. /\ excused \subseteq excused'
      /\ cron' = IF cron = op[h].from THEN op[h].id ELSE cron
      /\ cronFile' \in {cron', cronFile}
    BY DEF Reassign
<1>10. Types'
    BY <1>1, <1>2, <1>3, <1>4 DEF Types, Moved, Given, Ids
<1>11. Lineages'
    BY <1>1, <1>3 DEF Lineages, Ids
<1>12. Down'
    BY <1>1, <1>2, <1>3, <1>4 DEF Down
<1>13. Operations'
    BY <1>1, <1>2, <1>3 DEF Operations, Operation, Moved, Given, Entering, Leaving
<1>14. OneHandler'
    BY <1>1, <1>2, <1>3, <1>4 DEF OneHandler, Operations, Operation, Moved, Entering, Clean
<1>15. Reliances'
    BY <1>1, <1>2, <1>3, <1>4 DEF Reliances, Reliance, Moved, Holding, Clean, Ids
<1>16. Found'
    BY <1>1, <1>3, <1>4 DEF Found, Clean
<1>17. Leads'
    BY <1>1, <1>2, <1>3, <1>4 DEF Leads, Clean, Moved
<1>18. OneAgent'
    BY <1>1, <1>2, <1>3, <1>4 DEF OneAgent, Sound, Entering, Leaving, Moved
<1>19. Counts'
    BY <1>1, <1>2, <1>3, <1>4 DEF Counts, Counting, Restarts, Sound, Entering, Leaving,
       Moved, Ids
<1>20. Owner'
    BY <1>1, <1>2, <1>3, <1>4 DEF Owner, Sound, Entering, Moved, OneAgent, OneHandler,
       Operations, Operation, Clean
<1>21. Written'
    BY <1>1, <1>2, <1>3, <1>4 DEF Written, Moved, Clean
<1>22. Orphans'
    BY <1>1, <1>2, <1>3, <1>4 DEF Orphans, Sound, Moved, Leaving
<1>23. KilledStays'
    BY <1>1, <1>3, <1>4 DEF KilledStays, Clean
<1>24. Rowids'
    BY <1>1, <1>3 DEF Rowids
<1> QED
    BY <1>10, <1>11, <1>12, <1>13, <1>14, <1>15, <1>16, <1>17, <1>18, <1>19, <1>20, <1>21,
       <1>22, <1>23, <1>24

(* The count goes where the agent went.                                    *)
LEMMA CarryKeeps ==
    ASSUME Inv, NEW h \in Handlers, Carry(h)
    PROVE  Inv'
<1> USE DEF Inv
<1>1. /\ UNCHANGED <<up, agents, index, cron, rows, cronFile>>
      /\ UNCHANGED <<nextId, root, count, excused, stale, killed>>
      /\ up /\ op[h].pc = "carry"
    BY DEF Carry, memory, disk, bounds, history, At
<1>2. Moved(h, "reassign", op[h].id, op[h].from, op[h].name, op[h].copy)
    BY GotoIs DEF Carry, Pcs
<1>3. /\ op[h].id \in Given /\ op[h].from \in Given /\ op[h].from # 0
      /\ root[op[h].from] = root[op[h].id]
      /\ root[op[h].id] \notin excused => op[h].id \in DOMAIN agents
    BY <1>1 DEF Operations, Operation, Reliances, Reliance, Clean, Holding
<1>4. /\ op[h].from \in DOMAIN restarts =>
           /\ DOMAIN restarts' = (DOMAIN restarts \ {op[h].from}) \cup {op[h].id}
           /\ restarts'[op[h].id] = restarts[op[h].from]
      /\ \A a \in Given \ {op[h].from, op[h].id} :
            /\ a \in DOMAIN restarts' <=> a \in DOMAIN restarts
            /\ a \in DOMAIN restarts => restarts'[a] = restarts[a]
      /\ op[h].from \notin DOMAIN restarts => restarts' = restarts
      /\ restarts' \in [DOMAIN restarts' -> Nat]
      /\ DOMAIN restarts' \subseteq Given
    BY <1>3 DEF Carry, Types, With, Without
<1>10. Types'
    BY <1>1, <1>2, <1>3, <1>4 DEF Types, Moved, Given, Ids
<1>11. Lineages'
    BY <1>1, <1>3 DEF Lineages, Ids
<1>12. Down'
    BY <1>1, <1>2, <1>3 DEF Down
<1>13. Operations'
    BY <1>1, <1>2, <1>3 DEF Operations, Operation, Moved, Given, Entering, Leaving
<1>14. OneHandler'
    BY <1>1, <1>2, <1>3 DEF OneHandler, Operations, Operation, Moved, Entering, Clean
<1>15. Reliances'
    BY <1>1, <1>2, <1>3 DEF Reliances, Reliance, Moved, Holding, Clean, Ids
<1>16. Found'
    BY <1>1, <1>3 DEF Found, Clean
<1>17. Leads'
    BY <1>1, <1>2, <1>3 DEF Leads, Clean, Moved
<1>18. OneAgent'
    BY <1>1, <1>2, <1>3 DEF OneAgent, Sound, Entering, Leaving, Moved
<1>19. Counts'
    BY <1>1, <1>2, <1>3, <1>4 DEF Counts, Counting, Restarts, Sound, Entering, Leaving,
       Moved, Ids, OneAgent, OneHandler, Operations, Operation, Clean
<1>20. Owner'
    BY <1>1, <1>2, <1>3 DEF Owner, Sound, Entering, Moved
<1>21. Written'
    BY <1>1, <1>2, <1>3 DEF Written, Moved, Clean
<1>22. Orphans'
    BY <1>1, <1>2, <1>3 DEF Orphans, Sound, Moved, Leaving
<1>23. KilledStays'
    BY <1>1, <1>3 DEF KilledStays, Clean
<1>24. Rowids'
    BY <1>1, <1>3 DEF Rowids
<1> QED
    BY <1>10, <1>11, <1>12, <1>13, <1>14, <1>15, <1>16, <1>17, <1>18, <1>19, <1>20, <1>21,
       <1>22, <1>23, <1>24

(* The new name is free or the own, and is owed to the entry from now on.  *)
LEMMA RenameStartKeeps ==
    ASSUME Inv, NEW h \in Handlers, NEW a \in Ids, NEW n \in Names, RenameStart(h, a, n)
    PROVE  Inv'
<1> USE DEF Inv
<1>1. /\ UNCHANGED <<up, agents, restarts, cron, rows, cronFile>>
      /\ UNCHANGED <<nextId, root, count, stale, killed>>
      /\ up /\ op[h].pc = "idle"
    BY DEF RenameStart, memory, disk, bounds, history, At
<1>2. PICK p, c :
         /\ Moved(h, p, a, 0, n, c)
         /\ p \in {"copy", "rename"} /\ (p = "rename" <=> n \notin DOMAIN index)
    BY RenameStartMoves
<1>3. a \in DOMAIN agents /\ a \in Given /\ (n \in DOMAIN index => index[n] = a)
    BY DEF RenameStart, Types
<1>4. /\ DOMAIN index' = DOMAIN index \cup {n} /\ index'[n] = a
      /\ \A m \in DOMAIN index : index'[m] = index[m]
      /\ index' \in [DOMAIN index' -> Given]
    BY <1>3 DEF RenameStart, Types, With
<1>5. excused \subseteq excused'
    BY DEF RenameStart
<1>6. \A g \in Handlers : op[g].pc # "idle" /\ root[op[g].id] = root[a] => root[a] \in excused'
    BY <1>1, OverlapIs DEF RenameStart
<1>10. Types'
    BY <1>1, <1>2, <1>3, <1>4 DEF Types, Moved, Given, Ids
<1>11. Lineages'
    BY <1>1, <1>3 DEF Lineages, Ids
<1>12. Down'
    BY <1>1, <1>2, <1>3, <1>4 DEF Down
<1>13. Operations'
    BY <1>1, <1>2, <1>3 DEF Operations, Operation, Moved, Given, Entering, Leaving
<1>14. OneHandler'
    BY <1>1, <1>2, <1>3, <1>5, <1>6 DEF OneHandler, Operations, Operation, Moved, Entering,
       Clean
<1>15. Reliances'
    BY <1>1, <1>2, <1>3, <1>4, <1>5, <1>6 DEF Reliances, Reliance, Moved, Holding, Clean,
       Ids, Found
<1>16. Found'
    BY <1>1, <1>3, <1>4, <1>5, <1>6 DEF Found, Clean
<1>17. Leads'
    BY <1>1, <1>2, <1>3, <1>4, <1>5, <1>6 DEF Leads, Clean, Moved
<1>18. OneAgent'
    BY <1>1, <1>2, <1>3, <1>5, <1>6 DEF OneAgent, Sound, Entering, Leaving, Moved
<1>19. Counts'
    BY <1>1, <1>2, <1>3, <1>5, <1>6 DEF Counts, Counting, Restarts, Sound, Entering,
       Leaving, Moved, Ids
<1>20. Owner'
    BY <1>1, <1>2, <1>3, <1>5, <1>6 DEF Owner, Sound, Entering, Moved
<1>21. Written'
    BY <1>1, <1>2, <1>3, <1>5, <1>6 DEF Written, Moved, Clean
<1>22. Orphans'
    BY <1>1, <1>2, <1>3, <1>5, <1>6 DEF Orphans, Sound, Moved, Leaving
<1>23. KilledStays'
    BY <1>1, <1>3, <1>5, <1>6 DEF KilledStays, Clean
<1>24. Rowids'
    BY <1>1, <1>3 DEF Rowids
<1> QED
    BY <1>10, <1>11, <1>12, <1>13, <1>14, <1>15, <1>16, <1>17, <1>18, <1>19, <1>20, <1>21,
       <1>22, <1>23, <1>24

(* The entry is ahead of its row, and the handler owes the write.          *)
LEMMA EditKeeps ==
    ASSUME Inv, NEW h \in Handlers, NEW a \in Ids, Edit(h, a)
    PROVE  Inv'
<1> USE DEF Inv
<1>1. /\ UNCHANGED <<up, index, restarts, cron, rows, cronFile>>
      /\ UNCHANGED <<nextId, root, count, stale, killed>>
      /\ up /\ op[h].pc = "idle"
    BY DEF Edit, memory, disk, bounds, history, At
<1>2. PICK n, c : Moved(h, "copy", a, 0, n, c)
    BY EditMoves
<1>3. a \in DOMAIN agents /\ a \in Given
    BY DEF Edit, Types
<1>4. /\ DOMAIN agents' = DOMAIN agents /\ agents'[a].name = agents[a].name
      /\ \A b \in DOMAIN agents : b # a => agents'[b] = agents[b]
      /\ agents' \in [DOMAIN agents' -> Entries]
    BY <1>3 DEF Edit, Types, Entries
<1>5. excused \subseteq excused'
    BY DEF Edit
<1>6. \A g \in Handlers : op[g].pc # "idle" /\ root[op[g].id] = root[a] => root[a] \in excused'
    BY <1>1, OverlapIs DEF Edit
<1>10. Types'
    BY <1>1, <1>2, <1>3, <1>4 DEF Types, Moved, Given, Ids
<1>11. Lineages'
    BY <1>1, <1>3 DEF Lineages, Ids
<1>12. Down'
    BY <1>1, <1>2, <1>3, <1>4 DEF Down
<1>13. Operations'
    BY <1>1, <1>2, <1>3, <1>4 DEF Operations, Operation, Moved, Given, Entering, Leaving
<1>14. OneHandler'
    BY <1>1, <1>2, <1>3, <1>5, <1>6 DEF OneHandler, Operations, Operation, Moved, Entering,
       Clean
<1>15. Reliances'
    BY <1>1, <1>2, <1>3, <1>4, <1>5, <1>6 DEF Reliances, Reliance, Moved, Holding, Clean,
       Ids
<1>16. Found'
    BY <1>1, <1>3, <1>4, <1>5, <1>6 DEF Found, Clean
<1>17. Leads'
    BY <1>1, <1>2, <1>3, <1>4, <1>5, <1>6 DEF Leads, Clean, Moved
<1>18. OneAgent'
    BY <1>1, <1>2, <1>3, <1>4, <1>5, <1>6 DEF OneAgent, Sound, Entering, Leaving, Moved
<1>19. Counts'
    BY <1>1, <1>2, <1>3, <1>4, <1>5, <1>6 DEF Counts, Counting, Restarts, Sound, Entering,
       Leaving, Moved, Ids
<1>20. Owner'
    BY <1>1, <1>2, <1>3, <1>4, <1>5, <1>6 DEF Owner, Sound, Entering, Moved
<1>21. Written'
    BY <1>1, <1>2, <1>3, <1>4, <1>5, <1>6 DEF Written, Moved, Clean
<1>22. Orphans'
    BY <1>1, <1>2, <1>3, <1>4, <1>5, <1>6 DEF Orphans, Sound, Moved, Leaving
<1>23. KilledStays'
    BY <1>1, <1>3, <1>4, <1>5, <1>6 DEF KilledStays, Clean
<1>24. Rowids'
    BY <1>1, <1>3 DEF Rowids
<1> QED
    BY <1>10, <1>11, <1>12, <1>13, <1>14, <1>15, <1>16, <1>17, <1>18, <1>19, <1>20, <1>21,
       <1>22, <1>23, <1>24

(* The old name is not the one the entry has by now.                       *)
LEMMA RenameOldKeeps ==
    ASSUME Inv, NEW h \in Handlers, RenameOld(h)
    PROVE  Inv'
<1> USE DEF Inv
<1>1. /\ UNCHANGED <<up, agents, restarts, cron, rows, cronFile>>
      /\ UNCHANGED <<nextId, root, count, stale, killed>>
      /\ up /\ op[h].pc = "old"
    BY DEF RenameOld, memory, disk, bounds, history, At
<1>2. Moved(h, "copy", op[h].id, op[h].from, op[h].name, op[h].copy)
    BY GotoIs DEF RenameOld, Pcs
<1>3. /\ DOMAIN index' = DOMAIN index \ {op[h].name}
      /\ \A n \in DOMAIN index : n # op[h].name => index'[n] = index[n]
      /\ index' \in [DOMAIN index' -> Given]
    BY DEF RenameOld, Types, Without
<1>4. /\ excused \subseteq excused'
      /\ op[h].name \in DOMAIN index /\ index[op[h].name] # op[h].id =>
            root[index[op[h].name]] \in excused'
    BY DEF RenameOld, Robbed
<1>10. Types'
    BY <1>1, <1>2, <1>3 DEF Types, Moved, Given, Ids
<1>11. Lineages'
    BY <1>1 DEF Lineages, Ids
<1>12. Down'
    BY <1>1, <1>2, <1>3 DEF Down
<1>13. Operations'
    BY <1>1, <1>2 DEF Operations, Operation, Moved, Given, Entering, Leaving
<1>14. OneHandler'
    BY <1>1, <1>2, <1>4 DEF OneHandler, Operations, Operation, Moved, Entering, Clean
<1>15. Reliances'
    BY <1>1, <1>2, <1>3, <1>4 DEF Reliances, Reliance, Moved, Holding, Clean, Ids,
       OneHandler
<1>16. Found'
    BY <1>1, <1>3, <1>4 DEF Found, Clean, Reliances, Reliance
<1>17. Leads'
    BY <1>1, <1>2, <1>3, <1>4 DEF Leads, Clean, Moved
<1>18. OneAgent'
    BY <1>1, <1>2, <1>4 DEF OneAgent, Sound, Entering, Leaving, Moved
<1>19. Counts'
    BY <1>1, <1>2, <1>4 DEF Counts, Counting, Restarts, Sound, Entering, Leaving, Moved, Ids
<1>20. Owner'
    BY <1>1, <1>2, <1>4 DEF Owner, Sound, Entering, Moved
<1>21. Written'
    BY <1>1, <1>2, <1>4 DEF Written, Moved, Clean
<1>22. Orphans'
    BY <1>1, <1>2, <1>4 DEF Orphans, Sound, Moved, Leaving
<1>23. KilledStays'
    BY <1>1, <1>4 DEF KilledStays, Clean
<1>24. Rowids'
    BY <1>1 DEF Rowids
<1> QED
    BY <1>10, <1>11, <1>12, <1>13, <1>14, <1>15, <1>16, <1>17, <1>18, <1>19, <1>20, <1>21,
       <1>22, <1>23, <1>24

(* The copy is the entry, which in a clean lineage stays as it is.         *)
LEMMA CopyKeeps ==
    ASSUME Inv, NEW h \in Handlers, Copy(h)
    PROVE  Inv'
<1> USE DEF Inv
<1>1. /\ UNCHANGED <<up, agents, index, restarts, cron, rows, cronFile>>
      /\ UNCHANGED <<nextId, root, count, excused, stale, killed>>
      /\ up /\ op[h].pc = "copy"
    BY DEF Copy, memory, disk, bounds, history, At
<1>2. PICK p, i, f, n, c :
         /\ Moved(h, p, i, f, n, c)
         /\ \/ p = "idle" /\ op[h].id \notin DOMAIN agents
            \/ /\ p = "write" /\ i = op[h].id /\ f = op[h].from
               /\ op[h].id \in DOMAIN agents /\ c = agents[op[h].id]
    BY CopyMoves, DoneIs DEF Copy
<1>10. Types'
    BY <1>1, <1>2 DEF Types, Moved, Given, Ids
<1>11. Lineages'
    BY <1>1 DEF Lineages, Ids
<1>12. Down'
    BY <1>1, <1>2 DEF Down
<1>13. Operations'
    BY <1>1, <1>2 DEF Operations, Operation, Moved, Given, Entering, Leaving, Types
<1>14. OneHandler'
    BY <1>1, <1>2 DEF OneHandler, Operations, Operation, Moved, Entering, Clean
<1>15. Reliances'
    BY <1>1, <1>2 DEF Reliances, Reliance, Moved, Holding, Clean, Ids
<1>16. Found'
    BY <1>1 DEF Found, Clean
<1>17. Leads'
    BY <1>1, <1>2 DEF Leads, Clean, Moved
<1>18. OneAgent'
    BY <1>1, <1>2 DEF OneAgent, Sound, Entering, Leaving, Moved
<1>19. Counts'
    BY <1>1, <1>2 DEF Counts, Counting, Restarts, Sound, Entering, Leaving, Moved, Ids
<1>20. Owner'
    BY <1>1, <1>2 DEF Owner, Sound, Entering, Moved
<1>21. Written'
    BY <1>1, <1>2 DEF Written, Moved, Clean
<1>22. Orphans'
    BY <1>1, <1>2 DEF Orphans, Sound, Moved, Leaving
<1>23. KilledStays'
    BY <1>1 DEF KilledStays, Clean
<1>24. Rowids'
    BY <1>1 DEF Rowids
<1> QED
    BY <1>10, <1>11, <1>12, <1>13, <1>14, <1>15, <1>16, <1>17, <1>18, <1>19, <1>20, <1>21,
       <1>22, <1>23, <1>24

(* The copy written is still the entry, unless the lineage is excused.     *)
LEMMA WriteKeeps ==
    ASSUME Inv, NEW h \in Handlers, Write(h)
    PROVE  Inv'
<1> USE DEF Inv
<1>1. /\ UNCHANGED <<up, agents, index, restarts, cron, cronFile>>
      /\ UNCHANGED <<nextId, root, count, stale, killed>>
      /\ up /\ op[h].pc = "write"
    BY DEF Write, memory, disk, bounds, history, At
<1>2. PICK p, i, f, n, c : Moved(h, p, i, f, n, c) /\ p = "idle"
    BY DoneIs DEF Write
<1>3. op[h].id \in Given /\ op[h].copy \in Entries
    BY <1>1 DEF Operations, Operation
<1>4. \/ rows' = rows /\ root[op[h].id] \in excused'
      \/ /\ DOMAIN rows' = DOMAIN rows \cup {op[h].id}
         /\ rows'[op[h].id].name = op[h].copy.name /\ rows'[op[h].id].ver = op[h].copy.ver
         /\ \A a \in DOMAIN rows : a # op[h].id => rows'[a] = rows[a]
    BY UpsertIs, <1>3 DEF Write
<1>5. Rowids' /\ rows' \in [DOMAIN rows' -> RowRecords]
    BY UpsertType, <1>3 DEF Write, Types, Rowids
<1>6. excused \subseteq excused'
    BY DEF Write
<1>7. root[op[h].id] \notin excused =>
         op[h].id \in DOMAIN agents /\ op[h].copy = agents[op[h].id]
    BY <1>1 DEF Reliances, Reliance, Clean, Holding
<1>10. Types'
    BY <1>1, <1>2, <1>3, <1>4, <1>5, <1>7 DEF Types, Moved, Given, Ids
<1>11. Lineages'
    BY <1>1, <1>3, <1>7 DEF Lineages, Ids
<1>12. Down'
    BY <1>1, <1>2, <1>3, <1>7 DEF Down
<1>13. Operations'
    BY <1>1, <1>2, <1>3, <1>7 DEF Operations, Operation, Moved, Given, Entering, Leaving
<1>14. OneHandler'
    BY <1>1, <1>2, <1>3, <1>4, <1>6, <1>7 DEF OneHandler, Operations, Operation, Moved,
       Entering, Clean
<1>15. Reliances'
    BY <1>1, <1>2, <1>3, <1>4, <1>6, <1>7 DEF Reliances, Reliance, Moved, Holding, Clean,
       Ids
<1>16. Found'
    BY <1>1, <1>3, <1>4, <1>6, <1>7 DEF Found, Clean
<1>17. Leads'
    BY <1>1, <1>2, <1>3, <1>4, <1>6, <1>7 DEF Leads, Clean, Moved
<1>18. OneAgent'
    BY <1>1, <1>2, <1>3, <1>4, <1>6, <1>7 DEF OneAgent, Sound, Entering, Leaving, Moved
<1>19. Counts'
    BY <1>1, <1>2, <1>3, <1>4, <1>6, <1>7 DEF Counts, Counting, Restarts, Sound, Entering,
       Leaving, Moved, Ids
<1>20. Owner'
    BY <1>1, <1>2, <1>3, <1>4, <1>6, <1>7 DEF Owner, Sound, Entering, Moved
<1>21. Written'
    BY <1>1, <1>2, <1>3, <1>4, <1>5, <1>6, <1>7 DEF Written, Moved, Clean
<1>22. Orphans'
    BY <1>1, <1>2, <1>3, <1>4, <1>5, <1>6, <1>7 DEF Orphans, Sound, Moved, Leaving
<1>23. KilledStays'
    BY <1>1, <1>3, <1>4, <1>5, <1>6, <1>7 DEF KilledStays, Clean
<1>24. Rowids'
    BY <1>5
<1> QED
    BY <1>10, <1>11, <1>12, <1>13, <1>14, <1>15, <1>16, <1>17, <1>18, <1>19, <1>20, <1>21,
       <1>22, <1>23, <1>24

(* A fresh id begins a lineage of its own.                                 *)
LEMMA SpawnStartKeeps ==
    ASSUME Inv, NEW h \in Handlers, NEW n \in Names, SpawnStart(h, n)
    PROVE  Inv'
<1> USE DEF Inv
<1>1. /\ UNCHANGED <<up, agents, index, restarts, cron, rows, cronFile>>
      /\ UNCHANGED <<root, count, excused, stale, killed>>
      /\ up /\ op[h].pc = "idle"
    BY DEF SpawnStart, memory, disk, bounds, history, At
<1>2. PICK c : Moved(h, "check", nextId, 0, n, c) /\ c \in Entries /\ c.name = n
    <2>1. [name |-> n, ver |-> 0] \in Entries /\ [name |-> n, ver |-> 0].name = n
        BY DEF Entries
    <2> QED BY <2>1, SpawnStartMoves
<1>3. /\ nextId \in Ids /\ nextId' = nextId + 1 /\ nextId' \in 1..(MaxIds + 1)
      /\ Given \subseteq Given' /\ nextId \in Given' /\ nextId \notin Given
      /\ \A a \in Given' : a \in Given \/ a = nextId
    BY ConstantAssumption DEF SpawnStart, Types, Ids, Given, ConstantAssumption
<1>4. nextId \in Nat /\ nextId # 0 /\ nextId \notin DOMAIN agents /\ nextId \notin killed
      /\ nextId \notin DOMAIN restarts
    BY <1>3 DEF Types, Given
<1>5. /\ root[nextId] = nextId /\ count[nextId] = 0
      /\ \A a \in Ids : root[a] = nextId => a = nextId
    BY <1>3 DEF Lineages, Types, Ids
<1>6. \A a \in Given : a \in Ids /\ a # nextId /\ root[a] # nextId
    BY <1>3, <1>5, ConstantAssumption DEF Types, Given, Ids, ConstantAssumption
<1>7. DOMAIN agents \subseteq Given
    BY DEF Types
<1>10. Types'
    BY <1>1, <1>2, <1>3, <1>4, <1>5, <1>6, <1>7 DEF Types, Moved, Given, Ids
<1>11. Lineages'
    BY <1>1, <1>3, <1>4, <1>5, <1>6, <1>7 DEF Lineages, Ids, Types
<1>12. Down'
    BY <1>1, <1>2, <1>4, <1>5, <1>6, <1>7 DEF Down
<1>13. Operations'
    BY <1>1, <1>2, <1>3, <1>4, <1>5, <1>6, <1>7 DEF Operations, Operation, Moved, Given,
       Entering, Leaving
<1>14. OneHandler'
    <2>1. op'[h].pc = "check" /\ op'[h].id = nextId
        BY <1>2 DEF Moved
    <2>2. \A g \in Handlers : g # h =>
             op'[g] = op[g] /\ (op[g].pc # "idle" => op[g].id # nextId /\ root[op[g].id] # nextId)
        BY <1>2, <1>6 DEF Moved, Operations, Operation
    <2> QED BY <1>1, <1>5, <2>1, <2>2 DEF OneHandler, Clean
<1>15. Reliances'
    BY <1>1, <1>2, <1>4, <1>5, <1>6, <1>7 DEF Reliances, Reliance, Moved, Holding, Clean,
       Ids
<1>16. Found'
    BY <1>1, <1>4, <1>5, <1>6, <1>7 DEF Found, Clean
<1>17. Leads'
    BY <1>1, <1>2, <1>4, <1>5, <1>6, <1>7 DEF Leads, Clean, Moved
<1>18. OneAgent'
    <2>1. op'[h].pc = "check" /\ op'[h].id = nextId
        BY <1>2 DEF Moved
    <2>2. \A g \in Handlers : g # h => op'[g] = op[g]
        BY <1>2 DEF Moved
    <2>3. \A a \in DOMAIN agents : root[a] # nextId
        BY <1>6, <1>7
    <2> QED BY <1>1, <1>5, <2>1, <2>2, <2>3 DEF OneAgent, Sound
<1>19. Counts'
    BY <1>1, <1>2, <1>4, <1>5, <1>6, <1>7 DEF Counts, Counting, Restarts, Sound, Entering,
       Leaving, Moved, Ids
<1>20. Owner'
    BY <1>1, <1>2, <1>4, <1>5, <1>6, <1>7 DEF Owner, Sound, Entering, Moved
<1>21. Written'
    BY <1>1, <1>2, <1>4, <1>5, <1>6, <1>7 DEF Written, Moved, Clean
<1>22. Orphans'
    BY <1>1, <1>2, <1>4, <1>5, <1>6, <1>7 DEF Orphans, Sound, Moved, Leaving
<1>23. KilledStays'
    BY <1>1, <1>4, <1>5, <1>6, <1>7 DEF KilledStays, Clean
<1>24. Rowids'
    BY <1>1, <1>4, <1>5, <1>6, <1>7 DEF Rowids
<1> QED
    BY <1>10, <1>11, <1>12, <1>13, <1>14, <1>15, <1>16, <1>17, <1>18, <1>19, <1>20, <1>21,
       <1>22, <1>23, <1>24

(* The entry takes the name reserved for it; the old one is owed to the    *)
(* index.                                                                  *)
LEMMA RenameApplyKeeps ==
    ASSUME Inv, NEW h \in Handlers, RenameApply(h), op[h].id \in DOMAIN agents
    PROVE  Inv'
<1> USE DEF Inv
<1>1. /\ UNCHANGED <<up, index, restarts, cron, rows, cronFile>>
      /\ UNCHANGED <<nextId, root, count, excused, stale, killed>>
      /\ up /\ op[h].pc = "rename"
    BY DEF RenameApply, memory, disk, bounds, history, At
<1>2. /\ Moved(h, op'[h].pc, op[h].id, op[h].from, agents[op[h].id].name, op[h].copy)
      /\ op'[h].pc \in {"old", "copy"}
      /\ agents[op[h].id].name # op[h].name => op'[h].pc = "old"
    BY RenameApplyMoves DEF Moved
<1>3. op[h].id \in Given /\ op[h].name \in Names /\ agents[op[h].id].name \in Names
    BY <1>1 DEF Operations, Operation, Types, Entries
<1>4. /\ DOMAIN agents' = DOMAIN agents /\ agents'[op[h].id].name = op[h].name
      /\ \A b \in DOMAIN agents : b # op[h].id => agents'[b] = agents[b]
      /\ agents' \in [DOMAIN agents' -> Entries]
    BY <1>3 DEF RenameApply, Types, Entries
<1>5. root[op[h].id] \notin excused =>
         /\ op[h].name \in DOMAIN index /\ index[op[h].name] = op[h].id
         /\ agents[op[h].id].name # op[h].name
    BY <1>1 DEF Reliances, Reliance, Clean
<1>10. Types'
    BY <1>1, <1>2, <1>3, <1>4, <1>5 DEF Types, Moved, Given, Ids
<1>11. Lineages'
    BY <1>1, <1>3, <1>5 DEF Lineages, Ids
<1>12. Down'
    BY <1>1, <1>2, <1>3, <1>4, <1>5 DEF Down
<1>13. Operations'
    BY <1>1, <1>2, <1>3, <1>4, <1>5 DEF Operations, Operation, Moved, Given, Entering,
       Leaving
<1>14. OneHandler'
    BY <1>1, <1>2, <1>3, <1>5 DEF OneHandler, Operations, Operation, Moved, Entering, Clean
<1>15. Reliances'
    BY <1>1, <1>2, <1>3, <1>4, <1>5 DEF Reliances, Reliance, Moved, Holding, Clean, Ids,
       OneHandler
<1>16. Found'
    BY <1>1, <1>3, <1>4, <1>5 DEF Found, Clean
<1>17. Leads'
    BY <1>1, <1>2, <1>3, <1>4, <1>5 DEF Leads, Clean, Moved, OneHandler
<1>18. OneAgent'
    BY <1>1, <1>2, <1>3, <1>4, <1>5 DEF OneAgent, Sound, Entering, Leaving, Moved
<1>19. Counts'
    BY <1>1, <1>2, <1>3, <1>4, <1>5 DEF Counts, Counting, Restarts, Sound, Entering,
       Leaving, Moved, Ids
<1>20. Owner'
    BY <1>1, <1>2, <1>3, <1>4, <1>5 DEF Owner, Sound, Entering, Moved
<1>21. Written'
    BY <1>1, <1>2, <1>3, <1>4, <1>5 DEF Written, Moved, Clean
<1>22. Orphans'
    BY <1>1, <1>2, <1>3, <1>4, <1>5 DEF Orphans, Sound, Moved, Leaving
<1>23. KilledStays'
    BY <1>1, <1>3, <1>4, <1>5 DEF KilledStays, Clean
<1>24. Rowids'
    BY <1>1, <1>3, <1>5 DEF Rowids
<1> QED
    BY <1>10, <1>11, <1>12, <1>13, <1>14, <1>15, <1>16, <1>17, <1>18, <1>19, <1>20, <1>21,
       <1>22, <1>23, <1>24

(* The reservation is taken back, or the lineage robbed is excused.        *)
LEMMA RenameBackKeeps ==
    ASSUME Inv, NEW h \in Handlers, RenameApply(h), op[h].id \notin DOMAIN agents
    PROVE  Inv'
<1> USE DEF Inv
<1>1. /\ UNCHANGED <<up, agents, restarts, cron, rows, cronFile>>
      /\ UNCHANGED <<nextId, root, count, stale, killed>>
      /\ up /\ op[h].pc = "rename"
    BY DEF RenameApply, memory, disk, bounds, history, At
<1>2. PICK p, i, f, n, c : Moved(h, p, i, f, n, c) /\ p = "idle"
    BY DoneIs DEF RenameApply
<1>3. /\ DOMAIN index' = DOMAIN index \ {op[h].name}
      /\ \A m \in DOMAIN index : m # op[h].name => index'[m] = index[m]
      /\ index' \in [DOMAIN index' -> Given]
    BY DEF RenameApply, Types, Without
<1>4. /\ excused \subseteq excused'
      /\ op[h].name \in DOMAIN index /\ index[op[h].name] # op[h].id =>
            root[index[op[h].name]] \in excused'
    BY DEF RenameApply, Robbed
<1>10. Types'
    BY <1>1, <1>2, <1>3 DEF Types, Moved, Given, Ids
<1>11. Lineages'
    BY <1>1 DEF Lineages, Ids
<1>12. Down'
    BY <1>1, <1>2, <1>3 DEF Down
<1>13. Operations'
    BY <1>1, <1>2 DEF Operations, Operation, Moved, Given, Entering, Leaving
<1>14. OneHandler'
    BY <1>1, <1>2, <1>4 DEF OneHandler, Operations, Operation, Moved, Entering, Clean
<1>15. Reliances'
    BY <1>1, <1>2, <1>3, <1>4 DEF Reliances, Reliance, Moved, Holding, Clean, Ids,
       OneHandler
<1>16. Found'
    BY <1>1, <1>3, <1>4 DEF Found, Clean
<1>17. Leads'
    BY <1>1, <1>2, <1>3, <1>4 DEF Leads, Clean, Moved
<1>18. OneAgent'
    BY <1>1, <1>2, <1>4 DEF OneAgent, Sound, Entering, Leaving, Moved
<1>19. Counts'
    BY <1>1, <1>2, <1>4 DEF Counts, Counting, Restarts, Sound, Entering, Leaving, Moved, Ids
<1>20. Owner'
    BY <1>1, <1>2, <1>4 DEF Owner, Sound, Entering, Moved
<1>21. Written'
    BY <1>1, <1>2, <1>4 DEF Written, Moved, Clean
<1>22. Orphans'
    BY <1>1, <1>2, <1>4 DEF Orphans, Sound, Moved, Leaving
<1>23. KilledStays'
    BY <1>1, <1>4 DEF KilledStays, Clean
<1>24. Rowids'
    BY <1>1 DEF Rowids
<1> QED
    BY <1>10, <1>11, <1>12, <1>13, <1>14, <1>15, <1>16, <1>17, <1>18, <1>19, <1>20, <1>21,
       <1>22, <1>23, <1>24

(* Beyond the limit the agent is gone, and its row belongs to a lineage    *)
(* with restarts.                                                          *)
LEMMA RestartDeniedKeeps ==
    ASSUME Inv, NEW h \in Handlers, RestartRecord(h), Restarts(op[h].id) + 1 > MaxRestarts
    PROVE  Inv'
<1> USE DEF Inv
<1>1. /\ UNCHANGED <<up, agents, index, cron, rows, cronFile>>
      /\ UNCHANGED <<nextId, root, count, excused, stale, killed>>
      /\ up /\ op[h].pc = "stopped"
    BY DEF RestartRecord, Restarts, disk, At
<1>2. op[h].id \in Given /\ op[h].id \notin DOMAIN agents
      /\ op[h].copy \in Entries /\ op[h].copy.name = op[h].name /\ op[h].name \in Names
    BY <1>1 DEF Operations, Operation, Leaving
<1>3. /\ DOMAIN restarts' = DOMAIN restarts \cup {op[h].id}
      /\ restarts'[op[h].id] = Restarts(op[h].id) + 1
      /\ \A a \in DOMAIN restarts : a # op[h].id => restarts'[a] = restarts[a]
      /\ restarts' \in [DOMAIN restarts' -> Nat] /\ Restarts(op[h].id) \in Nat
    BY <1>2 DEF RestartRecord, Restarts, Types, With
<1>4. PICK p, i, f, n, c : Moved(h, p, i, f, n, c) /\ p = "idle"
    BY DoneIs DEF RestartRecord, Restarts
<1>5. root[op[h].id] \notin excused /\ root[op[h].id] \notin stale => count[root[op[h].id]] > 0
    BY <1>1, <1>3, ConstantAssumption DEF Counts, Counting, Sound, ConstantAssumption
<1>10. Types'
    BY <1>1, <1>2, <1>3, <1>4, <1>5 DEF Types, Moved, Given, Ids
<1>11. Lineages'
    BY <1>1, <1>2, <1>5 DEF Lineages, Ids
<1>12. Down'
    BY <1>1, <1>2, <1>4, <1>5 DEF Down
<1>13. Operations'
    BY <1>1, <1>2, <1>4, <1>5 DEF Operations, Operation, Moved, Given, Entering, Leaving
<1>14. OneHandler'
    BY <1>1, <1>2, <1>4, <1>5 DEF OneHandler, Operations, Operation, Moved, Entering, Clean
<1>15. Reliances'
    BY <1>1, <1>2, <1>4, <1>5 DEF Reliances, Reliance, Moved, Holding, Clean, Ids
<1>16. Found'
    BY <1>1, <1>2, <1>5 DEF Found, Clean
<1>17. Leads'
    BY <1>1, <1>2, <1>4, <1>5 DEF Leads, Clean, Moved
<1>18. OneAgent'
    BY <1>1, <1>2, <1>4, <1>5 DEF OneAgent, Sound, Entering, Leaving, Moved
<1>19. Counts'
    BY <1>1, <1>2, <1>3, <1>4, <1>5 DEF Counts, Counting, Restarts, Sound, Entering,
       Leaving, Moved, Ids, OneAgent, OneHandler, Operations, Operation, Clean
<1>20. Owner'
    BY <1>1, <1>2, <1>4, <1>5 DEF Owner, Sound, Entering, Moved
<1>21. Written'
    BY <1>1, <1>2, <1>4, <1>5 DEF Written, Moved, Clean
<1>22. Orphans'
    BY <1>1, <1>2, <1>4, <1>5 DEF Orphans, Sound, Moved, Leaving
<1>23. KilledStays'
    BY <1>1, <1>2, <1>5 DEF KilledStays, Clean
<1>24. Rowids'
    BY <1>1, <1>2, <1>5 DEF Rowids
<1> QED
    BY <1>10, <1>11, <1>12, <1>13, <1>14, <1>15, <1>16, <1>17, <1>18, <1>19, <1>20, <1>21,
       <1>22, <1>23, <1>24

(* The lineage gets an id and a restart more; the count is with the id it  *)
(* comes from.                                                             *)
LEMMA RestartKeeps ==
    ASSUME Inv, NEW h \in Handlers, RestartRecord(h), ~ (Restarts(op[h].id) + 1 > MaxRestarts)
    PROVE  Inv'
<1> USE DEF Inv
<1>1. /\ UNCHANGED <<up, agents, index, cron, rows, cronFile, excused, stale, killed>>
      /\ up /\ op[h].pc = "stopped"
    BY DEF RestartRecord, disk, At
<1>2. op[h].id \in Given /\ op[h].id \notin DOMAIN agents
      /\ op[h].copy \in Entries /\ op[h].copy.name = op[h].name /\ op[h].name \in Names
    BY <1>1 DEF Operations, Operation, Leaving
<1>3. /\ DOMAIN restarts' = DOMAIN restarts \cup {op[h].id}
      /\ restarts'[op[h].id] = Restarts(op[h].id) + 1
      /\ \A a \in DOMAIN restarts : a # op[h].id => restarts'[a] = restarts[a]
      /\ restarts' \in [DOMAIN restarts' -> Nat] /\ Restarts(op[h].id) \in Nat
    BY <1>2 DEF RestartRecord, Restarts, Types, With
<1>4. Moved(h, "check", nextId, op[h].id, op[h].name, op[h].copy)
    BY RestartRecordMoves
<1>5. /\ nextId \in Ids /\ nextId' = nextId + 1 /\ nextId' \in 1..(MaxIds + 1)
      /\ Given \subseteq Given' /\ nextId \in Given' /\ nextId \notin Given
      /\ \A a \in Given : a \in Ids
    <2>1. nextId <= MaxIds /\ nextId' = nextId + 1
        BY DEF RestartRecord, Restarts
    <2> QED BY <2>1, ConstantAssumption DEF Types, Ids, Given, ConstantAssumption
<1>6. /\ root' \in [Ids -> Ids] /\ count' \in [Ids -> Nat]
      /\ root'[nextId] = root[op[h].id] /\ \A a \in Ids : a # nextId => root'[a] = root[a]
      /\ count'[root[op[h].id]] = count[root[op[h].id]] + 1
      /\ \A r \in Ids : r # root[op[h].id] => count'[r] = count[r]
    <2>1. /\ root' = [root EXCEPT ![nextId] = root[op[h].id]]
          /\ count' = [count EXCEPT ![root[op[h].id]] = @ + 1]
        BY DEF RestartRecord, Restarts
    <2> QED BY <1>2, <1>5, <2>1 DEF Types
<1>7. /\ \A a \in Given : root'[a] = root[a] /\ root[a] \in Ids /\ root[a] # nextId
      /\ \A g \in Handlers : op[g].pc # "idle" => op[g].id \in Given
      /\ DOMAIN agents \subseteq Given /\ DOMAIN rows \subseteq Given /\ killed \subseteq Given
      /\ \A n \in DOMAIN index : index[n] \in Given
      /\ nextId \in Nat /\ nextId # 0
    <2>1. \A a \in Given : root[a] \in Ids /\ root[a] # nextId
        BY <1>5 DEF Lineages, Types, Given, Ids
    <2> QED BY <1>5, <1>6, <2>1 DEF Types, Operations, Operation, Given
<1>8. cron # 0 => cron \in Given
    BY DEF Types, Given
<1>9. /\ root[op[h].id] \in Ids
      /\ count[root[op[h].id]] \in Nat /\ count'[root[op[h].id]] > 0
      /\ root[op[h].id] < nextId
    BY <1>2, <1>5, <1>6 DEF Types, Lineages, Given
<1>10. Types'
    <2>1. cron' \in 0..(nextId' - 1) /\ cronFile' \in 0..(nextId' - 1)
        BY <1>1, <1>5 DEF Types
    <2> QED BY <1>1, <1>2, <1>3, <1>4, <1>5, <1>6, <2>1 DEF Types, Moved
<1>11. Lineages'
    <2> SUFFICES ASSUME NEW a \in Ids
                 PROVE  IF a < nextId' THEN root'[a] < nextId' ELSE root'[a] = a /\ count'[a] = 0
        BY DEF Lineages, Ids
    <2>1. CASE a = nextId
        BY <1>5, <1>6, <1>9, <2>1 DEF Ids
    <2>2. CASE a # nextId
        BY <1>5, <1>6, <1>9, <2>2 DEF Lineages, Ids
    <2> QED BY <2>1, <2>2
<1>12. Down'
    BY <1>1, <1>2, <1>4, <1>8 DEF Down
<1>13. Operations'
    BY <1>1, <1>2, <1>4, <1>5, <1>6, <1>7, <1>8 DEF Operations, Operation, Moved, Given,
       Entering, Leaving
<1>14. OneHandler'
    <2>1. op'[h].pc = "check" /\ op'[h].id = nextId /\ root'[nextId] = root[op[h].id]
        BY <1>4, <1>6 DEF Moved
    <2>2. \A g \in Handlers : g # h =>
             /\ op'[g] = op[g]
             /\ op[g].pc # "idle" => op[g].id # nextId /\ root'[op[g].id] = root[op[g].id]
        BY <1>4, <1>5, <1>7 DEF Moved
    <2> QED BY <1>1, <2>1, <2>2 DEF OneHandler, Clean
<1>15. Reliances'
    <2>1. \A g \in Handlers : g # h => op'[g] = op[g]
        BY <1>4 DEF Moved
    <2>2. op'[h].pc = "check" /\ op'[h].from # 0
        BY <1>2, <1>4 DEF Moved, Given
    <2>3. Reliance(h)'
        BY <2>2 DEF Reliance, Holding
    <2>4. ASSUME NEW g \in Handlers, g # h
          PROVE  Reliance(g)'
        <3> SUFFICES ASSUME op'[g].pc # "idle", Clean(op[g].id)'
                     PROVE  Reliance(g)'
            BY DEF Reliance
        <3>1. op'[g] = op[g] /\ op[g].pc # "idle" /\ op[g].id \in Given
            BY <1>7, <2>1, <2>4
        <3>2. Clean(op[g].id) /\ root'[op[g].id] = root[op[g].id]
            BY <1>1, <1>7, <3>1 DEF Clean
        <3>3. root'[nextId] # root[op[g].id]
            BY <1>1, <1>6, <2>4, <3>1, <3>2 DEF OneHandler, Clean
        <3>4. \A b \in Ids : root'[b] = root'[op[g].id] => root[b] = root[op[g].id]
            BY <1>6, <3>2, <3>3
        <3>5. Reliance(g)
            BY DEF Reliances
        <3> QED BY <1>1, <3>1, <3>2, <3>4, <3>5 DEF Reliance, Ids
    <2> QED BY <2>3, <2>4 DEF Reliances
<1>16. Found'
    BY <1>1, <1>2, <1>6, <1>7, <1>8 DEF Found, Clean
<1>17. Leads'
    BY <1>1, <1>2, <1>4, <1>6, <1>7, <1>8 DEF Leads, Clean, Moved
<1>18. OneAgent'
    BY <1>1, <1>2, <1>4, <1>6, <1>7, <1>8 DEF OneAgent, Sound, Entering, Leaving, Moved
<1>19. Counts'
    <2>1. \A g \in Handlers : g # h => op'[g] = op[g]
        BY <1>4 DEF Moved
    <2>2. op'[h].pc = "check" /\ op'[h].id = nextId /\ op'[h].from = op[h].id
        BY <1>4 DEF Moved
    <2>3. Sound(op[h].id) => count[root[op[h].id]] = Restarts(op[h].id)
        BY <1>1 DEF Counts, Counting
    <2>4. \A r \in Ids : r \notin excused' /\ r \notin stale' => count'[r] <= MaxRestarts
        <3> SUFFICES ASSUME NEW r \in Ids, r \notin excused, r \notin stale
                     PROVE  count'[r] <= MaxRestarts
            BY <1>1
        <3>1. CASE r = root[op[h].id]
            BY <1>3, <1>6, <2>3, <3>1, ConstantAssumption DEF Sound, ConstantAssumption
        <3>2. CASE r # root[op[h].id]
            BY <1>6, <3>2 DEF Counts
        <3> QED BY <3>1, <3>2
    <2>5. \A a \in DOMAIN agents' : Sound(a)' =>
             \/ count'[root'[a]] = Restarts(a)'
             \/ \E g \in Handlers :
                   op'[g].id = a /\ op'[g].from # 0 /\ op'[g].pc \in {"save", "carry"}
        <3> SUFFICES ASSUME NEW a \in DOMAIN agents, Sound(a)
                     PROVE  \/ count'[root[a]] = Restarts(a)'
                            \/ \E g \in Handlers : /\ op'[g].id = a /\ op'[g].from # 0
                                                   /\ op'[g].pc \in {"save", "carry"}
            BY <1>1, <1>7 DEF Sound
        <3>1. root[a] # root[op[h].id] /\ a # op[h].id
            BY <1>1 DEF OneAgent, Leaving
        <3>2. count'[root[a]] = count[root[a]] /\ Restarts(a)' = Restarts(a)
            BY <1>3, <1>6, <1>7, <3>1 DEF Restarts
        <3>3. \A g \in Handlers : op[g].pc \in {"save", "carry"} => op'[g] = op[g]
            BY <1>1, <2>1
        <3> QED BY <3>2, <3>3 DEF Counts
    <2>6. ASSUME NEW g \in Handlers, g # h
          PROVE  Counting(g)'
        <3> SUFFICES ASSUME op'[g].pc # "idle", Sound(op[g].id)'
                     PROVE  Counting(g)'
            BY DEF Counting
        <3>1. op'[g] = op[g] /\ op[g].pc # "idle" /\ op[g].id \in Given
            BY <1>7, <2>1, <2>6
        <3>2. Sound(op[g].id) /\ root'[op[g].id] = root[op[g].id]
            BY <1>1, <1>7, <3>1 DEF Sound
        <3>3. root[op[g].id] # root[op[h].id]
            BY <1>1, <2>6, <3>1, <3>2 DEF OneHandler, Clean, Sound
        <3>4. op[g].from # 0 => op[g].from # op[h].id
            BY <3>1, <3>3 DEF Operations, Operation
        <3>5. count'[root[op[g].id]] = count[root[op[g].id]] /\ op[g].id # op[h].id
            BY <1>6, <1>7, <3>1, <3>3
        <3>6. Counting(g)
            BY DEF Counts
        <3> QED BY <1>3, <3>1, <3>2, <3>4, <3>5, <3>6 DEF Counting, Restarts
    <2>7. Counting(h)'
        <3>1. op[h].id # 0
            BY <1>2 DEF Given
        <3>2. Sound(op[h].id)' => Sound(op[h].id)
            BY <1>1, <1>6, <2>2 DEF Sound
        <3> QED BY <1>3, <1>6, <2>2, <2>3, <3>1, <3>2 DEF Counting
    <2>8. \A g \in Handlers : Counting(g)'
        BY <2>6, <2>7
    <2> QED BY <2>4, <2>5, <2>8 DEF Counts
<1>20. Owner'
    BY <1>1, <1>2, <1>4, <1>6, <1>7, <1>8 DEF Owner, Sound, Entering, Moved
<1>21. Written'
    BY <1>1, <1>2, <1>4, <1>6, <1>7, <1>8 DEF Written, Moved, Clean
<1>22. Orphans'
    BY <1>1, <1>2, <1>4, <1>6, <1>7, <1>8, <1>9 DEF Orphans, Sound, Moved, Leaving, Types
<1>23. KilledStays'
    BY <1>1, <1>2, <1>6, <1>7, <1>8 DEF KilledStays, Clean
<1>24. Rowids'
    BY <1>1, <1>2, <1>8 DEF Rowids
<1> QED
    BY <1>10, <1>11, <1>12, <1>13, <1>14, <1>15, <1>16, <1>17, <1>18, <1>19, <1>20, <1>21,
       <1>22, <1>23, <1>24

-----------------------------------------------------------------------------
(* So do the steps of the daemon.                                          *)

(* The job goes to the one agent of its lineage.                           *)
LEMMA AddCronKeeps ==
    ASSUME Inv, NEW a \in Ids, AddCron(a)
    PROVE  Inv'
<1> USE DEF Inv
<1>1. /\ UNCHANGED <<up, agents, index, restarts, rows, op>>
      /\ UNCHANGED <<nextId, root, count, stale, killed>>
      /\ a \in DOMAIN agents /\ cron' = a /\ cronFile' = a
    BY DEF AddCron, bounds
<1>2. excused \subseteq excused' /\ a \in Given
    BY <1>1 DEF AddCron, Types
<1>3. \A g \in Handlers : op[g].pc # "idle" /\ root[op[g].id] = root[a] => root[a] \in excused'
    <2> SUFFICES ASSUME NEW g \in Handlers, op[g].pc # "idle", root[op[g].id] = root[a]
                 PROVE  root[a] \in excused'
        OBVIOUS
    <2>1. op[g].id # 0
        BY DEF Operations, Operation, Given, Types
    <2>2. Busy(g, a)
        BY <2>1 DEF Busy
    <2> QED BY <2>2 DEF AddCron
<1>10. Types'
    BY <1>1 DEF Types, Given, Ids, AddCron
<1>11. Lineages'
    BY <1>1 DEF Lineages, Ids
<1>12. Down'
    BY <1>1 DEF Down, AddCron
<1>13. Operations'
    BY <1>1 DEF Operations, Operation, Given, Entering, Leaving
<1>14. OneHandler'
    BY <1>1, <1>2, <1>3 DEF OneHandler, Operations, Operation, Entering, Clean
<1>15. Reliances'
    BY <1>1, <1>2, <1>3 DEF Reliances, Reliance, Holding, Clean, Ids
<1>16. Found'
    BY <1>1, <1>2, <1>3 DEF Found, Clean
<1>17. Leads'
    BY <1>1, <1>2, <1>3 DEF Leads, Clean
<1>18. OneAgent'
    BY <1>1, <1>2, <1>3 DEF OneAgent, Sound, Entering, Leaving
<1>19. Counts'
    BY <1>1, <1>2, <1>3 DEF Counts, Counting, Restarts, Sound, Entering, Leaving, Ids
<1>20. Owner'
    BY <1>1, <1>2, <1>3 DEF Owner, Sound, Entering, OneAgent
<1>21. Written'
    BY <1>1, <1>2, <1>3 DEF Written, Clean
<1>22. Orphans'
    BY <1>1, <1>2, <1>3 DEF Orphans, Sound, Leaving
<1>23. KilledStays'
    BY <1>1, <1>2, <1>3 DEF KilledStays, Clean
<1>24. Rowids'
    BY <1>1 DEF Rowids
<1> QED
    BY <1>10, <1>11, <1>12, <1>13, <1>14, <1>15, <1>16, <1>17, <1>18, <1>19, <1>20, <1>21,
       <1>22, <1>23, <1>24

(* Nothing in memory is left.                                              *)
LEMMA CrashKeeps ==
    ASSUME Inv, Crash
    PROVE  Inv'
<1> USE DEF Inv
<1>1. /\ UNCHANGED <<nextId, root, count, stale, killed>>
      /\ ~up' /\ cron' = 0 /\ excused \subseteq excused'
      /\ \A h \in Handlers : op'[h].pc = "idle"
      /\ op' \in [Handlers -> OpRecords]
    BY IdleIs DEF Stop, bounds, Crash
<1>2. /\ DOMAIN agents' = {} /\ DOMAIN index' = {} /\ DOMAIN restarts' = {}
      /\ agents' \in [DOMAIN agents' -> Entries]
      /\ index' \in [DOMAIN index' -> Given]
      /\ restarts' \in [DOMAIN restarts' -> Nat]
    BY DEF Stop, Crash
<1>3. rows' = rows /\ cronFile' = cronFile
    BY DEF Crash, disk
<1>10. Types'
    BY <1>1, <1>2, <1>3 DEF Types, Given, Ids
<1>11. Lineages'
    BY <1>1 DEF Lineages, Ids
<1>12. Down'
    BY <1>1, <1>2 DEF Down
<1>13. Operations'
    BY <1>1, <1>2 DEF Operations, Operation, Given, Entering, Leaving
<1>14. OneHandler'
    BY <1>1 DEF OneHandler, Operations, Operation, Entering, Clean
<1>15. Reliances'
    BY <1>1, <1>2 DEF Reliances, Reliance, Holding, Clean, Ids
<1>16. Found'
    BY <1>1, <1>2 DEF Found, Clean
<1>17. Leads'
    BY <1>1, <1>2 DEF Leads, Clean
<1>18. OneAgent'
    BY <1>1, <1>2 DEF OneAgent, Sound, Entering, Leaving
<1>19. Counts'
    BY <1>1, <1>2 DEF Counts, Counting, Restarts, Sound, Entering, Leaving, Ids
<1>20. Owner'
    BY <1>1, <1>2 DEF Owner, Sound, Entering
<1>21. Written'
    BY <1>1, <1>2, <1>3 DEF Written, Clean
<1>22. Orphans'
    BY <1>1, <1>2, <1>3 DEF Orphans, Sound, Leaving
<1>23. KilledStays'
    BY <1>1, <1>2, <1>3 DEF KilledStays, Clean
<1>24. Rowids'
    BY <1>3 DEF Rowids
<1> QED
    BY <1>10, <1>11, <1>12, <1>13, <1>14, <1>15, <1>16, <1>17, <1>18, <1>19, <1>20, <1>21,
       <1>22, <1>23, <1>24

(* Nothing in memory is left, and the rows are those of the agents.        *)
LEMMA ShutdownKeeps ==
    ASSUME Inv, Shutdown
    PROVE  Inv'
<1> USE DEF Inv
<1>1. /\ UNCHANGED <<nextId, root, count, stale, killed>>
      /\ ~up' /\ cron' = 0 /\ excused \subseteq excused'
      /\ \A h \in Handlers : op'[h].pc = "idle"
      /\ op' \in [Handlers -> OpRecords]
    BY IdleIs DEF Stop, bounds, Shutdown
<1>2. /\ DOMAIN agents' = {} /\ DOMAIN index' = {} /\ DOMAIN restarts' = {}
      /\ agents' \in [DOMAIN agents' -> Entries]
      /\ index' \in [DOMAIN index' -> Given]
      /\ restarts' \in [DOMAIN restarts' -> Nat]
    BY DEF Stop, Shutdown
<1>3. cronFile' = cron
    BY DEF Shutdown
<1>4. /\ DOMAIN rows' = DOMAIN rows \cup DOMAIN agents
      /\ rows' \in [DOMAIN rows' -> RowRecords]
      /\ Rowids'
    BY ShutdownRows
<1>10. Types'
    BY <1>1, <1>2, <1>3, <1>4 DEF Types, Given, Ids
<1>11. Lineages'
    BY <1>1 DEF Lineages, Ids
<1>12. Down'
    BY <1>1, <1>2 DEF Down
<1>13. Operations'
    BY <1>1, <1>2 DEF Operations, Operation, Given, Entering, Leaving
<1>14. OneHandler'
    BY <1>1 DEF OneHandler, Operations, Operation, Entering, Clean
<1>15. Reliances'
    BY <1>1, <1>2 DEF Reliances, Reliance, Holding, Clean, Ids
<1>16. Found'
    BY <1>1, <1>2 DEF Found, Clean
<1>17. Leads'
    BY <1>1, <1>2 DEF Leads, Clean
<1>18. OneAgent'
    BY <1>1, <1>2 DEF OneAgent, Sound, Entering, Leaving
<1>19. Counts'
    BY <1>1, <1>2 DEF Counts, Counting, Restarts, Sound, Entering, Leaving, Ids
<1>20. Owner'
    BY <1>1, <1>2 DEF Owner, Sound, Entering
<1>21. Written'
    BY <1>1, <1>2, <1>4 DEF Written, Clean
<1>22. Orphans'
    BY <1>1, <1>2, <1>4 DEF Orphans, Sound, Leaving
<1>23. KilledStays'
    BY <1>1, <1>2, <1>4 DEF KilledStays, Clean
<1>24. Rowids'
    BY <1>4
<1> QED
    BY <1>10, <1>11, <1>12, <1>13, <1>14, <1>15, <1>16, <1>17, <1>18, <1>19, <1>20, <1>21,
       <1>22, <1>23, <1>24

(* A lineage that is not stale has one id, and its row comes first among   *)
(* those of its name.                                                      *)
LEMMA BootKeeps ==
    ASSUME Inv, Boot
    PROVE  Inv'
<1> USE DEF Inv
<1>1. /\ UNCHANGED <<rows, cronFile, op, nextId, root, excused, killed>>
      /\ cron' = cronFile /\ up'
      /\ \A h \in Handlers : op[h].pc = "idle"
    BY DEF Boot, disk, Down
<1>2. /\ DOMAIN agents' = Restored(rows) /\ Restored(rows) \subseteq DOMAIN rows
      /\ \A a \in Restored(rows) : agents'[a].name = rows[a].name /\ agents'[a].ver = rows[a].ver
      /\ agents' \in [DOMAIN agents' -> Entries]
      /\ \A a \in Restored(rows) : rows[a].name \in Names
    <2>1. \A a \in DOMAIN rows : rows[a].name \in Names /\ rows[a].ver \in Nat
        BY DEF Types, RowRecords
    <2>2. Restored(rows) \subseteq DOMAIN rows
        BY DEF Restored
    <2>3. agents' = [a \in Restored(rows) |-> [name |-> rows[a].name, ver |-> rows[a].ver]]
        BY DEF Boot
    <2>4. \A a \in Restored(rows) : [name |-> rows[a].name, ver |-> rows[a].ver] \in Entries
        BY <2>1, <2>2 DEF Entries
    <2> QED BY <2>1, <2>2, <2>3, <2>4
<1>3. \A a, b \in Restored(rows) : Lower[rows[a].name] = Lower[rows[b].name] => a = b
    <2>1. \A a \in DOMAIN rows : rows[a].rowid \in Nat
        BY DEF Types, RowRecords
    <2> QED BY <2>1 DEF Restored, Rowids
<1>4. /\ \A a \in Restored(rows) : rows[a].name \in DOMAIN index' /\ index'[rows[a].name] = a
      /\ \A n \in DOMAIN index' : index'[n] \in Restored(rows) /\ rows[index'[n]].name = n
      /\ DOMAIN index' \subseteq Names /\ index' \in [DOMAIN index' -> Given]
    <2>1. index' = [n \in {rows[a].name : a \in Restored(rows)} |->
                      CHOOSE a \in Restored(rows) : rows[a].name = n]
        BY DEF Boot
    <2>2. DOMAIN index' = {rows[a].name : a \in Restored(rows)}
        BY <2>1
    <2>3. \A n \in DOMAIN index' : index'[n] = CHOOSE a \in Restored(rows) : rows[a].name = n
        BY <2>1, <2>2
    <2>4. \A n \in DOMAIN index' : index'[n] \in Restored(rows) /\ rows[index'[n]].name = n
        BY <2>2, <2>3
    <2>5. \A a \in Restored(rows) : rows[a].name \in DOMAIN index' /\ index'[rows[a].name] = a
        BY <1>3, <2>2, <2>4
    <2>6. \A n \in DOMAIN index' : index'[n] \in Given /\ n \in Names
        BY <1>2, <2>4 DEF Types
    <2> QED BY <2>1, <2>2, <2>4, <2>5, <2>6
<1>5. /\ DOMAIN restarts' = {} /\ restarts' \in [DOMAIN restarts' -> Nat]
      /\ count' \in [Ids -> Nat] /\ \A a \in Ids : count'[a] = 0
    BY DEF Boot
<1>6. /\ stale \subseteq stale'
      /\ \A a \in Ids : root[a] \notin stale' => root[a] = a
      /\ \A a \in DOMAIN rows : a \notin Restored(rows) => root[a] \in stale'
    <2>1. \A a \in Ids : root[a] # a => root[a] \in stale'
        BY DEF Boot
    <2>2. \A a \in Shadowed(rows) : root[a] \in stale'
        BY DEF Boot
    <2>3. \A a \in DOMAIN rows : rows[a].rowid \in Nat
        BY DEF Types, RowRecords
    <2>4. \A a \in DOMAIN rows : a \notin Restored(rows) => a \in Shadowed(rows)
        BY <2>3 DEF Restored, Shadowed
    <2> QED BY <2>1, <2>2, <2>4 DEF Boot
<1>7. /\ DOMAIN rows \subseteq Given /\ \A a \in Given : a \in Ids /\ root[a] \in Ids
      /\ cronFile # 0 => cronFile \in Given
    BY ConstantAssumption DEF Types, Given, Ids, ConstantAssumption
<1>10. Types'
    BY <1>1, <1>2, <1>3, <1>4, <1>5, <1>7 DEF Types, Given, Ids
<1>11. Lineages'
    BY <1>1, <1>3, <1>5, <1>7 DEF Lineages, Ids
<1>12. Down'
    BY <1>1, <1>2, <1>3, <1>4, <1>7 DEF Down
<1>13. Operations'
    BY <1>1, <1>2, <1>3, <1>7 DEF Operations, Operation, Given, Entering, Leaving
<1>14. OneHandler'
    BY <1>1, <1>3, <1>7 DEF OneHandler, Operations, Operation, Entering, Clean
<1>15. Reliances'
    BY <1>1, <1>2, <1>3, <1>4, <1>7 DEF Reliances, Reliance, Holding, Clean, Ids
<1>16. Found'
    BY <1>1, <1>2, <1>3, <1>4, <1>7 DEF Found, Clean
<1>17. Leads'
    BY <1>1, <1>2, <1>3, <1>4, <1>7 DEF Leads, Clean
<1>18. OneAgent'
    BY <1>1, <1>2, <1>3, <1>6, <1>7 DEF OneAgent, Sound, Entering, Leaving
<1>19. Counts'
    <2>1. MaxRestarts \in Nat
        BY ConstantAssumption DEF ConstantAssumption
    <2>2. \A r \in Ids : count'[r] <= MaxRestarts
        BY <1>5, <2>1
    <2>3. \A a \in DOMAIN agents' : count'[root'[a]] = 0 /\ Restarts(a)' = 0
        BY <1>1, <1>2, <1>5, <1>7 DEF Restarts
    <2>4. \A h \in Handlers : Counting(h)'
        BY <1>1 DEF Counting
    <2> QED BY <2>2, <2>3, <2>4 DEF Counts
<1>20. Owner'
    BY <1>1, <1>2, <1>3, <1>6, <1>7 DEF Owner, Sound, Entering
<1>21. Written'
    BY <1>1, <1>2, <1>3, <1>7 DEF Written, Clean
<1>22. Orphans'
    BY <1>1, <1>2, <1>3, <1>5, <1>6, <1>7 DEF Orphans, Sound, Leaving
<1>23. KilledStays'
    BY <1>1, <1>2, <1>3, <1>7 DEF KilledStays, Clean
<1>24. Rowids'
    BY <1>1, <1>3, <1>7 DEF Rowids
<1> QED
    BY <1>10, <1>11, <1>12, <1>13, <1>14, <1>15, <1>16, <1>17, <1>18, <1>19, <1>20, <1>21,
       <1>22, <1>23, <1>24

-----------------------------------------------------------------------------
(* The invariant holds at the first start.                                 *)
LEMMA InitInv ==
    ASSUME Init
    PROVE  Inv
<1>1. /\ DOMAIN agents = {} /\ DOMAIN index = {} /\ DOMAIN restarts = {} /\ DOMAIN rows = {}
      /\ agents \in [DOMAIN agents -> Entries] /\ index \in [DOMAIN index -> Given]
      /\ restarts \in [DOMAIN restarts -> Nat] /\ rows \in [DOMAIN rows -> RowRecords]
      /\ up /\ nextId = 1 /\ cron = 0 /\ cronFile = 0
      /\ excused = {} /\ stale = {} /\ killed = {}
    BY DEF Init
<1>2. /\ op \in [Handlers -> OpRecords]
      /\ \A h \in Handlers : op[h].pc = "idle"
    BY IdleIs DEF Init
<1>3. /\ root \in [Ids -> Ids] /\ \A a \in Ids : root[a] = a
      /\ count \in [Ids -> Nat] /\ \A a \in Ids : count[a] = 0
    BY DEF Init
<1>4. MaxIds \in Nat /\ MaxRestarts \in Nat
    BY ConstantAssumption DEF ConstantAssumption
<1>5. Types
    BY <1>1, <1>2, <1>3, <1>4 DEF Types
<1>6. Lineages /\ Down
    BY <1>1, <1>2, <1>3 DEF Lineages, Down, Ids
<1>7. Operations /\ OneHandler /\ Reliances
    BY <1>2 DEF Operations, Operation, OneHandler, Reliances, Reliance
<1>8. Found /\ Leads /\ Owner /\ Written /\ Orphans /\ KilledStays
    BY <1>1 DEF Found, Leads, Owner, Written, Orphans, KilledStays
<1>9. OneAgent
    BY <1>1 DEF OneAgent
<1>10. Counts
    BY <1>1, <1>2, <1>3, <1>4 DEF Counts, Counting
<1>11. Rowids
    BY <1>1 DEF Rowids
<1> QED BY <1>5, <1>6, <1>7, <1>8, <1>9, <1>10, <1>11 DEF Inv

(* Every step keeps the invariant.                                         *)
LEMMA NextInv ==
    ASSUME Inv, [Next]_vars
    PROVE  Inv'
<1>1. ASSUME NEW h \in Handlers, NEW n \in Names, SpawnStart(h, n) PROVE Inv'
    BY <1>1, SpawnStartKeeps
<1>2. ASSUME NEW h \in Handlers, RegisterCheck(h) PROVE Inv'
    BY <1>2, RegisterCheckKeeps
<1>3. ASSUME NEW h \in Handlers, RegisterInsert(h) PROVE Inv'
    BY <1>3, RegisterInsertKeeps
<1>4. ASSUME NEW h \in Handlers, SpawnSave(h) PROVE Inv'
    BY <1>4, SpawnSaveKeeps
<1>5. ASSUME NEW h \in Handlers, NEW a \in Ids, TakeEntry(h, a, "kill") PROVE Inv'
    BY <1>5, TakeKillKeeps
<1>6. ASSUME NEW h \in Handlers, NEW a \in Ids, TakeEntry(h, a, "restart") PROVE Inv'
    BY <1>6, TakeRestartKeeps
<1>7. ASSUME NEW h \in Handlers, NEW a \in Ids, Edit(h, a) PROVE Inv'
    BY <1>7, EditKeeps
<1>8. ASSUME NEW h \in Handlers, NEW a \in Ids, NEW n \in Names, RenameStart(h, a, n) PROVE Inv'
    BY <1>8, RenameStartKeeps
<1>9. ASSUME NEW h \in Handlers, Unindex(h, "kill", "torn") PROVE Inv'
    BY <1>9, UnindexKillKeeps
<1>10. ASSUME NEW h \in Handlers, RemoveRow(h) PROVE Inv'
    BY <1>10, RemoveRowKeeps
<1>11. ASSUME NEW h \in Handlers, Unindex(h, "restart", "stopped") PROVE Inv'
    BY <1>11, UnindexRestartKeeps
<1>12. ASSUME NEW h \in Handlers, RestartRecord(h) PROVE Inv'
    BY <1>12, RestartDeniedKeeps, RestartKeeps
<1>13. ASSUME NEW h \in Handlers, Carry(h) PROVE Inv'
    BY <1>13, CarryKeeps
<1>14. ASSUME NEW h \in Handlers, Reassign(h) PROVE Inv'
    BY <1>14, ReassignKeeps
<1>15. ASSUME NEW h \in Handlers, RenameApply(h) PROVE Inv'
    BY <1>15, RenameApplyKeeps, RenameBackKeeps
<1>16. ASSUME NEW h \in Handlers, RenameOld(h) PROVE Inv'
    BY <1>16, RenameOldKeeps
<1>17. ASSUME NEW h \in Handlers, Copy(h) PROVE Inv'
    BY <1>17, CopyKeeps
<1>18. ASSUME NEW h \in Handlers, Write(h) PROVE Inv'
    BY <1>18, WriteKeeps
<1>19. ASSUME NEW a \in Ids, AddCron(a) PROVE Inv'
    BY <1>19, AddCronKeeps
<1>20. CASE Shutdown
    BY <1>20, ShutdownKeeps
<1>21. CASE Crash
    BY <1>21, CrashKeeps
<1>22. CASE Boot
    BY <1>22, BootKeeps
<1>23. CASE UNCHANGED vars
    <2>1. /\ UNCHANGED <<up, agents, index, restarts, cron, rows, cronFile, op>>
          /\ UNCHANGED <<nextId, root, count, excused, stale, killed>>
        BY <1>23 DEF vars, memory, disk, bounds, history
    <2>2. Types' /\ Lineages' /\ Down'
        BY <2>1 DEF Inv, Types, Given, Lineages, Down
    <2>3. Operations' /\ OneHandler' /\ Reliances'
        BY <2>1 DEF Inv, Operations, Operation, Given, OneHandler, Clean, Reliances, Reliance
    <2>4. Found' /\ Leads' /\ Written' /\ Orphans'
        BY <2>1 DEF Inv, Found, Leads, Written, Orphans, Clean, Sound
    <2>5. OneAgent' /\ Counts' /\ Owner'
        BY <2>1 DEF Inv, OneAgent, Counts, Counting, Restarts, Owner, Sound
    <2>6. KilledStays' /\ Rowids'
        BY <2>1 DEF Inv, KilledStays, Rowids, Clean
    <2> QED BY <2>2, <2>3, <2>4, <2>5, <2>6 DEF Inv
<1> QED BY <1>1, <1>2, <1>3, <1>4, <1>5, <1>6, <1>7, <1>8, <1>9, <1>10, <1>11, <1>12, <1>13, <1>14,
           <1>15, <1>16, <1>17, <1>18, <1>19, <1>20, <1>21, <1>22, <1>23 DEF Next

(* The invariant holds in every behaviour.                                *)
THEOREM Invariance == Spec => []Inv
    BY InitInv, NextInv, PTL DEF Spec

-----------------------------------------------------------------------------
(* Whenever no handler is at work, an agent of a lineage on which no two   *)
(* operations met is found under its name, and a name leads to the agent   *)
(* that has it (registry.rs): the check and the insertion of register, the *)
(* steps of update_name and the removal leave nothing behind.              *)
THEOREM NamesAreSound == Spec => []NameIndexSound
<1>1. Inv => NameIndexSound
    BY DEF Inv, NameIndexSound, Quiet, Found, Leads, Clean
<1> QED BY <1>1, Invariance, PTL

(* A boot brings back what runs now: rows and registry agree at rest, a    *)
(* row without an agent was left by a restart or stands behind another of  *)
(* its name, upper and lower case being the same to the boot, and the id   *)
(* of a killed agent is not registered again, by an operation or a boot.   *)
THEOREM RowsAreSound == Spec => []RowsMatchRegistry
<1>1. ASSUME Inv, Quiet, NEW a \in Ids, root[a] \notin excused \cup stale
      PROVE  /\ a \in DOMAIN agents => a \in DOMAIN rows /\ rows[a] = Row(agents[a], rows[a].rowid)
             /\ a \in DOMAIN rows \ DOMAIN agents => count[root[a]] > 0
    <2>1. a \in DOMAIN agents =>
             a \in DOMAIN rows /\ rows[a].name = agents[a].name /\ rows[a].ver = agents[a].ver
        BY <1>1 DEF Inv, Written, Quiet, Clean
    <2>2. a \in DOMAIN rows => rows[a] \in RowRecords
        BY <1>1 DEF Inv, Types
    <2>3. \A r \in RowRecords : r = [name |-> r.name, ver |-> r.ver, rowid |-> r.rowid]
        BY DEF RowRecords
    <2>4. a \in DOMAIN agents => a \in DOMAIN rows /\ rows[a] = Row(agents[a], rows[a].rowid)
        BY <2>1, <2>2, <2>3 DEF Row
    <2>5. a \in DOMAIN rows \ DOMAIN agents => count[root[a]] > 0
        BY <1>1 DEF Inv, Orphans, Quiet, Sound, Leaving
    <2> QED BY <2>4, <2>5
<1>2. ASSUME Inv PROVE \A a \in killed \cap DOMAIN agents : root[a] \in excused
    BY <1>2 DEF Inv, KilledStays, Clean
<1>3. Inv => RowsMatchRegistry
    BY <1>1, <1>2 DEF RowsMatchRegistry
<1> QED BY <1>3, Invariance, PTL

(* However restarts, kills, renames and boots interleave, one process      *)
(* restarts a lineage at most MaxRestarts times: the count follows the     *)
(* agent from id to id (carry_agent_restarts).                             *)
THEOREM RestartsAreLimited == Spec => []RestartLimitHolds
<1>1. Inv => RestartLimitHolds
    BY DEF Inv, RestartLimitHolds, Counts, Types
<1> QED BY <1>1, Invariance, PTL

(* The cron job follows its agent from id to id (reassign_agent): no job   *)
(* is left with an id that nobody has while the agent lives under another. *)
THEOREM CronJobsFollow == Spec => []CronFollowsRestart
<1>1. Inv => CronFollowsRestart
    BY DEF Inv, CronFollowsRestart, CronOwnerLives, Quiet, Owner, Sound
<1> QED BY <1>1, Invariance, PTL

=============================================================================
