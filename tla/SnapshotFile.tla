---------------------------- MODULE SnapshotFile ----------------------------
(***************************************************************************)
(* How the kernel keeps a map in a JSON file: every change is followed by  *)
(* a persist() that snapshots the map, writes the snapshot to a temporary  *)
(* file and renames that file over the real one.                           *)
(*                                                                         *)
(*   WorkflowEngine::persist           Locked, UniqueTmp                   *)
(*   WorkflowEngine::persist_blocking  ~Locked, UniqueTmp                  *)
(*   CronScheduler::persist, TriggerEngine::persist  ~Locked, ~UniqueTmp   *)
(*                                                                         *)
(* The calls come from any task of a multi-threaded runtime, so the steps  *)
(* of two persists interleave.  Files are modelled as inodes and the names *)
(* that link to them: a rename moves whatever inode the name has then, and *)
(* a writer keeps writing to the inode it opened.  The version of the map  *)
(* (the number of changes behind it) stands for its content.               *)
(*                                                                         *)
(* FileSpec and the like are named so that a module can extend this one    *)
(* and the engine that keeps the file.                                     *)
(***************************************************************************)
EXTENDS Naturals, FiniteSets

CONSTANTS
    Writers,        \* tasks that change the map
    Inodes,
    Locked,         \* persist_lock is held from the snapshot to the rename
    UniqueTmp,      \* unique_tmp_path instead of one fixed name
    MaxVersion,     \* bound on the version of the map
    None,           \* no inode
    Empty,          \* content of a file just truncated
    Torn,           \* content that is no JSON text
    Json,           \* the name of the real file
    FixedTmp        \* the fixed name `*.json.tmp'

(* A name and an inode for every writer, the real file and a spare one.    *)
ASSUME FileAssumption ==
    /\ IsFiniteSet(Writers) /\ IsFiniteSet(Inodes)
    /\ Cardinality(Inodes) >= Cardinality(Writers) + 2
    /\ Locked \in BOOLEAN /\ UniqueTmp \in BOOLEAN
    /\ MaxVersion \in Nat
    /\ None \notin Inodes \cup Writers
    /\ Empty \notin Nat /\ Torn \notin Nat
    /\ Json # FixedTmp /\ {Json, FixedTmp} \cap Writers = {}

VARIABLES
    mem,        \* version of the map in memory
    pc,         \* where each writer stands
    snap,       \* the snapshot it took
    fd,         \* the inode it has open
    lock,       \* holder of persist_lock
    dir,        \* name -> inode
    data        \* inode -> version, or what is no JSON

fileVars == <<mem, pc, snap, fd, lock, dir, data>>

Names == Writers \cup {Json, FixedTmp}
Versions == 0..MaxVersion

(* unique_tmp_path: no two writers share a name, and (through the process  *)
(* id) no two processes do.                                                *)
TmpOf(w) == IF UniqueTmp THEN w ELSE FixedTmp

(* What a reader of the file finds; a missing file is the empty map.       *)
Disk == IF dir[Json] = None THEN 0 ELSE data[dir[Json]]

(* The constructors: a file that does not parse starts an empty map.       *)
Loaded == IF Disk \in Versions THEN Disk ELSE 0

FileInit ==
    /\ mem = 0
    /\ pc = [w \in Writers |-> "idle"]
    /\ snap = [w \in Writers |-> 0]
    /\ fd = [w \in Writers |-> None]
    /\ lock = None
    /\ dir = [n \in Names |-> None]
    /\ data = [i \in Inodes |-> Empty]

(* register, remove_workflow, add_job, ...: the map changes under its own  *)
(* lock, persist() follows.                                                *)
Mutate(w) ==
    /\ pc[w] = "idle"
    /\ mem < MaxVersion
    /\ mem' = mem + 1
    /\ pc' = [pc EXCEPT ![w] = "want"]
    /\ UNCHANGED <<snap, fd, lock, dir, data>>

Acquire_LockForgotten(w) ==
    /\ pc[w] = "want"
    /\ pc' = [pc EXCEPT ![w] = "holds"]
    /\ UNCHANGED <<mem, snap, fd, lock, dir, data>>

(* persist_lock.lock().await, where there is a lock.                       *)
Acquire(w) ==
    /\ pc[w] = "want"
    /\ Locked => lock = None
    /\ lock' = IF Locked THEN w ELSE lock
    /\ pc' = [pc EXCEPT ![w] = "holds"]
    /\ UNCHANGED <<mem, snap, fd, dir, data>>

Release(w) == IF lock = w THEN None ELSE lock

(* An async persist is dropped while it waits for one of its two locks     *)
(* (the client of the handler hung up).  The map stays changed.            *)
Cancel(w) ==
    /\ Locked
    /\ pc[w] \in {"want", "holds"}
    /\ pc' = [pc EXCEPT ![w] = "idle"]
    /\ lock' = Release(w)
    /\ UNCHANGED <<mem, snap, fd, dir, data>>

(* values().cloned().collect(), to_string_pretty.                          *)
Snapshot(w) ==
    /\ pc[w] = "holds"
    /\ snap' = [snap EXCEPT ![w] = mem]
    /\ pc' = [pc EXCEPT ![w] = "snapped"]
    /\ UNCHANGED <<mem, fd, lock, dir, data>>

Free(i) == (\A n \in Names : dir[n] # i) /\ (\A w \in Writers : fd[w] # i)

(* fs::write opens with O_CREAT | O_TRUNC: a new inode, or the one that    *)
(* already has the name, emptied.                                          *)
OpenTmp(w) ==
    /\ pc[w] = "snapped"
    /\ \E i \in Inodes :
          /\ IF dir[TmpOf(w)] = None THEN Free(i) ELSE i = dir[TmpOf(w)]
          /\ fd' = [fd EXCEPT ![w] = i]
          /\ dir' = [dir EXCEPT ![TmpOf(w)] = i]
          /\ data' = [data EXCEPT ![i] = Empty]
    /\ pc' = [pc EXCEPT ![w] = "open"]
    /\ UNCHANGED <<mem, snap, lock>>

(* A write from offset 0 over what another descriptor wrote leaves the     *)
(* tail of the longer text.                                                *)
Overlay(old, new) == IF old \in {Empty, new} THEN {new} ELSE {new, Torn}

WriteData(w) ==
    /\ pc[w] = "open"
    /\ \E c \in Overlay(data[fd[w]], snap[w]) : data' = [data EXCEPT ![fd[w]] = c]
    /\ pc' = [pc EXCEPT ![w] = "written"]
    /\ UNCHANGED <<mem, snap, fd, lock, dir>>

(* The workflow engine removes its temporary file after an error, the      *)
(* other two leave it.                                                     *)
CleanUp(w) == IF UniqueTmp THEN [dir EXCEPT ![TmpOf(w)] = None] ELSE dir

WriteFails_GuardKept(w) ==
    /\ pc[w] = "open"
    /\ data' = [data EXCEPT ![fd[w]] = Torn]
    /\ dir' = CleanUp(w)
    /\ pc' = [pc EXCEPT ![w] = "idle"]
    /\ fd' = [fd EXCEPT ![w] = None]
    /\ UNCHANGED <<mem, snap, lock>>

(* fs::write fails part way (a full disk).                                 *)
WriteFails(w) ==
    /\ pc[w] = "open"
    /\ data' = [data EXCEPT ![fd[w]] = Torn]
    /\ dir' = CleanUp(w)
    /\ pc' = [pc EXCEPT ![w] = "idle"]
    /\ fd' = [fd EXCEPT ![w] = None]
    /\ lock' = Release(w)
    /\ UNCHANGED <<mem, snap>>

(* fs::rename: the inode that has the temporary name now gets the real     *)
(* name.  The descriptor was closed at the end of fs::write.               *)
Rename(w) ==
    /\ pc[w] = "written"
    /\ dir[TmpOf(w)] # None
    /\ dir' = [dir EXCEPT ![Json] = dir[TmpOf(w)], ![TmpOf(w)] = None]
    /\ pc' = [pc EXCEPT ![w] = "idle"]
    /\ fd' = [fd EXCEPT ![w] = None]
    /\ lock' = Release(w)
    /\ UNCHANGED <<mem, snap, data>>

(* fs::rename fails: another writer renamed the shared file away, or an    *)
(* I/O error.  Logged, or returned to a caller that logs it.               *)
RenameFails(w) ==
    /\ pc[w] = "written"
    /\ dir' = CleanUp(w)
    /\ pc' = [pc EXCEPT ![w] = "idle"]
    /\ fd' = [fd EXCEPT ![w] = None]
    /\ lock' = Release(w)
    /\ UNCHANGED <<mem, snap, data>>

(* The process dies at any point and the next one loads the file.  Names   *)
(* of unique temporary files are never used again and are forgotten here.  *)
Restart ==
    /\ mem' = Loaded
    /\ pc' = [w \in Writers |-> "idle"]
    /\ fd' = [w \in Writers |-> None]
    /\ lock' = None
    /\ dir' = [n \in Names |-> IF n \in Writers THEN None ELSE dir[n]]
    /\ UNCHANGED <<snap, data>>

PersistStep(w) ==
    \/ Acquire(w) \/ Snapshot(w) \/ OpenTmp(w) \/ WriteData(w) \/ WriteFails(w)
    \/ Rename(w) \/ RenameFails(w)

FileNext ==
    \/ \E w \in Writers : Mutate(w) \/ Cancel(w) \/ PersistStep(w)
    \/ Restart

FileSpec == FileInit /\ [][FileNext]_fileVars

(* A started persist runs on; the tokio mutex serves its queue in order,   *)
(* hence strong fairness.                                                  *)
FileFairness == \A w \in Writers : WF_fileVars(PersistStep(w)) /\ SF_fileVars(Acquire(w))

FairFileSpec == FileSpec /\ FileFairness

-----------------------------------------------------------------------------
(* Type invariant.                                                         *)
FileTypeOK ==
    /\ mem \in Versions
    /\ pc \in [Writers -> {"idle", "want", "holds", "snapped", "open", "written"}]
    /\ snap \in [Writers -> Versions]
    /\ fd \in [Writers -> Inodes \cup {None}]
    /\ lock \in Writers \cup {None}
    /\ dir \in [Names -> Inodes \cup {None}]
    /\ data \in [Inodes -> Versions \cup {Empty, Torn}]

(* The promise of "atomic write (write to `.tmp`, then rename)" (cron.rs)  *)
(* and of "atomic .tmp + rename" (workflow.rs): a reader of the file, at   *)
(* boot or while writers run, finds a whole version of the map.            *)
FileReadable == Disk \in Versions

(* The file follows the map: it holds only versions that were current, in  *)
(* order, and a restart resumes from it ("the last committed snapshot      *)
(* always lands on disk (no lost update)", workflow.rs).                   *)
Promise == INSTANCE DurableMap WITH disk <- Disk
ImplementsDurableMap == Promise!Spec

(* Every persist ends, whatever fails in another one: persist_lock is      *)
(* given back on every path.                                               *)
PersistEnds == \A w \in Writers : pc[w] = "want" ~> pc[w] = "idle"

=============================================================================
