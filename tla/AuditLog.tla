------------------------------ MODULE AuditLog ------------------------------
(***************************************************************************)
(* The audit trail (runtime/src/audit.rs): a hash chain in memory, each    *)
(* entry also written as a line through a BufWriter to a file that is      *)
(* replayed when the daemon starts.                                        *)
(*                                                                         *)
(* An entry is its number and the number of its predecessor: equal hashes  *)
(* are equal entries, and 0 is the genesis hash.  The file is a sequence   *)
(* of pieces, two for the JSON of an entry and one for its newline; a      *)
(* write may stop after any piece.  record() holds the locks throughout,   *)
(* so it is one action.                                                    *)
(***************************************************************************)
EXTENDS Naturals, Sequences, FiniteSets, SequencesExt

CONSTANTS
    Capacity,       \* pieces the BufWriter holds
    MaxRecords,     \* bound: entries recorded
    MaxFaults,      \* bound: writes that stop short
    MaxBoots        \* bound: restarts of the daemon

VARIABLES
    entries,    \* the chain in memory
    file,       \* pieces in the file
    buf,        \* pieces in the BufWriter
    recorded,   \* entries recorded so far
    faults, boots,
    damaged     \* history: a line was dropped or cut off

vars == <<entries, file, buf, recorded, faults, boots, damaged>>

Entry(i, p) == [id |-> i, prev |-> p]
Body(e) == <<[e |-> e, part |-> "head"], [e |-> e, part |-> "tail"]>>
Newline(e) == <<[e |-> e, part |-> "newline"]>>
Tip(es) == IF es = <<>> THEN 0 ELSE Last(es).id

Init ==
    /\ entries = <<>> /\ file = <<>> /\ buf = <<>>
    /\ recorded = 0 /\ faults = 0 /\ boots = 0 /\ damaged = FALSE

-----------------------------------------------------------------------------
Flushes_Drops(s) ==
    {[s EXCEPT !.file = @ \o SubSeq(s.buf, 1, k), !.buf = <<>>, !.ok = (k = Len(s.buf))]
       : k \in 0..Len(s.buf)}

(* flush_buf writes the buffer, or a part of it and fails: what is not     *)
(* written stays in the buffer.                                            *)
Flushes(s) ==
    {[s EXCEPT !.file = @ \o SubSeq(s.buf, 1, k), !.buf = SubSeq(@, k + 1, Len(@)),
               !.ok = (k = Len(s.buf))] : k \in 0..Len(s.buf)}

(* write_all into the buffer, which is flushed first if it is full; if     *)
(* that fails the pieces never enter it.                                   *)
Puts(s, pieces) ==
    IF ~s.ok THEN {s}
    ELSE IF Len(s.buf) + Len(pieces) <= Capacity THEN {[s EXCEPT !.buf = @ \o pieces]}
    ELSE {IF f.ok THEN [f EXCEPT !.buf = pieces] ELSE [f EXCEPT !.refused = TRUE]
            : f \in Flushes(s)}

(* writeln!(sink, line) and then flush().                                  *)
Writes(s, e) ==
    UNION {UNION {IF q.ok THEN Flushes(q) ELSE {q} : q \in Puts(p, Newline(e))}
             : p \in Puts(s, Body(e))}

(* record(): the entry joins the chain in memory whatever the file does.   *)
Record ==
    /\ recorded < MaxRecords
    /\ LET e == Entry(recorded + 1, Tip(entries))
       IN /\ \E s \in Writes([file |-> file, buf |-> buf, ok |-> TRUE, refused |-> FALSE], e) :
                /\ s.ok \/ faults < MaxFaults
                /\ faults' = IF s.ok THEN faults ELSE faults + 1
                /\ file' = s.file /\ buf' = s.buf
                /\ damaged' = (damaged \/ s.refused)
          /\ entries' = Append(entries, e)
    /\ recorded' = recorded + 1
    /\ UNCHANGED boots

-----------------------------------------------------------------------------
Parses(line) == line # <<>> /\ line = Body(line[1].e)

Reader(es, stop, line) == [es |-> es, stop |-> stop, line |-> line]

EndLine_AnyParent(r) ==
    IF r.stop \/ ~Parses(r.line) THEN Reader(r.es, r.stop, <<>>)
    ELSE Reader(Append(r.es, r.line[1].e), FALSE, <<>>)

(* open(): a line that does not parse is skipped; the first entry that     *)
(* does not follow the last accepted one ends the replay.                  *)
EndLine(r) ==
    IF r.stop \/ ~Parses(r.line) THEN Reader(r.es, r.stop, <<>>)
    ELSE IF r.line[1].e.prev # Tip(r.es) THEN Reader(r.es, TRUE, <<>>)
    ELSE Reader(Append(r.es, r.line[1].e), FALSE, <<>>)

Read(r, piece) ==
    IF piece.part = "newline" THEN EndLine(r)
    ELSE Reader(r.es, r.stop, Append(r.line, piece))

(* The state of the replay after each piece of the file.                   *)
Scan(f) ==
    LET r[n \in 0..Len(f)] == IF n = 0 THEN Reader(<<>>, FALSE, <<>>) ELSE Read(r[n - 1], f[n])
    IN r

(* The end of the file ends the last line, too.                            *)
Replay(f) == EndLine(Scan(f)[Len(f)]).es

(* The daemon exits, which drops the writer and flushes it, or dies; it    *)
(* starts again on what the file then holds.                               *)
Restart ==
    /\ boots < MaxBoots
    /\ boots' = boots + 1
    /\ \/ file' = file \o buf /\ UNCHANGED damaged
       \/ UNCHANGED file /\ damaged' = (damaged \/ buf # <<>>)
    /\ buf' = <<>>
    /\ entries' = Replay(file')
    /\ UNCHANGED <<recorded, faults>>

Next == Record \/ Restart

-----------------------------------------------------------------------------
(* Type invariant.                                                         *)
TypeOK ==
    /\ Len(entries) <= recorded /\ recorded <= MaxRecords
    /\ faults <= MaxFaults /\ boots <= MaxBoots
    /\ Len(buf) <= Capacity

(* A write that failed half way is made up by the next one: as long as no  *)
(* line was dropped for lack of buffer and no buffer died with the daemon, *)
(* file and buffer together replay to the whole chain.                     *)
NothingLostWhileUndamaged == ~damaged => Replay(file \o buf) = entries

(* The log is what its abstract specification promises.                    *)
Abstract == INSTANCE PrefixLog WITH log <- entries, Entries <- [id : 1..MaxRecords, prev : 0..MaxRecords]
ImplementsPrefixLog == Abstract!Spec

=============================================================================
