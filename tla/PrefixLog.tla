------------------------------ MODULE PrefixLog ------------------------------
(***************************************************************************)
(* What the audit log promises (runtime/src/audit.rs): entries are only    *)
(* ever appended while the daemon runs, each chained to the last one, and  *)
(* a restart may lose a suffix of the log but never reorders it, leaves a  *)
(* gap or invents an entry: verify_integrity() succeeds at any time.       *)
(***************************************************************************)
EXTENDS Naturals, Sequences

CONSTANT Entries    \* all entries, with fields id and prev

VARIABLE log

Init == log = <<>>

Tip == IF log = <<>> THEN 0 ELSE log[Len(log)].id

Record == \E e \in Entries : e.prev = Tip /\ log' = Append(log, e)

Restart == \E n \in 0..Len(log) : log' = SubSeq(log, 1, n)

Next == Record \/ Restart

Spec == Init /\ [][Next]_log
=============================================================================
