----------------------------- MODULE DurableMap -----------------------------
(***************************************************************************)
(* What a persisted in-memory map promises: the file always holds a        *)
(* version of the map that was current at some time, it only moves forward *)
(* while the process lives, and a restarted process continues from it.     *)
(* A version is named by the number of changes behind it; 0 is the empty   *)
(* map.                                                                    *)
(***************************************************************************)
EXTENDS Naturals

VARIABLES
    mem,    \* version of the map in memory
    disk    \* version a reader of the file finds

vars == <<mem, disk>>

Init == mem = 0 /\ disk = 0

(* A change of the map.                                                    *)
Mutate == mem' = mem + 1 /\ UNCHANGED disk

(* The file advances to a version between its own and the current one.     *)
Save == disk' \in disk..mem /\ UNCHANGED mem

(* The process dies and a new one loads the file.                          *)
Restart == mem' = disk /\ UNCHANGED disk

Next == Mutate \/ Save \/ Restart

Spec == Init /\ [][Next]_vars

=============================================================================
