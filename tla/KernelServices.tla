--------------------------- MODULE KernelServices ---------------------------
(***************************************************************************)
(* Services of the daemon that share no state: event triggers              *)
(* (TriggerEngine), the audit log (AuditLog), device pairing               *)
(* (DevicePairing), the loop guard (LoopGuard) and the wire protocol's     *)
(* node (WirePeer).  A behaviour follows one of them, the focus, through   *)
(* all of its interleavings; steps of the others would only be stuttering  *)
(* steps to it, so the union of the behaviours is all there is to check.   *)
(***************************************************************************)
EXTENDS Integers, Sequences, FiniteSets

CONSTANTS
    Tasks, TrigIds, Agents, AgentOf, MaxFires, Kinds,       \* TriggerEngine
    Watch, Spawned, MaxEvents, MaxRestarts, NoAgent,
    Capacity, MaxRecords, MaxFaults, MaxBoots,              \* AuditLog
    Handlers, Devices, MaxDevices, MaxPending, MaxTokens,   \* DevicePairing
    MaxReboots,
    Calls, Results, PollCalls, WarnAt, BlockAt, Breaker,    \* LoopGuard
    PollFactor, OutcomeBlockAt, MinRepeats, MaxWarnings, HistorySize,
    Nodes, InSlots, OutSlots, Freshness, NonceTTL,          \* WirePeer
    MaxSkew, MaxClock, MaxSent

(* Every trigger has an agent, a limit and a pattern.  And what the code's *)
(* constants guarantee: room for a line in the buffer, ping-pongs of three *)
(* rounds to block on, and nonces kept for longer than twice the freshness *)
(* window.  Sets of requests and devices are finite.                       *)
ASSUME ServicesAssumption ==
    /\ AgentOf \in [TrigIds -> Agents] /\ MaxFires \in [TrigIds -> Nat]
    /\ Watch \in [TrigIds -> SUBSET Kinds] /\ Spawned \in Kinds /\ NoAgent \notin Agents
    /\ Capacity \in Nat \ {0, 1}
    /\ MaxDevices \in Nat \ {0} /\ MaxPending \in Nat \ {0}
    /\ PollCalls \subseteq Calls /\ WarnAt <= BlockAt /\ MinRepeats <= 3
    /\ IsFiniteSet(Handlers) /\ IsFiniteSet(Devices) /\ {MaxTokens, MaxReboots} \subseteq Nat
    /\ {Freshness, NonceTTL, MaxSkew, MaxClock, MaxSent} \subseteq Nat
    /\ NonceTTL > 2 * Freshness

(* LoopGuardConfig has thresholds that are not zero, and the guard a       *)
(* history.                                                                *)
ASSUME GuardAssumption ==
    /\ {WarnAt, MinRepeats, MaxWarnings} \subseteq Nat
    /\ {BlockAt, PollFactor, OutcomeBlockAt, HistorySize} \subseteq Nat \ {0}

ASSUME AuditAssumption == MaxRecords \in Nat

VARIABLES
    focus,
    trig, index, alive, born, task, used, disk, fired, removed, unsaved, disturbed, events,
    restarts,
    entries, file, buf, recorded, faults, boots, damaged,
    pending, expired, devices, table, op, issued, reboots, uses, raced, mixed, peak,
    total, counts, recent, warnings, outcomes, barred, broken, verdict, ran,
    now, sent, cache, conn, peers, accepted, overlapped, leaving

TE == INSTANCE TriggerEngine WITH boots <- restarts, MaxBoots <- MaxRestarts
AL == INSTANCE AuditLog
DP == INSTANCE DevicePairing
LG == INSTANCE LoopGuard
WP == INSTANCE WirePeer

teVars == <<trig, index, alive, born, task, used, disk, fired, removed, unsaved, disturbed,
            events, restarts>>
alVars == <<entries, file, buf, recorded, faults, boots, damaged>>
dpVars == <<pending, expired, devices, table, op, issued, reboots, uses, raced, mixed, peak>>
lgVars == <<total, counts, recent, warnings, outcomes, barred, broken, verdict, ran>>
wpVars == <<now, sent, cache, conn, peers, accepted, overlapped, leaving>>
vars == <<focus, teVars, alVars, dpVars, lgVars, wpVars>>

Init ==
    /\ focus \in {"triggers", "audit", "pairing", "guard", "wire"}
    /\ TE!Init /\ AL!Init /\ DP!Init /\ LG!Init /\ WP!Init

Triggers == focus = "triggers" /\ TE!Next /\ UNCHANGED <<focus, alVars, dpVars, lgVars, wpVars>>
Audit == focus = "audit" /\ AL!Next /\ UNCHANGED <<focus, teVars, dpVars, lgVars, wpVars>>
Pairing == focus = "pairing" /\ DP!Next /\ UNCHANGED <<focus, teVars, alVars, lgVars, wpVars>>
Guard == focus = "guard" /\ LG!Next /\ UNCHANGED <<focus, teVars, alVars, dpVars, wpVars>>
Wire == focus = "wire" /\ WP!Next /\ UNCHANGED <<focus, teVars, alVars, dpVars, lgVars>>

Next == Triggers \/ Audit \/ Pairing \/ Guard \/ Wire

Spec == Init /\ [][Next]_vars

-----------------------------------------------------------------------------
(* Type invariants of the services.                                        *)
TypeOK == TE!TypeOK /\ AL!TypeOK /\ DP!TypeOK /\ LG!TypeOK /\ WP!TypeOK

(* Event triggers (see TriggerEngine).  The per-agent index never loses a   *)
(* trigger, so that killing the agent ends it.                              *)
IndexComplete == TE!IndexComplete

(* Concurrent evaluations never count past max_fires; limits and removals   *)
(* survive restarts as long as calls neither overlap nor are cut and no     *)
(* restart comes between a failed persist() and the next that succeeds.     *)
FiresAndRemovalsLast == TE!FiresAndRemovalsLast

(* The audit log (see AuditLog): nothing is lost while no line was damaged, *)
(* file and buffer replay to the whole chain.                               *)
NothingLostWhileUndamaged == AL!NothingLostWhileUndamaged

(* The audit log implements PrefixLog: it is a chain that verifies, grows   *)
(* by record(), and at a boot is a prefix of what it was.                   *)
ImplementsPrefixLog == AL!ImplementsPrefixLog

(* Device pairing (see DevicePairing): a token pairs once unless two        *)
(* requests hold it together, the device limit is exceeded by at most the   *)
(* requests that pass it together, and a restart that can read the table    *)
(* brings back exactly the devices that are paired.                         *)
PairingSound == DP!TokenPairsOnce /\ DP!DeviceLimitOvershoot /\ DP!TableMatchesDevices

(* The loop guard (see LoopGuard): the same call, and the same call with    *)
(* the same result, runs a limited number of times, and no cycle passes     *)
(* unnoticed.                                                               *)
RepetitionStops == LG!RepetitionStops /\ LG!CyclesAreNoticed

(* The wire protocol (see WirePeer): a handshake is accepted at most once,  *)
(* however late and often it is delivered.                                  *)
HandshakeAcceptedOnce == WP!HandshakeAcceptedOnce

(* A peer listed as connected has a connection, and a single open           *)
(* connection is listed.                                                    *)
PeerStateSound == WP!ConnectedIsLive /\ WP!SingleConnectionIsListed

=============================================================================
