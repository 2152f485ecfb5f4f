---------------------------- MODULE DevicePairing ----------------------------
(***************************************************************************)
(* Device pairing (kernel/src/pairing.rs): one-time tokens and the paired  *)
(* devices, each in a concurrent map, and the devices' table, written      *)
(* after the map by the callback the kernel installs.                      *)
(*                                                                         *)
(* create_pairing_request, complete_pairing and remove_device run on       *)
(* several threads and hold no lock from one map operation to the next.    *)
(***************************************************************************)
EXTENDS Naturals, FiniteSets

CONSTANTS
    Handlers,       \* concurrent requests
    Devices,        \* device ids
    MaxDevices,     \* PairingConfig.max_devices
    MaxPending,     \* MAX_PENDING_REQUESTS
    MaxTokens,      \* bound: tokens issued
    MaxReboots      \* bound: restarts of the daemon

VARIABLES
    pending,    \* tokens in the map
    expired,    \* tokens whose time is over
    devices,    \* the paired devices
    table,      \* the paired_devices table
    op,         \* the state of each request
    issued, reboots,
    uses,       \* history: pairings made with each token
    raced,      \* history: tokens that two requests held at once
    mixed,      \* history: devices that two requests worked on at once, whose table
                \*   write failed or was cut off, or that a boot failed to load
    peak        \* history: most requests between limit check and insertion

history == <<uses, raced, mixed, peak>>
vars == <<pending, expired, devices, table, op, issued, reboots, history>>

Tokens == 1..MaxTokens
Idle == [pc |-> "idle", token |-> 0, dev |-> {}]

Init ==
    /\ pending = {} /\ expired = {} /\ devices = {} /\ table = {}
    /\ op = [h \in Handlers |-> Idle]
    /\ issued = 0 /\ reboots = 0
    /\ uses = [t \in Tokens |-> 0] /\ raced = {} /\ mixed = {} /\ peak = 0

-----------------------------------------------------------------------------
Goto(h, pc) == op' = [op EXCEPT ![h].pc = pc]
Done(h) == op' = [op EXCEPT ![h] = Idle]
At(pcs) == {h \in Handlers : op[h].pc \in pcs}
Rivals(h, d) == {g \in Handlers \ {h} : d \in op[g].dev}

(* create_pairing_request looks at the number of requests pending; at the  *)
(* limit ...                                                               *)
CreateRequest(h) ==
    /\ op[h].pc = "idle" /\ issued < MaxTokens
    /\ Goto(h, IF Cardinality(pending) >= MaxPending THEN "clean" ELSE "insert")
    /\ UNCHANGED <<pending, expired, devices, table, issued, reboots, history>>

(* ... it cleans the expired tokens ...                                    *)
CleanFirst(h) ==
    /\ op[h].pc = "clean"
    /\ pending' = pending \ expired
    /\ Goto(h, "recheck")
    /\ UNCHANGED <<expired, devices, table, issued, reboots, history>>

(* ... and looks again, ...                                                *)
Recheck(h) ==
    /\ op[h].pc = "recheck"
    /\ IF Cardinality(pending) >= MaxPending THEN Done(h) ELSE Goto(h, "insert")
    /\ UNCHANGED <<pending, expired, devices, table, issued, reboots, history>>

(* ... and inserts a new token, whatever others inserted meanwhile.        *)
InsertToken(h) ==
    /\ op[h].pc = "insert" /\ issued < MaxTokens
    /\ pending' = pending \cup {issued + 1}
    /\ issued' = issued + 1
    /\ Done(h)
    /\ UNCHANGED <<expired, devices, table, reboots, history>>

(* The clock passes the expires_at of a token that someone still holds.    *)
Expire(t) ==
    /\ t \in (pending \cup {op[h].token : h \in Handlers}) \ expired
    /\ expired' = expired \cup {t}
    /\ UNCHANGED <<pending, devices, table, op, issued, reboots, history>>

(* clean_expired.                                                          *)
CleanExpired ==
    /\ pending \cap expired # {}
    /\ pending' = pending \ expired
    /\ UNCHANGED <<expired, devices, table, op, issued, reboots, history>>

(* complete_pairing finds the token ...                                    *)
FindToken(h, t, d) ==
    /\ op[h].pc = "idle" /\ t \in pending
    /\ op' = [op EXCEPT ![h] = [pc |-> "found", token |-> t, dev |-> {d}]]
    /\ raced' = raced \cup {op[g].token : g \in {g \in Handlers : op[g].token = t}}
    /\ mixed' = mixed \cup IF Rivals(h, d) = {} THEN {} ELSE {d}
    /\ UNCHANGED <<pending, expired, devices, table, issued, reboots, uses, peak>>

(* ... refuses an expired one and removes it, refuses at the limit ...     *)
Check(h) ==
    /\ op[h].pc = "found"
    /\ IF op[h].token \in expired
       THEN pending' = pending \ {op[h].token} /\ Done(h) /\ UNCHANGED peak
       ELSE /\ UNCHANGED pending
            /\ IF Cardinality(devices) >= MaxDevices
               THEN Done(h) /\ UNCHANGED peak
               ELSE /\ Goto(h, "checked")
                    /\ peak' = IF Cardinality(At({"checked", "removed"})) >= peak
                               THEN Cardinality(At({"checked", "removed"})) + 1 ELSE peak
    /\ UNCHANGED <<expired, devices, table, issued, reboots, uses, raced, mixed>>

RemoveToken_Keeps(h) ==
    /\ op[h].pc = "checked"
    /\ Goto(h, "removed")
    /\ UNCHANGED <<pending, expired, devices, table, issued, reboots, history>>

(* ... removes the used token, which a rival may have removed already ...  *)
RemoveToken(h) ==
    /\ op[h].pc = "checked"
    /\ pending' = pending \ {op[h].token}
    /\ Goto(h, "removed")
    /\ UNCHANGED <<expired, devices, table, issued, reboots, history>>

(* ... stores the device ...                                               *)
InsertDevice(h) ==
    /\ op[h].pc = "removed"
    /\ devices' = devices \cup op[h].dev
    /\ uses' = [uses EXCEPT ![op[h].token] = @ + 1]
    /\ op' = [op EXCEPT ![h].pc = "save", ![h].token = 0]
    /\ UNCHANGED <<pending, expired, table, issued, reboots, raced, mixed, peak>>

(* ... and persists it; a failure is logged.                               *)
SaveDevice(h) ==
    /\ op[h].pc = "save"
    /\ \/ table' = table \cup op[h].dev /\ UNCHANGED mixed
       \/ mixed' = mixed \cup op[h].dev /\ UNCHANGED table
    /\ Done(h)
    /\ UNCHANGED <<pending, expired, devices, issued, reboots, uses, raced, peak>>

(* remove_device takes the device off the map ...                          *)
RemoveDevice(h, d) ==
    /\ op[h].pc = "idle" /\ d \in devices
    /\ devices' = devices \ {d}
    /\ op' = [op EXCEPT ![h] = [pc |-> "forget", token |-> 0, dev |-> {d}]]
    /\ mixed' = mixed \cup IF Rivals(h, d) = {} THEN {} ELSE {d}
    /\ UNCHANGED <<pending, expired, table, issued, reboots, uses, raced, peak>>

(* ... and then out of the table.                                          *)
ForgetDevice(h) ==
    /\ op[h].pc = "forget"
    /\ \/ table' = table \ op[h].dev /\ UNCHANGED mixed
       \/ mixed' = mixed \cup op[h].dev /\ UNCHANGED table
    /\ Done(h)
    /\ UNCHANGED <<pending, expired, devices, issued, reboots, uses, raced, peak>>

(* The daemon stops and boots with no tokens: load_devices, unless the     *)
(* table cannot be read, which is logged and leaves no device.             *)
Reboot ==
    /\ reboots < MaxReboots
    /\ reboots' = reboots + 1
    /\ pending' = {}
    /\ \E unread \in {{}, table} :
          /\ devices' = table \ unread
          /\ mixed' = mixed \cup unread \cup UNION {op[h].dev : h \in At({"save", "forget"})}
    /\ op' = [h \in Handlers |-> Idle]
    /\ UNCHANGED <<expired, table, issued, uses, raced, peak>>

Next ==
    \/ CleanExpired \/ Reboot
    \/ \E t \in Tokens : Expire(t)
    \/ \E h \in Handlers :
          \/ CreateRequest(h) \/ CleanFirst(h) \/ Recheck(h) \/ InsertToken(h)
          \/ \E t \in Tokens, d \in Devices : FindToken(h, t, d)
          \/ Check(h) \/ RemoveToken(h) \/ InsertDevice(h) \/ SaveDevice(h)
          \/ \E d \in Devices : RemoveDevice(h, d)
          \/ ForgetDevice(h)

-----------------------------------------------------------------------------
(* Type invariant.                                                         *)
TypeOK ==
    /\ pending \subseteq 1..issued /\ expired \subseteq 1..issued /\ issued <= MaxTokens
    /\ devices \subseteq Devices /\ table \subseteq Devices /\ mixed \subseteq Devices
    /\ \A h \in Handlers : op[h].token \in 0..issued /\ op[h].dev \subseteq Devices
    /\ uses \in [Tokens -> Nat] /\ raced \subseteq Tokens /\ peak \in 0..Cardinality(Handlers)

(* A token pairs one device, unless two requests held it at the same time. *)
TokenPairsOnce == \A t \in Tokens : uses[t] <= 1 \/ t \in raced

(* Requests that pass the limit check together exceed the limit, each by   *)
(* one device.  After a boot this is said of the devices whose table       *)
(* writes went through: load_devices checks no limit, so removed devices   *)
(* that are left in the table come back on top of it.                      *)
Counted == IF reboots = 0 THEN devices ELSE devices \ mixed
DeviceLimitOvershoot ==
    Cardinality(Counted) + Cardinality(At({"checked", "removed"})) <= MaxDevices + peak

(* A restart brings back exactly the devices that are paired, and none     *)
(* that was removed, unless two requests worked on the device at once, a   *)
(* table write failed, or a boot could not read the table.                 *)
TableMatchesDevices ==
    \A d \in Devices \ mixed :
        (\A h \in At({"save", "forget"}) : d \notin op[h].dev) => (d \in devices <=> d \in table)

=============================================================================
