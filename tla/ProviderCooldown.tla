-------------------------- MODULE ProviderCooldown --------------------------
(***************************************************************************)
(* The circuit breaker of one LLM provider (runtime/src/auth_cooldown.rs)  *)
(* and the calls of all agents that go through it (call_with_retry and     *)
(* stream_with_retry of agent_loop.rs).                                    *)
(*                                                                         *)
(* check(), record_success() and record_failure() each hold the provider's *)
(* entry; between them a call awaits the provider and sleeps between its   *)
(* attempts.  Time passes in ticks; instants are kept as ages, saturating  *)
(* at the largest duration they are compared with.  The API's snapshot()   *)
(* only reads; record_probe_result, clear_expired, force_reset and the     *)
(* profile rotation have no caller in the program.                         *)
(***************************************************************************)
EXTENDS Naturals, FiniteSets

CONSTANTS
    Calls,              \* concurrent calls of agents
    MaxRetries,         \* MAX_RETRIES
    BaseCooldown, MaxCooldown, Multiplier, MaxExponent,
    BillingBase, BillingMax, BillingMultiplier, BillingExponent,
    ProbeInterval,      \* probe_interval_secs
    FailureWindow,      \* failure_window_secs
    MaxErrors           \* bound: error_count saturates here

VARIABLES
    errors,     \* error_count
    billing,    \* is_billing
    open,       \* cooldown_start is set
    age,        \* cooldown_start.elapsed()
    duration,   \* cooldown_duration
    probed,     \* last_probe is set
    probeAge,   \* last_probe.elapsed()
    window,     \* window_start is set
    windowAge,  \* window_start.elapsed()
    total,      \* total_errors_in_window
    call,       \* the state of each call
    up,         \* environment: the provider works
    sinceFail   \* history: time since a failure was recorded

breaker == <<errors, billing, open, age, duration, probed, probeAge, window, windowAge, total>>
vars == <<breaker, call, up, sinceFail>>

AgeCap == CHOOSE m \in {MaxCooldown, BillingMax, ProbeInterval, FailureWindow} :
             \A n \in {MaxCooldown, BillingMax, ProbeInterval, FailureWindow} : n <= m

Least(a, b) == IF a < b THEN a ELSE b
Older(a) == Least(a + 1, AgeCap)

(* calculate_cooldown.                                                     *)
Cooldown(n, bill) ==
    IF bill THEN Least(BillingBase * BillingMultiplier ^ Least(n - 1, BillingExponent), BillingMax)
            ELSE Least(BaseCooldown * Multiplier ^ Least(n - 1, MaxExponent), MaxCooldown)

Idle == [pc |-> "idle", attempt |-> 0]

Init ==
    /\ errors = 0 /\ billing = FALSE
    /\ open = FALSE /\ age = 0 /\ duration = 0
    /\ probed = FALSE /\ probeAge = 0
    /\ window = FALSE /\ windowAge = 0 /\ total = 0
    /\ call = [c \in Calls |-> Idle]
    /\ up = TRUE
    /\ sinceFail = AgeCap

-----------------------------------------------------------------------------
Verdict_AlwaysRejects == IF ~open THEN "Allow" ELSE "Reject"

(* check(): closed, or the cooldown is over (half-open), or a probe is due.*)
Verdict ==
    IF ~open THEN "Allow"
    ELSE IF age >= duration \/ ~probed \/ probeAge >= ProbeInterval THEN "AllowProbe"
    ELSE "Reject"

(* A call passes check() and starts its first attempt; a rejected call     *)
(* returns an error at once and changes nothing.                           *)
Begin(c) ==
    /\ call[c].pc = "idle"
    /\ Verdict # "Reject"
    /\ call' = [call EXCEPT ![c] = [pc |-> "trying", attempt |-> 0]]
    /\ UNCHANGED <<breaker, up, sinceFail>>

(* record_success() (a provider without an entry has nothing to reset).    *)
RecordSuccess ==
    /\ errors' = 0 /\ billing' = FALSE
    /\ open' = FALSE /\ age' = 0 /\ duration' = 0
    /\ probed' = FALSE /\ probeAge' = 0
    /\ UNCHANGED <<window, windowAge, total, sinceFail>>

RecordFailure_ProbeNotPinned(bill) ==
    /\ LET n == Least(errors + 1, MaxErrors)
           fresh == ~window \/ windowAge >= FailureWindow
       IN /\ errors' = n
          /\ duration' = Cooldown(n, bill)
          /\ windowAge' = IF fresh THEN 0 ELSE windowAge
          /\ total' = Least((IF window /\ fresh THEN 0 ELSE total) + 1, MaxErrors)
    /\ window' = TRUE
    /\ billing' = bill
    /\ open' = TRUE /\ age' = 0
    /\ UNCHANGED <<probed, probeAge>>
    /\ sinceFail' = 0

(* record_failure(): the failure window, the counters, the new cooldown,   *)
(* and the next probe at the earliest one interval from now.               *)
RecordFailure(bill) ==
    /\ LET n == Least(errors + 1, MaxErrors)
           fresh == ~window \/ windowAge >= FailureWindow
       IN /\ errors' = n
          /\ duration' = Cooldown(n, bill)
          /\ windowAge' = IF fresh THEN 0 ELSE windowAge
          /\ total' = Least((IF window /\ fresh THEN 0 ELSE total) + 1, MaxErrors)
    /\ window' = TRUE
    /\ billing' = bill
    /\ open' = TRUE /\ age' = 0
    /\ probed' = TRUE /\ probeAge' = 0
    /\ sinceFail' = 0

(* driver.complete / driver.stream returns a response.                     *)
Succeed(c) ==
    /\ call[c].pc = "trying"
    /\ up
    /\ RecordSuccess
    /\ call' = [call EXCEPT ![c] = Idle]
    /\ UNCHANGED up

(* Rate limited, overloaded or classified as retryable: sleep and retry.   *)
Transient(c) ==
    /\ call[c].pc = "trying"
    /\ ~up
    /\ call[c].attempt < MaxRetries
    /\ call' = [call EXCEPT ![c].pc = "sleeping"]
    /\ UNCHANGED <<breaker, up, sinceFail>>

(* The next attempt follows without another check().                       *)
Retry(c) ==
    /\ call[c].pc = "sleeping"
    /\ call' = [call EXCEPT ![c].pc = "trying", ![c].attempt = @ + 1]
    /\ UNCHANGED <<breaker, up, sinceFail>>

(* Retries are exhausted, or the error is not retryable (billing or not).  *)
Fail(c, bill) ==
    /\ call[c].pc = "trying"
    /\ ~up
    /\ RecordFailure(bill)
    /\ call' = [call EXCEPT ![c] = Idle]
    /\ UNCHANGED up

(* The turn is aborted while it awaits the provider or sleeps: nothing is  *)
(* recorded.                                                               *)
Abort(c) ==
    /\ call[c].pc # "idle"
    /\ call' = [call EXCEPT ![c] = Idle]
    /\ UNCHANGED <<breaker, up, sinceFail>>

Tick ==
    /\ age' = IF open THEN Older(age) ELSE age
    /\ probeAge' = IF probed THEN Older(probeAge) ELSE probeAge
    /\ windowAge' = IF window THEN Older(windowAge) ELSE windowAge
    /\ sinceFail' = Older(sinceFail)
    /\ UNCHANGED <<errors, billing, open, duration, probed, window, total, call, up>>

(* The provider goes down or comes back.                                   *)
Flip ==
    /\ up' = ~up
    /\ UNCHANGED <<breaker, call, sinceFail>>

Next ==
    \/ \E c \in Calls : \/ Begin(c) \/ Succeed(c) \/ Transient(c) \/ Retry(c) \/ Abort(c)
                        \/ \E bill \in BOOLEAN : Fail(c, bill)
    \/ Tick \/ Flip

-----------------------------------------------------------------------------
(* Type invariant.                                                         *)
TypeOK ==
    /\ errors \in 0..MaxErrors /\ total \in 0..MaxErrors
    /\ {billing, open, probed, window, up} \subseteq BOOLEAN
    /\ {age, probeAge, windowAge, sinceFail} \subseteq 0..AgeCap
    /\ duration <= AgeCap
    /\ call \in [Calls -> [pc : {"idle", "trying", "sleeping"}, attempt : 0..MaxRetries]]

(* "Throttle the next probe by `probe_interval_secs` from this failure"    *)
(* (record_failure): a call that starts while the breaker is open starts   *)
(* at least one probe interval after the last recorded failure, or after   *)
(* the whole cooldown.                                                     *)
ProbesAreThrottled ==
    [][\A c \in Calls : (call[c].pc = "idle" /\ call'[c].pc = "trying" /\ errors > 0)
          => sinceFail >= ProbeInterval \/ sinceFail >= duration]_vars

(* The breaker never locks a provider out: once the provider works for     *)
(* good, the breaker closes for good.                                      *)
RecoversWhenUp == <>[]up => <>[](~open)

=============================================================================
