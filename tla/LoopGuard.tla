------------------------------ MODULE LoopGuard ------------------------------
(***************************************************************************)
(* The loop guard of one turn (runtime/src/loop_guard.rs) and the part of  *)
(* the agent loop that asks it (agent_loop.rs): each tool call is checked, *)
(* then refused, or executed and its outcome recorded, before the next one *)
(* is looked at.  A call is a pair of tool and parameters, a result what   *)
(* outcome hashing tells apart.                                            *)
(***************************************************************************)
EXTENDS Naturals, Sequences, FiniteSets, SequencesExt

CONSTANTS
    Calls, Results,
    PollCalls,          \* the calls is_poll_call recognises
    WarnAt, BlockAt,    \* warn_threshold, block_threshold
    Breaker,            \* global_circuit_breaker
    PollFactor,         \* poll_multiplier
    OutcomeBlockAt,     \* outcome_block_threshold
    MinRepeats,         \* ping_pong_min_repeats
    MaxWarnings,        \* max_warnings_per_call
    HistorySize         \* HISTORY_SIZE

VARIABLES
    total,      \* total_calls
    counts,     \* call_counts
    recent,     \* recent_calls
    warnings,   \* warnings_emitted, of repetitions and of ping-pongs
    outcomes,   \* outcome_counts
    barred,     \* blocked_outcomes
    broken,     \* the circuit breaker ended the turn
    verdict,    \* history: the last verdict
    ran         \* history: how often a call was executed

vars == <<total, counts, recent, warnings, outcomes, barred, broken, verdict, ran>>

Init ==
    /\ total = 0 /\ recent = <<>> /\ barred = {} /\ broken = FALSE
    /\ counts = [c \in Calls |-> 0]
    /\ warnings = [c \in Calls |-> [repeat |-> 0, pingpong |-> 0]]
    /\ outcomes = [c \in Calls |-> [r \in Results |-> 0]]
    /\ verdict = "none" /\ ran = [c \in Calls |-> 0]

-----------------------------------------------------------------------------
(* How often the last k calls of h are repeated at its end, themselves     *)
(* included.                                                               *)
TailRepeats(h, k) ==
    Max({n \in 0..(Len(h) \div k) :
            \A i \in 0..(n * k - 1) : h[Len(h) - i] = h[Len(h) - (i % k)]})
Varied(h, k) == \E i \in 1..k - 1 : h[Len(h) - i] # h[Len(h)]

(* detect_ping_pong_impl: three rounds of two calls, or of three.          *)
PingPong(h) == \E k \in {2, 3} : Len(h) >= 3 * k /\ Varied(h, k) /\ TailRepeats(h, k) >= 3

(* count_ping_pong_repeats.                                                *)
PingPongRepeats(h) ==
    LET cycles(k) == Len(h) >= 2 * k /\ Varied(h, k) /\ TailRepeats(h, k) >= 2
    IN CASE cycles(2) -> TailRepeats(h, 2)
         [] ~cycles(2) /\ cycles(3) -> TailRepeats(h, 3)
         [] OTHER -> 0

(* Polls get relaxed thresholds.                                           *)
Factor(c) == IF c \in PollCalls THEN PollFactor ELSE 1

Remember(c) == Append(IF Len(recent) >= HistorySize THEN Tail(recent) ELSE recent, c)

(* check(): the verdict, with the counters it leaves behind.               *)
Check(c) ==
    LET n == counts[c] + 1
        h == Remember(c)
        w == warnings[c]
        is(v, cs, ws) == [verdict |-> v, count |-> cs, warned |-> ws]
    IN IF c \in barred THEN is("block", counts[c], w)
       ELSE IF n >= BlockAt * Factor(c) THEN is("block", n, w)
       ELSE IF n >= WarnAt * Factor(c)
         THEN is(IF w.repeat >= MaxWarnings THEN "block" ELSE "warn", n,
                 [w EXCEPT !.repeat = @ + 1])
       ELSE IF ~PingPong(h) THEN is("allow", n, w)
       ELSE IF PingPongRepeats(h) >= MinRepeats THEN is("block", n, w)
       ELSE is(IF w.pingpong >= MaxWarnings THEN "allow" ELSE "warn", n,
               [w EXCEPT !.pingpong = @ + 1])

Bar_OnlyPolls(c, n) == IF n >= OutcomeBlockAt /\ c \in PollCalls THEN barred \cup {c} ELSE barred

(* record_outcome: a call that keeps returning the same is barred.         *)
Bar(c, n) == IF n >= OutcomeBlockAt THEN barred \cup {c} ELSE barred

(* A tool call of the model: the guard's verdict, and unless it or a       *)
(* BeforeToolCall hook refuses, the execution and its outcome.             *)
ToolCall(c) ==
    /\ ~broken /\ total < Breaker
    /\ total' = total + 1
    /\ recent' = Remember(c)
    /\ LET v == Check(c)
       IN /\ counts' = [counts EXCEPT ![c] = v.count]
          /\ warnings' = [warnings EXCEPT ![c] = v.warned]
          /\ verdict' = v.verdict
          /\ \/ UNCHANGED <<outcomes, barred, ran>>
             \/ /\ v.verdict # "block"
                /\ ran' = [ran EXCEPT ![c] = @ + 1]
                /\ \E r \in Results :
                      /\ outcomes' = [outcomes EXCEPT ![c][r] = @ + 1]
                      /\ barred' = Bar(c, outcomes[c][r] + 1)
    /\ UNCHANGED broken

(* One call more and the turn is ended with an error.                      *)
CircuitBreak ==
    /\ ~broken /\ total >= Breaker
    /\ total' = total + 1
    /\ broken' = TRUE
    /\ verdict' = "break"
    /\ UNCHANGED <<counts, recent, warnings, outcomes, barred, ran>>

Next == CircuitBreak \/ \E c \in Calls : ToolCall(c)

-----------------------------------------------------------------------------
(* Type invariant.                                                         *)
TypeOK ==
    /\ total \in 0..Breaker + 1 /\ broken \in BOOLEAN /\ barred \subseteq Calls
    /\ counts \in [Calls -> 0..total] /\ ran \in [Calls -> 0..total]
    /\ outcomes \in [Calls -> [Results -> Nat]]
    /\ Len(recent) <= HistorySize /\ ToSet(recent) \subseteq Calls
    /\ warnings \in [Calls -> [repeat : Nat, pingpong : Nat]]
    /\ verdict \in {"none", "allow", "warn", "block", "break"}

(* A model that is stuck gets nowhere: the same call runs at most BlockAt  *)
(* - 1 times (or as often as a poll may), and at most OutcomeBlockAt times *)
(* with the same result, whatever other calls come between.                *)
RepetitionStops ==
    \A c \in Calls :
        /\ ran[c] < BlockAt * Factor(c)
        /\ \A r \in Results : outcomes[c][r] <= OutcomeBlockAt

(* A call that completes a cycle of two or three calls never passes        *)
(* unnoticed: the count of rounds that decides between block and warning   *)
(* agrees with the detection, so that it is blocked or the model is told.  *)
CyclesAreNoticed == PingPong(recent) => verdict # "allow"
=============================================================================
