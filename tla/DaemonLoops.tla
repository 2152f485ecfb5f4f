----------------------------- MODULE DaemonLoops -----------------------------
(***************************************************************************)
(* The daemon's long-running loops that must go on: the background loops   *)
(* (BackgroundExecutor), the provider's circuit breaker that all turns     *)
(* call through (ProviderCooldown), a Telegram channel with its bridge     *)
(* (ChannelBridge) and the Discord gateway loop (DiscordGateway).  They    *)
(* share no state, so a behaviour follows one of them, the focus; steps of *)
(* the others would only be stuttering steps to it.                        *)
(***************************************************************************)
EXTENDS Naturals, Sequences, FiniteSets

CONSTANTS
    Agents, Permits,                                            \* BackgroundExecutor
    Calls, MaxRetries, BaseCooldown, MaxCooldown, Multiplier,   \* ProviderCooldown
    MaxExponent, BillingBase, BillingMax, BillingMultiplier, BillingExponent,
    ProbeInterval, FailureWindow, MaxErrors,
    QueueSize, MaxUpdates, MaxStarts,                           \* ChannelBridge
    MaxSessions, MaxEvents                                      \* DiscordGateway

(* One permit and one place in a queue at least, and error counts that     *)
(* saturate beyond the exponents.                                          *)
ASSUME LoopsAssumption ==
    /\ {Permits, QueueSize} \subseteq Nat \ {0}
    /\ {MaxRetries, BaseCooldown, MaxCooldown, Multiplier, MaxExponent, BillingBase,
        BillingMax, BillingMultiplier, BillingExponent, ProbeInterval, FailureWindow,
        MaxErrors, MaxUpdates, MaxStarts, MaxSessions, MaxEvents} \subseteq Nat
    /\ MaxErrors > MaxExponent /\ MaxErrors > BillingExponent

VARIABLES
    focus,
    loop, busy, free, queue, turns, clearing, down,
    errors, billing, open, age, duration, probed, probeAge, window, windowAge, total,
    call, up, sinceFail,
    updates, confirmed, offset, poll, batch, inbox, disp, turn, stopping, starts,
    latest, gone,
    link, session, sequence, closing, known, sessions, last, cursor, got

BG == INSTANCE BackgroundExecutor
PC == INSTANCE ProviderCooldown
CB == INSTANCE ChannelBridge WITH queue <- inbox
DG == INSTANCE DiscordGateway

bgVars == <<loop, busy, free, queue, turns, clearing, down>>
pcVars == <<errors, billing, open, age, duration, probed, probeAge, window, windowAge, total,
            call, up, sinceFail>>
cbVars == <<updates, confirmed, offset, poll, batch, inbox, disp, turn, stopping, starts,
            latest, gone>>
dgVars == <<link, session, sequence, closing, known, sessions, last, cursor, got>>
vars == <<focus, bgVars, pcVars, cbVars, dgVars>>

Init ==
    /\ focus \in {"background", "breaker", "bridge", "gateway"}
    /\ BG!Init /\ PC!Init /\ CB!Init /\ DG!Init

(* A step A of one of the loops, in a behaviour that follows it.           *)
Background(A) == focus = "background" /\ A /\ UNCHANGED <<focus, pcVars, cbVars, dgVars>>
Breaker(A) == focus = "breaker" /\ A /\ UNCHANGED <<focus, bgVars, cbVars, dgVars>>
Bridge(A) == focus = "bridge" /\ A /\ UNCHANGED <<focus, bgVars, pcVars, dgVars>>
Gateway(A) == focus = "gateway" /\ A /\ UNCHANGED <<focus, bgVars, pcVars, cbVars>>

Next == Background(BG!Next) \/ Breaker(PC!Next) \/ Bridge(CB!Next) \/ Gateway(DG!Next)

(* What goes on by itself: a permit that is free goes to the first waiter, *)
(* a turn ends (its iterations and its calls are limited), a watcher that  *)
(* was woken runs on; time passes, agents keep calling, a sleep ends; the  *)
(* bridge's tasks run on (an approval has a timeout, stop() aborts when    *)
(* its budget is spent); the gateway loop tries again after every drop.    *)
WeakFairness ==
    /\ WF_vars(Background(BG!Acquire))
    /\ \A a \in Agents : WF_vars(Background(BG!Release(a) \/ BG!Clear(a)))
    /\ WF_vars(Breaker(PC!Tick))
    /\ \A c \in Calls : WF_vars(Breaker(PC!Begin(c) \/ PC!Retry(c)))
    /\ WF_vars(Bridge(CB!PollStep)) /\ WF_vars(Bridge(CB!DispatchStep))
    /\ WF_vars(Gateway(DG!Connect \/ DG!Leave))

(* What happens if there is a chance again and again: a background loop    *)
(* takes the shutdown branch of its select, which polls in random order; a *)
(* call that reaches a working provider is not aborted; Telegram answers a *)
(* request, and a turn ends instead of asking for another approval;        *)
(* Discord answers and sends before the connection drops.  (One loop runs  *)
(* in a behaviour, so a disjunction over the loops is a condition on each.)*)
StrongFairness ==
    /\ SF_vars(\/ Background(\E a \in Agents : BG!Exit(a))
               \/ Breaker(\E c \in Calls : PC!Succeed(c))
               \/ Bridge(CB!Answer)
               \/ Gateway(DG!Hello))
    /\ SF_vars(Bridge(CB!EndTurn) \/ Gateway(DG!Ready \/ DG!Resumed \/ DG!Invalid))
    /\ SF_vars(Gateway(DG!Deliver))

Spec == Init /\ [][Next]_vars /\ WeakFairness /\ StrongFairness

-----------------------------------------------------------------------------
(* Type invariants of the loops.                                           *)
TypeOK == BG!TypeOK /\ PC!TypeOK /\ CB!TypeOK /\ DG!TypeOK

(* The background loops (see BackgroundExecutor): permits are neither lost *)
(* nor duplicated by kills, panics and the shutdown, and an agent's ticks  *)
(* do not overlap.                                                         *)
BackgroundSound == BG!PermitsConserved /\ BG!OneTickPerAgent

(* The circuit breaker (see ProviderCooldown): probes are one interval     *)
(* apart from the last failure.                                            *)
ProbesAreThrottled == PC!ProbesAreThrottled

(* The bridge (see ChannelBridge): between two starts no message is        *)
(* dispatched twice or out of order, and Telegram forgets none that was    *)
(* not dispatched, queued or dropped with the queue.                       *)
BridgeDelivers == CB!DispatchedOnce

(* The gateway (see DiscordGateway): over all reconnections a session's    *)
(* events are handed on in order, none twice, none left out.               *)
GatewayResumes == DG!EventsContiguous

(* And all of them go on: a busy background loop becomes free again, and   *)
(* every loop ends after the shutdown signal; a provider that works again  *)
(* for good is never locked out; every message is dispatched in the end,   *)
(* and stop() ends both tasks of the bridge; the gateway client gets a     *)
(* session again after every drop and catches up, and stop() ends it.      *)
LoopsGoOn ==
    /\ BG!EveryLoopTicks /\ BG!LoopsEnd
    /\ PC!RecoversWhenUp
    /\ CB!BridgeGoesOn
    /\ DG!GatewayGoesOn

=============================================================================
