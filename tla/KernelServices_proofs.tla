----------------------- MODULE KernelServices_proofs -----------------------
(***************************************************************************)
(* Proofs about the daemon's services, for any number of peers, slots,     *)
(* requests, devices, triggers, tasks, audit entries, calls and results,   *)
(* any clock skew and any values of the limits.                            *)
(***************************************************************************)
EXTENDS KernelServices, TLAPS, FiniteSetTheorems, SequenceTheorems, WellFoundedInduction

-----------------------------------------------------------------------------
(* The wire protocol's node.                                               *)

Handshake == [node : Nodes, ts : Int]

(* Types, as far as the proofs use them; nobody has accepted a handshake   *)
(* that was not sent.                                                      *)
WireTypes ==
    /\ now \in Nat
    /\ sent \in Seq(Handshake)
    /\ cache \subseteq [nonce : Nat, seen : Nat]
    /\ accepted \in [1..MaxSent -> Nat]
    /\ Len(sent) <= MaxSent
    /\ \A i \in 1..MaxSent : i > Len(sent) => accepted[i] = 0

(* A handshake is accepted once at most, and an accepted one is still in   *)
(* the cache, where it was put while fresh, or it is too old for good.     *)
Remembered(i) ==
    \/ \E e \in cache : e.nonce = i /\ sent[i].ts - e.seen <= Freshness
    \/ now - sent[i].ts > Freshness

WireInv ==
    /\ WireTypes
    /\ \A i \in 1..Len(sent) : accepted[i] <= 1 /\ (accepted[i] = 1 => Remembered(i))

LEMMA TimestampType ==
    ASSUME WireTypes, NEW i \in 1..Len(sent)
    PROVE  sent[i].ts \in Int
<1>1. sent[i] \in Handshake
  BY DEF WireTypes
<1> QED BY <1>1 DEF Handshake

LEMMA CacheType ==
    ASSUME WireTypes, NEW e \in cache
    PROVE  e.nonce \in Nat /\ e.seen \in Nat
BY DEF WireTypes

(* A nonce that the cache has dropped belongs to a stale handshake: it was *)
(* kept for longer than twice the freshness window.                        *)
LEMMA DroppedIsStale ==
    ASSUME WireTypes, NEW i \in 1..Len(sent), NEW e \in cache,
           sent[i].ts - e.seen <= Freshness, e \notin WP!Retained
    PROVE  now - sent[i].ts > Freshness
<1>1. sent[i].ts \in Int /\ e.seen \in Nat /\ now \in Nat
  BY TimestampType, CacheType DEF WireTypes
<1>2. now - e.seen >= NonceTTL
  <2>1. ~(now - e.seen < NonceTTL)
    BY DEF WP!Retained
  <2> QED BY <1>1, <2>1, ServicesAssumption
<1>3. Freshness \in Nat /\ NonceTTL \in Nat /\ NonceTTL > 2 * Freshness
  BY ServicesAssumption
<1> QED BY <1>1, <1>2, <1>3

(* So an accepted handshake that is not remembered any more is stale, and  *)
(* what register_nonce drops does not matter.                              *)
LEMMA RetainedRemembers ==
    ASSUME WireTypes, NEW i \in 1..Len(sent), Remembered(i)
    PROVE  \/ \E e \in WP!Retained : e.nonce = i /\ sent[i].ts - e.seen <= Freshness
           \/ now - sent[i].ts > Freshness
BY DroppedIsStale DEF Remembered

LEMMA WireInit == WP!Init => WireInv
<1> SUFFICES ASSUME WP!Init PROVE WireInv
  OBVIOUS
<1>1. sent = <<>> /\ sent \in Seq(Handshake) /\ Len(sent) = 0
  BY DEF WP!Init
<1> QED BY <1>1, ServicesAssumption DEF WP!Init, WireInv, WireTypes

LEMMA WireStep == WireInv /\ WP!Next => WireInv'
<1> SUFFICES ASSUME WireInv, WP!Next PROVE WireInv'
  OBVIOUS
<1>0. WireTypes /\ MaxSent \in Nat /\ Freshness \in Nat
  BY ServicesAssumption DEF WireInv
<1>1. CASE WP!Tick
  <2>1. now \in Nat /\ now' = now + 1 /\ UNCHANGED <<sent, cache, accepted>>
    BY <1>0, <1>1 DEF WP!Tick, WireTypes
  <2>2. WireTypes'
    BY <1>0, <2>1 DEF WireTypes
  <2>3. \A i \in 1..Len(sent) : Remembered(i) => Remembered(i)'
    BY <1>0, <2>1, TimestampType DEF Remembered
  <2> QED BY <2>1, <2>2, <2>3 DEF WireInv
<1>2. ASSUME NEW n \in Nodes, NEW skew \in -MaxSkew..MaxSkew, WP!Send(n, skew)
      PROVE  WireInv'
  <2> DEFINE m == [node |-> n, ts |-> now + skew]
  <2>1. m \in Handshake
    BY <1>0, ServicesAssumption DEF Handshake, WireTypes
  <2>2. /\ sent' = Append(sent, m) /\ Len(sent) < MaxSent
        /\ UNCHANGED <<now, cache, accepted>>
    BY <1>2 DEF WP!Send
  <2> HIDE DEF m
  <2>3. /\ sent' \in Seq(Handshake) /\ Len(sent') = Len(sent) + 1
        /\ \A i \in 1..Len(sent) : sent'[i] = sent[i]
    BY <1>0, <2>1, <2>2 DEF WireTypes
  <2>4. Len(sent) \in Nat /\ accepted[Len(sent) + 1] = 0
    BY <1>0, <2>2 DEF WireTypes
  <2>5. WireTypes'
    <3>1. Len(sent') <= MaxSent /\ \A i \in 1..MaxSent : i > Len(sent') => accepted[i] = 0
      BY <1>0, <2>2, <2>3, <2>4 DEF WireTypes
    <3>2. /\ now' \in Nat /\ cache' \subseteq [nonce : Nat, seen : Nat]
          /\ accepted' \in [1..MaxSent -> Nat]
      BY <1>0, <2>2 DEF WireTypes
    <3> QED BY <2>2, <2>3, <3>1, <3>2 DEF WireTypes
  <2>6. \A i \in 1..Len(sent) : Remembered(i) => Remembered(i)'
    BY <2>2, <2>3 DEF Remembered
  <2> QED BY <2>2, <2>3, <2>4, <2>5, <2>6 DEF WireInv
<1>3. ASSUME NEW k \in WP!Slots, NEW i \in 1..MaxSent, WP!Accept(k, i)
      PROVE  WireInv'
  <2> DEFINE new == [nonce |-> i, seen |-> now]
  <2>1. /\ cache' = WP!Retained \cup {new} /\ UNCHANGED <<now, sent>>
        /\ accepted' = [accepted EXCEPT ![i] = @ + 1]
        /\ i \in DOMAIN sent /\ WP!Fresh(sent[i].ts) /\ ~WP!Known(i)
    BY <1>3 DEF WP!Accept
  <2>2. i \in 1..Len(sent) /\ sent[i].ts \in Int
    <3>1. i \in 1..Len(sent)
      BY <1>0, <2>1 DEF WireTypes
    <3> QED BY <1>0, <3>1, TimestampType
  <2>3. now - sent[i].ts <= Freshness /\ sent[i].ts - now <= Freshness
    BY <2>1 DEF WP!Fresh
  <2>4. ~Remembered(i)
    <3>1. ~(now - sent[i].ts > Freshness)
      BY <1>0, <2>2, <2>3 DEF WireTypes
    <3>2. ~\E e \in WP!Retained : e.nonce = i
      BY <2>1 DEF WP!Known
    <3> QED BY <1>0, <2>2, <3>1, <3>2, RetainedRemembers
  <2>5. accepted[i] = 0
    BY <1>0, <2>2, <2>4 DEF WireInv, WireTypes
  <2>6. WireTypes'
    <3>1. cache' \subseteq [nonce : Nat, seen : Nat]
      BY <1>0, <2>1 DEF WireTypes, WP!Retained
    <3>2. accepted' \in [1..MaxSent -> Nat]
      BY <1>0, <2>1 DEF WireTypes
    <3>3. \A j \in 1..MaxSent : j > Len(sent) => accepted'[j] = 0
      BY <1>0, <2>1, <2>2 DEF WireTypes
    <3> QED BY <1>0, <2>1, <3>1, <3>2, <3>3 DEF WireTypes
  <2>7. Remembered(i)'
    <3>1. new \in cache' /\ new.nonce = i /\ new.seen = now
      BY <2>1
    <3> QED BY <2>1, <2>3, <3>1 DEF Remembered
  <2>8. \A j \in 1..Len(sent) : Remembered(j) => Remembered(j)'
    BY <1>0, <2>1, RetainedRemembers DEF Remembered
  <2>9. /\ accepted'[i] = 1
        /\ \A j \in 1..Len(sent) : j # i => accepted'[j] = accepted[j]
    BY <1>0, <2>1, <2>2, <2>5 DEF WireTypes
  <2> QED BY <2>1, <2>6, <2>7, <2>8, <2>9 DEF WireInv
<1>4. ASSUME NEW k \in WP!Slots, NEW i \in 1..MaxSent, WP!Reject(k, i)
      PROVE  WireInv'
  <2>1. (cache' = WP!Retained \/ cache' = cache) /\ UNCHANGED <<now, sent, accepted>>
    BY <1>4 DEF WP!Reject
  <2>2. WireTypes'
    BY <1>0, <2>1 DEF WireTypes, WP!Retained
  <2>3. \A j \in 1..Len(sent) : Remembered(j) => Remembered(j)'
    BY <1>0, <2>1, RetainedRemembers DEF Remembered
  <2> QED BY <2>1, <2>2, <2>3 DEF WireInv
<1>5. ASSUME UNCHANGED <<now, sent, cache, accepted>>
      PROVE  WireInv'
  BY <1>5 DEF WireInv, WireTypes, Remembered
<1> QED
  BY <1>1, <1>2, <1>3, <1>4, <1>5
     DEF WP!Next, WP!Connect, WP!Register, WP!AckFails, WP!ShuttingDown, WP!Close, WP!Finish

LEMMA WireNext == WireInv /\ [Next]_vars => WireInv'
<1>1. WireInv /\ UNCHANGED wpVars => WireInv'
  BY DEF wpVars, WireInv, WireTypes, Remembered
<1> QED BY <1>1, WireStep DEF Next, Triggers, Audit, Pairing, Guard, Wire, vars

(* However late and often it is delivered, a handshake is accepted once.   *)
THEOREM HandshakesAreAcceptedOnce == Spec => []HandshakeAcceptedOnce
<1>1. Init => WireInv
  BY WireInit DEF Init
<1>3. WireInv => HandshakeAcceptedOnce
  BY DEF WireInv, WireTypes, HandshakeAcceptedOnce, WP!HandshakeAcceptedOnce
<1> QED BY <1>1, <1>3, WireNext, PTL DEF Spec

(* The peers' list.  Two connections of one peer that exist at one time    *)
(* have made it an overlapped one; without this the end of the one would   *)
(* hide the other.                                                         *)
Exists(k) == conn[k].pc \in {"open", "closed"}

OverlapNoted ==
    \A n \in Nodes : \A j, k \in WP!Slots :
        j # k /\ Exists(j) /\ Exists(k) /\ n \in conn[j].node /\ n \in conn[k].node
           => n \in overlapped

PeerInv ==
    /\ conn \in [WP!Slots -> [pc : {"idle", "ack", "open", "closed"}, node : SUBSET Nodes]]
    /\ peers \in [Nodes -> {"unknown", "connected", "disconnected"}]
    /\ OverlapNoted
    /\ WP!ConnectedIsLive
    /\ WP!SingleConnectionIsListed

LEMMA PeerInit == WP!Init => PeerInv
<1> SUFFICES ASSUME WP!Init PROVE PeerInv
  OBVIOUS
<1>2. conn = [k \in WP!Slots |-> [pc |-> "idle", node |-> {}]]
  BY DEF WP!Init, WP!Idle
<1>3. \A k \in WP!Slots : conn[k].pc = "idle"
  BY <1>2
<1>4. peers = [n \in Nodes |-> "unknown"]
  BY DEF WP!Init
<1>5. \A n \in Nodes : peers[n] = "unknown"
  BY <1>4
<1>6. OverlapNoted
  BY <1>3 DEF OverlapNoted, Exists
<1>7. WP!ConnectedIsLive
  BY <1>5 DEF WP!ConnectedIsLive
<1>8. WP!SingleConnectionIsListed
  BY <1>3 DEF WP!SingleConnectionIsListed
<1> QED BY <1>2, <1>4, <1>6, <1>7, <1>8 DEF PeerInv

LEMMA PeerStep == WireTypes /\ PeerInv /\ WP!Next => PeerInv'
<1> SUFFICES ASSUME WireTypes, PeerInv, WP!Next PROVE PeerInv'
  OBVIOUS
<1> DEFINE Connections == [pc : {"idle", "ack", "open", "closed"}, node : SUBSET Nodes]
<1>0. conn \in [WP!Slots -> Connections]
  BY DEF PeerInv
<1>1. ASSUME UNCHANGED <<conn, peers, overlapped, leaving>> PROVE PeerInv'
  BY <1>1 DEF PeerInv, OverlapNoted, Exists, WP!ConnectedIsLive, WP!Live,
              WP!SingleConnectionIsListed
<1>2. ASSUME NEW k \in WP!Slots, NEW c \in Connections, ~Exists(k), c.pc \in {"idle", "ack"},
             conn' = [conn EXCEPT ![k] = c], UNCHANGED <<peers, overlapped, leaving>>
      PROVE  PeerInv'
  <2>1. /\ conn' \in [WP!Slots -> Connections] /\ conn'[k] = c
        /\ \A j \in WP!Slots \ {k} : conn'[j] = conn[j]
    BY <1>0, <1>2
  <2>2. ~Exists(k)'
    BY <1>2, <2>1 DEF Exists
  <2>3. OverlapNoted'
    BY <1>2, <2>1, <2>2 DEF PeerInv, OverlapNoted, Exists
  <2>4. WP!ConnectedIsLive'
    BY <1>2, <2>1, <2>2 DEF PeerInv, WP!ConnectedIsLive, WP!Live, Exists
  <2>5. WP!SingleConnectionIsListed'
    BY <1>2, <2>1, <2>2 DEF PeerInv, WP!SingleConnectionIsListed, Exists
  <2> QED BY <1>2, <2>1, <2>3, <2>4, <2>5 DEF PeerInv
<1>3. ASSUME NEW k \in WP!Slots, NEW i \in 1..MaxSent, WP!Accept(k, i) PROVE PeerInv'
  <2>1. sent[i] \in Handshake
    BY <1>3 DEF WP!Accept, WireTypes
  <2>2. [pc |-> "ack", node |-> {sent[i].node}] \in Connections
    BY <2>1 DEF Handshake
  <2> QED BY <1>2, <1>3, <2>2 DEF WP!Accept, Exists
<1>4. ASSUME NEW k \in WP!Slots, NEW n \in Nodes, WP!Connect(k, n) PROVE PeerInv'
  <2>1. [pc |-> "ack", node |-> {n}] \in Connections
    OBVIOUS
  <2> QED BY <1>2, <1>4, <2>1 DEF WP!Connect, Exists
<1>5. ASSUME NEW k \in WP!Slots, WP!AckFails(k) PROVE PeerInv'
  <2>1. [pc |-> "idle", node |-> {}] \in Connections
    OBVIOUS
  <2> QED BY <1>2, <1>5, <2>1 DEF WP!AckFails, WP!Idle, Exists
<1>6. ASSUME NEW k \in WP!Slots, WP!Register(k) PROVE PeerInv'
  <2>1. /\ conn' \in [WP!Slots -> Connections]
        /\ conn[k].pc = "ack" /\ conn'[k].pc = "open" /\ conn'[k].node = conn[k].node
        /\ \A j \in WP!Slots \ {k} : conn'[j] = conn[j]
    BY <1>0, <1>6 DEF WP!Register
  <2>2. /\ peers' = [n \in Nodes |-> IF n \in conn[k].node THEN "connected" ELSE peers[n]]
        /\ leaving' = leaving \ conn[k].node
        /\ overlapped' = overlapped \cup
              {n \in conn[k].node : \E j \in WP!Slots \ {k} : n \in conn[j].node /\ Exists(j)}
    BY <1>6 DEF WP!Register, Exists
  <2>3. peers' \in [Nodes -> {"unknown", "connected", "disconnected"}]
    BY <2>2 DEF PeerInv
  <2>4. OverlapNoted'
    BY <2>1, <2>2 DEF PeerInv, OverlapNoted, Exists
  <2>5. WP!ConnectedIsLive'
    BY <2>1, <2>2 DEF PeerInv, WP!ConnectedIsLive, WP!Live
  <2>6. WP!SingleConnectionIsListed'
    BY <2>1, <2>2 DEF PeerInv, WP!SingleConnectionIsListed
  <2> QED BY <2>1, <2>3, <2>4, <2>5, <2>6 DEF PeerInv
<1>7. ASSUME NEW k \in WP!Slots, WP!ShuttingDown(k) PROVE PeerInv'
  <2>1. /\ peers' = [n \in Nodes |-> IF n \in conn[k].node /\ peers[n] # "unknown"
                                     THEN "disconnected" ELSE peers[n]]
        /\ leaving' = leaving \cup conn[k].node
        /\ UNCHANGED <<conn, overlapped>>
    BY <1>7 DEF WP!ShuttingDown, WP!MarkDisconnected
  <2>2. peers' \in [Nodes -> {"unknown", "connected", "disconnected"}]
    BY <2>1 DEF PeerInv
  <2>3. OverlapNoted'
    BY <2>1 DEF PeerInv, OverlapNoted, Exists
  <2>4. WP!ConnectedIsLive'
    BY <2>1 DEF PeerInv, WP!ConnectedIsLive, WP!Live
  <2>5. WP!SingleConnectionIsListed'
    BY <2>1 DEF PeerInv, WP!SingleConnectionIsListed
  <2> QED BY <1>0, <2>1, <2>2, <2>3, <2>4, <2>5 DEF PeerInv
<1>8. ASSUME NEW k \in WP!Slots, WP!Close(k) PROVE PeerInv'
  <2>1. /\ conn' \in [WP!Slots -> Connections]
        /\ conn[k].pc = "open" /\ conn'[k].pc = "closed" /\ conn'[k].node = conn[k].node
        /\ \A j \in WP!Slots \ {k} : conn'[j] = conn[j]
        /\ UNCHANGED <<peers, overlapped, leaving>>
    BY <1>0, <1>8 DEF WP!Close
  <2>2. OverlapNoted'
    BY <2>1 DEF PeerInv, OverlapNoted, Exists
  <2>3. WP!ConnectedIsLive'
    BY <2>1 DEF PeerInv, WP!ConnectedIsLive, WP!Live
  <2>4. WP!SingleConnectionIsListed'
    BY <2>1 DEF PeerInv, WP!SingleConnectionIsListed
  <2> QED BY <2>1, <2>2, <2>3, <2>4 DEF PeerInv
<1>9. ASSUME NEW k \in WP!Slots, WP!Finish(k) PROVE PeerInv'
  <2>0. [pc |-> "idle", node |-> {}] \in Connections
    OBVIOUS
  <2>1. /\ conn' \in [WP!Slots -> Connections]
        /\ conn[k].pc = "closed" /\ conn'[k].pc = "idle" /\ conn'[k].node = {}
        /\ \A j \in WP!Slots \ {k} : conn'[j] = conn[j]
        /\ UNCHANGED <<overlapped, leaving>>
    BY <1>0, <1>9, <2>0 DEF WP!Finish, WP!Idle
  <2>2. peers' = [n \in Nodes |-> IF n \in conn[k].node /\ peers[n] # "unknown"
                                  THEN "disconnected" ELSE peers[n]]
    BY <1>9 DEF WP!Finish, WP!MarkDisconnected
  <2>3. peers' \in [Nodes -> {"unknown", "connected", "disconnected"}]
    BY <2>2 DEF PeerInv
  <2>4. OverlapNoted'
    BY <2>1 DEF PeerInv, OverlapNoted, Exists
  <2>5. WP!ConnectedIsLive'
    BY <2>1, <2>2 DEF PeerInv, WP!ConnectedIsLive, WP!Live
  <2>6. WP!SingleConnectionIsListed'
    BY <2>1, <2>2 DEF PeerInv, OverlapNoted, Exists, WP!SingleConnectionIsListed
  <2> QED BY <2>1, <2>3, <2>4, <2>5, <2>6 DEF PeerInv
<1> QED
  BY <1>1, <1>3, <1>4, <1>5, <1>6, <1>7, <1>8, <1>9
     DEF WP!Next, WP!Tick, WP!Send, WP!Reject

(* The list of peers is right: no ghosts, and a single connection shows.   *)
THEOREM PeerListIsSound == Spec => []PeerStateSound
<1>1. Init => WireInv /\ PeerInv
  BY WireInit, PeerInit DEF Init
<1>2. WireInv /\ PeerInv /\ [Next]_vars => WireInv' /\ PeerInv'
  <2>1. PeerInv /\ UNCHANGED wpVars => PeerInv'
    BY DEF wpVars, PeerInv, OverlapNoted, Exists, WP!ConnectedIsLive, WP!Live,
           WP!SingleConnectionIsListed
  <2>2. WireInv /\ PeerInv /\ WP!Next => PeerInv'
    BY PeerStep DEF WireInv
  <2> QED BY <2>1, <2>2, WireNext DEF Next, Triggers, Audit, Pairing, Guard, Wire, vars
<1>3. PeerInv => PeerStateSound
  BY DEF PeerInv, PeerStateSound
<1> QED BY <1>1, <1>2, <1>3, PTL DEF Spec

-----------------------------------------------------------------------------
(* Device pairing.                                                         *)

Requests ==
    [pc : {"idle", "clean", "recheck", "insert", "found", "checked", "removed", "save", "forget"},
     token : Nat, dev : SUBSET Devices]

(* A request that creates a token holds neither token nor device.          *)
Creating == {"idle", "clean", "recheck", "insert"}

PairTypes ==
    /\ issued \in Nat /\ issued <= MaxTokens /\ reboots \in Nat
    /\ pending \subseteq 1..issued
    /\ devices \subseteq Devices /\ table \subseteq Devices
    /\ op \in [Handlers -> Requests]
    /\ \A h \in Handlers :
          /\ op[h].token <= issued
          /\ op[h].pc \in {"found", "checked", "removed"} => op[h].token > 0
          /\ op[h].pc \in Creating => op[h].token = 0 /\ op[h].dev = {}
          /\ op[h].pc \notin Creating => \E d \in Devices : op[h].dev = {d}
    /\ uses \in [1..MaxTokens -> Nat]
    /\ peak \in Nat

(* A token that no two requests held at one time has not been used, or it  *)
(* was used once and is neither pending nor in anybody's hands.            *)
Spent(t) == uses[t] = 1 /\ t \notin pending /\ \A h \in Handlers : op[h].token # t

TokenInv ==
    /\ \A t \in 1..MaxTokens : t \notin raced =>
          /\ uses[t] = 0 \/ Spent(t)
          /\ t > issued => uses[t] = 0
          /\ \A g, h \in Handlers : op[g].token = t /\ op[h].token = t => g = h
    /\ \A h \in Handlers : op[h].pc = "removed" => op[h].token \notin pending

(* Where a device is while a request is about to write the table: in the   *)
(* map at "save", out of it at "forget"; and no second request has it.     *)
TableInv ==
    /\ \A d \in Devices \ mixed : \A g, h \in Handlers :
          d \in op[g].dev /\ d \in op[h].dev => g = h
    /\ \A h \in Handlers : \A d \in op[h].dev \ mixed :
          /\ op[h].pc = "save" => d \in devices
          /\ op[h].pc = "forget" => d \notin devices
    /\ DP!TableMatchesDevices

Passing == DP!At({"checked", "removed"})

PairInv == PairTypes /\ TokenInv /\ TableInv /\ DP!DeviceLimitOvershoot

(* The instance's cardinalities are the ones the library's theorems are    *)
(* about.                                                                  *)
LEMMA PairingCardinality == ASSUME NEW S PROVE DP!Cardinality(S) = Cardinality(S)
BY DEF DP!Cardinality, Cardinality

LEMMA PairInit == DP!Init => PairInv
<1> SUFFICES ASSUME DP!Init PROVE PairInv
  OBVIOUS
<1>1. op = [h \in Handlers |-> [pc |-> "idle", token |-> 0, dev |-> {}]]
  BY DEF DP!Init, DP!Idle
<1>2. \A h \in Handlers : op[h].pc = "idle" /\ op[h].token = 0 /\ op[h].dev = {}
  BY <1>1
<1>3. op \in [Handlers -> Requests]
  BY <1>1 DEF Requests
<1>4. PairTypes
  BY <1>2, <1>3, ServicesAssumption DEF DP!Init, DP!Tokens, PairTypes, Creating
<1>5. TokenInv
  BY <1>2 DEF DP!Init, DP!Tokens, TokenInv
<1>6. TableInv
  BY <1>2 DEF DP!Init, TableInv, DP!TableMatchesDevices, DP!At
<1>7. DP!DeviceLimitOvershoot
  <2>1. DP!Counted = {} /\ DP!At({"checked", "removed"}) = {} /\ peak = 0
    BY <1>2 DEF DP!Init, DP!Counted, DP!At
  <2>2. Cardinality({}) = 0 /\ MaxDevices \in Nat
    BY FS_EmptySet, ServicesAssumption
  <2>3. DP!Cardinality(DP!Counted) = 0 /\ DP!Cardinality(DP!At({"checked", "removed"})) = 0
    BY <2>1, <2>2, PairingCardinality
  <2> QED BY <2>1, <2>2, <2>3 DEF DP!DeviceLimitOvershoot
<1> QED BY <1>4, <1>5, <1>6, <1>7 DEF PairInv

(* What the steps of one request have in common: the request's record is   *)
(* replaced, the others stay.                                              *)
LEMMA RequestMoves ==
    ASSUME PairTypes, NEW h \in Handlers, NEW r \in Requests, op' = [op EXCEPT ![h] = r]
    PROVE  /\ op' \in [Handlers -> Requests] /\ op'[h] = r
           /\ \A g \in Handlers \ {h} : op'[g] = op[g]
BY DEF PairTypes

LEMMA PassingFinite == IsFiniteSet(Passing) /\ Passing \subseteq Handlers
<1>1. Passing \in SUBSET Handlers
  BY DEF Passing, DP!At
<1>2. IsFiniteSet(Handlers)
  BY ServicesAssumption
<1> QED BY <1>1, <1>2, FS_Subset

LEMMA IdleRequest == DP!Idle \in Requests
BY DEF DP!Idle, Requests

LEMMA RequestGoes ==
    ASSUME PairTypes, NEW h \in Handlers,
           NEW pc \in Creating \cup {"found", "checked", "removed", "save", "forget"},
           op' = [op EXCEPT ![h].pc = pc]
    PROVE  /\ op' \in [Handlers -> Requests]
           /\ op'[h].pc = pc /\ op'[h].token = op[h].token /\ op'[h].dev = op[h].dev
           /\ \A g \in Handlers \ {h} : op'[g] = op[g]
BY DEF PairTypes, Requests, Creating

(* The steps of create_pairing_request: the request's record stays without *)
(* token and device, and at the end there is one more token, a new one.    *)
TokenCreation(h) == DP!CreateRequest(h) \/ DP!CleanFirst(h) \/ DP!Recheck(h) \/ DP!InsertToken(h)

LEMMA CreationMoves ==
    ASSUME PairTypes, NEW h \in Handlers, TokenCreation(h)
    PROVE  /\ op' \in [Handlers -> Requests] /\ op[h].pc \in Creating /\ op'[h].pc \in Creating
           /\ op'[h].token = 0 /\ op'[h].dev = {} /\ \A g \in Handlers \ {h} : op'[g] = op[g]
           /\ \/ pending' \subseteq pending /\ issued' = issued
              \/ /\ issued < MaxTokens /\ issued' = issued + 1
                 /\ pending' \subseteq pending \cup {issued + 1}
           /\ UNCHANGED <<devices, table, reboots, uses, raced, mixed, peak>>
<1>1. op[h].pc \in Creating /\ op[h].token = 0 /\ op[h].dev = {}
  BY DEF TokenCreation, DP!CreateRequest, DP!CleanFirst, DP!Recheck, DP!InsertToken, Creating,
         PairTypes
<1>2. \/ DP!Done(h)
      \/ \E pc \in {"clean", "recheck", "insert"} : DP!Goto(h, pc)
  BY DEF TokenCreation, DP!CreateRequest, DP!CleanFirst, DP!Recheck, DP!InsertToken
<1>3. /\ op' \in [Handlers -> Requests] /\ op'[h].pc \in Creating
      /\ op'[h].token = 0 /\ op'[h].dev = {} /\ \A g \in Handlers \ {h} : op'[g] = op[g]
  <2>1. CASE DP!Done(h)
    <3>1. /\ op' \in [Handlers -> Requests] /\ op'[h] = DP!Idle
          /\ \A g \in Handlers \ {h} : op'[g] = op[g]
      BY <2>1, IdleRequest, RequestMoves DEF DP!Done
    <3> QED BY <3>1 DEF DP!Idle, Creating
  <2>2. ASSUME NEW pc \in {"clean", "recheck", "insert"}, DP!Goto(h, pc)
        PROVE  /\ op' \in [Handlers -> Requests] /\ op'[h].pc \in Creating
               /\ op'[h].token = 0 /\ op'[h].dev = {} /\ \A g \in Handlers \ {h} : op'[g] = op[g]
    <3>1. pc \in Creating
      BY DEF Creating
    <3> QED BY <1>1, <2>2, <3>1, RequestGoes DEF DP!Goto
  <2> QED BY <1>2, <2>1, <2>2
<1>4. \/ pending' \subseteq pending /\ issued' = issued
      \/ /\ issued < MaxTokens /\ issued' = issued + 1
         /\ pending' \subseteq pending \cup {issued + 1}
  BY DEF TokenCreation, DP!CreateRequest, DP!CleanFirst, DP!Recheck, DP!InsertToken
<1>5. UNCHANGED <<devices, table, reboots, uses, raced, mixed, peak>>
  BY DEF TokenCreation, DP!CreateRequest, DP!CleanFirst, DP!Recheck, DP!InsertToken, DP!history
<1> QED BY <1>1, <1>3, <1>4, <1>5

LEMMA PairTypesStep == PairTypes /\ DP!Next => PairTypes'
<1> SUFFICES ASSUME PairTypes, DP!Next PROVE PairTypes'
  OBVIOUS
<1>0. MaxTokens \in Nat
  BY ServicesAssumption
<1>1. ASSUME NEW h \in Handlers, TokenCreation(h) PROVE PairTypes'
  <2>1. \A g \in Handlers : op[g].token \in Nat
    BY DEF PairTypes, Requests
  <2>2. /\ issued' \in Nat /\ issued' <= MaxTokens /\ issued <= issued'
        /\ pending' \subseteq 1..issued'
    <3>1. \/ pending' \subseteq pending /\ issued' = issued
          \/ /\ issued < MaxTokens /\ issued' = issued + 1
             /\ pending' \subseteq pending \cup {issued + 1}
      BY <1>1, CreationMoves
    <3>2. issued \in Nat /\ issued <= MaxTokens /\ pending \subseteq 1..issued
      BY DEF PairTypes
    <3>3. CASE pending' \subseteq pending /\ issued' = issued
      BY <3>2, <3>3
    <3>4. CASE issued < MaxTokens /\ issued' = issued + 1 /\ pending' \subseteq pending \cup {issued + 1}
      <4>1. issued' \in Nat /\ issued' <= MaxTokens /\ issued <= issued'
        BY <1>0, <3>2, <3>4
      <4>2. \A k \in pending \cup {issued + 1} : k \in 1..(issued + 1)
        BY <3>2
      <4> QED BY <3>4, <4>1, <4>2
    <3> QED BY <3>1, <3>3, <3>4
  <2>3. \A g \in Handlers :
           /\ op'[g].token <= issued'
           /\ op'[g].pc \in {"found", "checked", "removed"} => op'[g].token > 0
           /\ op'[g].pc \in Creating => op'[g].token = 0 /\ op'[g].dev = {}
           /\ op'[g].pc \notin Creating => \E d \in Devices : op'[g].dev = {d}
    <3>1. /\ op'[h].pc \in Creating /\ op'[h].token = 0 /\ op'[h].dev = {}
          /\ op'[h].pc \notin {"found", "checked", "removed"}
      BY <1>1, CreationMoves DEF Creating
    <3>2. \A g \in Handlers \ {h} : op'[g] = op[g]
      BY <1>1, CreationMoves
    <3>3. \A g \in Handlers : op[g].token <= issued /\ issued \in Nat
      BY DEF PairTypes
    <3>4. \A g \in Handlers \ {h} : op'[g].token <= issued'
      BY <2>1, <2>2, <3>2, <3>3
    <3>5. op'[h].token <= issued'
      BY <2>2, <3>1
    <3> QED BY <3>1, <3>2, <3>4, <3>5 DEF PairTypes
  <2>4. op' \in [Handlers -> Requests] /\ UNCHANGED <<devices, table, reboots, uses, peak>>
    BY <1>1, CreationMoves
  <2> QED BY <2>2, <2>3, <2>4 DEF PairTypes
<1>2. ASSUME NEW t \in DP!Tokens, DP!Expire(t) PROVE PairTypes'
  BY <1>2 DEF PairTypes, DP!Expire, DP!history
<1>3. CASE DP!CleanExpired
  BY <1>3 DEF PairTypes, DP!CleanExpired, DP!history
<1>4. CASE DP!Reboot
  <2>1. op' = [h \in Handlers |-> [pc |-> "idle", token |-> 0, dev |-> {}]]
    BY <1>4 DEF DP!Reboot, DP!Idle
  <2>2. \A h \in Handlers : op'[h].pc = "idle" /\ op'[h].token = 0 /\ op'[h].dev = {}
    BY <2>1
  <2>3. op' \in [Handlers -> Requests]
    BY <2>1 DEF Requests
  <2>4. /\ reboots' = reboots + 1 /\ devices' \subseteq table /\ pending' = {}
        /\ UNCHANGED <<table, issued, uses, peak>>
    BY <1>4 DEF DP!Reboot
  <2> QED BY <2>2, <2>3, <2>4 DEF PairTypes, Creating
<1>5. ASSUME NEW h \in Handlers, NEW t \in DP!Tokens, NEW d \in Devices, DP!FindToken(h, t, d)
      PROVE  PairTypes'
  <2> DEFINE r == [pc |-> "found", token |-> t, dev |-> {d}]
  <2>1. t \in pending /\ t \in 1..issued
    BY <1>5 DEF DP!FindToken, PairTypes
  <2>2. r \in Requests
    BY <2>1 DEF Requests, PairTypes
  <2>3. op' = [op EXCEPT ![h] = r]
        /\ UNCHANGED <<pending, devices, table, issued, reboots, uses, peak>>
    BY <1>5 DEF DP!FindToken
  <2>4. /\ op' \in [Handlers -> Requests] /\ op'[h] = r
        /\ \A g \in Handlers \ {h} : op'[g] = op[g]
    BY <2>2, <2>3, RequestMoves
  <2>5. op'[h].pc = "found" /\ op'[h].token = t /\ op'[h].dev = {d}
    BY <2>4
  <2> QED BY <2>1, <2>3, <2>4, <2>5 DEF PairTypes, Creating
<1>6. ASSUME NEW h \in Handlers, DP!Done(h), pending' \subseteq pending, peak' = peak,
             UNCHANGED <<devices, issued, reboots, uses>>, table' \subseteq Devices
      PROVE  PairTypes'
  <2>1. /\ op' \in [Handlers -> Requests] /\ op'[h] = DP!Idle
        /\ \A g \in Handlers \ {h} : op'[g] = op[g]
    BY <1>6, IdleRequest, RequestMoves DEF DP!Done
  <2>2. op'[h].pc = "idle" /\ op'[h].token = 0 /\ op'[h].dev = {}
    BY <2>1 DEF DP!Idle
  <2> QED BY <1>6, <2>1, <2>2 DEF PairTypes, Creating
<1>7. ASSUME NEW h \in Handlers, NEW pc \in {"checked", "removed"},
             op[h].pc \in {"found", "checked"}, DP!Goto(h, pc),
             pending' \subseteq pending, peak' \in Nat,
             UNCHANGED <<devices, table, issued, reboots, uses>>
      PROVE  PairTypes'
  <2>1. /\ op' \in [Handlers -> Requests] /\ op'[h].pc = pc /\ op'[h].token = op[h].token
        /\ op'[h].dev = op[h].dev /\ \A g \in Handlers \ {h} : op'[g] = op[g]
    BY <1>7, RequestGoes DEF DP!Goto
  <2> QED BY <1>7, <2>1 DEF PairTypes, Creating
<1>8. ASSUME NEW h \in Handlers, DP!Check(h) PROVE PairTypes'
  <2>1. CASE DP!Goto(h, "checked")
    <3>1. DP!Cardinality(Passing) \in Nat
      BY PassingFinite, FS_CardinalityType, PairingCardinality
    <3>2. peak' \in Nat
      BY <1>8, <2>1, <3>1 DEF DP!Check, Passing, PairTypes
    <3> QED BY <1>7, <1>8, <2>1, <3>2 DEF DP!Check
  <2>2. CASE DP!Done(h) /\ peak' = peak
    BY <1>6, <1>8, <2>2 DEF DP!Check, PairTypes
  <2> QED BY <1>8, <2>1, <2>2 DEF DP!Check
<1>9. ASSUME NEW h \in Handlers, DP!RemoveToken(h) PROVE PairTypes'
  BY <1>7, <1>9 DEF DP!RemoveToken, DP!history, PairTypes
<1>10. ASSUME NEW h \in Handlers, DP!InsertDevice(h) PROVE PairTypes'
  <2>1. /\ op' \in [Handlers -> Requests] /\ op'[h].pc = "save" /\ op'[h].token = 0
        /\ op'[h].dev = op[h].dev /\ \A g \in Handlers \ {h} : op'[g] = op[g]
    BY <1>10 DEF DP!InsertDevice, PairTypes, Requests
  <2>2. op[h].token \in 1..MaxTokens /\ op[h].dev \subseteq Devices
    BY <1>0, <1>10 DEF DP!InsertDevice, PairTypes, Requests
  <2>3. /\ devices' = devices \cup op[h].dev /\ uses' = [uses EXCEPT ![op[h].token] = @ + 1]
        /\ UNCHANGED <<pending, table, issued, reboots, peak>>
    BY <1>10 DEF DP!InsertDevice
  <2>4. uses' \in [1..MaxTokens -> Nat] /\ devices' \subseteq Devices
    BY <2>2, <2>3 DEF PairTypes
  <2> QED BY <1>10, <2>1, <2>3, <2>4 DEF PairTypes, DP!InsertDevice, Creating
<1>11. ASSUME NEW h \in Handlers, DP!SaveDevice(h) \/ DP!ForgetDevice(h) PROVE PairTypes'
  <2>1. op[h].dev \subseteq Devices
    BY DEF PairTypes, Requests
  <2> QED BY <1>6, <1>11, <2>1 DEF DP!SaveDevice, DP!ForgetDevice, PairTypes
<1>12. ASSUME NEW h \in Handlers, NEW d \in Devices, DP!RemoveDevice(h, d) PROVE PairTypes'
  <2> DEFINE r == [pc |-> "forget", token |-> 0, dev |-> {d}]
  <2>1. r \in Requests
    BY DEF Requests
  <2>2. op' = [op EXCEPT ![h] = r] /\ devices' = devices \ {d}
        /\ UNCHANGED <<pending, table, issued, reboots, uses, peak>>
    BY <1>12 DEF DP!RemoveDevice
  <2>3. /\ op' \in [Handlers -> Requests] /\ op'[h] = r
        /\ \A g \in Handlers \ {h} : op'[g] = op[g]
    BY <2>1, <2>2, RequestMoves
  <2>4. op'[h].pc = "forget" /\ op'[h].token = 0 /\ op'[h].dev = {d}
    BY <2>3
  <2> QED BY <2>2, <2>3, <2>4 DEF PairTypes, Creating
<1> QED
  BY <1>1, <1>2, <1>3, <1>4, <1>5, <1>8, <1>9, <1>10, <1>11, <1>12 DEF DP!Next, TokenCreation


(* Steps that hand out no token and use none.                              *)
LEMMA TokensKept ==
    ASSUME PairTypes, TokenInv, pending' \subseteq pending, UNCHANGED <<uses, issued, raced>>,
           \A g \in Handlers :
              /\ op'[g].token \in {0, op[g].token}
              /\ op'[g].pc = "removed" => op[g].pc = "removed" \/ op'[g].token \notin pending'
              /\ op'[g].pc = "removed" => op'[g].token = op[g].token
    PROVE  TokenInv'
<1>1. ASSUME NEW t \in 1..MaxTokens, t \notin raced
      PROVE  /\ uses[t] = 0 \/ Spent(t)'
             /\ t > issued => uses[t] = 0
             /\ \A g, h \in Handlers : op'[g].token = t /\ op'[h].token = t => g = h
  <2>1. \A g \in Handlers : op'[g].token = t => op[g].token = t
    OBVIOUS
  <2> QED BY <1>1, <2>1 DEF TokenInv, Spent
<1>2. \A g \in Handlers : op'[g].pc = "removed" => op'[g].token \notin pending'
  BY DEF TokenInv
<1> QED BY <1>1, <1>2 DEF TokenInv

LEMMA TokenStep == PairTypes /\ TokenInv /\ DP!Next => TokenInv'
<1> SUFFICES ASSUME PairTypes, TokenInv, DP!Next PROVE TokenInv'
  OBVIOUS
<1>0. \A h \in Handlers : op[h].token \in Nat
  BY DEF PairTypes, Requests
<1>1. ASSUME NEW h \in Handlers, TokenCreation(h) PROVE TokenInv'
  <2>1. /\ op'[h].token = 0 /\ op'[h].pc # "removed" /\ \A g \in Handlers \ {h} : op'[g] = op[g]
        /\ UNCHANGED <<uses, raced>>
    BY <1>1, CreationMoves DEF Creating
  <2>2. CASE pending' \subseteq pending /\ issued' = issued
    BY <2>1, <2>2, TokensKept
  <2>3. CASE issued' = issued + 1 /\ pending' \subseteq pending \cup {issued + 1}
    <3>1. ASSUME NEW t \in 1..MaxTokens, t \notin raced, uses[t] # 0 PROVE t \notin pending'
      BY <2>3, <3>1 DEF TokenInv, Spent, PairTypes
    <3>2. ASSUME NEW g \in Handlers, op'[g].pc = "removed" PROVE op'[g].token \notin pending'
      BY <1>0, <2>1, <2>3, <3>2 DEF TokenInv, PairTypes
    <3>3. \A t \in 1..MaxTokens : \A g \in Handlers : op'[g].token = t => op[g].token = t
      BY <2>1
    <3> QED BY <2>1, <2>3, <3>1, <3>2, <3>3 DEF TokenInv, Spent, PairTypes
  <2> QED BY <1>1, <2>2, <2>3, CreationMoves
<1>2. ASSUME NEW t \in DP!Tokens, DP!Expire(t) PROVE TokenInv'
  BY <1>2, TokensKept DEF DP!Expire, DP!history
<1>3. CASE DP!CleanExpired
  BY <1>3, TokensKept DEF DP!CleanExpired, DP!history
<1>4. CASE DP!Reboot
  <2>1. op' = [h \in Handlers |-> [pc |-> "idle", token |-> 0, dev |-> {}]]
    BY <1>4 DEF DP!Reboot, DP!Idle
  <2>2. \A h \in Handlers : op'[h].pc = "idle" /\ op'[h].token = 0
    BY <2>1
  <2>3. pending' = {} /\ UNCHANGED <<issued, uses, raced>>
    BY <1>4 DEF DP!Reboot
  <2> QED BY <2>2, <2>3, TokensKept
<1>5. ASSUME NEW h \in Handlers, NEW t \in DP!Tokens, NEW d \in Devices, DP!FindToken(h, t, d)
      PROVE  TokenInv'
  <2>1. /\ t \in pending
        /\ op'[h].pc = "found" /\ op'[h].token = t
        /\ \A g \in Handlers \ {h} : op'[g] = op[g]
        /\ UNCHANGED <<pending, issued, uses>>
    BY <1>5 DEF DP!FindToken, PairTypes
  <2>2. raced \subseteq raced' /\ (\A g \in Handlers : op[g].token = t => t \in raced')
    BY <1>5 DEF DP!FindToken
  <2> QED BY <2>1, <2>2 DEF TokenInv, Spent
<1>6. ASSUME NEW h \in Handlers, DP!Done(h), pending' \subseteq pending,
             UNCHANGED <<uses, issued, raced>>
      PROVE  TokenInv'
  <2>1. op'[h] = DP!Idle /\ \A g \in Handlers \ {h} : op'[g] = op[g]
    BY <1>6, IdleRequest, RequestMoves DEF DP!Done
  <2>2. op'[h].pc = "idle" /\ op'[h].token = 0
    BY <2>1 DEF DP!Idle
  <2> QED BY <1>6, <2>1, <2>2, TokensKept
<1>7. ASSUME NEW h \in Handlers, DP!Check(h) PROVE TokenInv'
  <2>1. CASE DP!Goto(h, "checked")
    <3>1. /\ op'[h].pc = "checked" /\ op'[h].token = op[h].token
          /\ \A g \in Handlers \ {h} : op'[g] = op[g]
      BY <2>1, RequestGoes DEF DP!Goto
    <3>2. pending' \subseteq pending /\ UNCHANGED <<uses, issued, raced>>
      BY <1>7 DEF DP!Check
    <3> QED BY <3>1, <3>2, TokensKept
  <2>2. CASE DP!Done(h)
    BY <1>6, <1>7, <2>2 DEF DP!Check
  <2> QED BY <1>7, <2>1, <2>2 DEF DP!Check
<1>8. ASSUME NEW h \in Handlers, DP!RemoveToken(h) PROVE TokenInv'
  <2>1. /\ op'[h].pc = "removed" /\ op'[h].token = op[h].token
        /\ \A g \in Handlers \ {h} : op'[g] = op[g]
    BY <1>8, RequestGoes DEF DP!RemoveToken, DP!Goto
  <2>2. pending' = pending \ {op[h].token} /\ UNCHANGED <<uses, issued, raced>>
    BY <1>8 DEF DP!RemoveToken, DP!history
  <2> QED BY <2>1, <2>2, TokensKept
<1>9. ASSUME NEW h \in Handlers, DP!InsertDevice(h) PROVE TokenInv'
  <2>1. /\ op[h].pc = "removed" /\ op'[h].pc = "save" /\ op'[h].token = 0
        /\ \A g \in Handlers \ {h} : op'[g] = op[g]
    BY <1>9 DEF DP!InsertDevice, PairTypes, Requests
  <2>2. op[h].token \in 1..MaxTokens /\ op[h].token \in 1..issued
    BY <1>0, <2>1, ServicesAssumption DEF PairTypes
  <2>3. uses' = [uses EXCEPT ![op[h].token] = @ + 1] /\ UNCHANGED <<pending, issued, raced>>
    BY <1>9 DEF DP!InsertDevice
  <2>4. /\ uses'[op[h].token] = uses[op[h].token] + 1
        /\ \A t \in (1..MaxTokens) \ {op[h].token} : uses'[t] = uses[t]
    BY <2>2, <2>3 DEF PairTypes
  <2>5. \A g \in Handlers : op'[g].pc = "removed" => op'[g].token \notin pending'
    BY <2>1, <2>3 DEF TokenInv
  <2>6. ASSUME NEW t \in 1..MaxTokens, t \notin raced
        PROVE  /\ uses'[t] = 0 \/ Spent(t)'
               /\ t > issued => uses'[t] = 0
               /\ \A f, g \in Handlers : op'[f].token = t /\ op'[g].token = t => f = g
    <3>1. CASE t = op[h].token
      <4>1. uses[t] = 0 /\ t \notin pending /\ \A g \in Handlers \ {h} : op[g].token # t
        BY <2>1, <2>6, <3>1 DEF TokenInv, Spent
      <4>2. Spent(t)' /\ \A g \in Handlers : op'[g].token # t
        BY <2>1, <2>2, <2>3, <2>4, <3>1, <4>1 DEF Spent
      <4> QED BY <2>2, <3>1, <4>2 DEF PairTypes
    <3>2. CASE t # op[h].token
      BY <2>1, <2>3, <2>4, <2>6, <3>2 DEF TokenInv, Spent
    <3> QED BY <3>1, <3>2
  <2> QED BY <2>3, <2>5, <2>6 DEF TokenInv
<1>10. ASSUME NEW h \in Handlers, DP!SaveDevice(h) \/ DP!ForgetDevice(h) PROVE TokenInv'
  BY <1>6, <1>10 DEF DP!SaveDevice, DP!ForgetDevice
<1>11. ASSUME NEW h \in Handlers, NEW d \in Devices, DP!RemoveDevice(h, d) PROVE TokenInv'
  <2>1. /\ op'[h].pc = "forget" /\ op'[h].token = 0 /\ \A g \in Handlers \ {h} : op'[g] = op[g]
        /\ UNCHANGED <<pending, uses, issued, raced>>
    BY <1>11 DEF DP!RemoveDevice, PairTypes
  <2> QED BY <2>1, TokensKept
<1> QED
  BY <1>1, <1>2, <1>3, <1>4, <1>5, <1>7, <1>8, <1>9, <1>10, <1>11 DEF DP!Next, TokenCreation


LEMMA TableStep == PairTypes /\ TableInv /\ DP!Next => TableInv'
<1> SUFFICES ASSUME PairTypes, TableInv, DP!Next PROVE TableInv'
  OBVIOUS
<1>1. ASSUME UNCHANGED <<devices, table, op, mixed>> PROVE TableInv'
  BY <1>1 DEF TableInv, DP!TableMatchesDevices, DP!At
<1>2. CASE DP!Reboot
  <2>1. op' = [h \in Handlers |-> [pc |-> "idle", token |-> 0, dev |-> {}]]
    BY <1>2 DEF DP!Reboot, DP!Idle
  <2>2. \A h \in Handlers : op'[h].pc = "idle" /\ op'[h].dev = {}
    BY <2>1
  <2>3. PICK unread \in {{}, table} : devices' = table \ unread /\ unread \subseteq mixed'
    BY <1>2 DEF DP!Reboot
  <2>4. table' = table
    BY <1>2 DEF DP!Reboot
  <2>5. \A d \in Devices \ mixed' : d \in devices' <=> d \in table'
    BY <2>3, <2>4
  <2> QED BY <2>2, <2>5 DEF TableInv, DP!TableMatchesDevices, DP!At
<1>3. ASSUME NEW h \in Handlers, NEW t \in DP!Tokens, NEW d \in Devices, DP!FindToken(h, t, d)
      PROVE  TableInv'
  <2>1. /\ op[h].pc = "idle" /\ op'[h].pc = "found" /\ op'[h].dev = {d}
        /\ \A g \in Handlers \ {h} : op'[g] = op[g]
        /\ UNCHANGED <<devices, table>>
    BY <1>3 DEF DP!FindToken, PairTypes
  <2>2. mixed \subseteq mixed' /\ (\A g \in Handlers \ {h} : d \in op[g].dev => d \in mixed')
    BY <1>3 DEF DP!FindToken, DP!Rivals
  <2> QED BY <2>1, <2>2 DEF TableInv, DP!TableMatchesDevices, DP!At
<1>4. ASSUME NEW h \in Handlers, op[h].pc \in {"found", "checked"},
             op'[h].pc \in {"idle", "checked", "removed"}, op'[h].dev \subseteq op[h].dev,
             \A g \in Handlers \ {h} : op'[g] = op[g],
             UNCHANGED <<devices, table, mixed>>
      PROVE  TableInv'
  BY <1>4 DEF TableInv, DP!TableMatchesDevices, DP!At
<1>5. ASSUME NEW h \in Handlers, DP!Check(h) PROVE TableInv'
  <2>1. op[h].pc = "found" /\ UNCHANGED <<devices, table, mixed>>
    BY <1>5 DEF DP!Check
  <2>2. CASE DP!Goto(h, "checked")
    <3>1. /\ op'[h].pc = "checked" /\ op'[h].dev = op[h].dev
          /\ \A g \in Handlers \ {h} : op'[g] = op[g]
      BY <2>2, RequestGoes DEF DP!Goto
    <3> QED BY <1>4, <2>1, <3>1
  <2>3. CASE DP!Done(h)
    <3>1. op'[h] = DP!Idle /\ \A g \in Handlers \ {h} : op'[g] = op[g]
      BY <2>3, IdleRequest, RequestMoves DEF DP!Done
    <3>2. op'[h].pc = "idle" /\ op'[h].dev = {}
      BY <3>1 DEF DP!Idle
    <3> QED BY <1>4, <2>1, <3>1, <3>2
  <2> QED BY <1>5, <2>2, <2>3 DEF DP!Check
<1>6. ASSUME NEW h \in Handlers, DP!RemoveToken(h) PROVE TableInv'
  <2>1. /\ op'[h].pc = "removed" /\ op'[h].dev = op[h].dev
        /\ \A g \in Handlers \ {h} : op'[g] = op[g]
    BY <1>6, RequestGoes DEF DP!RemoveToken, DP!Goto
  <2>2. op[h].pc = "checked" /\ UNCHANGED <<devices, table, mixed>>
    BY <1>6 DEF DP!RemoveToken, DP!history
  <2> QED BY <1>4, <2>1, <2>2
<1>7. ASSUME NEW h \in Handlers, DP!InsertDevice(h) PROVE TableInv'
  <2>1. /\ op[h].pc = "removed" /\ op'[h].pc = "save" /\ op'[h].dev = op[h].dev
        /\ \A g \in Handlers \ {h} : op'[g] = op[g]
    BY <1>7 DEF DP!InsertDevice, PairTypes, Requests
  <2>2. PICK d \in Devices : op[h].dev = {d}
    BY <2>1 DEF PairTypes, Creating
  <2>3. devices' = devices \cup {d} /\ UNCHANGED <<table, mixed>>
    BY <1>7, <2>2 DEF DP!InsertDevice
  <2> QED BY <2>1, <2>2, <2>3 DEF TableInv, DP!TableMatchesDevices, DP!At
<1>8. ASSUME NEW h \in Handlers, DP!SaveDevice(h) \/ DP!ForgetDevice(h) PROVE TableInv'
  <2>1. op'[h] = DP!Idle /\ \A g \in Handlers \ {h} : op'[g] = op[g]
    BY <1>8, IdleRequest, RequestMoves DEF DP!Done, DP!SaveDevice, DP!ForgetDevice
  <2>2. op'[h].pc = "idle" /\ op'[h].dev = {}
    BY <2>1 DEF DP!Idle
  <2>3. devices' = devices /\ mixed \subseteq mixed'
    BY <1>8 DEF DP!SaveDevice, DP!ForgetDevice
  <2>4. op[h].pc \in {"save", "forget"}
    BY <1>8 DEF DP!SaveDevice, DP!ForgetDevice
  <2>5. PICK d \in Devices : op[h].dev = {d}
    BY <2>4 DEF PairTypes, Creating
  <2>6. /\ \A e \in Devices \ {d} : e \in table' <=> e \in table
        /\ d \in mixed' \/ (op[h].pc = "save" /\ d \in table')
                        \/ (op[h].pc = "forget" /\ d \notin table')
    BY <1>8, <2>5 DEF DP!SaveDevice, DP!ForgetDevice
  <2>7. \A e \in Devices \ mixed' : \A f, g \in Handlers :
            e \in op'[f].dev /\ e \in op'[g].dev => f = g
    BY <2>1, <2>2, <2>3 DEF TableInv
  <2>8. \A g \in Handlers : \A e \in op'[g].dev \ mixed' :
            (op'[g].pc = "save" => e \in devices') /\ (op'[g].pc = "forget" => e \notin devices')
    BY <2>1, <2>2, <2>3 DEF TableInv
  <2>9. ASSUME NEW e \in Devices \ mixed',
               \A g \in Handlers : op'[g].pc \in {"save", "forget"} => e \notin op'[g].dev
        PROVE  e \in devices' <=> e \in table'
    <3>1. CASE e = d
      BY <2>3, <2>5, <2>6, <2>9, <3>1 DEF TableInv
    <3>2. CASE e # d
      <4>1. \A g \in Handlers : op[g].pc \in {"save", "forget"} => e \notin op[g].dev
        BY <2>1, <2>5, <2>9, <3>2
      <4> QED BY <2>3, <2>6, <2>9, <3>2, <4>1 DEF TableInv, DP!TableMatchesDevices, DP!At
    <3> QED BY <3>1, <3>2
  <2> QED BY <2>7, <2>8, <2>9 DEF TableInv, DP!TableMatchesDevices, DP!At
<1>9. ASSUME NEW h \in Handlers, NEW d \in Devices, DP!RemoveDevice(h, d) PROVE TableInv'
  <2>1. /\ op[h].pc = "idle" /\ op'[h].pc = "forget" /\ op'[h].dev = {d}
        /\ \A g \in Handlers \ {h} : op'[g] = op[g]
        /\ devices' = devices \ {d} /\ table' = table
    BY <1>9 DEF DP!RemoveDevice, PairTypes
  <2>2. mixed \subseteq mixed' /\ (\A g \in Handlers \ {h} : d \in op[g].dev => d \in mixed')
    BY <1>9 DEF DP!RemoveDevice, DP!Rivals
  <2> QED BY <2>1, <2>2 DEF TableInv, DP!TableMatchesDevices, DP!At
<1>10. ASSUME NEW h \in Handlers, TokenCreation(h) PROVE TableInv'
  <2>1. op[h].pc \in Creating /\ op[h].dev = {}
    BY <1>10, CreationMoves DEF PairTypes
  <2> QED BY <1>10, <2>1, CreationMoves DEF Creating, TableInv, DP!TableMatchesDevices, DP!At
<1> QED
  BY <1>1, <1>2, <1>3, <1>5, <1>6, <1>7, <1>8, <1>9, <1>10
     DEF DP!Next, TokenCreation, DP!Expire, DP!CleanExpired, DP!history

(* The sets that are counted are finite; smaller ones keep the bound.      *)
LEMMA CountedFinite ==
    ASSUME PairTypes PROVE IsFiniteSet(devices) /\ IsFiniteSet(DP!Counted) /\ DP!Counted \subseteq devices
<1>1. IsFiniteSet(Devices)
  BY ServicesAssumption
<1>2. IsFiniteSet(devices)
  BY <1>1, FS_Subset DEF PairTypes
<1>3. DP!Counted \subseteq devices
  BY DEF DP!Counted
<1> QED BY <1>2, <1>3, FS_Subset

LEMMA LimitKept ==
    ASSUME PairTypes, DP!DeviceLimitOvershoot, peak' = peak,
           DP!Counted' \subseteq DP!Counted, Passing' \subseteq Passing
    PROVE  DP!DeviceLimitOvershoot'
<1>1. IsFiniteSet(DP!Counted) /\ IsFiniteSet(Passing)
  BY CountedFinite, PassingFinite
<1>2. /\ Cardinality(DP!Counted') <= Cardinality(DP!Counted)
      /\ Cardinality(Passing') <= Cardinality(Passing)
      /\ IsFiniteSet(DP!Counted') /\ IsFiniteSet(Passing')
  BY <1>1, FS_Subset
<1>3. /\ Cardinality(DP!Counted) \in Nat /\ Cardinality(DP!Counted') \in Nat
      /\ Cardinality(Passing) \in Nat /\ Cardinality(Passing') \in Nat
  BY <1>1, <1>2, FS_CardinalityType
<1>4. Cardinality(DP!Counted) + Cardinality(Passing) <= MaxDevices + peak
  BY PairingCardinality DEF DP!DeviceLimitOvershoot, Passing
<1>5. Cardinality(DP!Counted') + Cardinality(Passing') <= MaxDevices + peak'
  BY <1>2, <1>3, <1>4, ServicesAssumption DEF PairTypes
<1> QED BY <1>5, PairingCardinality DEF DP!DeviceLimitOvershoot, Passing


LEMMA LimitStep ==
    PairTypes /\ TableInv /\ DP!DeviceLimitOvershoot /\ DP!Next => DP!DeviceLimitOvershoot'
<1> SUFFICES ASSUME PairTypes, TableInv, DP!DeviceLimitOvershoot, DP!Next
             PROVE  DP!DeviceLimitOvershoot'
  OBVIOUS
<1>1. ASSUME UNCHANGED <<devices, op, reboots, mixed, peak>> PROVE DP!DeviceLimitOvershoot'
  BY <1>1, LimitKept DEF Passing, DP!At, DP!Counted
<1>2. CASE DP!Reboot
  <2>1. op' = [h \in Handlers |-> [pc |-> "idle", token |-> 0, dev |-> {}]]
    BY <1>2 DEF DP!Reboot, DP!Idle
  <2>2. \A h \in Handlers : op'[h].pc = "idle"
    BY <2>1
  <2>3. Passing' = {}
    BY <2>2 DEF Passing, DP!At
  <2>4. /\ reboots' = reboots + 1 /\ devices' \subseteq table /\ mixed \subseteq mixed' /\ peak' = peak
        /\ \A h \in Handlers : op[h].pc \in {"save", "forget"} => op[h].dev \subseteq mixed'
    BY <1>2 DEF DP!Reboot, DP!At
  <2>5. \A d \in Devices \ mixed' : d \in table => d \in devices
    BY <2>4 DEF TableInv, DP!TableMatchesDevices, DP!At
  <2>6. DP!Counted' \subseteq DP!Counted
    BY <2>4, <2>5 DEF DP!Counted, PairTypes
  <2> QED BY <2>3, <2>4, <2>6, LimitKept
<1>3. ASSUME NEW h \in Handlers, op'[h].pc \notin {"checked", "removed"},
             \A g \in Handlers \ {h} : op'[g] = op[g], devices' \subseteq devices,
             mixed \subseteq mixed', UNCHANGED <<reboots, peak>>
      PROVE  DP!DeviceLimitOvershoot'
  <2>1. Passing' \subseteq Passing
    BY <1>3 DEF Passing, DP!At
  <2>2. DP!Counted' \subseteq DP!Counted
    BY <1>3 DEF DP!Counted
  <2> QED BY <1>3, <2>1, <2>2, LimitKept
<1>4. ASSUME NEW h \in Handlers, NEW t \in DP!Tokens, NEW d \in Devices, DP!FindToken(h, t, d)
      PROVE  DP!DeviceLimitOvershoot'
  <2>1. /\ op'[h].pc = "found" /\ \A g \in Handlers \ {h} : op'[g] = op[g]
        /\ mixed \subseteq mixed' /\ UNCHANGED <<devices, reboots, peak>>
    BY <1>4 DEF DP!FindToken, PairTypes
  <2> QED BY <1>3, <2>1
<1>5. ASSUME NEW h \in Handlers, DP!Done(h), mixed \subseteq mixed',
             UNCHANGED <<devices, reboots, peak>>
      PROVE  DP!DeviceLimitOvershoot'
  <2>1. op'[h] = DP!Idle /\ \A g \in Handlers \ {h} : op'[g] = op[g]
    BY <1>5, IdleRequest, RequestMoves DEF DP!Done
  <2>2. op'[h].pc = "idle"
    BY <2>1 DEF DP!Idle
  <2> QED BY <1>3, <1>5, <2>1, <2>2
<1>6. ASSUME NEW h \in Handlers, DP!Check(h) PROVE DP!DeviceLimitOvershoot'
  <2>1. CASE DP!Done(h) /\ peak' = peak
    BY <1>5, <1>6, <2>1 DEF DP!Check
  <2>2. CASE ~(DP!Done(h) /\ peak' = peak)
    <3> DEFINE p == DP!Cardinality(DP!At({"checked", "removed"}))
    <3>1. /\ op[h].pc = "found" /\ DP!Goto(h, "checked")
          /\ ~(DP!Cardinality(devices) >= MaxDevices)
          /\ peak' = IF p >= peak THEN p + 1 ELSE peak
          /\ UNCHANGED <<devices, reboots, mixed>>
      BY <1>6, <2>2 DEF DP!Check
    <3>2. op'[h].pc = "checked" /\ \A g \in Handlers \ {h} : op'[g] = op[g]
      BY <3>1, RequestGoes DEF DP!Goto
    <3>3. Passing' = Passing \cup {h} /\ h \notin Passing
      BY <3>1, <3>2 DEF Passing, DP!At
    <3>4. /\ Cardinality(Passing') = Cardinality(Passing) + 1
          /\ Cardinality(Passing) \in Nat
      BY <3>3, PassingFinite, FS_AddElement, FS_CardinalityType
    <3>5. DP!Counted' = DP!Counted
      BY <3>1 DEF DP!Counted
    <3>6. /\ Cardinality(DP!Counted) <= Cardinality(devices)
          /\ Cardinality(DP!Counted) \in Nat /\ Cardinality(devices) \in Nat
      BY CountedFinite, FS_Subset, FS_CardinalityType
    <3>7. Cardinality(devices) < MaxDevices /\ MaxDevices \in Nat /\ p = Cardinality(Passing)
      BY <3>1, <3>6, PairingCardinality, ServicesAssumption DEF Passing
    <3>8. peak' >= p + 1 /\ peak' \in Nat
      BY <3>1, <3>4, <3>7 DEF PairTypes
    <3>9. Cardinality(DP!Counted') + Cardinality(Passing') <= MaxDevices + peak'
      BY <3>4, <3>5, <3>6, <3>7, <3>8
    <3> QED BY <3>9, PairingCardinality DEF DP!DeviceLimitOvershoot, Passing
  <2> QED BY <2>1, <2>2
<1>7. ASSUME NEW h \in Handlers, DP!RemoveToken(h) PROVE DP!DeviceLimitOvershoot'
  <2>1. op'[h].pc = "removed" /\ \A g \in Handlers \ {h} : op'[g] = op[g]
    BY <1>7, RequestGoes DEF DP!RemoveToken, DP!Goto
  <2>2. op[h].pc = "checked" /\ UNCHANGED <<devices, reboots, mixed, peak>>
    BY <1>7 DEF DP!RemoveToken, DP!history
  <2>3. Passing' \subseteq Passing /\ DP!Counted' = DP!Counted
    BY <2>1, <2>2 DEF Passing, DP!At, DP!Counted
  <2> QED BY <2>2, <2>3, LimitKept
<1>8. ASSUME NEW h \in Handlers, DP!InsertDevice(h) PROVE DP!DeviceLimitOvershoot'
  <2>1. /\ op[h].pc = "removed" /\ op'[h].pc = "save"
        /\ \A g \in Handlers \ {h} : op'[g] = op[g]
    BY <1>8 DEF DP!InsertDevice, PairTypes, Requests
  <2>2. PICK d \in Devices : op[h].dev = {d}
    BY <2>1 DEF PairTypes, Creating
  <2>3. devices' = devices \cup {d} /\ UNCHANGED <<reboots, mixed, peak>>
    BY <1>8, <2>2 DEF DP!InsertDevice
  <2>4. Passing' = Passing \ {h} /\ h \in Passing
    BY <2>1 DEF Passing, DP!At
  <2>5. Cardinality(Passing') = Cardinality(Passing) - 1 /\ Cardinality(Passing) \in Nat
    BY <2>4, PassingFinite, FS_RemoveElement, FS_CardinalityType
  <2>6. DP!Counted' \subseteq DP!Counted \cup {d}
    BY <2>3 DEF DP!Counted
  <2>7. /\ IsFiniteSet(DP!Counted \cup {d}) /\ Cardinality(DP!Counted) \in Nat
        /\ Cardinality(DP!Counted \cup {d}) <= Cardinality(DP!Counted) + 1
        /\ Cardinality(DP!Counted \cup {d}) \in Nat
    <3>1. IsFiniteSet(DP!Counted) /\ Cardinality(DP!Counted) \in Nat
      BY CountedFinite, FS_CardinalityType
    <3>2. /\ IsFiniteSet(DP!Counted \cup {d})
          /\ Cardinality(DP!Counted \cup {d}) \in {Cardinality(DP!Counted), Cardinality(DP!Counted) + 1}
      BY <3>1, FS_AddElement
    <3> QED BY <3>1, <3>2
  <2>8. Cardinality(DP!Counted') <= Cardinality(DP!Counted) + 1 /\ Cardinality(DP!Counted') \in Nat
    <3>1. IsFiniteSet(DP!Counted') /\ Cardinality(DP!Counted') <= Cardinality(DP!Counted \cup {d})
      BY <2>6, <2>7, FS_Subset
    <3>2. Cardinality(DP!Counted') \in Nat
      BY <3>1, FS_CardinalityType
    <3> QED BY <2>7, <3>1, <3>2
  <2>9. Cardinality(DP!Counted) + Cardinality(Passing) <= MaxDevices + peak
    BY PairingCardinality DEF DP!DeviceLimitOvershoot, Passing
  <2>10. peak' = peak /\ peak \in Nat /\ MaxDevices \in Nat
    BY <2>3, ServicesAssumption DEF PairTypes
  <2>11. Cardinality(DP!Counted') + Cardinality(Passing') <= MaxDevices + peak'
    BY <2>5, <2>7, <2>8, <2>9, <2>10
  <2> QED BY <2>11, PairingCardinality DEF DP!DeviceLimitOvershoot, Passing
<1>9. ASSUME NEW h \in Handlers, DP!SaveDevice(h) \/ DP!ForgetDevice(h)
      PROVE  DP!DeviceLimitOvershoot'
  BY <1>5, <1>9 DEF DP!SaveDevice, DP!ForgetDevice
<1>10. ASSUME NEW h \in Handlers, NEW d \in Devices, DP!RemoveDevice(h, d)
       PROVE  DP!DeviceLimitOvershoot'
  <2>1. /\ op'[h].pc = "forget" /\ \A g \in Handlers \ {h} : op'[g] = op[g]
        /\ mixed \subseteq mixed' /\ devices' \subseteq devices /\ UNCHANGED <<reboots, peak>>
    BY <1>10 DEF DP!RemoveDevice, PairTypes
  <2> QED BY <1>3, <2>1
<1>11. ASSUME NEW h \in Handlers, TokenCreation(h) PROVE DP!DeviceLimitOvershoot'
  BY <1>3, <1>11, CreationMoves DEF Creating
<1> QED
  BY <1>1, <1>2, <1>4, <1>6, <1>7, <1>8, <1>9, <1>10, <1>11
     DEF DP!Next, TokenCreation, DP!Expire, DP!CleanExpired, DP!history

(* Device pairing is sound: tokens pair once, the limit is exceeded by no  *)
(* more than the requests that pass it together, and a restart that can    *)
(* read the table brings back the devices that are paired.                 *)
THEOREM PairingIsSound == Spec => []PairingSound
<1>1. Init => PairInv
  BY PairInit DEF Init
<1>2. PairInv /\ [Next]_vars => PairInv'
  <2>1. PairInv /\ UNCHANGED dpVars => PairInv'
    BY DEF dpVars, PairInv, PairTypes, TokenInv, Spent, TableInv, DP!TableMatchesDevices, DP!At,
           DP!DeviceLimitOvershoot, DP!Counted
  <2>2. PairInv /\ DP!Next => PairInv'
    BY PairTypesStep, TokenStep, TableStep, LimitStep DEF PairInv
  <2> QED BY <2>1, <2>2 DEF Next, Triggers, Audit, Pairing, Guard, Wire, vars
<1>3. PairInv => PairingSound
  <2>1. PairInv => DP!TokenPairsOnce
    BY DEF PairInv, TokenInv, Spent, DP!TokenPairsOnce, DP!Tokens
  <2> QED BY <2>1 DEF PairInv, TableInv, PairingSound
<1> QED BY <1>1, <1>2, <1>3, PTL DEF Spec


-----------------------------------------------------------------------------
(* Event triggers.                                                         *)

TriggerRecords == [present : BOOLEAN, enabled : BOOLEAN, fires : Nat]
TriggerMaps == [TrigIds -> TriggerRecords]

TaskRecords ==
    [pc : {"idle", "insert", "index", "unindex", "take", "removeAll", "eval", "persist", "write"},
     ids : SUBSET TrigIds, agent : Agents \cup {NoAgent}, kind : Kinds, changed : BOOLEAN,
     snap : TriggerMaps]

TriggerTypes ==
    /\ trig \in TriggerMaps /\ disk \in TriggerMaps
    /\ task \in [Tasks -> TaskRecords]
    /\ fired \in [TrigIds -> Nat]
    /\ \A t \in Tasks : task[t].pc = "idle" => task[t].ids = {} /\ task[t].changed = FALSE
    /\ \A a \in DOMAIN index : index[a] \subseteq TrigIds
    /\ disturbed \in BOOLEAN /\ unsaved \in BOOLEAN

(* An id is unborn until its register() has put it into the map.  Nothing  *)
(* knows an unborn id but that register().                                 *)
Unborn(i) == i \notin used \/ \E t \in Tasks : task[t].pc = "insert" /\ i \in task[t].ids

BirthInv ==
    /\ \A t \in Tasks : task[t].ids \subseteq used
    /\ \A t, u \in Tasks : \A i \in task[t].ids \cap task[u].ids : task[t].pc = "insert" => t = u
    /\ \A i \in TrigIds : Unborn(i) =>
          /\ ~trig[i].present /\ ~disk[i].present /\ (\A t \in Tasks : ~task[t].snap[i].present)
          /\ \A a \in DOMAIN index : i \notin index[a]
          /\ fired[i] = 0 /\ i \notin removed

(* What remove() takes off the list is gone from the map, and register()   *)
(* writes to the list of the trigger's own agent.                          *)
IndexInv ==
    /\ \A t \in Tasks : \A i \in task[t].ids :
          /\ task[t].pc = "unindex" => ~trig[i].present
          /\ task[t].pc \in {"insert", "index"} => task[t].agent = AgentOf[i]
    /\ TE!IndexComplete

(* No copy of a trigger, in the map, in the file or in a snapshot on its   *)
(* way there, counts more fires than there were or than the limit.         *)
CountsRight(r, i) == r.fires <= fired[i] /\ (MaxFires[i] > 0 => r.fires <= MaxFires[i])

FireInv ==
    \A i \in TrigIds :
        /\ CountsRight(trig[i], i) /\ CountsRight(disk[i], i)
        /\ \A t \in Tasks : CountsRight(task[t].snap[i], i)

(* A call that changed the map and has not saved it.                       *)
Dirty(t) ==
    \/ task[t].pc \in {"index", "unindex", "removeAll", "persist", "write"}
    \/ task[t].pc = "eval" /\ task[t].changed

(* As long as calls do not overlap, none is cut and no boot follows a      *)
(* failed persist(), the file is the map unless the one call is dirty or   *)
(* the last persist() failed, and the map's counts are the fires.          *)
CalmInv ==
    ~disturbed =>
        /\ \A t, u \in Tasks : task[t].pc # "idle" /\ task[u].pc # "idle" => t = u
        /\ ~unsaved /\ (\A t \in Tasks : ~Dirty(t)) => disk = trig
        /\ \A t \in Tasks : task[t].pc = "write" => task[t].snap = trig
        /\ \A i \in TrigIds :
              /\ trig[i].present => trig[i].fires = fired[i]
              /\ MaxFires[i] > 0 => fired[i] <= MaxFires[i]
              /\ i \in removed => ~trig[i].present

TriggerInv == TriggerTypes /\ BirthInv /\ IndexInv /\ FireInv /\ CalmInv

LEMMA TriggerInit == TE!Init => TriggerInv
<1> SUFFICES ASSUME TE!Init PROVE TriggerInv
  OBVIOUS
<1> DEFINE none == [i \in TrigIds |-> [present |-> FALSE, enabled |-> FALSE, fires |-> 0]]
<1>1. none \in TriggerMaps /\ \A i \in TrigIds : ~none[i].present /\ none[i].fires = 0
  BY DEF TriggerMaps, TriggerRecords
<1>2. /\ trig = none /\ disk = none /\ fired = [i \in TrigIds |-> 0] /\ removed = {} /\ used = {}
      /\ index = [a \in {} |-> {}] /\ disturbed = FALSE /\ unsaved = FALSE
      /\ task = [t \in Tasks |-> [pc |-> "idle", ids |-> {}, agent |-> NoAgent, kind |-> Spawned,
                                  changed |-> FALSE, snap |-> none]]
  BY DEF TE!Init, TE!Idle, TE!Empty, TE!Absent
<1> HIDE DEF none
<1>3. \A t \in Tasks : /\ task[t].pc = "idle" /\ task[t].ids = {} /\ task[t].changed = FALSE
                       /\ task[t].snap = none
  BY <1>2
<1>4. TriggerTypes
  BY <1>1, <1>2, <1>3, ServicesAssumption DEF TriggerTypes, TaskRecords
<1>5. BirthInv
  BY <1>1, <1>2, <1>3 DEF BirthInv
<1>6. IndexInv
  BY <1>1, <1>2, <1>3 DEF IndexInv, TE!IndexComplete, TE!Present
<1>7. FireInv
  BY <1>1, <1>2, <1>3, ServicesAssumption DEF FireInv, CountsRight
<1>8. CalmInv
  BY <1>1, <1>2, <1>3, ServicesAssumption DEF CalmInv
<1> QED BY <1>4, <1>5, <1>6, <1>7, <1>8 DEF TriggerInv

(* A step of one task: the others stay, and the record has its type.       *)
Moves(t) == task' \in [Tasks -> TaskRecords] /\ \A u \in Tasks \ {t} : task'[u] = task[u]

(* The end of a call.                                                      *)
LEMMA CallEnds ==
    ASSUME TriggerTypes, NEW t \in Tasks, task' = [task EXCEPT ![t] = TE!Idle]
    PROVE  /\ Moves(t) /\ task'[t].pc = "idle" /\ task'[t].ids = {} /\ task'[t].changed = FALSE
           /\ task'[t].snap = TE!Empty
           /\ \A i \in TrigIds : TE!Empty[i].fires = 0 /\ ~TE!Empty[i].present
<1>1. /\ TE!Empty \in TriggerMaps
      /\ \A i \in TrigIds : TE!Empty[i].fires = 0 /\ ~TE!Empty[i].present
  BY DEF TE!Empty, TE!Absent, TriggerMaps, TriggerRecords
<1>2. TE!Idle \in TaskRecords
  BY <1>1, ServicesAssumption DEF TE!Idle, TaskRecords
<1>3. Moves(t) /\ task'[t] = TE!Idle
  BY <1>2 DEF Moves, TriggerTypes
<1> QED BY <1>1, <1>3 DEF TE!Idle

(* A call starts.                                                          *)
LEMMA CallBegins ==
    ASSUME TriggerTypes, NEW t \in Tasks, TE!Begins(t)
    PROVE  /\ task[t].pc = "idle" /\ task[t].ids = {} /\ task[t].changed = FALSE
           /\ disturbed' \in BOOLEAN
           /\ ~disturbed' => ~disturbed /\ \A u \in Tasks : task[u].pc = "idle"
BY DEF TE!Begins, TriggerTypes

(* A step of a call.                                                       *)
LEMMA CallMoves ==
    ASSUME TriggerTypes, NEW t \in Tasks, NEW r \in TaskRecords, task' = [task EXCEPT ![t] = r]
    PROVE  Moves(t) /\ task'[t] = r
BY DEF Moves, TriggerTypes

(* The fields of a record have their types.                                *)
LEMMA CallFields ==
    ASSUME TriggerTypes, NEW t \in Tasks
    PROVE  /\ task[t] \in TaskRecords
           /\ task[t].ids \in SUBSET TrigIds /\ task[t].agent \in Agents \cup {NoAgent}
           /\ task[t].kind \in Kinds /\ task[t].changed \in BOOLEAN /\ task[t].snap \in TriggerMaps
BY DEF TriggerTypes, TaskRecords

(* What a step of a call does to one trigger of the map.                   *)
LEMMA TriggerGone ==
    ASSUME TriggerTypes, NEW i \in TrigIds, trig' = [trig EXCEPT ![i] = TE!Absent]
    PROVE  /\ trig' \in TriggerMaps /\ ~trig'[i].present /\ trig'[i].fires = 0
           /\ \A j \in TrigIds \ {i} : trig'[j] = trig[j]
BY DEF TriggerTypes, TriggerMaps, TriggerRecords, TE!Absent

LEMMA TriggerSwitched ==
    ASSUME TriggerTypes, NEW i \in TrigIds, NEW on \in BOOLEAN, trig' = [trig EXCEPT ![i].enabled = on]
    PROVE  /\ trig' \in TriggerMaps /\ trig'[i].present = trig[i].present
           /\ trig'[i].fires = trig[i].fires /\ \A j \in TrigIds \ {i} : trig'[j] = trig[j]
BY DEF TriggerTypes, TriggerMaps, TriggerRecords

LEMMA TriggerFires ==
    ASSUME TriggerTypes, NEW i \in TrigIds, trig' = [trig EXCEPT ![i].fires = @ + 1],
           fired' = [fired EXCEPT ![i] = @ + 1]
    PROVE  /\ trig' \in TriggerMaps /\ trig'[i].present = trig[i].present
           /\ trig'[i].fires = trig[i].fires + 1 /\ \A j \in TrigIds \ {i} : trig'[j] = trig[j]
           /\ fired' \in [TrigIds -> Nat] /\ fired'[i] = fired[i] + 1
           /\ \A j \in TrigIds \ {i} : fired'[j] = fired[j]
BY DEF TriggerTypes, TriggerMaps, TriggerRecords

(* Fires are counted in numbers.                                           *)
LEMMA TriggerNumbers ==
    ASSUME TriggerTypes, NEW i \in TrigIds
    PROVE  /\ trig[i].fires \in Nat /\ disk[i].fires \in Nat /\ fired[i] \in Nat /\ MaxFires[i] \in Nat
           /\ \A t \in Tasks : task[t].snap[i].fires \in Nat
BY ServicesAssumption DEF TriggerTypes, TriggerMaps, TriggerRecords, TaskRecords

LEMMA RegisterStep ==
    ASSUME TriggerInv, NEW t \in Tasks, NEW i \in TrigIds, TE!Register(t, i) PROVE TriggerInv'
<1>0. TriggerTypes /\ BirthInv /\ IndexInv /\ FireInv /\ CalmInv
  BY DEF TriggerInv
<1> DEFINE r == [task[t] EXCEPT !.pc = "insert", !.ids = {i}, !.agent = AgentOf[i]]
<1>1. AgentOf[i] \in Agents
  BY <1>0, ServicesAssumption DEF TE!Register, TE!Present, TriggerTypes
<1>2. /\ r \in TaskRecords
      /\ r.pc = "insert" /\ r.ids = {i} /\ r.agent = AgentOf[i]
      /\ r.changed = task[t].changed /\ r.snap = task[t].snap
  BY <1>0, <1>1, CallFields DEF TaskRecords
<1>3. task' = [task EXCEPT ![t] = r]
  BY <1>0 DEF TE!Register, TE!Goto, TriggerTypes
<1> HIDE DEF r
<1>4. Moves(t) /\ task'[t] = r
  BY <1>0, <1>2, <1>3, CallMoves
<1>5. /\ task[t].pc = "idle" /\ disturbed' \in BOOLEAN
      /\ ~disturbed' => ~disturbed /\ \A u \in Tasks : task[u].pc = "idle"
      /\ task[t].ids = {} /\ task[t].changed = FALSE
  BY <1>0, CallBegins DEF TE!Register
<1>6. /\ i \notin used /\ used' = used \cup {i}
      /\ UNCHANGED <<trig, index, disk, fired, removed, unsaved>>
  BY DEF TE!Register, TE!Begins
<1>7. TriggerTypes'
  BY <1>0, <1>2, <1>4, <1>5, <1>6 DEF TriggerTypes, Moves
<1>8. BirthInv'
  BY <1>0, <1>2, <1>4, <1>5, <1>6 DEF TriggerTypes, Moves, BirthInv, Unborn
<1>9. IndexInv'
  BY <1>0, <1>2, <1>4, <1>5, <1>6
     DEF TriggerTypes, Moves, IndexInv, TE!IndexComplete, TE!Present, TE!IndexOf
<1>10. FireInv'
  BY <1>0, <1>2, <1>4, <1>5, <1>6 DEF TriggerTypes, Moves, FireInv, CountsRight
<1>11. CalmInv'
  BY <1>0, <1>2, <1>4, <1>5, <1>6 DEF TriggerTypes, Moves, CalmInv, Dirty
<1> QED BY <1>7, <1>8, <1>9, <1>10, <1>11 DEF TriggerInv

LEMMA IndexStep ==
    ASSUME TriggerInv, NEW t \in Tasks, TE!Index(t) PROVE TriggerInv'
<1>0. TriggerTypes /\ BirthInv /\ IndexInv /\ FireInv /\ CalmInv
  BY DEF TriggerInv
<1> DEFINE r == [task[t] EXCEPT !.pc = "persist", !.ids = {}, !.agent = NoAgent]
<1>2. /\ r \in TaskRecords
      /\ r.pc = "persist" /\ r.ids = {} /\ r.agent = NoAgent
      /\ r.changed = task[t].changed /\ r.snap = task[t].snap
  BY <1>0, CallFields DEF TaskRecords
<1>3. task' = [task EXCEPT ![t] = r]
  BY <1>0 DEF TE!Index, TE!Goto, TriggerTypes
<1> HIDE DEF r
<1>4. Moves(t) /\ task'[t] = r
  BY <1>0, <1>2, <1>3, CallMoves
<1>6. /\ task[t].pc = "index" /\ UNCHANGED <<trig, used, disk, fired, removed, unsaved, disturbed>>
      /\ index' = TE!SetIndex(task[t].agent, TE!IndexOf(task[t].agent) \cup task[t].ids)
  BY DEF TE!Index, TE!Begins
<1>7. TriggerTypes'
  BY <1>0, <1>2, <1>4, <1>6, CallFields DEF TriggerTypes, Moves, TE!SetIndex, TE!IndexOf
<1>8. BirthInv'
  BY <1>0, <1>2, <1>4, <1>6 DEF TriggerTypes, Moves, BirthInv, Unborn, TE!SetIndex, TE!IndexOf
<1>9. IndexInv'
  BY <1>0, <1>2, <1>4, <1>6
     DEF TriggerTypes, Moves, IndexInv, TE!IndexComplete, TE!Present, TE!IndexOf, TE!SetIndex
<1>10. FireInv'
  BY <1>0, <1>2, <1>4, <1>6 DEF TriggerTypes, Moves, FireInv, CountsRight
<1>11. CalmInv'
  BY <1>0, <1>2, <1>4, <1>6 DEF TriggerTypes, Moves, CalmInv, Dirty
<1> QED BY <1>7, <1>8, <1>9, <1>10, <1>11 DEF TriggerInv

LEMMA RemoveStep ==
    ASSUME TriggerInv, NEW t \in Tasks, NEW i \in TrigIds, TE!Remove(t, i) PROVE TriggerInv'
<1>0. TriggerTypes /\ BirthInv /\ IndexInv /\ FireInv /\ CalmInv
  BY DEF TriggerInv
<1> DEFINE r == [task[t] EXCEPT !.pc = "unindex", !.ids = {i}, !.agent = AgentOf[i]]
<1>1. AgentOf[i] \in Agents
  BY <1>0, ServicesAssumption DEF TE!Remove, TE!Present, TriggerTypes
<1>2. /\ r \in TaskRecords
      /\ r.pc = "unindex" /\ r.ids = {i} /\ r.agent = AgentOf[i]
      /\ r.changed = task[t].changed /\ r.snap = task[t].snap
  BY <1>0, <1>1, CallFields DEF TaskRecords
<1>3. task' = [task EXCEPT ![t] = r]
  BY <1>0 DEF TE!Remove, TE!Goto, TriggerTypes
<1> HIDE DEF r
<1>4. Moves(t) /\ task'[t] = r
  BY <1>0, <1>2, <1>3, CallMoves
<1>5. /\ task[t].pc = "idle" /\ disturbed' \in BOOLEAN
      /\ ~disturbed' => ~disturbed /\ \A u \in Tasks : task[u].pc = "idle"
      /\ task[t].ids = {} /\ task[t].changed = FALSE
  BY <1>0, CallBegins DEF TE!Remove
<1>6. /\ trig' \in TriggerMaps /\ ~trig'[i].present /\ trig'[i].fires = 0
      /\ \A j \in TrigIds \ {i} : trig'[j] = trig[j]
      /\ trig[i].present /\ UNCHANGED <<index, used, disk, fired, removed, unsaved>>
  BY <1>0, TriggerGone DEF TE!Remove, TE!Begins, TE!Present
<1>7. TriggerTypes'
  BY <1>0, <1>2, <1>4, <1>5, <1>6 DEF TriggerTypes, Moves
<1>8. BirthInv'
  BY <1>0, <1>2, <1>4, <1>5, <1>6 DEF TriggerTypes, Moves, BirthInv, Unborn
<1>9. IndexInv'
  <2>1. ASSUME NEW u \in Tasks, NEW j \in task'[u].ids
        PROVE  /\ task'[u].pc = "unindex" => ~trig'[j].present
               /\ task'[u].pc \in {"insert", "index"} => task'[u].agent = AgentOf[j]
    <3>1. CASE u = t
      BY <1>0, <1>2, <1>4, <1>5, <1>6, <2>1, <3>1
    <3>2. CASE u # t
      <4>1. task'[u] = task[u] /\ j \in TrigIds
        BY <1>0, <1>4, <2>1, <3>2, CallFields DEF Moves
      <4> QED BY <1>0, <1>2, <1>4, <1>5, <1>6, <2>1, <4>1 DEF IndexInv
    <3> QED BY <3>1, <3>2
  <2>2. ASSUME NEW j \in TrigIds, trig'[j].present
        PROVE  \/ j \in TE!IndexOf(AgentOf[j])'
               \/ \E u \in Tasks : task'[u].pc \in {"index", "removeAll"} /\ j \in task'[u].ids
    <3>1. trig[j].present
      BY <1>6, <2>2
    <3>2. \/ j \in TE!IndexOf(AgentOf[j])
          \/ \E u \in Tasks : task[u].pc \in {"index", "removeAll"} /\ j \in task[u].ids
      BY <1>0, <3>1 DEF IndexInv, TE!IndexComplete, TE!Present
    <3> QED BY <1>0, <1>2, <1>4, <1>5, <1>6, <2>2, <3>2 DEF Moves, TE!IndexOf
  <2> QED BY <2>1, <2>2 DEF IndexInv, TE!IndexComplete, TE!Present
<1>10. FireInv'
  <2> SUFFICES ASSUME NEW j \in TrigIds
               PROVE  /\ CountsRight(trig[j], j)' /\ CountsRight(disk[j], j)'
                      /\ \A u \in Tasks : CountsRight(task[u].snap[j], j)'
    BY DEF FireInv
  <2>1. /\ CountsRight(trig[j], j) /\ CountsRight(disk[j], j)
        /\ \A u \in Tasks : CountsRight(task[u].snap[j], j)
    BY <1>0 DEF FireInv
  <2>2. \A u \in Tasks : task'[u].snap = task[u].snap
    BY <1>0, <1>2, <1>4, <1>5, <1>6 DEF Moves
  <2>3. /\ trig[j].fires \in Nat /\ disk[j].fires \in Nat /\ fired[j] \in Nat /\ MaxFires[j] \in Nat
        /\ \A u \in Tasks : task[u].snap[j].fires \in Nat
    BY <1>0, TriggerNumbers
  <2>4. CASE j = i
    <3>1. CountsRight(trig[j], j)'
      BY <1>6, <2>1, <2>3, <2>4 DEF CountsRight
    <3>2. CountsRight(disk[j], j)'
      BY <1>6, <2>1, <2>3, <2>4 DEF CountsRight
    <3>3. ASSUME NEW u \in Tasks PROVE CountsRight(task[u].snap[j], j)'
      <4>1. /\ task[u].snap[j].fires \in Nat /\ fired[j] \in Nat
            /\ CountsRight(task[u].snap[j], j) /\ task'[u].snap = task[u].snap
        BY <2>1, <2>2, <2>3
      <4> QED BY <1>6, <2>4, <4>1 DEF CountsRight
    <3> QED BY <3>1, <3>2, <3>3
  <2>5. CASE j # i
    BY <1>6, <2>1, <2>2, <2>3, <2>5 DEF CountsRight
  <2> QED BY <2>4, <2>5
<1>11. CalmInv'
  BY <1>0, <1>2, <1>4, <1>5, <1>6, TriggerNumbers DEF TriggerTypes, Moves, CalmInv, Dirty
<1> QED BY <1>7, <1>8, <1>9, <1>10, <1>11 DEF TriggerInv

LEMMA UnindexStep ==
    ASSUME TriggerInv, NEW t \in Tasks, TE!Unindex(t) PROVE TriggerInv'
<1>0. TriggerTypes /\ BirthInv /\ IndexInv /\ FireInv /\ CalmInv
  BY DEF TriggerInv
<1> DEFINE r == [task[t] EXCEPT !.pc = "persist", !.agent = NoAgent]
<1>2. /\ r \in TaskRecords
      /\ r.pc = "persist" /\ r.ids = task[t].ids /\ r.agent = NoAgent
      /\ r.changed = task[t].changed /\ r.snap = task[t].snap
  BY <1>0, CallFields DEF TaskRecords
<1>3. task' = [task EXCEPT ![t] = r]
  BY <1>0 DEF TE!Unindex, TE!Goto, TriggerTypes
<1> HIDE DEF r
<1>4. Moves(t) /\ task'[t] = r
  BY <1>0, <1>2, <1>3, CallMoves
<1>6. /\ task[t].pc = "unindex" /\ UNCHANGED <<trig, used, disk, fired, removed, unsaved, disturbed>>
      /\ index' = IF task[t].agent \in DOMAIN index
                  THEN [index EXCEPT ![task[t].agent] = @ \ task[t].ids] ELSE index
  BY DEF TE!Unindex, TE!Begins
<1>7. TriggerTypes'
  BY <1>0, <1>2, <1>4, <1>6 DEF TriggerTypes, Moves
<1>8. BirthInv'
  BY <1>0, <1>2, <1>4, <1>6 DEF TriggerTypes, Moves, BirthInv, Unborn
<1>9. IndexInv'
  BY <1>0, <1>2, <1>4, <1>6
     DEF TriggerTypes, Moves, IndexInv, TE!IndexComplete, TE!Present, TE!IndexOf
<1>10. FireInv'
  BY <1>0, <1>2, <1>4, <1>6 DEF TriggerTypes, Moves, FireInv, CountsRight
<1>11. CalmInv'
  BY <1>0, <1>2, <1>4, <1>6 DEF TriggerTypes, Moves, CalmInv, Dirty
<1> QED BY <1>7, <1>8, <1>9, <1>10, <1>11 DEF TriggerInv

LEMMA SetEnabledStep ==
    ASSUME TriggerInv, NEW t \in Tasks, NEW i \in TrigIds, NEW on \in BOOLEAN, TE!SetEnabled(t, i, on) PROVE TriggerInv'
<1>0. TriggerTypes /\ BirthInv /\ IndexInv /\ FireInv /\ CalmInv
  BY DEF TriggerInv
<1> DEFINE r == [task[t] EXCEPT !.pc = "persist"]
<1>2. /\ r \in TaskRecords
      /\ r.pc = "persist" /\ r.ids = task[t].ids /\ r.agent = task[t].agent
      /\ r.changed = task[t].changed /\ r.snap = task[t].snap
  BY <1>0, CallFields DEF TaskRecords
<1>3. task' = [task EXCEPT ![t] = r]
  BY <1>0 DEF TE!SetEnabled, TE!Goto, TriggerTypes
<1> HIDE DEF r
<1>4. Moves(t) /\ task'[t] = r
  BY <1>0, <1>2, <1>3, CallMoves
<1>5. /\ task[t].pc = "idle" /\ disturbed' \in BOOLEAN
      /\ ~disturbed' => ~disturbed /\ \A u \in Tasks : task[u].pc = "idle"
      /\ task[t].ids = {} /\ task[t].changed = FALSE
  BY <1>0, CallBegins DEF TE!SetEnabled
<1>6. /\ trig' \in TriggerMaps /\ trig'[i].present = trig[i].present /\ trig'[i].fires = trig[i].fires
      /\ \A j \in TrigIds \ {i} : trig'[j] = trig[j]
      /\ trig[i].present /\ UNCHANGED <<index, used, disk, fired, removed, unsaved>>
  BY <1>0, TriggerSwitched DEF TE!SetEnabled, TE!Begins, TE!Present
<1>7. TriggerTypes'
  BY <1>0, <1>2, <1>4, <1>5, <1>6 DEF TriggerTypes, Moves
<1>8. BirthInv'
  BY <1>0, <1>2, <1>4, <1>5, <1>6 DEF TriggerTypes, Moves, BirthInv, Unborn
<1>9. IndexInv'
  <2>1. ASSUME NEW u \in Tasks, NEW j \in task'[u].ids
        PROVE  /\ task'[u].pc = "unindex" => ~trig'[j].present
               /\ task'[u].pc \in {"insert", "index"} => task'[u].agent = AgentOf[j]
    <3>1. CASE u = t
      BY <1>0, <1>2, <1>4, <1>5, <1>6, <2>1, <3>1
    <3>2. CASE u # t
      <4>1. task'[u] = task[u] /\ j \in TrigIds
        BY <1>0, <1>4, <2>1, <3>2, CallFields DEF Moves
      <4> QED BY <1>0, <1>2, <1>4, <1>5, <1>6, <2>1, <4>1 DEF IndexInv
    <3> QED BY <3>1, <3>2
  <2>2. ASSUME NEW j \in TrigIds, trig'[j].present
        PROVE  \/ j \in TE!IndexOf(AgentOf[j])'
               \/ \E u \in Tasks : task'[u].pc \in {"index", "removeAll"} /\ j \in task'[u].ids
    <3>1. trig[j].present
      BY <1>6, <2>2
    <3>2. \/ j \in TE!IndexOf(AgentOf[j])
          \/ \E u \in Tasks : task[u].pc \in {"index", "removeAll"} /\ j \in task[u].ids
      BY <1>0, <3>1 DEF IndexInv, TE!IndexComplete, TE!Present
    <3> QED BY <1>0, <1>2, <1>4, <1>5, <1>6, <2>2, <3>2 DEF Moves, TE!IndexOf
  <2> QED BY <2>1, <2>2 DEF IndexInv, TE!IndexComplete, TE!Present
<1>10. FireInv'
  <2> SUFFICES ASSUME NEW j \in TrigIds
               PROVE  /\ CountsRight(trig[j], j)' /\ CountsRight(disk[j], j)'
                      /\ \A u \in Tasks : CountsRight(task[u].snap[j], j)'
    BY DEF FireInv
  <2>1. /\ CountsRight(trig[j], j) /\ CountsRight(disk[j], j)
        /\ \A u \in Tasks : CountsRight(task[u].snap[j], j)
    BY <1>0 DEF FireInv
  <2>2. \A u \in Tasks : task'[u].snap = task[u].snap
    BY <1>0, <1>2, <1>4, <1>5, <1>6 DEF Moves
  <2>3. /\ trig[j].fires \in Nat /\ disk[j].fires \in Nat /\ fired[j] \in Nat /\ MaxFires[j] \in Nat
        /\ \A u \in Tasks : task[u].snap[j].fires \in Nat
    BY <1>0, TriggerNumbers
  <2>4. CASE j = i
    <3>1. CountsRight(trig[j], j)'
      BY <1>6, <2>1, <2>3, <2>4 DEF CountsRight
    <3>2. CountsRight(disk[j], j)'
      BY <1>6, <2>1, <2>3, <2>4 DEF CountsRight
    <3>3. ASSUME NEW u \in Tasks PROVE CountsRight(task[u].snap[j], j)'
      <4>1. /\ task[u].snap[j].fires \in Nat /\ fired[j] \in Nat
            /\ CountsRight(task[u].snap[j], j) /\ task'[u].snap = task[u].snap
        BY <2>1, <2>2, <2>3
      <4> QED BY <1>6, <2>4, <4>1 DEF CountsRight
    <3> QED BY <3>1, <3>2, <3>3
  <2>5. CASE j # i
    BY <1>6, <2>1, <2>2, <2>3, <2>5 DEF CountsRight
  <2> QED BY <2>4, <2>5
<1>11. CalmInv'
  BY <1>0, <1>2, <1>4, <1>5, <1>6, TriggerNumbers DEF TriggerTypes, Moves, CalmInv, Dirty
<1> QED BY <1>7, <1>8, <1>9, <1>10, <1>11 DEF TriggerInv

LEMMA KillStep ==
    ASSUME TriggerInv, NEW t \in Tasks, NEW a \in Agents, TE!Kill(t, a) PROVE TriggerInv'
<1>0. TriggerTypes /\ BirthInv /\ IndexInv /\ FireInv /\ CalmInv
  BY DEF TriggerInv
<1> DEFINE r == [task[t] EXCEPT !.pc = "take", !.agent = a]
<1>2. /\ r \in TaskRecords
      /\ r.pc = "take" /\ r.ids = task[t].ids /\ r.agent = a
      /\ r.changed = task[t].changed /\ r.snap = task[t].snap
  BY <1>0, CallFields DEF TaskRecords
<1>3. task' = [task EXCEPT ![t] = r]
  BY <1>0 DEF TE!Kill, TE!Goto, TriggerTypes
<1> HIDE DEF r
<1>4. Moves(t) /\ task'[t] = r
  BY <1>0, <1>2, <1>3, CallMoves
<1>5. /\ task[t].pc = "idle" /\ disturbed' \in BOOLEAN
      /\ ~disturbed' => ~disturbed /\ \A u \in Tasks : task[u].pc = "idle"
      /\ task[t].ids = {} /\ task[t].changed = FALSE
  BY <1>0, CallBegins DEF TE!Kill
<1>6. UNCHANGED <<trig, index, used, disk, fired, removed, unsaved>>
  BY DEF TE!Kill, TE!Begins
<1>7. TriggerTypes'
  BY <1>0, <1>2, <1>4, <1>5, <1>6 DEF TriggerTypes, Moves
<1>8. BirthInv'
  BY <1>0, <1>2, <1>4, <1>5, <1>6 DEF TriggerTypes, Moves, BirthInv, Unborn
<1>9. IndexInv'
  BY <1>0, <1>2, <1>4, <1>5, <1>6
     DEF TriggerTypes, Moves, IndexInv, TE!IndexComplete, TE!Present, TE!IndexOf
<1>10. FireInv'
  BY <1>0, <1>2, <1>4, <1>5, <1>6 DEF TriggerTypes, Moves, FireInv, CountsRight
<1>11. CalmInv'
  BY <1>0, <1>2, <1>4, <1>5, <1>6 DEF TriggerTypes, Moves, CalmInv, Dirty
<1> QED BY <1>7, <1>8, <1>9, <1>10, <1>11 DEF TriggerInv

LEMMA TakeStep ==
    ASSUME TriggerInv, NEW t \in Tasks, TE!TakeIndex(t), task[t].agent \in DOMAIN index PROVE TriggerInv'
<1>0. TriggerTypes /\ BirthInv /\ IndexInv /\ FireInv /\ CalmInv
  BY DEF TriggerInv
<1> DEFINE r == [task[t] EXCEPT !.pc = "removeAll", !.ids = index[task[t].agent]]
<1>1. index[task[t].agent] \in SUBSET TrigIds
  BY <1>0, ServicesAssumption DEF TE!TakeIndex, TE!Present, TriggerTypes
<1>2. /\ r \in TaskRecords
      /\ r.pc = "removeAll" /\ r.ids = index[task[t].agent] /\ r.agent = task[t].agent
      /\ r.changed = task[t].changed /\ r.snap = task[t].snap
  BY <1>0, <1>1, CallFields DEF TaskRecords
<1>3. task' = [task EXCEPT ![t] = r]
  BY <1>0 DEF TE!TakeIndex, TE!Goto, TriggerTypes
<1> HIDE DEF r
<1>4. Moves(t) /\ task'[t] = r
  BY <1>0, <1>2, <1>3, CallMoves
<1>6. /\ task[t].pc = "take" /\ UNCHANGED <<trig, used, disk, fired, removed, unsaved, disturbed>>
      /\ index' = [b \in DOMAIN index \ {task[t].agent} |-> index[b]]
  BY DEF TE!TakeIndex, TE!Begins
<1>7. TriggerTypes'
  BY <1>0, <1>2, <1>4, <1>6 DEF TriggerTypes, Moves
<1>8. BirthInv'
  BY <1>0, <1>2, <1>4, <1>6 DEF TriggerTypes, Moves, BirthInv, Unborn
<1>9. IndexInv'
  BY <1>0, <1>2, <1>4, <1>6
     DEF TriggerTypes, Moves, IndexInv, TE!IndexComplete, TE!Present, TE!IndexOf
<1>10. FireInv'
  BY <1>0, <1>2, <1>4, <1>6 DEF TriggerTypes, Moves, FireInv, CountsRight
<1>11. CalmInv'
  BY <1>0, <1>2, <1>4, <1>6 DEF TriggerTypes, Moves, CalmInv, Dirty
<1> QED BY <1>7, <1>8, <1>9, <1>10, <1>11 DEF TriggerInv

LEMMA RemoveOneStep ==
    ASSUME TriggerInv, NEW t \in Tasks, NEW i \in TrigIds, task[t].pc = "removeAll", i \in task[t].ids,
           trig' = [trig EXCEPT ![i] = TE!Absent], task' = [task EXCEPT ![t].ids = @ \ {i}],
           UNCHANGED <<index, used, disk, fired, removed, unsaved, disturbed>> PROVE TriggerInv'
<1>0. TriggerTypes /\ BirthInv /\ IndexInv /\ FireInv /\ CalmInv
  BY DEF TriggerInv
<1> DEFINE r == [task[t] EXCEPT !.ids = task[t].ids \ {i}]
<1>2. /\ r \in TaskRecords
      /\ r.pc = task[t].pc /\ r.ids = task[t].ids \ {i} /\ r.agent = task[t].agent
      /\ r.changed = task[t].changed /\ r.snap = task[t].snap
  BY <1>0, CallFields DEF TaskRecords
<1>3. task' = [task EXCEPT ![t] = r]
  BY <1>0 DEF TE!Goto, TriggerTypes
<1> HIDE DEF r
<1>4. Moves(t) /\ task'[t] = r
  BY <1>0, <1>2, <1>3, CallMoves
<1>6. /\ trig' \in TriggerMaps /\ ~trig'[i].present /\ trig'[i].fires = 0
      /\ \A j \in TrigIds \ {i} : trig'[j] = trig[j]
  BY <1>0, TriggerGone
<1>7. TriggerTypes'
  BY <1>0, <1>2, <1>4, <1>6 DEF TriggerTypes, Moves
<1>8. BirthInv'
  BY <1>0, <1>2, <1>4, <1>6 DEF TriggerTypes, Moves, BirthInv, Unborn
<1>9. IndexInv'
  BY <1>0, <1>2, <1>4, <1>6
     DEF TriggerTypes, Moves, IndexInv, TE!IndexComplete, TE!Present, TE!IndexOf
<1>10. FireInv'
  <2> SUFFICES ASSUME NEW j \in TrigIds
               PROVE  /\ CountsRight(trig[j], j)' /\ CountsRight(disk[j], j)'
                      /\ \A u \in Tasks : CountsRight(task[u].snap[j], j)'
    BY DEF FireInv
  <2>1. /\ CountsRight(trig[j], j) /\ CountsRight(disk[j], j)
        /\ \A u \in Tasks : CountsRight(task[u].snap[j], j)
    BY <1>0 DEF FireInv
  <2>2. \A u \in Tasks : task'[u].snap = task[u].snap
    BY <1>0, <1>2, <1>4, <1>6 DEF Moves
  <2>3. /\ trig[j].fires \in Nat /\ disk[j].fires \in Nat /\ fired[j] \in Nat /\ MaxFires[j] \in Nat
        /\ \A u \in Tasks : task[u].snap[j].fires \in Nat
    BY <1>0, TriggerNumbers
  <2>4. CASE j = i
    <3>1. CountsRight(trig[j], j)'
      BY <1>6, <2>1, <2>3, <2>4 DEF CountsRight
    <3>2. CountsRight(disk[j], j)'
      BY <1>6, <2>1, <2>3, <2>4 DEF CountsRight
    <3>3. ASSUME NEW u \in Tasks PROVE CountsRight(task[u].snap[j], j)'
      <4>1. /\ task[u].snap[j].fires \in Nat /\ fired[j] \in Nat
            /\ CountsRight(task[u].snap[j], j) /\ task'[u].snap = task[u].snap
        BY <2>1, <2>2, <2>3
      <4> QED BY <1>6, <2>4, <4>1 DEF CountsRight
    <3> QED BY <3>1, <3>2, <3>3
  <2>5. CASE j # i
    BY <1>6, <2>1, <2>2, <2>3, <2>5 DEF CountsRight
  <2> QED BY <2>4, <2>5
<1>11. CalmInv'
  BY <1>0, <1>2, <1>4, <1>6, TriggerNumbers DEF TriggerTypes, Moves, CalmInv, Dirty
<1> QED BY <1>7, <1>8, <1>9, <1>10, <1>11 DEF TriggerInv

LEMMA RemoveAllStep ==
    ASSUME TriggerInv, NEW t \in Tasks, task[t].pc = "removeAll", task[t].ids = {},
           task' = [task EXCEPT ![t].pc = "persist", ![t].agent = NoAgent],
           UNCHANGED <<trig, index, used, disk, fired, removed, unsaved, disturbed>> PROVE TriggerInv'
<1>0. TriggerTypes /\ BirthInv /\ IndexInv /\ FireInv /\ CalmInv
  BY DEF TriggerInv
<1> DEFINE r == [task[t] EXCEPT !.pc = "persist", !.agent = NoAgent]
<1>2. /\ r \in TaskRecords
      /\ r.pc = "persist" /\ r.ids = task[t].ids /\ r.agent = NoAgent
      /\ r.changed = task[t].changed /\ r.snap = task[t].snap
  BY <1>0, CallFields DEF TaskRecords
<1>3. task' = [task EXCEPT ![t] = r]
  BY <1>0 DEF TriggerTypes
<1> HIDE DEF r
<1>4. Moves(t) /\ task'[t] = r
  BY <1>0, <1>2, <1>3, CallMoves
<1>7. TriggerTypes'
  BY <1>0, <1>2, <1>4 DEF TriggerTypes, Moves
<1>8. BirthInv'
  BY <1>0, <1>2, <1>4 DEF TriggerTypes, Moves, BirthInv, Unborn
<1>9. IndexInv'
  BY <1>0, <1>2, <1>4 DEF TriggerTypes, Moves, IndexInv, TE!IndexComplete, TE!Present, TE!IndexOf
<1>10. FireInv'
  BY <1>0, <1>2, <1>4 DEF TriggerTypes, Moves, FireInv, CountsRight
<1>11. CalmInv'
  BY <1>0, <1>2, <1>4 DEF TriggerTypes, Moves, CalmInv, Dirty
<1> QED BY <1>7, <1>8, <1>9, <1>10, <1>11 DEF TriggerInv

LEMMA EvalStartStep ==
    ASSUME TriggerInv, NEW t \in Tasks, NEW k \in Kinds, TE!Begins(t),
           task' = [task EXCEPT ![t].pc = "eval", ![t].ids = TE!Present, ![t].kind = k],
           UNCHANGED <<trig, index, used, disk, fired, removed, unsaved>> PROVE TriggerInv'
<1>0. TriggerTypes /\ BirthInv /\ IndexInv /\ FireInv /\ CalmInv
  BY DEF TriggerInv
<1> DEFINE r == [task[t] EXCEPT !.pc = "eval", !.ids = TE!Present, !.kind = k]
<1>1. TE!Present \in SUBSET TrigIds
  BY <1>0, ServicesAssumption DEF TE!Present, TriggerTypes
<1>2. /\ r \in TaskRecords
      /\ r.pc = "eval" /\ r.ids = TE!Present /\ r.agent = task[t].agent
      /\ r.changed = task[t].changed /\ r.snap = task[t].snap
  BY <1>0, <1>1, CallFields DEF TaskRecords
<1>3. task' = [task EXCEPT ![t] = r]
  BY <1>0 DEF TE!Goto, TriggerTypes
<1> HIDE DEF r
<1>4. Moves(t) /\ task'[t] = r
  BY <1>0, <1>2, <1>3, CallMoves
<1>5. /\ task[t].pc = "idle" /\ disturbed' \in BOOLEAN
      /\ ~disturbed' => ~disturbed /\ \A u \in Tasks : task[u].pc = "idle"
      /\ task[t].ids = {} /\ task[t].changed = FALSE
  BY <1>0, CallBegins
<1>7. TriggerTypes'
  BY <1>0, <1>2, <1>4, <1>5 DEF TriggerTypes, Moves
<1>8. BirthInv'
  <2>1. \A j \in TE!Present : j \in used /\ \A u \in Tasks : task[u].pc = "insert" => j \notin task[u].ids
    BY <1>0 DEF TriggerTypes, BirthInv, Unborn, TE!Present
  <2>2. \A u \in Tasks : task'[u].ids \subseteq used
    BY <1>0, <1>2, <1>4, <2>1 DEF Moves, BirthInv
  <2>3. \A j \in TrigIds : Unborn(j)' => Unborn(j)
    BY <1>2, <1>4 DEF Moves, Unborn
  <2>4. \A u, v \in Tasks : \A j \in task'[u].ids \cap task'[v].ids : task'[u].pc = "insert" => u = v
    BY <1>0, <1>2, <1>4, <2>1 DEF Moves, BirthInv
  <2>5. \A u \in Tasks : task'[u].snap = task[u].snap
    BY <1>2, <1>4 DEF Moves
  <2> QED BY <1>0, <2>2, <2>3, <2>4, <2>5 DEF BirthInv
<1>9. IndexInv'
  <2>1. ASSUME NEW u \in Tasks, NEW j \in task'[u].ids
        PROVE  /\ task'[u].pc = "unindex" => ~trig'[j].present
               /\ task'[u].pc \in {"insert", "index"} => task'[u].agent = AgentOf[j]
    <3>1. CASE u = t
      BY <1>0, <1>2, <1>4, <1>5, <2>1, <3>1
    <3>2. CASE u # t
      <4>1. task'[u] = task[u] /\ j \in TrigIds
        BY <1>0, <1>4, <2>1, <3>2, CallFields DEF Moves
      <4> QED BY <1>0, <1>2, <1>4, <1>5, <2>1, <4>1 DEF IndexInv
    <3> QED BY <3>1, <3>2
  <2>2. ASSUME NEW j \in TrigIds, trig'[j].present
        PROVE  \/ j \in TE!IndexOf(AgentOf[j])'
               \/ \E u \in Tasks : task'[u].pc \in {"index", "removeAll"} /\ j \in task'[u].ids
    <3>1. trig[j].present
      BY <2>2
    <3>2. \/ j \in TE!IndexOf(AgentOf[j])
          \/ \E u \in Tasks : task[u].pc \in {"index", "removeAll"} /\ j \in task[u].ids
      BY <1>0, <3>1 DEF IndexInv, TE!IndexComplete, TE!Present
    <3> QED BY <1>0, <1>2, <1>4, <1>5, <2>2, <3>2 DEF Moves, TE!IndexOf
  <2> QED BY <2>1, <2>2 DEF IndexInv, TE!IndexComplete, TE!Present
<1>10. FireInv'
  BY <1>0, <1>2, <1>4, <1>5 DEF TriggerTypes, Moves, FireInv, CountsRight
<1>11. CalmInv'
  BY <1>0, <1>2, <1>4, <1>5 DEF TriggerTypes, Moves, CalmInv, Dirty
<1> QED BY <1>7, <1>8, <1>9, <1>10, <1>11 DEF TriggerInv

LEMMA EvalSkipStep ==
    ASSUME TriggerInv, NEW t \in Tasks, NEW i \in TrigIds, task[t].pc = "eval", i \in task[t].ids,
           task' = [task EXCEPT ![t].ids = @ \ {i}], UNCHANGED <<trig, fired>>,
           UNCHANGED <<index, used, disk, removed, unsaved, disturbed>> PROVE TriggerInv'
<1>0. TriggerTypes /\ BirthInv /\ IndexInv /\ FireInv /\ CalmInv
  BY DEF TriggerInv
<1> DEFINE r == [task[t] EXCEPT !.ids = task[t].ids \ {i}]
<1>2. /\ r \in TaskRecords
      /\ r.pc = task[t].pc /\ r.ids = task[t].ids \ {i} /\ r.agent = task[t].agent
      /\ r.changed = task[t].changed /\ r.snap = task[t].snap
  BY <1>0, CallFields DEF TaskRecords
<1>3. task' = [task EXCEPT ![t] = r]
  BY <1>0 DEF TE!Goto, TriggerTypes
<1> HIDE DEF r
<1>4. Moves(t) /\ task'[t] = r
  BY <1>0, <1>2, <1>3, CallMoves
<1>7. TriggerTypes'
  BY <1>0, <1>2, <1>4 DEF TriggerTypes, Moves
<1>8. BirthInv'
  BY <1>0, <1>2, <1>4 DEF TriggerTypes, Moves, BirthInv, Unborn
<1>9. IndexInv'
  BY <1>0, <1>2, <1>4 DEF TriggerTypes, Moves, IndexInv, TE!IndexComplete, TE!Present, TE!IndexOf
<1>10. FireInv'
  BY <1>0, <1>2, <1>4 DEF TriggerTypes, Moves, FireInv, CountsRight
<1>11. CalmInv'
  BY <1>0, <1>2, <1>4 DEF TriggerTypes, Moves, CalmInv, Dirty
<1> QED BY <1>7, <1>8, <1>9, <1>10, <1>11 DEF TriggerInv

LEMMA EvalDisableStep ==
    ASSUME TriggerInv, NEW t \in Tasks, NEW i \in TrigIds, task[t].pc = "eval", i \in task[t].ids,
           task' = [[task EXCEPT ![t].ids = @ \ {i}] EXCEPT ![t].changed = TRUE],
           trig' = [trig EXCEPT ![i].enabled = FALSE], UNCHANGED fired,
           UNCHANGED <<index, used, disk, removed, unsaved, disturbed>> PROVE TriggerInv'
<1>0. TriggerTypes /\ BirthInv /\ IndexInv /\ FireInv /\ CalmInv
  BY DEF TriggerInv
<1> DEFINE r == [task[t] EXCEPT !.ids = task[t].ids \ {i}, !.changed = TRUE]
<1>2. /\ r \in TaskRecords
      /\ r.pc = task[t].pc /\ r.ids = task[t].ids \ {i} /\ r.agent = task[t].agent
      /\ r.changed = TRUE /\ r.snap = task[t].snap
  BY <1>0, CallFields DEF TaskRecords
<1>3. task' = [task EXCEPT ![t] = r]
  BY <1>0 DEF TE!Goto, TriggerTypes
<1> HIDE DEF r
<1>4. Moves(t) /\ task'[t] = r
  BY <1>0, <1>2, <1>3, CallMoves
<1>6. /\ trig' \in TriggerMaps /\ trig'[i].present = trig[i].present /\ trig'[i].fires = trig[i].fires
      /\ \A j \in TrigIds \ {i} : trig'[j] = trig[j]
  BY <1>0, TriggerSwitched
<1>7. TriggerTypes'
  BY <1>0, <1>2, <1>4, <1>6 DEF TriggerTypes, Moves
<1>8. BirthInv'
  BY <1>0, <1>2, <1>4, <1>6 DEF TriggerTypes, Moves, BirthInv, Unborn
<1>9. IndexInv'
  BY <1>0, <1>2, <1>4, <1>6
     DEF TriggerTypes, Moves, IndexInv, TE!IndexComplete, TE!Present, TE!IndexOf
<1>10. FireInv'
  BY <1>0, <1>2, <1>4, <1>6, TriggerNumbers DEF TriggerTypes, Moves, FireInv, CountsRight
<1>11. CalmInv'
  BY <1>0, <1>2, <1>4, <1>6, TriggerNumbers DEF TriggerTypes, Moves, CalmInv, Dirty
<1> QED BY <1>7, <1>8, <1>9, <1>10, <1>11 DEF TriggerInv

LEMMA EvalFireStep ==
    ASSUME TriggerInv, NEW t \in Tasks, NEW i \in TrigIds, task[t].pc = "eval", i \in task[t].ids,
           task' = [[task EXCEPT ![t].ids = @ \ {i}] EXCEPT ![t].changed = TRUE],
           trig[i].present, ~TE!Exhausted(i), trig' = [trig EXCEPT ![i].fires = @ + 1],
           fired' = [fired EXCEPT ![i] = @ + 1],
           UNCHANGED <<index, used, disk, removed, unsaved, disturbed>> PROVE TriggerInv'
<1>0. TriggerTypes /\ BirthInv /\ IndexInv /\ FireInv /\ CalmInv
  BY DEF TriggerInv
<1> DEFINE r == [task[t] EXCEPT !.ids = task[t].ids \ {i}, !.changed = TRUE]
<1>2. /\ r \in TaskRecords
      /\ r.pc = task[t].pc /\ r.ids = task[t].ids \ {i} /\ r.agent = task[t].agent
      /\ r.changed = TRUE /\ r.snap = task[t].snap
  BY <1>0, CallFields DEF TaskRecords
<1>3. task' = [task EXCEPT ![t] = r]
  BY <1>0 DEF TE!Goto, TriggerTypes
<1> HIDE DEF r
<1>4. Moves(t) /\ task'[t] = r
  BY <1>0, <1>2, <1>3, CallMoves
<1>6. /\ trig' \in TriggerMaps /\ trig'[i].present = trig[i].present
      /\ trig'[i].fires = trig[i].fires + 1 /\ \A j \in TrigIds \ {i} : trig'[j] = trig[j]
      /\ fired' \in [TrigIds -> Nat] /\ fired'[i] = fired[i] + 1
      /\ \A j \in TrigIds \ {i} : fired'[j] = fired[j]
      /\ ~(MaxFires[i] > 0 /\ trig[i].fires >= MaxFires[i])
  BY <1>0, TriggerFires DEF TE!Exhausted
<1>7. TriggerTypes'
  BY <1>0, <1>2, <1>4, <1>6 DEF TriggerTypes, Moves
<1>8. BirthInv'
  BY <1>0, <1>2, <1>4, <1>6 DEF TriggerTypes, Moves, BirthInv, Unborn
<1>9. IndexInv'
  BY <1>0, <1>2, <1>4, <1>6
     DEF TriggerTypes, Moves, IndexInv, TE!IndexComplete, TE!Present, TE!IndexOf
<1>10. FireInv'
  <2> SUFFICES ASSUME NEW j \in TrigIds
               PROVE  /\ CountsRight(trig[j], j)' /\ CountsRight(disk[j], j)'
                      /\ \A u \in Tasks : CountsRight(task[u].snap[j], j)'
    BY DEF FireInv
  <2>1. /\ CountsRight(trig[j], j) /\ CountsRight(disk[j], j)
        /\ \A u \in Tasks : CountsRight(task[u].snap[j], j)
    BY <1>0 DEF FireInv
  <2>2. \A u \in Tasks : task'[u].snap = task[u].snap
    BY <1>0, <1>2, <1>4, <1>6 DEF Moves
  <2>3. /\ trig[j].fires \in Nat /\ disk[j].fires \in Nat /\ fired[j] \in Nat /\ MaxFires[j] \in Nat
        /\ \A u \in Tasks : task[u].snap[j].fires \in Nat
    BY <1>0, TriggerNumbers
  <2>4. CASE j = i
    <3>1. CountsRight(trig[j], j)'
      BY <1>6, <2>1, <2>3, <2>4 DEF CountsRight
    <3>2. CountsRight(disk[j], j)'
      BY <1>6, <2>1, <2>3, <2>4 DEF CountsRight
    <3>3. ASSUME NEW u \in Tasks PROVE CountsRight(task[u].snap[j], j)'
      <4>1. /\ task[u].snap[j].fires \in Nat /\ fired[j] \in Nat
            /\ CountsRight(task[u].snap[j], j) /\ task'[u].snap = task[u].snap
        BY <2>1, <2>2, <2>3
      <4> QED BY <1>6, <2>4, <4>1 DEF CountsRight
    <3> QED BY <3>1, <3>2, <3>3
  <2>5. CASE j # i
    BY <1>6, <2>1, <2>2, <2>3, <2>5 DEF CountsRight
  <2> QED BY <2>4, <2>5
<1>11. CalmInv'
  <2> SUFFICES ASSUME ~disturbed PROVE CalmInv'
    BY DEF CalmInv
  <2>1. \A u, v \in Tasks : task'[u].pc # "idle" /\ task'[v].pc # "idle" => u = v
    BY <1>0, <1>2, <1>4 DEF CalmInv, Moves
  <2>2. Dirty(t)' /\ \A u \in Tasks : task'[u].pc # "write"
    BY <1>0, <1>2, <1>4, <2>1 DEF Dirty, Moves
  <2>3. ASSUME NEW j \in TrigIds
        PROVE  /\ trig'[j].present => trig'[j].fires = fired'[j]
               /\ MaxFires[j] > 0 => fired'[j] <= MaxFires[j]
               /\ j \in removed => ~trig'[j].present
    <3>1. /\ trig[j].present => trig[j].fires = fired[j]
          /\ MaxFires[j] > 0 => fired[j] <= MaxFires[j]
          /\ j \in removed => ~trig[j].present
      BY <1>0 DEF CalmInv
    <3>2. trig[j].fires \in Nat /\ fired[j] \in Nat /\ MaxFires[j] \in Nat
      BY <1>0, TriggerNumbers
    <3> QED BY <1>6, <3>1, <3>2
  <2> QED BY <2>1, <2>2, <2>3 DEF CalmInv
<1> QED BY <1>7, <1>8, <1>9, <1>10, <1>11 DEF TriggerInv

LEMMA PersistStep ==
    ASSUME TriggerInv, NEW t \in Tasks, TE!Persist(t) PROVE TriggerInv'
<1>0. TriggerTypes /\ BirthInv /\ IndexInv /\ FireInv /\ CalmInv
  BY DEF TriggerInv
<1> DEFINE r == [task[t] EXCEPT !.pc = "write", !.snap = trig]
<1>1. trig \in TriggerMaps
  BY <1>0, ServicesAssumption DEF TE!Persist, TE!Present, TriggerTypes
<1>2. /\ r \in TaskRecords
      /\ r.pc = "write" /\ r.ids = task[t].ids /\ r.agent = task[t].agent
      /\ r.changed = task[t].changed /\ r.snap = trig
  BY <1>0, <1>1, CallFields DEF TaskRecords
<1>3. task' = [task EXCEPT ![t] = r]
  BY <1>0 DEF TE!Persist, TE!Goto, TriggerTypes
<1> HIDE DEF r
<1>4. Moves(t) /\ task'[t] = r
  BY <1>0, <1>2, <1>3, CallMoves
<1>6. task[t].pc = "persist" /\ UNCHANGED <<trig, index, used, disk, fired, removed, unsaved, disturbed>>
  BY DEF TE!Persist, TE!Begins
<1>7. TriggerTypes'
  BY <1>0, <1>2, <1>4, <1>6 DEF TriggerTypes, Moves
<1>8. BirthInv'
  BY <1>0, <1>2, <1>4, <1>6 DEF TriggerTypes, Moves, BirthInv, Unborn
<1>9. IndexInv'
  BY <1>0, <1>2, <1>4, <1>6
     DEF TriggerTypes, Moves, IndexInv, TE!IndexComplete, TE!Present, TE!IndexOf
<1>10. FireInv'
  BY <1>0, <1>2, <1>4, <1>6 DEF TriggerTypes, Moves, FireInv, CountsRight
<1>11. CalmInv'
  BY <1>0, <1>2, <1>4, <1>6 DEF TriggerTypes, Moves, CalmInv, Dirty
<1> QED BY <1>7, <1>8, <1>9, <1>10, <1>11 DEF TriggerInv

(* A call returns: it leaves nothing to save behind.                       *)
LEMMA ReturnStep ==
    ASSUME TriggerInv, NEW t \in Tasks, task' = [task EXCEPT ![t] = TE!Idle],
           task[t].pc \notin {"idle", "insert", "index", "removeAll"}, ~Dirty(t),
           UNCHANGED <<trig, index, used, disk, fired, removed, unsaved, disturbed>>
    PROVE  TriggerInv'
<1>0. TriggerTypes /\ BirthInv /\ IndexInv /\ FireInv /\ CalmInv
  BY DEF TriggerInv
<1>1. /\ Moves(t) /\ task'[t].pc = "idle" /\ task'[t].ids = {} /\ task'[t].changed = FALSE
      /\ \A i \in TrigIds : task'[t].snap[i].fires = 0 /\ ~task'[t].snap[i].present
  BY <1>0, CallEnds
<1>2. TriggerTypes'
  BY <1>0, <1>1 DEF TriggerTypes, Moves
<1>3. BirthInv'
  BY <1>0, <1>1 DEF TriggerTypes, Moves, BirthInv, Unborn
<1>4. IndexInv'
  BY <1>0, <1>1 DEF TriggerTypes, Moves, IndexInv, TE!IndexComplete, TE!Present, TE!IndexOf
<1>5. FireInv'
  BY <1>0, <1>1, TriggerNumbers DEF Moves, FireInv, CountsRight
<1>6. CalmInv'
  <2> SUFFICES ASSUME ~disturbed PROVE CalmInv'
    BY DEF CalmInv
  <2>1. \A u \in Tasks : task'[u].pc = "idle"
    BY <1>0, <1>1 DEF CalmInv, Moves
  <2>2. \A u \in Tasks : ~Dirty(u)
    BY <1>0 DEF CalmInv, Dirty
  <2>3. ~unsaved => disk = trig
    BY <1>0, <2>2 DEF CalmInv
  <2> QED BY <1>0, <2>1, <2>3 DEF CalmInv
<1> QED BY <1>2, <1>3, <1>4, <1>5, <1>6 DEF TriggerInv

(* An evaluation that changed something goes on to persist().              *)
LEMMA EvalSaveStep ==
    ASSUME TriggerInv, NEW t \in Tasks, task[t].pc = "eval", task[t].changed,
           task' = [task EXCEPT ![t] = [TE!Idle EXCEPT !.pc = "persist"]],
           UNCHANGED <<trig, index, used, disk, fired, removed, unsaved, disturbed>>
    PROVE  TriggerInv'
<1>0. TriggerTypes /\ BirthInv /\ IndexInv /\ FireInv /\ CalmInv
  BY DEF TriggerInv
<1> DEFINE r == [TE!Idle EXCEPT !.pc = "persist"]
<1>1. /\ TE!Empty \in TriggerMaps
      /\ \A i \in TrigIds : TE!Empty[i].fires = 0 /\ ~TE!Empty[i].present
  BY DEF TE!Empty, TE!Absent, TriggerMaps, TriggerRecords
<1>2. r \in TaskRecords /\ r.pc = "persist" /\ r.ids = {} /\ r.snap = TE!Empty
  BY <1>1, ServicesAssumption DEF TE!Idle, TaskRecords
<1> HIDE DEF r
<1>3. Moves(t) /\ task'[t] = r
  BY <1>0, <1>2, CallMoves DEF r
<1>4. /\ task'[t].pc = "persist" /\ task'[t].ids = {}
      /\ \A i \in TrigIds : task'[t].snap[i].fires = 0 /\ ~task'[t].snap[i].present
  BY <1>1, <1>2, <1>3
<1>5. TriggerTypes'
  BY <1>0, <1>3, <1>4 DEF TriggerTypes, Moves
<1>6. BirthInv'
  BY <1>0, <1>3, <1>4 DEF TriggerTypes, Moves, BirthInv, Unborn
<1>7. IndexInv'
  BY <1>0, <1>3, <1>4 DEF TriggerTypes, Moves, IndexInv, TE!IndexComplete, TE!Present, TE!IndexOf
<1>8. FireInv'
  BY <1>0, <1>3, <1>4, TriggerNumbers DEF Moves, FireInv, CountsRight
<1>9. CalmInv'
  BY <1>0, <1>3, <1>4 DEF CalmInv, Dirty, Moves
<1> QED BY <1>5, <1>6, <1>7, <1>8, <1>9 DEF TriggerInv

LEMMA WriteStep == ASSUME TriggerInv, NEW t \in Tasks, TE!Write(t) PROVE TriggerInv'
<1>0. TriggerTypes /\ BirthInv /\ IndexInv /\ FireInv /\ CalmInv
  BY DEF TriggerInv
<1>1. /\ Moves(t) /\ task'[t].pc = "idle" /\ task'[t].ids = {} /\ task'[t].changed = FALSE
      /\ \A i \in TrigIds : task'[t].snap[i].fires = 0 /\ ~task'[t].snap[i].present
  BY <1>0, CallEnds DEF TE!Write
<1>2. /\ task[t].pc = "write"
      /\ \/ disk' = task[t].snap /\ unsaved' = FALSE
         \/ disk' = disk /\ unsaved' = TRUE
      /\ disk' \in TriggerMaps /\ unsaved' \in BOOLEAN
      /\ removed' = removed \cup {i \in task[t].ids : ~task[t].snap[i].present}
      /\ UNCHANGED <<trig, index, used, fired, disturbed>>
  BY <1>0, CallFields DEF TE!Write, TriggerTypes
<1>3. TriggerTypes'
  BY <1>0, <1>1, <1>2 DEF TriggerTypes, Moves
<1>4. BirthInv'
  <2>1. \A i \in TrigIds : Unborn(i)' => Unborn(i) /\ i \notin task[t].ids
    BY <1>0, <1>1, <1>2 DEF BirthInv, Unborn, Moves
  <2>2. \A u \in Tasks : task'[u].ids \subseteq used
    BY <1>0, <1>1 DEF BirthInv, Moves
  <2>3. \A u, v \in Tasks : \A i \in task'[u].ids \cap task'[v].ids : task'[u].pc = "insert" => u = v
    BY <1>0, <1>1 DEF BirthInv, Moves
  <2>4. \A i \in TrigIds : Unborn(i)' => \A u \in Tasks : ~task'[u].snap[i].present
    BY <1>0, <1>1, <2>1 DEF BirthInv, Moves
  <2> QED BY <1>0, <1>2, <2>1, <2>2, <2>3, <2>4 DEF BirthInv
<1>5. IndexInv'
  BY <1>0, <1>1, <1>2 DEF TriggerTypes, Moves, IndexInv, TE!IndexComplete, TE!Present, TE!IndexOf
<1>6. FireInv'
  BY <1>0, <1>1, <1>2, TriggerNumbers DEF Moves, FireInv, CountsRight
<1>7. CalmInv'
  <2> SUFFICES ASSUME ~disturbed PROVE CalmInv'
    BY <1>2 DEF CalmInv
  <2>1. \A u \in Tasks : task'[u].pc = "idle"
    BY <1>0, <1>1, <1>2 DEF CalmInv, Moves
  <2>2. task[t].snap = trig /\ task[t].ids \subseteq TrigIds
    BY <1>0, <1>2, CallFields DEF CalmInv
  <2> QED BY <1>0, <1>2, <2>1, <2>2 DEF CalmInv
<1> QED BY <1>3, <1>4, <1>5, <1>6, <1>7 DEF TriggerInv

LEMMA InsertStep == ASSUME TriggerInv, NEW t \in Tasks, TE!Insert(t) PROVE TriggerInv'
<1>0. TriggerTypes /\ BirthInv /\ IndexInv /\ FireInv /\ CalmInv
  BY DEF TriggerInv
<1> DEFINE new == [present |-> TRUE, enabled |-> TRUE, fires |-> 0]
<1>1. /\ task[t].pc = "insert"
      /\ trig' = [i \in TrigIds |-> IF i \in task[t].ids THEN new ELSE trig[i]]
      /\ UNCHANGED <<index, used, disk, fired, removed, unsaved, disturbed>>
  BY DEF TE!Insert
<1>2. /\ trig' \in TriggerMaps
      /\ \A i \in task[t].ids : trig'[i].present /\ trig'[i].fires = 0
      /\ \A i \in TrigIds \ task[t].ids : trig'[i] = trig[i]
  <2>1. new \in TriggerRecords /\ task[t].ids \subseteq TrigIds
    BY <1>0, CallFields DEF TriggerRecords
  <2>2. trig' \in TriggerMaps
    BY <1>0, <1>1, <2>1 DEF TriggerTypes, TriggerMaps
  <2> QED BY <1>1, <2>1, <2>2
<1>3. PICK seers \in SUBSET {u \in Tasks : task[u].pc = "eval"} :
        task' = [u \in Tasks |->
                   IF u = t THEN [task[u] EXCEPT !.pc = "index"]
                   ELSE IF u \in seers THEN [task[u] EXCEPT !.ids = @ \cup task[t].ids]
                   ELSE task[u]]
  BY DEF TE!Insert
<1>4. /\ task'[t] = [task[t] EXCEPT !.pc = "index"]
      /\ \A u \in Tasks \ {t} : task'[u] = IF u \in seers
                                           THEN [task[u] EXCEPT !.ids = @ \cup task[t].ids]
                                           ELSE task[u]
  BY <1>3
<1>5. /\ task'[t] \in TaskRecords
      /\ task'[t].pc = "index" /\ task'[t].ids = task[t].ids /\ task'[t].agent = task[t].agent
      /\ task'[t].snap = task[t].snap
  BY <1>0, <1>4, CallFields DEF TaskRecords
<1>6. ASSUME NEW u \in Tasks \ {t}
      PROVE  /\ task'[u] \in TaskRecords
             /\ task'[u].pc = task[u].pc /\ task'[u].agent = task[u].agent
             /\ task'[u].changed = task[u].changed /\ task'[u].snap = task[u].snap
             /\ task'[u].ids = task[u].ids
                \/ (task[u].pc = "eval" /\ task'[u].ids = task[u].ids \cup task[t].ids)
  <2>1. task[u] \in TaskRecords /\ task[t].ids \subseteq TrigIds
    BY <1>0, CallFields
  <2>2. CASE u \in seers
    <3>1. task[u].pc = "eval" /\ task'[u] = [task[u] EXCEPT !.ids = @ \cup task[t].ids]
      BY <1>4, <2>2
    <3>2. [task[u] EXCEPT !.ids = @ \cup task[t].ids] \in TaskRecords
      BY <2>1 DEF TaskRecords
    <3>3. /\ task'[u].pc = task[u].pc /\ task'[u].agent = task[u].agent
          /\ task'[u].changed = task[u].changed /\ task'[u].snap = task[u].snap
          /\ task'[u].ids = task[u].ids \cup task[t].ids
      BY <2>1, <3>1 DEF TaskRecords
    <3> QED BY <3>1, <3>2, <3>3
  <2>3. CASE u \notin seers
    BY <1>4, <2>1, <2>3
  <2> QED BY <2>2, <2>3
<1>7. TriggerTypes'
  <2>1. task' \in [Tasks -> TaskRecords]
    <3>1. task' = [u \in Tasks |-> task'[u]]
      BY <1>3
    <3> QED BY <1>5, <1>6, <3>1
  <2> QED BY <1>0, <1>1, <1>2, <1>5, <1>6, <2>1 DEF TriggerTypes
<1>8. \A i \in task[t].ids : Unborn(i) /\ i \in TrigIds
  BY <1>0, <1>1, CallFields DEF Unborn
<1>9. BirthInv'
  <2>1. \A i \in TrigIds : Unborn(i)' => Unborn(i) /\ i \notin task[t].ids
    BY <1>0, <1>1, <1>5, <1>6 DEF BirthInv, Unborn
  <2>2. \A u \in Tasks : task'[u].ids \subseteq used
    BY <1>0, <1>5, <1>6 DEF BirthInv
  <2>3. \A u, v \in Tasks : \A i \in task'[u].ids \cap task'[v].ids : task'[u].pc = "insert" => u = v
    BY <1>0, <1>1, <1>5, <1>6 DEF BirthInv
  <2>4. \A i \in TrigIds : Unborn(i)' => \A u \in Tasks : ~task'[u].snap[i].present
    BY <1>0, <1>5, <1>6, <2>1 DEF BirthInv
  <2> QED BY <1>0, <1>1, <1>2, <2>1, <2>2, <2>3, <2>4 DEF BirthInv
<1>10. IndexInv'
  <2>1. ASSUME NEW u \in Tasks, NEW j \in task'[u].ids
        PROVE  /\ task'[u].pc = "unindex" => ~trig'[j].present
               /\ task'[u].pc \in {"insert", "index"} => task'[u].agent = AgentOf[j]
    <3>1. CASE u = t
      BY <1>0, <1>1, <1>5, <2>1, <3>1 DEF IndexInv
    <3>2. CASE u # t /\ task[u].pc # "eval"
      <4>1. task'[u].pc = task[u].pc /\ task'[u].agent = task[u].agent /\ j \in task[u].ids
        BY <1>6, <2>1, <3>2
      <4>2. j \notin task[t].ids /\ j \in TrigIds
        BY <1>0, <1>1, <3>2, <4>1, CallFields DEF BirthInv
      <4> QED BY <1>0, <1>2, <4>1, <4>2 DEF IndexInv
    <3>3. CASE u # t /\ task[u].pc = "eval"
      BY <1>6, <3>3
    <3> QED BY <3>1, <3>2, <3>3
  <2>2. ASSUME NEW j \in TrigIds, trig'[j].present
        PROVE  \/ j \in TE!IndexOf(AgentOf[j])'
               \/ \E u \in Tasks : task'[u].pc \in {"index", "removeAll"} /\ j \in task'[u].ids
    <3>1. CASE j \in task[t].ids
      BY <1>5, <3>1
    <3>2. CASE j \notin task[t].ids
      <4>1. trig[j].present
        BY <1>2, <2>2, <3>2
      <4>2. \/ j \in TE!IndexOf(AgentOf[j])
            \/ \E u \in Tasks : task[u].pc \in {"index", "removeAll"} /\ j \in task[u].ids
        BY <1>0, <4>1 DEF IndexInv, TE!IndexComplete, TE!Present
      <4> QED BY <1>1, <1>6, <4>2 DEF TE!IndexOf
    <3> QED BY <3>1, <3>2
  <2> QED BY <2>1, <2>2 DEF IndexInv, TE!IndexComplete, TE!Present
<1>11. FireInv'
  <2>1. \A u \in Tasks : task'[u].snap = task[u].snap
    BY <1>5, <1>6
  <2>2. \A i \in TrigIds : CountsRight(trig[i], i)'
    BY <1>0, <1>1, <1>2, TriggerNumbers DEF FireInv, CountsRight
  <2> QED BY <1>0, <1>1, <2>1, <2>2 DEF FireInv, CountsRight
<1>12. CalmInv'
  <2> SUFFICES ASSUME ~disturbed PROVE CalmInv'
    BY <1>1 DEF CalmInv
  <2>1. \A u \in Tasks \ {t} : task'[u].pc = "idle"
    BY <1>0, <1>1, <1>6 DEF CalmInv
  <2>2. Dirty(t)'
    BY <1>5 DEF Dirty
  <2>3. ASSUME NEW i \in TrigIds
        PROVE  /\ trig'[i].present => trig'[i].fires = fired[i]
               /\ MaxFires[i] > 0 => fired[i] <= MaxFires[i]
               /\ i \in removed => ~trig'[i].present
    <3>1. CASE i \in task[t].ids
      BY <1>0, <1>2, <1>8, <3>1 DEF BirthInv, CalmInv
    <3>2. CASE i \notin task[t].ids
      BY <1>0, <1>2, <3>2 DEF CalmInv
    <3> QED BY <3>1, <3>2
  <2> QED BY <1>1, <1>5, <2>1, <2>2, <2>3 DEF CalmInv
<1> QED BY <1>7, <1>9, <1>10, <1>11, <1>12 DEF TriggerInv

LEMMA BootStep == ASSUME TriggerInv, TE!Boot PROVE TriggerInv'
<1>0. TriggerTypes /\ BirthInv /\ IndexInv /\ FireInv /\ CalmInv
  BY DEF TriggerInv
<1>1. /\ trig' = disk /\ index' = TE!Reindex /\ task' = [t \in Tasks |-> TE!Idle]
      /\ UNCHANGED <<used, disk, fired, removed>>
  BY DEF TE!Boot
<1>2. /\ disturbed' \in BOOLEAN /\ unsaved' \in BOOLEAN
      /\ ~disturbed' => ~disturbed /\ ~unsaved /\ \A t \in Tasks : task[t].pc = "idle"
  BY <1>0 DEF TE!Boot, TE!Quiet, TriggerTypes
<1>4. /\ TE!Empty \in TriggerMaps
      /\ \A i \in TrigIds : TE!Empty[i].fires = 0 /\ ~TE!Empty[i].present
  BY DEF TE!Empty, TE!Absent, TriggerMaps, TriggerRecords
<1>5. /\ TE!Idle \in TaskRecords /\ TE!Idle.pc = "idle" /\ TE!Idle.ids = {}
      /\ TE!Idle.changed = FALSE /\ TE!Idle.snap = TE!Empty
  BY <1>4, ServicesAssumption DEF TE!Idle, TaskRecords
<1>6. \A t \in Tasks : /\ task'[t].pc = "idle" /\ task'[t].ids = {} /\ task'[t].changed = FALSE
                       /\ task'[t].snap = TE!Empty
  BY <1>1, <1>5
<1>7. /\ \A a \in DOMAIN index' : index'[a] = {i \in TrigIds : disk[i].present /\ AgentOf[i] = a}
      /\ \A i \in TrigIds : disk[i].present => AgentOf[i] \in DOMAIN index'
  BY <1>1 DEF TE!Reindex
<1>8. TriggerTypes'
  BY <1>0, <1>1, <1>2, <1>5, <1>6, <1>7 DEF TriggerTypes
<1>9. BirthInv'
  BY <1>0, <1>1, <1>4, <1>6, <1>7 DEF BirthInv, Unborn
<1>10. IndexInv'
  BY <1>1, <1>6, <1>7 DEF IndexInv, TE!IndexComplete, TE!Present, TE!IndexOf
<1>11. FireInv'
  BY <1>0, <1>1, <1>4, <1>6, TriggerNumbers DEF FireInv, CountsRight
<1>12. CalmInv'
  <2> SUFFICES ASSUME ~disturbed' PROVE CalmInv'
    BY DEF CalmInv
  <2>1. disk = trig
    BY <1>0, <1>2 DEF CalmInv, Dirty
  <2> QED BY <1>0, <1>1, <1>2, <1>6, <2>1 DEF CalmInv
<1> QED BY <1>8, <1>9, <1>10, <1>11, <1>12 DEF TriggerInv

LEMMA TriggerStep == TriggerInv /\ TE!Next => TriggerInv'
<1> SUFFICES ASSUME TriggerInv, TE!Next PROVE TriggerInv'
  OBVIOUS
<1>1. ASSUME NEW t \in Tasks, TE!TaskStep(t) PROVE TriggerInv'
  <2>1. ASSUME NEW i \in TrigIds, TE!EvalOne(t, i) PROVE TriggerInv'
    <3>1. /\ task[t].pc = "eval" /\ i \in task[t].ids
          /\ UNCHANGED <<index, used, disk, removed, unsaved, disturbed>>
      BY <2>1 DEF TE!EvalOne
    <3>2. \/ task' = [task EXCEPT ![t].ids = @ \ {i}] /\ UNCHANGED <<trig, fired>>
          \/ /\ task' = [[task EXCEPT ![t].ids = @ \ {i}] EXCEPT ![t].changed = TRUE]
             /\ trig' = [trig EXCEPT ![i].enabled = FALSE] /\ UNCHANGED fired
          \/ /\ task' = [[task EXCEPT ![t].ids = @ \ {i}] EXCEPT ![t].changed = TRUE]
             /\ trig[i].present /\ ~TE!Exhausted(i) /\ trig' = [trig EXCEPT ![i].fires = @ + 1]
             /\ fired' = [fired EXCEPT ![i] = @ + 1]
      BY <2>1, Zenon DEF TE!EvalOne
    <3> QED BY <3>1, <3>2, EvalSkipStep, EvalDisableStep, EvalFireStep
  <2>2. CASE TE!TakeIndex(t)
    <3>1. CASE task[t].agent \in DOMAIN index
      BY <2>2, <3>1, TakeStep
    <3>2. CASE task[t].agent \notin DOMAIN index
      <4>1. /\ task[t].pc = "take" /\ task' = [task EXCEPT ![t] = TE!Idle]
            /\ UNCHANGED <<trig, index, used, disk, fired, removed, unsaved, disturbed>>
        BY <2>2, <3>2 DEF TE!TakeIndex
      <4>2. ~Dirty(t)
        BY <4>1 DEF Dirty
      <4> QED BY <4>1, <4>2, ReturnStep
    <3> QED BY <3>1, <3>2
  <2>3. CASE TE!RemoveAll(t)
    <3>1. CASE /\ task[t].ids = {} /\ UNCHANGED trig
               /\ task' = [task EXCEPT ![t].pc = "persist", ![t].agent = NoAgent]
      BY <2>3, <3>1, RemoveAllStep DEF TE!RemoveAll
    <3>2. ASSUME NEW i \in task[t].ids, trig' = [trig EXCEPT ![i] = TE!Absent],
                 task' = [task EXCEPT ![t].ids = @ \ {i}]
          PROVE  TriggerInv'
      <4>1. i \in TrigIds
        BY <3>2, CallFields DEF TriggerInv
      <4> QED BY <2>3, <3>2, <4>1, RemoveOneStep DEF TE!RemoveAll
    <3> QED BY <2>3, <3>1, <3>2 DEF TE!RemoveAll
  <2>4. CASE TE!EvalDone(t)
    <3>1. /\ task[t].pc = "eval"
          /\ UNCHANGED <<trig, index, used, disk, fired, removed, unsaved, disturbed>>
      BY <2>4 DEF TE!EvalDone
    <3>2. CASE task[t].changed
      BY <2>4, <3>1, <3>2, EvalSaveStep DEF TE!EvalDone
    <3>3. CASE ~task[t].changed
      <4>1. task' = [task EXCEPT ![t] = TE!Idle]
        BY <2>4, <3>3 DEF TE!EvalDone
      <4>2. ~Dirty(t)
        BY <3>1, <3>3 DEF Dirty
      <4> QED BY <3>1, <4>1, <4>2, ReturnStep
    <3> QED BY <3>2, <3>3
  <2>5. ASSUME NEW a \in Agents, TE!Spawn(t, a) PROVE TriggerInv'
    <3>1. Spawned \in Kinds
      BY ServicesAssumption
    <3> QED BY <2>5, <3>1, EvalStartStep DEF TE!Spawn
  <2>6. ASSUME NEW k \in Kinds, TE!Publish(t, k) PROVE TriggerInv'
    BY <2>6, EvalStartStep DEF TE!Publish
  <2> QED
    BY <1>1, <2>1, <2>2, <2>3, <2>4, <2>5, <2>6, RegisterStep, RemoveStep, SetEnabledStep,
       KillStep, InsertStep, IndexStep, UnindexStep, PersistStep, WriteStep DEF TE!TaskStep
<1> QED BY <1>1, BootStep DEF TE!Next

LEMMA TriggerNext == TriggerInv /\ [Next]_vars => TriggerInv'
<1>1. TriggerInv /\ UNCHANGED teVars => TriggerInv'
  <2> SUFFICES ASSUME TriggerInv, UNCHANGED teVars PROVE TriggerInv'
    OBVIOUS
  <2>1. UNCHANGED <<trig, index, task, used, disk, fired, removed, unsaved, disturbed>>
    BY DEF teVars
  <2>2. TriggerTypes' /\ BirthInv'
    BY <2>1 DEF TriggerInv, TriggerTypes, BirthInv, Unborn
  <2>3. IndexInv' /\ FireInv'
    BY <2>1 DEF TriggerInv, IndexInv, TE!IndexComplete, TE!Present, TE!IndexOf, FireInv, CountsRight
  <2>4. CalmInv'
    BY <2>1 DEF TriggerInv, CalmInv, Dirty
  <2> QED BY <2>2, <2>3, <2>4 DEF TriggerInv
<1> QED BY <1>1, TriggerStep DEF Next, Triggers, Audit, Pairing, Guard, Wire, vars

(* The index never loses a trigger, however register(), remove() and       *)
(* remove_agent_triggers() interleave, and over restarts.                  *)
THEOREM IndexIsComplete == Spec => []IndexComplete
<1>1. Init => TriggerInv
  BY TriggerInit DEF Init
<1>2. TriggerInv => IndexComplete
  BY DEF TriggerInv, IndexInv, IndexComplete
<1> QED BY <1>1, <1>2, TriggerNext, PTL DEF Spec

(* No evaluation counts past the limit, and what calls that neither        *)
(* overlapped nor were cut have done lasts over every restart that does    *)
(* not come between a failed persist() and the next that succeeds.         *)
THEOREM FiresAndRemovalsDoLast == Spec => []FiresAndRemovalsLast
<1>1. Init => TriggerInv
  BY TriggerInit DEF Init
<1>2. TriggerInv => FiresAndRemovalsLast
  BY DEF TriggerInv, FireInv, CountsRight, CalmInv, FiresAndRemovalsLast, TE!FiresAndRemovalsLast,
         TE!Present
<1> QED BY <1>1, <1>2, TriggerNext, PTL DEF Spec

-----------------------------------------------------------------------------
(* The audit log.                                                          *)

EntrySet == [id : Nat, prev : Nat]
Pieces == [e : EntrySet, part : {"head", "tail", "newline"}]
Readers == [es : Seq(EntrySet), stop : BOOLEAN, line : Seq(Pieces)]

Blank == AL!Reader(<<>>, FALSE, <<>>)

LEMMA ReaderType ==
    ASSUME NEW es \in Seq(EntrySet), NEW stop \in BOOLEAN, NEW line \in Seq(Pieces)
    PROVE  /\ AL!Reader(es, stop, line) \in Readers
           /\ AL!Reader(es, stop, line).es = es
           /\ AL!Reader(es, stop, line).stop = stop
           /\ AL!Reader(es, stop, line).line = line
BY DEF AL!Reader, Readers

LEMMA ReaderFields ==
    ASSUME NEW r \in Readers
    PROVE  r.es \in Seq(EntrySet) /\ r.stop \in BOOLEAN /\ r.line \in Seq(Pieces)
BY DEF Readers

(* The first piece of a line that parses names its entry.                  *)
LEMMA ParsedEntry ==
    ASSUME NEW line \in Seq(Pieces), AL!Parses(line)
    PROVE  line[1].e \in EntrySet
<1>1. 1 \in DOMAIN line
  <2>1. Len(line) # 0 /\ Len(line) \in Nat /\ DOMAIN line = 1..Len(line)
    BY EmptySeq DEF AL!Parses
  <2> QED BY <2>1
<1>2. line[1] \in Pieces
  BY <1>1
<1> QED BY <1>2 DEF Pieces

LEMMA EndLineType == ASSUME NEW r \in Readers PROVE AL!EndLine(r) \in Readers
<1>1. r.es \in Seq(EntrySet) /\ r.stop \in BOOLEAN /\ r.line \in Seq(Pieces)
  BY ReaderFields
<1>2. <<>> \in Seq(Pieces)
  OBVIOUS
<1>3. AL!Parses(r.line) => Append(r.es, r.line[1].e) \in Seq(EntrySet)
  BY <1>1, ParsedEntry
<1> QED BY <1>1, <1>2, <1>3, ReaderType DEF AL!EndLine

LEMMA ReadType ==
    ASSUME NEW r \in Readers, NEW p \in Pieces PROVE AL!Read(r, p) \in Readers
<1>1. r.es \in Seq(EntrySet) /\ r.stop \in BOOLEAN /\ Append(r.line, p) \in Seq(Pieces)
  BY ReaderFields
<1> QED BY <1>1, EndLineType, ReaderType DEF AL!Read

LEMMA BlankType == Blank \in Readers /\ Blank.es = <<>> /\ Blank.stop = FALSE /\ Blank.line = <<>>
<1>1. <<>> \in Seq(EntrySet) /\ <<>> \in Seq(Pieces)
  OBVIOUS
<1> QED BY <1>1 DEF Blank, AL!Reader, Readers

(* A property of the numbers up to n that 0 has and that passes from i to  *)
(* i + 1: the least counterexample is refuted.                             *)
LEMMA UpTo ==
    ASSUME NEW n \in Nat, NEW S, 0 \in S, \A i \in 0..(n - 1) : i \in S => i + 1 \in S
    PROVE  \A i \in 0..n : i \in S
<1> SUFFICES ASSUME NEW i \in 0..n, i \notin S PROVE FALSE
  OBVIOUS
<1> DEFINE R == OpToRel(<, Nat)
           T == {k \in 0..n : k \notin S}
<1>1. IsWellFoundedOn(R, Nat)
  BY NatLessThanWellFounded
<1>2. T \subseteq Nat /\ T # {}
  OBVIOUS
<1>3. PICK m \in T : \A k \in T : ~ (<<k, m>> \in R)
  <2> HIDE DEF R, T
  <2> QED BY <1>1, <1>2, WFMin
<1>4. \A k \in T : ~ (k < m)
  <2> SUFFICES ASSUME NEW k \in T, k < m PROVE FALSE
    OBVIOUS
  <2>1. k \in Nat /\ m \in Nat
    BY <1>2, <1>3
  <2>2. <<k, m>> \in R
    BY <2>1 DEF OpToRel
  <2> HIDE DEF R, T
  <2> QED BY <1>3, <2>2
<1>5. m \in 0..n /\ m \notin S
  OBVIOUS
<1>6. m # 0 /\ m - 1 \in 0..(n - 1) /\ m - 1 \in 0..n /\ (m - 1) + 1 = m /\ m - 1 < m
  BY <1>5
<1>7. m - 1 \in S
  BY <1>4, <1>6
<1> QED BY <1>5, <1>6, <1>7

(* The replay of a file up to piece n, as a function.                      *)
Runs(f, n) ==
    \E g \in [0..n -> Readers] :
        g[0] = Blank /\ \A i \in 1..n : g[i] = AL!Read(g[i - 1], f[i])

LEMMA ReplayRuns == ASSUME NEW f \in Seq(Pieces) PROVE Runs(f, Len(f))
<1> DEFINE S == {n \in 0..Len(f) : Runs(f, n)}
<1>0. Len(f) \in Nat /\ DOMAIN f = 1..Len(f)
  OBVIOUS
<1>1. 0 \in S
  <2>1. [k \in 0..0 |-> Blank] \in [0..0 -> Readers] /\ [k \in 0..0 |-> Blank][0] = Blank
    BY BlankType
  <2>2. 1..0 = {}
    OBVIOUS
  <2>3. Runs(f, 0)
    BY <2>1, <2>2 DEF Runs
  <2> QED BY <1>0, <2>3
<1>2. ASSUME NEW n \in 0..(Len(f) - 1), n \in S PROVE n + 1 \in S
  <2>1. PICK g \in [0..n -> Readers] :
            g[0] = Blank /\ \A i \in 1..n : g[i] = AL!Read(g[i - 1], f[i])
    BY <1>2 DEF Runs
  <2> DEFINE h == [k \in 0..(n + 1) |-> IF k <= n THEN g[k] ELSE AL!Read(g[n], f[n + 1])]
  <2>2. n \in Nat /\ n + 1 \in 1..Len(f) /\ f[n + 1] \in Pieces /\ g[n] \in Readers
    BY <1>0, <2>1
  <2>3. AL!Read(g[n], f[n + 1]) \in Readers
    BY <2>2, ReadType
  <2>4. h \in [0..(n + 1) -> Readers]
    BY <2>1, <2>2, <2>3
  <2>5. h[0] = Blank
    BY <2>1, <2>2
  <2>6. ASSUME NEW i \in 1..(n + 1) PROVE h[i] = AL!Read(h[i - 1], f[i])
    <3>1. i - 1 \in 0..(n + 1) /\ i \in 0..(n + 1) /\ i - 1 <= n /\ (i <= n \/ i = n + 1)
      BY <2>2
    <3>2. h[i - 1] = g[i - 1]
      BY <3>1
    <3>3. CASE i <= n
      <4>1. h[i] = g[i] /\ i \in 1..n
        BY <2>2, <3>1, <3>3
      <4> QED BY <2>1, <3>2, <4>1
    <3>4. CASE i = n + 1
      <4>1. h[i] = AL!Read(g[n], f[n + 1]) /\ i - 1 = n
        BY <2>2, <3>1, <3>4
      <4> QED BY <3>2, <3>4, <4>1
    <3> QED BY <3>1, <3>3, <3>4
  <2> HIDE DEF h
  <2>7. Runs(f, n + 1)
    BY <2>4, <2>5, <2>6 DEF Runs
  <2> QED BY <2>2, <2>7
<1> HIDE DEF S
<1>3. \A n \in 0..Len(f) : n \in S
  BY <1>0, <1>1, <1>2, UpTo
<1> QED BY <1>0, <1>3 DEF S

LEMMA ScanIs ==
    ASSUME NEW f \in Seq(Pieces)
    PROVE  /\ AL!Scan(f) \in [0..Len(f) -> Readers]
           /\ AL!Scan(f)[0] = Blank
           /\ \A i \in 1..Len(f) : AL!Scan(f)[i] = AL!Read(AL!Scan(f)[i - 1], f[i])
<1> DEFINE Next_(r) == [n \in 0..Len(f) |-> IF n = 0 THEN Blank ELSE AL!Read(r[n - 1], f[n])]
<1>0. Len(f) \in Nat /\ DOMAIN f = 1..Len(f)
  OBVIOUS
<1>1. PICK g \in [0..Len(f) -> Readers] :
          g[0] = Blank /\ \A i \in 1..Len(f) : g[i] = AL!Read(g[i - 1], f[i])
  BY ReplayRuns DEF Runs
<1>2. g = Next_(g)
  <2>1. \A n \in 0..Len(f) : g[n] = IF n = 0 THEN Blank ELSE AL!Read(g[n - 1], f[n])
    BY <1>0, <1>1
  <2> QED BY <1>1, <2>1
<1>3. AL!Scan(f) = CHOOSE r : r = Next_(r)
  BY DEF AL!Scan, Blank
<1>4. AL!Scan(f) = Next_(AL!Scan(f))
  BY <1>2, <1>3
<1>4a. PICK r : r = AL!Scan(f)
  OBVIOUS
<1>5. /\ DOMAIN r = 0..Len(f) /\ r = [k \in 0..Len(f) |-> r[k]] /\ r[0] = Blank
      /\ \A i \in 1..Len(f) : r[i] = AL!Read(r[i - 1], f[i])
  <2>1. r = [n \in 0..Len(f) |-> IF n = 0 THEN Blank ELSE AL!Read(r[n - 1], f[n])]
    BY <1>4, <1>4a
  <2>2. \A n \in 0..Len(f) : r[n] = IF n = 0 THEN Blank ELSE AL!Read(r[n - 1], f[n])
    BY <2>1
  <2>3. DOMAIN r = 0..Len(f) /\ r = [k \in 0..Len(f) |-> r[k]]
    BY <2>1
  <2>4. 0 \in 0..Len(f) /\ \A i \in 1..Len(f) : i \in 0..Len(f) /\ i # 0
    BY <1>0
  <2> QED BY <2>2, <2>3, <2>4
<1> DEFINE S == {n \in 0..Len(f) : r[n] \in Readers}
<1>6. 0 \in S
  BY <1>0, <1>5, BlankType
<1>7. ASSUME NEW n \in 0..(Len(f) - 1), n \in S PROVE n + 1 \in S
  <2>1. n \in Nat /\ n + 1 \in 1..Len(f) /\ n + 1 \in 0..Len(f) /\ (n + 1) - 1 = n /\ f[n + 1] \in Pieces
    BY <1>0
  <2>2. r[n + 1] = AL!Read(r[n], f[n + 1])
    BY <1>5, <2>1
  <2> QED BY <1>7, <2>1, <2>2, ReadType
<1>8. \A n \in 0..Len(f) : n \in S
  <2> HIDE DEF S
  <2> QED BY <1>0, <1>6, <1>7, UpTo
<1>9. r \in [0..Len(f) -> Readers]
  BY <1>5, <1>8
<1> QED BY <1>4a, <1>5, <1>9

(* Where the replay of a file stands at its end.                           *)
At(f) == AL!Scan(f)[Len(f)]

LEMMA AtEmpty == At(<<>>) = Blank
<1>1. <<>> \in Seq(Pieces) /\ Len(<<>>) = 0
  OBVIOUS
<1> QED BY <1>1, ScanIs DEF At

(* A longer file is read from where the shorter one ended.                 *)
LEMMA AtAppend ==
    ASSUME NEW f \in Seq(Pieces), NEW p \in Pieces
    PROVE  At(f) \in Readers /\ At(Append(f, p)) = AL!Read(At(f), p)
<1>1. PICK n : n = Len(f)
  OBVIOUS
<1>2. PICK h : h = Append(f, p)
  OBVIOUS
<1>3. /\ n \in Nat /\ h \in Seq(Pieces) /\ Len(h) = n + 1 /\ h[n + 1] = p
      /\ \A i \in 1..n : h[i] = f[i]
  BY <1>1, <1>2
<1>4. PICK a : a = AL!Scan(f)
  OBVIOUS
<1>5. PICK b : b = AL!Scan(h)
  OBVIOUS
<1>6. /\ a[0] = Blank /\ a[n] \in Readers
      /\ \A i \in 1..n : a[i] = AL!Read(a[i - 1], f[i])
  <2>1. n \in 0..n
    BY <1>3
  <2> QED BY <1>1, <1>4, <2>1, ScanIs
<1>7. b[0] = Blank /\ \A i \in 1..(n + 1) : b[i] = AL!Read(b[i - 1], h[i])
  BY <1>3, <1>5, ScanIs
<1> DEFINE S == {i \in 0..n : a[i] = b[i]}
<1>8. 0 \in S
  BY <1>3, <1>6, <1>7
<1>9. ASSUME NEW i \in 0..(n - 1), i \in S PROVE i + 1 \in S
  <2>1. i + 1 \in 1..n /\ i + 1 \in 0..n /\ i + 1 \in 1..(n + 1) /\ (i + 1) - 1 = i
    BY <1>3
  <2>2. a[i + 1] = AL!Read(a[i], f[i + 1])
    BY <1>6, <2>1
  <2>3. b[i + 1] = AL!Read(b[i], h[i + 1])
    BY <1>7, <2>1
  <2> QED BY <1>3, <1>9, <2>1, <2>2, <2>3
<1>10. \A i \in 0..n : i \in S
  <2> HIDE DEF S
  <2> QED BY <1>3, <1>8, <1>9, UpTo
<1>11. a[n] = b[n]
  BY <1>3, <1>10
<1>12. b[n + 1] = AL!Read(b[n], p)
  <2>1. n + 1 \in 1..(n + 1) /\ (n + 1) - 1 = n
    BY <1>3
  <2> QED BY <1>3, <1>7, <2>1
<1>13. At(f) = a[n] /\ At(h) = b[n + 1]
  BY <1>1, <1>3, <1>4, <1>5 DEF At
<1> QED BY <1>2, <1>6, <1>11, <1>12, <1>13

LEMMA AtType == ASSUME NEW f \in Seq(Pieces) PROVE At(f) \in Readers
<1>1. Len(f) \in 0..Len(f)
  OBVIOUS
<1> QED BY <1>1, ScanIs DEF At

-----------------------------------------------------------------------------
(* f is g, or g cut off.                                                   *)
Cut(f, g) == Len(f) <= Len(g) /\ \A i \in 1..Len(f) : f[i] = g[i]

LEMMA CutWhole ==
    ASSUME NEW D, NEW f \in Seq(D), NEW g \in Seq(D), Cut(f, g), Len(f) = Len(g) PROVE f = g
BY DEF Cut

LEMMA LengthZero == ASSUME NEW D, NEW f \in Seq(D), Len(f) = 0 PROVE f = <<>>
BY EmptySeq

LEMMA CutSelf == ASSUME NEW D, NEW f \in Seq(D) PROVE Cut(f, f)
BY DEF Cut

LEMMA CutTrans ==
    ASSUME NEW D, NEW f \in Seq(D), NEW g \in Seq(D), NEW h \in Seq(D), Cut(f, g), Cut(g, h)
    PROVE  Cut(f, h)
BY DEF Cut

LEMMA CutOfAppend ==
    ASSUME NEW D, NEW f \in Seq(D), NEW g \in Seq(D), NEW x \in D
    PROVE  /\ Append(g, x) \in Seq(D)
           /\ Cut(g, Append(g, x))
           /\ Cut(f, Append(g, x)) => Cut(f, g) \/ f = Append(g, x)
<1>1. PICK h : h = Append(g, x)
  OBVIOUS
<1>2. /\ h \in Seq(D) /\ Len(h) = Len(g) + 1 /\ Len(g) \in Nat /\ Len(f) \in Nat
      /\ \A i \in 1..Len(g) : h[i] = g[i]
  BY <1>1
<1>3. Cut(g, h)
  BY <1>2 DEF Cut
<1>4. ASSUME Cut(f, h) PROVE Cut(f, g) \/ f = h
  <2>1. CASE Len(f) = Len(h)
    BY <1>2, <1>4, <2>1, CutWhole
  <2>2. CASE Len(f) # Len(h)
    <3>1. Len(f) <= Len(g)
      BY <1>2, <1>4, <2>2 DEF Cut
    <3>2. \A i \in 1..Len(f) : f[i] = g[i]
      BY <1>2, <1>4, <3>1 DEF Cut
    <3> QED BY <3>1, <3>2 DEF Cut
  <2> QED BY <2>1, <2>2
<1> QED BY <1>1, <1>2, <1>3, <1>4

(* g is f and the piece x.                                                 *)
Adds(f, x, g) == g = Append(f, x)

LEMMA AddsEffect ==
    ASSUME NEW f \in Seq(Pieces), NEW x \in Pieces, NEW g, Adds(f, x, g)
    PROVE  /\ g \in Seq(Pieces) /\ Cut(f, g) /\ At(g) = AL!Read(At(f), x)
           /\ \A h \in Seq(Pieces) : Cut(h, g) => Cut(h, f) \/ h = g
<1>1. g = Append(f, x)
  BY DEF Adds
<1>2. g \in Seq(Pieces) /\ Cut(f, g)
  BY <1>1, CutOfAppend
<1>3. At(g) = AL!Read(At(f), x)
  BY <1>1, AtAppend
<1>4. ASSUME NEW h \in Seq(Pieces), Cut(h, g) PROVE Cut(h, f) \/ h = g
  BY <1>1, <1>4, CutOfAppend
<1> QED BY <1>2, <1>3, <1>4

(* The chain: the entries of es are numbered upwards.                      *)
Chain(es) ==
    /\ \A i \in 1..Len(es) : es[i].id # 0
    /\ \A i, j \in 1..Len(es) : i < j => es[i].id < es[j].id

(* A cut chain with the tip of the whole is the whole.                     *)
LEMMA TipTells ==
    ASSUME NEW es \in Seq(EntrySet), NEW part \in Seq(EntrySet), Cut(part, es), Chain(es),
           AL!Tip(part) = AL!Tip(es)
    PROVE  part = es
<1>1. Len(part) \in Nat /\ Len(es) \in Nat /\ Len(part) <= Len(es)
  BY DEF Cut
<1>2. CASE es = <<>>
  <2>1. Len(part) = 0
    BY <1>1, <1>2
  <2> QED BY <1>2, <2>1, EmptySeq
<1>3. CASE es # <<>> /\ part = <<>>
  <2>1. Len(es) # 0
    BY <1>3, EmptySeq
  <2>2. AL!Tip(es) = es[Len(es)].id /\ AL!Tip(part) = 0
    BY <1>3 DEF AL!Tip, AL!Last
  <2>3. Len(es) \in 1..Len(es)
    BY <1>1, <2>1
  <2> QED BY <2>2, <2>3 DEF Chain
<1>4. CASE es # <<>> /\ part # <<>>
  <2>1. Len(es) # 0 /\ Len(part) # 0
    BY <1>4, EmptySeq
  <2>2. AL!Tip(es) = es[Len(es)].id /\ AL!Tip(part) = part[Len(part)].id
    BY <1>4 DEF AL!Tip, AL!Last
  <2>3. Len(es) \in 1..Len(es) /\ Len(part) \in 1..Len(es) /\ Len(part) \in 1..Len(part)
    BY <1>1, <2>1
  <2>4. part[Len(part)] = es[Len(part)]
    BY <2>3 DEF Cut
  <2>5. es[Len(part)].id \in Nat
    <3>1. es[Len(part)] \in EntrySet
      BY <2>3
    <3> QED BY <3>1 DEF EntrySet
  <2>6. ~(Len(part) < Len(es))
    <3> SUFFICES ASSUME Len(part) < Len(es) PROVE FALSE
      OBVIOUS
    <3>1. es[Len(part)].id < es[Len(es)].id
      BY <2>3 DEF Chain
    <3> QED BY <2>2, <2>4, <2>5, <3>1
  <2>7. Len(part) = Len(es)
    BY <1>1, <2>6
  <2> QED BY <2>7, CutWhole
<1> QED BY <1>2, <1>3, <1>4

-----------------------------------------------------------------------------
(* What a write adds to the file, seen by the replay.                      *)

Head_(e) == [e |-> e, part |-> "head"]
Tail_(e) == [e |-> e, part |-> "tail"]
Newline_(e) == [e |-> e, part |-> "newline"]

LEMMA PieceTypes ==
    ASSUME NEW e \in EntrySet
    PROVE  /\ Head_(e) \in Pieces /\ Tail_(e) \in Pieces /\ Newline_(e) \in Pieces
           /\ Head_(e).part = "head" /\ Tail_(e).part = "tail" /\ Newline_(e).part = "newline"
           /\ Head_(e).e = e /\ Tail_(e).e = e
BY DEF Pieces, Head_, Tail_, Newline_

LEMMA ReplayAt == ASSUME NEW f PROVE AL!Replay(f) = AL!EndLine(At(f)).es
BY DEF AL!Replay, At

(* Lines that do not parse, and the one that does.                         *)
LEMMA EmptyLine == ~AL!Parses(<<>>)
BY DEF AL!Parses

LEMMA CutLine ==
    ASSUME NEW line \in Seq(Pieces), NEW e \in EntrySet
    PROVE  ~AL!Parses(Append(line, Head_(e)))
<1> SUFFICES ASSUME AL!Parses(Append(line, Head_(e))) PROVE FALSE
  OBVIOUS
<1>1. PICK l : l = Append(line, Head_(e))
  OBVIOUS
<1>2. PICK x : l = <<[e |-> x, part |-> "head"], [e |-> x, part |-> "tail"]>>
  BY <1>1 DEF AL!Parses, AL!Body
<1>3. Len(l) = 2 /\ l[2].part = "tail"
  BY <1>2
<1>4. Len(line) \in Nat /\ Len(l) = Len(line) + 1 /\ l[Len(line) + 1] = Head_(e)
  BY <1>1, PieceTypes
<1>5. Len(line) + 1 = 2
  BY <1>3, <1>4
<1>6. l[2] = Head_(e)
  BY <1>4, <1>5
<1> QED BY <1>3, <1>6, PieceTypes

LEMMA WholeLine ==
    ASSUME NEW line \in Seq(Pieces), NEW e \in EntrySet
    PROVE  LET l == Append(Append(line, Head_(e)), Tail_(e))
           IN  /\ AL!Parses(l) <=> line = <<>>
               /\ line = <<>> => l[1].e = e
<1>1. PICK l : l = Append(Append(line, Head_(e)), Tail_(e))
  OBVIOUS
<1>2. Head_(e) \in Pieces /\ Tail_(e) \in Pieces
  BY PieceTypes
<1>3. Append(line, Head_(e)) \in Seq(Pieces) /\ Len(Append(line, Head_(e))) = Len(line) + 1
  BY <1>2
<1>4. Len(line) \in Nat /\ l \in Seq(Pieces) /\ Len(l) = Len(line) + 2
  BY <1>1, <1>2, <1>3
<1>5. ASSUME AL!Parses(l) PROVE line = <<>>
  <2>1. PICK x : l = <<[e |-> x, part |-> "head"], [e |-> x, part |-> "tail"]>>
    BY <1>5 DEF AL!Parses, AL!Body
  <2>2. Len(l) = 2
    BY <2>1
  <2>3. \A n \in Nat : n + 2 = 2 => n = 0
    OBVIOUS
  <2>4. Len(line) = 0
    BY <1>4, <2>2, <2>3
  <2> QED BY <2>4, LengthZero
<1>6. ASSUME line = <<>> PROVE AL!Parses(l) /\ l[1].e = e
  <2>1. l = <<Head_(e), Tail_(e)>>
    <3>1. PICK k : k = Append(line, Head_(e))
      OBVIOUS
    <3>2. k \in Seq(Pieces) /\ Len(k) = 1 /\ k[1] = Head_(e)
      BY <1>2, <1>6, <3>1
    <3>3. Len(l) = 2 /\ l[1] = Head_(e) /\ l[2] = Tail_(e)
      BY <1>1, <1>2, <3>1, <3>2
    <3>4. PICK w : w = <<Head_(e), Tail_(e)>>
      OBVIOUS
    <3>5. w \in Seq(Pieces) /\ Len(w) = 2 /\ w[1] = Head_(e) /\ w[2] = Tail_(e)
      BY <1>2, <3>4
    <3>6. \A i \in 1..2 : i = 1 \/ i = 2
      OBVIOUS
    <3>7. Cut(l, w)
      BY <3>3, <3>5, <3>6 DEF Cut
    <3> QED BY <1>4, <3>3, <3>4, <3>5, <3>7, CutWhole
  <2>2. l[1] = Head_(e) /\ l # <<>>
    BY <2>1
  <2>3. l[1].e = e
    BY <2>2, PieceTypes
  <2>4. l = AL!Body(l[1].e)
    BY <2>1, <2>3 DEF AL!Body, Head_, Tail_
  <2> QED BY <2>2, <2>3, <2>4 DEF AL!Parses
<1> QED BY <1>1, <1>5, <1>6

LEMMA EndLineEffect ==
    ASSUME NEW r \in Readers
    PROVE  /\ AL!EndLine(r) \in Readers /\ AL!EndLine(r).line = <<>>
           /\ Cut(r.es, AL!EndLine(r).es)
           /\ ~AL!Parses(r.line) => AL!EndLine(r).es = r.es
           /\ AL!EndLine(AL!EndLine(r)).es = AL!EndLine(r).es
<1>1. r.es \in Seq(EntrySet) /\ r.stop \in BOOLEAN /\ r.line \in Seq(Pieces)
  BY ReaderFields
<1>2. <<>> \in Seq(Pieces)
  OBVIOUS
<1>3. AL!EndLine(r) \in Readers
  BY EndLineType
<1>4. AL!EndLine(r).line = <<>>
  BY DEF AL!EndLine, AL!Reader
<1>5. ~AL!Parses(r.line) => AL!EndLine(r).es = r.es
  BY DEF AL!EndLine, AL!Reader
<1>6. ASSUME AL!Parses(r.line) PROVE Cut(r.es, AL!EndLine(r).es)
  <2>1. PICK x : x = r.line[1].e
    OBVIOUS
  <2>2. x \in EntrySet
    BY <1>1, <1>6, <2>1, ParsedEntry
  <2>3. Append(r.es, x) \in Seq(EntrySet) /\ Cut(r.es, Append(r.es, x)) /\ Cut(r.es, r.es)
    BY <1>1, <2>2, CutOfAppend, CutSelf
  <2>4. AL!EndLine(r).es \in {r.es, Append(r.es, x)}
    BY <2>1 DEF AL!EndLine, AL!Reader
  <2> QED BY <2>3, <2>4
<1>7. Cut(r.es, AL!EndLine(r).es)
  BY <1>1, <1>5, <1>6, CutSelf
<1>8. AL!EndLine(AL!EndLine(r)).es = AL!EndLine(r).es
  <2>1. PICK q : q = AL!EndLine(r)
    OBVIOUS
  <2>2. q \in Readers /\ ~AL!Parses(q.line)
    BY <1>3, <1>4, <2>1, EmptyLine
  <2>3. q.es \in Seq(EntrySet) /\ q.stop \in BOOLEAN
    BY <2>2, ReaderFields
  <2>4. AL!EndLine(q).es = q.es
    BY <1>2, <2>2, <2>3, ReaderType DEF AL!EndLine
  <2> QED BY <2>1, <2>4
<1> QED BY <1>3, <1>4, <1>5, <1>7, <1>8

(* The replay has taken in es and is at the start of a line.               *)
TookIn(es) == AL!Reader(es, FALSE, <<>>)

(* f replays to a part of the chain es; f1, f2 and f3 hold more and more   *)
(* of the line of the next entry.                                          *)
Writing(f, es, e, f1, f2, f3, more) ==
    /\ f \in Seq(Pieces) /\ es \in Seq(EntrySet) /\ e \in EntrySet
    /\ Chain(es) /\ Cut(AL!Replay(f), es) /\ e.prev = AL!Tip(es)
    /\ Adds(f, Head_(e), f1) /\ Adds(f1, Tail_(e), f2) /\ Adds(f2, Newline_(e), f3)
    /\ Adds(es, e, more)

(* The whole of record(), on a file that replays to a part of the chain:   *)
(* wherever its write stops, the file still replays to a part of the       *)
(* longer chain; and if the replay had taken in all of the chain and stood *)
(* at the start of a line, it does so again.                               *)
LEMMA LineReplays ==
    ASSUME NEW f, NEW es, NEW e, NEW f1, NEW f2, NEW f3, NEW more,
           Writing(f, es, e, f1, f2, f3, more)
    PROVE  /\ Cut(AL!Replay(f1), more)
           /\ Cut(AL!Replay(f2), more)
           /\ Cut(AL!Replay(f3), more)
           /\ At(f) = TookIn(es)
                => At(f3) = TookIn(more)
<1> USE DEF Writing
<1>1. /\ Head_(e) \in Pieces /\ Tail_(e) \in Pieces /\ Newline_(e) \in Pieces
      /\ Head_(e).part = "head" /\ Tail_(e).part = "tail" /\ Newline_(e).part = "newline"
  BY PieceTypes
<1>2. f1 \in Seq(Pieces) /\ f2 \in Seq(Pieces) /\ f3 \in Seq(Pieces)
  BY <1>1, AddsEffect
<1>3. PICK r : r = At(f)
  OBVIOUS
<1>4. PICK r1 : r1 = At(f1)
  OBVIOUS
<1>5. PICK r2 : r2 = At(f2)
  OBVIOUS
<1>6. PICK r3 : r3 = At(f3)
  OBVIOUS
<1>7. r \in Readers /\ r1 \in Readers /\ r2 \in Readers /\ r3 \in Readers
  BY <1>2, <1>3, <1>4, <1>5, <1>6, AtType
<1>8. r.es \in Seq(EntrySet) /\ r.stop \in BOOLEAN /\ r.line \in Seq(Pieces)
  BY <1>7, ReaderFields
<1>9. /\ r1 = AL!Reader(r.es, r.stop, Append(r.line, Head_(e)))
      /\ Append(r.line, Head_(e)) \in Seq(Pieces)
  <2>1. r1 = AL!Read(r, Head_(e))
    BY <1>1, <1>3, <1>4, AddsEffect
  <2> QED BY <1>1, <1>8, <2>1 DEF AL!Read
<1>10. /\ r1.es = r.es /\ r1.stop = r.stop /\ r1.line = Append(r.line, Head_(e))
  BY <1>9 DEF AL!Reader
<1>11. PICK l : l = Append(Append(r.line, Head_(e)), Tail_(e))
  OBVIOUS
<1>12. l \in Seq(Pieces)
  BY <1>1, <1>9, <1>11
<1>13. r2 = AL!Reader(r.es, r.stop, l)
  <2>1. r2 = AL!Read(r1, Tail_(e))
    BY <1>1, <1>2, <1>4, <1>5, AddsEffect
  <2> QED BY <1>1, <1>10, <1>11, <2>1 DEF AL!Read
<1>14. r2.es = r.es /\ r2.stop = r.stop /\ r2.line = l
  BY <1>8, <1>12, <1>13, ReaderType
<1>15. r3 = AL!EndLine(r2)
  <2>1. r3 = AL!Read(r2, Newline_(e))
    BY <1>1, <1>2, <1>5, <1>6, AddsEffect
  <2> QED BY <1>1, <2>1 DEF AL!Read
<1>16. (AL!Parses(l) <=> r.line = <<>>) /\ (r.line = <<>> => l[1].e = e)
  BY <1>8, <1>11, WholeLine
<1>17. more = Append(es, e) /\ more \in Seq(EntrySet) /\ Cut(es, more)
  BY CutOfAppend DEF Adds
<1>18. Cut(r.es, es)
  <2>1. AL!Replay(f) = AL!EndLine(r).es
    BY <1>3, ReplayAt
  <2>2. AL!EndLine(r).es \in Seq(EntrySet) /\ Cut(r.es, AL!EndLine(r).es)
    BY <1>7, EndLineEffect, ReaderFields
  <2> QED BY <1>8, <2>1, <2>2, CutTrans
<1>19. Cut(r.es, more)
  BY <1>8, <1>17, <1>18, CutTrans
<1>20. Cut(AL!Replay(f1), more)
  <2>1. AL!Replay(f1) = AL!EndLine(r1).es
    BY <1>4, ReplayAt
  <2>2. AL!EndLine(r1).es = r1.es
    BY <1>7, <1>8, <1>10, CutLine, EndLineEffect
  <2> QED BY <1>10, <1>19, <2>1, <2>2
<1>21. Cut(AL!EndLine(r2).es, more)
  <2>1. CASE ~AL!Parses(l)
    BY <1>7, <1>14, <1>19, <2>1, EndLineEffect
  <2>2. CASE AL!Parses(l) /\ (r.stop \/ e.prev # AL!Tip(r.es))
    <3>1. AL!EndLine(r2).es = r.es
      BY <1>14, <1>16, <2>2 DEF AL!EndLine, AL!Reader
    <3> QED BY <1>19, <3>1
  <2>3. CASE AL!Parses(l) /\ ~r.stop /\ e.prev = AL!Tip(r.es)
    <3>1. r.es = es
      BY <1>8, <1>18, <2>3, TipTells
    <3>2. AL!EndLine(r2) = TookIn(more)
      BY <1>14, <1>16, <1>17, <2>3, <3>1 DEF AL!EndLine, TookIn
    <3>3. AL!EndLine(r2).es = more
      BY <3>2 DEF AL!Reader, TookIn
    <3> QED BY <1>17, <3>3, CutSelf
  <2> QED BY <1>8, <2>1, <2>2, <2>3
<1>22. Cut(AL!Replay(f2), more)
  BY <1>5, <1>21, ReplayAt
<1>23. Cut(AL!Replay(f3), more)
  BY <1>6, <1>7, <1>15, <1>21, ReplayAt, EndLineEffect
<1>24. ASSUME r = TookIn(es)
       PROVE  r3 = TookIn(more)
  <2>1. r.es = es /\ r.stop = FALSE /\ r.line = <<>>
    BY <1>24 DEF AL!Reader, TookIn
  <2>2. AL!Parses(r2.line) /\ ~r2.stop /\ r2.line[1].e = e /\ r2.es = es
    BY <1>14, <1>16, <2>1
  <2> QED BY <1>15, <1>17, <2>2 DEF AL!EndLine, TookIn
<1> QED BY <1>3, <1>6, <1>20, <1>22, <1>23, <1>24

-----------------------------------------------------------------------------
(* The writer.                                                             *)

Sinks == [file : Seq(Pieces), buf : Seq(Pieces), ok : BOOLEAN, refused : BOOLEAN]

(* t is s after writes that moved pieces from the buffer to the file.      *)
Flushed(s, t) ==
    /\ t \in Sinks
    /\ t.file \o t.buf = s.file \o s.buf
    /\ Cut(s.file, t.file)
    /\ t.refused = s.refused

LEMMA SinkFields ==
    ASSUME NEW s \in Sinks
    PROVE  s.file \in Seq(Pieces) /\ s.buf \in Seq(Pieces) /\ s.ok \in BOOLEAN /\ s.refused \in BOOLEAN
BY DEF Sinks

LEMMA CutConcat ==
    ASSUME NEW D, NEW f \in Seq(D), NEW g \in Seq(D)
    PROVE  f \o g \in Seq(D) /\ Cut(f, f \o g)
<1>1. PICK h : h = f \o g
  OBVIOUS
<1>2. h \in Seq(D) /\ Len(h) = Len(f) + Len(g) /\ \A i \in 1..Len(f) : h[i] = f[i]
  BY <1>1, ConcatProperties
<1>3. Len(f) \in Nat /\ Len(g) \in Nat
  OBVIOUS
<1> QED BY <1>1, <1>2, <1>3 DEF Cut

Halves(g, k, a, b) == a = SubSeq(g, 1, k) /\ b = SubSeq(g, k + 1, Len(g))

LEMMA SplitConcat ==
    ASSUME NEW f \in Seq(Pieces), NEW g \in Seq(Pieces), NEW k \in 0..Len(g),
           NEW a, NEW b, Halves(g, k, a, b)
    PROVE  a \in Seq(Pieces) /\ b \in Seq(Pieces) /\ (f \o a) \o b = f \o g /\ (k = Len(g) => b = <<>>)
<1>0. Len(g) \in Nat /\ Len(f) \in Nat /\ k \in Nat /\ k <= Len(g)
  OBVIOUS
<1>3. a \in Seq(Pieces) /\ Len(a) = k /\ \A i \in 1..k : a[i] = g[i]
  BY <1>0 DEF Halves
<1>4. b \in Seq(Pieces) /\ Len(b) = Len(g) - k /\ \A i \in 1..(Len(g) - k) : b[i] = g[k + i]
  BY <1>0 DEF Halves
<1>5. PICK x : x = f \o a
  OBVIOUS
<1>6. /\ x \in Seq(Pieces) /\ Len(x) = Len(f) + k
      /\ \A i \in 1..Len(x) : x[i] = IF i <= Len(f) THEN f[i] ELSE a[i - Len(f)]
  <2>1. a \in Seq(Pieces)
    BY <1>3
  <2>2. /\ x \in Seq(Pieces) /\ Len(x) = Len(f) + Len(a)
        /\ \A i \in 1..Len(f) + Len(a) : x[i] = IF i <= Len(f) THEN f[i] ELSE a[i - Len(f)]
    BY <1>5, <2>1, ConcatProperties
  <2> QED BY <1>3, <2>2
<1>7. PICK y : y = x \o b
  OBVIOUS
<1>8. /\ y \in Seq(Pieces) /\ Len(y) = Len(x) + Len(b)
      /\ \A i \in 1..Len(y) : y[i] = IF i <= Len(x) THEN x[i] ELSE b[i - Len(x)]
  <2>1. x \in Seq(Pieces) /\ b \in Seq(Pieces)
    BY <1>4, <1>6
  <2>2. /\ y \in Seq(Pieces) /\ Len(y) = Len(x) + Len(b)
        /\ \A i \in 1..Len(x) + Len(b) : y[i] = IF i <= Len(x) THEN x[i] ELSE b[i - Len(x)]
    BY <1>7, <2>1, ConcatProperties
  <2> QED BY <2>2
<1>9. PICK z : z = f \o g
  OBVIOUS
<1>10. /\ z \in Seq(Pieces) /\ Len(z) = Len(f) + Len(g)
       /\ \A i \in 1..Len(z) : z[i] = IF i <= Len(f) THEN f[i] ELSE g[i - Len(f)]
  BY <1>9, ConcatProperties
<1>11. Len(y) = Len(z)
  BY <1>0, <1>4, <1>6, <1>8, <1>10
<1>12. ASSUME NEW i \in 1..Len(y) PROVE y[i] = z[i]
  <2>1. CASE i <= Len(f)
    <3>1. i \in 1..Len(x) /\ i <= Len(x)
      BY <1>0, <1>6, <2>1
    <3> QED BY <1>6, <1>8, <1>10, <1>11, <2>1, <3>1
  <2>2. CASE i > Len(f) /\ i <= Len(x)
    <3>1. i \in 1..Len(x) /\ i - Len(f) \in 1..k /\ ~(i <= Len(f))
      BY <1>0, <1>6, <2>2
    <3> QED BY <1>3, <1>6, <1>8, <1>10, <1>11, <2>2, <3>1
  <2>3. CASE i > Len(x)
    <3>1. i - Len(x) \in 1..(Len(g) - k) /\ k + (i - Len(x)) = i - Len(f) /\ ~(i <= Len(f)) /\ ~(i <= Len(x))
      BY <1>0, <1>4, <1>6, <1>8, <2>3
    <3>2. y[i] = b[i - Len(x)] /\ z[i] = g[i - Len(f)]
      BY <1>8, <1>10, <1>11, <3>1
    <3>3. b[i - Len(x)] = g[k + (i - Len(x))]
      BY <1>4, <3>1
    <3> QED BY <3>1, <3>2, <3>3
  <2> QED BY <1>0, <1>6, <1>8, <2>1, <2>2, <2>3
<1>13. y = z
  <2>1. y \in Seq(Pieces) /\ z \in Seq(Pieces) /\ Len(y) <= Len(z)
    BY <1>8, <1>10, <1>11
  <2>2. Cut(y, z)
    BY <1>12, <2>1 DEF Cut
  <2> QED BY <1>11, <2>1, <2>2, CutWhole
<1>14. k = Len(g) => b = <<>>
  <2>1. k = Len(g) => Len(b) = 0
    BY <1>0, <1>4
  <2> QED BY <1>4, <2>1, LengthZero
<1> QED BY <1>3, <1>4, <1>5, <1>7, <1>9, <1>13, <1>14

LEMMA PiecesAssociate ==
    ASSUME NEW f \in Seq(Pieces), NEW g \in Seq(Pieces), NEW h \in Seq(Pieces)
    PROVE  (f \o g) \o h = f \o (g \o h)
BY ConcatAssociative

LEMMA PiecesAppended ==
    ASSUME NEW f \in Seq(Pieces), NEW e, Head_(e) \in Pieces, Tail_(e) \in Pieces, Newline_(e) \in Pieces
    PROVE  /\ f \o AL!Body(e) = Append(Append(f, Head_(e)), Tail_(e))
           /\ f \o AL!Newline(e) = Append(f, Newline_(e))
<1>1. PICK h : h = Head_(e)
  OBVIOUS
<1>2. PICK l : l = Tail_(e)
  OBVIOUS
<1>3. PICK n : n = Newline_(e)
  OBVIOUS
<1>4. AL!Body(e) = <<h, l>> /\ AL!Newline(e) = <<n>>
  BY <1>1, <1>2, <1>3 DEF AL!Body, AL!Newline, Head_, Tail_, Newline_
<1>5. h \in Pieces /\ l \in Pieces /\ n \in Pieces
  BY <1>1, <1>2, <1>3
<1>6. f \o <<h, l>> = Append(Append(f, h), l)
  BY <1>5
<1>7. f \o <<n>> = Append(f, n)
  BY <1>5
<1> QED BY <1>1, <1>2, <1>3, <1>4, <1>6, <1>7

LEMMA FlushEffect ==
    ASSUME NEW s \in Sinks, NEW t \in AL!Flushes(s)
    PROVE  Flushed(s, t) /\ (t.ok => t.buf = <<>>)
<1>1. s.file \in Seq(Pieces) /\ s.buf \in Seq(Pieces) /\ s.ok \in BOOLEAN /\ s.refused \in BOOLEAN
  BY SinkFields
<1>2. PICK k \in 0..Len(s.buf) :
          t = [s EXCEPT !.file = @ \o SubSeq(s.buf, 1, k), !.buf = SubSeq(@, k + 1, Len(@)),
                        !.ok = (k = Len(s.buf))]
  BY DEF AL!Flushes
<1>3. PICK a : a = SubSeq(s.buf, 1, k)
  OBVIOUS
<1>4. PICK b : b = SubSeq(s.buf, k + 1, Len(s.buf))
  OBVIOUS
<1>5. /\ a \in Seq(Pieces) /\ b \in Seq(Pieces)
      /\ (s.file \o a) \o b = s.file \o s.buf /\ (k = Len(s.buf) => b = <<>>)
  <2>1. PICK g : g = s.buf
    OBVIOUS
  <2>2. PICK f : f = s.file
    OBVIOUS
  <2>3. g \in Seq(Pieces) /\ f \in Seq(Pieces) /\ k \in 0..Len(g)
    BY <1>1, <1>2, <2>1, <2>2
  <2>4. Halves(g, k, a, b)
    BY <1>3, <1>4, <2>1 DEF Halves
  <2>5. /\ a \in Seq(Pieces) /\ b \in Seq(Pieces)
        /\ (f \o a) \o b = f \o g /\ (k = Len(g) => b = <<>>)
    BY <2>3, <2>4, SplitConcat
  <2> QED BY <2>1, <2>2, <2>5
<1>6. s.file \o a \in Seq(Pieces) /\ Cut(s.file, s.file \o a)
  BY <1>1, <1>5, CutConcat
<1>7. /\ t = [file |-> s.file \o a, buf |-> b, ok |-> (k = Len(s.buf)), refused |-> s.refused]
  BY <1>2, <1>3, <1>4 DEF Sinks
<1>8. PICK x : x = s.file \o a
  OBVIOUS
<1>9. /\ t = [file |-> x, buf |-> b, ok |-> (k = Len(s.buf)), refused |-> s.refused]
      /\ x \in Seq(Pieces)
  BY <1>6, <1>7, <1>8
<1>10. /\ t.file = x /\ t.buf = b /\ (t.ok <=> k = Len(s.buf)) /\ t.refused = s.refused
       /\ t \in Sinks
  BY <1>1, <1>5, <1>9 DEF Sinks
<1> QED BY <1>5, <1>6, <1>8, <1>10 DEF Flushed

(* write_all into the buffer: all of the pieces join the stream of file    *)
(* and buffer, or none does and the write is refused.                      *)
LEMMA PutEffect ==
    ASSUME NEW s \in Sinks, s.ok, ~s.refused, NEW pieces \in Seq(Pieces), NEW t \in AL!Puts(s, pieces)
    PROVE  /\ t \in Sinks /\ Cut(s.file, t.file)
           /\ \/ /\ t.ok /\ ~t.refused
                 /\ t.file \o t.buf = (s.file \o s.buf) \o pieces
              \/ /\ ~t.ok /\ t.refused
                 /\ t.file \o t.buf = s.file \o s.buf
<1>1. s.file \in Seq(Pieces) /\ s.buf \in Seq(Pieces) /\ s.ok \in BOOLEAN /\ s.refused \in BOOLEAN
  BY SinkFields
<1>2. CASE t = [s EXCEPT !.buf = @ \o pieces]
  <2>1. PICK b : b = s.buf \o pieces
    OBVIOUS
  <2>2. b \in Seq(Pieces)
    BY <1>1, <2>1
  <2>3. t = [s EXCEPT !.buf = b]
    BY <1>2, <2>1
  <2>4. t \in Sinks /\ t.file = s.file /\ t.buf = b /\ t.ok = s.ok /\ t.refused = s.refused
    BY <2>2, <2>3 DEF Sinks
  <2>5. s.file \o b = (s.file \o s.buf) \o pieces
    <3>1. PICK f : f = s.file
      OBVIOUS
    <3>2. PICK g : g = s.buf
      OBVIOUS
    <3>3. f \in Seq(Pieces) /\ g \in Seq(Pieces)
      BY <1>1, <3>1, <3>2
    <3>4. (f \o g) \o pieces = f \o (g \o pieces)
      BY <3>3, PiecesAssociate
    <3> QED BY <2>1, <3>1, <3>2, <3>4
  <2>6. Cut(s.file, s.file)
    BY <1>1, CutSelf
  <2> QED BY <2>4, <2>5, <2>6
<1>3. ASSUME NEW q \in AL!Flushes(s),
             t = IF q.ok THEN [q EXCEPT !.buf = pieces] ELSE [q EXCEPT !.refused = TRUE]
      PROVE  /\ t \in Sinks /\ Cut(s.file, t.file)
             /\ \/ /\ t.ok /\ ~t.refused
                   /\ t.file \o t.buf = (s.file \o s.buf) \o pieces
                \/ /\ ~t.ok /\ t.refused
                   /\ t.file \o t.buf = s.file \o s.buf
  <2>1. /\ q \in Sinks /\ q.file \o q.buf = s.file \o s.buf /\ Cut(s.file, q.file)
        /\ q.refused = s.refused /\ (q.ok => q.buf = <<>>)
    BY FlushEffect DEF Flushed
  <2>2. q.file \in Seq(Pieces) /\ q.buf \in Seq(Pieces)
    BY <2>1, SinkFields
  <2>3. CASE q.ok
    <3>1. t = [q EXCEPT !.buf = pieces]
      BY <1>3, <2>3
    <3>2. t \in Sinks /\ t.file = q.file /\ t.buf = pieces /\ t.ok = q.ok /\ t.refused = q.refused
      BY <2>1, <3>1 DEF Sinks
    <3>3. q.file = s.file \o s.buf
      BY <2>1, <2>2, <2>3, ConcatEmptySeq
    <3> QED BY <2>1, <2>3, <3>2, <3>3
  <2>4. CASE ~q.ok
    <3>1. t = [q EXCEPT !.refused = TRUE]
      BY <1>3, <2>4
    <3>2. t \in Sinks /\ t.file = q.file /\ t.buf = q.buf /\ t.ok = q.ok /\ t.refused = TRUE
      BY <2>1, <3>1 DEF Sinks
    <3> QED BY <2>1, <2>4, <3>2
  <2> QED BY <2>3, <2>4
<1>4. \/ t = [s EXCEPT !.buf = @ \o pieces]
      \/ \E q \in AL!Flushes(s) :
            t = IF q.ok THEN [q EXCEPT !.buf = pieces] ELSE [q EXCEPT !.refused = TRUE]
  BY DEF AL!Puts
<1> QED BY <1>2, <1>3, <1>4

(* writeln! and flush: the line joins the stream as a whole, or without    *)
(* its newline, or not at all, and only the first of the three leaves the  *)
(* log undamaged.                                                          *)
LEMMA WriteEffect ==
    ASSUME NEW s \in Sinks, s.ok, ~s.refused, NEW e \in EntrySet, NEW t \in AL!Writes(s, e)
    PROVE  LET st == s.file \o s.buf
           IN  /\ t \in Sinks /\ Cut(s.file, t.file)
               /\ \/ t.refused /\ t.file \o t.buf = st
                  \/ t.refused /\ t.file \o t.buf = st \o AL!Body(e)
                  \/ ~t.refused /\ t.file \o t.buf = (st \o AL!Body(e)) \o AL!Newline(e)
<1>1. AL!Body(e) \in Seq(Pieces) /\ AL!Newline(e) \in Seq(Pieces)
  BY PieceTypes DEF AL!Body, AL!Newline, Head_, Tail_, Newline_
<1>2. PICK p \in AL!Puts(s, AL!Body(e)) :
          t \in UNION {IF q.ok THEN AL!Flushes(q) ELSE {q} : q \in AL!Puts(p, AL!Newline(e))}
  BY DEF AL!Writes
<1>3. PICK q \in AL!Puts(p, AL!Newline(e)) : t \in IF q.ok THEN AL!Flushes(q) ELSE {q}
  BY <1>2
<1>4. PICK st : st = s.file \o s.buf
  OBVIOUS
<1>5. /\ p \in Sinks /\ Cut(s.file, p.file)
      /\ \/ p.ok /\ ~p.refused /\ p.file \o p.buf = st \o AL!Body(e)
         \/ ~p.ok /\ p.refused /\ p.file \o p.buf = st
  BY <1>1, <1>4, PutEffect
<1>6. s.file \in Seq(Pieces) /\ p.file \in Seq(Pieces)
  BY <1>5, SinkFields
<1>7. CASE ~p.ok
  <2>1. q = p
    BY <1>7 DEF AL!Puts
  <2>2. t = p
    BY <1>3, <1>7, <2>1
  <2> QED BY <1>4, <1>5, <1>7, <2>2
<1>8. CASE p.ok
  <2>1. /\ q \in Sinks /\ Cut(p.file, q.file)
        /\ \/ /\ q.ok /\ ~q.refused
              /\ q.file \o q.buf = (p.file \o p.buf) \o AL!Newline(e)
           \/ /\ ~q.ok /\ q.refused
              /\ q.file \o q.buf = p.file \o p.buf
    BY <1>1, <1>5, <1>8, PutEffect
  <2>2. q.file \in Seq(Pieces)
    BY <2>1, SinkFields
  <2>3. /\ t \in Sinks /\ Cut(q.file, t.file) /\ t.refused = q.refused
        /\ t.file \o t.buf = q.file \o q.buf
    <3>1. CASE q.ok
      <4>1. t \in AL!Flushes(q)
        BY <1>3, <3>1
      <4> QED BY <2>1, <4>1, FlushEffect DEF Flushed
    <3>2. CASE ~q.ok
      <4>1. t = q
        BY <1>3, <3>2
      <4> QED BY <2>1, <2>2, <4>1, CutSelf
    <3> QED BY <3>1, <3>2
  <2>4. t.file \in Seq(Pieces)
    BY <2>3, SinkFields
  <2>5. Cut(s.file, t.file)
    <3>1. Cut(s.file, q.file)
      BY <1>5, <1>6, <2>1, <2>2, CutTrans
    <3> QED BY <1>6, <2>2, <2>3, <2>4, <3>1, CutTrans
  <2> QED BY <1>4, <1>5, <1>8, <2>1, <2>3, <2>5
<1> QED BY <1>7, <1>8

-----------------------------------------------------------------------------
(* Entries are numbered upwards; the file, and the file with any part of   *)
(* the buffer, replays to a part of the chain; and while nothing was       *)
(* dropped the replay of both takes in the whole chain and is at the start *)
(* of a line.                                                              *)
AuditTypes ==
    /\ entries \in Seq(EntrySet) /\ file \in Seq(Pieces) /\ buf \in Seq(Pieces)
    /\ recorded \in Nat /\ recorded <= MaxRecords /\ damaged \in BOOLEAN
Numbered ==
    /\ Chain(entries)
    /\ \A i \in 1..Len(entries) : entries[i].id <= recorded
ReplaysPart ==
    \A f \in Seq(Pieces) :
        Cut(f, file \o buf) /\ Len(file) <= Len(f) => Cut(AL!Replay(f), entries)
ReplaysAll == ~damaged => At(file \o buf) = TookIn(entries)
AuditInv == AuditTypes /\ Numbered /\ ReplaysPart /\ ReplaysAll

LEMMA ReplayType == ASSUME NEW f \in Seq(Pieces) PROVE AL!Replay(f) \in Seq(EntrySet)
<1>1. AL!EndLine(At(f)) \in Readers
  BY AtType, EndLineType
<1> QED BY <1>1, ReplayAt, ReaderFields

LEMMA ReplayWhole ==
    ASSUME NEW f \in Seq(Pieces), NEW es \in Seq(EntrySet), At(f) = TookIn(es)
    PROVE  AL!Replay(f) = es
<1>1. PICK r : r = At(f)
  OBVIOUS
<1>2. r.es = es /\ r.line = <<>>
  BY <1>1 DEF AL!Reader, TookIn
<1>3. AL!EndLine(r).es = r.es
  BY <1>1, <1>2, AtType, EmptyLine, EndLineEffect
<1> QED BY <1>1, <1>2, <1>3, ReplayAt

(* The tip of the chain is the number of one of its entries, or 0.         *)
LEMMA TipType ==
    ASSUME AuditTypes, Numbered PROVE AL!Tip(entries) \in Nat /\ AL!Tip(entries) <= recorded
<1>1. CASE entries = <<>>
  BY <1>1 DEF AL!Tip, AuditTypes
<1>2. CASE entries # <<>>
  <2>1. entries \in Seq(EntrySet) /\ Len(entries) \in Nat
    BY DEF AuditTypes
  <2>2. Len(entries) \in 1..Len(entries)
    BY <1>2, <2>1, EmptySeq
  <2>3. entries[Len(entries)] \in EntrySet
    BY <2>1, <2>2
  <2>4. AL!Tip(entries) = entries[Len(entries)].id
    BY <1>2 DEF AL!Tip, AL!Last
  <2> QED BY <2>2, <2>3, <2>4 DEF EntrySet, Numbered
<1> QED BY <1>1, <1>2

LEMMA AuditInit == AL!Init => AuditInv
<1> SUFFICES ASSUME AL!Init PROVE AuditInv
  OBVIOUS
<1>1. entries = <<>> /\ file = <<>> /\ buf = <<>> /\ recorded = 0 /\ damaged = FALSE
  BY DEF AL!Init
<1>2. <<>> \in Seq(EntrySet) /\ <<>> \in Seq(Pieces) /\ Len(<<>>) = 0
  OBVIOUS
<1>3. file \o buf = <<>>
  BY <1>1
<1>4. AuditTypes
  <2>1. recorded \in Nat /\ recorded <= MaxRecords
    BY <1>1, AuditAssumption
  <2> QED BY <1>1, <1>2, <2>1 DEF AuditTypes
<1>5. Numbered
  BY <1>1 DEF Numbered, Chain
<1>6. At(file \o buf) = TookIn(entries)
  BY <1>1, <1>3, AtEmpty DEF Blank, TookIn
<1>7. ReplaysPart
  <2> SUFFICES ASSUME NEW f \in Seq(Pieces), Cut(f, file \o buf)
               PROVE  Cut(AL!Replay(f), entries)
    BY DEF ReplaysPart
  <2>1. Len(f) = 0
    BY <1>3 DEF Cut
  <2>2. f = <<>>
    BY <2>1, LengthZero
  <2>3. AL!Replay(f) = entries
    BY <1>1, <1>2, <1>3, <1>6, <2>2, ReplayWhole
  <2> QED BY <1>1, <1>2, <2>3, CutSelf
<1> QED BY <1>4, <1>5, <1>6, <1>7 DEF AuditInv, ReplaysAll

LEMMA RecordStep ==
    ASSUME AuditInv, AL!Record PROVE AuditInv' /\ AL!Abstract!Record
<1>1. PICK e : e = AL!Entry(recorded + 1, AL!Tip(entries))
  OBVIOUS
<1>2. PICK s : s = [file |-> file, buf |-> buf, ok |-> TRUE, refused |-> FALSE]
  OBVIOUS
<1>3. /\ entries \in Seq(EntrySet) /\ file \in Seq(Pieces) /\ buf \in Seq(Pieces)
      /\ recorded \in Nat /\ recorded <= MaxRecords /\ damaged \in BOOLEAN /\ MaxRecords \in Nat
  BY AuditAssumption DEF AuditInv, AuditTypes
<1>4. PICK t \in AL!Writes(s, e) :
          file' = t.file /\ buf' = t.buf /\ damaged' = (damaged \/ t.refused)
  BY <1>1, <1>2 DEF AL!Record
<1>5. recorded < MaxRecords /\ recorded' = recorded + 1 /\ entries' = Append(entries, e)
  BY <1>1 DEF AL!Record
<1>6. AL!Tip(entries) \in Nat /\ AL!Tip(entries) <= recorded
  BY TipType DEF AuditInv
<1>7. e \in EntrySet /\ e.id = recorded + 1 /\ e.prev = AL!Tip(entries)
  BY <1>1, <1>3, <1>6 DEF AL!Entry, EntrySet
<1>8. s \in Sinks /\ s.ok /\ ~s.refused /\ s.file = file /\ s.buf = buf
  BY <1>2, <1>3 DEF Sinks
<1>9. PICK st : st = file \o buf
  OBVIOUS
<1>10. st \in Seq(Pieces)
  BY <1>3, <1>9
<1>11. Head_(e) \in Pieces /\ Tail_(e) \in Pieces /\ Newline_(e) \in Pieces
  BY <1>7, PieceTypes
<1>12. PICK st1 : Adds(st, Head_(e), st1)
  BY DEF Adds
<1>13. PICK st2 : Adds(st1, Tail_(e), st2)
  BY DEF Adds
<1>14. PICK st3 : Adds(st2, Newline_(e), st3)
  BY DEF Adds
<1>15. st1 \in Seq(Pieces) /\ st2 \in Seq(Pieces) /\ st3 \in Seq(Pieces)
  BY <1>10, <1>11, <1>12, <1>13, <1>14, AddsEffect
<1>16. st \o AL!Body(e) = st2 /\ st2 \o AL!Newline(e) = st3
  BY <1>10, <1>11, <1>12, <1>13, <1>14, <1>15, PiecesAppended DEF Adds
<1>17. /\ t \in Sinks /\ Cut(file, t.file)
       /\ \/ t.refused /\ t.file \o t.buf = st
          \/ t.refused /\ t.file \o t.buf = st2
          \/ ~t.refused /\ t.file \o t.buf = st3
  BY <1>4, <1>7, <1>8, <1>9, <1>16, WriteEffect
<1>18. t.file \in Seq(Pieces) /\ t.buf \in Seq(Pieces) /\ t.refused \in BOOLEAN
  BY <1>17, SinkFields
<1>19. AuditTypes'
  <2>1. Append(entries, e) \in Seq(EntrySet)
    BY <1>3, <1>7
  <2> QED BY <1>3, <1>4, <1>5, <1>18, <2>1 DEF AuditTypes
<1>20. PICK es : es = Append(entries, e)
  OBVIOUS
<1>21. Numbered'
  <2>1. /\ es \in Seq(EntrySet) /\ Len(es) = Len(entries) + 1 /\ es[Len(entries) + 1] = e
        /\ Len(entries) \in Nat
        /\ \A i \in 1..Len(entries) : es[i] = entries[i] /\ es[i] \in EntrySet
    BY <1>3, <1>7, <1>20
  <2>2. ASSUME NEW i \in 1..Len(es) PROVE es[i].id \in Nat /\ es[i].id # 0 /\ es[i].id <= recorded + 1
    <3>1. CASE i \in 1..Len(entries)
      <4>1. entries[i].id # 0 /\ entries[i].id <= recorded
        BY <3>1 DEF AuditInv, Numbered, Chain
      <4>2. es[i] = entries[i] /\ es[i].id \in Nat
        BY <2>1, <3>1 DEF EntrySet
      <4> QED BY <1>3, <4>1, <4>2
    <3>2. CASE i = Len(entries) + 1
      BY <1>3, <1>7, <2>1, <3>2
    <3> QED BY <2>1, <3>1, <3>2
  <2>3. ASSUME NEW i \in 1..Len(es), NEW j \in 1..Len(es), i < j PROVE es[i].id < es[j].id
    <3>1. i \in 1..Len(entries)
      BY <2>1, <2>3
    <3>2. CASE j \in 1..Len(entries)
      BY <2>1, <2>3, <3>1, <3>2 DEF AuditInv, Numbered, Chain
    <3>3. CASE j = Len(entries) + 1
      <4>1. entries[i].id <= recorded /\ es[i].id = entries[i].id
        BY <2>1, <3>1 DEF AuditInv, Numbered
      <4> QED BY <1>3, <1>7, <2>1, <2>2, <3>3, <4>1
    <3> QED BY <2>1, <3>2, <3>3
  <2>4. Chain(es) /\ \A i \in 1..Len(es) : es[i].id <= recorded + 1
    BY <2>2, <2>3 DEF Chain
  <2> QED BY <1>5, <1>20, <2>4 DEF Numbered
<1>22. Cut(AL!Replay(st), entries)
  <2>1. Cut(st, st) /\ Len(file) <= Len(st)
    BY <1>3, <1>9, <1>10, CutSelf, CutConcat DEF Cut
  <2> QED BY <1>9, <1>10, <2>1 DEF AuditInv, ReplaysPart
<1>23. /\ Cut(AL!Replay(st1), es) /\ Cut(AL!Replay(st2), es) /\ Cut(AL!Replay(st3), es)
       /\ At(st) = TookIn(entries) => At(st3) = TookIn(es)
  <2>1. Chain(entries)
    BY DEF AuditInv, Numbered
  <2>2. Adds(entries, e, es)
    BY <1>20 DEF Adds
  <2>3. entries \in Seq(EntrySet) /\ e \in EntrySet /\ e.prev = AL!Tip(entries)
    BY <1>3, <1>7
  <2>4. Writing(st, entries, e, st1, st2, st3, es)
    BY <1>10, <1>12, <1>13, <1>14, <1>22, <2>1, <2>2, <2>3 DEF Writing
  <2> QED BY <2>4, LineReplays
<1>24. es \in Seq(EntrySet) /\ Cut(entries, es)
  BY <1>3, <1>7, <1>20, CutOfAppend
<1>25. ASSUME NEW f \in Seq(Pieces), Len(file) <= Len(f), Cut(f, st3)
       PROVE  Cut(AL!Replay(f), es)
  <2>1. f = st3 \/ f = st2 \/ f = st1 \/ Cut(f, st)
    <3>1. f = st3 \/ Cut(f, st2)
      BY <1>11, <1>14, <1>15, <1>25, AddsEffect
    <3>2. Cut(f, st2) => f = st2 \/ Cut(f, st1)
      BY <1>11, <1>13, <1>15, AddsEffect
    <3>3. Cut(f, st1) => f = st1 \/ Cut(f, st)
      BY <1>10, <1>11, <1>12, AddsEffect
    <3> QED BY <3>1, <3>2, <3>3
  <2>2. CASE Cut(f, st)
    <3>1. Cut(AL!Replay(f), entries)
      BY <1>9, <1>25, <2>2 DEF AuditInv, ReplaysPart
    <3> QED BY <1>3, <1>24, <3>1, ReplayType, CutTrans
  <2> QED BY <1>23, <2>1, <2>2
<1>26. PICK w : w = t.file \o t.buf
  OBVIOUS
<1>27. w \in Seq(Pieces) /\ Cut(w, st3) /\ w = file' \o buf'
  <2>1. Cut(st, st1) /\ Cut(st1, st2) /\ Cut(st2, st3) /\ Cut(st3, st3)
    BY <1>10, <1>11, <1>12, <1>13, <1>14, <1>15, AddsEffect, CutSelf
  <2>2. Cut(st, st2)
    BY <1>10, <1>15, <2>1, CutTrans
  <2>3. Cut(st, st3)
    BY <1>10, <1>15, <2>1, <2>2, CutTrans
  <2>4. w \in {st, st2, st3}
    BY <1>17, <1>26
  <2> QED BY <1>4, <1>10, <1>15, <1>26, <2>1, <2>3, <2>4
<1>28. ReplaysPart'
  <2>1. ASSUME NEW f \in Seq(Pieces), Cut(f, w), Len(t.file) <= Len(f)
        PROVE  Cut(AL!Replay(f), es)
    <3>1. Cut(f, st3)
      BY <1>15, <1>27, <2>1, CutTrans
    <3>2. Len(file) <= Len(f)
      <4>1. Len(file) \in Nat /\ Len(t.file) \in Nat /\ Len(f) \in Nat /\ Len(file) <= Len(t.file)
        BY <1>3, <1>17, <1>18 DEF Cut
      <4> QED BY <2>1, <4>1
    <3> QED BY <1>25, <3>1, <3>2
  <2> QED BY <1>4, <1>5, <1>20, <1>27, <2>1 DEF ReplaysPart
<1>29. ReplaysAll'
  <2>1. ASSUME ~damaged' PROVE At(w) = TookIn(es)
    <3>1. ~damaged /\ ~t.refused
      BY <1>4, <2>1
    <3>2. At(st) = TookIn(entries)
      BY <1>9, <3>1 DEF AuditInv, ReplaysAll
    <3>3. w = st3
      BY <1>17, <1>26, <3>1
    <3> QED BY <1>23, <3>2, <3>3
  <2> QED BY <1>5, <1>20, <1>27, <2>1 DEF ReplaysAll
<1>30. AL!Abstract!Record
  <2>1. AL!Abstract!Tip = AL!Tip(entries)
    BY DEF AL!Abstract!Tip, AL!Tip, AL!Last
  <2>2. e \in [id : 1..MaxRecords, prev : 0..MaxRecords]
    <3>1. recorded + 1 \in 1..MaxRecords /\ AL!Tip(entries) \in 0..MaxRecords
      BY <1>3, <1>5, <1>6
    <3> QED BY <1>1, <3>1 DEF AL!Entry
  <2> QED BY <1>5, <1>7, <2>1, <2>2 DEF AL!Abstract!Record
<1> QED BY <1>19, <1>21, <1>28, <1>29, <1>30 DEF AuditInv

LEMMA RestartStep ==
    ASSUME AuditInv, AL!Restart PROVE AuditInv' /\ AL!Abstract!Restart
<1>1. /\ entries \in Seq(EntrySet) /\ file \in Seq(Pieces) /\ buf \in Seq(Pieces)
      /\ recorded \in Nat /\ recorded <= MaxRecords /\ damaged \in BOOLEAN
  BY DEF AuditInv, AuditTypes
<1>2. PICK st : st = file \o buf
  OBVIOUS
<1>3. st \in Seq(Pieces) /\ Cut(file, st) /\ Cut(st, st) /\ Cut(file, file)
  BY <1>1, <1>2, CutConcat, CutSelf
<1>4. PICK g : g = file'
  OBVIOUS
<1>5. /\ g \in Seq(Pieces) /\ Cut(g, st) /\ Len(file) <= Len(g)
      /\ ~damaged' => ~damaged /\ g = st
      /\ damaged' \in BOOLEAN
  <2>1. CASE file' = file \o buf /\ UNCHANGED damaged
    BY <1>1, <1>2, <1>3, <1>4, <2>1 DEF Cut
  <2>2. CASE UNCHANGED file /\ damaged' = (damaged \/ buf # <<>>)
    <3>1. ~damaged' => file = st
      BY <1>1, <1>2, <2>2, ConcatEmptySeq
    <3>2. Len(file) <= Len(file)
      BY <1>3 DEF Cut
    <3> QED BY <1>1, <1>3, <1>4, <2>2, <3>1, <3>2
  <2> QED BY <2>1, <2>2 DEF AL!Restart
<1>6. PICK es : es = AL!Replay(g)
  OBVIOUS
<1>7. entries' = es /\ buf' = <<>> /\ recorded' = recorded /\ <<>> \in Seq(Pieces)
  BY <1>4, <1>6 DEF AL!Restart
<1>8. es \in Seq(EntrySet) /\ Cut(es, entries)
  BY <1>2, <1>5, <1>6, ReplayType DEF AuditInv, ReplaysPart
<1>9. file' \o buf' = g
  BY <1>4, <1>5, <1>7, ConcatEmptySeq
<1>10. AuditTypes'
  BY <1>1, <1>4, <1>5, <1>7, <1>8 DEF AuditTypes
<1>11. Numbered'
  <2>1. /\ Len(es) \in Nat /\ Len(entries) \in Nat /\ Len(es) <= Len(entries)
        /\ \A i \in 1..Len(es) : es[i] = entries[i]
    BY <1>1, <1>8 DEF Cut
  <2>2. \A i \in 1..Len(es) : i \in 1..Len(entries)
    BY <2>1
  <2>3. Chain(es) /\ \A i \in 1..Len(es) : es[i].id <= recorded
    BY <2>1, <2>2 DEF AuditInv, Numbered, Chain
  <2> QED BY <1>7, <2>3 DEF Numbered
<1>12. ReplaysPart'
  <2>1. ASSUME NEW f \in Seq(Pieces), Cut(f, g), Len(g) <= Len(f) PROVE Cut(AL!Replay(f), es)
    <3>1. Len(f) = Len(g)
      BY <1>5, <2>1 DEF Cut
    <3>2. f = g
      BY <1>5, <2>1, <3>1, CutWhole
    <3> QED BY <1>6, <1>8, <3>2, CutSelf
  <2> QED BY <1>4, <1>7, <1>9, <2>1 DEF ReplaysPart
<1>13. ReplaysAll'
  <2>1. ASSUME ~damaged' PROVE At(g) = TookIn(es)
    <3>1. At(g) = TookIn(entries)
      BY <1>2, <1>5, <2>1 DEF AuditInv, ReplaysAll
    <3>2. es = entries
      BY <1>1, <1>5, <1>6, <3>1, ReplayWhole
    <3> QED BY <3>1, <3>2
  <2> QED BY <1>7, <1>9, <2>1 DEF ReplaysAll
<1>14. AL!Abstract!Restart
  <2>1. PICK n : n = Len(es)
    OBVIOUS
  <2>2. n \in 0..Len(entries) /\ n \in Nat
    BY <1>1, <1>8, <2>1 DEF Cut
  <2>3. PICK k : k = SubSeq(entries, 1, n)
    OBVIOUS
  <2>4. k \in Seq(EntrySet) /\ Len(k) = n /\ \A i \in 1..n : k[i] = entries[i]
    BY <1>1, <2>2, <2>3
  <2>5. Cut(es, k)
    BY <1>8, <2>1, <2>2, <2>4 DEF Cut
  <2>6. es = k
    BY <1>8, <2>1, <2>4, <2>5, CutWhole
  <2> QED BY <1>7, <2>2, <2>3, <2>6 DEF AL!Abstract!Restart
<1> QED BY <1>10, <1>11, <1>12, <1>13, <1>14 DEF AuditInv

LEMMA AuditNext == AuditInv /\ [Next]_vars => AuditInv' /\ [AL!Abstract!Next]_entries
<1> SUFFICES ASSUME AuditInv, [Next]_vars PROVE AuditInv' /\ [AL!Abstract!Next]_entries
  OBVIOUS
<1>1. CASE Audit
  <2>1. CASE AL!Record
    BY <2>1, RecordStep DEF AL!Abstract!Next
  <2>2. CASE AL!Restart
    BY <2>2, RestartStep DEF AL!Abstract!Next
  <2> QED BY <1>1, <2>1, <2>2 DEF Audit, AL!Next
<1>2. CASE UNCHANGED alVars
  <2>1. /\ entries' = entries /\ file' = file /\ buf' = buf /\ recorded' = recorded
        /\ damaged' = damaged
    BY <1>2 DEF alVars
  <2> QED BY <2>1 DEF AuditInv, AuditTypes, Numbered, ReplaysPart, ReplaysAll
<1> QED BY <1>1, <1>2 DEF Next, vars, Triggers, Pairing, Guard, Wire

(* What a write that stopped half way left in the buffer is made up by the *)
(* next one: unless a line was refused or a buffer died with the daemon,   *)
(* file and buffer together replay to the whole chain (audit.rs, record()  *)
(* and open()).                                                            *)
THEOREM UndamagedLogIsWhole == Spec => []NothingLostWhileUndamaged
<1>1. Init => AuditInv
  BY AuditInit DEF Init
<1>2. AuditInv => NothingLostWhileUndamaged
  <2> SUFFICES ASSUME AuditInv, ~damaged PROVE AL!Replay(file \o buf) = entries
    BY DEF NothingLostWhileUndamaged, AL!NothingLostWhileUndamaged
  <2>1. entries \in Seq(EntrySet) /\ file \o buf \in Seq(Pieces)
    BY DEF AuditInv, AuditTypes
  <2> QED BY <2>1, ReplayWhole DEF AuditInv, ReplaysAll
<1> QED BY <1>1, <1>2, AuditNext, PTL DEF Spec

(* The audit log implements its abstract specification: an entry is added  *)
(* at the tip, and a restart, whatever the writes before it left in the    *)
(* file, loses nothing but a suffix of the chain.                          *)
THEOREM AuditImplementsPrefixLog == Spec => ImplementsPrefixLog
<1>1. Init => AuditInv /\ AL!Abstract!Init
  BY AuditInit DEF Init, AL!Init, AL!Abstract!Init
<1> QED BY <1>1, AuditNext, PTL DEF Spec, ImplementsPrefixLog, AL!ImplementsPrefixLog, AL!Abstract!Spec

-----------------------------------------------------------------------------
(* The loop guard.                                                         *)

GuardTypes ==
    /\ recent \in Seq(Calls) /\ barred \subseteq Calls
    /\ counts \in [Calls -> Nat] /\ ran \in [Calls -> Nat]
    /\ outcomes \in [Calls -> [Results -> Nat]]
    /\ warnings \in [Calls -> [repeat : Nat, pingpong : Nat]]

(* Executions are counted before they happen, and a result that was seen   *)
(* as often as it may has barred its call.                                 *)
Limit(c) == BlockAt * LG!Factor(c)
RunsAreCounted == \A c \in Calls : ran[c] <= counts[c] /\ ran[c] < Limit(c)
ResultsAreCounted ==
    \A c \in Calls, r \in Results :
        /\ outcomes[c][r] <= OutcomeBlockAt
        /\ outcomes[c][r] = OutcomeBlockAt => c \in barred
GuardInv == GuardTypes /\ RunsAreCounted /\ ResultsAreCounted /\ LG!CyclesAreNoticed

LEMMA LimitType == ASSUME NEW c \in Calls PROVE Limit(c) \in Nat /\ Limit(c) > 0
<1>1. LG!Factor(c) \in Nat /\ LG!Factor(c) > 0
  BY GuardAssumption DEF LG!Factor
<1>2. BlockAt \in Nat /\ BlockAt > 0
  BY GuardAssumption
<1>3. \A m, n \in Nat : m > 0 /\ n > 0 => m * n \in Nat /\ m * n > 0
  OBVIOUS
<1> QED BY <1>1, <1>2, <1>3 DEF Limit

(* The largest member of a bounded set of numbers.                         *)
LEMMA LargestOf ==
    ASSUME NEW n \in Nat, NEW S, S \subseteq 0..n, 0 \in S
    PROVE  LG!Max(S) \in S
<1> DEFINE R == OpToRel(<, Nat)
           B == {b \in Nat : \A x \in S : x <= b}
<1>1. IsWellFoundedOn(R, Nat)
  BY NatLessThanWellFounded
<1>2. B \subseteq Nat /\ n \in B
  OBVIOUS
<1>3. PICK m \in B : \A y \in B : ~ (<<y, m>> \in R)
  <2> HIDE DEF R, B
  <2> QED BY <1>1, <1>2, WFMin
<1>4. \A y \in B : ~ (y < m)
  BY <1>3 DEF OpToRel
<1>5. m \in Nat /\ \A x \in S : x \in Nat /\ x <= m
  OBVIOUS
<1>6. m \in S
  <2> SUFFICES ASSUME m \notin S PROVE FALSE
    OBVIOUS
  <2>1. m # 0 /\ m - 1 \in Nat /\ m - 1 < m
    BY <1>5
  <2>2. \A x \in S : x <= m - 1
    BY <1>5, <2>1
  <2>3. m - 1 \in B
    BY <2>1, <2>2
  <2> HIDE DEF B
  <2> QED BY <1>4, <2>1, <2>3
<1>7. \E x \in S : \A y \in S : x >= y
  BY <1>5, <1>6
<1> QED BY <1>7 DEF LG!Max

(* If the last k calls are repeated n times, each call of these rounds is  *)
(* the one of the last round at its place.                                 *)
LEMMA TailRepeated ==
    ASSUME NEW h \in Seq(Calls), NEW k \in {2, 3}, NEW m, m = LG!TailRepeats(h, k)
    PROVE  m \in Nat /\ \A i \in 0..(m * k - 1) : h[Len(h) - i] = h[Len(h) - (i % k)]
<1> DEFINE S == {n \in 0..(Len(h) \div k) :
                   \A i \in 0..(n * k - 1) : h[Len(h) - i] = h[Len(h) - (i % k)]}
<1>1. Len(h) \in Nat
  OBVIOUS
<1>2. Len(h) \div k \in Nat
  <2>1. Len(h) \div 2 \in Nat /\ Len(h) \div 3 \in Nat
    BY <1>1
  <2> QED BY <2>1
<1>3. 0 \in S
  <2>1. 0 * k - 1 = 0 - 1 /\ 0..(0 - 1) = {}
    OBVIOUS
  <2> QED BY <1>2, <2>1
<1>4. S \subseteq 0..(Len(h) \div k)
  OBVIOUS
<1>5. m = LG!Max(S)
  BY DEF LG!TailRepeats
<1>6. m \in S
  <2> HIDE DEF S
  <2> QED BY <1>2, <1>3, <1>4, <1>5, LargestOf
<1> QED BY <1>2, <1>6

LEMMA RepeatsTwo ==
    ASSUME NEW h \in Seq(Calls), LG!TailRepeats(h, 2) >= 2
    PROVE  h[Len(h) - 2] = h[Len(h)] /\ h[Len(h) - 3] = h[Len(h) - 1]
<1>1. PICK m : m = LG!TailRepeats(h, 2)
  OBVIOUS
<1>2. m \in Nat /\ m >= 2 /\ \A i \in 0..(m * 2 - 1) : h[Len(h) - i] = h[Len(h) - (i % 2)]
  BY <1>1, TailRepeated
<1>3. 2 \in 0..(m * 2 - 1) /\ 3 \in 0..(m * 2 - 1) /\ 2 % 2 = 0 /\ 3 % 2 = 1
  BY <1>2
<1>4. h[Len(h) - 2] = h[Len(h) - 0] /\ h[Len(h) - 3] = h[Len(h) - 1]
  BY <1>2, <1>3
<1>5. Len(h) - 0 = Len(h)
  OBVIOUS
<1> QED BY <1>4, <1>5

LEMMA RepeatsThree ==
    ASSUME NEW h \in Seq(Calls), LG!TailRepeats(h, 3) >= 3
    PROVE  h[Len(h) - 3] = h[Len(h)]
<1>1. PICK m : m = LG!TailRepeats(h, 3)
  OBVIOUS
<1>2. m \in Nat /\ m >= 3 /\ \A i \in 0..(m * 3 - 1) : h[Len(h) - i] = h[Len(h) - (i % 3)]
  BY <1>1, TailRepeated
<1>3. 3 \in 0..(m * 3 - 1) /\ 3 % 3 = 0
  BY <1>2
<1>4. h[Len(h) - 3] = h[Len(h) - 0]
  BY <1>2, <1>3
<1>5. Len(h) - 0 = Len(h)
  OBVIOUS
<1> QED BY <1>4, <1>5

(* detect_ping_pong_impl and count_ping_pong_repeats agree: a cycle of     *)
(* three calls that also looks like two rounds of a cycle of two would be  *)
(* one call over and over, which is no cycle.                              *)
LEMMA RepeatsAreCounted ==
    ASSUME NEW h \in Seq(Calls), LG!PingPong(h) PROVE LG!PingPongRepeats(h) \in Nat /\ LG!PingPongRepeats(h) >= 3
<1> DEFINE Cycles(k) == Len(h) >= 2 * k /\ LG!Varied(h, k) /\ LG!TailRepeats(h, k) >= 2
<1>0. Len(h) \in Nat
  OBVIOUS
<1>5. LG!TailRepeats(h, 2) \in Nat /\ LG!TailRepeats(h, 3) \in Nat
  BY TailRepeated
<1>1. PICK k \in {2, 3} : Len(h) >= 3 * k /\ LG!Varied(h, k) /\ LG!TailRepeats(h, k) >= 3
  BY DEF LG!PingPong
<1>2. LG!PingPongRepeats(h) =
        CASE Cycles(2) -> LG!TailRepeats(h, 2)
          [] ~Cycles(2) /\ Cycles(3) -> LG!TailRepeats(h, 3)
          [] OTHER -> 0
  BY DEF LG!PingPongRepeats
<1>3. CASE k = 2
  <2>1. Cycles(2)
    BY <1>0, <1>1, <1>3, <1>5
  <2> QED BY <1>1, <1>2, <1>3, <1>5, <2>1
<1>4. CASE k = 3
  <2>1. ~Cycles(2)
    <3> SUFFICES ASSUME Cycles(2) PROVE FALSE
      OBVIOUS
    <3>1. h[Len(h) - 2] = h[Len(h)] /\ h[Len(h) - 3] = h[Len(h) - 1]
      BY RepeatsTwo
    <3>2. h[Len(h) - 3] = h[Len(h)]
      BY <1>1, <1>4, RepeatsThree
    <3>3. \A i \in 1..2 - 1 : i = 1
      OBVIOUS
    <3>4. h[Len(h) - 1] # h[Len(h)]
      BY <3>3 DEF LG!Varied
    <3> QED BY <3>1, <3>2, <3>4
  <2>2. Cycles(3)
    BY <1>0, <1>1, <1>4, <1>5
  <2> QED BY <1>1, <1>2, <1>4, <1>5, <2>1, <2>2
<1> QED BY <1>3, <1>4

LEMMA RememberType ==
    ASSUME GuardTypes, NEW c \in Calls PROVE LG!Remember(c) \in Seq(Calls)
<1>1. recent \in Seq(Calls) /\ Len(recent) \in Nat /\ HistorySize \in Nat /\ HistorySize # 0
  BY GuardAssumption DEF GuardTypes
<1>2. CASE Len(recent) >= HistorySize
  <2>1. recent # <<>>
    BY <1>1, <1>2
  <2>2. Tail(recent) \in Seq(Calls)
    BY <1>1, <2>1
  <2> QED BY <1>2, <2>2 DEF LG!Remember
<1>3. CASE ~(Len(recent) >= HistorySize)
  BY <1>1, <1>3 DEF LG!Remember
<1> QED BY <1>2, <1>3

(* What check() answers.                                                   *)
LEMMA CheckEffect ==
    ASSUME GuardTypes, NEW c \in Calls, NEW v, v = LG!Check(c)
    PROVE  /\ v.count \in {counts[c], counts[c] + 1}
           /\ v.warned \in [repeat : Nat, pingpong : Nat]
           /\ v.verdict # "block" =>
                c \notin barred /\ v.count = counts[c] + 1 /\ v.count < Limit(c)
           /\ v.verdict = "allow" => ~LG!PingPong(LG!Remember(c))
<1>1. counts[c] \in Nat /\ warnings[c] \in [repeat : Nat, pingpong : Nat]
  BY DEF GuardTypes
<1>2. LG!Remember(c) \in Seq(Calls)
  BY RememberType
<1>3. PICK p : p \in BOOLEAN /\ (p <=> LG!PingPong(LG!Remember(c)))
  OBVIOUS
<1>4. PICK q : q \in BOOLEAN /\ (q <=> LG!PingPongRepeats(LG!Remember(c)) >= MinRepeats)
  OBVIOUS
<1>5. p => q
  <2>1. MinRepeats \in Nat /\ MinRepeats <= 3
    BY GuardAssumption, ServicesAssumption
  <2> QED BY <1>2, <1>3, <1>4, <2>1, RepeatsAreCounted
<1>6. PICK w : w = warnings[c]
  OBVIOUS
<1>7. /\ [w EXCEPT !.repeat = @ + 1] \in [repeat : Nat, pingpong : Nat]
      /\ [w EXCEPT !.pingpong = @ + 1] \in [repeat : Nat, pingpong : Nat]
      /\ w \in [repeat : Nat, pingpong : Nat]
  BY <1>1, <1>6
<1> DEFINE Is(x, n, ws) == [verdict |-> x, count |-> n, warned |-> ws]
<1>8. v = IF c \in barred THEN Is("block", counts[c], w)
          ELSE IF counts[c] + 1 >= Limit(c) THEN Is("block", counts[c] + 1, w)
          ELSE IF counts[c] + 1 >= WarnAt * LG!Factor(c)
            THEN Is(IF w.repeat >= MaxWarnings THEN "block" ELSE "warn", counts[c] + 1,
                    [w EXCEPT !.repeat = @ + 1])
          ELSE IF ~p THEN Is("allow", counts[c] + 1, w)
          ELSE IF q THEN Is("block", counts[c] + 1, w)
          ELSE Is(IF w.pingpong >= MaxWarnings THEN "allow" ELSE "warn", counts[c] + 1,
                  [w EXCEPT !.pingpong = @ + 1])
  BY <1>3, <1>4, <1>6 DEF LG!Check, Limit
<1>9. Limit(c) \in Nat
  BY LimitType
<1>10. counts[c] + 1 \in Nat
  BY <1>1
<1> QED BY <1>1, <1>3, <1>5, <1>7, <1>8, <1>9, <1>10

LEMMA GuardInit == LG!Init => GuardInv
<1> SUFFICES ASSUME LG!Init PROVE GuardInv
  OBVIOUS
<1>1. GuardTypes
  BY DEF LG!Init, GuardTypes
<1>2. RunsAreCounted
  BY LimitType DEF LG!Init, RunsAreCounted
<1>3. ResultsAreCounted
  <2>1. OutcomeBlockAt \in Nat /\ OutcomeBlockAt # 0
    BY GuardAssumption
  <2> QED BY <2>1 DEF LG!Init, ResultsAreCounted
<1>4. LG!CyclesAreNoticed
  BY DEF LG!Init, LG!CyclesAreNoticed
<1> QED BY <1>1, <1>2, <1>3, <1>4 DEF GuardInv

LEMMA ToolCallStep ==
    ASSUME GuardInv, NEW c \in Calls, LG!ToolCall(c) PROVE GuardInv'
<1>1. PICK v : v = LG!Check(c)
  OBVIOUS
<1>2. /\ GuardTypes /\ recent \in Seq(Calls) /\ barred \subseteq Calls
      /\ counts \in [Calls -> Nat] /\ ran \in [Calls -> Nat]
      /\ outcomes \in [Calls -> [Results -> Nat]]
      /\ warnings \in [Calls -> [repeat : Nat, pingpong : Nat]]
  BY DEF GuardInv, GuardTypes
<1>3. /\ v.count \in {counts[c], counts[c] + 1}
      /\ v.warned \in [repeat : Nat, pingpong : Nat]
      /\ v.verdict # "block" =>
           c \notin barred /\ v.count = counts[c] + 1 /\ v.count < Limit(c)
      /\ v.verdict = "allow" => ~LG!PingPong(LG!Remember(c))
  BY <1>1, <1>2, CheckEffect
<1>4. /\ recent' = LG!Remember(c) /\ counts' = [counts EXCEPT ![c] = v.count]
      /\ warnings' = [warnings EXCEPT ![c] = v.warned] /\ verdict' = v.verdict
  BY <1>1 DEF LG!ToolCall
<1>5. \/ UNCHANGED <<outcomes, barred, ran>>
      \/ /\ v.verdict # "block" /\ ran' = [ran EXCEPT ![c] = @ + 1]
         /\ \E r \in Results : /\ outcomes' = [outcomes EXCEPT ![c][r] = @ + 1]
                               /\ barred' = LG!Bar(c, outcomes[c][r] + 1)
  BY <1>1 DEF LG!ToolCall
<1>6. recent' \in Seq(Calls) /\ counts' \in [Calls -> Nat]
      /\ warnings' \in [Calls -> [repeat : Nat, pingpong : Nat]]
  BY <1>2, <1>3, <1>4, RememberType
<1>7. counts'[c] = v.count /\ \A d \in Calls : counts'[d] \in Nat /\ counts'[d] >= counts[d]
  BY <1>2, <1>3, <1>4
<1>8. LG!CyclesAreNoticed'
  BY <1>3, <1>4 DEF LG!CyclesAreNoticed
<1>9. CASE UNCHANGED <<outcomes, barred, ran>>
  <2>1. outcomes' = outcomes /\ barred' = barred /\ ran' = ran
    BY <1>9
  <2>2. GuardTypes'
    BY <1>2, <1>6, <2>1 DEF GuardTypes
  <2>3. RunsAreCounted'
    <3>1. ASSUME NEW d \in Calls PROVE ran[d] <= counts'[d] /\ ran[d] < Limit(d)
      BY <1>2, <1>7 DEF GuardInv, RunsAreCounted
    <3> QED BY <2>1, <3>1 DEF RunsAreCounted, Limit, LG!Factor
  <2>4. ResultsAreCounted'
    BY <2>1 DEF GuardInv, ResultsAreCounted
  <2> QED BY <1>8, <2>2, <2>3, <2>4 DEF GuardInv
<1>10. ASSUME v.verdict # "block", ran' = [ran EXCEPT ![c] = @ + 1], NEW r \in Results,
              outcomes' = [outcomes EXCEPT ![c][r] = @ + 1],
              barred' = LG!Bar(c, outcomes[c][r] + 1)
       PROVE  GuardInv'
  <2>1. c \notin barred /\ counts'[c] = counts[c] + 1 /\ counts'[c] < Limit(c)
    BY <1>3, <1>7, <1>10
  <2>2. /\ ran' \in [Calls -> Nat] /\ ran'[c] = ran[c] + 1
        /\ \A d \in Calls : d # c => ran'[d] = ran[d]
    BY <1>2, <1>10
  <2>3. /\ outcomes' \in [Calls -> [Results -> Nat]] /\ outcomes'[c][r] = outcomes[c][r] + 1
        /\ \A d \in Calls, x \in Results :
              (d # c \/ x # r) => outcomes'[d][x] = outcomes[d][x]
    BY <1>2, <1>10
  <2>4. barred \subseteq barred' /\ barred' \subseteq Calls
        /\ (outcomes[c][r] + 1 >= OutcomeBlockAt => c \in barred')
    BY <1>2, <1>10 DEF LG!Bar
  <2>5. GuardTypes'
    BY <1>6, <2>2, <2>3, <2>4 DEF GuardTypes
  <2>6. RunsAreCounted'
    <3>1. ASSUME NEW d \in Calls PROVE ran'[d] <= counts'[d] /\ ran'[d] < Limit(d)
      <4>1. ran[d] <= counts[d] /\ ran[d] < Limit(d)
        BY DEF GuardInv, RunsAreCounted
      <4>2. ran[d] \in Nat /\ counts[d] \in Nat /\ counts'[d] \in Nat /\ Limit(d) \in Nat
        BY <1>2, <1>7, LimitType
      <4>3. CASE d = c
        BY <2>1, <2>2, <4>1, <4>2, <4>3
      <4>4. CASE d # c
        BY <1>7, <2>2, <4>1, <4>2, <4>4
      <4> QED BY <4>3, <4>4
    <3> QED BY <3>1 DEF RunsAreCounted, Limit, LG!Factor
  <2>7. ResultsAreCounted'
    <3>1. ASSUME NEW d \in Calls, NEW x \in Results
          PROVE  /\ outcomes'[d][x] <= OutcomeBlockAt
                 /\ outcomes'[d][x] = OutcomeBlockAt => d \in barred'
      <4>1. outcomes[d][x] <= OutcomeBlockAt /\ (outcomes[d][x] = OutcomeBlockAt => d \in barred)
        BY DEF GuardInv, ResultsAreCounted
      <4>2. outcomes[d][x] \in Nat /\ OutcomeBlockAt \in Nat
        BY <1>2, GuardAssumption
      <4>3. CASE d = c /\ x = r
        <5>1. outcomes[c][r] < OutcomeBlockAt
          BY <2>1, <4>1, <4>2, <4>3
        <5>2. outcomes[c][r] + 1 <= OutcomeBlockAt
          BY <4>2, <4>3, <5>1
        <5> QED BY <2>3, <2>4, <4>2, <4>3, <5>2
      <4>4. CASE ~(d = c /\ x = r)
        BY <2>3, <2>4, <4>1, <4>4
      <4> QED BY <4>3, <4>4
    <3> QED BY <3>1 DEF ResultsAreCounted
  <2> QED BY <1>8, <2>5, <2>6, <2>7 DEF GuardInv
<1> QED BY <1>5, <1>9, <1>10

LEMMA GuardNext == GuardInv /\ [Next]_vars => GuardInv'
<1> SUFFICES ASSUME GuardInv, [Next]_vars PROVE GuardInv'
  OBVIOUS
<1>1. CASE UNCHANGED lgVars
  <2>1. /\ recent' = recent /\ barred' = barred /\ counts' = counts /\ ran' = ran
        /\ outcomes' = outcomes /\ warnings' = warnings /\ verdict' = verdict
    BY <1>1 DEF lgVars
  <2>2. LG!CyclesAreNoticed'
    BY <2>1 DEF GuardInv, LG!CyclesAreNoticed
  <2> QED BY <2>1, <2>2 DEF GuardInv, GuardTypes, RunsAreCounted, ResultsAreCounted, Limit, LG!Factor
<1>2. CASE LG!CircuitBreak
  <2>1. /\ recent' = recent /\ barred' = barred /\ counts' = counts /\ ran' = ran
        /\ outcomes' = outcomes /\ warnings' = warnings /\ verdict' = "break"
    BY <1>2 DEF LG!CircuitBreak
  <2>2. LG!CyclesAreNoticed'
    BY <2>1 DEF LG!CyclesAreNoticed
  <2> QED BY <2>1, <2>2 DEF GuardInv, GuardTypes, RunsAreCounted, ResultsAreCounted, Limit, LG!Factor
<1>3. ASSUME NEW c \in Calls, LG!ToolCall(c) PROVE GuardInv'
  BY <1>3, ToolCallStep
<1> QED BY <1>1, <1>2, <1>3 DEF Next, vars, Triggers, Audit, Pairing, Guard, Wire, LG!Next

(* However the model goes about it, the same call is executed a limited    *)
(* number of times, and with the same result at most                       *)
(* outcome_block_threshold times; and a call that completes a cycle is     *)
(* never let through without a word (loop_guard.rs, check() and            *)
(* record_outcome()).                                                      *)
THEOREM RepetitionDoesStop == Spec => []RepetitionStops
<1>1. Init => GuardInv
  BY GuardInit DEF Init
<1>2. GuardInv => RepetitionStops
  BY DEF GuardInv, RunsAreCounted, ResultsAreCounted, Limit, RepetitionStops, LG!RepetitionStops
<1> QED BY <1>1, <1>2, GuardNext, PTL DEF Spec

=============================================================================
