------------------------------ MODULE WirePeer ------------------------------
(***************************************************************************)
(* One node of the wire protocol (wire/src/peer.rs, registry.rs): signed   *)
(* handshakes of other nodes, which the network may deliver late, out of   *)
(* order and more than once, the cache of nonces that tells a repetition,  *)
(* inbound and outbound connections, and the registry of peers.            *)
(*                                                                         *)
(* A handshake is checked without an await between the checks and the      *)
(* cache, so this is one step.  Requests on an open connection change no   *)
(* state here; wrong versions and signatures are rejected like stale       *)
(* handshakes.                                                             *)
(***************************************************************************)
EXTENDS Integers, Sequences, FiniteSets

CONSTANTS
    Nodes,          \* other nodes
    InSlots,        \* permits of inbound_limit, MAX_INBOUND_CONNECTIONS of them
    OutSlots,       \* connections this node opens
    Freshness,      \* HANDSHAKE_FRESHNESS_SECS
    NonceTTL,       \* NONCE_CACHE_TTL
    MaxSkew,        \* bound: how far the clocks of two nodes differ
    MaxClock,       \* bound: time
    MaxSent         \* bound: handshakes sent to this node

VARIABLES
    now,        \* the node's clock
    sent,       \* handshakes sent to it; the index is the nonce
    cache,      \* nonce_cache: pairs of nonce and time
    conn,       \* the state of every connection
    peers,      \* the registry
    accepted,   \* history: how often each handshake was accepted
    overlapped, \* history: nodes with two connections at one time
    leaving     \* history: nodes that announced their shutdown

vars == <<now, sent, cache, conn, peers, accepted, overlapped, leaving>>

Slots == InSlots \cup OutSlots
Idle == [pc |-> "idle", node |-> {}]

Init ==
    /\ now = 0 /\ sent = <<>> /\ cache = {}
    /\ conn = [k \in Slots |-> Idle]
    /\ peers = [n \in Nodes |-> "unknown"]
    /\ accepted = [i \in 1..MaxSent |-> 0] /\ overlapped = {} /\ leaving = {}

-----------------------------------------------------------------------------
Tick ==
    /\ now < MaxClock
    /\ now' = now + 1
    /\ UNCHANGED <<sent, cache, conn, peers, accepted, overlapped, leaving>>

(* Another node signs a handshake with its own clock.                      *)
Send(n, skew) ==
    /\ Len(sent) < MaxSent
    /\ sent' = Append(sent, [node |-> n, ts |-> now + skew])
    /\ UNCHANGED <<now, cache, conn, peers, accepted, overlapped, leaving>>

Fresh_NotTooOld(ts) == now - ts <= Freshness

(* timestamp_is_fresh.                                                     *)
Fresh(ts) == now - ts <= Freshness /\ ts - now <= Freshness

(* The nonces that register_nonce keeps.                                   *)
Retained == {e \in cache : now - e.seen < NonceTTL}
Known(i) == \E e \in Retained : e.nonce = i

(* handle_inbound accepts a handshake that is fresh and was not seen ...   *)
Accept(k, i) ==
    /\ k \in InSlots /\ conn[k].pc = "idle"
    /\ i \in DOMAIN sent /\ Fresh(sent[i].ts) /\ ~Known(i)
    /\ cache' = Retained \cup {[nonce |-> i, seen |-> now]}
    /\ conn' = [conn EXCEPT ![k] = [pc |-> "ack", node |-> {sent[i].node}]]
    /\ accepted' = [accepted EXCEPT ![i] = @ + 1]
    /\ UNCHANGED <<now, sent, peers, overlapped, leaving>>

(* ... and answers any other one with an error; only a fresh one has       *)
(* reached the cache.                                                      *)
Reject(k, i) ==
    /\ k \in InSlots /\ conn[k].pc = "idle"
    /\ i \in DOMAIN sent /\ (Fresh(sent[i].ts) => Known(i))
    /\ cache' = IF Fresh(sent[i].ts) THEN Retained ELSE cache
    /\ UNCHANGED <<now, sent, conn, peers, accepted, overlapped, leaving>>

(* connect_to_peer has read a valid acknowledgement.                       *)
Connect(k, n) ==
    /\ k \in OutSlots /\ conn[k].pc = "idle"
    /\ conn' = [conn EXCEPT ![k] = [pc |-> "ack", node |-> {n}]]
    /\ UNCHANGED <<now, sent, cache, peers, accepted, overlapped, leaving>>

(* The acknowledgement is written and add_peer replaces the entry ...      *)
Register(k) ==
    /\ conn[k].pc = "ack"
    /\ conn' = [conn EXCEPT ![k].pc = "open"]
    /\ peers' = [n \in Nodes |-> IF n \in conn[k].node THEN "connected" ELSE peers[n]]
    /\ overlapped' = overlapped \cup
          {n \in conn[k].node : \E j \in Slots \ {k} :
                                   n \in conn[j].node /\ conn[j].pc \in {"open", "closed"}}
    /\ leaving' = leaving \ conn[k].node
    /\ UNCHANGED <<now, sent, cache, accepted>>

(* ... or the write fails and the connection ends before that.             *)
AckFails(k) ==
    /\ conn[k].pc = "ack"
    /\ conn' = [conn EXCEPT ![k] = Idle]
    /\ UNCHANGED <<now, sent, cache, peers, accepted, overlapped, leaving>>

MarkDisconnected(ns) ==
    peers' = [n \in Nodes |-> IF n \in ns /\ peers[n] # "unknown" THEN "disconnected" ELSE peers[n]]

(* handle_notification: ShuttingDown.                                      *)
ShuttingDown(k) ==
    /\ conn[k].pc = "open"
    /\ MarkDisconnected(conn[k].node)
    /\ leaving' = leaving \cup conn[k].node
    /\ UNCHANGED <<now, sent, cache, conn, accepted, overlapped>>

(* connection_loop returns ...                                             *)
Close(k) ==
    /\ conn[k].pc = "open"
    /\ conn' = [conn EXCEPT ![k].pc = "closed"]
    /\ UNCHANGED <<now, sent, cache, peers, accepted, overlapped, leaving>>

Finish_Forgets(k) ==
    /\ conn[k].pc = "closed"
    /\ conn' = [conn EXCEPT ![k] = Idle]
    /\ UNCHANGED <<now, sent, cache, peers, accepted, overlapped, leaving>>

(* ... and the peer is marked disconnected, whatever other connections it  *)
(* has.                                                                    *)
Finish(k) ==
    /\ conn[k].pc = "closed"
    /\ MarkDisconnected(conn[k].node)
    /\ conn' = [conn EXCEPT ![k] = Idle]
    /\ UNCHANGED <<now, sent, cache, accepted, overlapped, leaving>>

Next ==
    \/ Tick
    \/ \E n \in Nodes, skew \in -MaxSkew..MaxSkew : Send(n, skew)
    \/ \E k \in Slots :
          \/ \E i \in 1..MaxSent : Accept(k, i) \/ Reject(k, i)
          \/ \E n \in Nodes : Connect(k, n)
          \/ Register(k) \/ AckFails(k) \/ ShuttingDown(k) \/ Close(k) \/ Finish(k)

-----------------------------------------------------------------------------
(* Type invariant.                                                         *)
TypeOK ==
    /\ now \in 0..MaxClock /\ Len(sent) <= MaxSent
    /\ cache \subseteq [nonce : DOMAIN sent, seen : 0..now]
    /\ conn \in [Slots -> [pc : {"idle", "ack", "open", "closed"}, node : SUBSET Nodes]]
    /\ peers \in [Nodes -> {"unknown", "connected", "disconnected"}]
    /\ accepted \in [1..MaxSent -> Nat]
    /\ overlapped \subseteq Nodes /\ leaving \subseteq Nodes

(* However late and however often a handshake is delivered, and whatever   *)
(* the sender's clock says, it is accepted at most once: a nonce is        *)
(* forgotten only when its handshake is stale.                             *)
HandshakeAcceptedOnce == \A i \in DOMAIN sent : accepted[i] <= 1

Live(n) == \E k \in Slots : n \in conn[k].node /\ conn[k].pc \in {"open", "closed"}

(* No ghost peers: a peer is listed as connected only while a connection   *)
(* with it exists, however connections of both directions interleave.      *)
ConnectedIsLive == \A n \in Nodes : peers[n] = "connected" => Live(n)

(* A peer with an open connection is listed as connected, unless it said   *)
(* that it shuts down or two of its connections overlapped, the end of one *)
(* of which hides the other.                                               *)
SingleConnectionIsListed ==
    \A n \in Nodes \ (overlapped \cup leaving) :
        (\E k \in Slots : n \in conn[k].node /\ conn[k].pc = "open") => peers[n] = "connected"
=============================================================================
