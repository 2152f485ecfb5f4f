--------------------------- MODULE DiscordGateway ---------------------------
(***************************************************************************)
(* The Discord adapter's gateway loop (channels/src/discord.rs): it        *)
(* connects, waits for HELLO, resumes its session or identifies anew,      *)
(* hands the events on and reconnects when the connection ends.  The       *)
(* session id and the last sequence number outlive a connection.           *)
(*                                                                         *)
(* The server (external) numbers the events of a session, READY being the  *)
(* first, keeps them while the client is away, and may forget the session. *)
(***************************************************************************)
EXTENDS Naturals, Sequences

CONSTANTS
    MaxSessions,    \* bound: sessions the server starts
    MaxEvents       \* bound: events of a session

VARIABLES
    link,       \* "down", "hello" (not read yet), "identify", "resume", "live", "ended"
    session,    \* session_id (0: None)
    sequence,   \* the last sequence number (0: None)
    closing,    \* the shutdown flag
    known,      \* the server's session (0: none)
    sessions,   \* sessions the server has started
    last,       \* the number of that session's last event
    cursor,     \* the last event sent over this connection
    got         \* history: events handed on since READY

client == <<link, session, sequence, got>>
server == <<known, sessions, last, cursor>>
vars == <<client, closing, server>>

Init ==
    /\ link = "down" /\ session = 0 /\ sequence = 0 /\ got = <<>>
    /\ closing = FALSE
    /\ known = 0 /\ sessions = 0 /\ last = 0 /\ cursor = 0

(* The loop's head; a failed attempt sleeps and comes back to it.          *)
Connect ==
    /\ link = "down" /\ ~closing
    /\ link' = "hello"
    /\ UNCHANGED <<session, sequence, got, closing, server>>

(* HELLO: resume if session and sequence are known.                        *)
Hello ==
    /\ link = "hello"
    /\ link' = IF session # 0 /\ sequence # 0 THEN "resume" ELSE "identify"
    /\ UNCHANGED <<session, sequence, got, closing, server>>

(* READY: the server has started a session.                                *)
Ready ==
    /\ link = "identify"
    /\ sessions' = sessions + 1 /\ known' = sessions' /\ last' = 1 /\ cursor' = 1
    /\ link' = "live" /\ session' = known' /\ sequence' = 1 /\ got' = <<>>
    /\ UNCHANGED closing

(* The server accepts RESUME and goes on after the sequence number in it.  *)
Resumed ==
    /\ link = "resume" /\ session = known
    /\ link' = "live" /\ cursor' = sequence
    /\ UNCHANGED <<session, sequence, got, closing, known, sessions, last>>

(* INVALID_SESSION, not resumable: forget the session and reconnect.       *)
Invalid ==
    /\ link = "resume" /\ session # known
    /\ link' = "down" /\ session' = 0 /\ sequence' = 0
    /\ UNCHANGED <<got, closing, server>>

Deliver_KeepsSequence ==
    /\ link = "live" /\ cursor < last
    /\ cursor' = cursor + 1
    /\ got' = Append(got, cursor')
    /\ UNCHANGED <<link, session, sequence, closing, known, sessions, last>>

(* A dispatched event: its number is kept, then it is handed on.           *)
Deliver ==
    /\ link = "live" /\ cursor < last
    /\ cursor' = cursor + 1
    /\ sequence' = cursor' /\ got' = Append(got, cursor')
    /\ UNCHANGED <<link, session, closing, known, sessions, last>>

(* Closed, an error, a heartbeat that cannot be sent, RECONNECT, or        *)
(* INVALID_SESSION, resumable.                                             *)
Drop ==
    /\ link \in {"hello", "identify", "resume", "live"}
    /\ link' = "down"
    /\ UNCHANGED <<session, sequence, got, closing, server>>

(* stop() sets the flag; the loop leaves at its head, in its select, or    *)
(* when the receiver of its messages is gone.                              *)
Stop ==
    /\ ~closing /\ closing' = TRUE
    /\ UNCHANGED <<client, server>>

Leave ==
    /\ closing /\ link # "ended"
    /\ link' = "ended"
    /\ UNCHANGED <<session, sequence, got, closing, server>>

(* The server: something happens in a guild; the session is forgotten.     *)
Happen ==
    /\ known # 0 /\ last < MaxEvents
    /\ last' = last + 1
    /\ UNCHANGED <<client, closing, known, sessions, cursor>>

Forget ==
    /\ known # 0 /\ link # "live" /\ sessions < MaxSessions
    /\ known' = 0
    /\ UNCHANGED <<client, closing, sessions, last, cursor>>

Next ==
    \/ Connect \/ Hello \/ Ready \/ Resumed \/ Invalid \/ Deliver \/ Drop
    \/ Stop \/ Leave \/ Happen \/ Forget

-----------------------------------------------------------------------------
(* Type invariant.                                                         *)
TypeOK ==
    /\ link \in {"down", "hello", "identify", "resume", "live", "ended"}
    /\ {session, known} \subseteq 0..sessions /\ sessions \in 0..MaxSessions
    /\ {sequence, last, cursor} \subseteq 0..MaxEvents
    /\ closing \in BOOLEAN

(* However often the connection drops, the events of a session are handed  *)
(* on in order, none twice and none left out.                              *)
EventsContiguous ==
    session # 0 => got = [k \in 1..sequence - 1 |-> k + 1]

(* Whoever connects has a session in the end, over any number of drops and *)
(* sessions the server has forgotten; it catches up with the session's     *)
(* events unless the server forgets them first; and stop() ends the loop.  *)
GatewayGoesOn ==
    /\ link = "hello" ~> link \in {"live", "ended"}
    /\ (known # 0 /\ session = known) ~> (session # known \/ sequence = last \/ closing)
    /\ closing ~> link = "ended"

=============================================================================
