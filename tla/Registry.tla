------------------------------ MODULE Registry ------------------------------
(***************************************************************************)
(* What the client manager of internal/provider promises its callers, with *)
(* no locks, handlers or Redis: every session has at most one WhatsApp     *)
(* client, a client object is registered at most once in its life, and it  *)
(* leaves the registry only by being told to disconnect, in the same step. *)
(* SessionManager implements this specification.                           *)
(***************************************************************************)
CONSTANTS
    Session,    \* session ids (the {id} of the HTTP routes)
    Client,     \* client objects (*whatsmeow.Client)
    None        \* "no client"

VARIABLES
    reg,        \* the client registered for each session, or None
    opened,     \* the clients registered since the process started
    stopped     \* the clients told to disconnect since the process started

vars == <<reg, opened, stopped>>

Init ==
    /\ reg = [s \in Session |-> None]
    /\ opened = {}
    /\ stopped = {}

\* A fresh client is registered, only for a session that has none.
Open(s, c) ==
    /\ reg[s] = None
    /\ c \notin opened
    /\ reg' = [reg EXCEPT ![s] = c]
    /\ opened' = opened \cup {c}
    /\ UNCHANGED stopped

\* The session's client is told to disconnect and leaves the registry.
Close(s) ==
    /\ reg[s] # None
    /\ reg' = [reg EXCEPT ![s] = None]
    /\ stopped' = stopped \cup {reg[s]}
    /\ UNCHANGED opened

\* The process dies: everything it knew is gone.
Restart ==
    /\ reg' = [s \in Session |-> None]
    /\ opened' = {}
    /\ stopped' = {}

Next ==
    \/ \E s \in Session : Close(s) \/ \E c \in Client : Open(s, c)
    \/ Restart

Spec == Init /\ [][Next]_vars

-----------------------------------------------------------------------------
TypeOK ==
    /\ reg \in [Session -> Client \cup {None}]
    /\ opened \in SUBSET Client
    /\ stopped \in SUBSET Client

\* A client that was opened is registered exactly as long as it was not told
\* to disconnect: nothing leaks out of the registry and nothing told to stop
\* stays in it.
Accounted ==
    /\ opened \ stopped = {reg[s] : s \in Session} \ {None}
    /\ stopped \subseteq opened

\* No client serves two sessions.
Exclusive ==
    \A s, t \in Session : reg[s] # None /\ reg[s] = reg[t] => s = t

=============================================================================
