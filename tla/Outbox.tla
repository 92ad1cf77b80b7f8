------------------------------- MODULE Outbox -------------------------------
(***************************************************************************)
(* What becomes of the messages UnoAPI publishes, with no queue, look-ups, *)
(* goroutines or process: WhatsApp accepts a message at most once, a       *)
(* status follows the facts, and a message that is closed, with or without *)
(* a status, stays closed. OutboundSend implements this specification.     *)
(***************************************************************************)
CONSTANT Message

VARIABLES
    accepted,   \* the messages WhatsApp accepted
    reported,   \* the status UnoAPI was told of each: "none", "sent", "failed"
    closed      \* the messages nothing more is done for

vars == <<accepted, reported, closed>>

Init ==
    /\ accepted = {}
    /\ reported = [m \in Message |-> "none"]
    /\ closed = {}

Accept(m) ==
    /\ m \notin accepted \cup closed
    /\ accepted' = accepted \cup {m}
    /\ UNCHANGED <<reported, closed>>

\* A status is the last thing that happens to a message.
Report(m, s) ==
    /\ m \notin closed
    /\ m \in accepted <=> s = "sent"
    /\ reported' = [reported EXCEPT ![m] = s]
    /\ closed' = closed \cup {m}
    /\ UNCHANGED accepted

\* Nothing more is done for some messages, and UnoAPI is not told: it does
\* not learn either that WhatsApp has accepted one it did not answer for.
GiveUp(S) ==
    /\ S \cap closed = {}
    /\ closed' = closed \cup S
    /\ \/ UNCHANGED accepted
       \/ accepted' = accepted \cup S
    /\ UNCHANGED reported

Next ==
    \/ \E m \in Message : Accept(m) \/ Report(m, "sent") \/ Report(m, "failed")
    \/ \E S \in SUBSET Message : GiveUp(S)

Spec == Init /\ [][Next]_vars

=============================================================================
