------------------------------ MODULE Webhooks -------------------------------
(***************************************************************************)
(* What becomes of webhooks, with no mutex, connections or workers: each   *)
(* goes one way, to the broker or over HTTP, and at most once; its way     *)
(* ends, where it arrives or is lost, and nothing happens to it then.      *)
(* WebhookPublisher implements this specification.                         *)
(***************************************************************************)
CONSTANT Delivery

VARIABLES
    sent,   \* per webhook: the ways it was sent
    over    \* the webhooks nothing more is done for

vars == <<sent, over>>

Init ==
    /\ sent = [d \in Delivery |-> {}]
    /\ over = {}

Send(d, way) ==
    /\ sent[d] = {} /\ d \notin over
    /\ sent' = [sent EXCEPT ![d] = {way}]
    /\ UNCHANGED over

\* There is no way to send it.
Drop(d) ==
    /\ sent[d] = {} /\ d \notin over
    /\ over' = over \cup {d}
    /\ UNCHANGED sent

\* It arrives, or it is lost: with a connection, several at once.
End(D) ==
    /\ \A d \in D : sent[d] # {} /\ d \notin over
    /\ over' = over \cup D
    /\ UNCHANGED sent

Next ==
    \/ \E d \in Delivery : Send(d, "broker") \/ Send(d, "http") \/ Drop(d)
    \/ \E D \in SUBSET Delivery : End(D)

Spec == Init /\ [][Next]_vars

=============================================================================
