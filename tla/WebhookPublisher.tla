-------------------------- MODULE WebhookPublisher --------------------------
(***************************************************************************)
(* Delivery of webhooks to UnoAPI: internal/broker's global publisher, one *)
(* lazily (re)connected AMQP connection and channel shared by every event  *)
(* handler and send goroutine, and deliverWebhook of internal/provider,    *)
(* which falls back to HTTP. main initialises the publisher while restored *)
(* sessions may be delivering already.                                     *)
(*                                                                         *)
(* A connection and its channel are one element of Conn: the channel lives *)
(* and dies inside its connection. The broker (external) may drop a        *)
(* connection, or close a channel and leave its connection open, whenever  *)
(* it likes.                                                               *)
(***************************************************************************)
EXTENDS Naturals, FiniteSets

CONSTANTS
    Delivery,   \* calls of deliverWebhook
    Main,       \* main's call of InitWebhookPublisher
    Conn,       \* bound: connections that are ever dialled
    None        \* no connection, no worker

Worker == Delivery \cup {Main}

ASSUME PublisherAssumption ==
    /\ Main \notin Delivery
    /\ None \notin Worker \cup Conn

VARIABLES
    cfg,        \* AMQP_URL set? WEBHOOK_BASE set?
    webhookPub, \* the global publisher: "nil" or "set"
    mu,         \* worker holding WebhookPublisher.mu, or None
    conn, ch,   \* WebhookPublisher.conn and .ch
    building,   \* the connection the holder of mu is setting up
    net,        \* state of each connection and of its channel
    pc,         \* per worker: its next step, or how it ended
    via         \* per delivery: the connection its webhook was written to

vars == <<cfg, webhookPub, mu, conn, ch, building, net, pc, via>>

Init ==
    /\ cfg \in [amqp : BOOLEAN, http : BOOLEAN]
    /\ webhookPub = "nil"
    /\ mu = None
    /\ conn = None /\ ch = None
    /\ building = None
    /\ net = [i \in Conn |-> "unused"]
    /\ pc = [w \in Worker |-> "idle"]
    /\ via = [d \in Delivery |-> None]

Goto(w, label) == pc' = [pc EXCEPT ![w] = label]

-----------------------------------------------------------------------------
(* Callers.                                                                *)

\* once.Do: the publisher is visible before it has connected.
InitWebhookPublisher ==
    /\ pc[Main] = "idle"
    /\ webhookPub' = "set"
    /\ Goto(Main, "ensure")
    /\ UNCHANGED <<cfg, mu, conn, ch, building, net, via>>

\* deliverWebhook calls PublishWebhook, which fails at once without publisher.
DeliverWebhook(d) ==
    /\ pc[d] = "idle"
    /\ Goto(d, IF webhookPub = "nil" THEN "fallback" ELSE "ensure")
    /\ UNCHANGED <<cfg, webhookPub, mu, conn, ch, building, net, via>>

\* ensure returns nil or an error to its caller.
Ensured(w) == Goto(w, IF w = Main THEN "done" ELSE "publish")

\* Mutant of EnsureFailed: deliverWebhook gives up as main does.
EnsureFailedFinal(w) == Goto(w, "failed")

EnsureFailed(w) == Goto(w, IF w = Main THEN "failed" ELSE "fallback")

-----------------------------------------------------------------------------
(* ensure, under mu from its first line to its return.                     *)

EnsureFrame == UNCHANGED <<cfg, webhookPub, via>>

EnsureUnconfigured(w) ==
    /\ pc[w] = "ensure" /\ mu = None
    /\ ~cfg.amqp
    /\ EnsureFailed(w)
    /\ EnsureFrame /\ UNCHANGED <<mu, conn, ch, building, net>>

\* "p.conn != nil && !p.conn.IsClosed() && p.ch != nil"
Shared == conn # None /\ ch # None /\ net[conn] # "closed"

\* The connection is there: the channel is not asked whether it is open.
EnsureShared(w) ==
    /\ pc[w] = "ensure" /\ mu = None
    /\ cfg.amqp /\ Shared
    /\ Ensured(w)
    /\ EnsureFrame /\ UNCHANGED <<mu, conn, ch, building, net>>

\* Mutant of EnsureLock: mu is let go of while the broker is dialled.
EnsureUnlocked(w) ==
    /\ pc[w] = "ensure" /\ mu = None
    /\ cfg.amqp /\ ~Shared
    /\ net' = [i \in Conn |-> IF i = conn THEN "closed" ELSE net[i]]
    /\ Goto(w, "dial")
    /\ EnsureFrame /\ UNCHANGED <<mu, conn, ch, building>>

\* Mutant of EnsureLock: conn and ch are reset while reconnecting.
EnsureReset(w) ==
    /\ pc[w] = "ensure" /\ mu = None
    /\ cfg.amqp /\ ~Shared
    /\ mu' = w
    /\ net' = [i \in Conn |-> IF i = conn THEN "closed" ELSE net[i]]
    /\ conn' = None /\ ch' = None
    /\ Goto(w, "dial")
    /\ EnsureFrame /\ UNCHANGED building

\* Mutant of EnsureLock: a connection that is still open is replaced.
EnsureAnew(w) ==
    /\ pc[w] = "ensure" /\ mu = None
    /\ cfg.amqp
    /\ mu' = w
    /\ net' = [i \in Conn |-> IF i = conn THEN "closed" ELSE net[i]]
    /\ Goto(w, "dial")
    /\ EnsureFrame /\ UNCHANGED <<conn, ch, building>>

EnsureLock(w) ==
    /\ pc[w] = "ensure" /\ mu = None
    /\ cfg.amqp /\ ~Shared
    /\ mu' = w
    /\ net' = [i \in Conn |-> IF i = conn THEN "closed" ELSE net[i]]
    /\ Goto(w, "dial")
    /\ EnsureFrame /\ UNCHANGED <<conn, ch, building>>

Dialled(w) ==
    /\ pc[w] = "dial"
    /\ \E i \in Conn :
         /\ net[i] = "unused"
         /\ net' = [net EXCEPT ![i] = "open"]
         /\ building' = i
    /\ Goto(w, "channel")
    /\ EnsureFrame /\ UNCHANGED <<mu, conn, ch>>

\* Mutant of DialError: an error return that leaves mu locked.
DialErrorLocked(w) ==
    /\ pc[w] = "dial"
    /\ EnsureFailed(w)
    /\ EnsureFrame /\ UNCHANGED <<mu, conn, ch, building, net>>

DialError(w) ==
    /\ pc[w] = "dial"
    /\ mu' = None /\ EnsureFailed(w)
    /\ EnsureFrame /\ UNCHANGED <<conn, ch, building, net>>

ChannelOpened(w) ==
    /\ pc[w] = "channel" /\ net[building] = "open"
    /\ net' = [net EXCEPT ![building] = "ready"]
    /\ Goto(w, "declare")
    /\ EnsureFrame /\ UNCHANGED <<mu, conn, ch, building>>

\* Channel or ExchangeDeclare fails: what was opened is closed again, and the
\* old conn and ch stay.
SetupError(w) ==
    /\ pc[w] \in {"channel", "declare"}
    /\ net' = [net EXCEPT ![building] = "closed"]
    /\ building' = None
    /\ mu' = None /\ EnsureFailed(w)
    /\ EnsureFrame /\ UNCHANGED <<conn, ch>>

ExchangeDeclared(w) ==
    /\ pc[w] = "declare" /\ net[building] = "ready"
    /\ conn' = building /\ ch' = building
    /\ building' = None
    /\ mu' = None /\ Ensured(w)
    /\ EnsureFrame /\ UNCHANGED net

-----------------------------------------------------------------------------
(* PublishWebhook after ensure, without mu: it reads whatever ch is by     *)
(* then. deliverWebhook falls back to HTTP on any error.                   *)

DeliveryFrame == UNCHANGED <<cfg, webhookPub, mu, conn, ch, building, net>>

\* Mutant of Publish: the result of the write is taken for an error.
PublishInverted(d) ==
    /\ pc[d] = "publish" /\ net[ch] = "ready"
    /\ via' = [via EXCEPT ![d] = ch]
    /\ Goto(d, "fallback") /\ DeliveryFrame

Publish(d) ==
    /\ pc[d] = "publish" /\ net[ch] = "ready"
    /\ via' = [via EXCEPT ![d] = ch]
    /\ Goto(d, "written") /\ DeliveryFrame

\* The channel is closed, or the payload cannot be encoded.
PublishError(d) ==
    /\ pc[d] = "publish"
    /\ Goto(d, "fallback") /\ DeliveryFrame /\ UNCHANGED via

\* No WEBHOOK_BASE; or the payload cannot be encoded, or no request be made of
\* it.
Drop(d) ==
    /\ pc[d] = "fallback"
    /\ Goto(d, "dropped") /\ DeliveryFrame /\ UNCHANGED via

\* The request is built and a goroutine posts it; nobody waits for it.
PostWebhook(d) ==
    /\ pc[d] = "fallback" /\ cfg.http
    /\ Goto(d, "posting") /\ DeliveryFrame /\ UNCHANGED via

\* The answer, or the client's timeout; a failed post is logged and forgotten.
PostEnds(d) ==
    /\ pc[d] = "posting"
    /\ \E r \in {"posted", "postfailed"} : Goto(d, r)
    /\ DeliveryFrame /\ UNCHANGED via

-----------------------------------------------------------------------------
(* The broker. A webhook written to a connection is routed, or goes with   *)
(* the connection or channel: there are no publisher confirms.             *)

Routed(d) ==
    /\ pc[d] = "written"
    /\ Goto(d, "routed") /\ DeliveryFrame /\ UNCHANGED via

Unrouted(i) ==
    pc' = [w \in Worker |-> IF pc[w] = "written" /\ via[w] = i
                            THEN "lost" ELSE pc[w]]

ConnectionLost(i) ==
    /\ net[i] \in {"open", "ready", "chclosed"}
    /\ net' = [net EXCEPT ![i] = "closed"]
    /\ Unrouted(i)
    /\ UNCHANGED <<cfg, webhookPub, mu, conn, ch, building, via>>

ChannelClosed(i) ==
    /\ net[i] = "ready"
    /\ net' = [net EXCEPT ![i] = "chclosed"]
    /\ Unrouted(i)
    /\ UNCHANGED <<cfg, webhookPub, mu, conn, ch, building, via>>

-----------------------------------------------------------------------------
Ensure(w) ==
    \/ EnsureUnconfigured(w) \/ EnsureShared(w) \/ EnsureLock(w)
    \/ Dialled(w) \/ DialError(w) \/ ChannelOpened(w)
    \/ SetupError(w) \/ ExchangeDeclared(w)

Deliver(d) ==
    \/ Publish(d) \/ PublishError(d)
    \/ Drop(d) \/ PostWebhook(d) \/ PostEnds(d)

Next ==
    \/ InitWebhookPublisher
    \/ \E w \in Worker : Ensure(w)
    \/ \E d \in Delivery : DeliverWebhook(d) \/ Deliver(d) \/ Routed(d)
    \/ \E i \in Conn : ConnectionLost(i) \/ ChannelClosed(i)

Spec == Init /\ [][Next]_vars

\* Goroutines that are in ensure, publish or post are scheduled, and a dial,
\* a declaration or a post ends one way or the other.
Fairness ==
    /\ \A w \in Worker : WF_vars(Ensure(w))
    /\ \A d \in Delivery : WF_vars(Deliver(d))

FairSpec == Spec /\ Fairness

-----------------------------------------------------------------------------
(* Properties.                                                             *)

Running  == {"ensure", "dial", "channel", "declare"}
Returned == {"written", "routed", "lost", "posting", "posted", "postfailed",
             "dropped"}

\* Every variable has its type; a delivery never ends with ensure, as main's
\* call does.
TypeOK ==
    /\ cfg \in [amqp : BOOLEAN, http : BOOLEAN]
    /\ webhookPub \in {"nil", "set"}
    /\ mu \in Worker \cup {None}
    /\ conn \in Conn \cup {None}
    /\ ch \in Conn \cup {None}
    /\ building \in Conn \cup {None}
    /\ net \in [Conn -> {"unused", "open", "ready", "chclosed", "closed"}]
    /\ pc \in [Worker -> {"idle", "done", "failed", "publish", "fallback"}
                         \cup Running \cup Returned]
    /\ \A d \in Delivery : pc[d] \notin {"done", "failed"}
    /\ via \in [Delivery -> Conn \cup {None}]

Live(i) == net[i] \in {"open", "ready", "chclosed"}

\* Connections are neither leaked nor doubled: whatever fails while several
\* deliveries reconnect, an open connection is the shared one or the one the
\* holder of mu is setting up, and there is at most one.
OneConnection ==
    /\ \A i \in Conn : Live(i) => i \in {conn, building}
    /\ \A i, j \in Conn : Live(i) /\ Live(j) => i = j

\* A delivery that ensure let through dereferences ch without holding mu: a
\* reconnection by another delivery never leaves it nil in between.
SenderHasChannel ==
    \A d \in Delivery : pc[d] = "publish" => ch # None

\* A webhook that was written and not yet routed is on the shared connection,
\* whose channel is open: no reconnection by another delivery and no failure
\* of one closes a connection under it, only the broker does.
InFlightKept ==
    \A d \in Delivery : pc[d] = "written" =>
        via[d] = conn /\ conn # None /\ net[conn] = "ready"

W == INSTANCE Webhooks WITH
        sent <- [d \in Delivery |->
                   (IF via[d] # None THEN {"broker"} ELSE {})
                   \cup (IF pc[d] \in {"posting", "posted", "postfailed"}
                         THEN {"http"} ELSE {})],
        over <- {d \in Delivery :
                   pc[d] \in {"routed", "lost", "posted", "postfailed",
                              "dropped"}}

\* Publisher and fallback implement Webhooks: however connections fail and are
\* replaced, no webhook is sent twice, or both ways, or after it was lost.
ImplementsWebhooks == W!Spec

\* Every call of deliverWebhook returns, through the broker, the fallback or
\* the drop: no failing dial or declaration keeps the publisher locked.
DeliveriesReturn ==
    \A d \in Delivery : pc[d] \in Running \cup {"publish", "fallback"} ~>
                        pc[d] \in Returned

\* "It maintains a single shared connection/channel": when ensure returns nil
\* the channel deliveries will publish to is open.
EnsureLeavesOpen ==
    \A w \in Worker :
        pc[w] \in Running /\ pc'[w] \in {"publish", "done"}
        => net[ch'] = "ready"
EnsureMaintains == [][EnsureLeavesOpen]_vars

=============================================================================
