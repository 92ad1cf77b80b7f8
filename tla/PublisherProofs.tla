--------------------------- MODULE PublisherProofs ---------------------------
(***************************************************************************)
(* Theorems about WebhookPublisher, for any number of deliveries and       *)
(* connections.                                                            *)
(***************************************************************************)
EXTENDS WebhookPublisher, TLAPS

Connecting == {"dial", "channel", "declare"}

\* mu is held from the failed check of ensure to its return.
MutexInv == \A w \in Worker : pc[w] \in Connecting <=> mu = w

\* While a new connection is set up the shared one is closed; only the holder
\* of mu sets one up; conn and ch are replaced together, and never by nil, but
\* by a connection whose channel was opened.
ConnInv ==
    /\ conn = ch
    /\ mu # None => conn = None \/ net[conn] = "closed"
    /\ \A w \in Worker : pc[w] \in {"channel", "declare"} => building # None
    /\ building # None => mu \in Worker /\ pc[mu] \in {"channel", "declare"}
    /\ \A i \in Conn : Live(i) => i \in {conn, building}
    /\ conn # None => net[conn] \in {"ready", "chclosed", "closed"}

IInv == TypeOK /\ MutexInv /\ ConnInv /\ SenderHasChannel /\ InFlightKept

-----------------------------------------------------------------------------
\* A publisher that was never initialised has no connection and no mutex held.
LEMMA InitIInv == ASSUME Init PROVE IInv
  BY PublisherAssumption
  DEF Init, IInv, TypeOK, MutexInv, ConnInv, SenderHasChannel, InFlightKept,
      Worker, Live, Connecting, Running, Returned

\* A delivery that is neither in ensure nor about to publish touches nothing
\* the invariant speaks of, nor does InitWebhookPublisher.
LEMMA CallersKeep ==
  ASSUME IInv,
         \/ InitWebhookPublisher
         \/ \E d \in Delivery : DeliverWebhook(d) \/ Deliver(d) \/ Routed(d)
  PROVE  IInv'
<1> USE PublisherAssumption
        DEF IInv, TypeOK, MutexInv, ConnInv, SenderHasChannel, InFlightKept,
            Worker, Live, Connecting, Running, Returned, Goto, DeliveryFrame
<1>1. CASE InitWebhookPublisher
  BY <1>1 DEF InitWebhookPublisher
<1>2. ASSUME NEW d \in Delivery, DeliverWebhook(d) PROVE IInv'
  BY <1>2 DEF DeliverWebhook
<1>3. ASSUME NEW d \in Delivery, Publish(d) PROVE IInv'
  BY <1>3 DEF Publish
<1>4. ASSUME NEW d \in Delivery,
             PublishError(d) \/ Drop(d) \/ PostWebhook(d) \/ Routed(d)
      PROVE  IInv'
  BY <1>4 DEF PublishError, Drop, PostWebhook, Routed
<1>5. ASSUME NEW d \in Delivery, PostEnds(d) PROVE IInv'
  BY <1>5 DEF PostEnds
<1> QED
  BY <1>1, <1>2, <1>3, <1>4, <1>5 DEF Deliver

\* The broker may close what it likes: that makes no connection live.
LEMMA BrokerKeeps ==
  ASSUME IInv, NEW i \in Conn, ConnectionLost(i) \/ ChannelClosed(i)
  PROVE  IInv'
  BY PublisherAssumption
  DEF IInv, TypeOK, MutexInv, ConnInv, SenderHasChannel, InFlightKept, Worker,
      Live, Connecting, Running, Returned, Unrouted, ConnectionLost,
      ChannelClosed

\* ensure: taking mu closes the shared connection, which stays closed until
\* the new one replaces it or is closed again.
LEMMA EnsureKeeps ==
  ASSUME IInv, NEW w \in Worker, Ensure(w) PROVE IInv'
<1> USE PublisherAssumption
        DEF IInv, TypeOK, MutexInv, ConnInv, SenderHasChannel, InFlightKept,
            Worker, Live, Connecting, Running, Returned, Goto, EnsureFrame,
            Ensured, EnsureFailed
<1>1. CASE EnsureUnconfigured(w)
  BY <1>1 DEF EnsureUnconfigured
<1>2. CASE EnsureShared(w)
  BY <1>2 DEF EnsureShared, Shared
<1>3. CASE EnsureLock(w)
  BY <1>3 DEF EnsureLock, Shared
<1>4. CASE Dialled(w)
  <2>1. PICK i \in Conn : /\ net[i] = "unused"
                          /\ net' = [net EXCEPT ![i] = "open"]
                          /\ building' = i
    BY <1>4 DEF Dialled
  <2>2. mu = w /\ conn # i /\ UNCHANGED <<mu, conn, ch, cfg, webhookPub, via>>
        /\ pc' = [pc EXCEPT ![w] = "channel"] /\ building = None
    BY <1>4, <2>1 DEF Dialled
  <2> QED
    BY <2>1, <2>2
<1>5. CASE DialError(w)
  BY <1>5 DEF DialError
<1>6. CASE ChannelOpened(w)
  <2>1. mu = w /\ building \in Conn /\ building # conn
    BY <1>6 DEF ChannelOpened
  <2> QED
    BY <1>6, <2>1 DEF ChannelOpened
<1>7. CASE SetupError(w)
  <2>1. mu = w /\ building \in Conn
    BY <1>7 DEF SetupError
  <2> QED
    BY <1>7, <2>1 DEF SetupError
<1>8. CASE ExchangeDeclared(w)
  <2>1. mu = w /\ building \in Conn
    BY <1>8 DEF ExchangeDeclared
  <2> QED
    BY <1>8, <2>1 DEF ExchangeDeclared
<1> QED
  BY <1>1, <1>2, <1>3, <1>4, <1>5, <1>6, <1>7, <1>8 DEF Ensure

\* Every step keeps the inductive invariant.
LEMMA NextIInv == ASSUME IInv, [Next]_vars PROVE IInv'
<1>1. CASE UNCHANGED vars
  BY <1>1 DEF vars, IInv, TypeOK, MutexInv, ConnInv, SenderHasChannel,
         InFlightKept, Live
<1> QED
  BY <1>1, CallersKeep, BrokerKeeps, EnsureKeeps DEF Next

\* The publisher's mutex, connection and channel are consistent in every
\* reachable state.
THEOREM Invariance == Spec => []IInv
  BY InitIInv, NextIInv, PTL DEF Spec

\* The types hold, whatever fails while a connection is set up.
THEOREM TypeCorrect == Spec => []TypeOK
<1>1. IInv => TypeOK
  BY DEF IInv
<1> QED
  BY <1>1, Invariance, PTL

\* No connection of the publisher leaks, whichever of Dial, Channel and
\* ExchangeDeclare fails and however many deliveries reconnect at once.
THEOREM NeverTwoConnections == Spec => []OneConnection
<1>1. IInv => OneConnection
  BY PublisherAssumption
  DEF IInv, TypeOK, ConnInv, OneConnection, Live
<1> QED
  BY <1>1, Invariance, PTL

\* PublishWebhook never dereferences a nil channel after ensure let it pass.
THEOREM ChannelNeverNil == Spec => []SenderHasChannel
<1>1. IInv => SenderHasChannel
  BY DEF IInv
<1> QED
  BY <1>1, Invariance, PTL

\* Only the broker closes a connection webhooks are on their way through.
THEOREM InFlightAlwaysKept == Spec => []InFlightKept
<1>1. IInv => InFlightKept
  BY DEF IInv
<1> QED
  BY <1>1, Invariance, PTL

\* mu is never left locked: its holder is connecting. DeliveriesReturn adds
\* that it goes on.
THEOREM LockNeverLeaked ==
  Spec => [](mu # None => mu \in Worker /\ pc[mu] \in Connecting)
<1>1. IInv => (mu # None => mu \in Worker /\ pc[mu] \in Connecting)
  BY DEF IInv, TypeOK, MutexInv
<1> QED
  BY <1>1, Invariance, PTL

-----------------------------------------------------------------------------
(* What is left of EnsureMaintains, which the code does not do: ensure asks *)
(* the connection whether it is open, not the channel.                     *)

\* When ensure returns nil there is a channel, on a connection that is open.
EnsureLeavesConnection ==
    \A w \in Worker :
        pc[w] \in Running /\ pc'[w] \in {"publish", "done"}
        => ch' # None /\ net'[ch'] \in {"ready", "chclosed"}
THEOREM EnsureMaintainsConnection == Spec => [][EnsureLeavesConnection]_vars
<1>1. ASSUME IInv, [Next]_vars PROVE EnsureLeavesConnection
  <2> SUFFICES ASSUME NEW w \in Worker, pc[w] \in Running,
                      pc'[w] \in {"publish", "done"}
               PROVE  ch' # None /\ net'[ch'] \in {"ready", "chclosed"}
    BY DEF EnsureLeavesConnection
  <2> USE <1>1, PublisherAssumption DEF IInv, TypeOK, Running, Goto
  <2>1. EnsureShared(w) \/ ExchangeDeclared(w)
    <3>1. CASE UNCHANGED vars \/ InitWebhookPublisher
      BY <3>1 DEF vars, InitWebhookPublisher
    <3>2. ASSUME NEW d \in Delivery,
                 DeliverWebhook(d) \/ Deliver(d) \/ Routed(d)
          PROVE  FALSE
      BY <3>2 DEF DeliverWebhook, Deliver, Publish, PublishError, Drop,
                  PostWebhook, PostEnds, Routed
    <3>3. ASSUME NEW i \in Conn, ConnectionLost(i) \/ ChannelClosed(i)
          PROVE  FALSE
      BY <3>3 DEF ConnectionLost, ChannelClosed, Unrouted
    <3>4. ASSUME NEW v \in Worker,
                 \/ EnsureUnconfigured(v) \/ EnsureLock(v) \/ Dialled(v)
                 \/ DialError(v) \/ ChannelOpened(v) \/ SetupError(v)
          PROVE  FALSE
      BY <3>4 DEF EnsureUnconfigured, EnsureLock, Dialled, DialError,
                  ChannelOpened, SetupError, EnsureFailed
    <3>5. ASSUME NEW v \in Worker, EnsureShared(v) \/ ExchangeDeclared(v)
          PROVE  v = w
      BY <3>5 DEF EnsureShared, ExchangeDeclared, Ensured
    <3> QED
      BY <3>1, <3>2, <3>3, <3>4, <3>5 DEF Next, Ensure
  <2>2. CASE EnsureShared(w)
    BY <2>2 DEF EnsureShared, Shared, EnsureFrame, ConnInv
  <2>3. CASE ExchangeDeclared(w)
    BY <2>3 DEF ExchangeDeclared, ConnInv
  <2> QED
    BY <2>1, <2>2, <2>3
<1> QED
  BY <1>1, Invariance, PTL DEF Spec

-----------------------------------------------------------------------------
(* WebhookPublisher implements Webhooks.                                   *)

\* A delivery has a connection exactly when it wrote its webhook to one.
WayInv == \A d \in Delivery :
    via[d] # None <=> pc[d] \in {"written", "routed", "lost"}

\* Only Publish writes, to the channel SenderHasChannel promises.
LEMMA NextWayInv == ASSUME IInv, WayInv, [Next]_vars PROVE WayInv'
<1> USE PublisherAssumption
        DEF IInv, TypeOK, WayInv, Worker, Goto, Running, Returned
<1>1. CASE UNCHANGED vars \/ InitWebhookPublisher
  BY <1>1 DEF vars, InitWebhookPublisher
<1>2. ASSUME NEW w \in Worker, Ensure(w) PROVE WayInv'
  BY <1>2 DEF Ensure, EnsureUnconfigured, EnsureShared, EnsureLock, Dialled,
              DialError, ChannelOpened, SetupError, ExchangeDeclared,
              Ensured, EnsureFailed, EnsureFrame
<1>3. ASSUME NEW d \in Delivery, DeliverWebhook(d) \/ Deliver(d) \/ Routed(d)
      PROVE  WayInv'
  BY <1>3 DEF DeliverWebhook, Deliver, Publish, PublishError, Drop,
              PostWebhook, PostEnds, Routed, DeliveryFrame,
              SenderHasChannel, ConnInv
<1>4. ASSUME NEW i \in Conn, ConnectionLost(i) \/ ChannelClosed(i)
      PROVE  WayInv'
  BY <1>4 DEF ConnectionLost, ChannelClosed, Unrouted
<1> QED
  BY <1>1, <1>2, <1>3, <1>4 DEF Next

THEOREM WayInvariance == Spec => []WayInv
<1>1. Init => WayInv
  BY DEF Init, WayInv, Worker
<1> QED
  BY <1>1, NextWayInv, Invariance, PTL DEF Spec

\* The ways a webhook was sent and whether it is over, as ImplementsWebhooks
\* reads them off the state.
Sent(d) == (IF via[d] # None THEN {"broker"} ELSE {})
           \cup (IF pc[d] \in {"posting", "posted", "postfailed"}
                 THEN {"http"} ELSE {})
Over == {d \in Delivery :
           pc[d] \in {"routed", "lost", "posted", "postfailed", "dropped"}}

\* The initial state is one of Webhooks.
LEMMA InitRefines == Init => W!Init
  BY DEF Init, W!Init, Worker

\* What moves no delivery to a new way or end stutters.
LEMMA Stutters ==
  ASSUME \A d \in Delivery : Sent(d)' = Sent(d), Over' = Over
  PROVE  UNCHANGED W!vars
  BY DEF W!vars, Sent, Over

\* ensure and the callers before it decide nothing yet.
LEMMA EnsureStutters ==
  ASSUME IInv, NEW w \in Worker, Ensure(w) PROVE UNCHANGED W!vars
<1> USE PublisherAssumption
        DEF IInv, TypeOK, Worker, Goto, Running, Returned
<1>1. /\ via' = via
      /\ \E l \in {"dial", "channel", "declare", "publish", "done",
                   "fallback", "failed"} : pc' = [pc EXCEPT ![w] = l]
      /\ pc[w] \in Running
  BY DEF Ensure, EnsureUnconfigured, EnsureShared, EnsureLock, Dialled,
         DialError, ChannelOpened, SetupError, ExchangeDeclared,
         Ensured, EnsureFailed, EnsureFrame
<1>2. (\A d \in Delivery : Sent(d)' = Sent(d)) /\ Over' = Over
  BY <1>1 DEF Sent, Over
<1> QED
  BY <1>2, Stutters

\* Publish and PostWebhook send, Drop drops, Routed and PostEnds end one.
LEMMA DeliverRefines ==
  ASSUME IInv, WayInv, NEW d \in Delivery,
         DeliverWebhook(d) \/ Deliver(d) \/ Routed(d)
  PROVE  [W!Next]_(W!vars)
<1> USE PublisherAssumption
        DEF IInv, TypeOK, WayInv, Worker, Goto, Running, Returned,
            DeliveryFrame
<1>1. CASE DeliverWebhook(d) \/ PublishError(d)
  <2>1. (\A e \in Delivery : Sent(e)' = Sent(e)) /\ Over' = Over
    BY <1>1 DEF DeliverWebhook, PublishError, Sent, Over
  <2> QED
    BY <2>1, Stutters
<1>2. CASE Publish(d)
  <2>1. ch \in Conn
    BY <1>2 DEF Publish, SenderHasChannel
  <2>2. W!Send(d, "broker")
    BY <1>2, <2>1 DEF Publish, W!Send
  <2> QED
    BY <2>2 DEF W!Next
<1>3. CASE PostWebhook(d)
  <2>1. W!Send(d, "http")
    BY <1>3 DEF PostWebhook, W!Send
  <2> QED
    BY <2>1 DEF W!Next
<1>4. CASE Drop(d)
  <2>1. W!Drop(d)
    BY <1>4 DEF Drop, W!Drop
  <2> QED
    BY <2>1 DEF W!Next
<1>5. CASE Routed(d) \/ PostEnds(d)
  <2>1. W!End({d})
    BY <1>5 DEF Routed, PostEnds, W!End
  <2> QED
    BY <2>1 DEF W!Next
<1> QED
  BY <1>1, <1>2, <1>3, <1>4, <1>5 DEF Deliver

\* A connection or channel that is lost ends every webhook written to it and
\* not yet routed, in one step.
LEMMA BrokerRefines ==
  ASSUME IInv, WayInv, NEW i \in Conn, ConnectionLost(i) \/ ChannelClosed(i)
  PROVE  W!Next
<1> DEFINE ends == {d \in Delivery : pc[d] = "written" /\ via[d] = i}
<1>1. W!End(ends)
  BY PublisherAssumption
  DEF IInv, TypeOK, WayInv, Worker, W!End, ConnectionLost, ChannelClosed,
      Unrouted
<1> QED
  BY <1>1 DEF W!Next, W!End

\* Every step is one of Webhooks, or a stutter.
LEMMA NextRefines ==
  ASSUME IInv, WayInv, [Next]_vars PROVE [W!Next]_(W!vars)
<1>1. CASE UNCHANGED vars
  BY <1>1 DEF vars, W!vars
<1>2. CASE InitWebhookPublisher
  <2>1. (\A e \in Delivery : Sent(e)' = Sent(e)) /\ Over' = Over
    BY <1>2, PublisherAssumption
    DEF InitWebhookPublisher, Goto, IInv, TypeOK, Worker, Sent, Over
  <2> QED
    BY <2>1, Stutters
<1> QED
  BY <1>1, <1>2, EnsureStutters, DeliverRefines, BrokerRefines DEF Next

\* However connections fail and are replaced under the deliveries that use
\* them, PublishWebhook and its fallback send no webhook twice, both ways, or
\* again after it was lost.
THEOREM Refinement == Spec => ImplementsWebhooks
  BY InitRefines, NextRefines, Invariance, WayInvariance, PTL
  DEF Spec, ImplementsWebhooks, W!Spec

=============================================================================
