# provider-whatsmeow in TLA+

The service keeps one WhatsApp connection per *session* (a phone number), sends
what arrives on an AMQP queue, publishes what WhatsApp reports as webhooks, and
offers an HTTP API to start, stop and pair sessions. This directory models its
behaviour, checks it with TLC and proves its main properties with TLAPS.

## The system

| part | code | state | operations |
|---|---|---|---|
| session life cycle | `provider/client.go` | `clients` map under `mu`; per client: device, connection, `presenceCancel` | `Connect`, `Disconnect`, `Reload`, `RestoreSavedSessions`, dial goroutine |
| QR pairing | `provider/qr.go` | `qrBySession` | watcher goroutine of each unpaired client, `GetQR` |
| connection handlers, always-online | `provider/events.go`, `client.go` | refresher goroutines, Redis status | one handler per library event |
| session status | `status/status.go` | `unoapi-status:{phone}` in Redis | `Set` |
| HTTP API | `http/server.go` | readiness flag | connect, disconnect, reload, qr, status, resolve, fakecall |
| webhook delivery | `broker/publisher.go`, `events.go` | shared AMQP connection and channel under a mutex | `InitWebhookPublisher`, `ensure`, `PublishWebhook`, `deliverWebhook` |
| AMQP consumer, sending | `amqp/consumer.go`, `provider/send.go`, `resolver.go` | queue subscription, `pnCache` | `Start`, `Send`, `checkUserExistsOnWhatsApp`, `resolvePNtoJID` |
| inbound messages, receipts, calls | `provider/events.go` | LID, name and avatar caches | `emitCloud*`, `markReadEvent`, `handleCallRejection` |
| per-session configuration | `provider/redis_config.go`, `client.go` | `overrides` | `fetchUnoConfig`, `loadSessionOverrides` |
| destination numbers | `provider/send.go`, `resolver.go` | none | ninth-digit rules, `ResolveDest` |
| fake calls | `provider/fakecall.go` | one timer goroutine per call | `FakeCall` |
| process | `cmd/.../main.go`, `amqp/init.go` | | start order, shutdown |

How they interact. HTTP handlers and restore goroutines call the manager, which
serialises `Connect` and `Disconnect` with `mu`; `Reload` takes it three times.
`Connect` returns before anything is connected: a goroutine dials, a second one
watches the QR channel, and whatever the library reports afterwards runs in
handlers that may be late and out of order. All of them write the one status key
of the session. Handlers and `Send` deliver webhooks through one publisher
shared by the process, with HTTP as the fallback. A fake call reads the registry
without a lock and keeps the client it found until its timer fires.

What is hard: operations interleaving with dials and handlers of *older* clients
of the same session; errors half-way through `Connect` or `ensure`; broker
connections that die, or whose channel dies alone; process death. What makes
each part correct: no client escapes the registry, a disconnected client stays
disconnected, helpers (refreshers, QR codes) do not outlive their owner, locks
are always released, saved sessions come back; the publisher never leaks or
doubles its connection; a message has one outcome and a status that tells it; a
phone that was made to ring stops ringing, and rings on the session's own
client; a setting is the environment's if it has one. `PROJECT.json` lists the hazards line by line.

## Modules

* `Registry` — what the manager promises: a client per session, registered once,
  leaving only by being told to disconnect. `RegistryProofs` proves what follows
  from it.
* `SessionManager` — the detailed manager. An operation (`Op`) is an HTTP
  request or a session's restore; each has a program counter whose labels are
  the points between which other goroutines can be observed. Clients are named
  after the operation that made them. One action per step: `Connect*`,
  `Disconnect*`, `Reload*` for the operations; `Dial*` for the dial goroutine;
  `QRCode`, `Watcher*` for pairing; `HandleStatus`, `MaybeStartAlwaysOnline`,
  `StopAlwaysOnline` for the handlers; `ComeUp`, `NetworkLoss`, `LoggedOut`,
  `StreamReplaced`, `QRTimeout`, `Pair*` for the library, which is not in the
  repository and is modelled from the way the code uses it. `Crash` is any
  process death, the orderly shutdown included: `main` disconnects no client;
  `Step` is everything else. `Boot` starts the restores of all saved sessions
  but those it skips: `RestoreSavedSessions` returns an error before any of them
  if it cannot read the session store, and passes over one whose `session.db` it
  cannot stat. Steps of one goroutine that nobody else can see apart are one
  action (the QR channel, overrides, handlers, registry entry and dial goroutine
  of `Connect` are set up under `mu` in `ConnectRegister`).
* `SessionProperties` — properties of the manager, and the refinement `R ==
  INSTANCE Registry` (registered clients, clients that exist, clients told to
  disconnect).
* `MCSessionManager` — TLC instance with request symmetry.
* `SessionProofs` — theorems about the manager.
* `FakeCall` — fake calls beside the manager: a step of a call leaves the
  sessions alone, a step of the sessions leaves the calls alone, a death ends
  both (`CallsLost`). `FindCaller` and `FindAgain` are the two reads of the
  registry, `CheckCaller` and `SendOffer` use the client the first one found,
  `SendTerminate` uses it again when the timer fires. What JID is called is
  `OutboundSend`'s `ResolveDest`. `FakeCallProofs` has the theorems.
* `PhoneNumbers` — the two ninth-digit rules as operators: `CandidatesBR` lists
  the forms to ask WhatsApp about, `JIDDigits` picks one unasked. `Forms` is
  what they are measured by: the forms under which the owner of a number may
  have an account. `PhoneNumberProofs` proves what the rules do to any number.
* `Outbox` — what UnoAPI may rely on for what it publishes: accepted at most
  once, a status that is true and comes last, no end to what is closed.
  `OutboxProofs` proves what follows.
* `Webhooks` — what becomes of webhooks: each goes one way, to the broker or
  over HTTP, at most once, and ends.
* `WebhookPublisher` — publisher and `deliverWebhook`. A worker is a delivery or
  `main`'s initialisation; a connection and its channel are one element of
  `Conn`, whose state says which of the two is open. `Publish` reads `ch` after
  the mutex is released, as the code does. `W == INSTANCE Webhooks` reads the
  ways a webhook was sent off `via` and the labels of its delivery.
  `PublisherProofs` has the theorems.
* `OutboundSend` — consumer and `Send`. `consumer` is where `Consumer.Start` is;
  each message has a program counter that goes from the queue through the
  library's buffer to a goroutine of its own, and there through the session
  look-up, the existence check, the resolution, the send and the status.
  `AskFails`, `AskNotIn` and `AskIn` are one `IsOnWhatsApp` question each: the
  goroutines share `pnCache` between questions. WhatsApp answers with the JID of
  the account (`Canonical`), which may be another form of the number than the
  one asked about, and that is what is cached. Accounts come, go and change
  their form (`AccountsMove`); a cache entry may outlive its account. `Die`
  loses what was delivered (acknowledged on delivery) and not finished; it is
  the end of a `Crash` and of the nil pointer of a message with mentions and no
  context (`MentionPanic`). What a message contains is chosen when it matters;
  building it succeeds (`Prepared`), fails (`ContentError`) or waits for a
  medium to be downloaded and converted (`FetchMedia`, `MediaEnds`). `denied`
  and `answered` are history variables: what WhatsApp said in a message's
  look-up, and in all. `MCOutboundSend` gives a mobile written in national
  format, whose owner may have an account with the ninth digit, without it or
  none. `O == INSTANCE Outbox` maps accepted messages, statuses and messages
  that ended; `OutboundProofs` has the theorems.
* `Inbound` — what a session receives, and the settings that decide about it. A
  job is a goroutine: the handler of a call (`HandleCall`: rejection, answer,
  its two webhooks), of a message (`HandleMessage`: filters, content, mark), or
  the one `markReadEvent` runs in. Each may look up the phone number behind a
  LID (`Resolve`), with the cache they all share. A setting is what
  `LoadSessionOverrides` took from Redis, else what the environment says
  (`Get`); `UnoWrites` changes Redis, and a process that died may be started in
  another environment (`Boot`). The refresher of always-online is in
  `SessionManager`; here is its interval, 0 where nothing sets one, and
  `ConnectedPanic`, what a ticker of that interval does. A handler that deals
  with the chat's and the sender's address has one address here, that of one
  person; what content a message has is chosen when it matters
  (`ContentIgnored`, `EmitDeleted`, `EmitMessage`); a revocation is booked on
  the message it deletes. A webhook is recorded when it is handed to
  `deliverWebhook`, which over HTTP posts it later. `since` is a history
  variable, the answers UnoAPI had configured while a rejection is under way.
  `MCInbound` gives environments and configurations; `InboundProofs` has the
  theorems.

A mutant (`... Mutant of X`) next to a definition is what a plausible bug would
make of it. TLC must find each property violated by its mutant; the manifest
pairs them.

## Runs

| run | instance | shows |
|---|---|---|
| `session_races` | one session, its restore and two requests in one life of the process (`LifeSpec`), each connection comes up once, two events in flight, always-online overridden by a fetch; 3.1 million states | the safety properties, `ReloadRenews` and the refinement |
| `session_life` | the restore, one request and one fake call, one crash, two connections per client; 424,000 states; fairness | `ConnectingEnds`, `RingingEnds`, `OwnClientRings`, `OperationsReturn`, `SavedSessionsDialled`, `PairingKept` |
| `publisher` | two deliveries, `main`, three connections, with and without AMQP and HTTP configured; 38,900 states; fairness | `OneConnection`, `SenderHasChannel`, `InFlightKept`, `DeliveriesReturn`, `ImplementsWebhooks` |
| `outbound` | two messages, a mobile in national format and a group, accounts that change once, one death; 280,000 states; fairness | `StatusTruthful`, `AtMostOnce`, `DestinationAnswered`, `MessagesEnd`, `ImplementsOutbox` |
| `inbound` | one call and one message, of either of two people, two environments, three configurations of which UnoAPI writes one more, deaths and starts unbounded; 1.1 million states; fairness | `EnvWins`, `AnswerCurrent`, `PeersNamed`, `NoReplyToLID`, `ReportsTruthful`, `ReadAfterHandover`, `RepliesReported` |
| `zombie_client`, `stale_qr`, `connect_no_qr`, `publisher_channel`, `consumer_stops`, `ninth_digit`, `zero_interval` | the same, small | what a document or comment says and the code does not do |

Properties of the passing runs:

* `NoClientLost`: a client `Connect` registered is in the registry until
  `Disconnect` was called on it. `OnlyEarlyEscapes`: a connection of any other
  client is that of one `Disconnect` found before its dial; no other order
  leaves one behind. (That one does: `zombie_client`.)
* `ReloadReplaces`: a successful reload got rid of the client it saw, although
  its three critical sections interleave with other operations. `ReloadRenews`:
  and it leaves a client, which is another one.
* `RefreshersOwned`: a registered client is refreshed by at most one
  always-online goroutine, the one its entry can cancel. The code starts it for
  whatever client the session has when the handler gets `mu`; that no cancel
  function is overwritten is not obvious. It speaks of registered clients:
  `Disconnect` drops an entry without cancelling, and nothing can reach that
  refresher again (`zombie_client`).
* `QRRemoved`: after success or timeout the code of that pairing is gone, with
  the watchers of several clients writing the same key.
* `ConnectingEnds`: when all has run, a session that is connected is not still
  "connecting" in Redis, although `Reload` and `Connect` write that early and
  dial, watcher and handlers overwrite the key in any order. (A stale "online"
  does stay: a handler may be overtaken.)
* `ImplementsRegistry`: refinement.
* `OperationsReturn`: every operation that was started returns, so no error path
  keeps `mu`. `SavedSessionsDialled`: after a start a session saved as paired is
  dialled, unless its restore returned an error or the start could not read the
  store or its `session.db`; nothing tries those again.
* `PairingKept`: nothing but the phone unlinking a connected device undoes a
  pairing, and no `session.db` goes away: not by a death, a restore, a failed
  connect, nor the pairing of another client of the session that fails.
* `OwnClientRings`: a phone starts to ring on the client its session has at that
  moment, although three unlocked steps lie between the look at the registry and
  the offer, or on one `Disconnect` found before its dial.
* `RingingEnds`: a phone that rings stops ringing, or the client that rang it
  lost its connection: the timer outlives the request, and the session may have
  another client by then. If it lost it, nobody ends the ring.
* `OneConnection`: open connections of the publisher are the shared one or the
  one under construction, and there is at most one.
* `SenderHasChannel`: the unlocked read of `ch` never finds nil.
* `InFlightKept`: a webhook that was written and not yet routed is on the shared
  connection and its channel is open. `ensure` closes a connection to replace
  it, but never under a webhook: only the broker loses one.
* `ImplementsWebhooks`: refinement. No webhook goes twice, both ways, or again
  after it was lost with its connection.
* `DeliveriesReturn`: every `deliverWebhook` returns.
* `StatusTruthful`: "sent" is reported only of a message WhatsApp accepted,
  "failed" only if WhatsApp denied every form of the recipient's number, with
  the ninth digit and without, in one look-up, however errors, answers, the
  shared cache and accounts that come and go fall; never both. Eight digits that
  begin with a nine are excepted (`ninth_digit`).
* `AtMostOnce`: over lost connections and deaths no message is sent twice.
* `DestinationAnswered`: a message goes to a JID that WhatsApp gave when it was
  asked about this very recipient, by this goroutine or by the one whose cache
  entry it found, or else to what its recipient says. Not that the account is
  still there: an entry is trusted for 24 hours.
* `ImplementsOutbox`: refinement. Over deaths, restarts and lost connections
  nothing happens to a message after its status, error or loss.
* `MessagesEnd`: every message a goroutine was started for ends, or waits for a
  medium, for which nothing in the code ends the wait. One that ends in error
  has a status only if its number is unregistered.
* `EnvWins`: over fetches, deaths and starts a setting made in the environment
  is the one in force, its interval of always-online only if the flag is set
  there as well.
* `AnswerCurrent`: overrides are merged and never cleared, and whether to reject
  a call and what to answer are read apart, with a request to WhatsApp in
  between. Where UnoAPI alone decides, the answer that goes out is still a text
  it had configured when the call was rejected or that was fetched since. It may
  be the former although the latter is empty. Where the environment decides
  about rejection nothing is said: there a text that was deleted from Redis
  stays.
* `PeersNamed`: whatever look-ups and expiries interleave, the phone number a
  job goes on with is that of the person who called or wrote.
* `NoReplyToLID`: an answer to a call never goes to a LID.
* `ReportsTruthful`: an answer is reported only if it was sent, its status after
  its text, and the session's own messages are never marked as read.
* `ReadAfterHandover`: the webhook of a message is handed over before the
  message is marked as read, never after. It is not said to arrive before: over
  HTTP it is posted by a goroutine of its own that may take 20 seconds, and the
  pause of 200 ms that the comment at `events.go:1219` gives the consumer to go
  first is no guarantee. Nor is it the last webhook about the message: a
  revocation may follow.
* `RepliesReported`: an answer that was sent gets both its webhooks, whatever
  becomes of the first, unless the process dies.

What the violation runs show (the quotes are in `PROJECT.json`):

* `zombie_client`: `Disconnect` does not end a session. Before the dial
  goroutine ran it stops nothing, and the client connects afterwards; and it
  drops the entry without cancelling its always-online goroutine, which only the
  process ends.
* `stale_qr`: the QR code of a client that was disconnected is served as
  current.
* `connect_no_qr`: after a failed dial or an expired pairing `connect` succeeds
  and no QR code will come.
* `publisher_channel`: a channel closed on an open connection is taken for
  usable.
* `consumer_stops`: the consumer returns without a signal and is not restarted.
* `ninth_digit`: a mobile of eight digits that begin with a nine is reported as
  having no account although its owner has one with the ninth digit.
  `ResolveDest` gives that very account, for it only applies the second rule:
  fake calls and the resolve endpoint do not take the way of a message, although
  the comments on both say they do.
* `zero_interval`: always-online turned on by UnoAPI without an interval panics.

Bounds. One session is enough: sessions share only `mu`, the refinement and the
proofs cover any number. Two requests beside the restore give every pair of
operations with a third client already there; three clients of one session are
the most any property relates. `MaxEpoch` bounds how often a connection comes up
(2 gives a reconnection), `MaxPending` the events not yet handled (2 gives
overtaking), `MaxCrashes` the deaths. `session_life` has one of either request
and call, for both with a crash and reconnections. `Conn` of three lets a
reconnection fail and be repeated. Two messages are what a shared cache needs; a
number in national format has other digits than those WhatsApp is asked about,
two candidates let one answer and the other fail, one change of the accounts
(`MaxMoves`) makes answers of one look-up disagree and a cache entry stale, and
one death is followed by a restart. What the rules do to other numbers is
proved. In `inbound` a look-up has 2 and 1 attempts (3 and 2 in the code), so
that both a repeated and an only one fail; one call, one message and its reader
already share the cache, in which two people have entries to confuse; one more
write lets a fetch find an older, a newer or no text. Requests and deliveries
are one-shot, so runs end in states where nothing is left to do and deadlock is
not checked.

Fairness. Weak, and only for what the Go scheduler runs: operations, dials,
watchers, handlers of each client, restore at start, `ensure`, publish and post
steps, and the goroutine of each outbound message (not the consumer, nor the
broker: a message may stay queued for ever; nor the end of a medium, see below),
the handler of a call, and a fake call with its timer, by what it does itself.
An operation waiting for `mu` needs no more than weak fairness in these
instances, whose finitely many others stop contending; Go mutexes are
starvation-free besides. A dial, a declaration, a post, a question to WhatsApp
or the sending of a message ends by success or error, for each has a timeout in
the code or the library. Downloads and `ffmpeg` have none (`send.go:1077`,
`1148`, `1218`, under the background context of `consumer.go:192`), so
`MediaEnds` has no fairness. The network, the phone, the broker and the callers
owe nothing.

## Proofs

For all sessions, requests, deliveries, connections and bounds, from the
assumptions on the constants only:

* `SessionProofs`: `TypeCorrect`, and by the invariant `IInv` the theorems
  `ClientsNeverLost`, `EscapesAreEarly`, `ReloadAlwaysReplaces`,
  `RefreshersAlwaysOwned`, `QRAlwaysRemoved`, `ConnectingAlwaysEnds`, the action
  properties `ReloadAlwaysRenews` and `PairingAlwaysKept`, and `Refinement`. The
  properties are not inductive: `IInv` adds who holds `mu` (`MutexInv`), that a
  client exists only once its `Connect` has registered it and that the registry
  maps a session to a client of its own (`ClientInv`), what a reload knows at
  each of its labels (`ReloadInv`), that an epoch's Connected event is handled
  once, so that a refresher that is started is new (`PresenceInv`), which entry,
  registered or dropped, was given each cancel function (`RefresherInv`), what
  the library's hang-up leaves (`HangupInv`, an assumption about the library
  rather than a result), that a stored code belongs to a client of the session
  (`QRInv`), and that while a connected session still says "connecting" a reload
  is about to disconnect its client or a handler to overwrite the status
  (`StatusInv`). Each part has a lemma with one step per action; others say what
  network and handler steps leave alone. `LockNeverLeaked` says that `mu` is
  held only by an operation inside `Connect` or `Disconnect`.
* `RegistryProofs`: `RegistryAccounts`, for the abstract registry.
* `FakeCallProofs`: `CallsKeepSessions`, by which all of `SessionProofs` holds
  beside any number of calls (`CallsLetConnectingEnd` and `CallsKeepPairings`
  say it of what `session_life` checks); `CallTypeCorrect`; `CallersAlwaysOwn`:
  the client a call keeps is of its own session; `CallsRingOnOwnClient`, which
  rests on that and on `NoClientLost`.
* `PhoneNumberProofs`: `CandidatesCover`, that the candidates of a number
  include all forms of its owner, with the one exception `ninth_digit` shows;
  `DigitsOfSameOwner`; `DigitsTwice`, that the second rule is its own inverse on
  mobiles, so that a number must pass it once. No number is excluded: country
  code and any digits.
* `PublisherProofs`: `TypeCorrect`, `NeverTwoConnections`, `ChannelNeverNil`,
  `InFlightAlwaysKept`, `LockNeverLeaked`, `Refinement`. The invariant: the
  holder of the mutex is the one connecting; while it connects the shared
  connection is closed; `conn` and `ch` change together and had their channel
  opened. For the refinement, `WayInv`: a delivery has a connection exactly when
  it wrote to one. Publishing and posting map to a send, an answer to the end of
  one webhook, the loss of a connection to the end of all that were written to
  it, and all of `ensure` to stuttering.
* `OutboundProofs`: `TypeCorrect`, `StatusesTruthful`, `SentAtMostOnce`,
  `DestinationsAnswered`, `NothingStranded`, `StatusesFit`, `Refinement`. The
  invariant: how often a message was accepted at each point of its way
  (`OutcomeInv`), and that without an error the candidates already passed over
  were denied by WhatsApp, while what is cached was its answer to one of them
  (`AnswerInv`); "failed" is true by `CandidatesCover`. `WayInv` adds what a
  delivery depends on: with the process or the subscription gone, nothing is
  left that the broker takes for delivered and nobody holds. The refinement maps
  a death to giving up what was delivered, every other step to one message's.
* `OutboxProofs`: `OutboxAccounts` and `ClosedIsFinal`, for the abstract outbox.
* `InboundProofs`: `TypeCorrect`, `EnvironmentWins`, `AnswersCurrent`,
  `PeersAlwaysNamed`, `LIDsNeverAnswered`, `ReadsFollowHandover`,
  `ReportsAlwaysTruthful`, for any calls, messages, people, environments and
  configurations. The invariant has two parts no step relates, and a third
  between them: an override stands only where the environment is silent, and one
  that turns calls down came with the text fetched last (`ConfigInv`); while a
  rejection is under way the text in force is one of those noted for it
  (`TextInv`); the cache maps a LID to its own person, from "send" on a call has
  a phone number, and a reader exists only after its message's handler ended
  (`JobInv`). `ReportInv` adds where a job is once it has reported.

Where a run shows that the code does less than a document says, a theorem says
what does hold. `EscapesAreEarly` (`zombie_client`): a connection outside the
registry is that of a client `Disconnect` found before its dial; and
`RefreshersAlwaysOwned`: the refreshers of registered clients can be cancelled.
`QRAlwaysOwn` (`stale_qr`): the code that is served is one of a client of the
session. `EnsureMaintainsConnection` (`publisher_channel`): there is a channel,
and its connection is open. `StatusesTruthful` (`ninth_digit`): "failed"
follows WhatsApp's denial of every form of the number, except for eight digits
that begin with a nine. `IntervalFromEnvironment` and `IntervalFromConfig` (`zero_interval`): there is an interval where the
environment decides the flag, and everywhere if each configuration that turns
always-online on brings one; the second theorem assumes this of `Config`, which
the code does not see to.

Only model-checked: everything temporal that needs fairness (`OperationsReturn`,
`SavedSessionsDialled`, `RingingEnds`, `DeliveriesReturn`, `MessagesEnd`,
`RepliesReported`), which is beyond the prover. The lemmas it would rest on that
are safety (`LockNeverLeaked`, `NothingStranded`) are proved.

## Not modelled

Payload construction, vCards, logging, and audio conversion (codec arithmetic,
`ffmpeg`): data and I/O without state. The caches of names and avatars, whose
misses cost a look-up. Receipts: one webhook each, no state read or written. The
readiness flag, which is set at start and cleared at shutdown whatever the
consumer does. The HTTP operations that only read. `InitExchange`, which runs
before anything that depends on it.

Assumptions. A fetch and the storing of its overrides are one step (`Connect`
holds `mu` over both). Redis is assumed reachable and session ids to be digits
(`status.Set` ignores others). The error of `GetQRChannel` cannot occur for a
new unpaired client that is not connected. Data races on maps without a lock
(`pnCache`, `overrides`, reads of `clients`) end, where the Go runtime notices
them, in a fatal error: a `Crash`. WhatsApp knows the owner of a number by one
of its forms at a time and answers `IsOnWhatsApp` with that form, asked about it
or about the other one (for the other it may also deny him); an account under
another server than `s.whatsapp.net` counts as not registered. A client that was
disconnected after its dial does not reconnect by itself: that is the library's
doing. It reports a logout of a connection that is up; a refusal while it is
connecting is the loss of that connection here. The phone number library takes a
number without a country code for a Brazilian one, and leaves other text and
JIDs as they are. An empty `AMQP_URL`, with which `Start` only waits, is left
out. The comment at `resolver.go:92` says the last error is surfaced if *all*
candidates failed; the code surfaces it if any did and none was found, and so
does the model.

## Plan

1. Composition of `OutboundSend` and `Inbound` with `SessionManager` (which
   session has a client when the consumer takes a message) and with
   `WebhookPublisher` (what becomes of a status).
2. `Process`: start order, readiness, shutdown, as one module.
3. Receipts beside the status "sent", if an order of statuses is promised.
