---------------------------- MODULE OutboundSend ----------------------------
(***************************************************************************)
(* Outbound messages: the AMQP consumer of internal/amqp and               *)
(* ClientManager.Send, which the consumer runs in a goroutine per message, *)
(* with the check and the resolution of the recipient by candidate numbers *)
(* and their cache (internal/provider/resolver.go).                        *)
(*                                                                         *)
(* The content of a message is chosen where it first matters. Whether the  *)
(* session has a client is SessionManager's business: here the look-up may *)
(* succeed or fail. WhatsApp knows an account by one form of its number:   *)
(* it answers IsOnWhatsApp with that form (the canonical JID), and may do  *)
(* so when it is asked about the other. Accounts come and go. A status is  *)
(* a webhook handed to deliverWebhook, whose fate is WebhookPublisher's.   *)
(* The queue is a set: deliveries have no order to rely on once each has a *)
(* goroutine.                                                              *)
(***************************************************************************)
EXTENDS FiniteSets, PhoneNumbers

CONSTANTS
    Message,        \* messages published to the queue
    Number,         \* recipients given as phone numbers
    UserJid,        \* recipients given as JIDs of users
    Jid,            \* recipients that are groups, broadcast lists or LIDs
    CheckUserExists,\* CHECK_USER_EXISTS
    None,           \* no JID, no recipient
    MaxCrashes,     \* bound: process deaths
    MaxMoves        \* bound: times accounts come or go

Recipient == Number \cup UserJid \cup Jid
Address == PhoneNumber \cup UserJid \cup Jid

ASSUME OutboundAssumption ==
    /\ Number \subseteq PhoneNumber
    /\ (UserJid \cup Jid) \cap PhoneNumber = {}
    /\ UserJid \cap Jid = {}
    /\ CheckUserExists \in BOOLEAN
    /\ None \notin Address
    /\ MaxCrashes \in Nat
    /\ MaxMoves \in Nat

VARIABLES
    proc,           \* "up" or "down"
    crashes,        \* process deaths so far
    ctx,            \* main's root context: "live" or "cancelled"
    consumer,       \* where Consumer.Start is
    pc,             \* per message: where it is, or how it ended
    to,             \* per message: its recipient
    try, lastErr,   \* per message: candidate to ask about; did one fail
    jid,            \* per message: the JID it will be sent to
    pnCache,        \* per number asked about: its account, for 24 hours
    accounts,       \* the numbers and JIDs that have an account
    moves,          \* times they changed
    sends,          \* per message: times WhatsApp accepted it
    statuses,       \* status webhooks: message and "sent" or "failed"
    denied,         \* history, per message: what its last look-up was told
                    \* has no account
    answered        \* history: the JIDs WhatsApp has answered with

procVars == <<proc, crashes, ctx, consumer>>
askVars == <<try, lastErr, denied>>
destVars == <<jid, pnCache, answered>>
accountVars == <<accounts, moves>>
vars == <<procVars, pc, to, askVars, destVars, accountVars, sends, statuses>>

Ask == {"check.ask", "resolve.ask"}
Sending == {"session", "check", "resolve", "prepare", "media", "send", "emit"}
           \cup Ask
Ended == {"skipped", "error", "done", "lost"}

\* The number both look-ups ask about, which is also the key of pnCache; what
\* is no number is taken as it is.
Key == [r \in Recipient |-> IF r \in Number THEN E164(r) ELSE r]

Candidates ==
    [r \in Recipient |-> IF r \in Number THEN CandidatesBR(Key[r]) ELSE <<r>>]

Tried == [r \in Recipient |->
            {Candidates[r][i] : i \in 1..Len(Candidates[r])}]

\* The forms under which WhatsApp may know the owner of an address.
FormsOf(a) == IF a \in PhoneNumber THEN Forms(a) ELSE {a}

Owner == [r \in Recipient |-> FormsOf(Key[r])]

\* Those it may answer with when it is asked about the recipient's candidates.
Reached == [r \in Recipient |-> UNION {FormsOf(a) : a \in Tried[r]}]

\* The JID that is made of a recipient without asking: from the number as it
\* was written, or the JID itself.
LocalJid == [r \in Recipient |-> IF r \in Number THEN JIDDigits(r) ELSE r]

\* ResolveDest, for fake calls and the resolve endpoint: without asking.
ResolveDest(n) == JIDDigits(n)

CacheKey == {Key[r] : r \in Recipient}

\* Sets of accounts there may be: one for an owner, under one of his forms.
Accounts ==
    LET Owners == {Owner[r] : r \in Number \cup UserJid}
    IN  {A \in SUBSET UNION Owners : \A F \in Owners : Cardinality(A \cap F) <= 1}

Init ==
    /\ proc = "down" /\ crashes = 0
    /\ ctx = "live"
    /\ consumer = "idle"
    /\ pc = [m \in Message |-> "queued"]
    /\ to = [m \in Message |-> None]
    /\ try = [m \in Message |-> 1]
    /\ lastErr = [m \in Message |-> FALSE]
    /\ jid = [m \in Message |-> None]
    /\ pnCache = [k \in CacheKey |-> None]
    /\ accounts \in Accounts
    /\ moves = 0
    /\ sends = [m \in Message |-> 0]
    /\ statuses = {}
    /\ denied = [m \in Message |-> {}]
    /\ answered = {}

-----------------------------------------------------------------------------
(* Process and consumer.                                                   *)

MessageFrame ==
    UNCHANGED <<to, askVars, destVars, accountVars, sends, statuses>>

Boot ==
    /\ proc = "down"
    /\ proc' = "up" /\ ctx' = "live" /\ consumer' = "idle"
    /\ MessageFrame /\ UNCHANGED <<crashes, pc>>

Delivered == {"buffered"} \cup Sending

LocalsGo ==
    /\ try' = [m \in Message |-> 1]
    /\ lastErr' = [m \in Message |-> FALSE]
    /\ denied' = [m \in Message |-> IF pc[m] \in Delivered THEN {}
                                    ELSE denied[m]]
    /\ jid' = [m \in Message |-> IF pc[m] \in Delivered THEN None ELSE jid[m]]

\* Mutant of Die: deliveries not finished go back to the queue.
DieRequeued ==
    /\ proc = "up" /\ crashes < MaxCrashes
    /\ proc' = "down" /\ crashes' = crashes + 1
    /\ consumer' = "stopped"
    /\ pc' = [m \in Message |-> IF pc[m] \in Delivered
                                THEN "queued" ELSE pc[m]]
    /\ LocalsGo
    /\ pnCache' = [k \in CacheKey |-> None]
    /\ UNCHANGED <<ctx, to, answered, accountVars, sends, statuses>>

\* The process dies, with its goroutines, their variables and the cache: the
\* broker took every message it had delivered for acknowledged (auto-ack), and
\* waits for nobody's Send.
Die ==
    /\ proc = "up" /\ crashes < MaxCrashes
    /\ proc' = "down" /\ crashes' = crashes + 1
    /\ consumer' = "stopped"
    /\ pc' = [m \in Message |-> IF pc[m] \in Delivered THEN "lost" ELSE pc[m]]
    /\ LocalsGo
    /\ pnCache' = [k \in CacheKey |-> None]
    /\ UNCHANGED <<ctx, to, answered, accountVars, sends, statuses>>

\* Killed, a fatal error, or main returning after a signal.
Crash == Die

\* A termination signal: main cancels the context.
Signal ==
    /\ proc = "up" /\ ctx = "live"
    /\ ctx' = "cancelled"
    /\ MessageFrame /\ UNCHANGED <<proc, crashes, consumer, pc>>

ConsumerStep(from, then) ==
    /\ proc = "up" /\ consumer = from
    /\ consumer' = then
    /\ MessageFrame /\ UNCHANGED <<proc, crashes, ctx>>

\* Dial, channel, exchange, queue, binding and subscription.
Subscribe == ConsumerStep("idle", "consuming") /\ UNCHANGED pc

\* One of them fails: Start returns, the connection stays.
SubscribeError == ConsumerStep("idle", "stopped") /\ UNCHANGED pc

\* The connection or the channel goes: the deliveries the library had not
\* handed over are dropped and its channel of deliveries is closed.
DeliveriesClosed ==
    /\ ConsumerStep("consuming", "closed")
    /\ pc' = [m \in Message |-> IF pc[m] = "buffered" THEN "lost" ELSE pc[m]]

\* Start sees the closed channel and returns an error; main logs it.
ConsumerStopped == ConsumerStep("closed", "stopped") /\ UNCHANGED pc

\* Start sees ctx.Done and closes channel and connection.
ConsumerCancelled ==
    /\ ctx = "cancelled"
    /\ \E from \in {"consuming", "closed"} : ConsumerStep(from, "stopped")
    /\ pc' = [m \in Message |-> IF pc[m] = "buffered" THEN "lost" ELSE pc[m]]

\* The broker delivers, which with auto-ack is final.
Push(m) ==
    /\ proc = "up" /\ consumer = "consuming"
    /\ pc[m] = "queued"
    /\ pc' = [pc EXCEPT ![m] = "buffered"]
    /\ MessageFrame /\ UNCHANGED procVars

\* Start takes a delivery: statuses and webhooks are skipped, what cannot be
\* decoded is dropped, any other gets a goroutine.
Take(m) ==
    /\ proc = "up" /\ consumer = "consuming"
    /\ pc[m] = "buffered"
    /\ \/ pc' = [pc EXCEPT ![m] = "skipped"] /\ UNCHANGED to
       \/ /\ pc' = [pc EXCEPT ![m] = "session"]
          /\ \E r \in Recipient : to' = [to EXCEPT ![m] = r]
    /\ UNCHANGED <<procVars, askVars, destVars, accountVars, sends, statuses>>

\* A number is registered with WhatsApp, leaves it or changes its form.
AccountsMove ==
    /\ moves < MaxMoves
    /\ moves' = moves + 1
    /\ accounts' \in Accounts \ {accounts}
    /\ UNCHANGED <<procVars, pc, to, askVars, destVars, sends, statuses>>

-----------------------------------------------------------------------------
(* Send(m): the recipient.                                                 *)

At(m, labels) == proc = "up" /\ pc[m] \in labels
Goto(m, label) == pc' = [pc EXCEPT ![m] = label]
SendFrame == UNCHANGED <<procVars, to, accountVars, sends, statuses>>

\* No session id, or no client registered: an error nobody hears of.
SessionError(m) ==
    /\ At(m, {"session"}) /\ Goto(m, "error")
    /\ SendFrame /\ UNCHANGED <<askVars, destVars>>

\* Groups, broadcast lists and LIDs are not checked.
GetClient(m) ==
    /\ At(m, {"session"})
    /\ Goto(m, IF CheckUserExists /\ to[m] \notin Jid
               THEN "check" ELSE "resolve")
    /\ SendFrame /\ UNCHANGED <<askVars, destVars>>

\* checkUserExistsOnWhatsApp and resolvePNtoJID begin with the cache.
CacheHit(m) ==
    /\ At(m, {"check", "resolve"})
    /\ pnCache[Key[to[m]]] # None
    /\ jid' = [jid EXCEPT ![m] = pnCache[Key[to[m]]]]
    /\ Goto(m, "prepare")
    /\ SendFrame /\ UNCHANGED <<askVars, pnCache, answered>>

CacheMiss(m) ==
    /\ At(m, {"check", "resolve"})
    /\ pnCache[Key[to[m]]] = None
    /\ Goto(m, IF pc[m] = "check" THEN "check.ask" ELSE "resolve.ask")
    /\ SendFrame /\ UNCHANGED <<askVars, destVars>>

CacheExpires(k) ==
    /\ pnCache[k] # None
    /\ pnCache' = [pnCache EXCEPT ![k] = None]
    /\ UNCHANGED <<procVars, pc, to, askVars, jid, answered, accountVars, sends,
                   statuses>>

\* A look-up returns: its variables go.
Return(m, label) ==
    /\ Goto(m, label)
    /\ try' = [try EXCEPT ![m] = 1]
    /\ lastErr' = [lastErr EXCEPT ![m] = FALSE]
    /\ denied' = [denied EXCEPT ![m] = {}]

CandidateLeft(m) == At(m, Ask) /\ try[m] <= Len(Candidates[to[m]])
Candidate(m) == Candidates[to[m]][try[m]]

\* Mutant of AskFails: the failure is not remembered.
AskFailsForgotten(m) ==
    /\ CandidateLeft(m)
    /\ try' = [try EXCEPT ![m] = @ + 1]
    /\ SendFrame /\ UNCHANGED <<pc, lastErr, denied, destVars>>

\* Mutant of AskFails: the loop goes past the last candidate.
AskFailsPast(m) ==
    /\ At(m, Ask) /\ try[m] <= Len(Candidates[to[m]]) + 1
    /\ try' = [try EXCEPT ![m] = @ + 1]
    /\ lastErr' = [lastErr EXCEPT ![m] = TRUE]
    /\ SendFrame /\ UNCHANGED <<pc, denied, destVars>>

\* IsOnWhatsApp fails or answers nothing (resolvePNtoJID does not care).
AskFails(m) ==
    /\ CandidateLeft(m)
    /\ try' = [try EXCEPT ![m] = @ + 1]
    /\ lastErr' = [lastErr EXCEPT ![m] = TRUE]
    /\ SendFrame /\ UNCHANGED <<pc, denied, destVars>>

AskNotIn(m) ==
    /\ CandidateLeft(m) /\ Candidate(m) \notin accounts
    /\ try' = [try EXCEPT ![m] = @ + 1]
    /\ denied' = [denied EXCEPT ![m] = @ \cup {Candidate(m)}]
    /\ SendFrame /\ UNCHANGED <<pc, lastErr, destVars>>

\* The JIDs WhatsApp may answer with when it is asked about an address.
Canonical(a) == IF a \in accounts THEN {a} ELSE accounts \cap FormsOf(a)

\* Mutant of AskIn: the number that was asked about is kept, not the JID of
\* the answer.
AskInCandidate(m) ==
    /\ CandidateLeft(m)
    /\ \E a \in Canonical(Candidate(m)) : answered' = answered \cup {a}
    /\ jid' = [jid EXCEPT ![m] = Candidate(m)]
    /\ pnCache' = [pnCache EXCEPT ![Key[to[m]]] = Candidate(m)]
    /\ Return(m, "prepare") /\ SendFrame

\* The number is registered: the JID of the answer is kept and cached.
AskIn(m) ==
    /\ CandidateLeft(m)
    /\ \E a \in Canonical(Candidate(m)) :
         /\ answered' = answered \cup {a}
         /\ jid' = [jid EXCEPT ![m] = a]
         /\ pnCache' = [pnCache EXCEPT ![Key[to[m]]] = a]
    /\ Return(m, "prepare") /\ SendFrame

Asked(m, label) == At(m, {label}) /\ try[m] > Len(Candidates[to[m]])

\* Mutant of CheckFailed: the check is repeated until it succeeds.
CheckRepeated(m) ==
    /\ Asked(m, "check.ask") /\ lastErr[m]
    /\ Return(m, "check")
    /\ SendFrame /\ UNCHANGED destVars

\* The check proved nothing: resolve as if it had been disabled.
CheckFailed(m) ==
    /\ Asked(m, "check.ask") /\ lastErr[m]
    /\ Return(m, "resolve")
    /\ SendFrame /\ UNCHANGED destVars

\* Every candidate answered and none has an account: the only failure that
\* is reported.
CheckNotFound(m) ==
    /\ Asked(m, "check.ask") /\ ~lastErr[m]
    /\ statuses' = statuses \cup {<<m, "failed">>}
    /\ Goto(m, "error")
    /\ UNCHANGED <<procVars, to, askVars, destVars, accountVars, sends>>

\* Nothing found: the recipient's own digits, or JID, without asking; an
\* empty one is an error.
ResolveLocally(m) ==
    /\ Asked(m, "resolve.ask")
    /\ jid' = [jid EXCEPT ![m] = LocalJid[to[m]]]
    /\ Return(m, "prepare")
    /\ SendFrame /\ UNCHANGED <<pnCache, answered>>

RecipientError(m) ==
    /\ Asked(m, "resolve.ask") /\ Return(m, "error")
    /\ SendFrame /\ UNCHANGED destVars

-----------------------------------------------------------------------------
(* Send(m): the message.                                                   *)

ContentFrame ==
    UNCHANGED <<procVars, to, askVars, destVars, accountVars>>

\* Mentions without a context: a nil pointer, in a goroutine nobody recovers.
MentionPanic(m) == At(m, {"prepare"}) /\ Die

\* Empty or unsupported content.
ContentError(m) ==
    /\ At(m, {"prepare"}) /\ Goto(m, "error")
    /\ ContentFrame /\ UNCHANGED <<sends, statuses>>

Prepared(m) ==
    /\ At(m, {"prepare"}) /\ Goto(m, "send")
    /\ ContentFrame /\ UNCHANGED <<sends, statuses>>

\* A medium is to be downloaded, converted by ffmpeg and uploaded.
FetchMedia(m) ==
    /\ At(m, {"prepare"}) /\ Goto(m, "media")
    /\ ContentFrame /\ UNCHANGED <<sends, statuses>>

\* That fails or succeeds if it ends: neither the download nor ffmpeg has a
\* timeout.
MediaEnds(m) ==
    /\ At(m, {"media"}) /\ (Goto(m, "error") \/ Goto(m, "send"))
    /\ ContentFrame /\ UNCHANGED <<sends, statuses>>

SendAccepted(m) ==
    /\ At(m, {"send"}) /\ Goto(m, "emit")
    /\ sends' = [sends EXCEPT ![m] = @ + 1]
    /\ ContentFrame /\ UNCHANGED statuses

\* SendMessage fails, be it because the answer of a server that did accept
\* the message was lost.
SendError(m) ==
    /\ At(m, {"send"}) /\ Goto(m, "error")
    /\ \/ UNCHANGED sends
       \/ sends' = [sends EXCEPT ![m] = @ + 1]
    /\ ContentFrame /\ UNCHANGED statuses

EmitCloudSent(m) ==
    /\ At(m, {"emit"}) /\ Goto(m, "done")
    /\ statuses' = statuses \cup {<<m, "sent">>}
    /\ ContentFrame /\ UNCHANGED sends

-----------------------------------------------------------------------------
Consumer ==
    \/ Subscribe \/ SubscribeError
    \/ DeliveriesClosed \/ ConsumerStopped \/ ConsumerCancelled

Resolve(m) ==
    \/ SessionError(m) \/ GetClient(m)
    \/ CacheHit(m) \/ CacheMiss(m)
    \/ AskFails(m) \/ AskNotIn(m) \/ AskIn(m)
    \/ CheckFailed(m) \/ CheckNotFound(m)
    \/ ResolveLocally(m) \/ RecipientError(m)

SendMessage(m) ==
    \/ ContentError(m) \/ Prepared(m) \/ FetchMedia(m)
    \/ SendAccepted(m) \/ SendError(m) \/ EmitCloudSent(m)

Next ==
    \/ Boot \/ Crash \/ Signal \/ Consumer \/ AccountsMove
    \/ \E m \in Message : Push(m) \/ Take(m) \/ Resolve(m) \/ SendMessage(m)
                          \/ MediaEnds(m) \/ MentionPanic(m)
    \/ \E k \in CacheKey : CacheExpires(k)

Spec == Init /\ [][Next]_vars

\* The goroutine of a message is scheduled, and the library gives up asking
\* WhatsApp after a while. Nothing says so of media: MediaEnds owes nothing.
FairSpec == Spec /\ \A m \in Message : WF_vars(Resolve(m) \/ SendMessage(m))

-----------------------------------------------------------------------------
(* Properties.                                                             *)

\* Every variable has its type, and no loop over candidates leaves its list.
TypeOK ==
    /\ proc \in {"up", "down"}
    /\ crashes \in 0..MaxCrashes
    /\ ctx \in {"live", "cancelled"}
    /\ consumer \in {"idle", "consuming", "closed", "stopped"}
    /\ pc \in [Message -> {"queued", "buffered"} \cup Sending \cup Ended]
    /\ to \in [Message -> Recipient \cup {None}]
    /\ try \in [Message -> Nat \ {0}]
    /\ lastErr \in [Message -> BOOLEAN]
    /\ jid \in [Message -> Address \cup {None}]
    /\ pnCache \in [CacheKey -> Address \cup {None}]
    /\ accounts \in SUBSET Address
    /\ moves \in 0..MaxMoves
    /\ denied \in [Message -> SUBSET Address]
    /\ answered \in SUBSET Address
    /\ sends \in [Message -> Nat]
    /\ statuses \subseteq Message \X {"sent", "failed"}
    /\ \A m \in Message : pc[m] \in Sending => to[m] \in Recipient
    /\ \A m \in Message : pc[m] \in Ask => try[m] <= Len(Candidates[to[m]]) + 1

\* UnoAPI is told the truth: "sent" only after WhatsApp accepted the message,
\* "failed" only if WhatsApp itself denied every form of the recipient's number,
\* with the ninth digit and without, in one look-up, however errors, cache,
\* answers and accounts that come and go fell; and never both. Numbers
\* candidatesBR does not complete are excepted.
StatusTruthful ==
    \A m \in Message :
        /\ <<m, "sent">> \in statuses => sends[m] > 0
        /\ <<m, "failed">> \in statuses =>
             /\ sends[m] = 0
             /\ \/ Owner[to[m]] \subseteq denied[m]
                \/ to[m] \in Number /\ NineOfEight(Key[to[m]])

\* A message is sent at most once, over lost connections, deaths and restarts.
AtMostOnce == \A m \in Message : sends[m] <= 1

\* A message goes to a JID WhatsApp answered with when it was asked about this
\* very recipient, by the message's own goroutine or by the one that filled the
\* cache all messages to the number share, or else to what its recipient says.
\* The account may have gone since: an entry is trusted for 24 hours.
DestinationAnswered ==
    \A m \in Message : jid[m] # None =>
        jid[m] \in (answered \cap Reached[to[m]]) \cup {LocalJid[to[m]]}

\* Every message a goroutine was started for ends: sent, in error, or with the
\* process; unless it waits for a medium, for which nothing in the code ends
\* the wait.
MessagesEnd ==
    \A m \in Message :
        pc[m] \in Sending \ {"media"} ~> pc[m] \in Ended \cup {"media"}

O == INSTANCE Outbox WITH
        accepted <- {m \in Message : sends[m] > 0},
        reported <- [m \in Message |->
                       IF <<m, "sent">> \in statuses THEN "sent"
                       ELSE IF <<m, "failed">> \in statuses THEN "failed"
                       ELSE "none"],
        closed   <- {m \in Message : pc[m] \in Ended}

\* The consumer and Send implement Outbox: over deaths, restarts and lost
\* connections nothing happens to a message after its status, its error or
\* its loss.
ImplementsOutbox == O!Spec

-----------------------------------------------------------------------------
(* What comments in the code say and the code does not do                  *)

\* "try original, with 9, and without 9", and the destination of ResolveDest is
\* the one "that would be used for sending": if a message to a number is
\* reported as failed, its recipient has no account in any of these forms, nor
\* has what ResolveDest makes of it.
FailedHasNoAccount ==
    \A m \in Message : <<m, "failed">> \in statuses =>
        /\ accounts \cap Owner[to[m]] = {}
        /\ to[m] \in Number => ResolveDest(to[m]) \notin accounts

\* "The consumer blocks until the context is cancelled": once subscribed, Start
\* returns only after a signal.
ConsumerReturns ==
    consumer \in {"consuming", "closed"} /\ consumer' = "stopped"
    /\ proc' = "up" => ctx = "cancelled"
ConsumerBlocks == [][ConsumerReturns]_vars

=============================================================================
