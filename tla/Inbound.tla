------------------------------ MODULE Inbound -------------------------------
(***************************************************************************)
(* What a session receives: calls, which are rejected and answered, and    *)
(* messages, which become webhooks and may be marked as read               *)
(* (internal/provider/events.go), under settings that come from the        *)
(* environment and, where it is silent, from UnoAPI's configuration in     *)
(* Redis, fetched again by each new connection (redis_config.go and        *)
(* client.go).                                                             *)
(*                                                                         *)
(* A job is a goroutine: the handler of a call or of a message, or the one *)
(* that marks a message as read. The library's handlers overtake each      *)
(* other when one is slow, and those of other sessions share the cache of  *)
(* LIDs, so any interleaving is allowed. An address is a person's, as a    *)
(* LID or as a phone number ("ad"). What a webhook says is left out, and   *)
(* its delivery is WebhookPublisher's.                                     *)
(***************************************************************************)
EXTENDS Naturals

CONSTANTS
    Call, Msg,      \* calls and messages the session receives
    Person,         \* who may call or write
    Text,           \* answers to calls
    Empty,          \* the empty answer
    None,           \* not set
    HandlerTries,   \* look-ups of a LID by a handler, 3 in the code
    ReaderTries,    \* look-ups of a LID by markReadEvent, 2 in the code
    Env,            \* bound: environments of the process
    Config,         \* bound: configurations UnoAPI may write
    MaxWrites       \* bound: how often it does

\* The settings that are flags, by the name of their getter.
Flag == {"RejectCalls", "AutoMarkRead", "IgnoreStatusBroadcast",
         "IgnoreNewsletters", "AlwaysOnline"}
Truth == {"true", "false"}
Reader(m) == <<"read", m>>
Read == {Reader(m) : m \in Msg}
Job == Call \cup Msg \cup Read

\* An address is a form and a person.
Form == {"lid", "ad"}

\* An environment sets some flags, the answer, and the seconds between two
\* refreshes of the presence, 0 for none or an unusable value. So does a
\* configuration, where a text both turns rejection on and is the answer.
Environment == [flag : [Flag -> Truth \cup {None}],
                text : Text \cup {Empty, None}, every : Nat]
UnoConfig == [flag : [Flag \ {"RejectCalls"} -> Truth \cup {None}],
              text : Text \cup {Empty}, every : Nat]
Overrides == [flag : [Flag -> Truth \cup {None}],
              text : Text \cup {None}, every : Nat]

ASSUME InboundAssumption ==
    /\ None \notin Truth \cup Text \cup {Empty} /\ Empty \notin Text
    /\ None \notin Form \X Person /\ None \notin Person
    /\ Call \cap Msg = {} /\ Read \cap (Call \cup Msg) = {}
    /\ Env \subseteq Environment
    /\ Config \subseteq UnoConfig
    /\ MaxWrites \in Nat
    /\ HandlerTries \in Nat /\ ReaderTries \in Nat

VARIABLES
    proc,           \* "up" or "down"
    env,            \* the environment of the process
    uno, writes,    \* UnoAPI's configuration, and how often it was written
    overrides,      \* the settings taken from it
    loaded,         \* the answer in the configuration fetched last, if any
    lidCache,       \* per LID: whose phone number was found
    pc,             \* per job: where it is
    peer, addr,     \* per job: whom it is about, and at what address
    tries,          \* per job: look-ups of the LID that failed
    kind, own,      \* per message: its channel; sent by the session itself
    msgText,        \* per call: the text of its answer, if it gets one
    since,          \* history, per call whose rejection is under way: the
                    \* answers UnoAPI had configured then or has since
    replies,        \* calls whose answer was sent
    webhooks,       \* webhooks handed over: call or message, and what it tells
    reads           \* messages marked as read

configVars == <<proc, env, uno, writes, overrides, loaded>>
outVars == <<replies, webhooks, reads>>
jobVars == <<peer, addr, tries, kind, own>>
answerVars == <<msgText, since>>
vars == <<configVars, lidCache, pc, jobVars, answerVars, outVars>>

Channel == {"chat", "broadcast", "newsletter"}
Labels == {"none", "offered", "rejected", "resolve", "send", "emit.text",
           "emit.sent", "filter", "content", "mark", "read", "end"}

NoOverrides == [flag |-> [f \in Flag |-> None], text |-> None, every |-> 0]

Init ==
    /\ proc = "up"
    /\ env \in Env
    /\ uno \in Config /\ writes = 0
    /\ overrides = NoOverrides
    /\ loaded = None
    /\ lidCache = [p \in Person |-> None]
    /\ pc = [j \in Job |-> "none"]
    /\ peer = [j \in Job |-> None]
    /\ addr = [j \in Job |-> None]
    /\ tries = [j \in Job |-> 0]
    /\ kind = [m \in Msg |-> "chat"]
    /\ own = [m \in Msg |-> FALSE]
    /\ msgText = [c \in Call |-> None]
    /\ since = [c \in Call |-> {}]
    /\ replies = {} /\ webhooks = {} /\ reads = {}

-----------------------------------------------------------------------------
(* Settings.                                                               *)

Default ==
    [f \in Flag |-> IF f \in {"AutoMarkRead", "AlwaysOnline"} THEN "false"
                    ELSE "true"]

\* NewConfig and main: what the manager is created with.
Configured(f) == IF env.flag[f] = None THEN Default[f] ELSE env.flag[f]
ConfiguredText == IF env.text = None THEN Empty ELSE env.text

\* main calls EnableAlwaysOnline, with a default of 60 seconds, only if the
\* flag is on; without it the manager's interval is zero.
ConfiguredEvery ==
    IF Configured("AlwaysOnline") = "false" THEN 0
    ELSE IF env.every > 0 THEN env.every ELSE 60

\* The getters: an override comes first.
Get(f) ==
    IF overrides.flag[f] = None THEN Configured(f) ELSE overrides.flag[f]
GetRejectMsg ==
    IF overrides.text = None THEN ConfiguredText ELSE overrides.text
GetEvery == IF overrides.every > 0 THEN overrides.every ELSE ConfiguredEvery

\* What a fetched configuration says of a flag.
Fetched(f) ==
    IF f = "RejectCalls" THEN IF uno.text = Empty THEN "false" ELSE "true"
    ELSE uno.flag[f]

Overridden(f) ==
    IF env.flag[f] # None \/ Fetched(f) = None THEN overrides.flag[f]
    ELSE Fetched(f)

\* The interval goes by the environment's flag, not by its interval.
OverriddenEvery ==
    IF env.flag["AlwaysOnline"] = None /\ uno.every > 0 THEN uno.every
    ELSE overrides.every

ConfigFrame == UNCHANGED <<proc, env, lidCache, pc, jobVars, outVars>>

\* A fetch, also for the calls whose rejection is under way.
Noted ==
    /\ loaded' = uno.text
    /\ since' = [c \in Call |-> IF pc[c] = "rejected"
                                THEN since[c] \cup {uno.text} ELSE since[c]]

\* Mutant of LoadSessionOverrides: one look at the environment for both
\* settings of calls.
LoadWithFlag ==
    /\ proc = "up"
    /\ overrides' =
         [flag |-> [f \in Flag |-> Overridden(f)],
          text |-> IF env.flag["RejectCalls"] = None /\ uno.text # Empty
                   THEN uno.text ELSE overrides.text,
          every |-> OverriddenEvery]
    /\ Noted /\ ConfigFrame /\ UNCHANGED <<uno, writes, msgText>>

\* Mutant of LoadSessionOverrides: what is overridden stays.
LoadOnce ==
    /\ proc = "up"
    /\ overrides' =
         [flag |-> [f \in Flag |-> Overridden(f)],
          text |-> IF overrides.text = None /\ env.text = None
                      /\ uno.text # Empty
                   THEN uno.text ELSE overrides.text,
          every |-> OverriddenEvery]
    /\ Noted /\ ConfigFrame /\ UNCHANGED <<uno, writes, msgText>>

\* loadSessionOverrides, in a Connect that makes a client. A fetch that fails
\* changes nothing.
LoadSessionOverrides ==
    /\ proc = "up"
    /\ overrides' =
         [flag |-> [f \in Flag |-> Overridden(f)],
          text |-> IF env.text = None /\ uno.text # Empty
                   THEN uno.text ELSE overrides.text,
          every |-> OverriddenEvery]
    /\ Noted /\ ConfigFrame /\ UNCHANGED <<uno, writes, msgText>>

\* UnoAPI saves a session's configuration.
UnoWrites ==
    /\ writes < MaxWrites
    /\ writes' = writes + 1
    /\ uno' \in Config
    /\ ConfigFrame /\ UNCHANGED <<overrides, loaded, answerVars>>

\* The process dies, and what is in its memory: overrides, cache and jobs.
Die ==
    /\ proc = "up" /\ proc' = "down"
    /\ overrides' = NoOverrides /\ loaded' = None
    /\ lidCache' = [p \in Person |-> None]
    /\ pc' = [j \in Job |-> IF pc[j] = "none" THEN "none" ELSE "end"]
    /\ tries' = [j \in Job |-> 0]
    /\ msgText' = [c \in Call |-> None] /\ since' = [c \in Call |-> {}]
    /\ UNCHANGED <<env, uno, writes, peer, addr, kind, own, outVars>>

\* maybeStartAlwaysOnline, when the session's connection comes up: a ticker
\* of no interval panics, in a goroutine nobody recovers.
ConnectedPanic ==
    /\ Get("AlwaysOnline") = "true" /\ GetEvery = 0
    /\ Die

\* It is started again, maybe in another environment.
Boot ==
    /\ proc = "down" /\ proc' = "up"
    /\ env' \in Env
    /\ UNCHANGED <<uno, writes, overrides, loaded, lidCache, pc, jobVars,
                   answerVars, outVars>>

-----------------------------------------------------------------------------
(* LIDs: resolveLIDToAD, with its cache.                                   *)

At(j, label) == proc = "up" /\ pc[j] = label
Goto(j, label) == pc' = [pc EXCEPT ![j] = label]
Attempts(j) == IF j \in Read THEN ReaderTries ELSE HandlerTries

\* Where a job goes on with the address it has.
Onward(j) == IF j \in Call THEN "send" ELSE IF j \in Msg THEN "content"
             ELSE "read"

ResolveFrame == UNCHANGED <<configVars, peer, kind, own, answerVars, outVars>>

\* A job leaves the look-up.
Resolved(j, label) ==
    /\ Goto(j, label)
    /\ tries' = [tries EXCEPT ![j] = 0]
    /\ ResolveFrame

LIDCached(j) ==
    /\ At(j, "resolve") /\ tries[j] = 0
    /\ lidCache[peer[j]] # None
    /\ addr' = [addr EXCEPT ![j] = <<"ad", lidCache[peer[j]]>>]
    /\ Resolved(j, Onward(j)) /\ UNCHANGED lidCache

Asking(j) ==
    /\ At(j, "resolve") /\ tries[j] < Attempts(j)
    /\ tries[j] = 0 => lidCache[peer[j]] = None

\* Mutant of LIDFound: the cache has one entry for all.
LIDFoundForAll(j) ==
    /\ Asking(j)
    /\ addr' = [addr EXCEPT ![j] = <<"ad", peer[j]>>]
    /\ lidCache' = [p \in Person |-> peer[j]]
    /\ Resolved(j, Onward(j))

\* The device's store knows the phone number.
LIDFound(j) ==
    /\ Asking(j)
    /\ addr' = [addr EXCEPT ![j] = <<"ad", peer[j]>>]
    /\ lidCache' = [lidCache EXCEPT ![peer[j]] = peer[j]]
    /\ Resolved(j, Onward(j))

\* Mutant of LIDNotFound: one attempt too many.
LIDNotFoundAgain(j) ==
    /\ At(j, "resolve") /\ tries[j] <= Attempts(j)
    /\ tries' = [tries EXCEPT ![j] = @ + 1]
    /\ ResolveFrame /\ UNCHANGED <<lidCache, pc, addr>>

\* The store fails or does not know it.
LIDNotFound(j) ==
    /\ Asking(j)
    /\ tries' = [tries EXCEPT ![j] = @ + 1]
    /\ ResolveFrame /\ UNCHANGED <<lidCache, pc, addr>>

\* After the last attempt a call is left without an answer; a message keeps
\* the LID.
LIDUnresolved(j) ==
    /\ At(j, "resolve") /\ tries[j] = Attempts(j)
    /\ Resolved(j, IF j \in Call THEN "end" ELSE Onward(j))
    /\ UNCHANGED <<lidCache, addr>>

\* An entry of the cache is 30 minutes old.
LIDExpires(p) ==
    /\ lidCache[p] # None
    /\ lidCache' = [lidCache EXCEPT ![p] = None]
    /\ UNCHANGED <<configVars, pc, jobVars, answerVars, outVars>>

-----------------------------------------------------------------------------
(* Calls: handleCallRejection.                                             *)

StepFrame == UNCHANGED <<configVars, lidCache, jobVars, answerVars>>

\* CallOffer or CallOfferNotice, from a person's LID or phone number.
CallOffer(c) ==
    /\ At(c, "none") /\ Goto(c, "offered")
    /\ \E p \in Person, form \in Form :
         /\ peer' = [peer EXCEPT ![c] = p]
         /\ addr' = [addr EXCEPT ![c] = <<form, p>>]
    /\ UNCHANGED <<configVars, lidCache, tries, kind, own, answerVars, outVars>>

CallAllowed(c) ==
    /\ At(c, "offered") /\ Get("RejectCalls") = "false"
    /\ Goto(c, "end")
    /\ StepFrame /\ UNCHANGED outVars

\* RejectCall is called, and succeeds or fails: the caller is answered all the
\* same, by what the settings say then.
RejectCall(c) ==
    /\ At(c, "offered") /\ Get("RejectCalls") = "true"
    /\ Goto(c, "rejected")
    /\ since' = [since EXCEPT ![c] = {loaded}]
    /\ UNCHANGED <<configVars, lidCache, jobVars, msgText, outVars>>

\* The handler reads its answer.
ReadText(c) ==
    /\ msgText' = [msgText EXCEPT ![c] = IF GetRejectMsg = Empty THEN None
                                         ELSE GetRejectMsg]
    /\ since' = [since EXCEPT ![c] = {}]
    /\ UNCHANGED <<configVars, lidCache, jobVars, outVars>>

NoAnswer(c) ==
    /\ At(c, "rejected") /\ GetRejectMsg = Empty
    /\ Goto(c, "end") /\ ReadText(c)

\* Mutant of Answer: a LID is answered as it is.
AnswerLID(c) ==
    /\ At(c, "rejected") /\ GetRejectMsg # Empty
    /\ Goto(c, "send") /\ ReadText(c)

Answer(c) ==
    /\ At(c, "rejected") /\ GetRejectMsg # Empty
    /\ Goto(c, IF addr[c][1] = "lid" THEN "resolve" ELSE "send")
    /\ ReadText(c)

ReplySent(c) ==
    /\ At(c, "send") /\ Goto(c, "emit.text")
    /\ replies' = replies \cup {c}
    /\ StepFrame /\ UNCHANGED <<webhooks, reads>>

\* Mutant of ReplyError: the failure is logged and the webhooks follow.
ReplyErrorLogged(c) ==
    /\ At(c, "send") /\ Goto(c, "emit.text")
    /\ StepFrame /\ UNCHANGED outVars

\* SendMessage fails.
ReplyError(c) ==
    /\ At(c, "send") /\ Goto(c, "end")
    /\ StepFrame /\ UNCHANGED outVars

\* Mutant of EmitOutgoingText: an error of the first webhook ends the handler.
EmitOutgoingTextOnly(c) ==
    /\ At(c, "emit.text")
    /\ \/ Goto(c, "emit.sent") /\ webhooks' = webhooks \cup {<<c, "text">>}
       \/ Goto(c, "end") /\ UNCHANGED webhooks
    /\ StepFrame /\ UNCHANGED <<replies, reads>>

\* The first webhook of an answer; whether it succeeds does not matter.
EmitOutgoingText(c) ==
    /\ At(c, "emit.text") /\ Goto(c, "emit.sent")
    /\ webhooks' = webhooks \cup {<<c, "text">>}
    /\ StepFrame /\ UNCHANGED <<replies, reads>>

EmitSent(c) ==
    /\ At(c, "emit.sent") /\ Goto(c, "end")
    /\ webhooks' = webhooks \cup {<<c, "sent">>}
    /\ StepFrame /\ UNCHANGED <<replies, reads>>

-----------------------------------------------------------------------------
(* Messages: emitCloudMessage and markReadEvent.                           *)

Receive(m) ==
    /\ At(m, "none") /\ Goto(m, "filter")
    /\ \E k \in Channel, o \in BOOLEAN, p \in Person, form \in Form :
         /\ kind' = [kind EXCEPT ![m] = k] /\ own' = [own EXCEPT ![m] = o]
         /\ peer' = [peer EXCEPT ![m] = p, ![Reader(m)] = p]
         /\ addr' = [addr EXCEPT ![m] = <<form, p>>,
                                ![Reader(m)] = <<form, p>>]
    /\ UNCHANGED <<configVars, lidCache, tries, answerVars, outVars>>

Ignored(m) ==
    \/ kind[m] = "broadcast" /\ Get("IgnoreStatusBroadcast") = "true"
    \/ kind[m] = "newsletter" /\ Get("IgnoreNewsletters") = "true"

Skipped(m) ==
    /\ At(m, "filter") /\ Ignored(m) /\ Goto(m, "mark")
    /\ StepFrame /\ UNCHANGED outVars

\* Display names need the phone number behind a LID.
Accepted(m) ==
    /\ At(m, "filter") /\ ~Ignored(m)
    /\ Goto(m, IF addr[m][1] = "lid" THEN "resolve" ELSE "content")
    /\ StepFrame /\ UNCHANGED outVars

\* Protocol messages, removed reactions, edits without a text, types that are
\* not supported: no webhook.
ContentIgnored(m) ==
    /\ At(m, "content") /\ Goto(m, "mark")
    /\ StepFrame /\ UNCHANGED outVars

\* A revocation is a status of the message it deletes, one of Msg or, None, of
\* another time.
EmitDeleted(m) ==
    /\ At(m, "content") /\ Goto(m, "mark")
    /\ \E revoked \in (Msg \ {m}) \cup {None} :
         webhooks' = webhooks \cup {<<revoked, "deleted">>}
    /\ StepFrame /\ UNCHANGED <<replies, reads>>

EmitMessage(m) ==
    /\ At(m, "content") /\ Goto(m, "mark")
    /\ webhooks' = webhooks \cup {<<m, "message">>}
    /\ StepFrame /\ UNCHANGED <<replies, reads>>

NotMarked(m) ==
    /\ At(m, "mark") /\ Get("AutoMarkRead") = "false"
    /\ Goto(m, "end")
    /\ StepFrame /\ UNCHANGED outVars

\* The goroutine starts from the addresses of the event, the chat's and the
\* sender's: one address of one person here.
ReaderStart(m) == IF own[m] THEN "end"
                  ELSE IF addr[Reader(m)][1] = "lid" THEN "resolve"
                  ELSE "read"

\* Mutant of MarkRead: the goroutine is started before the webhook.
MarkReadFirst(m) ==
    /\ \E label \in {"content", "mark"} :
         /\ At(m, label)
         /\ pc' = [pc EXCEPT ![m] = IF label = "mark" THEN "end" ELSE label,
                             ![Reader(m)] = ReaderStart(m)]
    /\ pc[Reader(m)] = "none" /\ Get("AutoMarkRead") = "true"
    /\ StepFrame /\ UNCHANGED outVars

MarkRead(m) ==
    /\ At(m, "mark") /\ Get("AutoMarkRead") = "true"
    /\ pc' = [pc EXCEPT ![m] = "end", ![Reader(m)] = ReaderStart(m)]
    /\ StepFrame /\ UNCHANGED outVars

\* After a pause, the receipt; its failure is logged.
SendRead(m) ==
    /\ At(Reader(m), "read") /\ Goto(Reader(m), "end")
    /\ \/ reads' = reads \cup {m}
       \/ UNCHANGED reads
    /\ StepFrame /\ UNCHANGED <<replies, webhooks>>

-----------------------------------------------------------------------------
Resolve(j) ==
    LIDCached(j) \/ LIDFound(j) \/ LIDNotFound(j) \/ LIDUnresolved(j)

HandleCall(c) ==
    \/ CallAllowed(c) \/ RejectCall(c) \/ NoAnswer(c) \/ Answer(c)
    \/ ReplySent(c) \/ ReplyError(c) \/ EmitOutgoingText(c) \/ EmitSent(c)

HandleMessage(m) ==
    \/ Skipped(m) \/ Accepted(m)
    \/ ContentIgnored(m) \/ EmitDeleted(m) \/ EmitMessage(m)
    \/ NotMarked(m) \/ MarkRead(m) \/ SendRead(m)

Next ==
    \/ LoadSessionOverrides \/ UnoWrites \/ Die \/ Boot \/ ConnectedPanic
    \/ \E p \in Person : LIDExpires(p)
    \/ \E j \in Job : Resolve(j)
    \/ \E c \in Call : CallOffer(c) \/ HandleCall(c)
    \/ \E m \in Msg : Receive(m) \/ HandleMessage(m)

Spec == Init /\ [][Next]_vars

\* A handler that has started is scheduled, and what it asks ends.
FairSpec == Spec /\ \A c \in Call : WF_vars(HandleCall(c))

-----------------------------------------------------------------------------
(* Properties.                                                             *)

\* Every variable has its type, and no job asks for a LID too often.
TypeOK ==
    /\ proc \in {"up", "down"}
    /\ env \in Environment
    /\ uno \in UnoConfig /\ writes \in 0..MaxWrites
    /\ overrides \in Overrides
    /\ loaded \in Text \cup {Empty, None}
    /\ lidCache \in [Person -> Person \cup {None}]
    /\ pc \in [Job -> Labels]
    /\ peer \in [Job -> Person \cup {None}]
    /\ addr \in [Job -> (Form \X Person) \cup {None}]
    /\ tries \in [Job -> Nat]
    /\ kind \in [Msg -> Channel]
    /\ own \in [Msg -> BOOLEAN]
    /\ replies \subseteq Call
    /\ msgText \in [Call -> Text \cup {None}]
    /\ since \in [Call -> SUBSET (Text \cup {Empty, None})]
    /\ webhooks \subseteq (Call \X {"text", "sent"}) \cup (Msg \X {"message"})
                          \cup ((Msg \cup {None}) \X {"deleted"})
    /\ reads \subseteq Msg
    /\ \A j \in Job : tries[j] <= Attempts(j)

\* A setting made in the environment holds whatever UnoAPI configures, in
\* whatever order configurations are fetched; an interval, only if the flag
\* is set as well.
EnvWins ==
    /\ \A f \in Flag : env.flag[f] # None => Get(f) = env.flag[f]
    /\ env.text # None => GetRejectMsg = env.text
    /\ env.flag["AlwaysOnline"] = "true" /\ env.every > 0
       => GetEvery = env.every

\* Overrides are never cleared, and whether to reject a call and what to answer
\* are read apart, with a request to WhatsApp in between. Still, where UnoAPI
\* alone decides, the answer is a text it had configured when the call was
\* rejected or that was fetched since, never an older one.
AnswerStep ==
    env.flag["RejectCalls"] = None /\ env.text = None =>
        \A c \in Call :
            msgText[c] = None /\ msgText'[c] # None => msgText'[c] \in since[c]
AnswerCurrent == [][AnswerStep]_vars

\* Addresses found through the store, or the cache every handler shares, are
\* those of the person who called or wrote.
PeersNamed == \A j \in Job : addr[j] # None => addr[j][2] = peer[j]

\* "to avoid bans": an answer never goes to a LID.
NoReplyToLID == \A c \in replies : addr[c][1] = "ad"

\* A message is marked as read after its own webhook was handed over, if it has
\* one, never before. That is the hand-over: a webhook over HTTP is posted by a
\* goroutine of its own, so it may reach UnoAPI after the receipt reaches
\* WhatsApp. And a revocation may still come.
ReadStep ==
    \A m \in reads : <<m, "message">> \in webhooks' => <<m, "message">> \in webhooks
ReadAfterHandover == [][ReadStep]_vars

\* UnoAPI is told of an answer only if it was sent, and that it was sent only
\* after its text; and the session's own messages are never marked as read.
ReportsTruthful ==
    /\ \A c \in Call :
         /\ <<c, "text">> \in webhooks => c \in replies
         /\ <<c, "sent">> \in webhooks => <<c, "text">> \in webhooks
    /\ \A m \in reads : ~own[m]

\* An answer that was sent is reported, its text and its status "sent",
\* unless the process dies in between.
RepliesReported ==
    \A c \in Call : pc[c] = "emit.text" ~>
        \/ {<<c, "text">>, <<c, "sent">>} \subseteq webhooks
        \/ proc = "down"

-----------------------------------------------------------------------------
(* What a comment in the code says and the code does not do                *)

\* "Interval must be > 0": where the presence is refreshed there is an
\* interval to refresh it at.
IntervalPositive == Get("AlwaysOnline") = "true" => GetEvery > 0

=============================================================================
