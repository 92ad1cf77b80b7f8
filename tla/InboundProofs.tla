--------------------------- MODULE InboundProofs ----------------------------
(***************************************************************************)
(* Theorems about Inbound, for any calls, messages, people, environments   *)
(* and configurations. The settings and the jobs are separate: what a job  *)
(* does depends on a setting, what is proved of either does not.           *)
(***************************************************************************)
EXTENDS Inbound, TLAPS

ConfigType ==
    /\ proc \in {"up", "down"}
    /\ env \in Environment
    /\ uno \in UnoConfig /\ writes \in 0..MaxWrites
    /\ overrides \in Overrides
    /\ loaded \in Text \cup {Empty, None}

\* An override stands where the environment is silent; the one that turns
\* calls down came with a text, and none came before it. A process that is down
\* has none.
OverrideInv ==
    /\ \A f \in Flag : env.flag[f] # None => overrides.flag[f] = None
    /\ env.text # None => overrides.text = None
    /\ env.flag["AlwaysOnline"] # None => overrides.every = 0
    /\ env.flag["RejectCalls"] = None /\ env.text = None =>
         /\ overrides.flag["RejectCalls"] = "true" => overrides.text = loaded
         /\ overrides.flag["RejectCalls"] = None => overrides.text = None
    /\ proc = "down" => overrides = NoOverrides

ConfigInv == ConfigType /\ OverrideInv

JobType ==
    /\ lidCache \in [Person -> Person \cup {None}]
    /\ pc \in [Job -> Labels]
    /\ peer \in [Job -> Person \cup {None}]
    /\ addr \in [Job -> (Form \X Person) \cup {None}]
    /\ tries \in [Job -> Nat]
    /\ kind \in [Msg -> Channel]
    /\ own \in [Msg -> BOOLEAN]
    /\ replies \subseteq Call
    /\ webhooks \subseteq (Call \X {"text", "sent"}) \cup (Msg \X {"message"})
                          \cup ((Msg \cup {None}) \X {"deleted"})
    /\ reads \subseteq Msg
    /\ \A j \in Job : tries[j] <= Attempts(j)

\* The cache maps a LID to the phone number of the same person.
CacheInv == \A p \in Person : lidCache[p] \in {None, p}

\* An address is the person's own; jobs that have begun have one, and from
\* where an answer is sent it is a phone number.
AddressInv ==
    /\ \A j \in Job : addr[j] \in Form \X Person =>
         peer[j] \in Person /\ addr[j][2] = peer[j]
    /\ \A j \in Call \cup Msg : pc[j] # "none" => addr[j] \in Form \X Person
    /\ \A m \in Msg : pc[m] # "none" => addr[Reader(m)] \in Form \X Person
    /\ \A c \in Call :
         /\ pc[c] \in {"send", "emit.text", "emit.sent"} => addr[c][1] = "ad"
         /\ c \in replies => pc[c] \in {"emit.text", "emit.sent", "end"}
                             /\ addr[c][1] = "ad"

\* The goroutine that marks a message as read is the last to know of it.
ReaderInv ==
    \A m \in Msg :
        /\ pc[Reader(m)] # "none" => pc[m] = "end"
        /\ m \in reads => pc[m] = "end"

JobInv == JobType /\ CacheInv /\ AddressInv /\ ReaderInv

\* Where UnoAPI alone decides, the text in force is one of those noted for a
\* call whose rejection is under way.
TextInv ==
    /\ msgText \in [Call -> Text \cup {None}]
    /\ since \in [Call -> SUBSET (Text \cup {Empty, None})]
    /\ proc = "down" => \A c \in Call : pc[c] # "rejected"
    /\ env.flag["RejectCalls"] = None /\ env.text = None =>
         \A c \in Call :
             pc[c] = "rejected" => overrides.text \in since[c] \cup {None}

IInv == ConfigInv /\ JobInv /\ TextInv

-----------------------------------------------------------------------------
\* Readers are jobs of their own, one for each message.
LEMMA Readers ==
    /\ \A m \in Msg : Reader(m) \in Job
    /\ \A m, n \in Msg : Reader(m) # n
    /\ \A c \in Call, m \in Msg : Reader(m) # c /\ m # c
    /\ \A m, n \in Msg : Reader(m) = Reader(n) => m = n
    /\ Call \subseteq Job /\ Msg \subseteq Job
  BY InboundAssumption DEF Reader, Read, Job

\* No overrides are overrides.
LEMMA Nothing ==
    /\ NoOverrides \in Overrides
    /\ \A f \in Flag : NoOverrides.flag[f] = None
    /\ NoOverrides.text = None
    /\ NoOverrides.every = 0
  BY DEF NoOverrides, Overrides

\* At the start nothing is overridden, cached, answered or read.
LEMMA InitIInv == ASSUME Init PROVE IInv
<1> USE InboundAssumption
<1>1. ConfigType
  BY Nothing DEF Init, ConfigType
<1>2. OverrideInv
  BY Nothing DEF Init, OverrideInv, Flag, Truth
<1>3. \A j \in Job : Attempts(j) \in Nat
  BY DEF Attempts
<1>4. JobType
  BY <1>3 DEF Init, JobType, Labels, Channel
<1>5. CacheInv /\ AddressInv /\ ReaderInv
  BY Readers DEF Init, CacheInv, AddressInv, ReaderInv
<1>6. TextInv
  BY Readers DEF Init, TextInv
<1> QED
  BY <1>1, <1>2, <1>4, <1>5, <1>6 DEF IInv, ConfigInv, JobInv

\* Fetching a configuration overrides what the environment left open.
LEMMA LoadKeeps == ASSUME ConfigInv, LoadSessionOverrides PROVE ConfigInv'
<1> USE InboundAssumption
<1>1. \A f \in Flag : Fetched(f) \in Truth \cup {None}
  BY DEF ConfigInv, ConfigType, UnoConfig, Fetched, Truth, Flag
<1>2. \A f \in Flag : Overridden(f) \in Truth \cup {None}
  BY <1>1 DEF ConfigInv, ConfigType, Overrides, Overridden
<1>3. ConfigType'
  <2>1. OverriddenEvery \in Nat
    BY DEF ConfigInv, ConfigType, UnoConfig, Overrides, OverriddenEvery
  <2>2. overrides' \in Overrides
    BY <1>2, <2>1 DEF ConfigInv, ConfigType, LoadSessionOverrides, UnoConfig,
                      Overrides
  <2> QED
    BY <2>2 DEF ConfigInv, ConfigType, LoadSessionOverrides, Noted,
                ConfigFrame, UnoConfig
<1>4. OverrideInv'
  <2>1. \A f \in Flag : env.flag[f] # None => Overridden(f) = None
    BY DEF ConfigInv, OverrideInv, Overridden
  <2>2. env.flag["AlwaysOnline"] # None => OverriddenEvery = 0
    BY DEF ConfigInv, OverrideInv, OverriddenEvery
  <2> QED
    <3>1. env.flag["RejectCalls"] = None =>
            /\ Overridden("RejectCalls") \in Truth
            /\ Overridden("RejectCalls") = "true" <=> uno.text # Empty
      BY DEF Overridden, Fetched, Truth
    <3>2. /\ overrides'.flag = [f \in Flag |-> Overridden(f)]
          /\ overrides'.text = IF env.text = None /\ uno.text # Empty
                               THEN uno.text ELSE overrides.text
          /\ overrides'.every = OverriddenEvery
          /\ loaded' = uno.text /\ env' = env /\ proc' = "up"
      BY DEF LoadSessionOverrides, Noted, ConfigFrame
    <3>3. "RejectCalls" \in Flag /\ "AlwaysOnline" \in Flag /\ None \notin Truth
      BY DEF Flag
    <3> QED
      BY <2>1, <2>2, <3>1, <3>2, <3>3 DEF ConfigInv, OverrideInv
<1> QED
  BY <1>3, <1>4 DEF ConfigInv

\* Settings change by a fetch, or with the process; jobs only read them.
LEMMA JobsLeaveSettings ==
  ASSUME [Next]_vars
  PROVE  \/ LoadSessionOverrides \/ UnoWrites \/ Die \/ ConnectedPanic \/ Boot
         \/ UNCHANGED configVars
<1>1. ASSUME NEW j \in Job, Resolve(j) PROVE UNCHANGED configVars
  BY <1>1 DEF Resolve, LIDCached, LIDFound, LIDNotFound, LIDUnresolved,
              Resolved, ResolveFrame
<1>2. ASSUME NEW c \in Call, CallOffer(c) \/ HandleCall(c)
      PROVE  UNCHANGED configVars
  BY <1>2 DEF CallOffer, HandleCall, CallAllowed, RejectCall, NoAnswer,
              Answer, ReadText, ReplySent, ReplyError, EmitOutgoingText,
              EmitSent, StepFrame
<1>3. ASSUME NEW m \in Msg, Receive(m) \/ HandleMessage(m)
      PROVE  UNCHANGED configVars
  BY <1>3 DEF Receive, HandleMessage, Skipped, Accepted, ContentIgnored,
              EmitDeleted, EmitMessage, NotMarked, MarkRead, SendRead,
              StepFrame
<1>4. ASSUME NEW p \in Person, LIDExpires(p) PROVE UNCHANGED configVars
  BY <1>4 DEF LIDExpires
<1> QED
  BY <1>1, <1>2, <1>3, <1>4 DEF Next, vars

\* Whatever changes them keeps the environment's part out of the overrides.
LEMMA ConfigKeeps == ASSUME ConfigInv, [Next]_vars PROVE ConfigInv'
<1> USE InboundAssumption
<1>1. CASE LoadSessionOverrides
  BY <1>1, LoadKeeps
<1>2. CASE UnoWrites
  BY <1>2 DEF UnoWrites, ConfigFrame, ConfigInv, ConfigType, OverrideInv
<1>3. CASE Die \/ ConnectedPanic
  BY <1>3, Nothing DEF Die, ConnectedPanic, ConfigInv, ConfigType,
                       OverrideInv, Flag, Truth
<1>4. CASE Boot
  BY <1>4, Nothing DEF Boot, ConfigInv, ConfigType, OverrideInv, Flag, Truth
<1>5. CASE UNCHANGED configVars
  BY <1>5 DEF configVars, ConfigInv, ConfigType, OverrideInv
<1> QED
  BY <1>1, <1>2, <1>3, <1>4, <1>5, JobsLeaveSettings

-----------------------------------------------------------------------------
\* Settings, the death of the process and its start leave jobs as they are,
\* or end them.
LEMMA ProcessKeepsJobs ==
  ASSUME JobInv,
         LoadSessionOverrides \/ UnoWrites \/ Die \/ Boot \/ ConnectedPanic
  PROVE  JobInv'
<1> USE Readers DEF JobInv, JobType, CacheInv, AddressInv, ReaderInv
<1>1. CASE LoadSessionOverrides \/ UnoWrites
  BY <1>1 DEF LoadSessionOverrides, UnoWrites, ConfigFrame, jobVars, outVars,
              Attempts
<1>2. CASE Boot
  BY <1>2 DEF Boot, jobVars, outVars, Attempts
<1>3. CASE Die \/ ConnectedPanic
  <2>1. \A j \in Job : 0 <= Attempts(j)
    BY InboundAssumption DEF Attempts
  <2> QED
    BY <1>3, <2>1 DEF Die, ConnectedPanic, outVars, Labels, Attempts
<1> QED
  BY <1>1, <1>2, <1>3

\* A look-up ends with the person's own phone number, or with the address
\* the job had.
LEMMA ResolveKeepsJobs ==
  ASSUME JobInv, NEW j \in Job, Resolve(j) PROVE JobInv'
<1> USE InboundAssumption, Readers
    DEF JobInv, JobType, CacheInv, AddressInv, ReaderInv, At, Goto,
        Resolved, ResolveFrame, outVars, Labels, Form, Onward
<1>0. Attempts(j) \in Nat /\ (Attempts(j) = Attempts(j))'
  BY DEF Attempts
<1>1. addr[j] \in Form \X Person
  BY DEF Resolve, LIDCached, LIDFound, LIDNotFound, LIDUnresolved, Asking,
         Job, Read
<1>2. CASE LIDCached(j)
  <2>1. peer[j] \in Person
    BY <1>1
  <2>2. lidCache[peer[j]] = peer[j]
    BY <1>2, <2>1 DEF LIDCached
  <2> QED
    BY <1>1, <1>2, <2>1, <2>2 DEF LIDCached, Attempts
<1>3. CASE LIDFound(j)
  <2>1. JobType' /\ CacheInv'
    BY <1>1, <1>3 DEF LIDFound, Asking, Attempts
  <2>2. AddressInv' /\ ReaderInv'
    BY <1>1, <1>3 DEF LIDFound, Asking
  <2> QED
    BY <2>1, <2>2
<1>4. CASE LIDNotFound(j)
  BY <1>1, <1>4 DEF LIDNotFound, Asking, Attempts
<1>5. CASE LIDUnresolved(j)
  BY <1>1, <1>5 DEF LIDUnresolved, Attempts
<1> QED
  BY <1>2, <1>3, <1>4, <1>5 DEF Resolve

\* A call is answered at a phone number, from the labels of its handler.
LEMMA CallKeepsJobs ==
  ASSUME JobInv, NEW c \in Call, CallOffer(c) \/ HandleCall(c) PROVE JobInv'
<1> USE InboundAssumption, Readers
    DEF JobInv, JobType, CacheInv, AddressInv, ReaderInv, At, Goto,
        StepFrame, jobVars, outVars, Labels, Form, Attempts
<1>1. CASE CallOffer(c)
  BY <1>1 DEF CallOffer
<1>2. CASE CallAllowed(c) \/ NoAnswer(c) \/ ReplyError(c)
  BY <1>2 DEF CallAllowed, NoAnswer, ReadText, ReplyError
<1>3. CASE RejectCall(c)
  BY <1>3 DEF RejectCall
<1>4. CASE Answer(c)
  BY <1>4 DEF Answer, ReadText
<1>5. CASE ReplySent(c)
  BY <1>5 DEF ReplySent
<1>6. CASE EmitOutgoingText(c)
  BY <1>6 DEF EmitOutgoingText
<1>7. CASE EmitSent(c)
  BY <1>7 DEF EmitSent
<1> QED
  BY <1>1, <1>2, <1>3, <1>4, <1>5, <1>6, <1>7 DEF HandleCall

\* A message's webhook precedes its reader.
LEMMA MessageKeepsJobs ==
  ASSUME JobInv, NEW m \in Msg, Receive(m) \/ HandleMessage(m) PROVE JobInv'
<1> USE InboundAssumption, Readers
    DEF JobInv, JobType, CacheInv, AddressInv, ReaderInv, At, Goto,
        StepFrame, jobVars, outVars, Labels, Form, Attempts
<1>1. CASE Receive(m)
  <2>1. PICK k \in Channel, o \in BOOLEAN, p \in Person, form \in Form :
          /\ kind' = [kind EXCEPT ![m] = k] /\ own' = [own EXCEPT ![m] = o]
          /\ peer' = [peer EXCEPT ![m] = p, ![Reader(m)] = p]
          /\ addr' = [addr EXCEPT ![m] = <<form, p>>,
                                 ![Reader(m)] = <<form, p>>]
    BY <1>1 DEF Receive
  <2>2. /\ pc[m] = "none" /\ pc' = [pc EXCEPT ![m] = "filter"]
        /\ UNCHANGED <<lidCache, tries, replies, webhooks, reads>>
    BY <1>1 DEF Receive
  <2>3. JobType' /\ CacheInv'
    <3>1. /\ kind' \in [Msg -> Channel] /\ own' \in [Msg -> BOOLEAN]
          /\ peer' \in [Job -> Person \cup {None}]
          /\ addr' \in [Job -> (Form \X Person) \cup {None}]
      BY <2>1
    <3>2. pc' \in [Job -> Labels]
      BY <2>2
    <3>3. CacheInv'
      BY <2>2
    <3>4. /\ (lidCache \in [Person -> Person \cup {None}])'
          /\ (tries \in [Job -> Nat])'
          /\ (replies \subseteq Call)'
          /\ (webhooks \subseteq (Call \X {"text", "sent"})
                                 \cup (Msg \X {"message"})
                                 \cup ((Msg \cup {None}) \X {"deleted"}))'
          /\ (reads \subseteq Msg)'
          /\ (\A j \in Job : tries[j] <= Attempts(j))'
      BY <2>2
    <3> QED
      BY <3>1, <3>2, <3>3, <3>4
  <2>4. AddressInv'
    <3>1. /\ peer'[m] = p /\ peer'[Reader(m)] = p
          /\ addr'[m] = <<form, p>> /\ addr'[Reader(m)] = <<form, p>>
          /\ \A j \in Job : j # m /\ j # Reader(m)
               => peer'[j] = peer[j] /\ addr'[j] = addr[j]
      BY <2>1
    <3>2. \A j \in Job : j # m => pc'[j] = pc[j]
      BY <2>2
    <3>3. <<form, p>> \in Form \X Person /\ <<form, p>>[2] = p
      OBVIOUS
    <3>4. ASSUME NEW c \in Call
          PROVE  c \in Job /\ c # m /\ c # Reader(m)
      <4>1. c \in Job
        BY Readers
      <4>2. c # m
        BY Readers
      <4>3. c # Reader(m)
        BY Readers
      <4> QED
        BY <4>1, <4>2, <4>3
    <3>5. \A j \in Job : addr'[j] \in Form \X Person
                          => peer'[j] \in Person /\ addr'[j][2] = peer'[j]
      BY <3>1, <3>3
    <3>6. \A j \in Call \cup Msg :
            pc'[j] # "none" => addr'[j] \in Form \X Person
      BY <3>1, <3>2, <3>3
    <3>7. \A n \in Msg :
            pc'[n] # "none" => addr'[Reader(n)] \in Form \X Person
      BY <3>1, <3>2, <3>3
    <3>8. \A c \in Call :
            /\ pc'[c] \in {"send", "emit.text", "emit.sent"}
                 => addr'[c][1] = "ad"
            /\ c \in replies' => pc'[c] \in {"emit.text", "emit.sent", "end"}
                                 /\ addr'[c][1] = "ad"
      BY <2>2, <3>1, <3>2, <3>4
    <3> QED
      BY <3>5, <3>6, <3>7, <3>8
  <2>5. ReaderInv'
    BY <2>2
  <2> QED
    BY <2>3, <2>4, <2>5
<1>2. CASE Skipped(m) \/ ContentIgnored(m) \/ NotMarked(m)
  <2>1. \E label \in {"mark", "end"} : pc' = [pc EXCEPT ![m] = label]
    BY <1>2 DEF Skipped, ContentIgnored, NotMarked
  <2>2. /\ pc[m] \notin {"none", "end"}
        /\ UNCHANGED <<lidCache, peer, addr, tries, kind, own,
                       replies, webhooks, reads>>
    BY <1>2 DEF Skipped, ContentIgnored, NotMarked
  <2> QED
    BY <2>1, <2>2
<1>3. CASE Accepted(m)
  BY <1>3 DEF Accepted
<1>4. CASE EmitDeleted(m) \/ EmitMessage(m)
  BY <1>4 DEF EmitDeleted, EmitMessage
<1>5. CASE MarkRead(m)
  BY <1>5 DEF MarkRead, ReaderStart
<1>6. CASE SendRead(m)
  BY <1>6 DEF SendRead
<1> QED
  BY <1>1, <1>2, <1>3, <1>4, <1>5, <1>6 DEF HandleMessage

\* Every step keeps what is known of jobs.
LEMMA JobsKept == ASSUME JobInv, [Next]_vars PROVE JobInv'
<1>1. CASE UNCHANGED vars
  BY <1>1 DEF vars, jobVars, outVars, JobInv, JobType, CacheInv, AddressInv,
              ReaderInv, Attempts
<1>2. ASSUME NEW p \in Person, LIDExpires(p) PROVE JobInv'
  BY <1>2 DEF LIDExpires, jobVars, outVars, JobInv, JobType, CacheInv,
              AddressInv, ReaderInv, Attempts
<1> QED
  BY <1>1, <1>2, ProcessKeepsJobs, ResolveKeepsJobs, CallKeepsJobs,
     MessageKeepsJobs DEF Next

\* Fetches note their text, RejectCall the one in force, and what is read is
\* among those noted.
LEMMA TextKeeps ==
  ASSUME ConfigInv, JobInv, TextInv, [Next]_vars PROVE TextInv' /\ AnswerStep
<1> USE InboundAssumption, Readers DEF TextInv, AnswerStep
<1> DEFINE Quiet == /\ UNCHANGED <<proc, env, overrides, answerVars>>
                    /\ \A c \in Call :
                         pc'[c] = "rejected" => pc[c] = "rejected"
<1>0. pc \in [Job -> Labels] /\ ConfigType
  BY DEF JobInv, JobType, ConfigInv
<1>1. ASSUME Quiet PROVE TextInv' /\ AnswerStep
  BY <1>1 DEF answerVars
<1>2. CASE LoadSessionOverrides
  <2>1. /\ UNCHANGED <<proc, env, pc, msgText>>
        /\ since' = [c \in Call |-> IF pc[c] = "rejected"
                                    THEN since[c] \cup {uno.text} ELSE since[c]]
        /\ overrides'.text \in {uno.text, overrides.text}
    BY <1>2 DEF LoadSessionOverrides, Noted, ConfigFrame
  <2>2. uno.text \in Text \cup {Empty}
    BY <1>0 DEF ConfigType, UnoConfig
  <2> QED
    BY <2>1, <2>2
<1>3. CASE UnoWrites
  BY <1>1, <1>3 DEF UnoWrites, ConfigFrame
<1>4. CASE Die \/ ConnectedPanic
  BY <1>0, <1>4 DEF Die, ConnectedPanic
<1>5. CASE Boot
  BY <1>5 DEF Boot, answerVars
<1>6. ASSUME NEW c \in Call, RejectCall(c) PROVE TextInv' /\ AnswerStep
  <2>1. /\ pc' = [pc EXCEPT ![c] = "rejected"]
        /\ since' = [since EXCEPT ![c] = {loaded}]
        /\ UNCHANGED <<proc, env, overrides, msgText>>
        /\ proc = "up" /\ Get("RejectCalls") = "true"
    BY <1>6 DEF RejectCall, At, Goto, configVars
  <2>2. loaded \in Text \cup {Empty, None}
    BY <1>0 DEF ConfigType
  <2>3. env.flag["RejectCalls"] = None /\ env.text = None =>
          overrides.text \in {loaded, None}
    BY <2>1 DEF ConfigInv, OverrideInv, Get
  <2> QED
    BY <1>0, <2>1, <2>2, <2>3
<1>7. ASSUME NEW c \in Call, Answer(c) \/ NoAnswer(c)
      PROVE  TextInv' /\ AnswerStep
  <2>1. /\ pc[c] = "rejected" /\ proc = "up"
        /\ \E label \in {"resolve", "send", "end"} : Goto(c, label)
        /\ ReadText(c)
    BY <1>7 DEF Answer, NoAnswer, At
  <2>2. GetRejectMsg \in Text \cup {Empty}
    BY <1>0 DEF GetRejectMsg, ConfiguredText, ConfigType, Environment, Overrides
  <2>3. /\ msgText' = [msgText EXCEPT ![c] = IF GetRejectMsg = Empty THEN None
                                             ELSE GetRejectMsg]
        /\ since' = [since EXCEPT ![c] = {}]
        /\ UNCHANGED <<proc, env, overrides>>
    BY <2>1 DEF ReadText, configVars
  <2>4. \A d \in Call : pc'[d] = "rejected" => d # c /\ pc[d] = "rejected"
    BY <1>0, <2>1 DEF Goto
  <2>5. env.flag["RejectCalls"] = None /\ env.text = None /\ GetRejectMsg # Empty
        => GetRejectMsg \in since[c]
    BY <2>1 DEF GetRejectMsg, ConfiguredText
  <2> QED
    BY <2>1, <2>2, <2>3, <2>4, <2>5
<1>8. ASSUME NEW c \in Call,
             \/ CallOffer(c) \/ CallAllowed(c) \/ ReplySent(c) \/ ReplyError(c)
             \/ EmitOutgoingText(c) \/ EmitSent(c)
      PROVE  Quiet
  BY <1>0, <1>8 DEF CallOffer, CallAllowed, ReplySent, ReplyError,
                    EmitOutgoingText, EmitSent, StepFrame, Goto, configVars
<1>9. ASSUME NEW m \in Msg, Receive(m) \/ HandleMessage(m) PROVE Quiet
  <2>1. UNCHANGED <<proc, env, overrides, answerVars>>
    BY <1>9 DEF Receive, HandleMessage, Skipped, Accepted, ContentIgnored,
                EmitDeleted, EmitMessage, NotMarked, MarkRead, SendRead,
                StepFrame, configVars
  <2>2. \A c \in Call : pc'[c] = pc[c]
    BY <1>0, <1>9 DEF Receive, HandleMessage, Skipped, Accepted,
                ContentIgnored, EmitDeleted, EmitMessage, NotMarked, MarkRead,
                SendRead, Goto
  <2> QED
    BY <2>1, <2>2
<1>10. ASSUME NEW j \in Job, Resolve(j) PROVE Quiet
  <2>1. /\ UNCHANGED <<proc, env, overrides, answerVars>>
        /\ \/ UNCHANGED pc
           \/ pc' = [pc EXCEPT ![j] = Onward(j)]
           \/ pc' = [pc EXCEPT ![j] = "end"]
    BY <1>10 DEF Resolve, LIDCached, LIDFound, LIDNotFound, LIDUnresolved,
                 Resolved, ResolveFrame, Goto, configVars
  <2>2. Onward(j) # "rejected"
    BY DEF Onward
  <2> QED
    BY <1>0, <2>1, <2>2
<1>11. ASSUME NEW p \in Person, LIDExpires(p) PROVE Quiet
  BY <1>11 DEF LIDExpires, configVars
<1>12. CASE UNCHANGED vars
  BY <1>1, <1>12 DEF vars, configVars
<1> QED
  BY <1>1, <1>2, <1>3, <1>4, <1>5, <1>6, <1>7, <1>8, <1>9, <1>10, <1>11, <1>12
  DEF Next, HandleCall

\* The invariant of settings, jobs and texts holds in every reachable state.
THEOREM Invariance == Spec => []IInv
<1>1. IInv /\ [Next]_vars => IInv'
  BY ConfigKeeps, JobsKept, TextKeeps DEF IInv
<1> QED
  BY <1>1, InitIInv, PTL DEF Spec

\* The parts of the invariant are the type invariant.
THEOREM TypeCorrect == Spec => []TypeOK
<1>1. IInv => TypeOK
  BY DEF IInv, ConfigInv, ConfigType, JobInv, JobType, TextInv, TypeOK
<1> QED
  BY <1>1, Invariance, PTL

\* What the environment sets is never overridden, in any order of fetches,
\* deaths and starts.
THEOREM EnvironmentWins == Spec => []EnvWins
<1>1. IInv => EnvWins
  BY InboundAssumption
     DEF IInv, ConfigInv, ConfigType, OverrideInv, EnvWins, Get, GetRejectMsg,
         GetEvery, Configured, ConfiguredText, ConfiguredEvery, Environment,
         Overrides, Truth, Flag
<1> QED
  BY <1>1, Invariance, PTL

\* Where UnoAPI alone decides, a call is answered with a text it had configured
\* when the call was rejected, or has since.
THEOREM AnswersCurrent == Spec => AnswerCurrent
<1>1. IInv /\ [Next]_vars => [AnswerStep]_vars
  BY TextKeeps DEF IInv
<1> QED
  BY <1>1, Invariance, PTL DEF Spec, AnswerCurrent

\* No goroutine is led to another person's phone number by the shared cache.
THEOREM PeersAlwaysNamed == Spec => []PeersNamed
<1>1. IInv => PeersNamed
  BY DEF IInv, JobInv, JobType, AddressInv, PeersNamed
<1> QED
  BY <1>1, Invariance, PTL

\* An answer to a call never goes to a LID.
THEOREM LIDsNeverAnswered == Spec => []NoReplyToLID
<1>1. IInv => NoReplyToLID
  BY DEF IInv, JobInv, JobType, AddressInv, NoReplyToLID
<1> QED
  BY <1>1, Invariance, PTL

\* A message is marked as read after its own webhook was handed over, or where
\* it has none.
THEOREM ReadsFollowHandover == Spec => ReadAfterHandover
<1>1. IInv /\ [Next]_vars => [ReadStep]_vars
  <2> SUFFICES ASSUME IInv, Next, NEW m \in Msg, m \in reads,
                      <<m, "message">> \in webhooks'
               PROVE  <<m, "message">> \in webhooks
    BY DEF ReadStep, IInv, JobInv, JobType
  <2>1. pc[m] = "end"
    BY DEF IInv, JobInv, ReaderInv
  <2>2. CASE UNCHANGED webhooks
    BY <2>2
  <2>3. ASSUME NEW c \in Call, EmitOutgoingText(c) \/ EmitSent(c)
        PROVE  <<m, "message">> \in webhooks
    BY <2>3 DEF EmitOutgoingText, EmitSent
  <2>4. ASSUME NEW n \in Msg, EmitDeleted(n) \/ EmitMessage(n)
        PROVE  <<m, "message">> \in webhooks
    BY <2>1, <2>4 DEF EmitDeleted, EmitMessage, At
  <2>5. ASSUME NEW j \in Job, Resolve(j) PROVE UNCHANGED webhooks
    BY <2>5 DEF Resolve, LIDCached, LIDFound, LIDNotFound, LIDUnresolved,
                Resolved, ResolveFrame, outVars
  <2>6. ASSUME NEW c \in Call, CallOffer(c) \/ HandleCall(c)
        PROVE  \/ UNCHANGED webhooks
               \/ EmitOutgoingText(c) \/ EmitSent(c)
    BY <2>6 DEF CallOffer, HandleCall, CallAllowed, RejectCall, NoAnswer,
                Answer, ReadText, ReplySent, ReplyError, outVars
  <2>7. ASSUME NEW n \in Msg, Receive(n) \/ HandleMessage(n)
        PROVE  \/ UNCHANGED webhooks
               \/ EmitDeleted(n) \/ EmitMessage(n)
    BY <2>7 DEF Receive, HandleMessage, Skipped, Accepted, ContentIgnored,
                NotMarked, MarkRead, SendRead, outVars
  <2>8. CASE LoadSessionOverrides \/ UnoWrites \/ Die \/ Boot \/ ConnectedPanic
    BY <2>8 DEF LoadSessionOverrides, UnoWrites, Die, Boot, ConnectedPanic,
                ConfigFrame, outVars
  <2>9. ASSUME NEW p \in Person, LIDExpires(p) PROVE UNCHANGED webhooks
    BY <2>9 DEF LIDExpires, outVars
  <2> QED
    BY <2>2, <2>3, <2>4, <2>5, <2>6, <2>7, <2>8, <2>9 DEF Next
<1> QED
  BY <1>1, Invariance, PTL DEF Spec, ReadAfterHandover

-----------------------------------------------------------------------------
(* What UnoAPI is told.                                                    *)

\* Where a job is when it has handed over what it has to tell; a goroutine
\* that may mark a message as read works for a message received from others.
ReportInv ==
    /\ \A c \in Call :
         /\ <<c, "text">> \in webhooks =>
              c \in replies /\ pc[c] \in {"emit.sent", "end"}
         /\ <<c, "sent">> \in webhooks =>
              pc[c] = "end" /\ <<c, "text">> \in webhooks
         /\ pc[c] \in {"emit.text", "emit.sent"} => c \in replies
         /\ pc[c] = "emit.sent" => <<c, "text">> \in webhooks
    /\ \A m \in Msg :
         m \in reads \/ pc[Reader(m)] \in {"resolve", "read"} =>
              pc[m] # "none" /\ ~own[m]

\* Settings report nothing; the end of the process ends every job.
LEMMA ProcessKeepsReports ==
  ASSUME JobInv, ReportInv,
         LoadSessionOverrides \/ UnoWrites \/ Die \/ Boot \/ ConnectedPanic
  PROVE  ReportInv'
<1> USE Readers DEF JobInv, JobType, ReportInv
<1>1. CASE LoadSessionOverrides \/ UnoWrites \/ Boot
  BY <1>1 DEF LoadSessionOverrides, UnoWrites, Boot, ConfigFrame, jobVars,
              outVars
<1>2. CASE Die \/ ConnectedPanic
  BY <1>2 DEF Die, ConnectedPanic, outVars
<1> QED
  BY <1>1, <1>2

\* A look-up reports nothing, and leads where nothing has been reported yet.
LEMMA ResolveKeepsReports ==
  ASSUME JobInv, ReportInv, NEW j \in Job, Resolve(j) PROVE ReportInv'
<1> USE Readers DEF JobInv, JobType, ReportInv
<1>1. /\ pc[j] = "resolve"
      /\ \E label \in {Onward(j), "resolve", "end"} :
           pc' = [pc EXCEPT ![j] = label]
      /\ UNCHANGED <<own, replies, webhooks, reads>>
  BY DEF Resolve, LIDCached, LIDFound, LIDNotFound, LIDUnresolved, Asking,
         Resolved, ResolveFrame, At, Goto, outVars
<1>2. CASE j \in Call
  BY <1>1, <1>2 DEF Onward
<1>3. CASE j \in Msg
  BY <1>1, <1>3 DEF Onward
<1>4. ASSUME NEW m \in Msg, j = Reader(m) PROVE ReportInv'
  BY <1>1, <1>4 DEF Onward
<1> QED
  BY <1>2, <1>3, <1>4 DEF Job, Read

\* The webhooks of an answer follow it, in their order.
LEMMA CallKeepsReports ==
  ASSUME JobInv, ReportInv, NEW c \in Call, CallOffer(c) \/ HandleCall(c)
  PROVE  ReportInv'
<1> USE Readers DEF JobInv, JobType, ReportInv, At, Goto, StepFrame, jobVars,
        outVars
<1>1. CASE \/ CallOffer(c) \/ CallAllowed(c) \/ RejectCall(c) \/ NoAnswer(c)
           \/ Answer(c) \/ ReplyError(c)
  <2>1. /\ \E label \in {"offered", "end", "rejected", "resolve", "send"} :
             pc' = [pc EXCEPT ![c] = label]
        /\ pc[c] \in {"none", "offered", "rejected", "send"}
        /\ UNCHANGED <<own, replies, webhooks, reads>>
    BY <1>1 DEF CallOffer, CallAllowed, RejectCall, NoAnswer, Answer,
                ReadText, ReplyError
  <2> QED
    BY <2>1
<1>2. CASE ReplySent(c)
  BY <1>2 DEF ReplySent
<1>3. CASE EmitOutgoingText(c)
  BY <1>3 DEF EmitOutgoingText
<1>4. CASE EmitSent(c)
  BY <1>4 DEF EmitSent
<1> QED
  BY <1>1, <1>2, <1>3, <1>4 DEF HandleCall

\* Only MarkRead starts a goroutine that marks a message as read.
LEMMA MessageKeepsReports ==
  ASSUME JobInv, ReportInv, NEW m \in Msg, Receive(m) \/ HandleMessage(m)
  PROVE  ReportInv'
<1> USE Readers DEF JobInv, JobType, ReportInv, At, Goto, StepFrame, jobVars,
        outVars
<1>1. CASE Receive(m)
  <2>1. /\ pc[m] = "none" /\ pc' = [pc EXCEPT ![m] = "filter"]
        /\ \A n \in Msg \ {m} : own'[n] = own[n]
        /\ UNCHANGED <<replies, webhooks, reads>>
    BY <1>1 DEF Receive
  <2> QED
    BY <2>1
<1>2. CASE Skipped(m) \/ Accepted(m) \/ ContentIgnored(m) \/ NotMarked(m)
  <2>1. /\ \/ /\ pc[m] = "filter"
              /\ \E label \in {"mark", "resolve", "content"} :
                   pc' = [pc EXCEPT ![m] = label]
           \/ pc[m] = "content" /\ pc' = [pc EXCEPT ![m] = "mark"]
           \/ pc[m] = "mark" /\ pc' = [pc EXCEPT ![m] = "end"]
        /\ UNCHANGED <<own, replies, webhooks, reads>>
    BY <1>2 DEF Skipped, Accepted, ContentIgnored, NotMarked
  <2> QED
    BY <2>1
<1>3. CASE EmitDeleted(m) \/ EmitMessage(m)
  BY <1>3 DEF EmitDeleted, EmitMessage
<1>4. CASE MarkRead(m)
  BY <1>4 DEF MarkRead, ReaderStart
<1>5. CASE SendRead(m)
  BY <1>5 DEF SendRead
<1> QED
  BY <1>1, <1>2, <1>3, <1>4, <1>5 DEF HandleMessage

\* Answers, their webhooks and read marks: none without what it tells of,
\* whatever dies and whatever is configured.
THEOREM ReportsAlwaysTruthful == Spec => []ReportsTruthful
<1>1. Init => ReportInv
  BY Readers DEF Init, ReportInv
<1>2. ASSUME IInv, ReportInv, [Next]_vars PROVE ReportInv'
  <2>1. CASE UNCHANGED vars
    BY <1>2, <2>1 DEF vars, jobVars, outVars, ReportInv
  <2>2. ASSUME NEW p \in Person, LIDExpires(p) PROVE ReportInv'
    BY <1>2, <2>2 DEF LIDExpires, jobVars, outVars, ReportInv
  <2> QED
    BY <1>2, <2>1, <2>2, ProcessKeepsReports, ResolveKeepsReports,
       CallKeepsReports, MessageKeepsReports DEF Next, IInv
<1>3. IInv /\ ReportInv => ReportsTruthful
  BY DEF IInv, JobInv, JobType, ReportInv, ReportsTruthful
<1> QED
  BY <1>1, <1>2, <1>3, Invariance, PTL DEF Spec

-----------------------------------------------------------------------------
(* What is left of IntervalPositive, which the code does not guarantee.    *)

\* The interval a fetched configuration leaves is the manager's own where the
\* environment decides the flag: 60 seconds, or what it sets.
THEOREM IntervalFromEnvironment ==
  Spec => [](env.flag["AlwaysOnline"] # None => IntervalPositive)
<1>1. IInv => (env.flag["AlwaysOnline"] # None => IntervalPositive)
  BY InboundAssumption
     DEF IInv, ConfigInv, ConfigType, OverrideInv, IntervalPositive, Get,
         GetEvery, Configured, ConfiguredEvery, Environment, Overrides, Truth,
         Flag
<1> QED
  BY <1>1, Invariance, PTL

\* An always-online flag that came from UnoAPI came with an interval, if its
\* configurations always bring both.
EveryInv == overrides.flag["AlwaysOnline"] = "true" => overrides.every > 0

\* The ticker never panics where every configuration that turns always-online
\* on brings an interval: this is all that is missing.
THEOREM IntervalFromConfig ==
  ASSUME \A u \in Config : u.flag["AlwaysOnline"] = "true" => u.every > 0
  PROVE  Spec => []IntervalPositive
<1> DEFINE Inv == EveryInv /\ uno \in Config
<1>1. Init => Inv
  BY Nothing, InboundAssumption DEF Init, EveryInv, Truth, Flag
<1>2. ASSUME IInv, Inv, [Next]_vars PROVE Inv'
  <2>1. CASE LoadSessionOverrides
    <3>1. uno \in UnoConfig /\ overrides \in Overrides /\ uno.every \in Nat
      BY <1>2 DEF IInv, ConfigInv, ConfigType, UnoConfig
    <3>2. ASSUME Overridden("AlwaysOnline") = "true"
          PROVE  OverriddenEvery > 0
      <4>1. CASE env.flag["AlwaysOnline"] # None
        BY <1>2, <3>2, <4>1, InboundAssumption
        DEF IInv, ConfigInv, OverrideInv, Overridden, Flag, Truth
      <4>2. CASE env.flag["AlwaysOnline"] = None
        BY <1>2, <3>1, <3>2, <4>2
        DEF EveryInv, Overridden, OverriddenEvery, Fetched
      <4> QED
        BY <4>1, <4>2
    <3> QED
      BY <1>2, <2>1, <3>2
      DEF LoadSessionOverrides, ConfigFrame, EveryInv, Flag
  <2>2. CASE UnoWrites
    BY <1>2, <2>2 DEF UnoWrites, EveryInv
  <2>3. CASE Die \/ ConnectedPanic
    BY <1>2, <2>3, Nothing, InboundAssumption
    DEF Die, ConnectedPanic, EveryInv, Flag, Truth
  <2>4. CASE UNCHANGED <<uno, overrides>>
    BY <1>2, <2>4 DEF EveryInv
  <2> QED
    BY <1>2, <2>1, <2>2, <2>3, <2>4, JobsLeaveSettings DEF Boot, configVars
<1>3. IInv /\ Inv => IntervalPositive
  BY DEF IInv, ConfigInv, ConfigType, EveryInv, IntervalPositive, Get,
         GetEvery, Configured, ConfiguredEvery, Environment, Overrides, Flag
<1> QED
  BY <1>1, <1>2, <1>3, Invariance, PTL DEF Spec

=============================================================================
