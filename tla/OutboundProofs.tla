--------------------------- MODULE OutboundProofs ---------------------------
(***************************************************************************)
(* Theorems about OutboundSend, for any messages and recipients: its       *)
(* invariants, and that it implements Outbox.                              *)
(***************************************************************************)
EXTENDS OutboundSend, PhoneNumberProofs

\* What was sent and reported at each point of a message's way.
OutcomeInv ==
    \A m \in Message :
        /\ sends[m] \in {0, 1}
        /\ pc[m] \in {"queued", "buffered"} \cup (Sending \ {"emit"})
           => sends[m] = 0
        /\ pc[m] = "emit" => sends[m] = 1
        /\ <<m, "sent">> \in statuses => pc[m] = "done" /\ sends[m] = 1
        /\ <<m, "failed">> \in statuses =>
             /\ pc[m] = "error" /\ sends[m] = 0
             /\ to[m] \in Recipient
             /\ Tried[to[m]] \subseteq denied[m]

\* What a look-up has been told so far of a message's recipient, and where
\* the cache has its entries from.
AnswerInv ==
    /\ \A r \in Recipient :
         pnCache[Key[r]] # None => pnCache[Key[r]] \in answered \cap Reached[r]
    /\ \A m \in Message : pc[m] \in {"queued", "buffered"} => jid[m] = None
    /\ \A m \in Message :
         pc[m] \in {"queued", "buffered", "session", "check", "resolve"} =>
             try[m] = 1
    /\ \A m \in Message : pc[m] \in Ask /\ ~lastErr[m] =>
         \A i \in 1..(try[m] - 1) : Candidates[to[m]][i] \in denied[m]

IInv == TypeOK /\ OutcomeInv /\ AnswerInv /\ DestinationAnswered

-----------------------------------------------------------------------------
\* The candidates of a recipient are addresses, and there is at least one; it
\* is found in the cache only under a key of its own.
LEMMA RecipientFacts ==
  ASSUME NEW r \in Recipient
  PROVE  /\ r \in Address
         /\ Candidates[r] \in Seq(Address)
         /\ Len(Candidates[r]) \in Nat \ {0}
         /\ Tried[r] = {Candidates[r][i] : i \in 1..Len(Candidates[r])}
         /\ Tried[r] \subseteq Address
         /\ Key[r] \in CacheKey
         /\ LocalJid[r] \in Address
         /\ Owner[r] \subseteq Address
<1> USE OutboundAssumption
<1>0. r \in Address
  BY DEF Recipient, Address
<1>1. CASE r \in Number
  <2>1. E164(r) \in PhoneNumber
    BY <1>1 DEF E164, PhoneNumber
  <2>2. /\ CandidatesBR(E164(r)) \in Seq(PhoneNumber)
        /\ Len(CandidatesBR(E164(r))) \in 1..2
    BY <2>1, CandidatesCover
  <2>3. Candidates[r] = CandidatesBR(E164(r)) /\ Key[r] = E164(r)
    BY <1>1 DEF Candidates, Key
  <2>4. LocalJid[r] \in PhoneNumber
    BY <1>1, DigitsOfSameOwner DEF LocalJid
  <2>5. Owner[r] \subseteq PhoneNumber
    BY <1>1, <2>1, <2>3, FormsAreNumbers DEF Owner, FormsOf
  <2> QED
    BY <1>0, <2>2, <2>3, <2>4, <2>5 DEF Address, Tried, CacheKey
<1>2. CASE r \notin Number
  <2>1. Candidates[r] = <<r>> /\ Key[r] = r /\ LocalJid[r] = r
    BY <1>2 DEF Candidates, Key, LocalJid
  <2>2. Owner[r] = {r}
    BY <1>2, <2>1 DEF Owner, FormsOf, Recipient
  <2> QED
    BY <1>0, <2>1, <2>2 DEF Tried, CacheKey
<1> QED
  BY <1>1, <1>2

\* What WhatsApp may answer about a candidate it may answer about the
\* recipient.
LEMMA CandidateReaches ==
  ASSUME NEW r \in Recipient, NEW i \in 1..Len(Candidates[r])
  PROVE  /\ Candidates[r][i] \in Tried[r]
         /\ FormsOf(Candidates[r][i]) \subseteq Reached[r]
<1>1. Candidates[r][i] \in Tried[r]
  BY DEF Tried
<1>2. Reached[r] = UNION {FormsOf(a) : a \in Tried[r]}
  BY DEF Reached
<1> QED
  BY <1>1, <1>2

\* All forms of a recipient's number are tried, unless it is one candidatesBR
\* does not complete.
LEMMA OwnerTried ==
  ASSUME NEW r \in Recipient, ~(r \in Number /\ NineOfEight(Key[r]))
  PROVE  Owner[r] \subseteq Tried[r]
<1>1. CASE r \in Number
  <2>1. Key[r] \in PhoneNumber
    BY <1>1, OutboundAssumption DEF Key, E164, PhoneNumber
  <2>2. \A f \in Forms(Key[r]) : \E i \in 1..Len(CandidatesBR(Key[r])) :
          CandidatesBR(Key[r])[i] = f
    BY <1>1, <2>1, CandidatesCover
  <2> QED
    BY <1>1, <2>1, <2>2 DEF Owner, FormsOf, Tried, Candidates
<1>2. CASE r \notin Number
  BY <1>2, OutboundAssumption DEF Owner, FormsOf, Key, Tried, Candidates, Recipient
<1> QED
  BY <1>1, <1>2

\* Recipients that share a key share their candidates, and what WhatsApp may
\* answer about them.
LEMMA KeyDetermines ==
  ASSUME NEW r \in Recipient, NEW s \in Recipient, Key[r] = Key[s]
  PROVE  Reached[r] = Reached[s]
<1> USE OutboundAssumption
<1>1. \A q \in Number : E164(q) \in PhoneNumber
  BY DEF E164, PhoneNumber
<1>2. r \in Number <=> s \in Number
  BY <1>1 DEF Key, Recipient
<1>3. Candidates[r] = Candidates[s]
  BY <1>2 DEF Key, Candidates
<1> QED
  BY <1>3 DEF Tried, Reached

\* WhatsApp answers with an account of the one it was asked about.
LEMMA CanonicalAccounts ==
  ASSUME NEW a
  PROVE  Canonical(a) \subseteq accounts \cap FormsOf(a)
  BY DEF Canonical, FormsOf, Forms

\* Accounts are addresses.
LEMMA AccountsAddressed == ASSUME NEW A \in Accounts PROVE A \in SUBSET Address
<1>1. A \subseteq UNION {Owner[r] : r \in Number \cup UserJid}
  BY DEF Accounts
<1> QED
  BY <1>1, RecipientFacts DEF Recipient

\* At the start nothing has been delivered, sent, cached or reported.
LEMMA InitIInv == ASSUME Init PROVE IInv
<1> USE OutboundAssumption
<1>1. accounts \in SUBSET Address
  BY AccountsAddressed DEF Init
<1>2. \A r \in Recipient : Key[r] \in CacheKey
  BY RecipientFacts
<1> QED
  BY <1>1, <1>2
  DEF Init, IInv, TypeOK, OutcomeInv, AnswerInv, DestinationAnswered,
      Sending, Ask, Ended

\* The process, its death included, and the consumer send and report nothing;
\* they move messages that are queued, delivered or under way only.
LEMMA ProcessKeeps ==
  ASSUME IInv,
         \/ Boot \/ Crash \/ Signal \/ Consumer \/ AccountsMove
         \/ \E m \in Message : Push(m) \/ Take(m) \/ MentionPanic(m)
         \/ \E k \in CacheKey : CacheExpires(k)
  PROVE  IInv'
<1> USE OutboundAssumption
        DEF IInv, TypeOK, OutcomeInv, AnswerInv, DestinationAnswered,
            Sending, Ask, Ended, Delivered, procVars, askVars, destVars,
            accountVars, MessageFrame, ConsumerStep, LocalsGo
<1>1. CASE Boot \/ Signal
  BY <1>1 DEF Boot, Signal
<1>2. CASE Die
  <2>1. TypeOK'
    BY <1>2 DEF Die
  <2>2. OutcomeInv'
    BY <1>2 DEF Die
  <2>3. AnswerInv'
    <3>1. \A r \in Recipient : pnCache'[Key[r]] = None
      BY <1>2, RecipientFacts DEF Die
    <3> QED
      BY <1>2, <3>1 DEF Die
  <2>4. DestinationAnswered'
    BY <1>2 DEF Die
  <2> QED
    BY <2>1, <2>2, <2>3, <2>4 DEF IInv
<1>3. CASE Consumer
  <2>1. /\ MessageFrame /\ UNCHANGED <<proc, crashes, ctx>>
        /\ consumer' \in {"consuming", "closed", "stopped"}
    BY <1>3 DEF Consumer, Subscribe, SubscribeError, DeliveriesClosed,
                ConsumerStopped, ConsumerCancelled
  <2>2. \/ UNCHANGED pc
        \/ pc' = [m \in Message |->
                   IF pc[m] = "buffered" THEN "lost" ELSE pc[m]]
    BY <1>3 DEF Consumer, Subscribe, SubscribeError, DeliveriesClosed,
                ConsumerStopped, ConsumerCancelled
  <2>3. TypeOK'
    BY <2>1, <2>2
  <2>4. OutcomeInv'
    <3>1. CASE UNCHANGED pc
      BY <2>1, <3>1
    <3>2. CASE pc' = [m \in Message |->
                      IF pc[m] = "buffered" THEN "lost" ELSE pc[m]]
      BY <2>1, <3>2
    <3> QED
      BY <2>2, <3>1, <3>2
  <2>5. AnswerInv'
    BY <2>1, <2>2
  <2>6. DestinationAnswered'
    BY <2>1, <2>2
  <2> QED
    BY <2>3, <2>4, <2>5, <2>6
<1>4. ASSUME NEW m \in Message, Push(m) PROVE IInv'
  BY <1>4 DEF Push
<1>5. ASSUME NEW m \in Message, Take(m) PROVE IInv'
  <2>1. CASE pc' = [pc EXCEPT ![m] = "skipped"] /\ UNCHANGED to
    BY <1>5, <2>1 DEF Take
  <2>2. CASE /\ pc' = [pc EXCEPT ![m] = "session"]
             /\ \E r \in Recipient : to' = [to EXCEPT ![m] = r]
    <3>1. PICK r \in Recipient : to' = [to EXCEPT ![m] = r]
      BY <2>2
    <3>2. pc[m] = "buffered"
      BY <1>5 DEF Take
    <3>3. UNCHANGED <<procVars, askVars, destVars, accountVars, sends,
                      statuses>>
      BY <1>5 DEF Take
    <3>4. TypeOK'
      BY <2>2, <3>1, <3>2, <3>3
    <3>5. OutcomeInv'
      BY <2>2, <3>1, <3>2, <3>3
    <3>6. AnswerInv'
      BY <2>2, <3>1, <3>2, <3>3
    <3>7. DestinationAnswered'
      BY <2>2, <3>1, <3>2, <3>3
    <3> QED
      BY <3>4, <3>5, <3>6, <3>7
  <2> QED
    BY <1>5, <2>1, <2>2 DEF Take
<1>7. CASE AccountsMove
  <2>1. accounts' \in SUBSET Address
    BY <1>7, AccountsAddressed DEF AccountsMove
  <2> QED
    BY <1>7, <2>1 DEF AccountsMove
<1>6. ASSUME NEW k \in CacheKey, CacheExpires(k) PROVE IInv'
  <2>1. TypeOK'
    BY <1>6 DEF CacheExpires
  <2>2. OutcomeInv'
    BY <1>6 DEF CacheExpires
  <2>3. AnswerInv'
    BY <1>6 DEF CacheExpires
  <2>4. DestinationAnswered'
    BY <1>6 DEF CacheExpires
  <2> QED
    BY <2>1, <2>2, <2>3, <2>4 DEF IInv
<1> QED
  BY <1>1, <1>2, <1>3, <1>4, <1>5, <1>6, <1>7 DEF Crash, MentionPanic

\* Resolution: WhatsApp denied every candidate that is passed over without an
\* error, and what is kept or cached is its answer.
LEMMA ResolveKeeps ==
  ASSUME IInv, NEW m \in Message, Resolve(m) PROVE IInv'
<1> USE OutboundAssumption
        DEF IInv, TypeOK, OutcomeInv, AnswerInv, DestinationAnswered,
            Sending, Ask, Ended, procVars, askVars, destVars, accountVars,
            SendFrame, At, Goto, Return
<1>0. ASSUME pc[m] \in Sending
      PROVE  /\ to[m] \in Recipient
             /\ Len(Candidates[to[m]]) \in Nat \ {0}
             /\ Key[to[m]] \in CacheKey
             /\ Tried[to[m]] \subseteq Address
             /\ LocalJid[to[m]] \in Address
             /\ \A i \in 1..Len(Candidates[to[m]]) :
                  /\ Candidates[to[m]][i] \in Tried[to[m]]
                  /\ FormsOf(Candidates[to[m]][i]) \subseteq Reached[to[m]]
  BY <1>0, RecipientFacts, CandidateReaches
<1>1a. CASE SessionError(m)
  BY <1>1a DEF SessionError
<1>1b. CASE GetClient(m)
  <2>1. \E label \in {"check", "resolve"} : Goto(m, label)
    BY <1>1b DEF GetClient
  <2>2. SendFrame /\ UNCHANGED <<askVars, destVars>>
        /\ At(m, {"session"})
    BY <1>1b DEF GetClient
  <2> QED
    BY <2>1, <2>2
<1>2. CASE CacheHit(m)
  <2>1. TypeOK'
    BY <1>2, <1>0 DEF CacheHit
  <2>2. OutcomeInv'
    BY <1>2, <1>0 DEF CacheHit
  <2>3. AnswerInv'
    BY <1>2, <1>0 DEF CacheHit
  <2>4. DestinationAnswered'
    BY <1>2, <1>0 DEF CacheHit
  <2> QED
    BY <2>1, <2>2, <2>3, <2>4 DEF IInv
<1>3. CASE CacheMiss(m)
  <2>1. Goto(m, "check.ask") \/ Goto(m, "resolve.ask")
    BY <1>3 DEF CacheMiss
  <2>2. /\ At(m, {"check", "resolve"}) /\ try[m] = 1
        /\ SendFrame /\ UNCHANGED <<askVars, destVars>>
    BY <1>3 DEF CacheMiss
  <2>3. TypeOK'
    <3>1. \E label \in Ask : Goto(m, label)
      BY <2>1
    <3> QED
      BY <1>0, <2>2, <3>1
  <2>4. OutcomeInv'
    <3>1. CASE Goto(m, "check.ask")
      BY <2>2, <3>1
    <3>2. CASE Goto(m, "resolve.ask")
      BY <2>2, <3>2
    <3> QED
      BY <2>1, <3>1, <3>2
  <2>5. AnswerInv'
    <3>1. 1..(try'[m] - 1) = {}
      BY <2>2, <1>0
    <3>2. \A n \in Message \ {m} : pc'[n] = pc[n]
      BY <2>1
    <3>3. pc'[m] \in Ask
      BY <2>1
    <3> QED
      BY <2>2, <3>1, <3>2, <3>3
  <2>6. DestinationAnswered'
    BY <2>1, <2>2
  <2> QED
    BY <2>3, <2>4, <2>5, <2>6
<1>4. CASE AskFails(m)
  <2>1. TypeOK'
    BY <1>4, <1>0 DEF AskFails, CandidateLeft
  <2>2. OutcomeInv'
    BY <1>4, <1>0 DEF AskFails, CandidateLeft
  <2>3. AnswerInv'
    BY <1>4, <1>0 DEF AskFails, CandidateLeft
  <2>4. DestinationAnswered'
    BY <1>4, <1>0 DEF AskFails, CandidateLeft
  <2> QED
    BY <2>1, <2>2, <2>3, <2>4 DEF IInv
<1>5. CASE AskNotIn(m)
  <2>1. TypeOK'
    <3>0. pc[m] \in Ask /\ try[m] \in 1..Len(Candidates[to[m]])
      BY <1>5, <1>0 DEF AskNotIn, CandidateLeft
    <3>1. Candidate(m) \in Address
      BY <3>0, <1>0 DEF Candidate
    <3>2. denied' \in [Message -> SUBSET Address]
      BY <1>5, <3>0, <3>1 DEF AskNotIn
    <3> QED
      BY <1>5, <1>0, <3>2 DEF AskNotIn, CandidateLeft
  <2>2. OutcomeInv'
    BY <1>5, <1>0 DEF AskNotIn, CandidateLeft, Candidate
  <2>3. AnswerInv'
    BY <1>5, <1>0 DEF AskNotIn, CandidateLeft, Candidate
  <2>4. DestinationAnswered'
    BY <1>5, <1>0 DEF AskNotIn, CandidateLeft, Candidate
  <2> QED
    BY <2>1, <2>2, <2>3, <2>4 DEF IInv
<1>6. CASE AskIn(m)
  <2>1. PICK a \in Canonical(Candidate(m)) :
          /\ answered' = answered \cup {a}
          /\ jid' = [jid EXCEPT ![m] = a]
          /\ pnCache' = [pnCache EXCEPT ![Key[to[m]]] = a]
    BY <1>6 DEF AskIn
  <2>2. /\ pc[m] \in Ask /\ CandidateLeft(m)
        /\ Return(m, "prepare") /\ SendFrame
    BY <1>6 DEF AskIn, CandidateLeft
  <2>3. a \in Address \cap Reached[to[m]]
    <3>1. a \in accounts \cap FormsOf(Candidate(m))
      BY <2>1, CanonicalAccounts
    <3>2. FormsOf(Candidate(m)) \subseteq Reached[to[m]]
      BY <2>2, <1>0 DEF CandidateLeft, Candidate
    <3> QED
      BY <3>1, <3>2
  <2>4. \A r \in Recipient : Key[r] = Key[to[m]] => Reached[r] = Reached[to[m]]
    BY <2>2, <1>0, KeyDetermines
  <2>5. TypeOK'
    BY <2>1, <2>2, <2>3, <1>0
  <2>6. OutcomeInv'
    BY <2>1, <2>2, <1>0
  <2>7. AnswerInv'
    <3>1. \A r \in Recipient :
            pnCache'[Key[r]] # None => pnCache'[Key[r]] \in answered' \cap Reached[r]
      BY <2>1, <2>2, <2>3, <2>4, <1>0, RecipientFacts
    <3> QED
      BY <2>1, <2>2, <3>1, <1>0
  <2>8. DestinationAnswered'
    BY <2>1, <2>2, <2>3, <1>0
  <2> QED
    BY <2>5, <2>6, <2>7, <2>8 DEF IInv
<1>7. CASE CheckFailed(m)
  <2>1. /\ At(m, {"check.ask"}) /\ Return(m, "resolve")
        /\ SendFrame /\ UNCHANGED destVars
    BY <1>7 DEF CheckFailed, Asked
  <2> QED
    BY <2>1
<1>8. CASE CheckNotFound(m)
  <2>1. /\ try[m] = Len(Candidates[to[m]]) + 1
        /\ \A i \in 1..(try[m] - 1) : Candidates[to[m]][i] \in denied[m]
    <3>1. pc[m] \in Ask /\ ~lastErr[m] /\ try[m] > Len(Candidates[to[m]])
      BY <1>8 DEF CheckNotFound, Asked
    <3>2. try[m] <= Len(Candidates[to[m]]) + 1 /\ try[m] \in Nat
      BY <3>1
    <3>3. \A i \in 1..(try[m] - 1) : Candidates[to[m]][i] \in denied[m]
      BY <3>1
    <3>4. Len(Candidates[to[m]]) \in Nat
      BY <3>1, <1>0
    <3> HIDE DEF IInv, TypeOK, OutcomeInv, AnswerInv, DestinationAnswered
    <3> QED
      BY <3>1, <3>2, <3>3, <3>4
  <2>2. \A i \in 1..Len(Candidates[to[m]]) : Candidates[to[m]][i] \in denied[m]
    BY <1>0, <1>8, <2>1 DEF CheckNotFound, Asked
  <2>3. Tried[to[m]] \subseteq denied[m]
    <3>1. to[m] \in Recipient
      BY <1>0, <1>8 DEF CheckNotFound, Asked
    <3>2. Tried[to[m]] = {Candidates[to[m]][i] : i \in 1..Len(Candidates[to[m]])}
      BY <3>1, RecipientFacts
    <3> HIDE DEF IInv, TypeOK, OutcomeInv, AnswerInv, DestinationAnswered
    <3> QED
      BY <2>2, <3>2
  <2>5. TypeOK'
    BY <1>8, <1>0 DEF CheckNotFound, Asked
  <2>6. OutcomeInv'
    BY <1>8, <1>0, <2>3 DEF CheckNotFound, Asked
  <2>7. AnswerInv'
    BY <1>8, <1>0 DEF CheckNotFound, Asked
  <2>8. DestinationAnswered'
    BY <1>8, <1>0 DEF CheckNotFound, Asked
  <2> QED
    BY <2>5, <2>6, <2>7, <2>8 DEF IInv
<1>9. CASE ResolveLocally(m)
  <2>1. TypeOK'
    BY <1>9, <1>0 DEF ResolveLocally, Asked
  <2>2. OutcomeInv'
    BY <1>9, <1>0 DEF ResolveLocally, Asked
  <2>3. AnswerInv'
    BY <1>9, <1>0 DEF ResolveLocally, Asked
  <2>4. DestinationAnswered'
    BY <1>9, <1>0 DEF ResolveLocally, Asked
  <2> QED
    BY <2>1, <2>2, <2>3, <2>4 DEF IInv
<1>10. CASE RecipientError(m)
  BY <1>10 DEF RecipientError, Asked
<1> QED
  BY <1>1a, <1>1b, <1>2, <1>3, <1>4, <1>5, <1>6, <1>7, <1>8, <1>9, <1>10
  DEF Resolve

\* Sending: a message is accepted from one label only, which it leaves, and
\* is reported as sent after that.
LEMMA SendKeeps ==
  ASSUME IInv, NEW m \in Message, SendMessage(m) \/ MediaEnds(m) PROVE IInv'
<1> USE OutboundAssumption
        DEF IInv, TypeOK, OutcomeInv, AnswerInv, DestinationAnswered,
            Sending, Ask, Ended, procVars, askVars, destVars, accountVars,
            ContentFrame, At, Goto
<1>1. CASE ContentError(m) \/ Prepared(m) \/ FetchMedia(m) \/ MediaEnds(m)
  <2>1. \E label \in {"error", "media", "send"} : Goto(m, label)
    BY <1>1 DEF ContentError, Prepared, FetchMedia, MediaEnds
  <2>2. /\ At(m, {"prepare", "media"}) /\ ContentFrame
        /\ UNCHANGED <<sends, statuses>>
    BY <1>1 DEF ContentError, Prepared, FetchMedia, MediaEnds
  <2> QED
    BY <2>1, <2>2
<1>2. CASE SendAccepted(m)
  BY <1>2 DEF SendAccepted
<1>3. CASE SendError(m)
  BY <1>3 DEF SendError
<1>4. CASE EmitCloudSent(m)
  BY <1>4 DEF EmitCloudSent
<1> QED
  BY <1>1, <1>2, <1>3, <1>4 DEF SendMessage

\* Every step keeps the inductive invariant.
LEMMA NextIInv == ASSUME IInv, [Next]_vars PROVE IInv'
<1>1. CASE UNCHANGED vars
  BY <1>1 DEF vars, procVars, askVars, destVars, accountVars, IInv, TypeOK,
              OutcomeInv, AnswerInv, DestinationAnswered
<1> QED
  BY <1>1, ProcessKeeps, ResolveKeeps, SendKeeps DEF Next

\* What a message was reported and sent, and what is known of its recipient,
\* agree in every reachable state.
THEOREM Invariance == Spec => []IInv
  BY InitIInv, NextIInv, PTL DEF Spec

\* The types hold, and no loop over candidates runs past its list.
THEOREM TypeCorrect == Spec => []TypeOK
<1>1. IInv => TypeOK
  BY DEF IInv
<1> QED
  BY <1>1, Invariance, PTL

\* Statuses tell the truth: errors of the existence check are never taken for
\* WhatsApp's word that a number is unknown, and nothing is reported sent before
\* it is.
THEOREM StatusesTruthful == Spec => []StatusTruthful
<1>1. IInv => StatusTruthful
  <2> SUFFICES ASSUME OutcomeInv, AnswerInv, NEW m \in Message
               PROVE  /\ <<m, "sent">> \in statuses => sends[m] > 0
                      /\ <<m, "failed">> \in statuses =>
                           /\ sends[m] = 0
                           /\ \/ Owner[to[m]] \subseteq denied[m]
                              \/ to[m] \in Number /\ NineOfEight(Key[to[m]])
    BY DEF IInv, StatusTruthful
  <2>1. <<m, "sent">> \in statuses => sends[m] > 0
    <3>1. <<m, "sent">> \in statuses => sends[m] = 1
      BY DEF OutcomeInv
    <3> QED
      BY <3>1
  <2>2. ASSUME <<m, "failed">> \in statuses
        PROVE  to[m] \in Recipient /\ sends[m] = 0
               /\ Tried[to[m]] \subseteq denied[m]
    BY <2>2 DEF OutcomeInv
  <2>3. ASSUME to[m] \in Recipient, ~(to[m] \in Number /\ NineOfEight(Key[to[m]]))
        PROVE  Owner[to[m]] \subseteq Tried[to[m]]
    BY <2>3, OwnerTried
  <2> QED
    BY <2>1, <2>2, <2>3
<1> QED
  BY <1>1, Invariance, PTL

\* With auto-ack no message is sent twice, whatever dies.
THEOREM SentAtMostOnce == Spec => []AtMostOnce
<1>1. IInv => AtMostOnce
  <2> SUFFICES ASSUME OutcomeInv, NEW m \in Message PROVE sends[m] <= 1
    BY DEF IInv, AtMostOnce
  <2>1. sends[m] = 0 \/ sends[m] = 1
    BY DEF OutcomeInv
  <2> QED
    BY <2>1
<1> QED
  BY <1>1, Invariance, PTL

\* A recipient found by any goroutine, directly or through the shared cache, is
\* one WhatsApp answered with when it was asked about him.
THEOREM DestinationsAnswered == Spec => []DestinationAnswered
<1>1. IInv => DestinationAnswered
  BY DEF IInv
<1> QED
  BY <1>1, Invariance, PTL

-----------------------------------------------------------------------------
(* Where messages are, and who may be told that a send failed.             *)

\* What a delivery depends on, and what a message leaves behind.
WayInv ==
    \A m \in Message :
        /\ pc[m] \in Delivered => proc = "up"
        /\ pc[m] = "buffered" => consumer = "consuming"
        /\ pc[m] = "done" => <<m, "sent">> \in statuses
        /\ pc[m] \in {"check", "check.ask"} => CheckUserExists /\ to[m] \notin Jid
        /\ <<m, "failed">> \in statuses => CheckUserExists /\ to[m] \notin Jid

\* Deaths and closed channels take what they held; Take fills in a recipient
\* of a message nothing was reported of.
LEMMA ProcessKeepsWay ==
  ASSUME IInv, WayInv,
         \/ Boot \/ Crash \/ Signal \/ Consumer \/ AccountsMove
         \/ \E m \in Message : Push(m) \/ Take(m) \/ MentionPanic(m)
         \/ \E k \in CacheKey : CacheExpires(k)
  PROVE  WayInv'
<1> USE DEF WayInv, TypeOK, Delivered, Sending, Ask, Ended, procVars,
            MessageFrame, ConsumerStep
<1>0. TypeOK /\ OutcomeInv
  BY DEF IInv
<1>1. CASE Boot \/ Signal
  BY <1>0, <1>1 DEF Boot, Signal
<1>2. CASE Die
  BY <1>0, <1>2 DEF Die
<1>3. CASE Subscribe \/ SubscribeError \/ ConsumerStopped
  BY <1>0, <1>3 DEF Subscribe, SubscribeError, ConsumerStopped
<1>4. CASE DeliveriesClosed \/ ConsumerCancelled
  <2>1. /\ pc' = [m \in Message |-> IF pc[m] = "buffered" THEN "lost"
                                    ELSE pc[m]]
        /\ UNCHANGED <<proc, to, statuses>>
    BY <1>4 DEF DeliveriesClosed, ConsumerCancelled
  <2> QED
    BY <1>0, <2>1
<1>5. ASSUME NEW m \in Message, Push(m) PROVE WayInv'
  BY <1>0, <1>5 DEF Push
<1>6. ASSUME NEW m \in Message, Take(m) PROVE WayInv'
  <2>1. /\ pc[m] = "buffered" /\ \E label \in {"skipped", "session"} :
             pc' = [pc EXCEPT ![m] = label]
        /\ \A n \in Message \ {m} : to'[n] = to[n]
        /\ UNCHANGED <<procVars, statuses>>
    BY <1>0, <1>6 DEF Take
  <2>2. <<m, "failed">> \notin statuses
    BY <1>0, <2>1 DEF OutcomeInv
  <2> QED
    BY <1>0, <2>1, <2>2
<1>7. ASSUME NEW k \in CacheKey, CacheExpires(k) PROVE WayInv'
  BY <1>0, <1>7 DEF CacheExpires
<1>8. CASE AccountsMove
  BY <1>0, <1>8 DEF AccountsMove
<1> QED
  BY <1>1, <1>2, <1>3, <1>4, <1>5, <1>6, <1>7, <1>8
  DEF Crash, MentionPanic, Consumer

\* Only GetClient enters the check, and only the check reports a failure.
LEMMA SendKeepsWay ==
  ASSUME IInv, WayInv, NEW m \in Message,
         Resolve(m) \/ SendMessage(m) \/ MediaEnds(m)
  PROVE  WayInv'
<1> USE DEF WayInv, TypeOK, Delivered, Sending, Ask, Ended, procVars,
            SendFrame, ContentFrame, At, Goto, Return
<1>0. TypeOK
  BY DEF IInv
<1>1. CASE CheckNotFound(m)
  BY <1>0, <1>1 DEF CheckNotFound, Asked
<1>2. CASE EmitCloudSent(m)
  BY <1>0, <1>2 DEF EmitCloudSent
<1>3. CASE GetClient(m)
  BY <1>0, <1>3 DEF GetClient
<1>4. CASE CacheMiss(m)
  BY <1>0, <1>4 DEF CacheMiss
<1>5. CASE AskFails(m) \/ AskNotIn(m)
  BY <1>0, <1>5 DEF AskFails, AskNotIn
<1>6. CASE \/ SessionError(m) \/ CacheHit(m) \/ AskIn(m) \/ CheckFailed(m)
           \/ ResolveLocally(m) \/ RecipientError(m) \/ ContentError(m)
           \/ Prepared(m) \/ FetchMedia(m) \/ MediaEnds(m)
           \/ SendAccepted(m) \/ SendError(m)
  <2>1. /\ \E label \in {"error", "prepare", "resolve", "media", "send", "emit"} :
             pc' = [pc EXCEPT ![m] = label]
        /\ proc = "up" /\ pc[m] # "buffered"
        /\ UNCHANGED <<procVars, to, statuses>>
    BY <1>6 DEF SessionError, CacheHit, AskIn, CandidateLeft, CheckFailed,
                ResolveLocally, RecipientError, Asked, ContentError,
                Prepared, FetchMedia, MediaEnds, SendAccepted, SendError
  <2> QED
    BY <1>0, <2>1
<1> QED
  BY <1>1, <1>2, <1>3, <1>4, <1>5, <1>6 DEF Resolve, SendMessage

THEOREM WayInvariance == Spec => []WayInv
<1>1. Init => WayInv
  BY DEF Init, WayInv, Delivered, Sending, Ask
<1>2. ASSUME IInv, WayInv, [Next]_vars PROVE WayInv'
  <2>1. CASE UNCHANGED vars
    BY <1>2, <2>1 DEF vars, procVars, WayInv
  <2> QED
    BY <1>2, <2>1, ProcessKeepsWay, SendKeepsWay DEF Next
<1> QED
  BY <1>1, <1>2, Invariance, PTL DEF Spec

\* A message the broker takes for acknowledged is with a consumer that is
\* subscribed or a goroutine of a process that lives, or it has ended: no
\* loss of a connection, death or start leaves one behind with nobody.
DeliveredHeld ==
    \A m \in Message :
        pc[m] \in Delivered =>
            proc = "up" /\ (pc[m] = "buffered" => consumer = "consuming")
THEOREM NothingStranded == Spec => []DeliveredHeld
<1>1. WayInv => DeliveredHeld
  BY DEF WayInv, DeliveredHeld
<1> QED
  BY <1>1, WayInvariance, PTL

\* Send returns without an error exactly for the messages UnoAPI is told were
\* sent; it is told that one failed only where CHECK_USER_EXISTS asks for the
\* check, and never of a message to a group, a list or a LID.
StatusesExact ==
    \A m \in Message :
        /\ pc[m] = "done" <=> <<m, "sent">> \in statuses
        /\ <<m, "failed">> \in statuses =>
             pc[m] = "error" /\ CheckUserExists /\ to[m] \notin Jid
THEOREM StatusesFit == Spec => []StatusesExact
<1>1. IInv /\ WayInv => StatusesExact
  BY DEF IInv, OutcomeInv, WayInv, StatusesExact
<1> QED
  BY <1>1, Invariance, WayInvariance, PTL

-----------------------------------------------------------------------------
\* The state of Outbox that a state of OutboundSend stands for.
Accepted == {m \in Message : sends[m] > 0}
Reported == [m \in Message |->
               IF <<m, "sent">> \in statuses THEN "sent"
               ELSE IF <<m, "failed">> \in statuses THEN "failed"
               ELSE "none"]
Closed == {m \in Message : pc[m] \in Ended}

\* Where nothing is sent or reported, messages that end without a status are
\* given up, and if there is none Outbox does not move.
LEMMA StopsOnly ==
  ASSUME NEW S \in SUBSET Message, UNCHANGED <<sends, statuses>>,
         \A m \in S : pc[m] \notin Ended /\ pc'[m] \in Ended,
         \A m \in Message \ S : pc'[m] \in Ended <=> pc[m] \in Ended
  PROVE  O!Next
<1>1. S \cap Closed = {} /\ Closed' = Closed \cup S
  BY DEF Closed
<1>2. Accepted' = Accepted /\ Reported' = Reported
  BY DEF Accepted, Reported
<1>3. O!GiveUp(S)
  BY <1>1, <1>2 DEF O!GiveUp, Accepted, Reported, Closed
<1> QED
  BY <1>3 DEF O!Next

\* A step of the process, of the consumer or of a look-up loses some messages
\* at most.
LEMMA ProcessRefines ==
  ASSUME IInv,
         \/ Boot \/ Crash \/ Signal \/ Consumer \/ AccountsMove
         \/ \E m \in Message : Push(m) \/ Take(m) \/ MentionPanic(m)
         \/ \E k \in CacheKey : CacheExpires(k)
  PROVE  O!Next
<1> DEFINE Ending == {m \in Message : pc[m] \notin Ended /\ pc'[m] \in Ended}
<1>1. UNCHANGED <<sends, statuses>>
  BY DEF Boot, Crash, Die, Signal, Consumer, Subscribe, SubscribeError,
         DeliveriesClosed, ConsumerStopped, ConsumerCancelled, Push, Take,
         MentionPanic, CacheExpires, ConsumerStep, MessageFrame, AccountsMove
<1>2. \A m \in Message : pc[m] \in Ended => pc'[m] \in Ended
  BY DEF IInv, TypeOK, Boot, Crash, Die, Signal, Consumer, Subscribe,
         SubscribeError, DeliveriesClosed, ConsumerStopped, ConsumerCancelled,
         Push, Take, MentionPanic, CacheExpires, ConsumerStep, AccountsMove,
         Ended, Sending, Ask, Delivered
<1>3. Ending \in SUBSET Message
  OBVIOUS
<1>4. \A m \in Ending : pc[m] \notin Ended /\ pc'[m] \in Ended
  OBVIOUS
<1>5. \A m \in Message \ Ending : pc'[m] \in Ended <=> pc[m] \in Ended
  BY <1>2
<1> HIDE DEF Ending
<1> QED
  BY <1>1, <1>3, <1>4, <1>5, StopsOnly

\* A look-up ends a message in an error, or reports one that was not sent.
LEMMA ResolveRefines ==
  ASSUME IInv, NEW m \in Message, Resolve(m) PROVE O!Next
<1>0. At(m, {"session", "check", "resolve"} \cup Ask) /\ pc[m] \notin Ended
  BY DEF Resolve, SessionError, GetClient, CacheHit, CacheMiss, AskFails,
         AskNotIn, AskIn, CandidateLeft, CheckFailed, CheckNotFound,
         ResolveLocally, RecipientError, Asked, At, Ask, Ended
<1>1. CASE CheckNotFound(m)
  <2>1. m \notin Closed /\ m \notin Accepted
    <3>1. sends[m] = 0
      BY <1>0 DEF IInv, OutcomeInv, At, Sending, Ask
    <3> QED
      BY <1>0, <3>1 DEF Closed, Accepted
  <2>2. Accepted' = Accepted
    BY <1>1 DEF CheckNotFound, Accepted
  <2>3. Closed' = Closed \cup {m}
    BY <1>1 DEF CheckNotFound, Goto, Closed, Ended, IInv, TypeOK
  <2>4. <<m, "sent">> \notin statuses
    BY <1>0 DEF IInv, OutcomeInv, At, Ask
  <2>5. Reported' = [Reported EXCEPT ![m] = "failed"]
    BY <1>1, <2>4 DEF CheckNotFound, Reported
  <2>6. O!Report(m, "failed")
    BY <2>1, <2>2, <2>3, <2>5 DEF O!Report, Accepted, Reported, Closed
  <2> QED
    BY <2>6 DEF O!Next
<1>2. CASE SessionError(m) \/ RecipientError(m)
  <2>1. UNCHANGED <<sends, statuses>> /\ Goto(m, "error")
    BY <1>2 DEF SessionError, RecipientError, SendFrame, Return
  <2> QED
    BY <1>0, <2>1, StopsOnly, {m} \in SUBSET Message
    DEF Goto, IInv, TypeOK, Ended
<1>3. CASE \/ GetClient(m) \/ CacheHit(m) \/ CacheMiss(m) \/ AskFails(m)
           \/ AskNotIn(m) \/ AskIn(m) \/ CheckFailed(m) \/ ResolveLocally(m)
  <2>1. UNCHANGED <<sends, statuses>>
    BY <1>3 DEF GetClient, CacheHit, CacheMiss, AskFails, AskNotIn, AskIn,
                CheckFailed, ResolveLocally, SendFrame
  <2>2. \/ UNCHANGED pc
        \/ \E label \in {"check", "resolve", "prepare"} \cup Ask : Goto(m, label)
    BY <1>3 DEF GetClient, CacheHit, CacheMiss, AskFails, AskNotIn, AskIn,
                CheckFailed, ResolveLocally, Return, Ask
  <2>3. \A n \in Message : pc'[n] \in Ended <=> pc[n] \in Ended
    BY <1>0, <2>2 DEF Goto, IInv, TypeOK, Ended, Ask
  <2> QED
    BY <2>1, <2>3, StopsOnly, {} \in SUBSET Message
<1> QED
  BY <1>1, <1>2, <1>3 DEF Resolve

\* A message is accepted while it is open, and closed by its status or by the
\* answer that does not come.
LEMMA SendRefines ==
  ASSUME IInv, NEW m \in Message, SendMessage(m) \/ MediaEnds(m) PROVE O!Next
<1>0. At(m, {"prepare", "media", "send", "emit"}) /\ m \notin Closed
  BY DEF SendMessage, ContentError, Prepared, FetchMedia, MediaEnds,
         SendAccepted, SendError, EmitCloudSent, At, Closed, Ended
<1>1. CASE ContentError(m) \/ Prepared(m) \/ FetchMedia(m) \/ MediaEnds(m)
  <2>1. /\ UNCHANGED <<sends, statuses>>
        /\ Goto(m, "error") \/ Goto(m, "media") \/ Goto(m, "send")
    BY <1>1 DEF ContentError, Prepared, FetchMedia, MediaEnds
  <2>2. CASE Goto(m, "error")
    BY <1>0, <2>1, <2>2, StopsOnly, {m} \in SUBSET Message
    DEF Goto, IInv, TypeOK, Ended, Closed
  <2>3. CASE Goto(m, "media") \/ Goto(m, "send")
    BY <1>0, <2>1, <2>3, StopsOnly, {} \in SUBSET Message
    DEF Goto, IInv, TypeOK, Ended, Closed
  <2> QED
    BY <2>1, <2>2, <2>3
<1>2. CASE SendAccepted(m)
  <2>1. sends[m] = 0 /\ m \notin Accepted
    <3>1. sends[m] = 0
      BY <1>2 DEF SendAccepted, At, IInv, OutcomeInv, Sending, Ask
    <3> QED
      BY <3>1 DEF Accepted
  <2>2. Accepted' = Accepted \cup {m}
    BY <1>2, <2>1 DEF SendAccepted, Accepted, IInv, TypeOK
  <2>3. Reported' = Reported
    BY <1>2 DEF SendAccepted, Reported
  <2>4. Closed' = Closed
    BY <1>0, <1>2 DEF SendAccepted, Goto, Closed, Ended, IInv, TypeOK
  <2>5. O!Accept(m)
    BY <1>0, <2>1, <2>2, <2>3, <2>4
    DEF O!Accept, Accepted, Reported, Closed
  <2> QED
    BY <2>5 DEF O!Next
<1>3. CASE SendError(m)
  <2>1. Closed' = Closed \cup {m}
    BY <1>3 DEF SendError, Goto, Closed, Ended, IInv, TypeOK
  <2>2. Reported' = Reported
    BY <1>3 DEF SendError, Reported
  <2>3. Accepted' = Accepted \/ Accepted' = Accepted \cup {m}
    BY <1>3 DEF SendError, Accepted, IInv, OutcomeInv, TypeOK, At, Sending, Ask
  <2>4. O!GiveUp({m})
    BY <1>0, <2>1, <2>2, <2>3 DEF O!GiveUp, Accepted, Reported, Closed
  <2> QED
    BY <2>4, {m} \in SUBSET Message DEF O!Next
<1>4. CASE EmitCloudSent(m)
  <2>1. sends[m] = 1 /\ m \in Accepted
    <3>1. sends[m] = 1
      BY <1>4 DEF EmitCloudSent, At, IInv, OutcomeInv
    <3> QED
      BY <3>1 DEF Accepted
  <2>2. Accepted' = Accepted
    BY <1>4 DEF EmitCloudSent, Accepted
  <2>3. Closed' = Closed \cup {m}
    BY <1>4 DEF EmitCloudSent, Goto, Closed, Ended, IInv, TypeOK
  <2>4. Reported' = [Reported EXCEPT ![m] = "sent"]
    BY <1>4 DEF EmitCloudSent, Reported
  <2>5. O!Report(m, "sent")
    BY <1>0, <2>1, <2>2, <2>3, <2>4
    DEF O!Report, Accepted, Reported, Closed
  <2> QED
    BY <2>5 DEF O!Next
<1> QED
  BY <1>1, <1>2, <1>3, <1>4 DEF SendMessage

\* The consumer and Send implement Outbox: what the queue, the look-ups, the
\* cache, deaths and restarts do to a message adds nothing to what it says.
THEOREM Refinement == Spec => ImplementsOutbox
<1>1. Init => O!Init
  BY DEF Init, O!Init, Ended
<1>2. ASSUME IInv, [Next]_vars PROVE [O!Next]_O!vars
  <2>1. CASE UNCHANGED vars
    <3>1. Accepted' = Accepted /\ Reported' = Reported /\ Closed' = Closed
      BY <2>1 DEF vars, Accepted, Reported, Closed
    <3> QED
      BY <3>1 DEF O!vars, Accepted, Reported, Closed
  <2> QED
    BY <1>2, <2>1, ProcessRefines, ResolveRefines, SendRefines DEF Next
<1> QED
  BY <1>1, <1>2, Invariance, PTL DEF Spec, ImplementsOutbox, O!Spec

=============================================================================
