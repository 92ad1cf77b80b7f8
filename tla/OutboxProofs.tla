---------------------------- MODULE OutboxProofs -----------------------------
(***************************************************************************)
(* What follows from Outbox for any messages, and so for whatever          *)
(* implements it.                                                          *)
(***************************************************************************)
EXTENDS Outbox, TLAPS

\* The outbox's accounts: a status agrees with what WhatsApp did, and a
\* message that has one is closed.
OutboxInv ==
    /\ accepted \subseteq Message /\ closed \subseteq Message
    /\ reported \in [Message -> {"none", "sent", "failed"}]
    /\ \A m \in Message :
         /\ reported[m] = "sent" => m \in accepted
         /\ reported[m] = "failed" => m \notin accepted
         /\ reported[m] # "none" => m \in closed

\* Nothing happens to a message that is closed: it is neither accepted nor
\* reported, again or otherwise, nor opened.
ClosedStays ==
    \A m \in closed :
        /\ m \in closed'
        /\ reported'[m] = reported[m]
        /\ m \in accepted' <=> m \in accepted

\* Each step keeps the accounts and leaves closed messages alone.
LEMMA StepAccounts ==
  ASSUME OutboxInv, [Next]_vars PROVE OutboxInv' /\ ClosedStays
<1> USE DEF OutboxInv, ClosedStays
<1>1. ASSUME NEW m \in Message, Accept(m) PROVE OutboxInv' /\ ClosedStays
  BY <1>1 DEF Accept
<1>2. ASSUME NEW m \in Message, NEW s \in {"sent", "failed"}, Report(m, s)
      PROVE  OutboxInv' /\ ClosedStays
  BY <1>2 DEF Report
<1>3. ASSUME NEW S \in SUBSET Message, GiveUp(S)
      PROVE  OutboxInv' /\ ClosedStays
  BY <1>3 DEF GiveUp
<1>4. CASE UNCHANGED vars
  BY <1>4 DEF vars
<1> QED
  BY <1>1, <1>2, <1>3, <1>4 DEF Next

\* UnoAPI can trust every status it is told of, for good.
THEOREM OutboxAccounts == Spec => []OutboxInv
<1>1. Init => OutboxInv
  BY DEF Init, OutboxInv
<1> QED
  BY <1>1, StepAccounts, PTL DEF Spec

\* A message that is sent, failed or given up is never taken up again.
THEOREM ClosedIsFinal == Spec => [][ClosedStays]_vars
<1>1. OutboxInv /\ [Next]_vars => ClosedStays
  BY StepAccounts
<1> QED
  BY <1>1, OutboxAccounts, PTL DEF Spec

=============================================================================
