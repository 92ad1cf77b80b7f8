--------------------------- MODULE FakeCallProofs ---------------------------
(***************************************************************************)
(* Theorems about FakeCall, for any sessions, requests and calls: fake     *)
(* calls leave the manager what it is, and ring on their session's client. *)
(***************************************************************************)
EXTENDS FakeCall, SessionProofs

\* With fake calls the manager still behaves as SessionManager says: what is
\* proved of its sessions holds beside any number of calls.
THEOREM CallsKeepSessions == CallSpec => Spec
<1>1. CallInit => Init
  BY DEF CallInit
<1>2. [CallNext]_allVars => [Next]_vars
  BY DEF CallNext, allVars, Next
<1> QED
  BY <1>1, <1>2, PTL DEF CallSpec, Spec

\* No request has been received at the start.
LEMMA InitCallTypeOK == ASSUME CallInit PROVE CallTypeOK
  BY DEF CallInit, CallTypeOK, Calling, Over

\* A step of a call.
LEMMA CallKeeps ==
  ASSUME TypeOK, CallTypeOK, NEW k \in Call, ReceiveCall(k) \/ FakeCall(k),
         UNCHANGED vars
  PROVE  CallTypeOK'
<1> USE DEF CallTypeOK, Calling, Over, CallAt, CallTo
<1>1. CASE ReceiveCall(k)
  BY <1>1 DEF ReceiveCall
<1>2. CASE FindCaller(k)
  BY <1>2 DEF FindCaller, TypeOK
<1>3. CASE CheckCaller(k)
  BY <1>3 DEF CheckCaller
<1>4. CASE FindAgain(k)
  BY <1>4 DEF FindAgain
<1>5. CASE SendOffer(k)
  BY <1>5 DEF SendOffer
<1>6. CASE CallError(k)
  BY <1>6 DEF CallError
<1>7. CASE SendTerminate(k)
  BY <1>7 DEF SendTerminate
<1> QED
  BY <1>1, <1>2, <1>3, <1>4, <1>5, <1>6, <1>7 DEF FakeCall

\* The manager's steps leave calls alone, its death ends them.
LEMMA NextCallTypeOK ==
  ASSUME TypeOK, CallTypeOK, [CallNext]_allVars PROVE CallTypeOK'
<1>1. CASE UNCHANGED callVars
  BY <1>1 DEF callVars, CallTypeOK
<1>2. CASE CallsLost
  BY <1>2 DEF CallsLost, CallTypeOK, Calling, Over
<1> QED
  BY <1>1, <1>2, CallKeeps DEF CallNext, allVars

\* Calls are well typed, beside whatever the sessions do: a call past a step
\* has what that step obtained.
THEOREM CallTypeCorrect == CallSpec => []CallTypeOK
<1>1. CallSpec => []TypeOK
  BY CallsKeepSessions, TypeCorrect, PTL
<1> QED
  BY <1>1, InitCallTypeOK, NextCallTypeOK, PTL DEF CallSpec

\* The statuses of sessions settle beside any number of calls.
THEOREM CallsLetConnectingEnd == CallSpec => []ConnectingEnds
  BY CallsKeepSessions, ConnectingAlwaysEnds, PTL

\* Beside any number of calls only the phone undoes a pairing.
THEOREM CallsKeepPairings == CallSpec => PairingKept
  BY CallsKeepSessions, PairingAlwaysKept, PTL

-----------------------------------------------------------------------------
(* The client a call keeps.                                                *)

InCall == {"found", "checked", "resolved", "ringing"}

\* A client that exists stays its session's until the process dies.
LEMMA ClientsStay ==
  ASSUME IInv, Step, NEW c \in Op, link[c] # "none"
  PROVE  link'[c] # "none" /\ to'[c] = to[c]
<1>1. CASE Boot
  BY <1>1 DEF Boot, libVars
<1>2. ASSUME NEW o \in Op, Receive(o) PROVE link'[c] # "none" /\ to'[c] = to[c]
  BY <1>2 DEF Receive, libVars, IInv, TypeOK, ClientInv
<1>3. ASSUME NEW o \in Op, Operation(o)
      PROVE  link'[c] # "none" /\ to'[c] = to[c]
  BY <1>3, OperationKeeps DEF IInv
<1>4. ASSUME NEW d \in Op, Dial(d) \/ Watcher(d) \/ Network(d)
      PROVE  link'[c] # "none" /\ to'[c] = to[c]
  BY <1>4, NetworkKeeps DEF IInv
<1>5. ASSUME NEW e \in events, Handle(e)
      PROVE  link'[c] # "none" /\ to'[c] = to[c]
  BY <1>5, HandleKeeps
<1> QED
  BY <1>1, <1>2, <1>3, <1>4, <1>5 DEF Step

\* The client a call found without a lock is one Connect made for the call's
\* own session, whatever the registry holds when the call uses it.
CallerOwn ==
    \A k \in Call : phase[k] \in InCall =>
        to[caller[k]] = line[k] /\ link[caller[k]] # "none"

\* Every step of a call or of the manager keeps it.
LEMMA NextCallerOwn ==
  ASSUME IInv, CallTypeOK, CallerOwn, [CallNext]_allVars PROVE CallerOwn'
<1> USE DEF CallerOwn, InCall, CallTypeOK
<1>1. ASSUME NEW k \in Call, ReceiveCall(k) \/ FakeCall(k), UNCHANGED vars
      PROVE  CallerOwn'
  <2> UNCHANGED <<to, link>>
    BY <1>1 DEF vars, opVars, libVars
  <2>1. CASE FindCaller(k)
    BY <2>1 DEF FindCaller, CallAt, CallTo, IInv, TypeOK, ClientInv
  <2>2. CASE ~FindCaller(k)
    <3>1. /\ UNCHANGED caller
          /\ \A j \in Call : /\ phase'[j] \in InCall => phase[j] \in InCall
                             /\ phase[j] \in InCall => line'[j] = line[j]
      BY <1>1, <2>2
      DEF ReceiveCall, FakeCall, CheckCaller, FindAgain, SendOffer,
          CallError, SendTerminate, CallAt, CallTo
    <3> QED
      BY <3>1
  <2> QED
    BY <2>1, <2>2
<1>2. CASE Step /\ UNCHANGED callVars
  BY <1>2, ClientsStay DEF callVars
<1>3. CASE CallsLost
  BY <1>3 DEF CallsLost, Calling
<1>4. CASE UNCHANGED allVars
  BY <1>4 DEF allVars, callVars, vars, opVars, libVars
<1> QED
  BY <1>1, <1>2, <1>3, <1>4 DEF CallNext

\* No call uses a client of another session.
THEOREM CallersAlwaysOwn == CallSpec => []CallerOwn
<1>1. CallInit => CallerOwn
  BY DEF CallInit, CallerOwn, InCall
<1>2. CallSpec => []IInv
  BY CallsKeepSessions, Invariance, PTL
<1> QED
  BY <1>1, <1>2, CallTypeCorrect, NextCallerOwn, PTL DEF CallSpec

\* A call rings on the client its session has, or on one Disconnect found
\* before its dial, however many operations ran between its steps.
THEOREM CallsRingOnOwnClient == CallSpec => OwnClientRings
<1>1. ASSUME IInv, CallTypeOK, CallerOwn, [CallNext]_allVars
      PROVE  RingsOnOwnClient
  <2> SUFFICES ASSUME NEW k \in Call, phase[k] # "ringing",
                      phase'[k] = "ringing"
               PROVE  clients[line[k]] = caller[k] \/ told[caller[k]] = "early"
    BY DEF RingsOnOwnClient
  <2>1. SendOffer(k)
    BY <1>1
    DEF CallNext, FakeCall, ReceiveCall, FindCaller, CheckCaller, FindAgain,
        CallError, SendTerminate, CallsLost, CallAt, CallTo, allVars,
        callVars, CallTypeOK, Calling, SendOffer
  <2>2. caller[k] \in Op /\ link[caller[k]] = "up" /\ to[caller[k]] = line[k]
    BY <1>1, <2>1
    DEF SendOffer, CallAt, CallTypeOK, CallerOwn, InCall
  <2> QED
    BY <1>1, <2>2 DEF IInv, TypeOK, NoClientLost, HangupInv
<1>2. CallSpec => []IInv
  BY CallsKeepSessions, Invariance, PTL
<1> QED
  BY <1>1, <1>2, CallTypeCorrect, CallersAlwaysOwn, PTL
  DEF CallSpec, OwnClientRings

=============================================================================
