------------------------------ MODULE FakeCall ------------------------------
(***************************************************************************)
(* Fake calls: handleFakeCall of internal/http, ClientManager.FakeCall and *)
(* ResolveDest, composed with SessionManager, whose operations, dials and  *)
(* connections go on between any two steps of a call. A fake call takes no *)
(* lock: it reads the registry twice, keeps the client it found first, and *)
(* its timer goroutine uses that client when the ring is over, whatever    *)
(* the session's client is by then.                                        *)
(*                                                                         *)
(* SendNode is external: it delivers on a connection that is up and fails  *)
(* on any other. The HTTP answer is the end of the call's first part and   *)
(* has no state of its own.                                                *)
(***************************************************************************)
EXTENDS SessionProperties

CONSTANTS
    Call        \* requests for a fake call

VARIABLES
    phase,      \* per call: its next step, or how it ended
    line,       \* per call: its session
    caller      \* per call: the client mustHave found

callVars == <<phase, line, caller>>
allVars == <<vars, callVars>>

\* Before the phone rings; a "found" client has not been checked, a "checked"
\* one has no destination yet.
Calling == {"received", "found", "checked", "resolved"}
Over == {"refused", "ended", "unheard", "lost"}

CallInit ==
    /\ Init
    /\ phase = [k \in Call |-> "idle"]
    /\ line = [k \in Call |-> None]
    /\ caller = [k \in Call |-> None]

-----------------------------------------------------------------------------
CallAt(k, label) == proc = "up" /\ phase[k] = label
CallTo(k, label) == phase' = [phase EXCEPT ![k] = label]

\* A request with a callee reaches handleFakeCall.
ReceiveCall(k) ==
    /\ CallAt(k, "idle") /\ CallTo(k, "received")
    /\ \E s \in Session : line' = [line EXCEPT ![k] = s]
    /\ UNCHANGED caller

\* Mutant of FindCaller: a session without an entry is not turned away.
FindCallerUnchecked(k) ==
    /\ CallAt(k, "received") /\ CallTo(k, "found")
    /\ caller' = [caller EXCEPT ![k] = clients[line[k]]]
    /\ UNCHANGED line

\* mustHave: the session's entry, read without mu.
FindCaller(k) ==
    /\ CallAt(k, "received") /\ CallTo(k, "found")
    /\ clients[line[k]] # None
    /\ caller' = [caller EXCEPT ![k] = clients[line[k]]]
    /\ UNCHANGED line

\* The client found is connected and logged in.
CheckCaller(k) ==
    /\ CallAt(k, "found") /\ CallTo(k, "checked")
    /\ link[caller[k]] = "up"
    /\ UNCHANGED <<line, caller>>

\* mustHave again, in ResolveDest: the session's entry may have gone or changed
\* since, and is not used. What JID it gives is OutboundSend's ResolveDest.
FindAgain(k) ==
    /\ CallAt(k, "checked") /\ CallTo(k, "resolved")
    /\ clients[line[k]] # None
    /\ UNCHANGED <<line, caller>>

\* SendNode of the offer succeeds: the phone rings, the timer is started.
SendOffer(k) ==
    /\ CallAt(k, "resolved") /\ CallTo(k, "ringing")
    /\ link[caller[k]] = "up"
    /\ UNCHANGED <<line, caller>>

\* No entry at either look-up, no connection at the check or for the offer.
CallError(k) ==
    /\ CallTo(k, "refused")
    /\ \/ /\ CallAt(k, "received") \/ CallAt(k, "checked")
          /\ clients[line[k]] = None
       \/ /\ CallAt(k, "found") \/ CallAt(k, "resolved")
          /\ link[caller[k]] # "up"
    /\ UNCHANGED <<line, caller>>

\* Mutant of SendTerminate: it is sent under the context of the request, which
\* is over.
SendTerminateCancelled(k) ==
    /\ CallAt(k, "ringing") /\ CallTo(k, "unheard")
    /\ UNCHANGED <<line, caller>>

\* The timer fires: the client that rang sends the terminate, and if it cannot
\* the error is dropped and nobody tries again.
SendTerminate(k) ==
    /\ CallAt(k, "ringing")
    /\ CallTo(k, IF link[caller[k]] = "up" THEN "ended" ELSE "unheard")
    /\ UNCHANGED <<line, caller>>

-----------------------------------------------------------------------------
FakeCall(k) ==
    \/ FindCaller(k) \/ CheckCaller(k) \/ FindAgain(k)
    \/ SendOffer(k) \/ CallError(k) \/ SendTerminate(k)

\* The process dies with its calls and timers: a phone that rings rings on.
CallsLost ==
    /\ phase' = [k \in Call |-> IF phase[k] \in Calling \cup {"ringing"}
                                THEN "lost" ELSE phase[k]]
    /\ UNCHANGED <<line, caller>>

CallNext ==
    \/ \E k \in Call : (ReceiveCall(k) \/ FakeCall(k)) /\ UNCHANGED vars
    \/ Step /\ UNCHANGED callVars
    \/ Crash /\ CallsLost

CallSpec == CallInit /\ [][CallNext]_allVars

\* Requests are served and timers fire.
CallFairSpec ==
    /\ CallSpec /\ Fairness
    /\ \A k \in Call : WF_allVars(FakeCall(k) /\ UNCHANGED vars)

-----------------------------------------------------------------------------
(* Properties.                                                             *)

\* Every variable has its type, and a call past a step has what it obtained.
CallTypeOK ==
    /\ phase \in [Call -> {"idle", "ringing"} \cup Calling \cup Over]
    /\ line \in [Call -> Session \cup {None}]
    /\ caller \in [Call -> Op \cup {None}]
    /\ \A k \in Call :
         /\ phase[k] # "idle" => line[k] \in Session
         /\ phase[k] \in {"found", "checked", "resolved", "ringing"}
            => caller[k] \in Op

\* A phone starts to ring only on a connection of the client its session has
\* at that moment, or of one Disconnect found before its dial: not on that of
\* a client that was replaced between the two looks at the registry and the
\* offer, none of which takes mu.
RingsOnOwnClient ==
    \A k \in Call :
        phase[k] # "ringing" /\ phase'[k] = "ringing"
        => clients[line[k]] = caller[k] \/ told[caller[k]] = "early"
OwnClientRings == [][RingsOnOwnClient]_allVars

\* A phone that rings stops ringing if the client that made it ring stays
\* connected, although the request has been answered and the session may have
\* got another client.
RingingEnds ==
    \A k \in Call : phase[k] = "ringing" ~>
        phase[k] = "ended" \/ (caller[k] # None /\ link[caller[k]] # "up")

=============================================================================
