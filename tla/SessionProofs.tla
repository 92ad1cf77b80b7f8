---------------------------- MODULE SessionProofs ----------------------------
(***************************************************************************)
(* Theorems about SessionManager, for any sessions, requests and bounds.   *)
(***************************************************************************)
EXTENDS SessionProperties, TLAPS

Building == {"connect.status", "connect.open", "connect.register"}

-----------------------------------------------------------------------------
(* The inductive invariant.                                                *)

\* mu is held by the operation that is between taking and releasing it, and a
\* dead process holds and runs nothing.
MutexInv ==
    /\ \A o \in Op : pc[o] \in Locked <=> mu = o
    /\ proc = "down" => mu = None /\ \A o \in Op : pc[o] \in {"idle", "lost"}

\* A client exists from the last step of the Connect that makes it; the
\* registry maps a session to one of its own clients.
ClientInv ==
    /\ \A c \in Op : link[c] # "none" => pc[c] = "ok"
    /\ \A c \in Op : link[c] = "none" =>
         told[c] = "no" /\ qrch[c] = "none" /\ presenceCancel[c] = None
    /\ \A s \in Session : clients[s] # None =>
         to[clients[s]] = s /\ link[clients[s]] # "none"
    /\ \A o \in Op : pc[o] \in Building => clients[to[o]] = None

\* What a reload knows of the client it saw, before and after its Disconnect.
ReloadInv ==
    \A o \in Op :
        /\ pc[o] \in {"reload.check", "reload.status"} => job[o] = "reload"
        /\ job[o] = "reload" /\ pc[o] \in {"reload.status", "disconnect.lock"}
           => seen[o] # None /\ to[seen[o]] = to[o] /\ link[seen[o]] # "none"
        /\ job[o] = "reload"
           /\ pc[o] \in {"disconnect.status", "connect.lock", "ok"} \cup Building
           => seen[o] # None /\ told[seen[o]] # "no"

\* A Connected event is handled at most once, and only then is a refresher of
\* its client and epoch running.
PresenceInv ==
    /\ \A e \in events : link[e.client] # "none" /\ e.epoch <= epoch[e.client]
    /\ \A e, f \in events :
         e.kind = "Connected" /\ f.kind = "Connected" /\ e.client = f.client
         /\ e.epoch = f.epoch => e = f
    /\ \A r \in refreshers :
         /\ link[r.client] # "none"
         /\ r.epoch <= epoch[r.client]
         /\ \A e \in events : e.kind = "Connected" /\ e.client = r.client
                              => e.epoch # r.epoch

\* What Client.Disconnect does to a client that had been dialled, kept by every
\* later step of the library.
HangupInv == \A c \in Op : told[c] = "late" => link[c] \in {"failed", "closed"}

\* Every always-online goroutine that runs has one entry, registered or dropped,
\* that was given its cancel function; no entry has one of a dead goroutine. An
\* entry that got it from another client's handler outlived that client.
RefresherInv ==
    /\ \A r \in refreshers : \E c \in Op : presenceCancel[c] = r
    /\ \A c \in Op : presenceCancel[c] # None =>
         /\ presenceCancel[c] \in refreshers
         /\ \A d \in Op : presenceCancel[d] = presenceCancel[c] => d = c
         /\ presenceCancel[c].client # c
            => told[presenceCancel[c].client] # "no"

QRInv ==
    \A s \in Session : qrBySession[s] # None => to[qrBySession[s]] = s

\* As long as the status of a session that is connected says "connecting", a
\* reload is about to disconnect its client, or a handler to overwrite it.
StatusInv ==
    \A s \in Session :
        clients[s] # None /\ link[clients[s]] = "up"
        /\ status[s] = "connecting"
        => \/ \E o \in Op : to[o] = s /\ pc[o] = "disconnect.lock"
           \/ \E e \in events : to[e.client] = s /\ e.stage = "status"

IInv ==
    /\ TypeOK /\ MutexInv /\ ClientInv /\ ReloadInv /\ PresenceInv /\ QRInv
    /\ StatusInv /\ NoClientLost /\ HangupInv /\ RefresherInv /\ QRRemoved

-----------------------------------------------------------------------------
(* Types.                                                                  *)

\* NewClientManager leaves every variable in its type.
LEMMA InitTypeOK == ASSUME Init PROVE TypeOK
<1>1. store \in [Session -> {"absent", "unpaired", "paired"}]
  BY ConstantsAssumption DEF Init
<1>2. crashes \in 0..MaxCrashes /\ epoch \in [Op -> 0..MaxEpoch]
  BY ConstantsAssumption DEF Init
<1>3. to \in [Op -> Session \cup {None}] /\ \A s \in Session : to[s] = s
  BY DEF Init, Op
<1> QED
  BY <1>1, <1>2, <1>3, ConstantsAssumption
  DEF Init, TypeOK, Jobs, LinkState, QRState, StatusValue

\* An event handed to a handler is one.
LEMMA DispatchType ==
  ASSUME TypeOK, NEW c \in Op, NEW k \in EventKind, NEW n \in 0..MaxEpoch,
         Dispatch(c, k, n)
  PROVE  events' \in SUBSET Event
  BY DEF TypeOK, Dispatch, Event

\* The status an event handler writes is one readers of the key know.
LEMMA StatusOfType ==
  ASSUME NEW k \in EventKind PROVE StatusOf(k) \in StatusValue
  BY DEF EventKind, StatusOf, StatusValue

\* A connection that comes up, first or again, leaves every type.
LEMMA ComeUpType == ASSUME TypeOK, NEW c \in Op, ComeUp(c) PROVE TypeOK'
<1>1. epoch[c] + 1 \in 0..MaxEpoch /\ epoch' \in [Op -> 0..MaxEpoch]
  BY ConstantsAssumption DEF TypeOK, ComeUp
<1>2. events' \in SUBSET Event
  BY <1>1, DispatchType DEF ComeUp, EventKind
<1> QED
  BY <1>1, <1>2
  DEF TypeOK, ComeUp, LinkState, NetworkFrame, procVars, opVars,
      presenceVars, qrVars

\* Every step of the manager, its goroutines and the library keeps the
\* types.
LEMMA NextTypeOK == ASSUME TypeOK, [Next]_vars PROVE TypeOK'
<1> USE ConstantsAssumption
    DEF TypeOK, Op, Locked, Waiting, Finished, Jobs, LinkState, QRState,
        StatusValue, OperationFrame, NetworkFrame, HandlerFrame, Goto,
        managerVars, procVars, opVars, presenceVars, libVars, qrVars
<1>boot. CASE Boot
  BY <1>boot DEF Boot
<1>crash. CASE Crash
  BY <1>crash DEF Crash
<1>receive. ASSUME NEW o \in Op, Receive(o) PROVE TypeOK'
  BY <1>receive DEF Receive, FirstStep
<1>1. ASSUME NEW o \in Op, ConnectExisting(o) PROVE TypeOK'
  BY <1>1 DEF ConnectExisting
<1>2. ASSUME NEW o \in Op, ConnectLock(o) PROVE TypeOK'
  BY <1>2 DEF ConnectLock
<1>3. ASSUME NEW o \in Op, ConnectStatus(o) PROVE TypeOK'
  BY <1>3 DEF ConnectStatus
<1>4. ASSUME NEW o \in Op, ConnectOpen(o) PROVE TypeOK'
  BY <1>4 DEF ConnectOpen
<1>5. ASSUME NEW o \in Op, ConnectError(o) PROVE TypeOK'
  BY <1>5 DEF ConnectError
<1>6. ASSUME NEW o \in Op, ConnectRegister(o) PROVE TypeOK'
  BY <1>6 DEF ConnectRegister
<1>7. ASSUME NEW o \in Op, DisconnectClient(o) PROVE TypeOK'
  <2>1. told' \in [Op -> {"no", "early", "late"}]
    BY <1>7 DEF DisconnectClient
  <2>2. link' \in [Op -> LinkState]
    BY <1>7 DEF DisconnectClient, Hangup
  <2>3. clients' \in [Session -> Op \cup {None}]
    BY <1>7 DEF DisconnectClient
  <2> QED
    BY <1>7, <2>1, <2>2, <2>3 DEF DisconnectClient
<1>8. ASSUME NEW o \in Op, DisconnectStatus(o) PROVE TypeOK'
  BY <1>8 DEF DisconnectStatus
<1>9. ASSUME NEW o \in Op, ReloadCheck(o) PROVE TypeOK'
  BY <1>9 DEF ReloadCheck
<1>10. ASSUME NEW o \in Op, ReloadStatus(o) PROVE TypeOK'
  BY <1>10 DEF ReloadStatus
<1>11. ASSUME NEW c \in Op, DialPaired(c) PROVE TypeOK'
  BY <1>11, ComeUpType DEF DialPaired
<1>12. ASSUME NEW c \in Op, DialPairing(c) PROVE TypeOK'
  BY <1>12 DEF DialPairing
<1>13. ASSUME NEW c \in Op, DialError(c) PROVE TypeOK'
  BY <1>13 DEF DialError
<1>14. ASSUME NEW c \in Op, DialErrorStatus(c) PROVE TypeOK'
  BY <1>14 DEF DialErrorStatus
<1>15. ASSUME NEW c \in Op, WatcherDelete(c) PROVE TypeOK'
  BY <1>15 DEF WatcherDelete
<1>16. ASSUME NEW c \in Op, WatcherOnline(c) PROVE TypeOK'
  BY <1>16 DEF WatcherOnline
<1>17. ASSUME NEW c \in Op, WatcherError(c) PROVE TypeOK'
  BY <1>17 DEF WatcherError
<1>18. ASSUME NEW c \in Op, NetworkLoss(c) PROVE TypeOK'
  <2>1. epoch[c] \in 0..MaxEpoch
    OBVIOUS
  <2>2. events' \in SUBSET Event
    BY <1>18, <2>1, DispatchType DEF NetworkLoss, EventKind
  <2> QED
    BY <1>18, <2>2 DEF NetworkLoss
<1>19. ASSUME NEW c \in Op, Reconnect(c) PROVE TypeOK'
  BY <1>19, ComeUpType DEF Reconnect
<1>20. ASSUME NEW c \in Op, LoggedOut(c) PROVE TypeOK'
  <2>1. epoch[c] \in 0..MaxEpoch
    OBVIOUS
  <2>2. events' \in SUBSET Event
    BY <1>20, <2>1, DispatchType DEF LoggedOut, EventKind
  <2> QED
    BY <1>20, <2>2 DEF LoggedOut
<1>21. ASSUME NEW c \in Op, StreamReplaced(c) PROVE TypeOK'
  <2>1. epoch[c] \in 0..MaxEpoch
    OBVIOUS
  <2>2. events' \in SUBSET Event
    BY <1>21, <2>1, DispatchType DEF StreamReplaced, EventKind
  <2> QED
    BY <1>21, <2>2 DEF StreamReplaced
<1>22. ASSUME NEW c \in Op, QRCode(c) PROVE TypeOK'
  BY <1>22 DEF QRCode
<1>23. ASSUME NEW c \in Op, QRTimeout(c) PROVE TypeOK'
  BY <1>23 DEF QRTimeout
<1>24. ASSUME NEW c \in Op, PairingLost(c) PROVE TypeOK'
  <2>1. 0 \in 0..MaxEpoch
    OBVIOUS
  <2>2. events' \in SUBSET Event
    BY <1>24, <2>1, DispatchType DEF PairingLost, EventKind
  <2> QED
    BY <1>24, <2>2 DEF PairingLost
<1>25. ASSUME NEW c \in Op, PairError(c) PROVE TypeOK'
  BY <1>25 DEF PairError
<1>26. ASSUME NEW c \in Op, PairSuccess(c) PROVE TypeOK'
  BY <1>26 DEF PairSuccess
<1>27. ASSUME NEW e \in events, HandleStatus(e) PROVE TypeOK'
  <2>1. e \in Event /\ StatusOf(e.kind) \in StatusValue
    BY StatusOfType DEF Event
  <2>2. [e EXCEPT !.stage = "presence"] \in Event
    BY <2>1 DEF Event
  <2>3. events' \in SUBSET Event
    BY <1>27, <2>2 DEF HandleStatus
  <2>4. status' \in [Session -> StatusValue]
    BY <1>27, <2>1 DEF HandleStatus
  <2> QED
    BY <1>27, <2>3, <2>4 DEF HandleStatus
<1>28. ASSUME NEW e \in events, MaybeStartAlwaysOnline(e) PROVE TypeOK'
  BY <1>28 DEF MaybeStartAlwaysOnline, Refresher, Event
<1>29. ASSUME NEW e \in events, StopAlwaysOnline(e) PROVE TypeOK'
  BY <1>29 DEF StopAlwaysOnline
<1>stutter. CASE UNCHANGED vars
  BY <1>stutter DEF vars
<1> QED
  BY <1>boot, <1>crash, <1>receive, <1>stutter,
     <1>1, <1>2, <1>3, <1>4, <1>5, <1>6, <1>7, <1>8, <1>9, <1>10, <1>11,
     <1>12, <1>13, <1>14, <1>15, <1>16, <1>17, <1>18, <1>19, <1>20, <1>21,
     <1>22, <1>23, <1>24, <1>25, <1>26, <1>27, <1>28, <1>29
  DEF Next, Step, Operation, Dial, Watcher, Network, Handle

\* Whatever requests, dials, handlers and watchers do, in whatever order,
\* every variable of the manager keeps its type; in particular the Redis
\* status is always one of the values internal/status accepts.
THEOREM TypeCorrect == Spec => []TypeOK
  BY InitTypeOK, NextTypeOK, PTL DEF Spec

-----------------------------------------------------------------------------
(* What whole groups of actions leave alone.                               *)

\* Dials, watchers and the network touch neither the operations nor the
\* registry, make no client and reach only clients that exist.
LEMMA NetworkKeeps ==
  ASSUME TypeOK, ClientInv, NEW c \in Op, Dial(c) \/ Watcher(c) \/ Network(c)
  PROVE  /\ UNCHANGED <<proc, crashes, mu, pc, job, to, seen, clients,
                        alwaysOnline, presenceCancel, refreshers, told>>
         /\ link[c] # "none"
         /\ \A d \in Op : /\ link'[d] = "none" <=> link[d] = "none"
                          /\ d # c => qrch'[d] = qrch[d] /\ link'[d] = link[d]
         /\ link[c] \in {"failed", "closed"} =>
              link'[c] \in {"failed", "closed"}
<1> USE DEF NetworkFrame, procVars, opVars, presenceVars, qrVars, libVars,
            TypeOK, ClientInv
<1>1. CASE Dial(c)
  BY <1>1 DEF Dial, DialPaired, DialPairing, DialError, DialErrorStatus, ComeUp
<1>2. CASE Watcher(c)
  BY <1>2 DEF Watcher, WatcherDelete, WatcherOnline, WatcherError
<1>3. CASE NetworkLoss(c) \/ Reconnect(c) \/ LoggedOut(c) \/ StreamReplaced(c)
  BY <1>3 DEF NetworkLoss, Reconnect, LoggedOut, StreamReplaced, ComeUp
<1>4. CASE QRCode(c) \/ QRTimeout(c) \/ PairingLost(c) \/ PairError(c)
           \/ PairSuccess(c)
  BY <1>4 DEF QRCode, QRTimeout, PairingLost, PairError, PairSuccess
<1> QED
  BY <1>1, <1>2, <1>3, <1>4 DEF Network

\* Handlers touch the status, the refreshers and the events only.
LEMMA HandleKeeps ==
  ASSUME NEW e \in events, Handle(e)
  PROVE  UNCHANGED <<proc, crashes, mu, pc, job, to, seen, clients,
                     alwaysOnline, dev, link, told, epoch, latest, qrch,
                     qrBySession, store>>
  BY DEF Handle, HandleStatus, MaybeStartAlwaysOnline, StopAlwaysOnline,
         HandlerFrame, procVars, opVars, qrVars

-----------------------------------------------------------------------------
(* Every step preserves every part of the inductive invariant.             *)

\* A request starts by waiting for mu, with none of its own steps done.
LEMMA FirstStepIs ==
  ASSUME NEW k \in Jobs \ {"none"}
  PROVE  /\ k = "connect"    => FirstStep(k) = "connect.lock"
         /\ k = "disconnect" => FirstStep(k) = "disconnect.lock"
         /\ k = "reload"     => FirstStep(k) = "reload.check"
         /\ k \in {"connect", "disconnect", "reload"}
  BY DEF Jobs, FirstStep

\* ClientManager.mu: no step lets a second writer in or leaves a writer
\* without it.
LEMMA NextMutexInv == ASSUME IInv, [Next]_vars PROVE MutexInv'
<1> USE ConstantsAssumption
    DEF IInv, TypeOK, Op, MutexInv, Locked, Waiting, Finished,
        OperationFrame, Goto, managerVars, procVars, opVars,
        presenceVars, libVars, qrVars
<1>boot. CASE Boot
  BY <1>boot DEF Boot
<1>crash. CASE Crash
  BY <1>crash DEF Crash
<1>receive. ASSUME NEW o \in Op, Receive(o) PROVE MutexInv'
  BY <1>receive, FirstStepIs DEF Receive
<1>1. ASSUME NEW o \in Op, ConnectExisting(o) PROVE MutexInv'
  BY <1>1 DEF ConnectExisting
<1>2. ASSUME NEW o \in Op, ConnectLock(o) PROVE MutexInv'
  BY <1>2 DEF ConnectLock
<1>3. ASSUME NEW o \in Op, ConnectStatus(o) PROVE MutexInv'
  BY <1>3 DEF ConnectStatus
<1>4. ASSUME NEW o \in Op, ConnectOpen(o) PROVE MutexInv'
  BY <1>4 DEF ConnectOpen
<1>5. ASSUME NEW o \in Op, ConnectError(o) PROVE MutexInv'
  BY <1>5 DEF ConnectError
<1>6. ASSUME NEW o \in Op, ConnectRegister(o) PROVE MutexInv'
  BY <1>6 DEF ConnectRegister
<1>7. ASSUME NEW o \in Op, DisconnectClient(o) PROVE MutexInv'
  BY <1>7 DEF DisconnectClient, Hangup
<1>8. ASSUME NEW o \in Op, DisconnectStatus(o) PROVE MutexInv'
  BY <1>8 DEF DisconnectStatus
<1>9. ASSUME NEW o \in Op, ReloadCheck(o) PROVE MutexInv'
  BY <1>9 DEF ReloadCheck
<1>10. ASSUME NEW o \in Op, ReloadStatus(o) PROVE MutexInv'
  BY <1>10 DEF ReloadStatus
<1>net. ASSUME NEW c \in Op, Dial(c) \/ Watcher(c) \/ Network(c) PROVE MutexInv'
  BY <1>net, NetworkKeeps
<1>handle. ASSUME NEW e \in events, Handle(e) PROVE MutexInv'
  BY <1>handle, HandleKeeps
<1>stutter. CASE UNCHANGED vars
  BY <1>stutter DEF vars
<1> QED
  BY <1>boot, <1>crash, <1>receive, <1>net, <1>handle, <1>stutter,
     <1>1, <1>2, <1>3, <1>4, <1>5, <1>6, <1>7, <1>8, <1>9, <1>10
  DEF Next, Step, Operation

\* A client object is made by one Connect, for its session, and registered
\* by that Connect only.
LEMMA NextClientInv == ASSUME IInv, [Next]_vars PROVE ClientInv'
<1> USE ConstantsAssumption
    DEF IInv, TypeOK, Op, ClientInv, MutexInv, PresenceInv, Building,
        Locked, Waiting, Finished,
        OperationFrame, Goto, managerVars, procVars, opVars,
        presenceVars, libVars, qrVars
<1>boot. CASE Boot
  BY <1>boot DEF Boot
<1>crash. CASE Crash
  BY <1>crash DEF Crash
<1>receive. ASSUME NEW o \in Op, Receive(o) PROVE ClientInv'
  BY <1>receive, FirstStepIs DEF Receive
<1>1. ASSUME NEW o \in Op, ConnectExisting(o) PROVE ClientInv'
  BY <1>1 DEF ConnectExisting
<1>2. ASSUME NEW o \in Op, ConnectLock(o) PROVE ClientInv'
  BY <1>2 DEF ConnectLock
<1>3. ASSUME NEW o \in Op, ConnectStatus(o) PROVE ClientInv'
  BY <1>3 DEF ConnectStatus
<1>4. ASSUME NEW o \in Op, ConnectOpen(o) PROVE ClientInv'
  BY <1>4 DEF ConnectOpen
<1>5. ASSUME NEW o \in Op, ConnectError(o) PROVE ClientInv'
  BY <1>5 DEF ConnectError
<1>6. ASSUME NEW o \in Op, ConnectRegister(o) PROVE ClientInv'
  BY <1>6 DEF ConnectRegister
<1>7. ASSUME NEW o \in Op, DisconnectClient(o) PROVE ClientInv'
  <2> DEFINE c == clients[to[o]]
  <2>1. CASE c = None
    BY <1>7, <2>1 DEF DisconnectClient
  <2>2. CASE c # None
    <3>1. /\ clients' = [clients EXCEPT ![to[o]] = None]
          /\ \A d \in Op : /\ link'[d] = "none" <=> link[d] = "none"
                           /\ d # c => told'[d] = told[d]
          /\ link[c] # "none"
          /\ UNCHANGED <<qrch, presenceCancel, to>>
      BY <1>7, <2>2 DEF DisconnectClient, Hangup
    <3>2. /\ pc' = [pc EXCEPT ![o] = "disconnect.status"]
          /\ pc[o] = "disconnect.lock"
          /\ mu = None
      BY <1>7 DEF DisconnectClient
    <3> QED
      BY <2>2, <3>1, <3>2
  <2> QED
    BY <2>1, <2>2
<1>8. ASSUME NEW o \in Op, DisconnectStatus(o) PROVE ClientInv'
  BY <1>8 DEF DisconnectStatus
<1>9. ASSUME NEW o \in Op, ReloadCheck(o) PROVE ClientInv'
  BY <1>9 DEF ReloadCheck
<1>10. ASSUME NEW o \in Op, ReloadStatus(o) PROVE ClientInv'
  BY <1>10 DEF ReloadStatus
<1>net. ASSUME NEW c \in Op, Dial(c) \/ Watcher(c) \/ Network(c) PROVE ClientInv'
  BY <1>net, NetworkKeeps
<1>handle. ASSUME NEW e \in events, Handle(e) PROVE ClientInv'
  <2>1. CASE HandleStatus(e)
    BY <1>handle, <2>1, HandleKeeps DEF HandleStatus, HandlerFrame
  <2>2. CASE MaybeStartAlwaysOnline(e) \/ StopAlwaysOnline(e)
    BY <1>handle, <2>2, HandleKeeps
    DEF MaybeStartAlwaysOnline, StopAlwaysOnline, Event
  <2> QED
    BY <1>handle, <2>1, <2>2 DEF Handle
<1>stutter. CASE UNCHANGED vars
  BY <1>stutter DEF vars
<1> QED
  BY <1>boot, <1>crash, <1>receive, <1>net, <1>handle, <1>stutter,
     <1>1, <1>2, <1>3, <1>4, <1>5, <1>6, <1>7, <1>8, <1>9, <1>10
  DEF Next, Step, Operation

\* Connect and Disconnect change the map and the client under one hold of
\* mu, so no step loses a client.
LEMMA NextNoClientLost == ASSUME IInv, [Next]_vars PROVE NoClientLost'
<1> USE ConstantsAssumption
    DEF IInv, TypeOK, Op, NoClientLost, ClientInv,
        MutexInv, Building, Locked, Waiting, Finished,
        OperationFrame, Goto, managerVars, procVars, opVars,
        presenceVars, libVars, qrVars
<1>boot. CASE Boot
  BY <1>boot DEF Boot
<1>crash. CASE Crash
  BY <1>crash DEF Crash
<1>receive. ASSUME NEW o \in Op, Receive(o) PROVE NoClientLost'
  BY <1>receive, FirstStepIs DEF Receive
<1>1. ASSUME NEW o \in Op, ConnectExisting(o) PROVE NoClientLost'
  BY <1>1 DEF ConnectExisting
<1>2. ASSUME NEW o \in Op, ConnectLock(o) PROVE NoClientLost'
  BY <1>2 DEF ConnectLock
<1>3. ASSUME NEW o \in Op, ConnectStatus(o) PROVE NoClientLost'
  BY <1>3 DEF ConnectStatus
<1>4. ASSUME NEW o \in Op, ConnectOpen(o) PROVE NoClientLost'
  BY <1>4 DEF ConnectOpen
<1>5. ASSUME NEW o \in Op, ConnectError(o) PROVE NoClientLost'
  BY <1>5 DEF ConnectError
<1>6. ASSUME NEW o \in Op, ConnectRegister(o) PROVE NoClientLost'
  BY <1>6 DEF ConnectRegister
<1>7. ASSUME NEW o \in Op, DisconnectClient(o) PROVE NoClientLost'
  BY <1>7 DEF DisconnectClient, Hangup
<1>8. ASSUME NEW o \in Op, DisconnectStatus(o) PROVE NoClientLost'
  BY <1>8 DEF DisconnectStatus
<1>9. ASSUME NEW o \in Op, ReloadCheck(o) PROVE NoClientLost'
  BY <1>9 DEF ReloadCheck
<1>10. ASSUME NEW o \in Op, ReloadStatus(o) PROVE NoClientLost'
  BY <1>10 DEF ReloadStatus
<1>net. ASSUME NEW c \in Op, Dial(c) \/ Watcher(c) \/ Network(c) PROVE NoClientLost'
  BY <1>net, NetworkKeeps
<1>handle. ASSUME NEW e \in events, Handle(e) PROVE NoClientLost'
  BY <1>handle, HandleKeeps
<1>stutter. CASE UNCHANGED vars
  BY <1>stutter DEF vars
<1> QED
  BY <1>boot, <1>crash, <1>receive, <1>net, <1>handle, <1>stutter,
     <1>1, <1>2, <1>3, <1>4, <1>5, <1>6, <1>7, <1>8, <1>9, <1>10
  DEF Next, Step, Operation

\* Between the check of Reload and its Disconnect the client it saw is
\* registered or was told to disconnect by another operation.
LEMMA NextReloadInv == ASSUME IInv, [Next]_vars PROVE ReloadInv'
<1> USE ConstantsAssumption
    DEF IInv, TypeOK, Op, ReloadInv, ClientInv, MutexInv,
        NoClientLost, Building, Locked, Waiting, Finished,
        OperationFrame, Goto, managerVars, procVars, opVars,
        presenceVars, libVars, qrVars
<1>boot. CASE Boot
  BY <1>boot DEF Boot
<1>crash. CASE Crash
  BY <1>crash DEF Crash
<1>receive. ASSUME NEW o \in Op, Receive(o) PROVE ReloadInv'
  BY <1>receive, FirstStepIs DEF Receive
<1>1. ASSUME NEW o \in Op, ConnectExisting(o) PROVE ReloadInv'
  BY <1>1 DEF ConnectExisting
<1>2. ASSUME NEW o \in Op, ConnectLock(o) PROVE ReloadInv'
  BY <1>2 DEF ConnectLock
<1>3. ASSUME NEW o \in Op, ConnectStatus(o) PROVE ReloadInv'
  BY <1>3 DEF ConnectStatus
<1>4. ASSUME NEW o \in Op, ConnectOpen(o) PROVE ReloadInv'
  BY <1>4 DEF ConnectOpen
<1>5. ASSUME NEW o \in Op, ConnectError(o) PROVE ReloadInv'
  BY <1>5 DEF ConnectError
<1>6. ASSUME NEW o \in Op, ConnectRegister(o) PROVE ReloadInv'
  BY <1>6 DEF ConnectRegister
<1>7. ASSUME NEW o \in Op, DisconnectClient(o) PROVE ReloadInv'
  BY <1>7 DEF DisconnectClient, Hangup
<1>8. ASSUME NEW o \in Op, DisconnectStatus(o) PROVE ReloadInv'
  BY <1>8 DEF DisconnectStatus
<1>9. ASSUME NEW o \in Op, ReloadCheck(o) PROVE ReloadInv'
  BY <1>9 DEF ReloadCheck
<1>10. ASSUME NEW o \in Op, ReloadStatus(o) PROVE ReloadInv'
  BY <1>10 DEF ReloadStatus
<1>net. ASSUME NEW c \in Op, Dial(c) \/ Watcher(c) \/ Network(c) PROVE ReloadInv'
  BY <1>net, NetworkKeeps
<1>handle. ASSUME NEW e \in events, Handle(e) PROVE ReloadInv'
  BY <1>handle, HandleKeeps
<1>stutter. CASE UNCHANGED vars
  BY <1>stutter DEF vars
<1> QED
  BY <1>boot, <1>crash, <1>receive, <1>net, <1>handle, <1>stutter,
     <1>1, <1>2, <1>3, <1>4, <1>5, <1>6, <1>7, <1>8, <1>9, <1>10
  DEF Next, Step, Operation

\* Nothing reopens a connection closed by Client.Disconnect.
LEMMA NextHangupInv == ASSUME IInv, [Next]_vars PROVE HangupInv'
<1> USE ConstantsAssumption
    DEF IInv, TypeOK, Op, HangupInv, ClientInv,
        NoClientLost, LinkState, Building,
        Locked,
        OperationFrame, Goto, managerVars, procVars, opVars,
        presenceVars, libVars, qrVars
<1>boot. CASE Boot
  BY <1>boot DEF Boot
<1>crash. CASE Crash
  BY <1>crash DEF Crash
<1>receive. ASSUME NEW o \in Op, Receive(o) PROVE HangupInv'
  BY <1>receive, FirstStepIs DEF Receive
<1>1. ASSUME NEW o \in Op, ConnectExisting(o) PROVE HangupInv'
  BY <1>1 DEF ConnectExisting
<1>2. ASSUME NEW o \in Op, ConnectLock(o) PROVE HangupInv'
  BY <1>2 DEF ConnectLock
<1>3. ASSUME NEW o \in Op, ConnectStatus(o) PROVE HangupInv'
  BY <1>3 DEF ConnectStatus
<1>4. ASSUME NEW o \in Op, ConnectOpen(o) PROVE HangupInv'
  BY <1>4 DEF ConnectOpen
<1>5. ASSUME NEW o \in Op, ConnectError(o) PROVE HangupInv'
  BY <1>5 DEF ConnectError
<1>6. ASSUME NEW o \in Op, ConnectRegister(o) PROVE HangupInv'
  BY <1>6 DEF ConnectRegister
<1>7. ASSUME NEW o \in Op, DisconnectClient(o) PROVE HangupInv'
  BY <1>7 DEF DisconnectClient, Hangup
<1>8. ASSUME NEW o \in Op, DisconnectStatus(o) PROVE HangupInv'
  BY <1>8 DEF DisconnectStatus
<1>9. ASSUME NEW o \in Op, ReloadCheck(o) PROVE HangupInv'
  BY <1>9 DEF ReloadCheck
<1>10. ASSUME NEW o \in Op, ReloadStatus(o) PROVE HangupInv'
  BY <1>10 DEF ReloadStatus
<1>net. ASSUME NEW c \in Op, Dial(c) \/ Watcher(c) \/ Network(c) PROVE HangupInv'
  BY <1>net, NetworkKeeps
<1>handle. ASSUME NEW e \in events, Handle(e) PROVE HangupInv'
  BY <1>handle, HandleKeeps
<1>stutter. CASE UNCHANGED vars
  BY <1>stutter DEF vars
<1> QED
  BY <1>boot, <1>crash, <1>receive, <1>net, <1>handle, <1>stutter,
     <1>1, <1>2, <1>3, <1>4, <1>5, <1>6, <1>7, <1>8, <1>9, <1>10
  DEF Next, Step, Operation

\* Operations leave refreshers, events and QR codes alone and unmake no client.
LEMMA OperationKeeps ==
  ASSUME TypeOK, NEW o \in Op, Operation(o)
  PROVE  /\ UNCHANGED <<proc, crashes, job, to, presenceCancel, refreshers,
                        epoch, latest, events, qrBySession>>
         /\ \A d \in Op : link[d] # "none" => link'[d] # "none"
         /\ \A d \in Op : told[d] # "no" => told'[d] # "no"
<1> USE DEF OperationFrame, managerVars, procVars, presenceVars, TypeOK
<1>1. CASE ConnectExisting(o) \/ ConnectLock(o) \/ ConnectStatus(o)
           \/ ConnectOpen(o) \/ ConnectError(o) \/ ConnectRegister(o)
  BY <1>1 DEF ConnectExisting, ConnectLock, ConnectStatus, ConnectOpen,
              ConnectError, ConnectRegister
<1>2. CASE DisconnectClient(o) \/ DisconnectStatus(o)
           \/ ReloadCheck(o) \/ ReloadStatus(o)
  BY <1>2 DEF DisconnectClient, Hangup, DisconnectStatus, ReloadCheck,
              ReloadStatus
<1> QED
  BY <1>1, <1>2 DEF Operation

\* What the network may dispatch: a Connected event of a new epoch, or an event
\* of another kind that leaves the epochs as they are, or nothing.
LEMMA NetworkEvents ==
  ASSUME TypeOK, ClientInv, NEW c \in Op, Dial(c) \/ Watcher(c) \/ Network(c)
  PROVE  \/ epoch' = epoch /\ events' = events
         \/ ComeUp(c)
         \/ /\ epoch' = epoch
            /\ \E k \in EventKind \ {"Connected"}, n \in 0..epoch[c] :
                 Dispatch(c, k, n)
<1> USE DEF NetworkFrame, qrVars, libVars, TypeOK
<1>1. CASE Dial(c)
  BY <1>1 DEF Dial, DialPaired, DialPairing, DialError, DialErrorStatus
<1>2. CASE Watcher(c)
  BY <1>2 DEF Watcher, WatcherDelete, WatcherOnline, WatcherError
<1>3. CASE Reconnect(c) \/ QRCode(c) \/ QRTimeout(c) \/ PairError(c)
           \/ PairSuccess(c)
  BY <1>3 DEF Reconnect, QRCode, QRTimeout, PairError, PairSuccess
<1>4. CASE NetworkLoss(c) \/ LoggedOut(c) \/ StreamReplaced(c)
  <2>1. epoch[c] \in 0..epoch[c]
    OBVIOUS
  <2> QED
    BY <1>4, <2>1 DEF NetworkLoss, LoggedOut, StreamReplaced, EventKind
<1>5. CASE PairingLost(c)
  <2>1. 0 \in 0..epoch[c]
    OBVIOUS
  <2> QED
    BY <1>5, <2>1 DEF PairingLost, EventKind
<1> QED
  BY <1>1, <1>2, <1>3, <1>4, <1>5 DEF Network

\* A refresher or a Connected event is of an epoch its client has reached,
\* and no event is there while its refresher is: starting one is new.
LEMMA NextPresenceInv == ASSUME IInv, [Next]_vars PROVE PresenceInv'
<1> USE DEF IInv, PresenceInv
<1>boot. CASE Boot
  BY <1>boot DEF Boot, libVars, presenceVars
<1>crash. CASE Crash
  BY <1>crash DEF Crash
<1>receive. ASSUME NEW o \in Op, Receive(o) PROVE PresenceInv'
  BY <1>receive DEF Receive, libVars, presenceVars
<1>op. ASSUME NEW o \in Op, Operation(o) PROVE PresenceInv'
  BY <1>op, OperationKeeps DEF TypeOK, Event, Refresher
<1>net. ASSUME NEW c \in Op, Dial(c) \/ Watcher(c) \/ Network(c)
        PROVE  PresenceInv'
  <2>1. /\ UNCHANGED refreshers
        /\ link[c] # "none"
        /\ \A d \in Op : link'[d] = "none" <=> link[d] = "none"
    BY <1>net, NetworkKeeps
  <2>2. CASE epoch' = epoch /\ events' = events
    BY <2>1, <2>2 DEF TypeOK, Event, Refresher
  <2>3. CASE ComeUp(c)
    <3> DEFINE new == [client |-> c, epoch |-> epoch[c] + 1,
                       kind |-> "Connected", stage |-> "status"]
    <3>1. events' = events \cup {new} /\ epoch' = [epoch EXCEPT ![c] = @ + 1]
      BY <2>3 DEF ComeUp, Dispatch
    <3>2. \A d \in Op : epoch[d] \in Nat /\ epoch'[d] \in Nat
                        /\ epoch[d] <= epoch'[d]
      BY <3>1 DEF TypeOK
    <3>3. \A e \in events : e.client = c => e.epoch < new.epoch
      BY <3>2 DEF TypeOK, Event
    <3>4. \A r \in refreshers : r.client = c => r.epoch < new.epoch
      BY <3>2 DEF TypeOK, Refresher
    <3>5. new.client = c /\ new.epoch = epoch'[c]
      BY <3>1 DEF TypeOK
    <3> HIDE DEF new
    <3>6. \A e \in events' : link'[e.client] # "none"
                             /\ e.epoch <= epoch'[e.client]
      BY <2>1, <3>1, <3>2, <3>5 DEF TypeOK, Event
    <3>7. \A e, f \in events' :
            e.kind = "Connected" /\ f.kind = "Connected"
            /\ e.client = f.client /\ e.epoch = f.epoch => e = f
      BY <3>1, <3>2, <3>3, <3>5 DEF TypeOK, Event
    <3>8. \A r \in refreshers' :
            /\ link'[r.client] # "none"
            /\ r.epoch <= epoch'[r.client]
            /\ \A e \in events' :
                 e.kind = "Connected" /\ e.client = r.client
                 => e.epoch # r.epoch
      BY <2>1, <3>1, <3>2, <3>4, <3>5 DEF TypeOK, Event, Refresher
    <3> QED
      BY <3>6, <3>7, <3>8
  <2>4. ASSUME epoch' = epoch, NEW k \in EventKind \ {"Connected"},
               NEW n \in 0..epoch[c], Dispatch(c, k, n)
        PROVE  PresenceInv'
    BY <2>1, <2>4 DEF Dispatch, TypeOK, Event, Refresher
  <2> QED
    BY <1>net, <2>2, <2>3, <2>4, NetworkEvents
<1>handle. ASSUME NEW e \in events, Handle(e) PROVE PresenceInv'
  <2>1. UNCHANGED <<link, epoch, to, clients>> /\ e \in Event
    BY <1>handle, HandleKeeps DEF TypeOK
  <2>2. CASE HandleStatus(e)
    <3> DEFINE new == [e EXCEPT !.stage = "presence"]
    <3>1. events' = events \ {e} \/ events' = (events \ {e}) \cup {new}
      BY <2>2 DEF HandleStatus
    <3>2. new.client = e.client /\ new.epoch = e.epoch /\ new.kind = e.kind
      BY <2>1 DEF Event
    <3>3. UNCHANGED refreshers
      BY <2>2 DEF HandleStatus, presenceVars
    <3> HIDE DEF new
    <3>4. \A f \in events' : \E g \in events :
            /\ f.client = g.client /\ f.epoch = g.epoch /\ f.kind = g.kind
            /\ f # g => f = new /\ g = e
      BY <3>1, <3>2
    <3> QED
      BY <2>1, <3>1, <3>2, <3>3, <3>4 DEF TypeOK, Event, Refresher
  <2>3. CASE MaybeStartAlwaysOnline(e)
    <3> DEFINE r == [client |-> e.client, epoch |-> e.epoch]
    <3>1. /\ events' = events \ {e} /\ e.kind = "Connected"
          /\ refreshers' \subseteq refreshers \cup {r}
      BY <2>3 DEF MaybeStartAlwaysOnline, presenceVars
    <3> QED
      BY <2>1, <3>1
  <2>4. CASE StopAlwaysOnline(e)
    <3>1. events' = events \ {e} /\ refreshers' \subseteq refreshers
      BY <2>4 DEF StopAlwaysOnline, presenceVars
    <3> QED
      BY <2>1, <3>1
  <2> QED
    BY <1>handle, <2>2, <2>3, <2>4 DEF Handle
<1>stutter. CASE UNCHANGED vars
  BY <1>stutter DEF vars, libVars, presenceVars
<1> QED
  BY <1>boot, <1>crash, <1>receive, <1>op, <1>net, <1>handle, <1>stutter
  DEF Next, Step

\* maybeStartAlwaysOnline and stopAlwaysOnline cancel the refresher whose
\* cancel function they overwrite.
LEMMA NextRefresherInv == ASSUME IInv, [Next]_vars PROVE RefresherInv'
<1> USE DEF IInv, RefresherInv
<1>boot. CASE Boot
  BY <1>boot DEF Boot, presenceVars, libVars
<1>crash. CASE Crash
  BY <1>crash DEF Crash
<1>receive. ASSUME NEW o \in Op, Receive(o) PROVE RefresherInv'
  BY <1>receive DEF Receive, presenceVars, libVars
<1>op. ASSUME NEW o \in Op, Operation(o) PROVE RefresherInv'
  BY <1>op, OperationKeeps DEF TypeOK, Refresher
<1>net. ASSUME NEW c \in Op, Dial(c) \/ Watcher(c) \/ Network(c)
        PROVE  RefresherInv'
  BY <1>net, NetworkKeeps
<1>handle. ASSUME NEW e \in events, Handle(e) PROVE RefresherInv'
  <2> DEFINE c == clients[to[e.client]]
  <2>1. e \in Event /\ to[e.client] \in Session /\ c \in Op \cup {None}
    BY DEF TypeOK, PresenceInv, ClientInv, Event
  <2>told. UNCHANGED told
    BY <1>handle, HandleKeeps
  <2>2. CASE UNCHANGED presenceVars
    BY <2>2, <2>told DEF presenceVars
  <2>3. CASE MaybeStartAlwaysOnline(e) /\ c # None
    <3> DEFINE r == [client |-> e.client, epoch |-> e.epoch]
    <3>1. /\ refreshers' = (refreshers \ {presenceCancel[c]}) \cup {r}
          /\ presenceCancel' = [presenceCancel EXCEPT ![c] = r]
          /\ e.kind = "Connected"
      BY <2>3 DEF MaybeStartAlwaysOnline
    <3>2. r \notin refreshers /\ r \in Refresher
      BY <2>1, <3>1 DEF PresenceInv, Event, Refresher
    <3>3. \A d \in Op : presenceCancel[d] # r
      BY <3>2, ConstantsAssumption
    <3>4. r.client # c => told[r.client] # "no"
      BY <2>1 DEF NoClientLost, PresenceInv, Event
    <3> HIDE DEF r, c
    <3> QED
      BY <2>1, <2>told, <2>3, <3>1, <3>2, <3>3, <3>4 DEF TypeOK
  <2>4. CASE StopAlwaysOnline(e) /\ c # None
    <3>1. /\ refreshers' = refreshers \ {presenceCancel[c]}
          /\ presenceCancel' = [presenceCancel EXCEPT ![c] = None]
      BY <2>4 DEF StopAlwaysOnline
    <3> HIDE DEF c
    <3> QED
      BY <2>1, <2>told, <2>4, <3>1 DEF TypeOK
  <2> QED
    BY <1>handle, <2>2, <2>3, <2>4
    DEF Handle, HandleStatus, MaybeStartAlwaysOnline, StopAlwaysOnline
<1>stutter. CASE UNCHANGED vars
  BY <1>stutter DEF vars, presenceVars, libVars
<1> QED
  BY <1>boot, <1>crash, <1>receive, <1>op, <1>net, <1>handle, <1>stutter
  DEF Next, Step

\* What dials, watchers and the network do to QR channels and stored codes.
LEMMA NetworkQR ==
  ASSUME TypeOK, ClientInv, NEW c \in Op, Dial(c) \/ Watcher(c) \/ Network(c)
  PROVE  \/ qrBySession' = qrBySession /\ qrch' = qrch
         \/ /\ qrBySession' = qrBySession
            /\ \/ qrch'[c] \in {"open", "success", "timeout", "error"}
               \/ qrch[c] = "error" /\ qrch'[c] = "errored"
               \/ qrch[c] = "paired"
         \/ /\ qrBySession' = [qrBySession EXCEPT ![to[c]] = c]
            /\ qrch' = qrch /\ qrch[c] = "open"
         \/ qrBySession' = [qrBySession EXCEPT ![to[c]] = None]
<1> USE DEF NetworkFrame, qrVars
<1>1. CASE ComeUp(c) \/ DialError(c) \/ DialErrorStatus(c) \/ NetworkLoss(c)
           \/ LoggedOut(c) \/ StreamReplaced(c)
  <2>1. qrch' = qrch /\ qrBySession' = qrBySession
    BY <1>1 DEF ComeUp, DialError, DialErrorStatus, NetworkLoss, LoggedOut,
                StreamReplaced
  <2> QED
    BY <2>1
<1>2. CASE DialPairing(c) \/ Watcher(c)
  BY <1>2 DEF DialPairing, Watcher, WatcherDelete, WatcherOnline, WatcherError,
              TypeOK
<1>3. CASE QRCode(c) \/ QRTimeout(c) \/ PairingLost(c) \/ PairError(c)
           \/ PairSuccess(c)
  BY <1>3 DEF QRCode, QRTimeout, PairingLost, PairError, PairSuccess,
              TypeOK
<1> QED
  BY <1>1, <1>2, <1>3 DEF Dial, DialPaired, Network, Reconnect

\* QR channels belong to existing clients, so to a session that stays theirs.
LEMMA NextQR == ASSUME IInv, [Next]_vars PROVE QRInv' /\ QRRemoved'
<1> USE ConstantsAssumption DEF IInv, QRInv, QRRemoved
<1>exists. \A s \in Session : qrBySession[s] # None =>
             /\ qrBySession[s] \in Op /\ link[qrBySession[s]] # "none"
             /\ pc[qrBySession[s]] = "ok"
  BY DEF ClientInv, TypeOK
<1>boot. CASE Boot
  BY <1>boot DEF Boot, qrVars
<1>crash. CASE Crash
  BY <1>crash DEF Crash
<1>receive. ASSUME NEW o \in Op, Receive(o) PROVE QRInv' /\ QRRemoved'
  BY <1>receive, <1>exists DEF Receive, qrVars, TypeOK
<1>op. ASSUME NEW o \in Op, Operation(o) PROVE QRInv' /\ QRRemoved'
  <2>1. \A d \in Op : pc[d] = "ok" => qrch'[d] = qrch[d]
    BY <1>op
    DEF Operation, ConnectExisting, ConnectLock, ConnectStatus, ConnectOpen,
        ConnectError, ConnectRegister, DisconnectClient, DisconnectStatus,
        ReloadCheck, ReloadStatus, managerVars, TypeOK
  <2> QED
    BY <1>op, <1>exists, <2>1, OperationKeeps
<1>net. ASSUME NEW c \in Op, Dial(c) \/ Watcher(c) \/ Network(c)
        PROVE  QRInv' /\ QRRemoved'
  <2>1. /\ UNCHANGED to
        /\ \A d \in Op : d # c => qrch'[d] = qrch[d]
        /\ pc[c] = "ok" /\ to[c] \in Session
    BY <1>net, NetworkKeeps DEF ClientInv, TypeOK
  <2> QED
    BY <1>net, <1>exists, <2>1, NetworkQR DEF TypeOK
<1>handle. ASSUME NEW e \in events, Handle(e) PROVE QRInv' /\ QRRemoved'
  BY <1>handle, HandleKeeps
<1>stutter. CASE UNCHANGED vars
  BY <1>stutter DEF vars, qrVars, opVars
<1> QED
  BY <1>boot, <1>crash, <1>receive, <1>op, <1>net, <1>handle, <1>stutter
  DEF Next, Step

\* What operations do to the status: Connect says "connecting" while the
\* session has no client, a reload before it disconnects the one it has.
LEMMA OperationStatus ==
  ASSUME IInv, NEW o \in Op, Operation(o)
  PROVE  \A s \in Session :
           /\ clients'[s] # None /\ link'[clients'[s]] = "up"
              => /\ clients[s] = clients'[s] /\ link[clients[s]] = "up"
                 /\ \/ status'[s] = status[s]
                    \/ status'[s] = "disconnected"
                    \/ pc'[o] = "disconnect.lock" /\ to[o] = s
           /\ pc[o] = "disconnect.lock" /\ to[o] = s => clients'[s] = None
<1> USE ConstantsAssumption
        DEF IInv, TypeOK, ClientInv, Building, Goto, OperationFrame,
            managerVars
<1>1. CASE ConnectExisting(o) \/ ConnectLock(o) \/ ConnectOpen(o)
           \/ ConnectError(o) \/ ReloadCheck(o)
  BY <1>1 DEF ConnectExisting, ConnectLock, ConnectOpen, ConnectError,
              ReloadCheck
<1>2. CASE ConnectStatus(o)
  BY <1>2 DEF ConnectStatus
<1>3. CASE ConnectRegister(o)
  BY <1>3 DEF ConnectRegister
<1>4. CASE DisconnectClient(o)
  BY <1>4 DEF DisconnectClient, Hangup
<1>5. CASE DisconnectStatus(o)
  BY <1>5 DEF DisconnectStatus
<1>6. CASE ReloadStatus(o)
  BY <1>6 DEF ReloadStatus
<1> QED
  BY <1>1, <1>2, <1>3, <1>4, <1>5, <1>6 DEF Operation

\* What dials, watchers and the network do to it: none says "connecting", and
\* a connection that comes up is reported to a handler.
LEMMA NetworkStatus ==
  ASSUME TypeOK, ClientInv, NEW c \in Op, Dial(c) \/ Watcher(c) \/ Network(c)
  PROVE  /\ events \subseteq events'
         /\ \A s \in Session : status'[s] \in {status[s], "offline", "online"}
         /\ link[c] # "up" /\ link'[c] = "up" =>
              \E e \in events' : e.client = c /\ e.stage = "status"
<1> USE DEF NetworkFrame, TypeOK
<1>1. CASE ComeUp(c)
  <2> DEFINE new == [client |-> c, epoch |-> epoch[c] + 1,
                     kind |-> "Connected", stage |-> "status"]
  <2>1. events' = events \cup {new} /\ UNCHANGED status
    BY <1>1 DEF ComeUp, Dispatch
  <2>2. new \in events' /\ new.client = c /\ new.stage = "status"
    BY <2>1
  <2> HIDE DEF new
  <2> QED
    BY <2>1, <2>2
<1>2. CASE DialPairing(c) \/ DialError(c) \/ DialErrorStatus(c)
  BY <1>2 DEF DialPairing, DialError, DialErrorStatus
<1>3. CASE Watcher(c)
  BY <1>3 DEF Watcher, WatcherDelete, WatcherOnline, WatcherError
<1>4. CASE NetworkLoss(c) \/ LoggedOut(c) \/ StreamReplaced(c)
           \/ PairingLost(c)
  BY <1>4 DEF NetworkLoss, LoggedOut, StreamReplaced, PairingLost, Dispatch
<1>5. CASE QRCode(c) \/ QRTimeout(c) \/ PairError(c) \/ PairSuccess(c)
  BY <1>5 DEF QRCode, QRTimeout, PairError, PairSuccess
<1> QED
  BY <1>1, <1>2, <1>3, <1>4, <1>5
  DEF Dial, DialPaired, Network, Reconnect

\* Whatever overwrites the status of a session out of order, its "connecting"
\* stays only as long as somebody is there to overwrite it.
LEMMA NextStatusInv == ASSUME IInv, [Next]_vars PROVE StatusInv'
<1> USE ConstantsAssumption DEF IInv, StatusInv
<1>boot. CASE Boot
  BY <1>boot DEF Boot, libVars, MutexInv, ClientInv, TypeOK
<1>crash. CASE Crash
  BY <1>crash DEF Crash
<1>receive. ASSUME NEW o \in Op, Receive(o) PROVE StatusInv'
  <2>1. /\ UNCHANGED <<clients, status, link, events>>
        /\ \A p \in Op : p # o => to'[p] = to[p] /\ pc'[p] = pc[p]
        /\ pc[o] = "idle"
    BY <1>receive DEF Receive, libVars, TypeOK
  <2>2. \A e \in events : e.client \in Op /\ e.client # o
    BY <2>1 DEF TypeOK, Event, PresenceInv, ClientInv
  <2> QED
    BY <2>1, <2>2
<1>op. ASSUME NEW o \in Op, Operation(o) PROVE StatusInv'
  <2>1. \A p \in Op : p # o => pc'[p] = pc[p]
    BY <1>op
    DEF Operation, ConnectExisting, ConnectLock, ConnectStatus, ConnectOpen,
        ConnectError, ConnectRegister, DisconnectClient, DisconnectStatus,
        ReloadCheck, ReloadStatus, Goto, TypeOK
  <2> QED
    BY <1>op, <2>1, OperationStatus, OperationKeeps
<1>net. ASSUME NEW c \in Op, Dial(c) \/ Watcher(c) \/ Network(c)
        PROVE  StatusInv'
  <2>1. /\ UNCHANGED <<clients, to, pc>>
        /\ \A d \in Op : d # c => link'[d] = link[d]
    BY <1>net, NetworkKeeps
  <2>2. \A s \in Session : clients[s] # None =>
          clients[s] \in Op /\ to[clients[s]] = s
    BY DEF ClientInv, TypeOK
  <2> QED
    BY <1>net, <2>1, <2>2, NetworkStatus
<1>handle. ASSUME NEW e \in events, Handle(e) PROVE StatusInv'
  <2>1. UNCHANGED <<clients, link, to, pc>> /\ e \in Event
    BY <1>handle, HandleKeeps DEF TypeOK
  <2>2. CASE HandleStatus(e)
    <3>1. StatusOf(e.kind) # "connecting"
      BY <2>1 DEF Event, EventKind, StatusOf
    <3>2. /\ \A s \in Session : s # to[e.client] => status'[s] = status[s]
          /\ to[e.client] \in Session => status'[to[e.client]] # "connecting"
          /\ events \ {e} \subseteq events'
      BY <2>2, <3>1 DEF HandleStatus, TypeOK
    <3> QED
      BY <2>1, <3>2
  <2>3. CASE MaybeStartAlwaysOnline(e) \/ StopAlwaysOnline(e)
    BY <2>1, <2>3 DEF MaybeStartAlwaysOnline, StopAlwaysOnline
  <2> QED
    BY <1>handle, <2>2, <2>3 DEF Handle
<1>stutter. CASE UNCHANGED vars
  BY <1>stutter DEF vars, opVars, libVars
<1> QED
  BY <1>boot, <1>crash, <1>receive, <1>op, <1>net, <1>handle, <1>stutter
  DEF Next, Step

-----------------------------------------------------------------------------
(* The theorems.                                                           *)

\* The inductive invariant holds of a fresh manager.
LEMMA InitIInv == ASSUME Init PROVE IInv
<1>1. TypeOK
  BY InitTypeOK
<1> QED
  BY <1>1, ConstantsAssumption
  DEF Init, IInv, TypeOK, MutexInv, ClientInv, ReloadInv, PresenceInv, QRInv,
      StatusInv, NoClientLost, HangupInv, RefresherInv, QRRemoved,
      Building, Locked

\* The inductive invariant is inductive.
LEMMA NextIInv == ASSUME IInv, [Next]_vars PROVE IInv'
<1>1. TypeOK'
  BY NextTypeOK DEF IInv
<1> QED
  BY <1>1, NextMutexInv, NextClientInv, NextNoClientLost, NextReloadInv,
     NextHangupInv, NextPresenceInv, NextRefresherInv, NextQR,
     NextStatusInv
  DEF IInv

\* The strengthening of the safety properties of Connect, Disconnect, Reload,
\* the handlers and the QR watcher holds in every reachable state.
THEOREM Invariance == Spec => []IInv
  BY InitIInv, NextIInv, PTL DEF Spec

\* No client object escapes the registry without having been told to
\* disconnect, whatever the interleaving of Connect, Disconnect and Reload.
THEOREM ClientsNeverLost == Spec => []NoClientLost
<1>1. IInv => NoClientLost
  BY DEF IInv
<1> QED
  BY <1>1, Invariance, PTL

\* A reload that returns without error disconnected the client it had seen.
THEOREM ReloadAlwaysReplaces == Spec => []ReloadReplaces
<1>1. IInv => ReloadReplaces
  BY DEF IInv, ReloadInv, ReloadReplaces
<1> QED
  BY <1>1, Invariance, PTL

\* Whatever clients of a session come and go and in whatever order their events
\* are handled, the registered one has at most one refresher, and its own entry
\* can cancel it.
THEOREM RefreshersAlwaysOwned == Spec => []RefreshersOwned
<1>1. ASSUME IInv PROVE RefreshersOwned
  <2> SUFFICES ASSUME NEW s \in Session, clients[s] # None
               PROVE  /\ \A r \in refreshers : r.client = clients[s]
                             => presenceCancel[clients[s]] = r
                      /\ presenceCancel[clients[s]] # None
                         => presenceCancel[clients[s]] \in refreshers
    BY DEF RefreshersOwned
  <2>1. clients[s] \in Op /\ told[clients[s]] = "no"
    BY <1>1 DEF IInv, TypeOK, ClientInv, NoClientLost
  <2>2. \A r \in refreshers : r # None
    BY <1>1, ConstantsAssumption DEF IInv, TypeOK
  <2> QED
    BY <1>1, <2>1, <2>2 DEF IInv, RefresherInv
<1> QED
  BY <1>1, Invariance, PTL

\* Only an error lets a QR code outlive its pairing.
THEOREM QRAlwaysRemoved == Spec => []QRRemoved
<1>1. IInv => QRRemoved
  BY DEF IInv
<1> QED
  BY <1>1, Invariance, PTL

\* When all operations, dials, watchers and handlers of a session have run, a
\* connected one is not "connecting" in Redis, whatever order they wrote in.
THEOREM ConnectingAlwaysEnds == Spec => []ConnectingEnds
<1>1. IInv => ConnectingEnds
  BY DEF IInv, StatusInv, ConnectingEnds, Quiet, Waiting
<1> QED
  BY <1>1, Invariance, PTL

\* mu is never left locked: its holder is an operation of the living process,
\* between taking and releasing it. OperationsReturn adds that it goes on.
THEOREM LockNeverLeaked ==
  Spec => [](mu # None => mu \in Op /\ proc = "up" /\ pc[mu] \in Locked)
<1>1. IInv => (mu # None => mu \in Op /\ proc = "up" /\ pc[mu] \in Locked)
  BY DEF IInv, TypeOK, MutexInv
<1> QED
  BY <1>1, Invariance, PTL

\* A connection, live or being restored, that is not the registered client's
\* is one whose client Disconnect found before its dial: no other order of
\* Disconnect, dial, reconnection and pairing leaves one behind.
THEOREM EscapesAreEarly == Spec => []OnlyEarlyEscapes
<1>1. IInv => OnlyEarlyEscapes
  BY DEF IInv, TypeOK, NoClientLost, HangupInv, OnlyEarlyEscapes
<1> QED
  BY <1>1, Invariance, PTL

\* GetQR never shows a session the code of another one, and a code that is not
\* of its registered client is of one Disconnect was called on.
QROfOwnClient ==
    \A s \in Session : LET c == qrBySession[s] IN
        c # None => to[c] = s /\ (c = clients[s] \/ told[c] # "no")
THEOREM QRAlwaysOwn == Spec => []QROfOwnClient
<1>1. IInv => QROfOwnClient
  BY ConstantsAssumption
  DEF IInv, TypeOK, ClientInv, QRInv, QRRemoved, NoClientLost, QROfOwnClient
<1> QED
  BY <1>1, Invariance, PTL

-----------------------------------------------------------------------------
(* What a step may do.                                                     *)

\* An operation ends well by the steps that find or register a client, or by
\* the last step of a Disconnect.
LEMMA EndsWell ==
  ASSUME IInv, [Next]_vars, NEW o \in Op, pc[o] # "ok", pc'[o] = "ok"
  PROVE  \/ ConnectExisting(o) \/ ConnectRegister(o)
         \/ DisconnectStatus(o) /\ job[o] # "reload"
<1> USE ConstantsAssumption DEF IInv, TypeOK, Goto
<1>boot. CASE Boot
  BY <1>boot DEF Boot
<1>crash. CASE Crash
  BY <1>crash DEF Crash
<1>receive. ASSUME NEW p \in Op, Receive(p) PROVE FALSE
  BY <1>receive, FirstStepIs DEF Receive
<1>op. ASSUME NEW p \in Op, Operation(p)
       PROVE  \/ ConnectExisting(o) \/ ConnectRegister(o)
              \/ DisconnectStatus(o) /\ job[o] # "reload"
  <2>1. CASE ConnectExisting(p) \/ ConnectRegister(p)
    <3>1. p = o
      BY <2>1 DEF ConnectExisting, ConnectRegister
    <3> QED
      BY <2>1, <3>1
  <2>2. CASE DisconnectStatus(p)
    <3>1. p = o /\ job[o] # "reload"
      BY <2>2 DEF DisconnectStatus
    <3> QED
      BY <2>2, <3>1
  <2>3. CASE \/ ConnectLock(p) \/ ConnectStatus(p) \/ ConnectOpen(p)
             \/ ConnectError(p) \/ DisconnectClient(p) \/ ReloadCheck(p)
             \/ ReloadStatus(p)
    BY <2>3
    DEF ConnectLock, ConnectStatus, ConnectOpen, ConnectError,
        DisconnectClient, ReloadCheck, ReloadStatus
  <2> QED
    BY <1>op, <2>1, <2>2, <2>3 DEF Operation
<1>net. ASSUME NEW c \in Op, Dial(c) \/ Watcher(c) \/ Network(c) PROVE FALSE
  BY <1>net, NetworkKeeps
<1>handle. ASSUME NEW e \in events, Handle(e) PROVE FALSE
  BY <1>handle, HandleKeeps
<1>stutter. CASE UNCHANGED vars
  BY <1>stutter DEF vars, opVars
<1> QED
  BY <1>boot, <1>crash, <1>receive, <1>op, <1>net, <1>handle, <1>stutter
  DEF Next, Step

\* A reload that succeeds leaves another client than the one it saw, whatever
\* was connected and disconnected between its three holds of mu.
THEOREM ReloadAlwaysRenews == Spec => ReloadRenews
<1>1. ASSUME IInv, [Next]_vars PROVE ReloadLeavesAnother
  <2> SUFFICES ASSUME NEW o \in Op, job[o] = "reload", pc[o] # "ok",
                      pc'[o] = "ok"
               PROVE  clients'[to[o]] \notin {None, seen[o]}
    BY DEF ReloadLeavesAnother
  <2>1. ConnectExisting(o) \/ ConnectRegister(o)
    BY <1>1, EndsWell
  <2>2. seen[o] \in Op /\ told[seen[o]] # "no" /\ to[o] \in Session
    BY <1>1, <2>1
    DEF IInv, TypeOK, ReloadInv, Building, ConnectExisting, ConnectRegister
  <2>3. CASE ConnectExisting(o)
    BY <1>1, <2>2, <2>3
    DEF ConnectExisting, managerVars, IInv, TypeOK, ClientInv, NoClientLost
  <2>4. CASE ConnectRegister(o)
    <3>1. link[o] = "none" /\ told[o] = "no"
      BY <1>1, <2>4 DEF ConnectRegister, IInv, ClientInv, TypeOK
    <3> QED
      BY <1>1, <2>2, <2>4, <3>1, ConstantsAssumption
      DEF ConnectRegister, IInv, TypeOK
  <2> QED
    BY <2>1, <2>3, <2>4
<1> QED
  BY <1>1, Invariance, PTL DEF Spec, ReloadRenews

\* Nothing but an unlinking by the phone undoes a pairing.
THEOREM PairingAlwaysKept == Spec => PairingKept
<1>1. ASSUME TypeOK, [Next]_vars PROVE PairingUndone
  <2>1. ASSUME store' = store PROVE PairingUndone
    BY <2>1 DEF PairingUndone
  <2>2. ASSUME NEW s \in Session, NEW v \in {"unpaired", "paired"},
               store' = [store EXCEPT ![s] = v],
               store[s] = "paired" => v = "paired"
        PROVE  PairingUndone
    BY <1>1, <2>2 DEF PairingUndone, TypeOK
  <2>3. ASSUME NEW o \in Op, Receive(o) \/ Operation(o) PROVE PairingUndone
    <3>1. CASE ConnectOpen(o) \/ ConnectError(o)
      <4>1. to[o] \in Session
        BY <1>1, <3>1 DEF TypeOK, ConnectOpen, ConnectError
      <4> QED
        BY <2>1, <2>2, <3>1, <4>1 DEF ConnectOpen, ConnectError
    <3>2. CASE ~ConnectOpen(o) /\ ~ConnectError(o)
      BY <2>1, <2>3, <3>2
      DEF Receive, Operation, ConnectExisting, ConnectLock, ConnectStatus,
          ConnectRegister, DisconnectClient, DisconnectStatus, ReloadCheck,
          ReloadStatus
    <3> QED
      BY <3>1, <3>2
  <2>4. ASSUME NEW c \in Op, Dial(c) \/ Watcher(c) PROVE PairingUndone
    BY <2>1, <2>4
    DEF Dial, DialPaired, DialPairing, DialError, DialErrorStatus, ComeUp,
        Watcher, WatcherDelete, WatcherOnline, WatcherError
  <2>5. ASSUME NEW c \in Op, Network(c) PROVE PairingUndone
    <3>1. CASE PairSuccess(c)
      <4>1. store' = [store EXCEPT ![to[c]] = "paired"]
        BY <3>1 DEF PairSuccess
      <4> QED
        BY <1>1, <4>1 DEF PairingUndone, TypeOK
    <3>2. CASE LoggedOut(c)
      <4> DEFINE e == [client |-> c, epoch |-> epoch[c], kind |-> "LoggedOut",
                       stage |-> "status"]
      <4>1. /\ store' = [store EXCEPT ![to[c]] = "unpaired"]
            /\ link[c] = "up" /\ e \in events'
        BY <3>2 DEF LoggedOut, Dispatch
      <4>2. e.client = c /\ e.kind = "LoggedOut"
        OBVIOUS
      <4> HIDE DEF e
      <4> QED
        BY <1>1, <4>1, <4>2 DEF PairingUndone, TypeOK
    <3>3. CASE ~PairSuccess(c) /\ ~LoggedOut(c)
      BY <2>1, <2>5, <3>3
      DEF Network, NetworkLoss, Reconnect, ComeUp, StreamReplaced, QRCode,
          QRTimeout, PairingLost, PairError
    <3> QED
      BY <3>1, <3>2, <3>3
  <2>6. ASSUME NEW e \in events, Handle(e) PROVE PairingUndone
    BY <2>1, <2>6, HandleKeeps
  <2>7. CASE Boot \/ Crash \/ UNCHANGED vars
    BY <2>1, <2>7 DEF Boot, Crash, vars
  <2> QED
    BY <1>1, <2>3, <2>4, <2>5, <2>6, <2>7 DEF Next, Step
<1> QED
  BY <1>1, TypeCorrect, PTL DEF Spec, PairingKept

-----------------------------------------------------------------------------
(* SessionManager implements Registry.                                     *)

\* A fresh manager is an empty registry.
LEMMA InitRefines == ASSUME Init PROVE R!Init
  BY DEF Init, R!Init

\* Connect's registration is Open, Disconnect's removal is Close, the death
\* of the process is Restart; every other step leaves the registry alone.
LEMMA NextRefines == ASSUME IInv, [Next]_vars PROVE [R!Next]_(R!vars)
<1> USE DEF IInv, R!vars
<1>same. ASSUME UNCHANGED <<clients, told>>,
                \A d \in Op : link'[d] = "none" <=> link[d] = "none"
         PROVE  UNCHANGED R!vars
  BY <1>same
<1>boot. CASE Boot
  BY <1>boot, <1>same DEF Boot, libVars
<1>crash. CASE Crash
  BY <1>crash DEF Crash, R!Next, R!Restart
<1>receive. ASSUME NEW o \in Op, Receive(o) PROVE UNCHANGED R!vars
  BY <1>receive, <1>same DEF Receive, libVars
<1>register. ASSUME NEW o \in Op, ConnectRegister(o) PROVE R!Next
  <2>1. /\ to[o] \in Session /\ clients[to[o]] = None
        /\ link[o] = "none"
    BY <1>register DEF ConnectRegister, ClientInv, TypeOK, Building
  <2>2. R!Open(to[o], o)
    BY <1>register, <2>1 DEF ConnectRegister, R!Open, TypeOK
  <2> QED
    BY <2>1, <2>2 DEF R!Next
<1>disconnect. ASSUME NEW o \in Op, DisconnectClient(o)
               PROVE  [R!Next]_(R!vars)
  <2> DEFINE c == clients[to[o]]
  <2>1. CASE c = None
    BY <1>disconnect, <2>1, <1>same DEF DisconnectClient
  <2>2. CASE c # None
    <3>1. /\ to[o] \in Session /\ c \in Op
          /\ clients' = [clients EXCEPT ![to[o]] = None]
          /\ \A d \in Op : /\ link'[d] = "none" <=> link[d] = "none"
                           /\ told'[d] # "no" <=> told[d] # "no" \/ d = c
      BY <1>disconnect, <2>2
      DEF DisconnectClient, Hangup, TypeOK, ClientInv
    <3> HIDE DEF c
    <3>2. \E s \in Session : R!Close(s)
      BY <2>2, <3>1 DEF R!Close, c
    <3> QED
      BY <3>2 DEF R!Next
  <2> QED
    BY <2>1, <2>2
<1>op. ASSUME NEW o \in Op, Operation(o), ~ConnectRegister(o),
              ~DisconnectClient(o)
       PROVE  UNCHANGED R!vars
  <2>1. UNCHANGED <<clients, told, link>>
    BY <1>op
    DEF Operation, ConnectExisting, ConnectLock, ConnectStatus, ConnectOpen,
        ConnectError, DisconnectStatus, ReloadCheck, ReloadStatus, managerVars
  <2> QED
    BY <2>1, <1>same
<1>net. ASSUME NEW c \in Op, Dial(c) \/ Watcher(c) \/ Network(c)
        PROVE  UNCHANGED R!vars
  BY <1>net, <1>same, NetworkKeeps
<1>handle. ASSUME NEW e \in events, Handle(e) PROVE UNCHANGED R!vars
  BY <1>handle, <1>same, HandleKeeps
<1>stutter. CASE UNCHANGED vars
  BY <1>stutter, <1>same DEF vars, libVars
<1> QED
  BY <1>boot, <1>crash, <1>receive, <1>register, <1>disconnect, <1>op, <1>net,
     <1>handle, <1>stutter
  DEF Next, Step

\* Under mu, Connect and Disconnect make the manager a registry of one client
\* per session, each registered once and told to stop as it leaves.
THEOREM Refinement == Spec => ImplementsRegistry
<1>1. ImplementsRegistry <=> R!Init /\ [][R!Next]_(R!vars)
  BY DEF ImplementsRegistry, R!Spec
<1> QED
  BY <1>1, InitRefines, NextRefines, Invariance, PTL DEF Spec

=============================================================================
