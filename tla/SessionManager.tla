--------------------------- MODULE SessionManager ---------------------------
(***************************************************************************)
(* The session life cycle of internal/provider: ClientManager.Connect,     *)
(* Disconnect, Reload and RestoreSavedSessions called concurrently by HTTP *)
(* handlers and restore goroutines; the dial goroutine each Connect        *)
(* spawns; the QR watcher; the event handlers that write the Redis status  *)
(* and start or stop the always-online refresher; crash and restart.       *)
(*                                                                         *)
(* An operation is a one-shot HTTP request or the goroutine restoring a    *)
(* session, which bears the session's own name. A client object bears the  *)
(* name of the operation whose Connect created it. The whatsmeow library   *)
(* is external: it is modelled by what client.go, qr.go and events.go ask  *)
(* of it and receive from it. Redis is assumed reachable.                  *)
(***************************************************************************)
EXTENDS Naturals, FiniteSets

CONSTANTS
    Session,        \* session ids
    Request,        \* HTTP requests that may be received
    None,           \* no client, no operation, no refresher
    AlwaysOnline,   \* the process-wide ALWAYS_ONLINE flag
    UnoAlwaysOnline,\* values a fetch of unoapi-config may bring for it
    InitialStore,   \* states session.db may be in at first start
    MaxEpoch,       \* bound: times one client's connection comes up
    MaxPending,     \* bound: events dispatched and not yet handled
    MaxCrashes      \* bound: process deaths

Op == Session \cup Request

\* A refresher is known by the client it was started for and the Connected
\* event (of that epoch) that started it.
Refresher == [client : Op, epoch : 0..MaxEpoch]

ASSUME ConstantsAssumption ==
    /\ Session \cap Request = {}
    /\ None \notin Op \cup Refresher
    /\ AlwaysOnline \in BOOLEAN
    /\ UnoAlwaysOnline \subseteq BOOLEAN
    /\ InitialStore \subseteq {"absent", "unpaired", "paired"}
    /\ MaxEpoch \in Nat \ {0}
    /\ MaxPending \in Nat \ {0}
    /\ MaxCrashes \in Nat

VARIABLES
    proc,           \* "up" or "down"
    crashes,        \* process deaths so far
    mu,             \* writer holding ClientManager.mu, or None
    pc, job, to,    \* per operation: next step, kind, session
    seen,           \* per reload: the client its check found registered
    clients,        \* ClientManager.clients: session -> client
    alwaysOnline,   \* effective always-online flag of each session
    presenceCancel, \* clientEntry.presenceCancel: client -> refresher
    refreshers,     \* always-online goroutines running
    dev,            \* per client: was its device paired
    link,           \* per client: state of its connection
    told,           \* per client: when the manager called Disconnect on it
    epoch,          \* per client: times its connection came up
    latest,         \* per session: client whose connection came up last
    events,         \* events dispatched, each with its handler's next step
    qrch,           \* per client: QR channel and its watcher
    qrBySession,    \* the QR stored for each session, by its client
    status,         \* unoapi-status:{phone} in Redis
    store           \* session.db of each session

opVars       == <<pc, job, to, seen>>
presenceVars == <<presenceCancel, refreshers>>
libVars      == <<dev, link, told, epoch, latest, events>>
qrVars       == <<qrch, qrBySession>>
managerVars  == <<clients, alwaysOnline, dev, link, told, qrch>>
procVars     == <<proc, crashes>>
vars == <<procVars, mu, opVars, clients, alwaysOnline, presenceVars, libVars,
          qrVars, status, store>>

Jobs == {"none", "connect", "disconnect", "reload"}

Locked == {"connect.status", "connect.open", "connect.register",
           "disconnect.status"}
Waiting == {"connect.lock", "disconnect.lock", "reload.check",
            "reload.status"}
Finished == {"ok", "error", "lost", "skipped"}

StatusValue == {"none", "connecting", "online", "offline", "disconnected",
                "restart_required"}

EventKind == {"Connected", "Disconnected", "LoggedOut", "StreamReplaced"}

Event == [client : Op, epoch : 0..MaxEpoch, kind : EventKind,
          stage : {"status", "presence"}]

FirstStep(k) == CASE k = "connect"    -> "connect.lock"
                  [] k = "disconnect" -> "disconnect.lock"
                  [] k = "reload"     -> "reload.check"

-----------------------------------------------------------------------------
Init ==
    /\ proc = "down"
    /\ crashes = 0
    /\ mu = None
    /\ pc = [o \in Op |-> "idle"]
    /\ job = [o \in Op |-> "none"]
    /\ to = [o \in Op |-> IF o \in Session THEN o ELSE None]
    /\ seen = [o \in Op |-> None]
    /\ clients = [s \in Session |-> None]
    /\ alwaysOnline = [s \in Session |-> AlwaysOnline]
    /\ presenceCancel = [c \in Op |-> None]
    /\ refreshers = {}
    /\ dev = [c \in Op |-> "unpaired"]
    /\ link = [c \in Op |-> "none"]
    /\ told = [c \in Op |-> "no"]
    /\ epoch = [c \in Op |-> 0]
    /\ latest = [s \in Session |-> None]
    /\ events = {}
    /\ qrch = [c \in Op |-> "none"]
    /\ qrBySession = [s \in Session |-> None]
    /\ status = [s \in Session |-> "none"]
    /\ store \in [Session -> InitialStore]

\* Mutant of Boot: the test on session.db is the wrong way round.
BootInverted ==
    /\ proc = "down"
    /\ proc' = "up"
    /\ \E skipped \in SUBSET Session :
         pc' = [o \in Op |-> IF o \notin Session \/ store[o] # "absent"
                            THEN pc[o]
                            ELSE IF o \in skipped THEN "skipped"
                            ELSE "connect.lock"]
    /\ job' = [o \in Op |-> IF o \in Session THEN "connect" ELSE job[o]]
    /\ UNCHANGED <<crashes, mu, to, seen, clients, alwaysOnline, presenceVars,
                   libVars, qrVars, status, store>>

\* RestoreSavedSessions: one Connect goroutine per directory of SESSION_STORE
\* that holds a session.db, started before the HTTP server. An error of ReadDir
\* skips every session (main logs it and goes on), one of Stat its own.
Boot ==
    /\ proc = "down"
    /\ proc' = "up"
    /\ \E skipped \in SUBSET Session :
         pc' = [o \in Op |-> IF o \notin Session \/ store[o] = "absent"
                            THEN pc[o]
                            ELSE IF o \in skipped THEN "skipped"
                            ELSE "connect.lock"]
    /\ job' = [o \in Op |-> IF o \in Session THEN "connect" ELSE job[o]]
    /\ UNCHANGED <<crashes, mu, to, seen, clients, alwaysOnline, presenceVars,
                   libVars, qrVars, status, store>>

\* The process dies (killed, a fatal error, or main returning after a signal,
\* which disconnects no client): memory and connections go, Redis and the
\* session databases stay.
Crash ==
    /\ proc = "up"
    /\ crashes < MaxCrashes
    /\ crashes' = crashes + 1
    /\ proc' = "down"
    /\ mu' = None
    /\ pc' = [o \in Op |-> IF o \in Session \/ pc[o] = "idle"
                           THEN "idle" ELSE "lost"]
    /\ seen' = [o \in Op |-> None]
    /\ clients' = [s \in Session |-> None]
    /\ alwaysOnline' = [s \in Session |-> AlwaysOnline]
    /\ presenceCancel' = [c \in Op |-> None]
    /\ refreshers' = {}
    /\ dev' = [c \in Op |-> "unpaired"]
    /\ link' = [c \in Op |-> "none"]
    /\ told' = [c \in Op |-> "no"]
    /\ epoch' = [c \in Op |-> 0]
    /\ latest' = [s \in Session |-> None]
    /\ events' = {}
    /\ qrch' = [c \in Op |-> "none"]
    /\ qrBySession' = [s \in Session |-> None]
    /\ UNCHANGED <<job, to, status, store>>

\* A request reaches handleConnect, handleDisconnect or handleReload.
Receive(o) ==
    /\ proc = "up"
    /\ o \in Request
    /\ pc[o] = "idle"
    /\ \E s \in Session, k \in Jobs \ {"none"} :
         /\ to' = [to EXCEPT ![o] = s]
         /\ job' = [job EXCEPT ![o] = k]
         /\ pc' = [pc EXCEPT ![o] = FirstStep(k)]
    /\ UNCHANGED <<procVars, mu, seen, clients, alwaysOnline, presenceVars,
                   libVars, qrVars, status, store>>

-----------------------------------------------------------------------------
(* Connect, under mu from its first line to its return.                    *)

OperationFrame ==
    UNCHANGED <<procVars, job, to, presenceVars, epoch, latest, events,
                qrBySession>>

Goto(o, label) == pc' = [pc EXCEPT ![o] = label]

\* A client is already registered: it is returned as it is.
ConnectExisting(o) ==
    /\ pc[o] = "connect.lock" /\ mu = None
    /\ clients[to[o]] # None
    /\ Goto(o, "ok")
    /\ OperationFrame /\ UNCHANGED <<mu, managerVars, seen, status, store>>

\* Mutant of ConnectLock: the registry is not looked at again under the lock.
ConnectLockUnchecked(o) ==
    /\ pc[o] = "connect.lock" /\ mu = None
    /\ mu' = o /\ Goto(o, "connect.status")
    /\ OperationFrame /\ UNCHANGED <<managerVars, seen, status, store>>

ConnectLock(o) ==
    /\ pc[o] = "connect.lock" /\ mu = None
    /\ clients[to[o]] = None
    /\ mu' = o /\ Goto(o, "connect.status")
    /\ OperationFrame /\ UNCHANGED <<managerVars, seen, status, store>>

ConnectStatus(o) ==
    /\ pc[o] = "connect.status"
    /\ status' = [status EXCEPT ![to[o]] = "connecting"]
    /\ Goto(o, "connect.open")
    /\ OperationFrame /\ UNCHANGED <<mu, managerVars, seen, store>>

\* Mutant of ConnectOpen: session.db is made anew.
ConnectOpenAnew(o) ==
    /\ pc[o] = "connect.open"
    /\ store' = [store EXCEPT ![to[o]] = "unpaired"]
    /\ dev' = [dev EXCEPT ![o] = "unpaired"] /\ Goto(o, "connect.register")
    /\ OperationFrame
    /\ UNCHANGED <<mu, seen, clients, alwaysOnline, link, told, qrch, status>>

\* MkdirAll, sqlstore.New (which creates session.db) and GetFirstDevice; the
\* client object is built around the device found, or a new unpaired one.
ConnectOpen(o) ==
    LET s == to[o]
        found == IF store[s] = "paired" THEN "paired" ELSE "unpaired"
    IN  /\ pc[o] = "connect.open"
        /\ store' = [store EXCEPT ![s] = found]
        /\ dev' = [dev EXCEPT ![o] = found] /\ Goto(o, "connect.register")
        /\ OperationFrame
        /\ UNCHANGED <<mu, seen, clients, alwaysOnline, link, told, qrch,
                       status>>

\* Mutant of ConnectError: an error return that leaves mu locked.
ConnectErrorLocked(o) ==
    /\ pc[o] = "connect.open"
    /\ Goto(o, "error")
    /\ OperationFrame /\ UNCHANGED <<mu, managerVars, seen, status, store>>

\* One of them fails, before or after the file was created: the error is
\* returned and the status stays "connecting".
ConnectError(o) ==
    LET s == to[o]
    IN  /\ pc[o] = "connect.open"
        /\ \/ UNCHANGED store
           \/ store[s] = "absent" /\ store' = [store EXCEPT ![s] = "unpaired"]
        /\ mu' = None /\ Goto(o, "error")
        /\ OperationFrame /\ UNCHANGED <<managerVars, seen, status>>

\* QR channel and watcher (unpaired device only), overrides, event handlers,
\* registry entry, dial goroutine, unlock.
ConnectRegister(o) ==
    LET s == to[o]
    IN  /\ pc[o] = "connect.register"
        /\ qrch' = [qrch EXCEPT ![o] =
                      IF dev[o] = "unpaired" THEN "idle" ELSE "none"]
        /\ \E v \in UnoAlwaysOnline \cup {alwaysOnline[s]} :
             alwaysOnline' = [alwaysOnline EXCEPT ![s] = v]
        /\ clients' = [clients EXCEPT ![s] = o]
        /\ link' = [link EXCEPT ![o] = "new"]
        /\ mu' = None /\ Goto(o, "ok")
        /\ OperationFrame /\ UNCHANGED <<seen, dev, told, status, store>>

-----------------------------------------------------------------------------
(* Disconnect, under mu; Reload, which takes mu three times.               *)

\* What Client.Disconnect does to a connection: nothing when the client has
\* not been dialled yet or its dial failed; otherwise it is closed for good,
\* automatic reconnection included.
Hangup(l) == IF l \in {"pairing", "up", "down"} THEN "closed" ELSE l

\* Mutant of DisconnectClient: the entry goes, its client is not disconnected.
DisconnectForgets(o) ==
    /\ pc[o] = "disconnect.lock"
    /\ mu = None
    /\ mu' = o
    /\ clients' = [clients EXCEPT ![to[o]] = None]
    /\ Goto(o, "disconnect.status")
    /\ OperationFrame
    /\ UNCHANGED <<seen, alwaysOnline, dev, link, told, qrch, status, store>>

DisconnectClient(o) ==
    LET s == to[o]
        c == clients[s]
    IN  /\ pc[o] = "disconnect.lock"
        /\ mu = None
        /\ mu' = o
        /\ IF c = None
           THEN UNCHANGED <<told, link, clients>>
           ELSE /\ told' = [told EXCEPT ![c] =
                              IF link[c] = "new" THEN "early" ELSE "late"]
                /\ link' = [link EXCEPT ![c] = Hangup(link[c])]
                /\ clients' = [clients EXCEPT ![s] = None]
        /\ Goto(o, "disconnect.status")
        /\ OperationFrame
        /\ UNCHANGED <<seen, alwaysOnline, dev, qrch, status, store>>

DisconnectStatus(o) ==
    /\ pc[o] = "disconnect.status"
    /\ status' = [status EXCEPT ![to[o]] = "disconnected"]
    /\ mu' = None
    /\ Goto(o, IF job[o] = "reload" THEN "connect.lock" ELSE "ok")
    /\ OperationFrame /\ UNCHANGED <<managerVars, seen, store>>

\* Reload looks the session up under RLock and then lets go of it.
ReloadCheck(o) ==
    /\ pc[o] = "reload.check" /\ mu = None
    /\ seen' = [seen EXCEPT ![o] = clients[to[o]]]
    /\ Goto(o, IF clients[to[o]] = None THEN "error" ELSE "reload.status")
    /\ OperationFrame /\ UNCHANGED <<mu, managerVars, status, store>>

\* Mutant of ReloadStatus: it connects without disconnecting first.
ReloadStatusOnly(o) ==
    /\ pc[o] = "reload.status"
    /\ status' = [status EXCEPT ![to[o]] = "connecting"]
    /\ Goto(o, "connect.lock")
    /\ OperationFrame /\ UNCHANGED <<mu, managerVars, seen, store>>

ReloadStatus(o) ==
    /\ pc[o] = "reload.status"
    /\ status' = [status EXCEPT ![to[o]] = "connecting"]
    /\ Goto(o, "disconnect.lock")
    /\ OperationFrame /\ UNCHANGED <<mu, managerVars, seen, store>>

-----------------------------------------------------------------------------
(* The dial goroutine of client c, and its connection afterwards.          *)

NetworkFrame ==
    UNCHANGED <<procVars, mu, opVars, clients, alwaysOnline, presenceVars,
                told>>

Dispatch(c, k, n) ==
    /\ Cardinality(events) < MaxPending
    /\ events' = events \cup
         {[client |-> c, epoch |-> n, kind |-> k, stage |-> "status"]}

\* The connection of c comes up (again): the library says so to the handler.
ComeUp(c) ==
    /\ epoch[c] < MaxEpoch
    /\ link' = [link EXCEPT ![c] = "up"]
    /\ epoch' = [epoch EXCEPT ![c] = @ + 1]
    /\ latest' = [latest EXCEPT ![to[c]] = c]
    /\ Dispatch(c, "Connected", epoch[c] + 1)
    /\ NetworkFrame /\ UNCHANGED <<qrVars, dev, status, store>>

DialPaired(c) ==
    /\ link[c] = "new" /\ dev[c] = "paired"
    /\ ComeUp(c)

DialPairing(c) ==
    /\ link[c] = "new" /\ dev[c] = "unpaired"
    /\ link' = [link EXCEPT ![c] = "pairing"]
    /\ qrch' = [qrch EXCEPT ![c] = "open"]
    /\ NetworkFrame
    /\ UNCHANGED <<dev, epoch, latest, events, qrBySession, status, store>>

\* cli.Connect returns an error; nobody dials this client again.
DialError(c) ==
    /\ link[c] = "new"
    /\ link' = [link EXCEPT ![c] = "failed"]
    /\ NetworkFrame
    /\ UNCHANGED <<qrVars, dev, epoch, latest, events, status, store>>

DialErrorStatus(c) ==
    /\ link[c] = "failed"
    /\ link' = [link EXCEPT ![c] = "closed"]
    /\ status' = [status EXCEPT ![to[c]] = "offline"]
    /\ NetworkFrame /\ UNCHANGED <<qrVars, dev, epoch, latest, events, store>>

\* The network drops an established connection; the library will reconnect.
NetworkLoss(c) ==
    /\ link[c] = "up"
    /\ link' = [link EXCEPT ![c] = "down"]
    /\ Dispatch(c, "Disconnected", epoch[c])
    /\ NetworkFrame /\ UNCHANGED <<qrVars, dev, epoch, latest, status, store>>

\* EnableAutoReconnect, or the restart of the stream after pairing.
Reconnect(c) ==
    /\ link[c] = "down" /\ ComeUp(c)

\* The phone unlinks the device: the library deletes it from the store.
LoggedOut(c) ==
    /\ link[c] = "up"
    /\ link' = [link EXCEPT ![c] = "closed"]
    /\ store' = [store EXCEPT ![to[c]] = "unpaired"]
    /\ Dispatch(c, "LoggedOut", epoch[c])
    /\ NetworkFrame /\ UNCHANGED <<qrVars, dev, epoch, latest, status>>

\* Another client of the same device came up after c: the server drops c.
StreamReplaced(c) ==
    /\ link[c] = "up"
    /\ latest[to[c]] # c
    /\ link' = [link EXCEPT ![c] = "closed"]
    /\ Dispatch(c, "StreamReplaced", epoch[c])
    /\ NetworkFrame /\ UNCHANGED <<qrVars, dev, epoch, latest, status, store>>

-----------------------------------------------------------------------------
(* Pairing: the library's QR channel and the watcher goroutine that reads  *)
(* it. The channel is made with context.Background, so its emitter goes on *)
(* after the manager disconnects the client.                               *)

\* A code arrives and the watcher stores it for the session.
QRCode(c) ==
    /\ qrch[c] = "open"
    /\ qrBySession' = [qrBySession EXCEPT ![to[c]] = c]
    /\ NetworkFrame
    /\ UNCHANGED <<dev, link, epoch, latest, events, qrch, status, store>>

\* The codes run out: the library disconnects the client.
QRTimeout(c) ==
    /\ qrch[c] = "open"
    /\ qrch' = [qrch EXCEPT ![c] = "timeout"]
    /\ link' = [link EXCEPT ![c] = "closed"]
    /\ NetworkFrame
    /\ UNCHANGED <<dev, epoch, latest, events, qrBySession, status, store>>

\* The network drops during pairing: no reconnection of an unpaired client.
PairingLost(c) ==
    /\ link[c] = "pairing"
    /\ qrch' = [qrch EXCEPT ![c] = "timeout"]
    /\ link' = [link EXCEPT ![c] = "closed"]
    /\ Dispatch(c, "Disconnected", 0)
    /\ NetworkFrame
    /\ UNCHANGED <<dev, epoch, latest, qrBySession, status, store>>

\* Pairing is refused: the last item of the channel is an error.
PairError(c) ==
    /\ link[c] = "pairing"
    /\ qrch' = [qrch EXCEPT ![c] = "error"]
    /\ link' = [link EXCEPT ![c] = "closed"]
    /\ NetworkFrame
    /\ UNCHANGED <<dev, epoch, latest, events, qrBySession, status, store>>

\* The phone scans the code: the device is saved, the stream restarts.
PairSuccess(c) ==
    /\ link[c] = "pairing"
    /\ qrch' = [qrch EXCEPT ![c] = "success"]
    /\ link' = [link EXCEPT ![c] = "down"]
    /\ dev' = [dev EXCEPT ![c] = "paired"]
    /\ store' = [store EXCEPT ![to[c]] = "paired"]
    /\ NetworkFrame /\ UNCHANGED <<epoch, latest, events, qrBySession, status>>

\* Mutant of WatcherDelete: only a timeout removes the QR.
WatcherDeleteOnTimeout(c) ==
    /\ qrch[c] \in {"success", "timeout"}
    /\ qrBySession' = IF qrch[c] = "timeout"
                      THEN [qrBySession EXCEPT ![to[c]] = None]
                      ELSE qrBySession
    /\ qrch' = [qrch EXCEPT ![c] =
                  IF qrch[c] = "success" THEN "paired" ELSE "closed"]
    /\ NetworkFrame
    /\ UNCHANGED <<dev, link, epoch, latest, events, status, store>>

\* The watcher takes "success" or "timeout": whatever QR the session has goes.
WatcherDelete(c) ==
    /\ qrch[c] \in {"success", "timeout"}
    /\ qrBySession' = [qrBySession EXCEPT ![to[c]] = None]
    /\ qrch' = [qrch EXCEPT ![c] =
                  IF qrch[c] = "success" THEN "paired" ELSE "closed"]
    /\ NetworkFrame
    /\ UNCHANGED <<dev, link, epoch, latest, events, status, store>>

WatcherOnline(c) ==
    /\ qrch[c] = "paired"
    /\ status' = [status EXCEPT ![to[c]] = "online"]
    /\ qrch' = [qrch EXCEPT ![c] = "closed"]
    /\ NetworkFrame
    /\ UNCHANGED <<dev, link, epoch, latest, events, qrBySession, store>>

\* The watcher takes an error: nothing is done, the QR stays.
WatcherError(c) ==
    /\ qrch[c] = "error"
    /\ qrch' = [qrch EXCEPT ![c] = "errored"]
    /\ NetworkFrame
    /\ UNCHANGED <<dev, link, epoch, latest, events, qrBySession, status,
                   store>>

-----------------------------------------------------------------------------
(* Event handlers: one goroutine per event, in no order. A handler writes  *)
(* the status, then starts or stops the refresher of whatever client the   *)
(* session has by then.                                                    *)

HandlerFrame ==
    UNCHANGED <<procVars, mu, opVars, clients, alwaysOnline, dev, link, told,
                epoch, latest, qrVars, store>>

\* Mutant of StatusOf: a value that readers of the key do not know.
StatusOfWord(k) == IF k = "Connected" THEN "online" ELSE "closed"

StatusOf(k) == CASE k = "Connected"      -> "online"
                 [] k = "Disconnected"   -> "offline"
                 [] k = "LoggedOut"      -> "disconnected"
                 [] k = "StreamReplaced" -> "restart_required"

\* After the status, maybeStartAlwaysOnline reads the flag without taking mu
\* and goes no further when it is off.
HandleStatus(e) ==
    /\ e.stage = "status"
    /\ status' = [status EXCEPT ![to[e.client]] = StatusOf(e.kind)]
    /\ events' = (events \ {e}) \cup
         IF e.kind = "Connected" /\ ~alwaysOnline[to[e.client]]
         THEN {} ELSE {[e EXCEPT !.stage = "presence"]}
    /\ HandlerFrame /\ UNCHANGED <<presenceVars>>

\* Then, under mu, it cancels the entry's refresher and starts one of its own.
MaybeStartAlwaysOnline(e) ==
    LET c == clients[to[e.client]]
        r == [client |-> e.client, epoch |-> e.epoch]
    IN  /\ e.stage = "presence" /\ e.kind = "Connected" /\ mu = None
        /\ events' = events \ {e}
        /\ IF c = None
           THEN UNCHANGED presenceVars
           ELSE /\ refreshers' = (refreshers \ {presenceCancel[c]}) \cup {r}
                /\ presenceCancel' = [presenceCancel EXCEPT ![c] = r]
        /\ HandlerFrame /\ UNCHANGED <<status>>

\* Mutant of StopAlwaysOnline: the cancel function is dropped, not called.
StopAlwaysOnlineUncalled(e) ==
    /\ e.stage = "presence" /\ e.kind # "Connected" /\ mu = None
    /\ events' = events \ {e}
    /\ presenceCancel' = [c \in Op |-> IF c = clients[to[e.client]] THEN None
                                       ELSE presenceCancel[c]]
    /\ HandlerFrame /\ UNCHANGED <<refreshers, status>>

StopAlwaysOnline(e) ==
    LET c == clients[to[e.client]]
    IN  /\ e.stage = "presence" /\ e.kind # "Connected" /\ mu = None
        /\ events' = events \ {e}
        /\ IF c = None
           THEN UNCHANGED presenceVars
           ELSE /\ refreshers' = refreshers \ {presenceCancel[c]}
                /\ presenceCancel' = [presenceCancel EXCEPT ![c] = None]
        /\ HandlerFrame /\ UNCHANGED <<status>>

-----------------------------------------------------------------------------
Operation(o) ==
    \/ ConnectExisting(o) \/ ConnectLock(o) \/ ConnectStatus(o)
    \/ ConnectOpen(o) \/ ConnectError(o) \/ ConnectRegister(o)
    \/ DisconnectClient(o) \/ DisconnectStatus(o)
    \/ ReloadCheck(o) \/ ReloadStatus(o)

Dial(c) == DialPaired(c) \/ DialPairing(c) \/ DialError(c)
           \/ DialErrorStatus(c)

Watcher(c) == WatcherDelete(c) \/ WatcherOnline(c) \/ WatcherError(c)

Handle(e) == \/ HandleStatus(e)
             \/ MaybeStartAlwaysOnline(e) \/ StopAlwaysOnline(e)

Network(c) == \/ NetworkLoss(c) \/ Reconnect(c) \/ LoggedOut(c)
              \/ StreamReplaced(c) \/ QRCode(c) \/ QRTimeout(c)
              \/ PairingLost(c) \/ PairError(c) \/ PairSuccess(c)

\* What happens while the process lives, its start included.
Step ==
    \/ Boot
    \/ \E o \in Op : Receive(o) \/ Operation(o)
    \/ \E c \in Op : Dial(c) \/ Watcher(c) \/ Network(c)
    \/ \E e \in events : Handle(e)

Next == Step \/ Crash

Spec == Init /\ [][Next]_vars

\* One life of the process.
LifeSpec == Init /\ [][Step]_vars

\* Goroutines are scheduled; main runs once the process is started. The
\* network, the phone and the callers owe nothing.
Fairness ==
    /\ WF_vars(Boot)
    /\ \A o \in Op : WF_vars(Operation(o)) /\ WF_vars(Dial(o))
                     /\ WF_vars(Watcher(o))
                     /\ WF_vars(\E e \in events : e.client = o /\ Handle(e))

FairSpec == Spec /\ Fairness

=============================================================================
