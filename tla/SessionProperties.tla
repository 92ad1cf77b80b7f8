-------------------------- MODULE SessionProperties --------------------------
(***************************************************************************)
(* What must hold of SessionManager: the states it may be in, what no      *)
(* interleaving of operations, dials, handlers and watchers may break, what *)
(* must eventually happen, and what the repository says of it that does    *)
(* not hold.                                                               *)
(***************************************************************************)
EXTENDS SessionManager

LinkState == {"none", "new", "failed", "pairing", "up", "down", "closed"}
QRState   == {"none", "idle", "open", "success", "timeout", "error",
              "paired", "closed", "errored"}

\* Every variable has its type; an operation that was received has a session,
\* and a restore its own.
TypeOK ==
    /\ proc \in {"up", "down"}
    /\ crashes \in 0..MaxCrashes
    /\ mu \in Op \cup {None}
    /\ pc \in [Op -> {"idle"} \cup Locked \cup Waiting \cup Finished]
    /\ job \in [Op -> Jobs]
    /\ to \in [Op -> Session \cup {None}]
    /\ seen \in [Op -> Op \cup {None}]
    /\ clients \in [Session -> Op \cup {None}]
    /\ alwaysOnline \in [Session -> BOOLEAN]
    /\ presenceCancel \in [Op -> Refresher \cup {None}]
    /\ refreshers \in SUBSET Refresher
    /\ dev \in [Op -> {"unpaired", "paired"}]
    /\ link \in [Op -> LinkState]
    /\ told \in [Op -> {"no", "early", "late"}]
    /\ epoch \in [Op -> 0..MaxEpoch]
    /\ latest \in [Session -> Op \cup {None}]
    /\ events \in SUBSET Event
    /\ qrch \in [Op -> QRState]
    /\ qrBySession \in [Session -> Op \cup {None}]
    /\ status \in [Session -> StatusValue]
    /\ store \in [Session -> {"absent", "unpaired", "paired"}]
    /\ \A o \in Op : pc[o] # "idle" => to[o] \in Session
    /\ \A s \in Session : to[s] = s

\* No client is lost: as long as the process lives, a client that Connect
\* registered is in the registry, or the manager has called Disconnect on it
\* (Connect and Disconnect change map and client under one hold of mu).
NoClientLost ==
    \A c \in Op : link[c] # "none" =>
        (told[c] = "no" <=> clients[to[c]] = c)

\* A connection, live or being restored, that is not the registered client's
\* is one whose client Disconnect found before the dial goroutine had dialled:
\* no other order of Disconnect, Reload, dial, reconnection and pairing leaves
\* one behind. DisconnectEndsSession below shows that one remaining order.
OnlyEarlyEscapes ==
    \A c \in Op :
        link[c] \in {"pairing", "up", "down"} /\ clients[to[c]] # c
        => told[c] = "early"

\* A reload that succeeds got rid of the client its check had seen, although
\* the check, the disconnect and the connect are three separate holds of mu
\* with other operations between them.
ReloadReplaces ==
    \A o \in Op : job[o] = "reload" /\ pc[o] = "ok" =>
        seen[o] # None /\ told[seen[o]] # "no"

\* What it leaves is a client of the session other than the one it had seen,
\* its own or one another operation connected in between.
ReloadLeavesAnother ==
    \A o \in Op :
        job[o] = "reload" /\ pc[o] # "ok" /\ pc'[o] = "ok"
        => clients'[to[o]] \notin {None, seen[o]}
ReloadRenews == [][ReloadLeavesAnother]_vars

\* Over connects, disconnects, reloads, failed pairings, deaths and restores
\* nothing but the phone unlinking a connected device undoes a pairing, and no
\* session.db goes away: the next start finds what it has to restore.
PairingUndone ==
    \A s \in Session :
        /\ store[s] = "paired" /\ store'[s] # "paired" =>
             \E e \in events' : /\ e.kind = "LoggedOut"
                                /\ to[e.client] = s /\ link[e.client] = "up"
        /\ store[s] # "absent" => store'[s] # "absent"
PairingKept == [][PairingUndone]_vars

\* A registered client is refreshed by at most one always-online goroutine,
\* the one its own entry can cancel, and the cancel function of that entry is
\* of a goroutine that runs: late handlers of replaced clients start and stop
\* refreshers under the same entry. Nothing is said of the entries Disconnect
\* has dropped: see DisconnectEndsSession.
RefreshersOwned ==
    \A s \in Session : LET c == clients[s] IN c # None =>
        /\ \A r \in refreshers : r.client = c => presenceCancel[c] = r
        /\ presenceCancel[c] # None => presenceCancel[c] \in refreshers

\* A QR code outlives the pairing it belongs to only if that pairing ended in
\* an error: after "success" or "timeout" its watcher has removed it, whatever
\* other clients of the session stored or removed meanwhile.
QRRemoved ==
    \A s \in Session : qrBySession[s] # None =>
        qrch[qrBySession[s]] \in
            {"open", "success", "timeout", "error", "errored"}

\* Nothing of session s is under way: no operation, dial, reconnection,
\* watcher or handler.
Quiet(s) ==
    /\ \A o \in Op : to[o] = s =>
         /\ pc[o] \notin Locked \cup Waiting
         /\ link[o] \notin {"new", "failed", "down"}
         /\ qrch[o] \notin {"success", "timeout", "paired"}
    /\ \A e \in events : to[e.client] # s

\* Redis does not go on saying "connecting" of a session that is connected:
\* once everything has run, whatever order the handlers, the watcher and two
\* operations overwrote the key in, Reload's and Connect's early "connecting"
\* has been followed by the status of the client they led to.
ConnectingEnds ==
    \A s \in Session :
        Quiet(s) /\ clients[s] # None /\ link[clients[s]] = "up"
        => status[s] # "connecting"

\* Every operation that was started returns: no lock of Connect, Disconnect,
\* Reload and the handlers is left held, on error paths either.
OperationsReturn ==
    \A o \in Op : pc[o] \in Locked \cup Waiting ~>
                  pc[o] \in Finished \cup {"idle"}

\* After a start, a session saved as paired is dialled by some client, or its
\* restore returned an error, or the start could not read the session store or
\* its session.db and skipped it: nobody tries those two again.
SavedSessionsDialled ==
    \A s \in Session : proc = "down" /\ store[s] = "paired" ~>
        \/ pc[s] \in {"error", "skipped"}
        \/ \E c \in Op : to[c] = s /\ link[c] \notin {"none", "new"}

R == INSTANCE Registry WITH
        Client  <- Op,
        reg     <- clients,
        opened  <- {c \in Op : link[c] # "none"},
        stopped <- {c \in Op : told[c] # "no"}

\* The manager implements Registry: one client per session, registered once,
\* never replaced without having been told to disconnect.
ImplementsRegistry == R!Spec

-----------------------------------------------------------------------------
(* What the documentation says and the code does not do                    *)

\* "disconnect encerra sessao" / "tears down an existing session": a session
\* without a registered client is over, no client of it is both connected and
\* kept online. The code breaks both halves at once: Disconnect before the dial
\* does not stop it, and drops an entry without cancelling its refresher.
DisconnectEndsSession ==
    \A s \in Session : clients[s] = None =>
        ~\E r \in refreshers : to[r.client] = s /\ link[r.client] = "up"

\* "the current QR code for the session": the QR served is one of the client
\* the session has now.
QRIsCurrent ==
    \A s \in Session : qrBySession[s] # None => qrBySession[s] = clients[s]

\* "connect inicia/recupera cliente e, se 1o login, gera QR": a successful
\* connect leaves an unpaired session with a client that is being dialled or
\* is pairing, so that there will be a QR code to scan.
ConnectLeavesPairing ==
    \A o \in Op :
        /\ job[o] = "connect" /\ pc[o] # "ok" /\ pc'[o] = "ok"
        /\ store[to[o]] = "unpaired"
        => link'[clients'[to[o]]] \in {"new", "pairing"}
ConnectGeneratesQR == [][ConnectLeavesPairing]_vars

=============================================================================
