---------------------------- MODULE SessionLifecycle ----------------------------
(***************************************************************************)
(* The life of one WhatsApp account's socket inside the operator process:  *)
(* whatsapp-operator/src/whatsapp/session-manager.ts and the credentials   *)
(* it reads and writes through auth-state.ts.  Every map of that file is   *)
(* keyed by the account and no handler touches two accounts, so one        *)
(* account is the whole component.                                         *)
(*                                                                         *)
(* JavaScript runs a handler without interruption up to its next await:    *)
(* an action is one such stretch, and what follows an await is an action   *)
(* of its own, taken whenever the awaited call settles.                    *)
(*                                                                         *)
(* The account row, the QR codes and the pairing codes are added by        *)
(* SessionManager, of which this module is the skeleton: a write of the    *)
(* row is here only the delay it puts before what follows it.              *)
(*                                                                         *)
(* The WhatsApp library is external: it opens and closes connections,      *)
(* pairs an unregistered socket, emits creds.update, and settles logout().*)
(***************************************************************************)
EXTENDS Naturals, FiniteSets

CONSTANTS
  Sockets,          \* identities of socket objects; one is reused once nothing refers to it
  Startups,         \* identities of runs of startSessionInternal
  Stops,            \* identities of runs of stopSession
  None,             \* "no entry in the map"
  MaxReconnects,    \* bound on reconnect timers pending at once
  MaxCrashes,       \* bound on process exits
  LogoutMayReject,  \* may sock.logout() reject and leave the connection up?
  DbMayFail         \* may a query of a startup or of a stop be rejected?

ASSUME IdsAssumption == None \notin Sockets \cup Startups \cup Stops
ASSUME BoundsAssumption == MaxReconnects \in Nat /\ MaxCrashes \in Nat
ASSUME SwitchesAssumption == LogoutMayReject \in BOOLEAN /\ DbMayFail \in BOOLEAN

VARIABLES
  current,      \* sockets.get(account)
  conn,         \* connection of each socket object, as the library sees it
  registered,   \* does the socket's in-memory creds object belong to a paired device?
  starting,     \* startingSessions.get(account): the shared startup promise
  startPc,      \* where each run of startSessionInternal is
  startCreds,   \* did the run read registered credentials?
  stopping,     \* stopping.has(account): one flag, however many stops run
  stopPc,       \* where each run of stopSession / resetSession is
  stopSock,     \* the socket it captured before its first await
  closeStep,    \* what the close handler of each socket has still to do
  closeKind,    \* the status code that handler saw
  reconnects,   \* setTimeout(startSession, RECONNECT_DELAY_MS) still pending
  bootPc,       \* restoreConnectableSessions
  stored,       \* is there a registered 'creds' row in wa_sessions?
  saving,       \* sockets with a saveCreds upsert in flight
  crashes,      \* process exits so far
  rejected      \* history: sockets left connected by a rejected logout()

socketVars == <<current, conn, registered, rejected>>
startVars  == <<starting, startPc, startCreds>>
stopVars   == <<stopping, stopPc, stopSock>>
closeVars  == <<closeStep, closeKind>>
credVars   == <<stored, saving>>
procVars   == <<bootPc, crashes>>
lifecycleVars == <<socketVars, startVars, stopVars, closeVars, credVars, procVars,
                   reconnects>>

CloseKinds == {"transient", "replaced", "loggedOut", "badSession"}

TypeOK ==
  /\ current \in Sockets \cup {None}
  /\ conn \in [Sockets -> {"closed", "connecting", "open"}]
  /\ registered \in [Sockets -> BOOLEAN]
  /\ rejected \in SUBSET Sockets
  /\ starting \in Startups \cup {None}
  /\ startPc \in [Startups -> {"idle", "read", "version"}]
  /\ startCreds \in [Startups -> BOOLEAN]
  /\ stopping \in BOOLEAN
  /\ stopPc \in [Stops -> {"idle", "logout", "purge", "write"}]
  /\ stopSock \in [Stops -> Sockets \cup {None}]
  /\ closeStep \in [Sockets -> {"idle", "purge", "write"}]
  /\ closeKind \in [Sockets -> CloseKinds]
  /\ reconnects \in 0..MaxReconnects
  /\ bootPc \in {"list", "start", "done"}
  /\ stored \in BOOLEAN
  /\ saving \in SUBSET Sockets
  /\ crashes \in 0..MaxCrashes

-----------------------------------------------------------------------------
Live(s) == conn[s] \in {"connecting", "open"}

\* No variable, timer, handler or promise refers to the socket object any more.
Free(s) ==
  /\ conn[s] = "closed"
  /\ current # s
  /\ closeStep[s] = "idle"
  /\ s \notin saving
  /\ \A q \in Stops : stopSock[q] # s

\* The in-memory state of a freshly started process, and the database it finds.
Init ==
  /\ current = None
  /\ conn = [s \in Sockets |-> "closed"]
  /\ registered = [s \in Sockets |-> FALSE]
  /\ starting = None
  /\ startPc = [p \in Startups |-> "idle"]
  /\ startCreds = [p \in Startups |-> FALSE]
  /\ stopping = FALSE
  /\ stopPc = [q \in Stops |-> "idle"]
  /\ stopSock = [q \in Stops |-> None]
  /\ closeStep = [s \in Sockets |-> "idle"]
  /\ closeKind = [s \in Sockets |-> "transient"]
  /\ reconnects = 0
  /\ bootPc = "list"
  /\ saving = {}
  /\ rejected = {}
  /\ stored = FALSE
  /\ crashes = 0

-----------------------------------------------------------------------------
(* Starting a session.                                                     *)

\* A fresh run of startSessionInternal becomes the shared startup promise.
BeginStartup ==
  \E p \in Startups :
    /\ startPc[p] = "idle"
    /\ startPc' = [startPc EXCEPT ![p] = "read"]
    /\ starting' = p
    /\ UNCHANGED startCreds

\* A caller that does not look for the shared promise.
StartSessionUnshared ==
  \/ /\ current # None
     /\ UNCHANGED startVars
  \/ /\ current = None
     /\ BeginStartup

\* A call of startSession returns when a socket is registered and joins a
\* startup already under way.
StartSession ==
  \/ /\ current # None \/ starting # None
     /\ UNCHANGED startVars
  \/ /\ current = None /\ starting = None
     /\ BeginStartup

\* startSessionInternal settles, and with it the finally of startSession.
EndStartup(p) ==
  /\ startPc' = [startPc EXCEPT ![p] = "idle"]
  /\ startCreds' = [startCreds EXCEPT ![p] = FALSE]
  /\ starting' = IF starting = p THEN None ELSE starting

\* usePostgresAuthState answers; the session map is checked again.
ReadCreds(p) ==
  /\ startPc[p] = "read"
  /\ IF current # None
       THEN EndStartup(p)
       ELSE /\ startPc' = [startPc EXCEPT ![p] = "version"]
            /\ startCreds' = [startCreds EXCEPT ![p] = stored]
            /\ UNCHANGED starting
  /\ UNCHANGED <<socketVars, stopVars, closeVars, credVars, procVars, reconnects>>

\* The credential read is rejected: the caller only logs or reports it.
ReadFails(p) ==
  /\ DbMayFail
  /\ startPc[p] = "read"
  /\ EndStartup(p)
  /\ UNCHANGED <<socketVars, stopVars, closeVars, credVars, procVars, reconnects>>

\* The version lookup answers (it never rejects): the socket is made and put in
\* the map, unless one got there meanwhile.
MakeSocket(p, s) ==
  /\ startPc[p] = "version"
  /\ EndStartup(p)
  /\ IF current # None
       THEN UNCHANGED socketVars
       ELSE /\ Free(s)
            /\ current' = s
            /\ conn' = [conn EXCEPT ![s] = "connecting"]
            /\ registered' = [registered EXCEPT ![s] = startCreds[p]]
            /\ UNCHANGED rejected
  /\ UNCHANGED <<stopVars, closeVars, credVars, procVars, reconnects>>

-----------------------------------------------------------------------------
(* What the library reports about a socket.                                *)

\* The user's phone accepts an unregistered socket; the creds object becomes
\* registered and creds.update starts a save.
PairSuccess(s) ==
  /\ conn[s] = "connecting"
  /\ ~registered[s]
  /\ registered' = [registered EXCEPT ![s] = TRUE]
  /\ saving' = saving \cup {s}
  /\ UNCHANGED <<current, conn, rejected, startVars, stopVars, closeVars, stored,
                 procVars, reconnects>>

\* creds.update on a registered socket.
CredsUpdate(s) ==
  /\ Live(s)
  /\ registered[s]
  /\ s \notin saving
  /\ saving' = saving \cup {s}
  /\ UNCHANGED <<socketVars, startVars, stopVars, closeVars, stored, procVars, reconnects>>

\* saveCreds: the upsert commits.
SaveLands(s) ==
  /\ s \in saving
  /\ saving' = saving \ {s}
  /\ stored' = TRUE
  /\ UNCHANGED <<socketVars, startVars, stopVars, closeVars, procVars, reconnects>>

\* connection.update 'open'.
Open(s) ==
  /\ conn[s] = "connecting"
  /\ registered[s]
  /\ conn' = [conn EXCEPT ![s] = "open"]
  /\ UNCHANGED <<current, registered, rejected, startVars, stopVars, closeVars,
                 credVars, procVars, reconnects>>

\* The two closes after which the credentials are of no use.
AuthLost(kind) == kind \in {"loggedOut", "badSession"}

\* A close handler that takes the account's socket for its own.
OnCloseUnguarded(s, kind) ==
  /\ conn' = [conn EXCEPT ![s] = "closed"]
  /\ registered' = [registered EXCEPT ![s] = FALSE]
  /\ rejected' = rejected \ {s}
  /\ current' = None
  /\ UNCHANGED closeVars

\* One that returns while a stop is under way before it has cleaned up.
OnCloseAfterStop(s, kind) ==
  /\ conn' = [conn EXCEPT ![s] = "closed"]
  /\ registered' = [registered EXCEPT ![s] = FALSE]
  /\ rejected' = rejected \ {s}
  /\ current' = IF current = s /\ ~stopping THEN None ELSE current
  /\ UNCHANGED closeVars

\* One that handles the close of a superseded socket.
OnCloseOfAny(s, kind) ==
  /\ conn' = [conn EXCEPT ![s] = "closed"]
  /\ registered' = [registered EXCEPT ![s] = FALSE]
  /\ rejected' = rejected \ {s}
  /\ current' = IF current = s THEN None ELSE current
  /\ closeStep' = [closeStep EXCEPT ![s] = IF AuthLost(kind) THEN "purge" ELSE "write"]
  /\ closeKind' = [closeKind EXCEPT ![s] = kind]

\* One that purges the credentials whatever the reason of the close.
OnClosePurging(s, kind) ==
  /\ conn' = [conn EXCEPT ![s] = "closed"]
  /\ registered' = [registered EXCEPT ![s] = FALSE]
  /\ rejected' = rejected \ {s}
  /\ current' = IF current = s THEN None ELSE current
  /\ IF current = s /\ ~stopping
       THEN /\ closeStep' = [closeStep EXCEPT ![s] = "purge"]
            /\ closeKind' = [closeKind EXCEPT ![s] = kind]
       ELSE UNCHANGED closeVars

\* connection.update 'close' up to its first await: a current socket leaves the
\* map; while a stop is under way, and for a stale socket, nothing else happens.
OnClose(s, kind) ==
  /\ conn' = [conn EXCEPT ![s] = "closed"]
  /\ registered' = [registered EXCEPT ![s] = FALSE]  \* nothing reads it any more
  /\ rejected' = rejected \ {s}
  /\ current' = IF current = s THEN None ELSE current
  /\ IF current = s /\ ~stopping
       THEN /\ closeStep' = [closeStep EXCEPT ![s] =
                               IF AuthLost(kind) THEN "purge" ELSE "write"]
            /\ closeKind' = [closeKind EXCEPT ![s] = kind]
       ELSE UNCHANGED closeVars

Close(s, kind) ==
  /\ Live(s)
  /\ OnClose(s, kind)
  /\ UNCHANGED <<startVars, stopVars, credVars, procVars, reconnects>>

\* clearPostgresAuthState in the close handler.
ClosePurged(s) ==
  /\ closeStep[s] = "purge"
  /\ closeStep' = [closeStep EXCEPT ![s] = "write"]
  /\ stored' = FALSE
  /\ UNCHANGED <<socketVars, startVars, stopVars, closeKind, saving, procVars, reconnects>>

\* A close handler that leaves a bad session down.
CloseWrittenForgetful(s) ==
  /\ closeStep[s] = "write"
  /\ IF closeKind[s] = "transient"
       THEN reconnects < MaxReconnects /\ reconnects' = reconnects + 1
       ELSE UNCHANGED reconnects
  /\ closeStep' = [closeStep EXCEPT ![s] = "idle"]
  /\ closeKind' = [closeKind EXCEPT ![s] = "transient"]
  /\ UNCHANGED <<socketVars, startVars, stopVars, credVars, procVars>>

\* The close handler's updateAccount commits; a transient close and a bad
\* session then set a reconnect timer.
CloseWritten(s) ==
  /\ closeStep[s] = "write"
  /\ IF closeKind[s] \in {"transient", "badSession"}
       THEN reconnects < MaxReconnects /\ reconnects' = reconnects + 1
       ELSE UNCHANGED reconnects
  /\ closeStep' = [closeStep EXCEPT ![s] = "idle"]
  /\ closeKind' = [closeKind EXCEPT ![s] = "transient"]
  /\ UNCHANGED <<socketVars, startVars, stopVars, credVars, procVars>>

\* A timer that fires once more than it was set.
ReconnectTimerUnguarded ==
  /\ reconnects' = reconnects - 1
  /\ StartSession
  /\ UNCHANGED <<socketVars, stopVars, closeVars, credVars, procVars>>

\* A reconnect timer fires.  Nothing ever cancels one.
ReconnectTimer ==
  /\ reconnects > 0
  /\ reconnects' = reconnects - 1
  /\ StartSession
  /\ UNCHANGED <<socketVars, stopVars, closeVars, credVars, procVars>>

-----------------------------------------------------------------------------
(* The routes that connect, disconnect and reset an account.               *)

\* A route asks for a session: connect, bootstrap, a pairing-code request.
ConnectSession ==
  /\ StartSession
  /\ UNCHANGED <<socketVars, stopVars, closeVars, credVars, procVars, reconnects>>

\* A shutdown that drops the socket without closing it.
ShutdownKeepsOpen ==
  /\ current' = None
  /\ stopping' = FALSE
  /\ UNCHANGED <<conn, registered, rejected, stopPc, stopSock>>

\* shutdownSession: without logging out, drops the socket and its listeners;
\* its finally removes the stopping mark, whoever set it.
ShutdownSession ==
  /\ current' = None
  /\ conn' = [s \in Sockets |-> IF s = current THEN "closed" ELSE conn[s]]
  /\ registered' = [s \in Sockets |-> s # current /\ registered[s]]
  /\ stopping' = FALSE
  /\ UNCHANGED <<rejected, stopPc, stopSock>>

\* The connect route finds an expired QR and replaces the waiting socket.
RefreshSession ==
  /\ ShutdownSession
  /\ \/ starting # None /\ UNCHANGED startVars
     \/ starting = None /\ BeginStartup
  /\ UNCHANGED <<closeVars, credVars, procVars, reconnects>>

\* stopSession up to its first await; resetSession calls it first.
StopBegin(q) ==
  /\ stopPc[q] = "idle"
  /\ stopping' = TRUE
  /\ stopSock' = [stopSock EXCEPT ![q] = current]
  /\ stopPc' = [stopPc EXCEPT ![q] = IF current # None THEN "logout" ELSE "purge"]
  /\ UNCHANGED <<socketVars, startVars, closeVars, credVars, procVars, reconnects>>

\* logout() unlinks the device and ends the socket, whose close handler runs
\* there and then; or finds the connection closed already.
LogoutDone(q) ==
  /\ stopPc[q] = "logout"
  /\ stopPc' = [stopPc EXCEPT ![q] = "purge"]
  /\ IF Live(stopSock[q])
       THEN OnClose(stopSock[q], "loggedOut")
       ELSE UNCHANGED <<socketVars, closeVars>>
  /\ stopSock' = [stopSock EXCEPT ![q] = None]
  /\ UNCHANGED <<stopping, startVars, credVars, procVars, reconnects>>

\* logout() of a paired device rejects (its unlink request cannot be sent), the
\* rejection is swallowed, and the map forgets a socket that is still connected.
LogoutRejected(q) ==
  /\ LogoutMayReject
  /\ stopPc[q] = "logout"
  /\ Live(stopSock[q]) /\ registered[stopSock[q]]
  /\ stopPc' = [stopPc EXCEPT ![q] = "purge"]
  /\ current' = IF current = stopSock[q] THEN None ELSE current
  /\ rejected' = rejected \cup {stopSock[q]}
  /\ stopSock' = [stopSock EXCEPT ![q] = None]
  /\ UNCHANGED <<conn, registered, stopping, startVars, closeVars, credVars, procVars,
                 reconnects>>

StopPurged(q) ==
  /\ stopPc[q] = "purge"
  /\ stopPc' = [stopPc EXCEPT ![q] = "write"]
  /\ stored' = FALSE
  /\ UNCHANGED <<stopping, stopSock, socketVars, startVars, closeVars, saving,
                 procVars, reconnects>>

\* A stop that clears its mark only when its last query succeeded.
EndStopOnSuccess(q) ==
  /\ stopping' = (stopping /\ stopPc[q] # "write")
  /\ stopPc' = [stopPc EXCEPT ![q] = "idle"]
  /\ UNCHANGED <<stopSock, socketVars, startVars, closeVars, credVars, procVars,
                 reconnects>>

\* stopSession settles: the finally takes the account out of stopping.
EndStop(q) ==
  /\ stopping' = FALSE
  /\ stopPc' = [stopPc EXCEPT ![q] = "idle"]
  /\ UNCHANGED <<stopSock, socketVars, startVars, closeVars, credVars, procVars,
                 reconnects>>

StopWritten(q) == stopPc[q] = "write" /\ EndStop(q)

\* The purge or the write is rejected: the route reports the error.
StopFails(q) == DbMayFail /\ stopPc[q] \in {"purge", "write"} /\ EndStop(q)

-----------------------------------------------------------------------------
(* The process: exits and restarts.                                        *)

\* The process ends, by a signal (gracefulShutdown writes nothing about a
\* session), by an event handler's rejected query (an unhandled rejection), or
\* by a crash; the next process starts from the database.  A save or a purge in flight either
\* commits first, as SaveLands, ClosePurged or StopPurged, or is lost.
Restart ==
  /\ crashes < MaxCrashes
  /\ crashes' = crashes + 1
  /\ current' = None
  /\ conn' = [s \in Sockets |-> "closed"]
  /\ registered' = [s \in Sockets |-> FALSE]
  /\ starting' = None
  /\ startPc' = [p \in Startups |-> "idle"]
  /\ startCreds' = [p \in Startups |-> FALSE]
  /\ stopping' = FALSE
  /\ stopPc' = [q \in Stops |-> "idle"]
  /\ stopSock' = [q \in Stops |-> None]
  /\ closeStep' = [s \in Sockets |-> "idle"]
  /\ closeKind' = [s \in Sockets |-> "transient"]
  /\ reconnects' = 0
  /\ bootPc' = "list"
  /\ saving' = {}
  /\ rejected' = {}
  /\ UNCHANGED stored

\* restoreConnectableSessions lists the accounts: one with a 'creds' row, which may be that of a
\* device not paired yet, is to be started, unless its row says logged_out (SessionManager's).
BootList ==
  /\ bootPc = "list"
  /\ bootPc' \in {"start", "done"}
  /\ UNCHANGED <<socketVars, startVars, stopVars, closeVars, credVars, crashes, reconnects>>

\* Its turn comes: what was listed is not looked at again.
BootStart ==
  /\ bootPc = "start"
  /\ bootPc' = "done"
  /\ StartSession
  /\ UNCHANGED <<socketVars, stopVars, closeVars, credVars, crashes, reconnects>>

-----------------------------------------------------------------------------
StartupSteps ==
  \E p \in Startups :
    ReadCreds(p) \/ ReadFails(p) \/ \E s \in Sockets : MakeSocket(p, s)

HandlerSteps ==
  \E s \in Sockets : ClosePurged(s) \/ CloseWritten(s) \/ SaveLands(s)

StopSteps ==
  \E q \in Stops :
    LogoutDone(q) \/ LogoutRejected(q) \/ StopPurged(q) \/ StopWritten(q) \/ StopFails(q)

\* The library and the users of the operator's routes.
Environment ==
  \/ \E s \in Sockets :
       PairSuccess(s) \/ CredsUpdate(s) \/ Open(s) \/ \E kind \in CloseKinds : Close(s, kind)
  \/ ConnectSession
  \/ RefreshSession
  \/ \E q \in Stops : StopBegin(q)
  \/ Restart

Next ==
  \/ StartupSteps \/ HandlerSteps \/ StopSteps \/ Environment
  \/ ReconnectTimer \/ BootList \/ BootStart

LifecycleSpec == Init /\ [][Next]_lifecycleVars

-----------------------------------------------------------------------------
(* Safety.                                                                 *)

\* At most one run of startSessionInternal is under way, and it is the promise
\* every other caller of startSession joins (startSession, session-manager.ts:491).
SingleStartup == \A p \in Startups : startPc[p] # "idle" <=> starting = p

\* A connection the operator no longer holds in its session map was left there by
\* a rejected logout(); no interleaving of starts, closes, refreshes, stops and
\* restarts loses track of another one.
NoStrayConnection == \A s \in Sockets : Live(s) => s = current \/ s \in rejected

\* The session map never keeps a socket whose connection is gone: such an entry
\* would make every later startSession return without doing anything.
MapHoldsLiveSocket == current # None => Live(current)

\* The stopping mark, which silences close handlers, does not outlive the stops
\* that set it, also when their queries fail.
NoStoppingLeak ==
  stopping => \E q \in Stops : stopPc[q] \in {"logout", "purge", "write"}

\* The close of a socket that has been superseded or dropped changes neither the
\* session map nor the credentials, and starts or schedules nothing.
StaleCloseHarmless ==
  [][\A s \in Sockets :
       Live(s) /\ conn'[s] = "closed" /\ s # current /\ crashes' = crashes
         => UNCHANGED <<current, closeVars, credVars, reconnects, startVars>>]_lifecycleVars

\* Credentials disappear only by a disconnect or reset, or after a close that made
\* them useless; an ordinary drop, a replacement or a restart keeps them.
CredentialsSurviveDrops ==
  [][stored /\ ~stored' =>
       \/ \E q \in Stops : stopPc[q] = "purge" /\ stopPc'[q] = "write"
       \/ \E s \in Sockets : closeStep[s] = "purge"
                             /\ closeKind[s] \in {"loggedOut", "badSession"}]_lifecycleVars

\* What makes those inductive: a stop holds its socket exactly while logout() is
\* pending, and a close handler purges only after a close that lost the credentials.
StopHoldsSocket == \A q \in Stops : stopPc[q] = "logout" <=> stopSock[q] # None
PurgeNeedsAuthLost == \A s \in Sockets : closeStep[s] = "purge" => AuthLost(closeKind[s])

LifecycleInv ==
  /\ TypeOK
  /\ SingleStartup
  /\ NoStrayConnection
  /\ MapHoldsLiveSocket
  /\ NoStoppingLeak
  /\ StopHoldsSocket
  /\ PurgeNeedsAuthLost

\* docs/whatsapp-architecture.md: one live socket per account, never two.
NeverTwoConnections == \A s, t \in Sockets : Live(s) /\ Live(t) => s = t

-----------------------------------------------------------------------------
(* Liveness.  The operator's own continuations and timers run and the      *)
(* database answers; nothing is assumed of the library or of the users.    *)

Fairness ==
  /\ WF_lifecycleVars(StartupSteps)
  /\ \A s \in Sockets : /\ WF_lifecycleVars(ClosePurged(s))
                        /\ WF_lifecycleVars(CloseWritten(s))
                        /\ WF_lifecycleVars(SaveLands(s))
  /\ WF_lifecycleVars(ReconnectTimer)
  /\ WF_lifecycleVars(BootList)
  /\ WF_lifecycleVars(BootStart)

FairLifecycleSpec == LifecycleSpec /\ Fairness

\* The session is down, and a close handler, the timer it set, or the boot has
\* still to bring it up.
SessionDue ==
  /\ current = None
  /\ \/ reconnects > 0
     \/ bootPc = "start"
     \/ \E s \in Sockets : closeStep[s] # "idle" /\ closeKind[s] \in {"transient", "badSession"}

\* docs/WHATSAPP_OPERATOR_INTEGRATION.md: ordinary disconnects reconnect.  A
\* dropped session, and a session found at boot, gets a socket whatever the users
\* and the library do meanwhile, unless the process ends first.
DueSessionStarts == SessionDue ~> (current # None \/ bootPc = "list")

-----------------------------------------------------------------------------
(* What keeps a session down or brings it up, step by step: for every      *)
(* schedule, fair or not.                                                  *)

\* The session is down and on its way up: due, or a startup under way for it.
Owed == SessionDue \/ (current = None /\ starting # None)

\* A session that is to come up is given up by nobody: not by a stop, not by a
\* late close or logout() of an older socket, not by the startup that others
\* joined.  Only a startup whose credential read fails drops it, and the boot of
\* the next process considers it afresh.
DueNotDropped ==
  [][Owed => \/ Owed' \/ current' # None
             \/ bootPc' = "list"
             \/ \E p \in Startups : ReadFails(p)]_lifecycleVars

\* A session that is down and left alone: no startup, timer or boot, and no close
\* handler that will set a timer.
AtRest == current = None /\ starting = None /\ ~SessionDue /\ bootPc = "done"

\* It comes up when a route asks for it or the process restarts, and no other way:
\* whatever old sockets, their close handlers and pending stops still do.  So a
\* replaced session stays down where no timer was left from before.
OnlyRequestsWake ==
  [][AtRest /\ ~AtRest' => ConnectSession \/ RefreshSession \/ Restart]_lifecycleVars

=============================================================================
