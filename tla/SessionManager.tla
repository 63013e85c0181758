----------------------------- MODULE SessionManager -----------------------------
(***************************************************************************)
(* The whole of session-manager.ts for one account: SessionLifecycle with  *)
(* the account row its handlers write, the QR codes and phone pairing      *)
(* codes that live on the same sockets, and the routes of                  *)
(* routes/accounts.ts that connect, pair, disconnect and reset.            *)
(*                                                                         *)
(* Each action is the SessionLifecycle action of the same handler and what *)
(* the handler does besides; the steps added here leave sockets and        *)
(* credentials alone.  Phone numbers are left out: a request for another   *)
(* number than the active code's is refused, which changes nothing.        *)
(***************************************************************************)
EXTENDS SessionLifecycle

CONSTANTS
  Requests,   \* identities of runs of requestPairingCodeOnce
  Codes       \* identities of pairing codes; one is reused once it is forgotten

ASSUME SessionIdsAssumption == None \notin Requests \cup Codes

VARIABLES
  row,          \* status, is_connected and "has QR fields" of the wa_accounts row
  openStep,     \* is the "connected" write of the socket's open handler pending?
  connectPc,    \* POST /:id/connect between reading the row and acting on it
  resetDue,     \* is the second write of resetSession pending?
  qrReady,      \* qrReadyAccounts.has(account)
  qrStep,       \* what the QR handler of each socket has still to do
  qrTimer,      \* the socket captured by the pending QR expiry timer
  qrExpiring,   \* is that timer's qr_expired write pending?
  pairingMode,  \* pairingModeRequested.has(account)
  pairReq,      \* pairingCodeRequests.get(account): the shared request
  pairPc,       \* where each run of requestPairingCodeOnce is
  pairSock,     \* the socket it asked for a code
  pairCode,     \* the code it got
  code,         \* pairingCodes.get(account)
  codeTimer,    \* the socket captured by each code's pending expiry timer
  codeExpiring  \* is a pairing_code_expired write pending?

rowVars  == <<row, openStep, connectPc, resetDue>>
qrVars   == <<qrReady, qrStep, qrTimer, qrExpiring>>
pairVars == <<pairingMode, pairReq, pairPc, pairSock, pairCode, code, codeTimer, codeExpiring>>
sessionVars == <<lifecycleVars, rowVars, qrVars, pairVars>>

Status == {"pending", "connected", "disconnected", "logged_out",
           "qr_ready", "qr_expired", "pairing_code_ready", "pairing_code_expired"}

SessionTypeOK ==
  /\ TypeOK
  /\ row \in [status: Status, connected: BOOLEAN, qr: BOOLEAN]
  /\ openStep \in [Sockets -> {"idle", "write"}]
  /\ connectPc \in {"idle", "start", "refresh"}
  /\ resetDue \in BOOLEAN
  /\ qrReady \in BOOLEAN
  /\ qrStep \in [Sockets -> {"idle", "encode", "write"}]
  /\ qrTimer \in Sockets \cup {None}
  /\ qrExpiring \in BOOLEAN
  /\ pairingMode \in BOOLEAN
  /\ pairReq \in Requests \cup {None}
  /\ pairPc \in [Requests -> {"idle", "asked", "poll", "request", "write"}]
  /\ pairSock \in [Requests -> Sockets \cup {None}]
  /\ pairCode \in [Requests -> Codes \cup {None}]
  /\ code \in Codes \cup {None}
  /\ codeTimer \in [Codes -> Sockets \cup {None}]
  /\ codeExpiring \in BOOLEAN

SessionInit ==
  /\ Init
  /\ row = [status |-> "pending", connected |-> FALSE, qr |-> FALSE]
  /\ openStep = [s \in Sockets |-> "idle"]
  /\ connectPc = "idle"
  /\ resetDue = FALSE
  /\ qrReady = FALSE
  /\ qrStep = [s \in Sockets |-> "idle"]
  /\ qrTimer = None
  /\ qrExpiring = FALSE
  /\ pairingMode = FALSE
  /\ pairReq = None
  /\ pairPc = [r \in Requests |-> "idle"]
  /\ pairSock = [r \in Requests |-> None]
  /\ pairCode = [r \in Requests |-> None]
  /\ code = None
  /\ codeTimer = [k \in Codes |-> None]
  /\ codeExpiring = FALSE

-----------------------------------------------------------------------------
\* Nothing of a QR or pairing handler refers to the socket object any more.
Unused(s) ==
  /\ openStep[s] = "idle"
  /\ qrStep[s] = "idle"
  /\ qrTimer # s
  /\ \A r \in Requests : pairSock[r] # s
  /\ \A k \in Codes : codeTimer[k] # s

Forgotten(k) == code # k /\ codeTimer[k] = None /\ \A r \in Requests : pairCode[r] # k

\* What connecting, closing, stopping and refreshing have in common.
ForgetPairing == qrReady' = FALSE /\ qrTimer' = None /\ code' = None

WriteRow(status, connected) == row' = [status |-> status, connected |-> connected, qr |-> FALSE]

-----------------------------------------------------------------------------
(* Lifecycle steps that touch neither the row nor a QR or pairing code.    *)

PlainStep ==
  /\ \/ \E p \in Startups : ReadCreds(p) \/ ReadFails(p)
     \/ \E p \in Startups, s \in Sockets : MakeSocket(p, s) /\ Unused(s)
     \/ \E s \in Sockets : PairSuccess(s) \/ CredsUpdate(s) \/ SaveLands(s) \/ ClosePurged(s)
     \/ \E q \in Stops : LogoutRejected(q) \/ StopPurged(q) \/ StopFails(q)
     \/ ReconnectTimer
     \/ BootStart
  /\ UNCHANGED <<rowVars, qrVars, pairVars>>

\* listConnectableAccounts: a 'creds' row, and a status other than logged_out.
BootListed ==
  /\ BootList
  /\ row.status = "logged_out" => bootPc' = "done"
  /\ row.status # "logged_out" /\ stored => bootPc' = "start"
  /\ UNCHANGED <<rowVars, qrVars, pairVars>>

\* connection.update 'open', of any socket, current or not.
OpenHandler(s) ==
  /\ Open(s)
  /\ ForgetPairing
  /\ openStep' = [openStep EXCEPT ![s] = "write"]
  /\ UNCHANGED <<row, connectPc, resetDue, qrStep, qrExpiring, pairingMode, pairReq, pairPc,
                 pairSock, pairCode, codeTimer, codeExpiring>>

OpenWritten(s) ==
  /\ openStep[s] = "write"
  /\ openStep' = [openStep EXCEPT ![s] = "idle"]
  /\ WriteRow("connected", TRUE)
  /\ UNCHANGED <<lifecycleVars, connectPc, resetDue, qrVars, pairVars>>

\* A close handler that leaves the active pairing code behind.
ForgetAllButCode(s) ==
  /\ IF current = s
       THEN qrReady' = FALSE /\ qrTimer' = None /\ pairingMode' = FALSE
       ELSE UNCHANGED <<qrReady, qrTimer, pairingMode>>
  /\ UNCHANGED <<rowVars, qrStep, qrExpiring, pairReq, pairPc, pairSock, pairCode, code,
                 codeTimer, codeExpiring>>

\* The synchronous part of the close handler of s: only a current socket takes
\* its QR and pairing state with it.
ForgetClosed(s) ==
  /\ IF current = s
       THEN ForgetPairing /\ pairingMode' = FALSE
       ELSE UNCHANGED <<qrReady, qrTimer, code, pairingMode>>
  /\ UNCHANGED <<rowVars, qrStep, qrExpiring, pairReq, pairPc, pairSock, pairCode, codeTimer,
                 codeExpiring>>

CloseHandler(s, kind) == Close(s, kind) /\ ForgetClosed(s)

\* A handler that writes the reason of the close as the status.
CloseReason(kind) == kind

CloseStatus(kind) ==
  CASE kind = "loggedOut"  -> "logged_out"
    [] kind = "badSession" -> "pending"
    [] OTHER               -> "disconnected"

CloseRowWritten(s) ==
  /\ CloseWritten(s)
  /\ WriteRow(CloseStatus(closeKind[s]), FALSE)
  /\ UNCHANGED <<openStep, connectPc, resetDue, qrVars, pairVars>>

-----------------------------------------------------------------------------
(* QR codes.                                                               *)

\* connection.update with a qr: the library offers one on a socket that is not
\* paired.  The active pairing code is forgotten each time.  The codes of a socket come
\* qrTimeout apart, 20 s, so the handler of the one before is assumed to be over.
QrEvent(s) ==
  /\ conn[s] = "connecting" /\ ~registered[s]
  /\ qrStep[s] = "idle"
  /\ qrReady' = TRUE
  /\ code' = None
  /\ qrStep' = [qrStep EXCEPT ![s] = IF pairingMode THEN "idle" ELSE "encode"]
  /\ UNCHANGED <<lifecycleVars, rowVars, qrTimer, qrExpiring, pairingMode, pairReq, pairPc,
                 pairSock, pairCode, codeTimer, codeExpiring>>

\* buildQrDataUrl settles.
QrEncoded(s) ==
  /\ qrStep[s] = "encode"
  /\ qrStep' = [qrStep EXCEPT ![s] = IF pairingMode THEN "idle" ELSE "write"]
  /\ UNCHANGED <<lifecycleVars, rowVars, qrReady, qrTimer, qrExpiring, pairVars>>

\* The qr_ready write commits; the expiry timer replaces any earlier one.
QrWritten(s) ==
  /\ qrStep[s] = "write"
  /\ qrStep' = [qrStep EXCEPT ![s] = "idle"]
  /\ row' = [status |-> "qr_ready", connected |-> FALSE, qr |-> TRUE]
  /\ qrTimer' = s
  /\ UNCHANGED <<lifecycleVars, openStep, connectPc, resetDue, qrReady, qrExpiring, pairVars>>

\* The encoder or the write is rejected, which is caught and logged.
QrFails(s) ==
  /\ qrStep[s] = "encode" \/ (qrStep[s] = "write" /\ DbMayFail)
  /\ qrStep' = [qrStep EXCEPT ![s] = "idle"]
  /\ UNCHANGED <<lifecycleVars, rowVars, qrReady, qrTimer, qrExpiring, pairVars>>

\* An expiry timer that drops the socket together with its QR.
QrTimerDropsSocket ==
  /\ qrTimer # None
  /\ qrTimer' = None
  /\ IF current = qrTimer
       THEN qrReady' = FALSE /\ qrExpiring' = TRUE /\ current' = None
       ELSE UNCHANGED <<qrReady, qrExpiring, current>>
  /\ UNCHANGED <<conn, registered, rejected, startVars, stopVars, closeVars, credVars, procVars,
                 reconnects, rowVars, qrStep, pairVars>>

\* scheduleQrExpiry's timer fires.
QrTimer ==
  /\ qrTimer # None
  /\ qrTimer' = None
  /\ IF current = qrTimer
       THEN qrReady' = FALSE /\ qrExpiring' = TRUE
       ELSE UNCHANGED <<qrReady, qrExpiring>>
  /\ UNCHANGED <<lifecycleVars, rowVars, qrStep, pairVars>>

\* Its write settles; a rejected one is only logged.
QrExpiryWritten ==
  /\ qrExpiring
  /\ qrExpiring' = FALSE
  /\ WriteRow("qr_expired", row.connected) \/ (DbMayFail /\ UNCHANGED row)
  /\ UNCHANGED <<lifecycleVars, openStep, connectPc, resetDue, qrReady, qrStep, qrTimer,
                 pairVars>>

-----------------------------------------------------------------------------
(* The routes.                                                             *)

\* POST /:id/connect, POST /bootstrap or reconcileBaronBinding reads the row.  The last
\* two start a session also when the QR has expired; connect counts a QR whose expiry
\* time has passed as expired before its timer says so, and replaces its socket.
ConnectRead ==
  /\ connectPc = "idle"
  /\ \/ connectPc' = "start"
     \/ connectPc' = "refresh" /\ ~row.connected /\ (row.status = "qr_expired" \/ row.qr)
  /\ UNCHANGED <<lifecycleVars, row, openStep, resetDue, qrVars, pairVars>>

\* ... and acts on what it read.  shutdownSession also forgets the shared pairing
\* request, but not the run behind it.
ConnectStart ==
  /\ connectPc = "start"
  /\ connectPc' = "idle"
  /\ ConnectSession
  /\ UNCHANGED <<row, openStep, resetDue, qrVars, pairVars>>

ConnectRefresh ==
  /\ connectPc = "refresh"
  /\ connectPc' = "idle"
  /\ RefreshSession
  /\ ForgetPairing
  /\ pairingMode' = FALSE
  /\ pairReq' = None
  /\ UNCHANGED <<row, openStep, resetDue, qrStep, qrExpiring, pairPc, pairSock, pairCode,
                 codeTimer, codeExpiring>>

StopSession(q) ==
  /\ StopBegin(q)
  /\ ForgetPairing
  /\ pairingMode' = FALSE
  /\ UNCHANGED <<rowVars, qrStep, qrExpiring, pairReq, pairPc, pairSock, pairCode, codeTimer,
                 codeExpiring>>

\* logout() settles; the close it causes runs the close handler.
Logout(q) ==
  /\ LogoutDone(q)
  /\ IF Live(stopSock[q])
       THEN ForgetClosed(stopSock[q])
       ELSE UNCHANGED <<rowVars, qrVars, pairVars>>

\* stopSession's last write.  Whether it was called by the disconnect route or by
\* resetSession, which has a write of its own to make, shows only now.
StopRowWritten(q) ==
  /\ StopWritten(q)
  /\ WriteRow("logged_out", FALSE)
  /\ resetDue' \in {resetDue, TRUE}
  /\ UNCHANGED <<openStep, connectPc, qrVars, pairVars>>

\* That write settles.
ResetWritten ==
  /\ resetDue
  /\ resetDue' = FALSE
  /\ row' = [row EXCEPT !.status = "pending"] \/ (DbMayFail /\ UNCHANGED row)
  /\ UNCHANGED <<lifecycleVars, openStep, connectPc, qrVars, pairVars>>

-----------------------------------------------------------------------------
(* Phone pairing codes.                                                    *)

\* POST /:id/pairing-code reads the row and goes on when it is not connected.
PairingAsked(r) ==
  /\ pairPc[r] = "idle"
  /\ ~row.connected
  /\ pairPc' = [pairPc EXCEPT ![r] = "asked"]
  /\ UNCHANGED <<lifecycleVars, rowVars, qrVars, pairingMode, pairReq, pairSock, pairCode, code,
                 codeTimer, codeExpiring>>

\* It joins a request under way, or gets the active code or a refusal.
PairingJoined(r) ==
  /\ pairPc[r] = "asked"
  /\ pairReq # None \/ code # None
  /\ pairPc' = [pairPc EXCEPT ![r] = "idle"]
  /\ UNCHANGED <<lifecycleVars, rowVars, qrVars, pairingMode, pairReq, pairSock, pairCode, code,
                 codeTimer, codeExpiring>>

\* Or it begins a request, with a session if there is none.
PairingRequest(r) ==
  /\ pairPc[r] = "asked"
  /\ pairReq = None /\ code = None
  /\ pairReq' = r
  /\ pairingMode' = TRUE
  /\ pairPc' = [pairPc EXCEPT ![r] = "poll"]
  /\ IF current = None THEN ConnectSession ELSE UNCHANGED lifecycleVars
  /\ UNCHANGED <<rowVars, qrVars, pairSock, pairCode, code, codeTimer, codeExpiring>>

\* A request that ends without its first finally.
EndRequestInMode(r) ==
  /\ pairPc' = [pairPc EXCEPT ![r] = "idle"]
  /\ pairSock' = [pairSock EXCEPT ![r] = None]
  /\ pairCode' = [pairCode EXCEPT ![r] = None]
  /\ pairReq' = IF pairReq = r THEN None ELSE pairReq
  /\ UNCHANGED pairingMode

\* The finally clauses of requestPairingCodeOnce and requestPairingCode.
EndRequest(r) ==
  /\ pairPc' = [pairPc EXCEPT ![r] = "idle"]
  /\ pairSock' = [pairSock EXCEPT ![r] = None]
  /\ pairCode' = [pairCode EXCEPT ![r] = None]
  /\ pairingMode' = FALSE
  /\ pairReq' = IF pairReq = r THEN None ELSE pairReq

\* The poll finds a socket that has offered a QR and asks it for a code.
PairingReady(r) ==
  /\ pairPc[r] = "poll"
  /\ current # None /\ qrReady
  /\ pairPc' = [pairPc EXCEPT ![r] = "request"]
  /\ pairSock' = [pairSock EXCEPT ![r] = current]
  /\ UNCHANGED <<lifecycleVars, rowVars, qrVars, pairingMode, pairReq, pairCode, code,
                 codeTimer, codeExpiring>>

\* The startup failed, no QR came in time, the library refused a code; or the write of
\* the row was rejected, which leaves the code active and without an expiry timer.
PairingFails(r) ==
  /\ pairPc[r] \in {"poll", "request"} \/ (pairPc[r] = "write" /\ DbMayFail)
  /\ EndRequest(r)
  /\ UNCHANGED <<lifecycleVars, rowVars, qrVars, code, codeTimer, codeExpiring>>

\* requestPairingCode answers: the code is the active one, whatever socket is
\* current by now.  That only a socket which is still up answers is assumed of the
\* library, which rejects the requests pending on a connection that closes.
PairingCodeIssued(r, k) ==
  /\ pairPc[r] = "request"
  /\ Live(pairSock[r])
  /\ Forgotten(k)
  /\ code' = k
  /\ qrTimer' = None
  /\ pairCode' = [pairCode EXCEPT ![r] = k]
  /\ pairPc' = [pairPc EXCEPT ![r] = "write"]
  /\ UNCHANGED <<lifecycleVars, rowVars, qrReady, qrStep, qrExpiring, pairingMode, pairReq,
                 pairSock, codeTimer, codeExpiring>>

\* The pairing_code_ready write commits, and the code's expiry timer is set.
PairingCodeWritten(r) ==
  /\ pairPc[r] = "write"
  /\ EndRequest(r)
  /\ codeTimer' = [codeTimer EXCEPT ![pairCode[r]] = pairSock[r]]
  /\ WriteRow("pairing_code_ready", FALSE)
  /\ UNCHANGED <<lifecycleVars, openStep, connectPc, resetDue, qrVars, code, codeExpiring>>

\* getPairingCode finds the active code's lifetime over.  A timer of that code may be
\* about to fire, and will do nothing.
CodeLapses ==
  /\ code # None
  /\ code' = None
  /\ codeTimer' = [codeTimer EXCEPT ![code] = None]
  /\ UNCHANGED <<lifecycleVars, rowVars, qrVars, pairingMode, pairReq, pairPc, pairSock, pairCode,
                 codeExpiring>>

\* The expiry timer of a code fires.
CodeTimer(k) ==
  /\ codeTimer[k] # None
  /\ codeTimer' = [codeTimer EXCEPT ![k] = None]
  /\ code' = IF code = k THEN None ELSE code
  /\ codeExpiring' = (codeExpiring \/ (code = k /\ current = codeTimer[k]))
  /\ UNCHANGED <<lifecycleVars, rowVars, qrVars, pairingMode, pairReq, pairPc, pairSock, pairCode>>

CodeExpiryWritten ==
  /\ codeExpiring
  /\ codeExpiring' = FALSE
  /\ row' = [row EXCEPT !.status = "pairing_code_expired"] \/ (DbMayFail /\ UNCHANGED row)
  /\ UNCHANGED <<lifecycleVars, openStep, connectPc, resetDue, qrVars, pairingMode, pairReq,
                 pairPc, pairSock, pairCode, code, codeTimer>>

-----------------------------------------------------------------------------
(* The process ends; everything but the database is new.                   *)

ProcessRestart ==
  /\ Restart
  /\ openStep' = [s \in Sockets |-> "idle"]
  /\ connectPc' = "idle"
  /\ resetDue' = FALSE
  /\ qrReady' = FALSE
  /\ qrStep' = [s \in Sockets |-> "idle"]
  /\ qrTimer' = None
  /\ qrExpiring' = FALSE
  /\ pairingMode' = FALSE
  /\ pairReq' = None
  /\ pairPc' = [r \in Requests |-> "idle"]
  /\ pairSock' = [r \in Requests |-> None]
  /\ pairCode' = [r \in Requests |-> None]
  /\ code' = None
  /\ codeTimer' = [k \in Codes |-> None]
  /\ codeExpiring' = FALSE
  /\ UNCHANGED row

SessionNext ==
  \/ PlainStep
  \/ BootListed
  \/ \E s \in Sockets :
       \/ OpenHandler(s) \/ OpenWritten(s) \/ CloseRowWritten(s)
       \/ \E kind \in CloseKinds : CloseHandler(s, kind)
       \/ QrEvent(s) \/ QrEncoded(s) \/ QrWritten(s) \/ QrFails(s)
  \/ QrTimer \/ QrExpiryWritten
  \/ ConnectRead \/ ConnectStart \/ ConnectRefresh
  \/ \E q \in Stops : StopSession(q) \/ Logout(q) \/ StopRowWritten(q)
  \/ ResetWritten
  \/ \E r \in Requests :
       \/ PairingAsked(r) \/ PairingJoined(r) \/ PairingRequest(r)
       \/ PairingReady(r) \/ PairingFails(r) \/ PairingCodeWritten(r)
       \/ \E k \in Codes : PairingCodeIssued(r, k)
  \/ \E k \in Codes : CodeTimer(k)
  \/ CodeLapses \/ CodeExpiryWritten
  \/ ProcessRestart

SessionSpec == SessionInit /\ [][SessionNext]_sessionVars

-----------------------------------------------------------------------------
(* Properties.                                                             *)

\* The flag that silences QR codes while a pairing code is asked for does not
\* outlive the requests that set it.
NoPairingModeLeak == pairingMode => \E r \in Requests : pairPc[r] \notin {"idle", "asked"}

\* The active code, which GET /:id/pairing-code hands out, was issued by the socket
\* in the session map: it is not left over from one that was closed or replaced.
CodeOfCurrentSocket ==
  /\ code # None /\ codeTimer[code] # None => codeTimer[code] = current
  /\ \A r \in Requests : pairCode[r] # None /\ code = pairCode[r] => pairSock[r] = current

\* The session manager moves sockets and credentials only as SessionLifecycle does.
ImplementsLifecycle == LifecycleSpec

\* docs/WHATSAPP_CAPABILITIES.md: a second code is not generated while one is still
\* active for the account.
NoSecondCode ==
  [][\A r \in Requests, k \in Codes :
       pairPc[r] = "request" /\ pairCode'[r] # None
         => codeTimer[k] = None \/ codeTimer[k] # pairSock[r]]_sessionVars

=============================================================================
