-------------------------- MODULE SessionManagerProofs --------------------------
(***************************************************************************)
(* The full session manager implements its socket lifecycle, so what is    *)
(* proved of SessionLifecycle holds of it; and the pairing mode, which     *)
(* silences QR codes, is never left on.                                    *)
(***************************************************************************)
EXTENDS SessionManager, SessionLifecycleProofs

\* A handler that moves sockets or credentials is the lifecycle's handler and more.
LEMMA LifecycleHandlers ==
  ASSUME NEW s \in Sockets,
         \/ OpenHandler(s)
         \/ CloseRowWritten(s)
         \/ \E kind \in CloseKinds : CloseHandler(s, kind)
  PROVE  Next
<1>1. \/ Open(s)
      \/ CloseWritten(s)
      \/ \E kind \in CloseKinds : Close(s, kind)
  BY DEF OpenHandler, CloseRowWritten, CloseHandler
<1>2. QED
  BY <1>1 DEF Next, Environment, HandlerSteps

LEMMA LifecycleStops ==
  ASSUME NEW q \in Stops, StopSession(q) \/ Logout(q) \/ StopRowWritten(q)
  PROVE  Next
<1>1. StopBegin(q) \/ LogoutDone(q) \/ StopWritten(q)
  BY DEF StopSession, Logout, StopRowWritten
<1>2. QED
  BY <1>1 DEF Next, Environment, StopSteps

LEMMA LifecyclePlain ==
  ASSUME PlainStep
  PROVE  Next
<1>1. CASE \/ \E p \in Startups : ReadCreds(p) \/ ReadFails(p)
           \/ \E p \in Startups, s \in Sockets : MakeSocket(p, s)
  BY <1>1 DEF Next, StartupSteps
<1>2. CASE \E s \in Sockets :
             PairSuccess(s) \/ CredsUpdate(s) \/ SaveLands(s) \/ ClosePurged(s)
  BY <1>2 DEF Next, Environment, HandlerSteps
<1>3. CASE \E q \in Stops : LogoutRejected(q) \/ StopPurged(q) \/ StopFails(q)
  BY <1>3 DEF Next, StopSteps
<1>4. CASE ReconnectTimer \/ BootStart
  BY <1>4 DEF Next
<1>5. QED
  BY <1>1, <1>2, <1>3, <1>4 DEF PlainStep

\* The other handlers leave the lifecycle alone.
LEMMA LifecycleStutters ==
  ASSUME \/ \E s \in Sockets : \/ OpenWritten(s) \/ QrEvent(s) \/ QrEncoded(s)
                                \/ QrWritten(s) \/ QrFails(s)
         \/ QrTimer \/ QrExpiryWritten \/ ConnectRead \/ ResetWritten
         \/ CodeLapses \/ CodeExpiryWritten
         \/ \E k \in Codes : CodeTimer(k)
         \/ \E r \in Requests : \/ PairingAsked(r) \/ PairingJoined(r) \/ PairingReady(r)
                                \/ PairingFails(r) \/ PairingCodeWritten(r)
                                \/ \E k \in Codes : PairingCodeIssued(r, k)
  PROVE  UNCHANGED lifecycleVars
BY DEF OpenWritten, QrEvent, QrEncoded, QrWritten, QrFails, QrTimer, QrExpiryWritten, ConnectRead,
       ResetWritten, CodeExpiryWritten, CodeLapses, CodeTimer, PairingAsked, PairingJoined,
       PairingReady, PairingFails, PairingCodeWritten, PairingCodeIssued

LEMMA StepImplementsStep ==
  ASSUME [SessionNext]_sessionVars
  PROVE  [Next]_lifecycleVars
<1>1. CASE PlainStep
  BY <1>1, LifecyclePlain
<1>2. CASE BootListed
  BY <1>2 DEF BootListed, Next
<1>3. CASE \E s \in Sockets :
             \/ OpenHandler(s) \/ CloseRowWritten(s)
             \/ \E kind \in CloseKinds : CloseHandler(s, kind)
  BY <1>3, LifecycleHandlers
<1>4. CASE \E q \in Stops : StopSession(q) \/ Logout(q) \/ StopRowWritten(q)
  BY <1>4, LifecycleStops
<1>5. CASE ConnectStart \/ ConnectRefresh \/ ProcessRestart
  BY <1>5 DEF ConnectStart, ConnectRefresh, ProcessRestart, Next, Environment
<1>6. CASE \E r \in Requests : PairingRequest(r)
  BY <1>6 DEF PairingRequest, Next, Environment
<1>7. CASE \/ \E s \in Sockets : \/ OpenWritten(s) \/ QrEvent(s) \/ QrEncoded(s)
                                  \/ QrWritten(s) \/ QrFails(s)
           \/ QrTimer \/ QrExpiryWritten \/ ConnectRead \/ ResetWritten
           \/ CodeLapses \/ CodeExpiryWritten
           \/ \E k \in Codes : CodeTimer(k)
           \/ \E r \in Requests : \/ PairingAsked(r) \/ PairingJoined(r) \/ PairingReady(r)
                                  \/ PairingFails(r) \/ PairingCodeWritten(r)
                                  \/ \E k \in Codes : PairingCodeIssued(r, k)
  BY <1>7, LifecycleStutters
<1>8. CASE UNCHANGED sessionVars
  BY <1>8 DEF sessionVars
<1>9. QED
  BY <1>1, <1>2, <1>3, <1>4, <1>5, <1>6, <1>7, <1>8 DEF SessionNext

\* Handlers of QR codes, pairing codes and account rows move sockets and credentials
\* only as the lifecycle allows.
THEOREM SessionImplementsLifecycle == SessionSpec => ImplementsLifecycle
<1>1. SessionInit => Init
  BY DEF SessionInit
<1>2. [SessionNext]_sessionVars => [Next]_lifecycleVars
  BY StepImplementsStep
<1>3. QED
  BY <1>1, <1>2, PTL DEF SessionSpec, LifecycleSpec, ImplementsLifecycle

\* So the full session manager never loses track of a connection either.
COROLLARY SessionLosesNoConnection == SessionSpec => []NoStrayConnection
BY SessionImplementsLifecycle, NoConnectionLost, PTL DEF ImplementsLifecycle

\* The rest of what holds of the lifecycle, with the account row, the QR codes, the
\* pairing codes and the routes around it: one startup, a map without dead sockets,
\* no stopping mark left behind.
COROLLARY SessionMapsAreRight ==
  SessionSpec => [](SingleStartup /\ MapHoldsLiveSocket /\ NoStoppingLeak)
BY SessionImplementsLifecycle, OneStartup, MapNeverStale, StoppingReleased, PTL
   DEF ImplementsLifecycle

\* A late close of an old socket is without effect, whatever its QR and pairing codes do.
COROLLARY SessionIgnoresStaleCloses == SessionSpec => StaleCloseHarmless
BY SessionImplementsLifecycle, StaleClosesHarmless, PTL DEF ImplementsLifecycle

\* No route and no handler of a QR or pairing code removes the credentials of a session
\* that only dropped.
COROLLARY SessionKeepsCredentials == SessionSpec => CredentialsSurviveDrops
BY SessionImplementsLifecycle, DropsKeepCredentials, PTL DEF ImplementsLifecycle

\* A session that is to come up is given up only where a credential read fails or the
\* process ends; one at rest comes up only when a route asks, of which a request for
\* a pairing code is one, or the process restarts.
COROLLARY SessionComesUpWhenDue == SessionSpec => DueNotDropped /\ OnlyRequestsWake
BY SessionImplementsLifecycle, DueSessionsKept, RestUntilAsked, PTL DEF ImplementsLifecycle

\* docs/whatsapp-architecture.md, one live socket per account, of everything the
\* operator does with a session: true unless logout() is rejected.
COROLLARY SessionHasOneConnection ==
  ASSUME LogoutMayReject = FALSE
  PROVE  SessionSpec => []NeverTwoConnections
BY SessionImplementsLifecycle, OneConnection, PTL DEF ImplementsLifecycle

-----------------------------------------------------------------------------
\* Where the runs of requestPairingCodeOnce are, as far as the pairing mode needs it.
RunsKnown == pairPc \in [Requests -> {"idle", "asked", "poll", "request", "write"}]
ModeInv == RunsKnown /\ NoPairingModeLeak

LEMMA PairingKeepsMode ==
  ASSUME ModeInv, NEW r \in Requests,
         \/ PairingAsked(r) \/ PairingJoined(r) \/ PairingRequest(r)
         \/ PairingReady(r) \/ PairingFails(r) \/ PairingCodeWritten(r)
         \/ \E k \in Codes : PairingCodeIssued(r, k)
  PROVE  ModeInv'
<1> USE DEF ModeInv, RunsKnown, NoPairingModeLeak
<1>1. CASE PairingAsked(r) \/ PairingJoined(r)
  <2>1. /\ pairPc[r] \in {"idle", "asked"}
        /\ \E to \in {"idle", "asked"} : pairPc' = [pairPc EXCEPT ![r] = to]
        /\ pairingMode' = pairingMode
    BY <1>1 DEF PairingAsked, PairingJoined
  <2>2. QED
    BY <2>1
<1>2. CASE PairingRequest(r)
  BY <1>2 DEF PairingRequest
<1>3. CASE PairingReady(r)
  BY <1>3 DEF PairingReady
<1>4. CASE \E k \in Codes : PairingCodeIssued(r, k)
  BY <1>4 DEF PairingCodeIssued
<1>5. CASE PairingFails(r) \/ PairingCodeWritten(r)
  BY <1>5 DEF PairingFails, PairingCodeWritten, EndRequest
<1>6. QED
  BY <1>1, <1>2, <1>3, <1>4, <1>5

\* Every other handler leaves the runs where they are, and can only clear the mode.
LEMMA OthersKeepMode ==
  ASSUME ModeInv, pairPc' = pairPc, pairingMode' = pairingMode \/ pairingMode' = FALSE
  PROVE  ModeInv'
BY DEF ModeInv, RunsKnown, NoPairingModeLeak

LEMMA StepKeepsMode ==
  ASSUME ModeInv, [SessionNext]_sessionVars
  PROVE  ModeInv'
<1> USE DEF rowVars, pairVars
<1>1. CASE PlainStep \/ BootListed \/ UNCHANGED sessionVars
  BY <1>1, OthersKeepMode DEF PlainStep, BootListed, sessionVars
<1>2. CASE \E s \in Sockets :
             \/ OpenHandler(s) \/ OpenWritten(s) \/ CloseRowWritten(s)
             \/ QrEvent(s) \/ QrEncoded(s) \/ QrWritten(s) \/ QrFails(s)
  BY <1>2, OthersKeepMode
  DEF OpenHandler, OpenWritten, CloseRowWritten, QrEvent, QrEncoded, QrWritten, QrFails
<1>3. CASE \E s \in Sockets : \E kind \in CloseKinds : CloseHandler(s, kind)
  BY <1>3, OthersKeepMode DEF CloseHandler, ForgetClosed
<1>4. CASE \/ QrTimer \/ QrExpiryWritten \/ ResetWritten
           \/ CodeLapses \/ CodeExpiryWritten
           \/ ConnectRead \/ ConnectStart \/ ConnectRefresh
           \/ \E k \in Codes : CodeTimer(k)
  BY <1>4, OthersKeepMode
  DEF QrTimer, QrExpiryWritten, ResetWritten, CodeLapses, CodeExpiryWritten, ConnectRead,
      ConnectStart, ConnectRefresh, CodeTimer
<1>5. CASE \E q \in Stops : StopSession(q) \/ Logout(q) \/ StopRowWritten(q)
  BY <1>5, OthersKeepMode DEF StopSession, Logout, ForgetClosed, StopRowWritten
<1>6. CASE \E r \in Requests :
             \/ PairingAsked(r) \/ PairingJoined(r) \/ PairingRequest(r)
             \/ PairingReady(r) \/ PairingFails(r) \/ PairingCodeWritten(r)
             \/ \E k \in Codes : PairingCodeIssued(r, k)
  BY <1>6, PairingKeepsMode
<1>7. CASE ProcessRestart
  BY <1>7 DEF ProcessRestart, ModeInv, RunsKnown, NoPairingModeLeak
<1>8. QED
  BY <1>1, <1>2, <1>3, <1>4, <1>5, <1>6, <1>7 DEF SessionNext

\* The flag set by requestPairingCodeOnce never outlives the runs that set it: neither
\* a refresh that forgets the shared request, nor a stop, a close or a restart leaves
\* QR codes silenced.
THEOREM PairingModeReleased == SessionSpec => []NoPairingModeLeak
<1>1. SessionInit => ModeInv
  BY DEF SessionInit, ModeInv, RunsKnown, NoPairingModeLeak
<1>2. ModeInv /\ [SessionNext]_sessionVars => ModeInv'
  BY StepKeepsMode
<1>3. ModeInv => NoPairingModeLeak
  BY DEF ModeInv
<1>4. QED
  BY <1>1, <1>2, <1>3, PTL DEF SessionSpec

-----------------------------------------------------------------------------
(* Type correctness, one part per group of variables.                      *)

RowTypeOK ==
  /\ row \in [status: Status, connected: BOOLEAN, qr: BOOLEAN]
  /\ openStep \in [Sockets -> {"idle", "write"}]
  /\ connectPc \in {"idle", "start", "refresh"}
  /\ resetDue \in BOOLEAN

QrTypeOK ==
  /\ qrReady \in BOOLEAN
  /\ qrStep \in [Sockets -> {"idle", "encode", "write"}]
  /\ qrTimer \in Sockets \cup {None}
  /\ qrExpiring \in BOOLEAN

PairTypeOK ==
  /\ pairingMode \in BOOLEAN
  /\ pairReq \in Requests \cup {None}
  /\ RunsKnown
  /\ pairSock \in [Requests -> Sockets \cup {None}]
  /\ pairCode \in [Requests -> Codes \cup {None}]
  /\ code \in Codes \cup {None}
  /\ codeTimer \in [Codes -> Sockets \cup {None}]
  /\ codeExpiring \in BOOLEAN

PartsTypeOK == RowTypeOK /\ QrTypeOK /\ PairTypeOK

LEMMA TypesFrame ==
  /\ RowTypeOK /\ UNCHANGED rowVars => RowTypeOK'
  /\ QrTypeOK /\ UNCHANGED qrVars => QrTypeOK'
  /\ PairTypeOK /\ UNCHANGED pairVars => PairTypeOK'
BY DEF RowTypeOK, QrTypeOK, PairTypeOK, RunsKnown, rowVars, qrVars, pairVars

\* What is written to the row is a status and two flags.
LEMMA RowWritten ==
  ASSUME NEW status \in Status, NEW connected \in BOOLEAN, WriteRow(status, connected)
  PROVE  row' \in [status: Status, connected: BOOLEAN, qr: BOOLEAN]
BY DEF WriteRow

LEMMA SocketHandlersKeepTypes ==
  ASSUME TypeOK, PartsTypeOK, NEW s \in Sockets,
         \/ OpenHandler(s) \/ OpenWritten(s) \/ CloseRowWritten(s)
         \/ \E kind \in CloseKinds : CloseHandler(s, kind)
         \/ QrEvent(s) \/ QrEncoded(s) \/ QrWritten(s) \/ QrFails(s)
  PROVE  PartsTypeOK'
<1> USE DEF PartsTypeOK
<1>1. CASE OpenHandler(s)
  BY <1>1 DEF OpenHandler, ForgetPairing, RowTypeOK, QrTypeOK, PairTypeOK, RunsKnown
<1>2. CASE OpenWritten(s)
  <2>1. "connected" \in Status
    BY DEF Status
  <2>2. QED
    BY <1>2, <2>1, RowWritten, TypesFrame DEF OpenWritten, RowTypeOK
<1>3. CASE CloseRowWritten(s)
  <2>1. CloseStatus(closeKind[s]) \in Status
    BY DEF CloseStatus, Status
  <2>2. QED
    BY <1>3, <2>1, RowWritten, TypesFrame DEF CloseRowWritten, RowTypeOK
<1>4. CASE \E kind \in CloseKinds : CloseHandler(s, kind)
  BY <1>4, TypesFrame DEF CloseHandler, ForgetClosed, ForgetPairing, QrTypeOK, PairTypeOK, RunsKnown
<1>5. CASE QrEvent(s)
  BY <1>5, TypesFrame DEF QrEvent, QrTypeOK, PairTypeOK, RunsKnown
<1>6. CASE QrEncoded(s) \/ QrFails(s)
  BY <1>6, TypesFrame DEF QrEncoded, QrFails, QrTypeOK
<1>7. CASE QrWritten(s)
  BY <1>7, TypesFrame DEF QrWritten, QrTypeOK, RowTypeOK, Status
<1>8. QED
  BY <1>1, <1>2, <1>3, <1>4, <1>5, <1>6, <1>7

LEMMA RoutesKeepTypes ==
  ASSUME TypeOK, PartsTypeOK,
         \/ ConnectRead \/ ConnectStart \/ ConnectRefresh \/ ResetWritten
         \/ \E q \in Stops : StopSession(q) \/ Logout(q) \/ StopRowWritten(q)
  PROVE  PartsTypeOK'
<1> USE DEF PartsTypeOK
<1>1. CASE ConnectRead \/ ConnectStart
  BY <1>1, TypesFrame DEF ConnectRead, ConnectStart, RowTypeOK
<1>2. CASE ConnectRefresh
  BY <1>2 DEF ConnectRefresh, ForgetPairing, RowTypeOK, QrTypeOK, PairTypeOK, RunsKnown
<1>3. CASE ResetWritten
  <2>1. row' \in [status: Status, connected: BOOLEAN, qr: BOOLEAN]
    BY <1>3 DEF ResetWritten, RowTypeOK, Status
  <2>2. QED
    BY <1>3, <2>1, TypesFrame DEF ResetWritten, RowTypeOK
<1>4. CASE \E q \in Stops : StopSession(q)
  BY <1>4, TypesFrame DEF StopSession, ForgetPairing, QrTypeOK, PairTypeOK, RunsKnown
<1>5. CASE \E q \in Stops : Logout(q)
  BY <1>5, TypesFrame
  DEF Logout, ForgetClosed, ForgetPairing, QrTypeOK, PairTypeOK, RunsKnown
<1>6. CASE \E q \in Stops : StopRowWritten(q)
  <2>1. "logged_out" \in Status
    BY DEF Status
  <2>2. resetDue' \in BOOLEAN
    BY <1>6 DEF StopRowWritten, RowTypeOK
  <2>3. QED
    BY <1>6, <2>1, <2>2, RowWritten, TypesFrame DEF StopRowWritten, RowTypeOK
<1>7. QED
  BY <1>1, <1>2, <1>3, <1>4, <1>5, <1>6

LEMMA PairingKeepsTypes ==
  ASSUME TypeOK, PartsTypeOK, NEW r \in Requests,
         \/ PairingAsked(r) \/ PairingJoined(r) \/ PairingRequest(r)
         \/ PairingReady(r) \/ PairingFails(r) \/ PairingCodeWritten(r)
         \/ \E k \in Codes : PairingCodeIssued(r, k)
  PROVE  PartsTypeOK'
<1> USE DEF PartsTypeOK
<1>1. CASE PairingAsked(r) \/ PairingJoined(r) \/ PairingRequest(r)
  BY <1>1, TypesFrame DEF PairingAsked, PairingJoined, PairingRequest, PairTypeOK, RunsKnown
<1>2. CASE PairingReady(r)
  BY <1>2, TypesFrame DEF PairingReady, PairTypeOK, RunsKnown, TypeOK
<1>3. CASE PairingFails(r)
  BY <1>3, TypesFrame DEF PairingFails, EndRequest, PairTypeOK, RunsKnown
<1>4. CASE PairingCodeWritten(r)
  <2>1. "pairing_code_ready" \in Status
    BY DEF Status
  <2>2. RowTypeOK' /\ QrTypeOK'
    BY <1>4, <2>1, RowWritten, TypesFrame DEF PairingCodeWritten, RowTypeOK
  <2>3. PairTypeOK'
    BY <1>4 DEF PairingCodeWritten, EndRequest, PairTypeOK, RunsKnown
  <2>4. QED
    BY <2>2, <2>3
<1>5. CASE \E k \in Codes : PairingCodeIssued(r, k)
  BY <1>5, TypesFrame DEF PairingCodeIssued, QrTypeOK, PairTypeOK, RunsKnown
<1>6. QED
  BY <1>1, <1>2, <1>3, <1>4, <1>5

LEMMA TimersKeepTypes ==
  ASSUME PartsTypeOK,
         \/ QrTimer \/ QrExpiryWritten \/ CodeLapses \/ CodeExpiryWritten
         \/ \E k \in Codes : CodeTimer(k)
  PROVE  PartsTypeOK'
<1> USE DEF PartsTypeOK
<1>1. CASE QrTimer
  BY <1>1, TypesFrame DEF QrTimer, QrTypeOK
<1>2. CASE QrExpiryWritten
  <2>1. "qr_expired" \in Status /\ row.connected \in BOOLEAN
    BY DEF Status, RowTypeOK
  <2>2. row' \in [status: Status, connected: BOOLEAN, qr: BOOLEAN]
    BY <1>2, <2>1, RowWritten DEF QrExpiryWritten, RowTypeOK
  <2>3. QED
    BY <1>2, <2>2, TypesFrame DEF QrExpiryWritten, RowTypeOK, QrTypeOK
<1>3. CASE CodeLapses
  BY <1>3, TypesFrame DEF CodeLapses, PairTypeOK, RunsKnown
<1>4. CASE CodeExpiryWritten
  <2>1. row' \in [status: Status, connected: BOOLEAN, qr: BOOLEAN]
    BY <1>4 DEF CodeExpiryWritten, RowTypeOK, Status
  <2>2. QED
    BY <1>4, <2>1, TypesFrame DEF CodeExpiryWritten, RowTypeOK, PairTypeOK, RunsKnown
<1>5. CASE \E k \in Codes : CodeTimer(k)
  BY <1>5, TypesFrame DEF CodeTimer, PairTypeOK, RunsKnown
<1>6. QED
  BY <1>1, <1>2, <1>3, <1>4, <1>5

LEMMA StepKeepsTypes ==
  ASSUME TypeOK, PartsTypeOK, [SessionNext]_sessionVars
  PROVE  PartsTypeOK'
<1>1. CASE PlainStep \/ BootListed \/ UNCHANGED sessionVars
  BY <1>1, TypesFrame DEF PartsTypeOK, PlainStep, BootListed, sessionVars
<1>2. CASE \E s \in Sockets :
             \/ OpenHandler(s) \/ OpenWritten(s) \/ CloseRowWritten(s)
             \/ \E kind \in CloseKinds : CloseHandler(s, kind)
             \/ QrEvent(s) \/ QrEncoded(s) \/ QrWritten(s) \/ QrFails(s)
  BY <1>2, SocketHandlersKeepTypes
<1>3. CASE \/ ConnectRead \/ ConnectStart \/ ConnectRefresh \/ ResetWritten
           \/ \E q \in Stops : StopSession(q) \/ Logout(q) \/ StopRowWritten(q)
  BY <1>3, RoutesKeepTypes
<1>4. CASE \/ QrTimer \/ QrExpiryWritten \/ CodeLapses \/ CodeExpiryWritten
           \/ \E k \in Codes : CodeTimer(k)
  BY <1>4, TimersKeepTypes
<1>5. CASE \E r \in Requests :
             \/ PairingAsked(r) \/ PairingJoined(r) \/ PairingRequest(r)
             \/ PairingReady(r) \/ PairingFails(r) \/ PairingCodeWritten(r)
             \/ \E k \in Codes : PairingCodeIssued(r, k)
  BY <1>5, PairingKeepsTypes
<1>6. CASE ProcessRestart
  BY <1>6 DEF ProcessRestart, PartsTypeOK, RowTypeOK, QrTypeOK, PairTypeOK, RunsKnown
<1>7. QED
  BY <1>1, <1>2, <1>3, <1>4, <1>5, <1>6 DEF SessionNext

\* What the lifecycle's invariant and the types of the rest establish together.
THEOREM SessionInvariant == SessionSpec => [](LifecycleInv /\ PartsTypeOK)
<1>1. SessionInit => PartsTypeOK
  <2>1. SessionInit => RowTypeOK
    <3>1. [status |-> "pending", connected |-> FALSE, qr |-> FALSE]
            \in [status: Status, connected: BOOLEAN, qr: BOOLEAN]
      BY DEF Status
    <3>2. QED
      BY <3>1 DEF SessionInit, RowTypeOK
  <2>2. SessionInit => QrTypeOK
    BY DEF SessionInit, QrTypeOK
  <2>3. SessionInit => PairTypeOK
    BY DEF SessionInit, PairTypeOK, RunsKnown
  <2>4. QED
    BY <2>1, <2>2, <2>3 DEF PartsTypeOK
<1>2. LifecycleInv /\ PartsTypeOK /\ [SessionNext]_sessionVars => PartsTypeOK'
  BY StepKeepsTypes DEF LifecycleInv
<1>3. SessionSpec => []LifecycleInv
  BY SessionImplementsLifecycle, LifecycleInvariant, PTL DEF ImplementsLifecycle
<1>4. QED
  BY <1>1, <1>2, <1>3, PTL DEF SessionSpec

\* Type correctness of the session manager: the row never holds a status outside the
\* schema's, nor a timer or a request an identity that is not one.
THEOREM SessionTypes == SessionSpec => []SessionTypeOK
<1>1. LifecycleInv /\ PartsTypeOK => SessionTypeOK
  BY DEF LifecycleInv, PartsTypeOK, RowTypeOK, QrTypeOK, PairTypeOK, RunsKnown, SessionTypeOK
<1>2. QED
  BY <1>1, SessionInvariant, PTL

-----------------------------------------------------------------------------
(* The active code belongs to the current socket.                          *)

\* A run that has asked a socket for a code, or got one, still knows the socket.
AskedSocketKnown ==
  \A r \in Requests : pairPc[r] = "request" \/ pairCode[r] # None => pairSock[r] # None

CodeInv == AskedSocketKnown /\ CodeOfCurrentSocket

\* It stays so when codes and requests stay and the map either stays or was empty,
LEMMA MapFilled ==
  ASSUME CodeInv, current' = current \/ current = None, UNCHANGED pairVars, PairTypeOK
  PROVE  CodeInv'
BY DEF CodeInv, AskedSocketKnown, CodeOfCurrentSocket, pairVars, PairTypeOK

\* and when requests stay and the active code is forgotten, or the map stays.
LEMMA CodeForgotten ==
  ASSUME CodeInv, UNCHANGED <<pairPc, pairSock, pairCode, codeTimer>>,
         code' = None \/ (code' = code /\ current' = current), PairTypeOK
  PROVE  CodeInv'
<1>1. \A r \in Requests : code' = pairCode'[r] /\ pairCode'[r] # None => code' = code
  BY DEF CodeInv
<1>2. QED
  BY <1>1 DEF CodeInv, AskedSocketKnown, CodeOfCurrentSocket

LEMMA SocketsKeepCode ==
  ASSUME CodeInv, PairTypeOK, NEW s \in Sockets,
         \/ OpenHandler(s) \/ OpenWritten(s) \/ CloseRowWritten(s)
         \/ \E kind \in CloseKinds : CloseHandler(s, kind)
         \/ QrEvent(s) \/ QrEncoded(s) \/ QrWritten(s) \/ QrFails(s)
  PROVE  CodeInv'
<1> USE DEF lifecycleVars, socketVars, pairVars
<1>1. CASE OpenHandler(s)
  BY <1>1, CodeForgotten DEF OpenHandler, ForgetPairing
<1>2. CASE OpenWritten(s) \/ QrEncoded(s) \/ QrWritten(s) \/ QrFails(s)
  BY <1>2, MapFilled DEF OpenWritten, QrEncoded, QrWritten, QrFails
<1>3. CASE CloseRowWritten(s)
  BY <1>3, MapFilled DEF CloseRowWritten, CloseWritten
<1>4. CASE \E kind \in CloseKinds : CloseHandler(s, kind)
  <2>1. current' = current \/ code' = None
    BY <1>4 DEF CloseHandler, Close, OnClose, ForgetClosed, ForgetPairing
  <2>2. code' = code \/ code' = None
    BY <1>4 DEF CloseHandler, ForgetClosed, ForgetPairing
  <2>3. UNCHANGED <<pairPc, pairSock, pairCode, codeTimer>>
    BY <1>4 DEF CloseHandler, ForgetClosed
  <2>4. QED
    BY <2>1, <2>2, <2>3, CodeForgotten
<1>5. CASE QrEvent(s)
  BY <1>5, CodeForgotten DEF QrEvent
<1>6. QED
  BY <1>1, <1>2, <1>3, <1>4, <1>5

LEMMA RoutesKeepCode ==
  ASSUME CodeInv, PairTypeOK,
         \/ ConnectRead \/ ConnectStart \/ ConnectRefresh \/ ResetWritten
         \/ \E q \in Stops : StopSession(q) \/ Logout(q) \/ StopRowWritten(q)
  PROVE  CodeInv'
<1> USE DEF lifecycleVars, socketVars, pairVars
<1>1. CASE ConnectRead \/ ConnectStart \/ ResetWritten
  BY <1>1, MapFilled DEF ConnectRead, ConnectStart, ConnectSession, ResetWritten
<1>2. CASE ConnectRefresh
  BY <1>2, CodeForgotten DEF ConnectRefresh, ForgetPairing
<1>3. CASE \E q \in Stops : StopSession(q)
  BY <1>3, CodeForgotten DEF StopSession, ForgetPairing
<1>4. CASE \E q \in Stops : Logout(q)
  <2>1. current' = current \/ code' = None
    BY <1>4 DEF Logout, LogoutDone, OnClose, ForgetClosed, ForgetPairing
  <2>2. code' = code \/ code' = None
    BY <1>4 DEF Logout, ForgetClosed, ForgetPairing
  <2>3. UNCHANGED <<pairPc, pairSock, pairCode, codeTimer>>
    BY <1>4 DEF Logout, ForgetClosed
  <2>4. QED
    BY <2>1, <2>2, <2>3, CodeForgotten
<1>5. CASE \E q \in Stops : StopRowWritten(q)
  BY <1>5, MapFilled DEF StopRowWritten, StopWritten, EndStop
<1>6. QED
  BY <1>1, <1>2, <1>3, <1>4, <1>5

\* A code is issued by a live socket, and with no swallowed rejection of logout() the
\* only live socket is the current one.
LEMMA PairingKeepsCode ==
  ASSUME CodeInv, TypeOK, NoStrayConnection, rejected = {}, PairTypeOK, NEW r \in Requests,
         \/ PairingAsked(r) \/ PairingJoined(r) \/ PairingRequest(r)
         \/ PairingReady(r) \/ PairingFails(r) \/ PairingCodeWritten(r)
         \/ \E k \in Codes : PairingCodeIssued(r, k)
  PROVE  CodeInv'
<1> USE DEF lifecycleVars, socketVars
<1>1. CASE PairingAsked(r) \/ PairingJoined(r) \/ PairingRequest(r)
  <2>1. /\ current' = current
        /\ UNCHANGED <<pairSock, pairCode, code, codeTimer>>
        /\ \E to \in {"idle", "asked", "poll"} : pairPc' = [pairPc EXCEPT ![r] = to]
    BY <1>1 DEF PairingAsked, PairingJoined, PairingRequest, ConnectSession
  <2>2. QED
    BY <2>1 DEF CodeInv, AskedSocketKnown, CodeOfCurrentSocket, PairTypeOK, RunsKnown
<1>2. CASE PairingReady(r)
  BY <1>2 DEF PairingReady, CodeInv, AskedSocketKnown, CodeOfCurrentSocket, PairTypeOK, RunsKnown
<1>3. CASE PairingFails(r)
  BY <1>3 DEF PairingFails, EndRequest, CodeInv, AskedSocketKnown, CodeOfCurrentSocket,
              PairTypeOK, RunsKnown
<1>4. CASE PairingCodeWritten(r)
  <2>1. code # None /\ code = pairCode[r] => pairSock[r] = current
    BY DEF CodeInv, CodeOfCurrentSocket
  <2>2. QED
    BY <1>4, <2>1 DEF PairingCodeWritten, EndRequest, CodeInv, AskedSocketKnown,
                      CodeOfCurrentSocket, PairTypeOK, RunsKnown
<1>5. ASSUME NEW k \in Codes, PairingCodeIssued(r, k)
      PROVE  CodeInv'
  <2>1. pairSock[r] = current
    <3>1. pairSock[r] \in Sockets
      BY <1>5 DEF PairingCodeIssued, CodeInv, AskedSocketKnown, PairTypeOK
    <3>2. QED
      BY <1>5, <3>1 DEF PairingCodeIssued, NoStrayConnection
  <2>2. AskedSocketKnown'
    BY <1>5 DEF PairingCodeIssued, CodeInv, AskedSocketKnown, PairTypeOK, RunsKnown
  <2>3. CodeOfCurrentSocket'
    BY <1>5, <2>1 DEF PairingCodeIssued, Forgotten, CodeOfCurrentSocket, PairTypeOK
  <2>4. QED
    BY <2>2, <2>3 DEF CodeInv
<1>6. QED
  BY <1>1, <1>2, <1>3, <1>4, <1>5

LEMMA TimersKeepCode ==
  ASSUME CodeInv, PairTypeOK,
         \/ QrTimer \/ QrExpiryWritten \/ CodeLapses \/ CodeExpiryWritten
         \/ \E k \in Codes : CodeTimer(k)
  PROVE  CodeInv'
<1> USE DEF lifecycleVars, socketVars, pairVars
<1>1. CASE QrTimer \/ QrExpiryWritten
  BY <1>1, MapFilled DEF QrTimer, QrExpiryWritten
<1>2. CASE CodeExpiryWritten
  BY <1>2, CodeForgotten DEF CodeExpiryWritten
<1>3. CASE CodeLapses
  BY <1>3 DEF CodeLapses, CodeInv, AskedSocketKnown, CodeOfCurrentSocket, PairTypeOK
<1>4. CASE \E k \in Codes : CodeTimer(k)
  BY <1>4 DEF CodeTimer, CodeInv, AskedSocketKnown, CodeOfCurrentSocket, PairTypeOK
<1>5. QED
  BY <1>1, <1>2, <1>3, <1>4

LEMMA PlainKeepsCode ==
  ASSUME CodeInv, PairTypeOK, LogoutMayReject = FALSE, PlainStep \/ BootListed
  PROVE  CodeInv'
<1> USE DEF socketVars, PlainStep
<1>1. current' = current \/ current = None
  <2>1. CASE \E p \in Startups, s \in Sockets : MakeSocket(p, s)
    BY <2>1 DEF MakeSocket
  <2>2. CASE \/ \E p \in Startups : ReadCreds(p) \/ ReadFails(p)
             \/ \E s \in Sockets :
                  PairSuccess(s) \/ CredsUpdate(s) \/ SaveLands(s) \/ ClosePurged(s)
    BY <2>2 DEF ReadCreds, ReadFails, PairSuccess, CredsUpdate, SaveLands, ClosePurged
  <2>3. CASE \E q \in Stops : LogoutRejected(q) \/ StopPurged(q) \/ StopFails(q)
    BY <2>3 DEF LogoutRejected, StopPurged, StopFails, EndStop
  <2>4. CASE ReconnectTimer \/ BootStart \/ BootListed
    BY <2>4 DEF ReconnectTimer, BootStart, BootListed, BootList
  <2>5. QED
    BY <2>1, <2>2, <2>3, <2>4
<1>2. UNCHANGED pairVars
  BY DEF BootListed
<1>3. QED
  BY <1>1, <1>2, MapFilled

LEMMA StepKeepsCode ==
  ASSUME LogoutMayReject = FALSE, LifecycleInv, rejected = {}, PartsTypeOK, CodeInv,
         [SessionNext]_sessionVars
  PROVE  CodeInv'
<1> TypeOK /\ NoStrayConnection /\ PairTypeOK
  BY DEF LifecycleInv, PartsTypeOK
<1>1. CASE PlainStep \/ BootListed
  BY <1>1, PlainKeepsCode
<1>2. CASE UNCHANGED sessionVars
  BY <1>2, MapFilled DEF sessionVars, lifecycleVars, socketVars
<1>3. CASE \E s \in Sockets :
             \/ OpenHandler(s) \/ OpenWritten(s) \/ CloseRowWritten(s)
             \/ \E kind \in CloseKinds : CloseHandler(s, kind)
             \/ QrEvent(s) \/ QrEncoded(s) \/ QrWritten(s) \/ QrFails(s)
  BY <1>3, SocketsKeepCode
<1>4. CASE \/ ConnectRead \/ ConnectStart \/ ConnectRefresh \/ ResetWritten
           \/ \E q \in Stops : StopSession(q) \/ Logout(q) \/ StopRowWritten(q)
  BY <1>4, RoutesKeepCode
<1>5. CASE \/ QrTimer \/ QrExpiryWritten \/ CodeLapses \/ CodeExpiryWritten
           \/ \E k \in Codes : CodeTimer(k)
  BY <1>5, TimersKeepCode
<1>6. CASE \E r \in Requests :
             \/ PairingAsked(r) \/ PairingJoined(r) \/ PairingRequest(r)
             \/ PairingReady(r) \/ PairingFails(r) \/ PairingCodeWritten(r)
             \/ \E k \in Codes : PairingCodeIssued(r, k)
  BY <1>6, PairingKeepsCode
<1>7. CASE ProcessRestart
  BY <1>7 DEF ProcessRestart, CodeInv, AskedSocketKnown, CodeOfCurrentSocket
<1>8. QED
  BY <1>1, <1>2, <1>3, <1>4, <1>5, <1>6, <1>7 DEF SessionNext

\* While logout() is always answered by a close, the pairing code an account hands out
\* is one of its current socket, whatever closes, refreshes, stops and expiry timers come
\* between asking for it and getting it.
THEOREM CodesAreCurrent ==
  ASSUME LogoutMayReject = FALSE
  PROVE  SessionSpec => []CodeOfCurrentSocket
<1>1. SessionInit => rejected = {} /\ CodeInv
  BY DEF SessionInit, Init, CodeInv, AskedSocketKnown, CodeOfCurrentSocket
<1>2. rejected = {} /\ [SessionNext]_sessionVars => (rejected = {})'
  BY RejectedNeedsSwitch, StepImplementsStep
<1>3. LifecycleInv /\ PartsTypeOK /\ rejected = {} /\ CodeInv /\ [SessionNext]_sessionVars
        => CodeInv'
  BY StepKeepsCode
<1>4. CodeInv => CodeOfCurrentSocket
  BY DEF CodeInv
<1>5. QED
  BY <1>1, <1>2, <1>3, <1>4, SessionInvariant, PTL DEF SessionSpec

=============================================================================
