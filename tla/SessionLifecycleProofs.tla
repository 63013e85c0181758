------------------------- MODULE SessionLifecycleProofs -------------------------
(***************************************************************************)
(* Proofs about SessionLifecycle, for any number of sockets, startups and  *)
(* stops, any bounds, and either setting of the switches.                  *)
(***************************************************************************)
EXTENDS SessionLifecycle, TLAPS

\* None is an identity of nothing.
LEMMA NoneIsNoId == \A x \in Sockets \cup Startups \cup Stops : x # None
BY IdsAssumption DEF IdsAssumption

\* A process starts with empty maps.
LEMMA InitEstablishesInv == Init => LifecycleInv
<1>1. SUFFICES ASSUME Init PROVE LifecycleInv
  OBVIOUS
<1>2. TypeOK
  <2>1. /\ current \in Sockets \cup {None}
        /\ conn \in [Sockets -> {"closed", "connecting", "open"}]
        /\ registered \in [Sockets -> BOOLEAN]
        /\ rejected \in SUBSET Sockets
        /\ saving \in SUBSET Sockets
        /\ closeStep \in [Sockets -> {"idle", "purge", "write"}]
        /\ closeKind \in [Sockets -> CloseKinds]
    BY <1>1 DEF Init, CloseKinds
  <2>2. /\ starting \in Startups \cup {None}
        /\ startPc \in [Startups -> {"idle", "read", "version"}]
        /\ startCreds \in [Startups -> BOOLEAN]
        /\ stopping \in BOOLEAN
        /\ stopPc \in [Stops -> {"idle", "logout", "purge", "write"}]
        /\ stopSock \in [Stops -> Sockets \cup {None}]
    BY <1>1 DEF Init
  <2>3. reconnects = 0 /\ crashes = 0
    BY <1>1 DEF Init
  <2>4. reconnects \in 0..MaxReconnects /\ crashes \in 0..MaxCrashes
    BY <2>3, BoundsAssumption DEF BoundsAssumption
  <2>5. bootPc \in {"list", "start", "done"} /\ stored \in BOOLEAN
    BY <1>1 DEF Init
  <2>6. QED
    BY <2>1, <2>2, <2>4, <2>5 DEF TypeOK
<1>3. SingleStartup /\ StopHoldsSocket
  BY <1>1, NoneIsNoId DEF Init, SingleStartup, StopHoldsSocket
<1>4. NoStrayConnection /\ MapHoldsLiveSocket /\ NoStoppingLeak /\ PurgeNeedsAuthLost
  BY <1>1 DEF Init, NoStrayConnection, MapHoldsLiveSocket, NoStoppingLeak, PurgeNeedsAuthLost,
              Live
<1>5. QED
  BY <1>2, <1>3, <1>4 DEF LifecycleInv

-----------------------------------------------------------------------------
(* The parts that several actions share.                                   *)

\* A call of startSession keeps the bookkeeping of startups right.
LEMMA StartSessionKeeps ==
  ASSUME TypeOK, SingleStartup, StartSession
  PROVE  /\ starting' \in Startups \cup {None}
         /\ startPc' \in [Startups -> {"idle", "read", "version"}]
         /\ startCreds' \in [Startups -> BOOLEAN]
         /\ SingleStartup'
BY NoneIsNoId DEF TypeOK, SingleStartup, StartSession, BeginStartup, startVars

\* So does the end of one.
LEMMA EndStartupKeeps ==
  ASSUME NEW p \in Startups, TypeOK, SingleStartup, startPc[p] # "idle", EndStartup(p)
  PROVE  /\ starting' \in Startups \cup {None}
         /\ startPc' \in [Startups -> {"idle", "read", "version"}]
         /\ startCreds' \in [Startups -> BOOLEAN]
         /\ SingleStartup'
BY NoneIsNoId DEF TypeOK, SingleStartup, EndStartup

\* A step that only moves startups, and moves them well, preserves the invariant.
LEMMA StartupFrame ==
  ASSUME LifecycleInv,
         /\ starting' \in Startups \cup {None}
         /\ startPc' \in [Startups -> {"idle", "read", "version"}]
         /\ startCreds' \in [Startups -> BOOLEAN]
         /\ SingleStartup',
         UNCHANGED <<socketVars, stopVars, closeVars, credVars, procVars, reconnects>>
  PROVE  LifecycleInv'
BY DEF LifecycleInv, TypeOK, NoStrayConnection, MapHoldsLiveSocket, NoStoppingLeak,
       StopHoldsSocket, PurgeNeedsAuthLost, AuthLost, Live, socketVars, stopVars, closeVars,
       credVars, procVars

\* The synchronous part of a close keeps the session map and the sockets apart.
LEMMA OnCloseKeeps ==
  ASSUME NEW s \in Sockets, NEW kind \in CloseKinds, TypeOK, NoStrayConnection,
         MapHoldsLiveSocket, PurgeNeedsAuthLost, OnClose(s, kind)
  PROVE  /\ current' \in Sockets \cup {None}
         /\ conn' \in [Sockets -> {"closed", "connecting", "open"}]
         /\ registered' \in [Sockets -> BOOLEAN]
         /\ rejected' \in SUBSET Sockets
         /\ closeStep' \in [Sockets -> {"idle", "purge", "write"}]
         /\ closeKind' \in [Sockets -> CloseKinds]
         /\ NoStrayConnection'
         /\ MapHoldsLiveSocket'
         /\ PurgeNeedsAuthLost'
<1>1. /\ current' \in Sockets \cup {None}
      /\ conn' \in [Sockets -> {"closed", "connecting", "open"}]
      /\ registered' \in [Sockets -> BOOLEAN]
      /\ rejected' \in SUBSET Sockets
  BY DEF TypeOK, OnClose
<1>2. /\ closeStep' \in [Sockets -> {"idle", "purge", "write"}]
      /\ closeKind' \in [Sockets -> CloseKinds]
      /\ PurgeNeedsAuthLost'
  BY DEF TypeOK, OnClose, PurgeNeedsAuthLost, closeVars, AuthLost
<1>3. NoStrayConnection' /\ MapHoldsLiveSocket'
  BY NoneIsNoId DEF TypeOK, OnClose, NoStrayConnection, MapHoldsLiveSocket, Live
<1>4. QED
  BY <1>1, <1>2, <1>3

\* A conjunct holds on while the variables it is about keep their values.
LEMMA SocketFrame ==
  ASSUME NoStrayConnection, MapHoldsLiveSocket, UNCHANGED socketVars
  PROVE  NoStrayConnection' /\ MapHoldsLiveSocket'
BY DEF NoStrayConnection, MapHoldsLiveSocket, Live, socketVars

LEMMA StartFrame ==
  ASSUME SingleStartup, UNCHANGED startVars
  PROVE  SingleStartup'
BY DEF SingleStartup, startVars

LEMMA StopFrame ==
  ASSUME NoStoppingLeak, StopHoldsSocket, UNCHANGED stopVars
  PROVE  NoStoppingLeak' /\ StopHoldsSocket'
BY DEF NoStoppingLeak, StopHoldsSocket, stopVars

LEMMA CloseFrame ==
  ASSUME PurgeNeedsAuthLost, UNCHANGED closeVars
  PROVE  PurgeNeedsAuthLost'
BY DEF PurgeNeedsAuthLost, AuthLost, closeVars

-----------------------------------------------------------------------------
(* Every action preserves the invariant.                                   *)

LEMMA StartupPreserves ==
  ASSUME LifecycleInv, StartupSteps
  PROVE  LifecycleInv'
<1>1. PICK p \in Startups :
        ReadCreds(p) \/ ReadFails(p) \/ \E s \in Sockets : MakeSocket(p, s)
  BY DEF StartupSteps
<1>2. CASE ReadCreds(p)
  <2>1. /\ starting' \in Startups \cup {None}
        /\ startPc' \in [Startups -> {"idle", "read", "version"}]
        /\ startCreds' \in [Startups -> BOOLEAN]
        /\ SingleStartup'
    <3>1. CASE current # None
      BY <1>2, <3>1, EndStartupKeeps DEF LifecycleInv, ReadCreds
    <3>2. CASE current = None
      BY <1>2, <3>2 DEF LifecycleInv, TypeOK, SingleStartup, ReadCreds
    <3>3. QED
      BY <3>1, <3>2
  <2>2. UNCHANGED <<socketVars, stopVars, closeVars, credVars, procVars, reconnects>>
    BY <1>2 DEF ReadCreds
  <2>3. QED
    BY <2>1, <2>2, StartupFrame
<1>3. CASE ReadFails(p)
  <2>1. /\ starting' \in Startups \cup {None}
        /\ startPc' \in [Startups -> {"idle", "read", "version"}]
        /\ startCreds' \in [Startups -> BOOLEAN]
        /\ SingleStartup'
    BY <1>3, EndStartupKeeps DEF LifecycleInv, ReadFails
  <2>2. UNCHANGED <<socketVars, stopVars, closeVars, credVars, procVars, reconnects>>
    BY <1>3 DEF ReadFails
  <2>3. QED
    BY <2>1, <2>2, StartupFrame
<1>4. ASSUME NEW s \in Sockets, MakeSocket(p, s)
      PROVE  LifecycleInv'
  <2>1. /\ starting' \in Startups \cup {None}
        /\ startPc' \in [Startups -> {"idle", "read", "version"}]
        /\ startCreds' \in [Startups -> BOOLEAN]
        /\ SingleStartup'
    BY <1>4, EndStartupKeeps DEF LifecycleInv, MakeSocket
  <2>2. TypeOK'
    BY <1>4, <2>1 DEF LifecycleInv, TypeOK, MakeSocket, socketVars, stopVars, closeVars, credVars,
                      procVars
  <2>3. NoStrayConnection' /\ MapHoldsLiveSocket'
    <3>1. CASE current # None
      BY <1>4, <3>1 DEF LifecycleInv, NoStrayConnection, MapHoldsLiveSocket, Live, MakeSocket,
                        socketVars
    <3>2. CASE current = None
      <4>1. /\ current' = s
            /\ conn' = [conn EXCEPT ![s] = "connecting"]
            /\ rejected' = rejected
        BY <1>4, <3>2 DEF MakeSocket
      <4>2. QED
        BY <3>2, <4>1, NoneIsNoId
           DEF LifecycleInv, TypeOK, NoStrayConnection, MapHoldsLiveSocket, Live
    <3>3. QED
      BY <3>1, <3>2
  <2>4. NoStoppingLeak' /\ StopHoldsSocket' /\ PurgeNeedsAuthLost'
    BY <1>4 DEF LifecycleInv, NoStoppingLeak, StopHoldsSocket, PurgeNeedsAuthLost, AuthLost,
                MakeSocket, stopVars, closeVars
  <2>5. QED
    BY <2>1, <2>2, <2>3, <2>4 DEF LifecycleInv
<1>5. QED
  BY <1>1, <1>2, <1>3, <1>4

LEMMA HandlersPreserve ==
  ASSUME LifecycleInv, HandlerSteps
  PROVE  LifecycleInv'
<1>1. PICK s \in Sockets : ClosePurged(s) \/ CloseWritten(s) \/ SaveLands(s)
  BY DEF HandlerSteps
<1>2. CASE ClosePurged(s)
  <2>1. TypeOK'
    BY <1>2 DEF LifecycleInv, TypeOK, ClosePurged, socketVars, startVars, stopVars, procVars
  <2>2. SingleStartup' /\ NoStrayConnection' /\ MapHoldsLiveSocket' /\ NoStoppingLeak'
        /\ StopHoldsSocket'
    BY <1>2, SocketFrame, StartFrame, StopFrame DEF LifecycleInv, ClosePurged
  <2>3. PurgeNeedsAuthLost'
    BY <1>2 DEF LifecycleInv, TypeOK, ClosePurged, PurgeNeedsAuthLost, AuthLost
  <2>4. QED
    BY <2>1, <2>2, <2>3 DEF LifecycleInv
<1>3. CASE CloseWritten(s)
  <2>1. reconnects' \in 0..MaxReconnects
    <3>1. CASE closeKind[s] \in {"transient", "badSession"}
      <4>1. reconnects < MaxReconnects /\ reconnects' = reconnects + 1
        BY <1>3, <3>1 DEF CloseWritten
      <4>2. reconnects \in 0..MaxReconnects
        BY DEF LifecycleInv, TypeOK
      <4>3. QED
        BY <4>1, <4>2, BoundsAssumption DEF BoundsAssumption
    <3>2. CASE closeKind[s] \notin {"transient", "badSession"}
      BY <1>3, <3>2 DEF LifecycleInv, TypeOK, CloseWritten
    <3>3. QED
      BY <3>1, <3>2
  <2>2. /\ closeStep' \in [Sockets -> {"idle", "purge", "write"}]
        /\ closeKind' \in [Sockets -> CloseKinds]
        /\ PurgeNeedsAuthLost'
    BY <1>3 DEF LifecycleInv, TypeOK, CloseWritten, PurgeNeedsAuthLost, AuthLost, CloseKinds
  <2>3. UNCHANGED <<socketVars, startVars, stopVars, credVars, procVars>>
    BY <1>3 DEF CloseWritten
  <2>4. TypeOK'
    BY <2>1, <2>2, <2>3
       DEF LifecycleInv, TypeOK, socketVars, startVars, stopVars, credVars, procVars
  <2>5. QED
    BY <2>2, <2>3, <2>4, SocketFrame, StartFrame, StopFrame DEF LifecycleInv
<1>4. CASE SaveLands(s)
  <2>1. TypeOK'
    BY <1>4 DEF LifecycleInv, TypeOK, SaveLands, socketVars, startVars, stopVars, closeVars,
                procVars
  <2>2. QED
    BY <1>4, <2>1, SocketFrame, StartFrame, StopFrame, CloseFrame DEF LifecycleInv, SaveLands
<1>5. QED
  BY <1>1, <1>2, <1>3, <1>4

\* A stop ends only when its socket has been let go.
LEMMA EndStopPreserves ==
  ASSUME NEW q \in Stops, LifecycleInv, stopPc[q] \in {"purge", "write"}, EndStop(q)
  PROVE  LifecycleInv'
<1>1. TypeOK'
  BY DEF LifecycleInv, TypeOK, EndStop, socketVars, startVars, closeVars, credVars, procVars
<1>2. NoStoppingLeak' /\ StopHoldsSocket'
  BY DEF LifecycleInv, TypeOK, EndStop, NoStoppingLeak, StopHoldsSocket
<1>3. QED
  BY <1>1, <1>2, SocketFrame, StartFrame, CloseFrame DEF LifecycleInv, EndStop

LEMMA StopsPreserve ==
  ASSUME LifecycleInv, StopSteps
  PROVE  LifecycleInv'
<1>1. PICK q \in Stops :
        LogoutDone(q) \/ LogoutRejected(q) \/ StopPurged(q) \/ StopWritten(q) \/ StopFails(q)
  BY DEF StopSteps
<1>2. CASE LogoutDone(q)
  <2>1. stopSock[q] \in Sockets
    BY <1>2 DEF LifecycleInv, TypeOK, StopHoldsSocket, LogoutDone
  <2>2. /\ current' \in Sockets \cup {None}
        /\ conn' \in [Sockets -> {"closed", "connecting", "open"}]
        /\ registered' \in [Sockets -> BOOLEAN]
        /\ rejected' \in SUBSET Sockets
        /\ closeStep' \in [Sockets -> {"idle", "purge", "write"}]
        /\ closeKind' \in [Sockets -> CloseKinds]
        /\ NoStrayConnection'
        /\ MapHoldsLiveSocket'
        /\ PurgeNeedsAuthLost'
    <3>1. CASE Live(stopSock[q])
      BY <1>2, <2>1, <3>1, OnCloseKeeps DEF LifecycleInv, LogoutDone, CloseKinds
    <3>2. CASE ~Live(stopSock[q])
      <4>1. UNCHANGED <<socketVars, closeVars>>
        BY <1>2, <3>2 DEF LogoutDone
      <4>2. QED
        BY <4>1, SocketFrame, CloseFrame DEF LifecycleInv, TypeOK, socketVars, closeVars
    <3>3. QED
      BY <3>1, <3>2
  <2>3. /\ stopPc' = [stopPc EXCEPT ![q] = "purge"]
        /\ stopSock' = [stopSock EXCEPT ![q] = None]
        /\ UNCHANGED <<stopping, startVars, credVars, procVars, reconnects>>
    BY <1>2 DEF LogoutDone
  <2>4. TypeOK'
    BY <2>2, <2>3 DEF LifecycleInv, TypeOK, startVars, credVars, procVars
  <2>5. NoStoppingLeak' /\ StopHoldsSocket'
    BY <2>3 DEF LifecycleInv, TypeOK, NoStoppingLeak, StopHoldsSocket
  <2>6. QED
    BY <2>2, <2>3, <2>4, <2>5, StartFrame DEF LifecycleInv
<1>3. CASE LogoutRejected(q)
  <2>1. stopSock[q] \in Sockets
    BY <1>3 DEF LifecycleInv, TypeOK, StopHoldsSocket, LogoutRejected
  <2>2. TypeOK'
    BY <1>3, <2>1 DEF LifecycleInv, TypeOK, LogoutRejected, startVars, closeVars, credVars,
                      procVars
  <2>3. NoStrayConnection' /\ MapHoldsLiveSocket'
    BY <1>3, <2>1 DEF LifecycleInv, TypeOK, LogoutRejected, NoStrayConnection,
                      MapHoldsLiveSocket, Live
  <2>4. NoStoppingLeak' /\ StopHoldsSocket'
    BY <1>3 DEF LifecycleInv, TypeOK, LogoutRejected, NoStoppingLeak, StopHoldsSocket
  <2>5. QED
    BY <1>3, <2>2, <2>3, <2>4, StartFrame, CloseFrame DEF LifecycleInv, LogoutRejected
<1>4. CASE StopPurged(q)
  <2>1. TypeOK'
    BY <1>4 DEF LifecycleInv, TypeOK, StopPurged, socketVars, startVars, closeVars, procVars
  <2>2. NoStoppingLeak' /\ StopHoldsSocket'
    BY <1>4 DEF LifecycleInv, TypeOK, StopPurged, NoStoppingLeak, StopHoldsSocket
  <2>3. QED
    BY <1>4, <2>1, <2>2, SocketFrame, StartFrame, CloseFrame DEF LifecycleInv, StopPurged
<1>5. CASE StopWritten(q)
  BY <1>5, EndStopPreserves DEF StopWritten
<1>6. CASE StopFails(q)
  BY <1>6, EndStopPreserves DEF StopFails
<1>7. QED
  BY <1>1, <1>2, <1>3, <1>4, <1>5, <1>6

\* shutdownSession drops exactly the socket that was in the map.
LEMMA ShutdownKeeps ==
  ASSUME TypeOK, NoStrayConnection, StopHoldsSocket, ShutdownSession
  PROVE  /\ current' \in Sockets \cup {None}
         /\ conn' \in [Sockets -> {"closed", "connecting", "open"}]
         /\ registered' \in [Sockets -> BOOLEAN]
         /\ stopping' \in BOOLEAN
         /\ NoStrayConnection'
         /\ MapHoldsLiveSocket'
         /\ NoStoppingLeak'
         /\ StopHoldsSocket'
<1>1. /\ current' \in Sockets \cup {None}
      /\ conn' \in [Sockets -> {"closed", "connecting", "open"}]
      /\ stopping' \in BOOLEAN
  BY DEF TypeOK, ShutdownSession
<1>2. registered' \in [Sockets -> BOOLEAN]
  BY Zenon DEF TypeOK, ShutdownSession
<1>3. NoStrayConnection' /\ MapHoldsLiveSocket'
  BY DEF TypeOK, ShutdownSession, NoStrayConnection, MapHoldsLiveSocket, Live
<1>4. NoStoppingLeak' /\ StopHoldsSocket'
  BY DEF ShutdownSession, NoStoppingLeak, StopHoldsSocket
<1>5. QED
  BY <1>1, <1>2, <1>3, <1>4

LEMMA EnvironmentPreserves ==
  ASSUME LifecycleInv, Environment
  PROVE  LifecycleInv'
<1>1. ASSUME NEW s \in Sockets, PairSuccess(s)
      PROVE  LifecycleInv'
  <2>1. TypeOK'
    BY <1>1 DEF LifecycleInv, TypeOK, PairSuccess, startVars, stopVars, closeVars, procVars
  <2>2. NoStrayConnection' /\ MapHoldsLiveSocket'
    BY <1>1 DEF LifecycleInv, PairSuccess, NoStrayConnection, MapHoldsLiveSocket, Live
  <2>3. QED
    BY <1>1, <2>1, <2>2, StartFrame, StopFrame, CloseFrame DEF LifecycleInv, PairSuccess
<1>2. ASSUME NEW s \in Sockets, CredsUpdate(s)
      PROVE  LifecycleInv'
  <2>1. TypeOK'
    BY <1>2 DEF LifecycleInv, TypeOK, CredsUpdate, socketVars, startVars, stopVars, closeVars,
                procVars
  <2>2. QED
    BY <1>2, <2>1, SocketFrame, StartFrame, StopFrame, CloseFrame DEF LifecycleInv, CredsUpdate
<1>3. ASSUME NEW s \in Sockets, Open(s)
      PROVE  LifecycleInv'
  <2>1. TypeOK'
    BY <1>3 DEF LifecycleInv, TypeOK, Open, startVars, stopVars, closeVars, credVars, procVars
  <2>2. NoStrayConnection' /\ MapHoldsLiveSocket'
    BY <1>3 DEF LifecycleInv, TypeOK, Open, NoStrayConnection, MapHoldsLiveSocket, Live
  <2>3. QED
    BY <1>3, <2>1, <2>2, StartFrame, StopFrame, CloseFrame DEF LifecycleInv, Open
<1>4. ASSUME NEW s \in Sockets, NEW kind \in CloseKinds, Close(s, kind)
      PROVE  LifecycleInv'
  <2>1. OnClose(s, kind) /\ UNCHANGED <<startVars, stopVars, credVars, procVars, reconnects>>
    BY <1>4 DEF Close
  <2>2. /\ current' \in Sockets \cup {None}
        /\ conn' \in [Sockets -> {"closed", "connecting", "open"}]
        /\ registered' \in [Sockets -> BOOLEAN]
        /\ rejected' \in SUBSET Sockets
        /\ closeStep' \in [Sockets -> {"idle", "purge", "write"}]
        /\ closeKind' \in [Sockets -> CloseKinds]
        /\ NoStrayConnection'
        /\ MapHoldsLiveSocket'
        /\ PurgeNeedsAuthLost'
    BY <2>1, OnCloseKeeps DEF LifecycleInv
  <2>3. TypeOK'
    BY <2>1, <2>2 DEF LifecycleInv, TypeOK, startVars, stopVars, credVars, procVars
  <2>4. QED
    BY <2>1, <2>2, <2>3, StartFrame, StopFrame DEF LifecycleInv
<1>5. CASE ConnectSession
  <2>1. QED
    BY <1>5, StartSessionKeeps, StartupFrame DEF LifecycleInv, ConnectSession
<1>6. CASE RefreshSession
  <2>1. ShutdownSession /\ UNCHANGED <<closeVars, credVars, procVars, reconnects>>
    BY <1>6 DEF RefreshSession
  <2>2. /\ current' \in Sockets \cup {None}
        /\ conn' \in [Sockets -> {"closed", "connecting", "open"}]
        /\ registered' \in [Sockets -> BOOLEAN]
        /\ stopping' \in BOOLEAN
        /\ NoStrayConnection'
        /\ MapHoldsLiveSocket'
        /\ NoStoppingLeak'
        /\ StopHoldsSocket'
    BY <2>1, ShutdownKeeps DEF LifecycleInv
  <2>3. /\ starting' \in Startups \cup {None}
        /\ startPc' \in [Startups -> {"idle", "read", "version"}]
        /\ startCreds' \in [Startups -> BOOLEAN]
        /\ SingleStartup'
    BY <1>6, NoneIsNoId
       DEF LifecycleInv, TypeOK, RefreshSession, BeginStartup, SingleStartup, startVars
  <2>4. UNCHANGED <<rejected, stopPc, stopSock>>
    BY <2>1 DEF ShutdownSession
  <2>5. TypeOK'
    BY <2>1, <2>2, <2>3, <2>4 DEF LifecycleInv, TypeOK, closeVars, credVars, procVars
  <2>6. QED
    BY <2>1, <2>2, <2>3, <2>5, CloseFrame DEF LifecycleInv
<1>7. ASSUME NEW q \in Stops, StopBegin(q)
      PROVE  LifecycleInv'
  <2>1. TypeOK'
    BY <1>7 DEF LifecycleInv, TypeOK, StopBegin, socketVars, startVars, closeVars, credVars,
                procVars
  <2>2. NoStoppingLeak' /\ StopHoldsSocket'
    BY <1>7 DEF LifecycleInv, TypeOK, StopBegin, NoStoppingLeak, StopHoldsSocket
  <2>3. QED
    BY <1>7, <2>1, <2>2, SocketFrame, StartFrame, CloseFrame DEF LifecycleInv, StopBegin
<1>8. CASE Restart
  <2>1. crashes' \in 0..MaxCrashes
    <3>1. crashes < MaxCrashes /\ crashes' = crashes + 1
      BY <1>8 DEF Restart
    <3>2. crashes \in 0..MaxCrashes
      BY DEF LifecycleInv, TypeOK
    <3>3. QED
      BY <3>1, <3>2, BoundsAssumption DEF BoundsAssumption
  <2>2. /\ current' \in Sockets \cup {None}
        /\ conn' \in [Sockets -> {"closed", "connecting", "open"}]
        /\ registered' \in [Sockets -> BOOLEAN]
        /\ rejected' \in SUBSET Sockets
        /\ saving' \in SUBSET Sockets
        /\ closeStep' \in [Sockets -> {"idle", "purge", "write"}]
        /\ closeKind' \in [Sockets -> CloseKinds]
    BY <1>8 DEF Restart, CloseKinds
  <2>3. /\ starting' \in Startups \cup {None}
        /\ startPc' \in [Startups -> {"idle", "read", "version"}]
        /\ startCreds' \in [Startups -> BOOLEAN]
        /\ stopping' \in BOOLEAN
        /\ stopPc' \in [Stops -> {"idle", "logout", "purge", "write"}]
        /\ stopSock' \in [Stops -> Sockets \cup {None}]
        /\ bootPc' \in {"list", "start", "done"}
        /\ stored' \in BOOLEAN
    BY <1>8 DEF Restart, LifecycleInv, TypeOK
  <2>4. reconnects' \in 0..MaxReconnects
    <3>1. reconnects' = 0
      BY <1>8 DEF Restart
    <3>2. QED
      BY <3>1, BoundsAssumption DEF BoundsAssumption
  <2>5. SingleStartup' /\ StopHoldsSocket' /\ NoStoppingLeak'
    BY <1>8, NoneIsNoId DEF Restart, SingleStartup, StopHoldsSocket, NoStoppingLeak
  <2>6. NoStrayConnection' /\ MapHoldsLiveSocket' /\ PurgeNeedsAuthLost'
    BY <1>8 DEF Restart, NoStrayConnection, MapHoldsLiveSocket, PurgeNeedsAuthLost, Live
  <2>7. TypeOK'
    BY <2>1, <2>2, <2>3, <2>4 DEF TypeOK
  <2>8. QED
    BY <2>5, <2>6, <2>7 DEF LifecycleInv
<1>9. QED
  BY <1>1, <1>2, <1>3, <1>4, <1>5, <1>6, <1>7, <1>8 DEF Environment

LEMMA TimersPreserve ==
  ASSUME LifecycleInv, ReconnectTimer \/ BootList \/ BootStart
  PROVE  LifecycleInv'
<1>1. CASE ReconnectTimer
  <2>1. reconnects' \in 0..MaxReconnects
    <3>1. reconnects > 0 /\ reconnects' = reconnects - 1
      BY <1>1 DEF ReconnectTimer
    <3>2. reconnects \in 0..MaxReconnects
      BY DEF LifecycleInv, TypeOK
    <3>3. QED
      BY <3>1, <3>2, BoundsAssumption DEF BoundsAssumption
  <2>2. /\ StartSession
        /\ UNCHANGED <<socketVars, stopVars, closeVars, credVars, procVars>>
    BY <1>1 DEF ReconnectTimer
  <2>3. TypeOK'
    BY <2>1, <2>2, StartSessionKeeps
       DEF LifecycleInv, TypeOK, socketVars, stopVars, closeVars, credVars, procVars
  <2>4. QED
    BY <2>2, <2>3, StartSessionKeeps, SocketFrame, StopFrame, CloseFrame DEF LifecycleInv
<1>2. CASE BootList
  <2>1. TypeOK'
    BY <1>2 DEF LifecycleInv, TypeOK, BootList, socketVars, startVars, stopVars, closeVars,
                credVars
  <2>2. QED
    BY <1>2, <2>1, SocketFrame, StartFrame, StopFrame, CloseFrame DEF LifecycleInv, BootList
<1>3. CASE BootStart
  <2>1. /\ StartSession /\ bootPc' = "done"
        /\ UNCHANGED <<socketVars, stopVars, closeVars, credVars, crashes, reconnects>>
    BY <1>3 DEF BootStart
  <2>2. TypeOK'
    BY <2>1, StartSessionKeeps
       DEF LifecycleInv, TypeOK, socketVars, stopVars, closeVars, credVars
  <2>3. QED
    BY <2>1, <2>2, StartSessionKeeps, SocketFrame, StopFrame, CloseFrame DEF LifecycleInv
<1>4. QED
  BY <1>1, <1>2, <1>3

LEMMA StutterPreserves ==
  ASSUME LifecycleInv, UNCHANGED lifecycleVars
  PROVE  LifecycleInv'
<1>1. TypeOK'
  BY DEF LifecycleInv, TypeOK, lifecycleVars, socketVars, startVars, stopVars, closeVars, credVars,
         procVars
<1>2. QED
  BY <1>1, SocketFrame, StartFrame, StopFrame, CloseFrame DEF LifecycleInv, lifecycleVars

LEMMA NextPreservesInv == LifecycleInv /\ [Next]_lifecycleVars => LifecycleInv'
BY StartupPreserves, HandlersPreserve, StopsPreserve, EnvironmentPreserves, TimersPreserve,
   StutterPreserves
   DEF Next

-----------------------------------------------------------------------------
(* What the inductive invariant gives.                                     *)

\* The inductive invariant holds throughout.
THEOREM LifecycleInvariant == LifecycleSpec => []LifecycleInv
<1>1. Init => LifecycleInv
  BY InitEstablishesInv
<1>2. LifecycleInv /\ [Next]_lifecycleVars => LifecycleInv'
  BY NextPreservesInv
<1>3. QED
  BY <1>1, <1>2, PTL DEF LifecycleSpec

\* Type correctness of the socket lifecycle.
THEOREM LifecycleTypes == LifecycleSpec => []TypeOK
<1>1. LifecycleInv => TypeOK
  BY DEF LifecycleInv
<1>2. QED
  BY <1>1, LifecycleInvariant, PTL

\* However many callers ask for a session, one startup runs and all join it.
THEOREM OneStartup == LifecycleSpec => []SingleStartup
<1>1. LifecycleInv => SingleStartup
  BY DEF LifecycleInv
<1>2. QED
  BY <1>1, LifecycleInvariant, PTL

\* A connection is in the session map or was left by a rejected logout().
THEOREM NoConnectionLost == LifecycleSpec => []NoStrayConnection
<1>1. LifecycleInv => NoStrayConnection
  BY DEF LifecycleInv
<1>2. QED
  BY <1>1, LifecycleInvariant, PTL

\* The session map never blocks a start with a dead socket.
THEOREM MapNeverStale == LifecycleSpec => []MapHoldsLiveSocket
<1>1. LifecycleInv => MapHoldsLiveSocket
  BY DEF LifecycleInv
<1>2. QED
  BY <1>1, LifecycleInvariant, PTL

\* The mark that silences close handlers never outlives every stop.
THEOREM StoppingReleased == LifecycleSpec => []NoStoppingLeak
<1>1. LifecycleInv => NoStoppingLeak
  BY DEF LifecycleInv
<1>2. QED
  BY <1>1, LifecycleInvariant, PTL

-----------------------------------------------------------------------------
\* While logout() is always answered by a close, the documents' claim is true: an
\* account never has two live sockets.
LEMMA RejectedNeedsSwitch ==
  ASSUME LogoutMayReject = FALSE, rejected = {}, [Next]_lifecycleVars
  PROVE  rejected' = {}
<1>1. CASE StartupSteps
  BY <1>1 DEF StartupSteps, ReadCreds, ReadFails, MakeSocket, socketVars
<1>2. CASE HandlerSteps
  BY <1>2 DEF HandlerSteps, ClosePurged, CloseWritten, SaveLands, socketVars
<1>3. CASE StopSteps
  BY <1>3 DEF StopSteps, LogoutDone, LogoutRejected, StopPurged, StopWritten, StopFails, EndStop,
              OnClose, socketVars
<1>4. CASE Environment
  BY <1>4 DEF Environment, PairSuccess, CredsUpdate, Open, Close, OnClose, ConnectSession,
              RefreshSession, ShutdownSession, StopBegin, Restart, socketVars
<1>5. CASE ReconnectTimer \/ BootList \/ BootStart
  BY <1>5 DEF ReconnectTimer, BootList, BootStart, socketVars
<1>6. CASE UNCHANGED lifecycleVars
  BY <1>6 DEF lifecycleVars, socketVars
<1>7. QED
  BY <1>1, <1>2, <1>3, <1>4, <1>5, <1>6 DEF Next

\* docs/whatsapp-architecture.md, one live socket per account: true unless logout()
\* is rejected.
THEOREM OneConnection ==
  ASSUME LogoutMayReject = FALSE
  PROVE  LifecycleSpec => []NeverTwoConnections
<1>1. Init => rejected = {}
  BY DEF Init
<1>2. rejected = {} /\ [Next]_lifecycleVars => (rejected = {})'
  BY RejectedNeedsSwitch
<1>3. LifecycleInv /\ rejected = {} => NeverTwoConnections
  BY DEF LifecycleInv, NoStrayConnection, NeverTwoConnections
<1>4. QED
  BY <1>1, <1>2, <1>3, LifecycleInvariant, PTL DEF LifecycleSpec

-----------------------------------------------------------------------------
(* What a step may not do.                                                 *)

\* Only a close, an end of logout(), a refresh or a process exit closes a socket, and
\* none of them touches anything else when the socket is not the current one.
LEMMA StaleCloseStep ==
  ASSUME LifecycleInv, [Next]_lifecycleVars, NEW s \in Sockets,
         Live(s), conn'[s] = "closed", s # current, crashes' = crashes
  PROVE  UNCHANGED <<current, closeVars, credVars, reconnects, startVars>>
<1>1. conn' # conn
  BY DEF Live
<1>2. CASE StartupSteps
  BY <1>1, <1>2 DEF StartupSteps, ReadCreds, ReadFails, MakeSocket, socketVars, LifecycleInv,
                    TypeOK, Live
<1>3. CASE HandlerSteps
  BY <1>1, <1>3 DEF HandlerSteps, ClosePurged, CloseWritten, SaveLands, socketVars
<1>4. CASE StopSteps
  <2>1. PICK q \in Stops : LogoutDone(q)
    BY <1>1, <1>4 DEF StopSteps, LogoutRejected, StopPurged, StopWritten, StopFails, EndStop,
                      socketVars
  <2>2. stopSock[q] \in Sockets /\ OnClose(stopSock[q], "loggedOut")
    BY <1>1, <2>1 DEF LogoutDone, LifecycleInv, TypeOK, StopHoldsSocket, socketVars
  <2>3. stopSock[q] = s
    BY <2>2 DEF OnClose, LifecycleInv, TypeOK, Live
  <2>4. QED
    BY <2>1, <2>2, <2>3 DEF LogoutDone, OnClose
<1>5. CASE Environment
  <2>1. CASE \E t \in Sockets, kind \in CloseKinds : Close(t, kind)
    <3>1. PICK t \in Sockets, kind \in CloseKinds : Close(t, kind)
      BY <2>1
    <3>2. t = s
      BY <3>1 DEF Close, OnClose, LifecycleInv, TypeOK, Live
    <3>3. QED
      BY <3>1, <3>2 DEF Close, OnClose
  <2>2. CASE RefreshSession
    BY <2>2 DEF RefreshSession, ShutdownSession, Live
  <2>3. CASE Restart
    BY <2>3 DEF Restart, LifecycleInv, TypeOK
  <2>4. CASE \E t \in Sockets : PairSuccess(t) \/ CredsUpdate(t) \/ Open(t)
    BY <1>1, <2>4 DEF PairSuccess, CredsUpdate, Open, socketVars, LifecycleInv, TypeOK, Live
  <2>5. CASE ConnectSession \/ \E q \in Stops : StopBegin(q)
    BY <1>1, <2>5 DEF ConnectSession, StopBegin, socketVars
  <2>6. QED
    BY <1>5, <2>1, <2>2, <2>3, <2>4, <2>5 DEF Environment
<1>6. CASE ReconnectTimer \/ BootList \/ BootStart
  BY <1>1, <1>6 DEF ReconnectTimer, BootList, BootStart, socketVars
<1>7. CASE UNCHANGED lifecycleVars
  BY <1>1, <1>7 DEF lifecycleVars, socketVars
<1>8. QED
  BY <1>2, <1>3, <1>4, <1>5, <1>6, <1>7 DEF Next

\* docs/WHATSAPP_OPERATOR_INTEGRATION.md: stale sockets cannot delete a newer socket.
THEOREM StaleClosesHarmless == LifecycleSpec => StaleCloseHarmless
<1>1. LifecycleInv /\ [Next]_lifecycleVars =>
        [\A s \in Sockets :
           Live(s) /\ conn'[s] = "closed" /\ s # current /\ crashes' = crashes
             => UNCHANGED <<current, closeVars, credVars, reconnects, startVars>>]_lifecycleVars
  BY StaleCloseStep
<1>2. QED
  BY <1>1, LifecycleInvariant, PTL DEF LifecycleSpec, StaleCloseHarmless

\* Only the two purges remove credentials, and a close handler's purge follows a
\* close that made them useless.
LEMMA CredentialStep ==
  ASSUME LifecycleInv, [Next]_lifecycleVars, stored, ~stored'
  PROVE  \/ \E q \in Stops : stopPc[q] = "purge" /\ stopPc'[q] = "write"
         \/ \E s \in Sockets : closeStep[s] = "purge"
                               /\ closeKind[s] \in {"loggedOut", "badSession"}
<1>1. CASE StartupSteps
  BY <1>1 DEF StartupSteps, ReadCreds, ReadFails, MakeSocket, credVars
<1>2. CASE HandlerSteps
  <2>1. PICK s \in Sockets : ClosePurged(s)
    BY <1>2 DEF HandlerSteps, CloseWritten, SaveLands, credVars
  <2>2. closeStep[s] = "purge" /\ closeKind[s] \in {"loggedOut", "badSession"}
    BY <2>1 DEF ClosePurged, LifecycleInv, PurgeNeedsAuthLost, AuthLost
  <2>3. QED
    BY <2>2
<1>3. CASE StopSteps
  <2>1. PICK q \in Stops : StopPurged(q)
    BY <1>3 DEF StopSteps, LogoutDone, LogoutRejected, StopWritten, StopFails, EndStop, credVars
  <2>2. stopPc[q] = "purge" /\ stopPc'[q] = "write"
    BY <2>1 DEF StopPurged, LifecycleInv, TypeOK
  <2>3. QED
    BY <2>2
<1>4. CASE Environment
  BY <1>4 DEF Environment, PairSuccess, CredsUpdate, Open, Close, ConnectSession, RefreshSession,
              StopBegin, Restart, credVars
<1>5. CASE ReconnectTimer \/ BootList \/ BootStart
  BY <1>5 DEF ReconnectTimer, BootList, BootStart, credVars
<1>6. CASE UNCHANGED lifecycleVars
  BY <1>6 DEF lifecycleVars, credVars
<1>7. QED
  BY <1>1, <1>2, <1>3, <1>4, <1>5, <1>6 DEF Next

\* docs/WHATSAPP_OPERATOR_INTEGRATION.md: ordinary disconnects keep the credentials,
\* loggedOut and bad-session closes purge them.
THEOREM DropsKeepCredentials == LifecycleSpec => CredentialsSurviveDrops
<1>1. LifecycleInv /\ [Next]_lifecycleVars =>
        [stored /\ ~stored' =>
           \/ \E q \in Stops : stopPc[q] = "purge" /\ stopPc'[q] = "write"
           \/ \E s \in Sockets : closeStep[s] = "purge"
                                 /\ closeKind[s] \in {"loggedOut", "badSession"}]_lifecycleVars
  BY CredentialStep
<1>2. QED
  BY <1>1, LifecycleInvariant, PTL DEF LifecycleSpec, CredentialsSurviveDrops

-----------------------------------------------------------------------------
(* What keeps a session down and what brings it up.                        *)

\* A call of startSession for a session that is down leaves a startup under way.
LEMMA StartSessionStarts ==
  ASSUME current = None, StartSession
  PROVE  starting' # None
BY NoneIsNoId DEF StartSession, BeginStartup, startVars

\* While the session is down every close is that of an older socket.
LEMMA OldCloseChangesNothing ==
  ASSUME current = None, NEW s \in Sockets, NEW kind, OnClose(s, kind)
  PROVE  current' = None /\ closeStep' = closeStep /\ closeKind' = closeKind
BY NoneIsNoId DEF OnClose, closeVars

\* A session stays owed through the rest of the state when these stay.
LEMMA OwedFrame ==
  ASSUME Owed, current' = None,
         UNCHANGED <<starting, reconnects, bootPc, closeStep, closeKind>>
  PROVE  Owed'
BY DEF Owed, SessionDue

LEMMA OwedStep ==
  ASSUME LifecycleInv, [Next]_lifecycleVars, Owed, current' = None, bootPc' # "list",
         ~ \E p \in Startups : ReadFails(p)
  PROVE  Owed'
<1>1. current = None
  BY DEF Owed, SessionDue
<1>2. CASE StartupSteps
  <2>1. PICK p \in Startups : ReadCreds(p) \/ \E s \in Sockets : MakeSocket(p, s)
    BY <1>2 DEF StartupSteps
  <2>2. ~ \E s \in Sockets : MakeSocket(p, s)
    BY <1>1, NoneIsNoId DEF MakeSocket
  <2>3. UNCHANGED <<starting, reconnects, bootPc, closeStep, closeKind>>
    BY <1>1, <2>1, <2>2 DEF ReadCreds, closeVars, procVars
  <2>4. QED
    BY <2>3, OwedFrame
<1>3. CASE HandlerSteps
  <2>1. PICK s \in Sockets : ClosePurged(s) \/ CloseWritten(s) \/ SaveLands(s)
    BY <1>3 DEF HandlerSteps
  <2>2. CASE ClosePurged(s)
    <3>1. /\ closeStep' = [closeStep EXCEPT ![s] = "write"]
          /\ UNCHANGED <<closeKind, reconnects, startVars, procVars>>
      BY <2>2 DEF ClosePurged
    <3>2. \A t \in Sockets : closeStep[t] # "idle" => closeStep'[t] # "idle"
      BY <3>1 DEF LifecycleInv, TypeOK
    <3>3. QED
      BY <3>1, <3>2 DEF Owed, SessionDue, startVars, procVars
  <2>3. CASE CloseWritten(s)
    <3>1. /\ closeStep' = [closeStep EXCEPT ![s] = "idle"]
          /\ closeKind' = [closeKind EXCEPT ![s] = "transient"]
          /\ UNCHANGED <<startVars, procVars>>
      BY <2>3 DEF CloseWritten
    <3>2. CASE closeKind[s] \in {"transient", "badSession"}
      <4>1. reconnects' = reconnects + 1 /\ reconnects \in Nat
        BY <2>3, <3>2, BoundsAssumption DEF CloseWritten, LifecycleInv, TypeOK
      <4>2. reconnects' > 0
        BY <4>1
      <4>3. QED
        BY <4>2 DEF Owed, SessionDue
    <3>3. CASE closeKind[s] \notin {"transient", "badSession"}
      <4>1. reconnects' = reconnects
        BY <2>3, <3>3 DEF CloseWritten
      <4>2. \A t \in Sockets : closeKind[t] \in {"transient", "badSession"} =>
              closeStep'[t] = closeStep[t] /\ closeKind'[t] = closeKind[t]
        BY <3>1, <3>3 DEF LifecycleInv, TypeOK
      <4>3. QED
        BY <3>1, <4>1, <4>2 DEF Owed, SessionDue, startVars, procVars
    <3>4. QED
      BY <3>2, <3>3
  <2>4. CASE SaveLands(s)
    BY <2>4, OwedFrame DEF SaveLands, startVars, closeVars, procVars
  <2>5. QED
    BY <2>1, <2>2, <2>3, <2>4
<1>4. CASE StopSteps
  <2>1. PICK q \in Stops : LogoutDone(q) \/ LogoutRejected(q) \/ StopPurged(q) \/ EndStop(q)
    BY <1>4 DEF StopSteps, StopWritten, StopFails
  <2>2. closeStep' = closeStep /\ closeKind' = closeKind
    <3>1. CASE LogoutDone(q)
      <4>1. stopSock[q] \in Sockets
        BY <3>1 DEF LifecycleInv, TypeOK, StopHoldsSocket, LogoutDone
      <4>2. QED
        BY <1>1, <3>1, <4>1, OldCloseChangesNothing DEF LogoutDone, closeVars
    <3>2. QED
      BY <2>1, <3>1 DEF LogoutRejected, StopPurged, EndStop, closeVars
  <2>3. UNCHANGED <<starting, reconnects, bootPc>>
    BY <2>1 DEF LogoutDone, LogoutRejected, StopPurged, EndStop, startVars, procVars
  <2>4. QED
    BY <2>2, <2>3, OwedFrame
<1>5. CASE Environment
  <2>1. CASE \E s \in Sockets, kind \in CloseKinds : Close(s, kind)
    BY <1>1, <2>1, OldCloseChangesNothing, OwedFrame DEF Close, startVars, procVars
  <2>2. CASE ConnectSession
    BY <1>1, <2>2, StartSessionStarts DEF ConnectSession, Owed
  <2>3. CASE RefreshSession
    <3>1. starting' # None
      BY <2>3, NoneIsNoId DEF RefreshSession, BeginStartup, startVars
    <3>2. QED
      BY <3>1 DEF Owed
  <2>4. CASE Restart
    BY <2>4 DEF Restart
  <2>5. CASE \/ \E s \in Sockets : PairSuccess(s) \/ CredsUpdate(s) \/ Open(s)
             \/ \E q \in Stops : StopBegin(q)
    BY <2>5, OwedFrame DEF PairSuccess, CredsUpdate, Open, StopBegin, startVars, closeVars, procVars
  <2>6. QED
    BY <1>5, <2>1, <2>2, <2>3, <2>4, <2>5 DEF Environment
<1>6. CASE ReconnectTimer \/ BootStart
  BY <1>1, <1>6, StartSessionStarts DEF ReconnectTimer, BootStart, Owed
<1>7. CASE BootList
  BY <1>7 DEF BootList, Owed, SessionDue, startVars, closeVars
<1>8. CASE UNCHANGED lifecycleVars
  BY <1>8, OwedFrame DEF lifecycleVars, startVars, closeVars, procVars
<1>9. QED
  BY <1>2, <1>3, <1>4, <1>5, <1>6, <1>7, <1>8 DEF Next

\* Nothing but a failed credential read or the end of the process gives up a session
\* that is to come up.
THEOREM DueSessionsKept == LifecycleSpec => DueNotDropped
<1>1. LifecycleInv /\ [Next]_lifecycleVars =>
        [Owed => \/ Owed' \/ current' # None
                 \/ bootPc' = "list"
                 \/ \E p \in Startups : ReadFails(p)]_lifecycleVars
  BY OwedStep
<1>2. QED
  BY <1>1, LifecycleInvariant, PTL DEF LifecycleSpec, DueNotDropped

LEMMA AtRestFrame ==
  ASSUME AtRest, UNCHANGED <<current, starting, reconnects, bootPc, closeStep, closeKind>>
  PROVE  AtRest'
BY DEF AtRest, SessionDue

LEMMA AtRestStep ==
  ASSUME LifecycleInv, [Next]_lifecycleVars, AtRest,
         ~ConnectSession, ~RefreshSession, ~Restart
  PROVE  AtRest'
<1>1. /\ current = None /\ starting = None /\ bootPc = "done" /\ ~(reconnects > 0)
      /\ \A s \in Sockets : ~(closeStep[s] # "idle" /\ closeKind[s] \in {"transient", "badSession"})
  BY DEF AtRest, SessionDue
<1>2. ~StartupSteps
  <2>1. \A p \in Startups : startPc[p] = "idle"
    BY <1>1, NoneIsNoId DEF LifecycleInv, SingleStartup
  <2>2. QED
    BY <2>1 DEF StartupSteps, ReadCreds, ReadFails, MakeSocket
<1>3. CASE HandlerSteps
  <2>1. PICK s \in Sockets : ClosePurged(s) \/ CloseWritten(s) \/ SaveLands(s)
    BY <1>3 DEF HandlerSteps
  <2>2. CASE ClosePurged(s)
    <3>1. /\ closeStep[s] = "purge" /\ closeStep' = [closeStep EXCEPT ![s] = "write"]
          /\ UNCHANGED <<current, closeKind, reconnects, startVars, procVars>>
      BY <2>2 DEF ClosePurged, socketVars
    <3>2. \A t \in Sockets : closeStep'[t] # "idle" => closeStep[t] # "idle"
      BY <3>1 DEF LifecycleInv, TypeOK
    <3>3. QED
      BY <3>1, <3>2 DEF AtRest, SessionDue, startVars, procVars
  <2>3. CASE CloseWritten(s)
    <3>1. closeKind[s] \notin {"transient", "badSession"}
      BY <1>1, <2>3 DEF CloseWritten
    <3>2. /\ closeStep' = [closeStep EXCEPT ![s] = "idle"]
          /\ closeKind' = [closeKind EXCEPT ![s] = "transient"]
          /\ UNCHANGED <<current, reconnects, startVars, procVars>>
      BY <2>3, <3>1 DEF CloseWritten, socketVars
    <3>3. \A t \in Sockets : closeStep'[t] # "idle" =>
            closeStep[t] # "idle" /\ closeKind'[t] = closeKind[t]
      BY <3>2 DEF LifecycleInv, TypeOK
    <3>4. QED
      BY <3>2, <3>3 DEF AtRest, SessionDue, startVars, procVars
  <2>4. CASE SaveLands(s)
    BY <2>4, AtRestFrame DEF SaveLands, socketVars, startVars, closeVars, procVars
  <2>5. QED
    BY <2>1, <2>2, <2>3, <2>4
<1>4. CASE StopSteps
  <2>1. PICK q \in Stops : LogoutDone(q) \/ LogoutRejected(q) \/ StopPurged(q) \/ EndStop(q)
    BY <1>4 DEF StopSteps, StopWritten, StopFails
  <2>2. current' = None /\ closeStep' = closeStep /\ closeKind' = closeKind
    <3>1. CASE LogoutDone(q)
      <4>1. stopSock[q] \in Sockets
        BY <3>1 DEF LifecycleInv, TypeOK, StopHoldsSocket, LogoutDone
      <4>2. QED
        BY <1>1, <3>1, <4>1, OldCloseChangesNothing DEF LogoutDone, socketVars, closeVars
    <3>2. QED
      BY <1>1, <2>1, <3>1 DEF LogoutRejected, StopPurged, EndStop, socketVars, closeVars
  <2>3. UNCHANGED <<starting, reconnects, bootPc>>
    BY <2>1 DEF LogoutDone, LogoutRejected, StopPurged, EndStop, startVars, procVars
  <2>4. QED
    BY <1>1, <2>2, <2>3, AtRestFrame
<1>5. CASE Environment
  <2>1. CASE \E s \in Sockets, kind \in CloseKinds : Close(s, kind)
    BY <1>1, <2>1, OldCloseChangesNothing, AtRestFrame DEF Close, startVars, procVars
  <2>2. CASE \/ \E s \in Sockets : PairSuccess(s) \/ CredsUpdate(s) \/ Open(s)
             \/ \E q \in Stops : StopBegin(q)
    BY <2>2, AtRestFrame
       DEF PairSuccess, CredsUpdate, Open, StopBegin, socketVars, startVars, closeVars, procVars
  <2>3. QED
    BY <1>5, <2>1, <2>2 DEF Environment
<1>6. ~(ReconnectTimer \/ BootList \/ BootStart)
  BY <1>1 DEF ReconnectTimer, BootList, BootStart
<1>7. CASE UNCHANGED lifecycleVars
  BY <1>7, AtRestFrame DEF lifecycleVars, socketVars, startVars, closeVars, procVars
<1>8. QED
  BY <1>2, <1>3, <1>4, <1>5, <1>6, <1>7 DEF Next

\* docs/WHATSAPP_OPERATOR_INTEGRATION.md, connectionReplaced does not reconnect: a
\* session that is down with no timer left over comes up only when somebody asks.
THEOREM RestUntilAsked == LifecycleSpec => OnlyRequestsWake
<1>1. LifecycleInv /\ [Next]_lifecycleVars =>
        [AtRest /\ ~AtRest' => ConnectSession \/ RefreshSession \/ Restart]_lifecycleVars
  BY AtRestStep
<1>2. QED
  BY <1>1, LifecycleInvariant, PTL DEF LifecycleSpec, OnlyRequestsWake

=============================================================================
