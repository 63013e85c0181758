---------------------------- MODULE ReplacedHistory ----------------------------
(***************************************************************************)
(* SessionLifecycle with a history variable: was the last close that the   *)
(* operator handled a replacement by another client (connectionReplaced),  *)
(* with nobody asking for a session since?                                 *)
(***************************************************************************)
EXTENDS SessionLifecycle

VARIABLE replaced

\* A close handler begins in this step, and what it saw.
CloseHandled(s) == closeStep[s] = "idle" /\ closeStep'[s] # "idle"

Remember ==
  replaced' = IF \E s \in Sockets : CloseHandled(s)
                THEN \E s \in Sockets : CloseHandled(s) /\ closeKind'[s] = "replaced"
                ELSE replaced

HistoryInit == Init /\ replaced = FALSE

HistoryNext ==
  \/ (ConnectSession \/ RefreshSession \/ Restart) /\ replaced' = FALSE
  \/ Next /\ ~(ConnectSession \/ RefreshSession \/ Restart) /\ Remember

HistorySpec == HistoryInit /\ [][HistoryNext]_<<lifecycleVars, replaced>>

\* docs/WHATSAPP_OPERATOR_INTEGRATION.md: connectionReplaced does not trigger an
\* automatic reconnect.  After a replacement no timer starts a session before
\* somebody asks for one.
ReplacedStaysDown ==
  [][reconnects' < reconnects /\ starting' # starting => ~replaced]_<<lifecycleVars, replaced>>

=============================================================================
