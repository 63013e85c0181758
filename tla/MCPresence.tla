---------------------------- MODULE MCPresence ----------------------------
EXTENDS PresenceIntelligence

CONSTANTS a1, a2, c1, c2, d1, d2

Started == {e \in Events : eventPc[e] # "new"}

\* A report reads and computes; nothing else moves it, and it moves nothing
\* else.  It is checked on its own.
ReportAlone == reportPc # "idle" => socket = 0 /\ Started = {}

\* A handler that has started does not look at the socket: closing it and
\* opening a second one is for the requests.
SocketAlone == Started = {} \/ (socket = 1 /\ (link = "open" \/ crashes > 0))

\* Three targets, two of them at a time, and one request under way, which has
\* its subscription when the first event comes: two scopes for one contact, and
\* two contacts of one scope.
FewTargets ==
  LET asking == {t \in Targets : enablePc[t] # "idle"} IN
  /\ enablePc[<<a2, c2>>] = "idle"
  /\ Cardinality(asking) <= 1
  /\ Cardinality(asking \cup active) <= 2
  /\ Started # {} => \A t \in asking : enablePc[t] = "upsert"

\* Two events: an update and a message of c1, or the message delivered twice, d1 being
\* the first of its deliveries.
TwoEvents ==
  /\ Cardinality(Started) <= 2
  /\ d2 \in Started => d1 \in Started
  /\ message[d1] = message[d2] /\ message[d1][1] = c1

\* Once an exit has ended its handlers, the INSERTs sent before it are all that is left of
\* the events: the targets need not change under them.
AfterExit == crashes > 0 /\ Started # {} => UNCHANGED targetVars

===========================================================================
