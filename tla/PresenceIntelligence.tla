--------------------------- MODULE PresenceIntelligence ---------------------------
(***************************************************************************)
(* Presence intelligence of one account: the targets whose activity the    *)
(* applications want recorded (routes/presence.ts), the rows the handlers  *)
(* of presence.update and messages.upsert write about them, and the loop   *)
(* of the report that measures response times (db/presence-                *)
(* intelligence.ts).                                                       *)
(*                                                                         *)
(* A target is a scope, the application and tenant that asked, and a       *)
(* contact.  Sockets are numbered: SessionLifecycle says how one follows   *)
(* another; here it matters only which one getSocket returns.              *)
(***************************************************************************)
EXTENDS Naturals, FiniteSets, SequencesExt

CONSTANTS
  Scopes,       \* applications' tenants bound to the account
  Contacts,     \* WhatsApp users whose presence or messages come in
  Updates,      \* presence.update events
  Deliveries,   \* messages of messages.upsert events, redelivered ones included
  PerContact,   \* distinct messages in the chat with a contact
  MaxSockets,   \* bound on the sockets there have been
  MaxCrashes,   \* bound on process exits
  DbMayFail,    \* may a query be rejected?
  Times,        \* occurred_at of the rows a report reads
  MaxRows,      \* bound on how many they are
  Day           \* 24 hours

ASSUME EventsAssumption ==
  Updates \cap Deliveries = {} /\ Updates \cap (Contacts \X (1..PerContact)) = {}
ASSUME PresenceBoundsAssumption ==
  /\ PerContact \in Nat /\ MaxSockets \in Nat /\ MaxCrashes \in Nat /\ MaxRows \in Nat
  /\ DbMayFail \in BOOLEAN
ASSUME TimesAssumption == Times \subseteq Nat /\ Day \in Nat

VARIABLES
  socket,      \* the socket made last
  link,        \* is it in the map, and open?
  subscribed,  \* contacts whose presence is subscribed to on it
  active,      \* targets with is_active = TRUE
  enablePc,    \* POST /targets: where the request for each target is
  enableOn,    \* the socket it got, 0 when there is no request
  enabledOn,   \* history: the socket on which the request behind is_active subscribed, or 0
  eventPc,     \* where the handler of each event is
  message,     \* the message of each delivery
  about,       \* history: the contacts of the event
  todo,        \* those the handler has not looked up yet
  inserting,   \* targets whose INSERT has been sent and not answered
  failed,      \* history: was a query the handler waited for rejected?
  ever,        \* history: its targets active at some time while the handler looks them up
  always,      \* history: those active all that time, until it is through
  rows,        \* rows written about each event or message, for each target
  reportPc,    \* GET /report
  messageRows, \* wa_message_events rows its loop has been through
  pending,     \* pendingOutbound: its index, 0 if there is none
  measured,    \* responseMinutes: the answered message and the answer of each entry
  crashes      \* process exits so far

linkVars     == <<socket, link, subscribed>>
targetVars   == <<active, enablePc, enableOn, enabledOn>>
eventVars    == <<eventPc, message, about, todo, inserting, failed, rows>>
historyVars  == <<ever, always>>
reportVars   == <<reportPc, messageRows, pending, measured>>
presenceVars == <<linkVars, targetVars, eventVars, historyVars, reportVars, crashes>>

Targets  == Scopes \X Contacts
Events   == Updates \cup Deliveries
Messages == Contacts \X (1..PerContact)
Keys     == Updates \cup Messages

\* What the rows written for an event are filed under.
Key(e) == IF e \in Updates THEN e ELSE message[e]

MessageRow == [time : Times, outbound : BOOLEAN]

PresenceTypeOK ==
  /\ socket \in 0..MaxSockets
  /\ link \in {"none", "connecting", "open"}
  /\ subscribed \in SUBSET Contacts
  /\ active \in SUBSET Targets
  /\ enablePc \in [Targets -> {"idle", "subscribe", "upsert"}]
  /\ enableOn \in [Targets -> 0..MaxSockets]
  /\ enabledOn \in [Targets -> 0..MaxSockets]
  /\ eventPc \in [Events -> {"new", "lookup", "insert", "recorded", "done"}]
  /\ message \in [Deliveries -> Messages]
  /\ about \in [Events -> SUBSET Contacts]
  /\ todo \in [Events -> SUBSET Contacts]
  /\ inserting \in [Events -> SUBSET Targets]
  /\ failed \in [Events -> BOOLEAN]
  /\ ever \in [Events -> SUBSET Targets]
  /\ always \in [Events -> SUBSET Targets]
  /\ rows \in [Keys \X Targets -> Nat]
  /\ reportPc \in {"idle", "loop"}
  /\ messageRows \in Seq(MessageRow) /\ Len(messageRows) <= MaxRows
  /\ pending \in 0..MaxRows
  /\ measured \in SUBSET ((1..MaxRows) \X (1..MaxRows))
  /\ crashes \in 0..MaxCrashes

PresenceInit ==
  /\ socket = 0
  /\ link = "none"
  /\ subscribed = {}
  /\ active = {}
  /\ enablePc = [t \in Targets |-> "idle"]
  /\ enableOn = [t \in Targets |-> 0]
  /\ enabledOn = [t \in Targets |-> 0]
  /\ eventPc = [e \in Events |-> "new"]
  /\ message \in [Deliveries -> Messages]
  /\ about = [e \in Events |-> {}]
  /\ todo = [e \in Events |-> {}]
  /\ inserting = [e \in Events |-> {}]
  /\ failed = [e \in Events |-> FALSE]
  /\ ever = [e \in Events |-> {}]
  /\ always = [e \in Events |-> {}]
  /\ rows = [k \in Keys \X Targets |-> 0]
  /\ reportPc = "idle"
  /\ messageRows = <<>>
  /\ pending = 0
  /\ measured = {}
  /\ crashes = 0

-----------------------------------------------------------------------------
(* The socket, as SessionLifecycle moves it.                               *)

SocketMade ==
  /\ link = "none"
  /\ socket < MaxSockets
  /\ socket' = socket + 1
  /\ link' = "connecting"
  /\ UNCHANGED <<subscribed, targetVars, eventVars, historyVars, reportVars, crashes>>

SocketOpens ==
  /\ link = "connecting"
  /\ link' = "open"
  /\ UNCHANGED <<socket, subscribed, targetVars, eventVars, historyVars, reportVars, crashes>>

SocketCloses ==
  /\ link # "none"
  /\ link' = "none"
  /\ subscribed' = {}
  /\ UNCHANGED <<socket, targetVars, eventVars, historyVars, reportVars, crashes>>

-----------------------------------------------------------------------------
(* POST and DELETE /targets.                                               *)

\* The targets change under the handlers that have yet to look some of them up.
Watched(e) == eventPc[e] \in {"lookup", "insert"}

Watch ==
  /\ ever' = [e \in Events |-> IF Watched(e)
               THEN ever[e] \cup {t \in active' : t[2] \in about[e]} ELSE ever[e]]
  /\ always' = [e \in Events |-> IF Watched(e) THEN always[e] \cap active' ELSE always[e]]

\* The request takes the account's socket; without one it is refused (409).
EnableTarget(t) ==
  /\ enablePc[t] = "idle"
  /\ link # "none"
  /\ enablePc' = [enablePc EXCEPT ![t] = "subscribe"]
  /\ enableOn' = [enableOn EXCEPT ![t] = socket]
  /\ UNCHANGED <<linkVars, active, enabledOn, eventVars, historyVars, reportVars, crashes>>

\* presenceSubscribe resolves: the socket is still up.
Subscribed(t) ==
  /\ enablePc[t] = "subscribe"
  /\ link = "open" /\ enableOn[t] = socket
  /\ enablePc' = [enablePc EXCEPT ![t] = "upsert"]
  /\ subscribed' = subscribed \cup {t[2]}
  /\ UNCHANGED <<socket, link, active, enableOn, enabledOn, eventVars, historyVars, reportVars,
                 crashes>>

\* A request that does not mind a subscription that was rejected.
SubscribeRejectedIgnored(t) ==
  /\ enablePc[t] = "subscribe"
  /\ enablePc' = [enablePc EXCEPT ![t] = "upsert"]
  /\ UNCHANGED <<linkVars, active, enableOn, enabledOn, eventVars, historyVars, reportVars, crashes>>

\* It is rejected, and the request with it.
SubscribeRejected(t) ==
  /\ enablePc[t] = "subscribe"
  /\ enablePc' = [enablePc EXCEPT ![t] = "idle"]
  /\ enableOn' = [enableOn EXCEPT ![t] = 0]
  /\ UNCHANGED <<linkVars, active, enabledOn, eventVars, historyVars, reportVars, crashes>>

\* upsertPresenceTarget commits.
TargetUpserted(t) ==
  /\ enablePc[t] = "upsert"
  /\ enablePc' = [enablePc EXCEPT ![t] = "idle"]
  /\ active' = active \cup {t}
  /\ enabledOn' = [enabledOn EXCEPT ![t] = enableOn[t]]
  /\ enableOn' = [enableOn EXCEPT ![t] = 0]
  /\ Watch
  /\ UNCHANGED <<linkVars, eventVars, reportVars, crashes>>

UpsertRejected(t) ==
  /\ DbMayFail
  /\ enablePc[t] = "upsert"
  /\ enablePc' = [enablePc EXCEPT ![t] = "idle"]
  /\ enableOn' = [enableOn EXCEPT ![t] = 0]
  /\ UNCHANGED <<linkVars, active, enabledOn, eventVars, historyVars, reportVars, crashes>>

\* disablePresenceTarget; the socket keeps its subscription.
DisableTarget(t) ==
  /\ t \in active
  /\ active' = active \ {t}
  /\ enabledOn' = [enabledOn EXCEPT ![t] = 0]
  /\ Watch
  /\ UNCHANGED <<linkVars, enablePc, enableOn, eventVars, reportVars, crashes>>

-----------------------------------------------------------------------------
(* The handlers of presence.update and messages.upsert, as far as they     *)
(* record evidence.  Whatever becomes of that, an event goes on to         *)
(* forwardEvent or forwardInboundMessage, unless it is a message of the    *)
(* account itself, which the loop then skips.                              *)

HandlerStarts(e, C) ==
  /\ eventPc[e] = "new"
  /\ link = "open"
  /\ eventPc' = [eventPc EXCEPT ![e] = "lookup"]
  /\ about' = [about EXCEPT ![e] = C]
  /\ todo' = [todo EXCEPT ![e] = C]
  /\ ever' = [ever EXCEPT ![e] = {t \in active : t[2] \in C}]
  /\ always' = [always EXCEPT ![e] = {t \in active : t[2] \in C}]
  /\ UNCHANGED <<linkVars, targetVars, message, inserting, failed, rows, reportVars, crashes>>

PresenceUpdate(u) == \E C \in (SUBSET Contacts) \ {{}} : HandlerStarts(u, C)

MessageUpsert(d) == HandlerStarts(d, {message[d][1]})

\* A handler that returns at the first contact it has nothing to do for, or
\* has done.
AfterContactReturns(left) == "recorded"

\* Where the handler is after the last query of a contact.
AfterContact(left) == IF left = {} THEN "recorded" ELSE "lookup"

\* A query that answers with contacts where scopes are expected.
ScopesReadAsContacts(e, c) ==
  /\ eventPc[e] = "lookup"
  /\ c \in todo[e]
  /\ todo' = [todo EXCEPT ![e] = @ \ {c}]
  /\ inserting' = [inserting EXCEPT ![e] = {t[2] : t \in active}]
  /\ eventPc' = [eventPc EXCEPT ![e] = "insert"]
  /\ UNCHANGED <<linkVars, targetVars, message, about, failed, historyVars, rows, reportVars,
                 crashes>>

\* A query that does not ask for is_active = TRUE.
ScopesReadOfDisabled(e, c) ==
  /\ eventPc[e] = "lookup"
  /\ c \in todo[e]
  /\ todo' = [todo EXCEPT ![e] = @ \ {c}]
  /\ inserting' = [inserting EXCEPT ![e] = {t \in Targets : t[2] = c}]
  /\ eventPc' = [eventPc EXCEPT ![e] = "insert"]
  /\ UNCHANGED <<linkVars, targetVars, message, about, failed, historyVars, rows, reportVars,
                 crashes>>

\* targetScopesForJid answers; the INSERTs, if any, are sent together.
ScopesRead(e, c) ==
  LET scopes == {t \in active : t[2] = c} IN
  /\ eventPc[e] = "lookup"
  /\ c \in todo[e]
  /\ todo' = [todo EXCEPT ![e] = @ \ {c}]
  /\ inserting' = [inserting EXCEPT ![e] = scopes]
  /\ eventPc' = [eventPc EXCEPT ![e] = IF scopes = {} THEN AfterContact(todo'[e]) ELSE "insert"]
  /\ UNCHANGED <<linkVars, targetVars, message, about, failed, historyVars, rows, reportVars,
                 crashes>>

ReadRejected(e) ==
  /\ DbMayFail
  /\ eventPc[e] = "lookup"
  /\ eventPc' = [eventPc EXCEPT ![e] = "recorded"]
  /\ todo' = [todo EXCEPT ![e] = {}]
  /\ failed' = [failed EXCEPT ![e] = TRUE]
  /\ UNCHANGED <<linkVars, targetVars, message, about, inserting, historyVars, rows,
                 reportVars, crashes>>

\* An INSERT INTO wa_message_events without its ON CONFLICT.
RowsAfterNoConflict(e, t) == rows[<<Key(e), t>>] + 1

\* A message's row conflicts with the one a redelivery of it has written.  The key has no
\* contact, and needs none: a message belongs to one chat, and has an id of its own.
RowsAfter(e, t) == IF e \in Deliveries THEN 1 ELSE rows[<<Key(e), t>>] + 1

\* An INSERT commits; Promise.all resolves with the last of them.
RowInserted(e, t) ==
  /\ t \in inserting[e]
  /\ inserting' = [inserting EXCEPT ![e] = @ \ {t}]
  /\ rows' = [rows EXCEPT ![<<Key(e), t>>] = RowsAfter(e, t)]
  /\ eventPc' = [eventPc EXCEPT ![e] = IF @ = "insert" /\ inserting'[e] = {}
                                       THEN AfterContact(todo[e]) ELSE @]
  /\ UNCHANGED <<linkVars, targetVars, message, about, todo, failed, historyVars, reportVars,
                 crashes>>

\* A handler that waits for the other INSERTs whatever becomes of one.
InsertRejectedUnnoticed(e, t) ==
  /\ DbMayFail
  /\ t \in inserting[e]
  /\ inserting' = [inserting EXCEPT ![e] = @ \ {t}]
  /\ failed' = [failed EXCEPT ![e] = TRUE]
  /\ UNCHANGED <<linkVars, targetVars, eventPc, message, about, todo, historyVars, rows,
                 reportVars, crashes>>

\* One is rejected, and Promise.all with it: the handler leaves the other
\* INSERTs to themselves and the contacts it has not looked up alone.
InsertRejected(e, t) ==
  /\ DbMayFail
  /\ t \in inserting[e]
  /\ inserting' = [inserting EXCEPT ![e] = @ \ {t}]
  /\ eventPc' = [eventPc EXCEPT ![e] = IF @ = "insert" THEN "recorded" ELSE @]
  /\ todo' = [todo EXCEPT ![e] = {}]
  /\ failed' = [failed EXCEPT ![e] = eventPc[e] # "done"]
  /\ UNCHANGED <<linkVars, targetVars, message, about, historyVars, rows, reportVars,
                 crashes>>

\* forwardEvent or forwardInboundMessage is called and settles; for a message of the account
\* itself the loop continues without.
Forwarded(e) ==
  /\ eventPc[e] = "recorded"
  /\ eventPc' = [eventPc EXCEPT ![e] = "done"]
  /\ failed' = [failed EXCEPT ![e] = FALSE]
  /\ always' = [always EXCEPT ![e] = {}]
  /\ UNCHANGED <<linkVars, targetVars, message, about, todo, inserting, ever, rows, reportVars,
                 crashes>>

-----------------------------------------------------------------------------
(* GET /report.  The queries have answered when the loop begins; what the  *)
(* loop does with a row does not depend on the later ones, which are       *)
(* chosen when it gets there, in the order of occurred_at.                 *)

ReportRead ==
  /\ reportPc = "idle"
  /\ reportPc' = "loop"
  /\ UNCHANGED <<linkVars, targetVars, eventVars, historyVars, messageRows, pending, measured,
                 crashes>>

\* The loop reads its next row, number at.
Reads(row, at) ==
  /\ reportPc = "loop"
  /\ at = Len(messageRows) + 1
  /\ at <= MaxRows
  /\ \A i \in DOMAIN messageRows : messageRows[i].time <= row.time
  /\ messageRows' = Append(messageRows, row)
  /\ UNCHANGED <<linkVars, targetVars, eventVars, historyVars, reportPc, crashes>>

OutboundRow(row, at) ==
  /\ row.outbound
  /\ Reads(row, at)
  /\ pending' = at
  /\ UNCHANGED measured

\* A loop that goes on counting from the message already answered.
InboundRowPendingKept(row, at) ==
  /\ ~row.outbound
  /\ Reads(row, at)
  /\ measured' = IF pending # 0 /\ row.time - messageRows[pending].time <= Day
                 THEN measured \cup {<<pending, at>>} ELSE measured
  /\ UNCHANGED pending

InboundRow(row, at) ==
  /\ ~row.outbound
  /\ Reads(row, at)
  /\ measured' = IF pending # 0 /\ row.time - messageRows[pending].time <= Day
                 THEN measured \cup {<<pending, at>>} ELSE measured
  /\ pending' = 0

\* The report is sent.
ReportSent ==
  /\ reportPc = "loop"
  /\ reportPc' = "idle"
  /\ messageRows' = <<>>
  /\ pending' = 0
  /\ measured' = {}
  /\ UNCHANGED <<linkVars, targetVars, eventVars, historyVars, crashes>>

\* The time a message took to be answered.
Delta(pair) == messageRows[pair[2]].time - messageRows[pair[1]].time

\* [...values].sort((a, b) => a - b)
Ascending(values) ==
  LET order == CHOOSE f \in Bijection(DOMAIN values, DOMAIN values) :
                 \A i, j \in DOMAIN values : i < j => values[f[i]] <= values[f[j]]
  IN  [i \in DOMAIN values |-> values[order[i]]]

\* A percentile whose rank is taken for an index that counts from zero.
PercentileRankAsIndex(values, p) ==
  IF values = <<>> THEN <<>>
  ELSE LET rank == (p * Len(values) + 99) \div 100 + 1
       IN  <<Ascending(values)[Max({1, Min({rank, Len(values)})})]>>

\* percentile, for p in hundredths; null is the empty sequence.
Percentile(values, p) ==
  IF values = <<>> THEN <<>>
  ELSE LET rank == (p * Len(values) + 99) \div 100
       IN  <<Ascending(values)[Max({1, Min({rank, Len(values)})})]>>

ResponseMinutes == LET pairs == SetToSeq(measured) IN [i \in DOMAIN pairs |-> Delta(pairs[i])]

-----------------------------------------------------------------------------
\* The process ends: requests and handlers with it, but not the statements
\* they have sent.
PresenceCrash ==
  /\ crashes < MaxCrashes
  /\ crashes' = crashes + 1
  /\ link' = "none"
  /\ subscribed' = {}
  /\ enablePc' = [t \in Targets |-> IF enablePc[t] = "upsert" THEN "upsert" ELSE "idle"]
  /\ enableOn' = [t \in Targets |-> IF enablePc[t] = "upsert" THEN enableOn[t] ELSE 0]
  /\ eventPc' = [e \in Events |-> IF eventPc[e] = "new" THEN "new" ELSE "done"]
  /\ todo' = [e \in Events |-> {}]
  /\ failed' = [e \in Events |-> FALSE]
  /\ always' = [e \in Events |-> {}]
  /\ UNCHANGED <<socket, active, enabledOn, message, about, inserting, ever, rows, reportVars>>

HandlerStep(e) ==
  \/ \E c \in Contacts : ScopesRead(e, c)
  \/ ReadRejected(e)
  \/ \E t \in Targets : RowInserted(e, t) \/ InsertRejected(e, t)
  \/ Forwarded(e)

TargetStep(t) ==
  \/ EnableTarget(t) \/ Subscribed(t) \/ SubscribeRejected(t)
  \/ TargetUpserted(t) \/ UpsertRejected(t) \/ DisableTarget(t)

ReportStep ==
  \/ ReportRead
  \/ \E row \in MessageRow, at \in 1..MaxRows : OutboundRow(row, at) \/ InboundRow(row, at)
  \/ ReportSent

PresenceNext ==
  \/ SocketMade \/ SocketOpens \/ SocketCloses
  \/ \E t \in Targets : TargetStep(t)
  \/ \E u \in Updates : PresenceUpdate(u)
  \/ \E d \in Deliveries : MessageUpsert(d)
  \/ \E e \in Events : HandlerStep(e)
  \/ ReportStep
  \/ PresenceCrash

PresenceSpec == PresenceInit /\ [][PresenceNext]_presenceVars

\* A query is answered or rejected, and a handler goes on.
FairPresenceSpec == PresenceSpec /\ \A e \in Events : WF_presenceVars(HandlerStep(e))

-----------------------------------------------------------------------------
(* Properties.                                                             *)

\* Evidence is recorded only about targets that were active while the event
\* was handled: not about a contact whose monitoring had been disabled before
\* the event came in, nor in a scope that never asked, although the INSERT is
\* sent on what an earlier query has read (targetScopesForJid).
EvidenceOnlyWhileActive ==
  \A k \in Keys, t \in Targets :
    rows[<<k, t>>] > 0 => \E e \in Events : Key(e) = k /\ t \in ever[e]

\* A handler that ran without a rejected query leaves a row for every target of
\* its contacts that was active throughout: no scope is missed however the
\* requests that enable and disable others interleave with its queries.
NoEvidenceMissed ==
  \A e \in Events :
    eventPc[e] = "recorded" /\ ~failed[e] => \A t \in always[e] : rows[<<Key(e), t>>] > 0

\* However often WhatsApp delivers a message, and whichever of its handlers
\* are under way together, a scope counts it once; an update is written once.
OneRowPerEvent == \A k \in Keys, t \in Targets : rows[<<k, t>>] <= 1

\* A target made active on a socket that is still the account's last one has
\* its presence subscribed to there: a request whose subscription failed, or
\* that was overtaken by a new socket, does not pass for one that is heard.
HeardOnItsSocket ==
  \A t \in active : link = "open" /\ enabledOn[t] = socket => t[2] \in subscribed

\* The response times of a report are those of the messages answered by the
\* very next one, within a day, each counted once.
AnsweredNext(n) ==
  {p \in (1..n) \X (1..n) :
     /\ p[2] = p[1] + 1
     /\ messageRows[p[1]].outbound /\ ~messageRows[p[2]].outbound
     /\ Delta(p) <= Day}

MeasuredOnce == measured = AnsweredNext(Len(messageRows))

\* The median and the 90th percentile of a report are the smallest response
\* times that half, and nine in ten, of them do not exceed.
IsNearestRank(v, p) ==
  LET times == {Delta(q) : q \in measured}
      NotAbove(x) == Cardinality({q \in measured : Delta(q) <= x})
      Reaches(x) == 100 * NotAbove(x) >= p * Cardinality(measured)
  IN  /\ v \in times /\ Reaches(v)
      /\ \A x \in times : Reaches(x) => v <= x

PercentilesAreRanks ==
  \A p \in {50, 90} :
    LET v == Percentile(ResponseMinutes, p) IN
    IF measured = {} THEN v = <<>> ELSE IsNearestRank(v[1], p)

\* Every event whose handler has started gets past the recording, to where it is forwarded,
\* or skipped as the account's own message, or is lost with the process: no rejected or
\* forgotten query of the recording keeps it.
EventForwarded ==
  \A e \in Events : (eventPc[e] \notin {"new", "done"}) ~> (eventPc[e] = "done")

-----------------------------------------------------------------------------
(* What holds behind that, for every schedule.                             *)

\* A handler always has something to wait for: a contact to look up, or the answer
\* to an INSERT.  Neither a rejected one nor a contact nobody asked about leaves it
\* with nothing that could take it on.
NeverStuck ==
  \A e \in Events :
    /\ eventPc[e] = "lookup" => todo[e] # {}
    /\ eventPc[e] = "insert" => inserting[e] # {}

Under(e) == eventPc[e] \in {"lookup", "insert", "recorded"}

\* And each of its steps brings it nearer to the end: there are fewer contacts left to
\* look up, or fewer INSERTs for the one it is at, or it goes on to where the event
\* is forwarded or skipped.
\* No other handler, request or socket takes it back.
HandlerRunsDown ==
  [][\A e \in Events :
       Under(e)
         => \/ UNCHANGED <<eventPc[e], todo[e], inserting[e]>>
            \/ todo'[e] \subseteq todo[e] /\ todo'[e] # todo[e]
            \/ /\ todo'[e] = todo[e]
               /\ inserting'[e] \subseteq inserting[e] /\ inserting'[e] # inserting[e]
            \/ eventPc'[e] = "done"]_presenceVars

=============================================================================
