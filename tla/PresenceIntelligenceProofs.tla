---------------------- MODULE PresenceIntelligenceProofs ----------------------
(***************************************************************************)
(* For any number of scopes, contacts, events and sockets: evidence is     *)
(* recorded about whom it was asked for and once, no scope is missed, and  *)
(* the report measures the pairs it should.                                *)
(***************************************************************************)
EXTENDS PresenceIntelligence, TLAPS

\* The type invariant by the part of the state it is about.
LinkTypes ==
  /\ socket \in 0..MaxSockets
  /\ link \in {"none", "connecting", "open"}
  /\ subscribed \in SUBSET Contacts

TargetTypes ==
  /\ active \in SUBSET Targets
  /\ enablePc \in [Targets -> {"idle", "subscribe", "upsert"}]
  /\ enableOn \in [Targets -> 0..MaxSockets]
  /\ enabledOn \in [Targets -> 0..MaxSockets]

EventTypes ==
  /\ eventPc \in [Events -> {"new", "lookup", "insert", "recorded", "done"}]
  /\ message \in [Deliveries -> Messages]
  /\ about \in [Events -> SUBSET Contacts]
  /\ todo \in [Events -> SUBSET Contacts]
  /\ inserting \in [Events -> SUBSET Targets]
  /\ failed \in [Events -> BOOLEAN]
  /\ ever \in [Events -> SUBSET Targets]
  /\ always \in [Events -> SUBSET Targets]
  /\ rows \in [Keys \X Targets -> Nat]

ReportTypes ==
  /\ reportPc \in {"idle", "loop"}
  /\ messageRows \in Seq(MessageRow) /\ Len(messageRows) <= MaxRows
  /\ pending \in 0..MaxRows
  /\ measured \in SUBSET ((1..MaxRows) \X (1..MaxRows))

LEMMA TypeParts ==
  PresenceTypeOK <=> LinkTypes /\ TargetTypes /\ EventTypes /\ ReportTypes /\ crashes \in 0..MaxCrashes
BY DEF PresenceTypeOK, LinkTypes, TargetTypes, EventTypes, ReportTypes

-----------------------------------------------------------------------------
(* The parts of the inductive invariant.                                   *)

\* No target is taken to be heard on a socket that has not subscribed to it,
\* and a socket that is still connecting has subscribed to nothing.
Heard ==
  /\ \A t \in active : enabledOn[t] <= socket
  /\ \A t \in Targets : enableOn[t] <= socket
  /\ link = "connecting" =>
       /\ \A t \in active : enabledOn[t] # socket
       /\ \A t \in Targets : enablePc[t] = "upsert" => enableOn[t] # socket
  /\ link = "open" =>
       /\ \A t \in active : enabledOn[t] = socket => t[2] \in subscribed
       /\ \A t \in Targets : enablePc[t] = "upsert" /\ enableOn[t] = socket => t[2] \in subscribed

\* What the histories of an event say about its targets.
Witnessed ==
  \A e \in Events :
    /\ eventPc[e] = "new" => ever[e] = {} /\ inserting[e] = {} /\ todo[e] = {} /\ always[e] = {}
    /\ todo[e] \subseteq about[e]
    /\ Watched(e) => {t \in active : t[2] \in about[e]} \subseteq ever[e]
    /\ Watched(e) => always[e] \subseteq active
    /\ \A t \in always[e] : t[2] \in about[e]
    /\ inserting[e] \subseteq ever[e]

\* An INSERT of an update that has not been answered is the first for its target.
FirstInsert ==
  \A u \in Updates, t \in Targets :
    /\ t \in inserting[u] => t[2] \notin todo[u]
    /\ t \in inserting[u] \/ t[2] \in todo[u] \/ eventPc[u] = "new" => rows[<<u, t>>] = 0

\* A handler owes its targets a query, an INSERT or a row.
Covered ==
  \A e \in Events :
    /\ failed[e] => eventPc[e] = "recorded"
    /\ eventPc[e] = "lookup" => inserting[e] = {}
    /\ eventPc[e] = "recorded" /\ ~failed[e] => todo[e] = {} /\ inserting[e] = {}
    /\ Watched(e) \/ (eventPc[e] = "recorded" /\ ~failed[e]) =>
         \A t \in always[e] : t[2] \in todo[e] \/ t \in inserting[e] \/ rows[<<Key(e), t>>] > 0

\* pendingOutbound is the last message if that went out.
Pending == pending = IF messageRows # <<>> /\ messageRows[Len(messageRows)].outbound
                     THEN Len(messageRows) ELSE 0

ReportInv == ReportTypes /\ Pending /\ MeasuredOnce

EventInv == EvidenceOnlyWhileActive /\ Witnessed /\ OneRowPerEvent /\ FirstInsert /\ Covered

PresenceInv == PresenceTypeOK /\ Heard /\ EventInv /\ Pending /\ MeasuredOnce

-----------------------------------------------------------------------------
LEMMA EventKeys ==
  ASSUME NEW e \in Events, EventTypes
  PROVE  /\ Key(e) \in Keys
         /\ \A u \in Updates : Key(e) = u <=> e = u
         /\ \A u \in Updates : u \in Events /\ Key(u) = u
BY EventsAssumption DEF EventTypes, Key, Keys, Events, Messages

LEMMA InitHolds == PresenceInit => PresenceInv
<1> SUFFICES ASSUME PresenceInit PROVE PresenceInv
  OBVIOUS
<1>1. PresenceTypeOK
  <2>1. /\ 0 \in 0..MaxSockets /\ 0 \in 0..MaxCrashes /\ 0 \in 0..MaxRows /\ 0 \in Nat
        /\ <<>> \in Seq(MessageRow) /\ Len(<<>>) <= MaxRows
    BY PresenceBoundsAssumption
  <2>2. LinkTypes /\ TargetTypes /\ ReportTypes /\ crashes \in 0..MaxCrashes
    BY <2>1 DEF PresenceInit, LinkTypes, TargetTypes, ReportTypes
  <2>3. EventTypes
    BY <2>1 DEF PresenceInit, EventTypes
  <2>4. QED
    BY <2>2, <2>3, TypeParts
<1>2. Heard
  BY PresenceBoundsAssumption DEF PresenceInit, Heard
<1>3. EvidenceOnlyWhileActive /\ OneRowPerEvent
  BY DEF PresenceInit, EvidenceOnlyWhileActive, OneRowPerEvent
<1>4. Witnessed /\ Covered
  BY DEF PresenceInit, Witnessed, Covered, Watched
<1>5. FirstInsert
  BY DEF PresenceInit, FirstInsert, Keys, Events
<1>6. Pending /\ MeasuredOnce
  BY DEF PresenceInit, Pending, MeasuredOnce, AnsweredNext
<1>7. QED
  BY <1>1, <1>2, <1>3, <1>4, <1>5, <1>6 DEF PresenceInv, EventInv

-----------------------------------------------------------------------------
(* The socket and the requests.                                            *)

LinkStep == SocketMade \/ SocketOpens \/ SocketCloses

LEMMA LinkKeepsHeard ==
  ASSUME PresenceTypeOK, Heard, LinkStep
  PROVE  LinkTypes' /\ Heard'
<1> USE PresenceBoundsAssumption, TypeParts
<1>1. CASE SocketMade
  BY <1>1 DEF SocketMade, targetVars, LinkTypes, TargetTypes, Heard
<1>2. CASE SocketOpens
  BY <1>2 DEF SocketOpens, targetVars, LinkTypes, TargetTypes, Heard
<1>3. CASE SocketCloses
  BY <1>3 DEF SocketCloses, targetVars, LinkTypes, TargetTypes, Heard
<1>4. QED
  BY <1>1, <1>2, <1>3 DEF LinkStep

LEMMA TargetKeepsHeard ==
  ASSUME PresenceTypeOK, Heard, NEW t \in Targets, TargetStep(t)
  PROVE  LinkTypes' /\ TargetTypes' /\ Heard'
<1> USE PresenceBoundsAssumption, TypeParts DEF LinkTypes, TargetTypes, Heard
<1>1. t[2] \in Contacts
  BY DEF Targets
<1>2. CASE EnableTarget(t)
  BY <1>2 DEF EnableTarget, linkVars
<1>3. CASE Subscribed(t)
  BY <1>1, <1>3 DEF Subscribed
<1>4. CASE SubscribeRejected(t)
  BY <1>4 DEF SubscribeRejected, linkVars
<1>5. CASE TargetUpserted(t)
  BY <1>5 DEF TargetUpserted, linkVars
<1>6. CASE UpsertRejected(t)
  BY <1>6 DEF UpsertRejected, linkVars
<1>7. CASE DisableTarget(t)
  BY <1>7 DEF DisableTarget, linkVars
<1>8. QED
  BY <1>2, <1>3, <1>4, <1>5, <1>6, <1>7 DEF TargetStep

\* The targets change under the events.
LEMMA WatchKeepsEvents ==
  ASSUME EventTypes, EventInv, active' \in SUBSET Targets, Watch, UNCHANGED eventVars
  PROVE  EventTypes' /\ EventInv'
<1> USE DEF eventVars
<1>1. EventTypes'
  BY DEF EventTypes, Watch
<1>2. /\ \A e \in Events : Key(e)' = Key(e) /\ (Watched(e)' <=> Watched(e))
      /\ \A e \in Events : ever[e] \subseteq ever'[e] /\ always'[e] \subseteq always[e]
  BY DEF EventTypes, Watch, Key, Watched
<1>3. EvidenceOnlyWhileActive'
  BY <1>2 DEF EventInv, EvidenceOnlyWhileActive
<1>4. Witnessed'
  BY <1>1, <1>2 DEF EventInv, EventTypes, Witnessed, Watch, Watched
<1>5. OneRowPerEvent' /\ FirstInsert'
  BY DEF EventInv, OneRowPerEvent, FirstInsert
<1>6. Covered'
  BY <1>2 DEF EventInv, Covered
<1>7. QED
  BY <1>1, <1>3, <1>4, <1>5, <1>6 DEF EventInv

LEMMA SameEvents ==
  ASSUME EventTypes, EventInv, UNCHANGED <<active, eventVars, historyVars>>
  PROVE  EventTypes' /\ EventInv'
BY DEF EventTypes, EventInv, eventVars, historyVars, EvidenceOnlyWhileActive, Witnessed,
       OneRowPerEvent, FirstInsert, Covered, Key, Watched

LEMMA TargetKeepsEvents ==
  ASSUME PresenceTypeOK, EventInv, NEW t \in Targets, TargetStep(t)
  PROVE  EventTypes' /\ EventInv'
<1>1. EventTypes /\ active \in SUBSET Targets
  BY TypeParts DEF TargetTypes
<1>2. CASE TargetUpserted(t) \/ DisableTarget(t)
  <2>1. active' \in SUBSET Targets /\ Watch /\ UNCHANGED eventVars
    BY <1>1, <1>2 DEF TargetUpserted, DisableTarget
  <2>2. QED
    BY <1>1, <2>1, WatchKeepsEvents
<1>3. CASE EnableTarget(t) \/ Subscribed(t) \/ SubscribeRejected(t) \/ UpsertRejected(t)
  <2>1. UNCHANGED <<active, eventVars, historyVars>>
    BY <1>3 DEF EnableTarget, Subscribed, SubscribeRejected, UpsertRejected
  <2>2. QED
    BY <1>1, <2>1, SameEvents
<1>4. QED
  BY <1>2, <1>3 DEF TargetStep

-----------------------------------------------------------------------------
(* The handlers.                                                           *)

LEMMA StartKeepsEvents ==
  ASSUME EventTypes, active \in SUBSET Targets, EventInv,
         NEW e \in Events, NEW C \in SUBSET Contacts, HandlerStarts(e, C)
  PROVE  EventTypes' /\ EventInv'
<1> USE DEF HandlerStarts, targetVars
<1>1. EventTypes'
  BY DEF EventTypes
<1>2. /\ \A x \in Events : Key(x)' = Key(x)
      /\ \A x \in Events \ {e} : ever'[x] = ever[x] /\ (Watched(x)' <=> Watched(x))
      /\ ever[e] = {} /\ inserting[e] = {} /\ always[e] = {}
  BY DEF EventInv, Witnessed, EventTypes, Key, Watched
<1>3. EvidenceOnlyWhileActive'
  BY <1>2 DEF EventInv, EvidenceOnlyWhileActive
<1>4. Witnessed'
  <2> SUFFICES ASSUME NEW x \in Events PROVE Witnessed!(x)'
    BY DEF Witnessed
  <2>1. Witnessed!(x)
    BY DEF EventInv, Witnessed
  <2>2. CASE x = e
    BY <1>2, <2>1, <2>2 DEF EventTypes, Watched
  <2>3. CASE x # e
    BY <1>2, <2>1, <2>3 DEF EventTypes, Watched
  <2>4. QED
    BY <2>2, <2>3
<1>5. OneRowPerEvent'
  BY DEF EventInv, OneRowPerEvent
<1>6. FirstInsert'
  BY <1>2 DEF EventInv, FirstInsert, EventTypes, Events
<1>7. Covered'
  BY <1>2 DEF EventInv, Covered, EventTypes, Watched
<1>8. QED
  BY <1>1, <1>3, <1>4, <1>5, <1>6, <1>7 DEF EventInv

LEMMA ReadKeepsEvents ==
  ASSUME EventTypes, active \in SUBSET Targets, EventInv,
         NEW e \in Events, NEW c \in Contacts, ScopesRead(e, c)
  PROVE  EventTypes' /\ EventInv'
<1> USE DEF ScopesRead, historyVars, targetVars
<1> DEFINE scopes == {t \in active : t[2] = c}
<1>1. EventTypes'
  BY DEF EventTypes, AfterContact
<1>2. /\ eventPc[e] = "lookup" /\ c \in todo[e] /\ inserting[e] = {} /\ ~failed[e]
      /\ inserting'[e] = scopes /\ todo'[e] = todo[e] \ {c}
      /\ eventPc'[e] = IF scopes = {} THEN AfterContact(todo'[e]) ELSE "insert"
      /\ \A x \in Events : Key(x)' = Key(x)
      /\ \A x \in Events \ {e} : /\ eventPc'[x] = eventPc[x] /\ todo'[x] = todo[x]
                                 /\ inserting'[x] = inserting[x]
  BY DEF EventInv, Covered, EventTypes, Key
<1>3. EvidenceOnlyWhileActive' /\ OneRowPerEvent'
  BY <1>2 DEF EventInv, EvidenceOnlyWhileActive, OneRowPerEvent
<1>4. Witnessed'
  BY <1>2 DEF EventInv, Witnessed, Watched, AfterContact
<1>5. FirstInsert'
  <2> SUFFICES ASSUME NEW u \in Updates, NEW t \in Targets PROVE FirstInsert!(u, t)'
    BY DEF FirstInsert
  <2>1. FirstInsert!(u, t) /\ u \in Events
    BY DEF EventInv, FirstInsert, Events
  <2>2. CASE u = e
    <3>1. eventPc'[u] # "new"
      BY <1>2, <2>2 DEF AfterContact
    <3>2. QED
      BY <1>2, <2>1, <2>2, <3>1
  <2>3. CASE u # e
    BY <1>2, <2>1, <2>3
  <2>4. QED
    BY <2>2, <2>3
<1>6. Covered'
  <2>1. \A t \in always[e] : t \in active
    BY <1>2 DEF EventInv, Witnessed, Watched
  <2>2. QED
    BY <1>2, <2>1 DEF EventInv, Covered, Watched, AfterContact
<1>7. QED
  BY <1>1, <1>3, <1>4, <1>5, <1>6 DEF EventInv

LEMMA InsertKeepsEvents ==
  ASSUME EventTypes, EventInv, NEW e \in Events, NEW t \in Targets, RowInserted(e, t)
  PROVE  EventTypes' /\ EventInv'
<1> USE DEF RowInserted, historyVars, targetVars
<1>1. EventTypes'
  BY EventKeys DEF EventTypes, AfterContact, RowsAfter
<1>2. /\ t \in inserting[e] /\ inserting'[e] = inserting[e] \ {t}
      /\ eventPc'[e] = IF eventPc[e] = "insert" /\ inserting'[e] = {}
                       THEN AfterContact(todo[e]) ELSE eventPc[e]
      /\ \A x \in Events : Key(x)' = Key(x)
      /\ \A x \in Events \ {e} : eventPc'[x] = eventPc[x] /\ inserting'[x] = inserting[x]
  BY DEF EventTypes, Key
<1>3. /\ Key(e) \in Keys
      /\ rows'[<<Key(e), t>>] = RowsAfter(e, t)
      /\ \A k \in Keys, w \in Targets :
           <<k, w>> # <<Key(e), t>> => rows'[<<k, w>>] = rows[<<k, w>>]
  BY EventKeys DEF EventTypes
<1>4. RowsAfter(e, t) = 1
  <2>1. CASE e \in Updates
    BY <1>2, <2>1, EventKeys, EventsAssumption DEF EventInv, FirstInsert, RowsAfter
  <2>2. CASE e \in Deliveries
    BY <2>2 DEF RowsAfter
  <2>3. QED
    BY <2>1, <2>2 DEF Events
<1>5. EvidenceOnlyWhileActive'
  <2>1. t \in ever[e]
    BY <1>2 DEF EventInv, Witnessed
  <2>2. QED
    BY <1>2, <1>3, <2>1 DEF EventInv, EvidenceOnlyWhileActive
<1>6. Witnessed'
  BY <1>2 DEF EventInv, Witnessed, Watched, AfterContact
<1>7. OneRowPerEvent'
  <2> SUFFICES ASSUME NEW k \in Keys, NEW w \in Targets PROVE rows'[<<k, w>>] <= 1
    BY DEF OneRowPerEvent
  <2>1. CASE <<k, w>> = <<Key(e), t>>
    BY <1>3, <1>4, <2>1
  <2>2. CASE <<k, w>> # <<Key(e), t>>
    BY <1>3, <2>2 DEF EventInv, OneRowPerEvent
  <2>3. QED
    BY <2>1, <2>2
<1>8. FirstInsert'
  <2> SUFFICES ASSUME NEW u \in Updates, NEW w \in Targets
               PROVE  FirstInsert!(u, w)'
    BY DEF FirstInsert
  <2>1. u \in Events /\ u \in Keys /\ (Key(e) = u <=> e = u)
    BY EventKeys DEF Events, Keys
  <2>2. /\ w \in inserting[u] => w[2] \notin todo[u]
        /\ w \in inserting[u] \/ w[2] \in todo[u] \/ eventPc[u] = "new" => rows[<<u, w>>] = 0
        /\ eventPc[u] = "new" => inserting[u] = {}
    BY <2>1 DEF EventInv, FirstInsert, Witnessed
  <2>3. w \in inserting'[u] => w \in inserting[u] /\ <<u, w>> # <<Key(e), t>>
    BY <1>2, <2>1
  <2>4. w[2] \in todo[u] => <<u, w>> # <<Key(e), t>>
    BY <1>2, <2>1, <2>2
  <2>5. eventPc'[u] = "new" => eventPc[u] = "new" /\ <<u, w>> # <<Key(e), t>>
    BY <1>2, <2>1, <2>2 DEF AfterContact
  <2>6. QED
    BY <1>3, <2>1, <2>2, <2>3, <2>4, <2>5
<1>9. Covered'
  <2> SUFFICES ASSUME NEW x \in Events PROVE Covered!(x)'
    BY DEF Covered
  <2>1. Key(x) \in Keys /\ Key(x)' = Key(x) /\ always[x] \subseteq Targets
    BY EventKeys, <1>2 DEF EventTypes
  <2>2. \A w \in Targets : rows[<<Key(x), w>>] > 0 => rows'[<<Key(x), w>>] > 0
    BY <1>3, <1>4, <2>1
  <2>3. Covered!(x)
    BY DEF EventInv, Covered
  <2>4. CASE x = e
    BY <1>2, <1>3, <1>4, <2>1, <2>2, <2>3, <2>4 DEF Watched, AfterContact
  <2>5. CASE x # e
    BY <1>2, <2>1, <2>2, <2>3, <2>5 DEF Watched
  <2>6. QED
    BY <2>4, <2>5
<1>10. QED
  BY <1>1, <1>5, <1>6, <1>7, <1>8, <1>9 DEF EventInv

LEMMA RejectedKeepsEvents ==
  ASSUME EventTypes, EventInv, NEW e \in Events,
         ReadRejected(e) \/ (\E t \in Targets : InsertRejected(e, t)) \/ Forwarded(e)
  PROVE  EventTypes' /\ EventInv'
<1> USE DEF ReadRejected, InsertRejected, Forwarded, historyVars, targetVars
<1>1. EventTypes'
  <2>1. CASE ReadRejected(e) \/ Forwarded(e)
    BY <2>1 DEF EventTypes
  <2>2. ASSUME NEW t \in Targets, InsertRejected(e, t) PROVE EventTypes'
    <3>1. (eventPc[e] # "done") \in BOOLEAN
      OBVIOUS
    <3>2. QED
      BY <2>2, <3>1 DEF EventTypes
  <2>3. QED
    BY <2>1, <2>2
<1>2. /\ \A x \in Events : Key(x)' = Key(x)
      /\ UNCHANGED <<active, about, rows, ever>>
      /\ eventPc[e] # "new" \/ inserting[e] # {}
      /\ eventPc'[e] \in {"recorded", "done", eventPc[e]}
      /\ ~Watched(e)' \/ eventPc'[e] = eventPc[e]
      /\ todo'[e] \in {{}, todo[e]} /\ inserting'[e] \subseteq inserting[e]
      /\ always'[e] \subseteq always[e]
      /\ \A x \in Events \ {e} : /\ eventPc'[x] = eventPc[x] /\ todo'[x] = todo[x]
                                 /\ inserting'[x] = inserting[x] /\ always'[x] = always[x]
                                 /\ failed'[x] = failed[x]
  BY DEF EventTypes, Key, Watched
<1>3. EvidenceOnlyWhileActive' /\ OneRowPerEvent'
  BY <1>2 DEF EventInv, EvidenceOnlyWhileActive, OneRowPerEvent
<1>4. Witnessed'
  BY <1>2 DEF EventInv, Witnessed, Watched
<1>5. FirstInsert'
  <2>1. \A u \in Updates : u \in Events
    BY DEF Events
  <2>2. /\ \A x \in Events : todo'[x] \subseteq todo[x] /\ inserting'[x] \subseteq inserting[x]
        /\ \A x \in Events : eventPc'[x] = "new" => eventPc[x] = "new"
    BY <1>2 DEF EventInv, Witnessed
  <2>3. QED
    BY <1>2, <2>1, <2>2 DEF EventInv, FirstInsert
<1>6. Covered'
  <2> SUFFICES ASSUME NEW x \in Events PROVE Covered!(x)'
    BY DEF Covered
  <2>1. Covered!(x) /\ (eventPc[e] = "new" => inserting[e] = {})
    BY DEF EventInv, Covered, Witnessed
  <2>2. CASE x # e
    BY <1>2, <2>1, <2>2 DEF Watched
  <2>3. CASE x = e /\ ReadRejected(e)
    BY <1>2, <2>1, <2>3 DEF Watched, EventTypes
  <2>4. CASE x = e /\ Forwarded(e)
    BY <1>2, <2>1, <2>4 DEF Watched, EventTypes
  <2>5. ASSUME x = e, NEW t \in Targets, InsertRejected(e, t) PROVE Covered!(x)'
    <3>1. /\ t \in inserting[e] /\ failed'[e] = (eventPc[e] # "done")
          /\ eventPc'[e] = IF eventPc[e] = "insert" THEN "recorded" ELSE eventPc[e]
      BY <2>5 DEF EventTypes
    <3>2. eventPc[e] \in {"insert", "recorded", "done"}
      BY <2>1, <2>5, <3>1 DEF EventTypes
    <3>3. QED
      BY <1>2, <2>1, <2>5, <3>1, <3>2 DEF Watched
  <2>6. QED
    BY <2>2, <2>3, <2>4, <2>5
<1>7. QED
  BY <1>1, <1>3, <1>4, <1>5, <1>6 DEF EventInv

LEMMA CrashKeepsEvents ==
  ASSUME EventTypes, EventInv, PresenceCrash
  PROVE  EventTypes' /\ EventInv'
<1> USE DEF PresenceCrash
<1>1. EventTypes'
  BY DEF EventTypes
<1>2. \A x \in Events : /\ Key(x)' = Key(x) /\ ~Watched(x)' /\ todo'[x] = {} /\ always'[x] = {}
                        /\ eventPc'[x] = (IF eventPc[x] = "new" THEN "new" ELSE "done")
                        /\ ~failed'[x]
  BY DEF EventTypes, Key, Watched
<1>3. EvidenceOnlyWhileActive' /\ OneRowPerEvent'
  BY <1>2 DEF EventInv, EvidenceOnlyWhileActive, OneRowPerEvent
<1>4. Witnessed'
  BY <1>2 DEF EventInv, Witnessed
<1>5. FirstInsert'
  BY <1>2 DEF EventInv, FirstInsert, Events
<1>6. Covered'
  BY <1>2 DEF EventInv, Covered
<1>7. QED
  BY <1>1, <1>3, <1>4, <1>5, <1>6 DEF EventInv

-----------------------------------------------------------------------------
(* The report.                                                             *)

LEMMA RowsRead ==
  ASSUME ReportTypes, NEW row \in MessageRow, NEW at \in 1..MaxRows, Reads(row, at)
  PROVE  /\ Len(messageRows) \in Nat /\ at = Len(messageRows) + 1
         /\ messageRows' \in Seq(MessageRow) /\ Len(messageRows') = at
         /\ messageRows'[at] = row
         /\ \A i \in 1..Len(messageRows) : messageRows'[i] = messageRows[i]
BY DEF ReportTypes, Reads

\* The pairs among the rows read so far stay as they are; one may be new.
LEMMA NewPair ==
  ASSUME ReportTypes, NEW row \in MessageRow, NEW at \in 1..MaxRows, Reads(row, at)
  PROVE  AnsweredNext(Len(messageRows))' =
           AnsweredNext(Len(messageRows)) \cup
             {p \in {<<at - 1, at>>} : /\ at > 1 /\ messageRows[at - 1].outbound /\ ~row.outbound
                                      /\ row.time - messageRows[at - 1].time <= Day}
<1>n. PICK n \in Nat : n = Len(messageRows)
  BY DEF ReportTypes
<1> DEFINE New == {p \in {<<at - 1, at>>} :
                     /\ at > 1 /\ messageRows[at - 1].outbound /\ ~row.outbound
                     /\ row.time - messageRows[at - 1].time <= Day}
<1>1. /\ n \in Nat /\ at = n + 1 /\ Len(messageRows') = n + 1 /\ messageRows'[n + 1] = row
      /\ \A i \in 1..n : messageRows'[i] = messageRows[i]
  BY <1>n, RowsRead
<1>2. AnsweredNext(Len(messageRows)) = AnsweredNext(n)
  BY <1>n
<1>3. AnsweredNext(Len(messageRows))' = AnsweredNext(n + 1)'
  BY <1>1 DEF AnsweredNext, Delta
<1>4. ASSUME NEW i \in 1..n, NEW j \in 1..n
      PROVE  <<i, j>> \in AnsweredNext(n + 1)' <=> <<i, j>> \in AnsweredNext(n)
  <2>1. messageRows'[i] = messageRows[i] /\ messageRows'[j] = messageRows[j]
    BY <1>1
  <2>2. i \in 1..(n + 1) /\ j \in 1..(n + 1)
    BY <1>1
  <2>3. QED
    BY <2>1, <2>2 DEF AnsweredNext, Delta
<1>5. ASSUME NEW i \in 1..(n + 1), NEW j \in 1..(n + 1), i = n + 1 \/ j = n + 1
      PROVE  <<i, j>> \in AnsweredNext(n + 1)' <=> <<i, j>> \in New
  <2>1. CASE j = n + 1 /\ i = n /\ n > 0
    <3>1. messageRows'[i] = messageRows[at - 1] /\ messageRows'[j] = row
      BY <1>1, <2>1
    <3>2. QED
      BY <1>1, <2>1, <3>1 DEF AnsweredNext, Delta
  <2>2. CASE ~(j = n + 1 /\ i = n /\ n > 0)
    <3>1. j # i + 1
      BY <1>1, <1>5, <2>2
    <3>2. QED
      BY <1>1, <3>1 DEF AnsweredNext
  <2>3. QED
    BY <2>1, <2>2
<1>6. /\ AnsweredNext(n) \subseteq (1..n) \X (1..n)
      /\ AnsweredNext(n + 1)' \subseteq (1..(n + 1)) \X (1..(n + 1))
      /\ New \subseteq {<<n, n + 1>>} /\ (New # {} => n > 0)
  BY <1>1 DEF AnsweredNext
<1> HIDE DEF New
<1>7. AnsweredNext(n + 1)' = AnsweredNext(n) \cup New
  <2>1. ASSUME NEW i \in 1..(n + 1), NEW j \in 1..(n + 1)
        PROVE  <<i, j>> \in AnsweredNext(n + 1)' <=> <<i, j>> \in AnsweredNext(n) \cup New
    <3>1. CASE i = n + 1 \/ j = n + 1
      <4>1. <<i, j>> \notin AnsweredNext(n)
        BY <1>1, <1>6, <3>1
      <4>2. QED
        BY <1>5, <3>1, <4>1
    <3>2. CASE i # n + 1 /\ j # n + 1
      <4>1. i \in 1..n /\ j \in 1..n /\ <<i, j>> \notin New
        BY <1>1, <1>6, <3>2
      <4>2. QED
        BY <1>4, <4>1
    <3>3. QED
      BY <3>1, <3>2
  <2>2. AnsweredNext(n) \cup New \subseteq (1..(n + 1)) \X (1..(n + 1))
    BY <1>1, <1>6
  <2>3. QED
    BY <1>6, <2>1, <2>2
<1>8. QED
  BY <1>2, <1>3, <1>7 DEF New

LEMMA ReportKeepsInv ==
  ASSUME ReportInv, ReportStep
  PROVE  ReportInv'
<1> USE PresenceBoundsAssumption, TimesAssumption
<1>1. CASE ReportRead
  BY <1>1 DEF ReportRead, ReportInv, ReportTypes, Pending, MeasuredOnce, AnsweredNext, Delta
<1>2. CASE ReportSent
  BY <1>2 DEF ReportSent, ReportInv, ReportTypes, Pending, MeasuredOnce, AnsweredNext
<1>3. ASSUME NEW row \in MessageRow, NEW at \in 1..MaxRows, OutboundRow(row, at)
      PROVE  ReportInv'
  <2>1. Reads(row, at) /\ ReportTypes /\ row.outbound /\ pending' = at /\ measured' = measured
    BY <1>3 DEF OutboundRow, ReportInv
  <2>2. /\ messageRows' \in Seq(MessageRow) /\ Len(messageRows') = at
        /\ messageRows'[at] = row /\ messageRows' # <<>>
    BY <2>1, RowsRead
  <2>3. ReportTypes' /\ Pending'
    BY <2>1, <2>2 DEF ReportTypes, Pending, Reads
  <2>4. MeasuredOnce'
    BY <2>1, NewPair DEF ReportInv, MeasuredOnce
  <2>5. QED
    BY <2>3, <2>4 DEF ReportInv
<1>4. ASSUME NEW row \in MessageRow, NEW at \in 1..MaxRows, InboundRow(row, at)
      PROVE  ReportInv'
  <2>1. /\ Reads(row, at) /\ ReportTypes /\ ~row.outbound /\ pending' = 0
        /\ measured' = IF pending # 0 /\ row.time - messageRows[pending].time <= Day
                       THEN measured \cup {<<pending, at>>} ELSE measured
    BY <1>4 DEF InboundRow, ReportInv
  <2>2. /\ messageRows' \in Seq(MessageRow) /\ Len(messageRows') = at
        /\ messageRows'[at] = row /\ messageRows' # <<>>
        /\ Len(messageRows) \in Nat /\ at = Len(messageRows) + 1
    BY <2>1, RowsRead
  <2>3. messageRows # <<>> <=> at > 1
    BY <2>1, <2>2 DEF ReportTypes
  <2>4. pending = IF at > 1 /\ messageRows[at - 1].outbound THEN at - 1 ELSE 0
    BY <2>2, <2>3 DEF ReportInv, Pending
  <2>5. ReportTypes' /\ Pending'
    BY <2>1, <2>2 DEF ReportTypes, Pending, Reads
  <2>6. MeasuredOnce'
    <3>1. measured = AnsweredNext(Len(messageRows))
      BY DEF ReportInv, MeasuredOnce
    <3>2. CASE pending # 0
      BY <2>1, <2>2, <2>4, <3>1, <3>2, NewPair DEF MeasuredOnce
    <3>3. CASE pending = 0
      <4>1. ~(at > 1 /\ messageRows[at - 1].outbound)
        BY <2>2, <2>4, <3>3
      <4>2. QED
        BY <2>1, <3>1, <3>3, <4>1, NewPair DEF MeasuredOnce
    <3>4. QED
      BY <3>2, <3>3
  <2>7. QED
    BY <2>5, <2>6 DEF ReportInv
<1>5. QED
  BY <1>1, <1>2, <1>3, <1>4 DEF ReportStep

LEMMA SameReport ==
  ASSUME ReportInv, UNCHANGED reportVars
  PROVE  ReportInv'
BY DEF ReportInv, ReportTypes, reportVars, Pending, MeasuredOnce, AnsweredNext, Delta

-----------------------------------------------------------------------------
LEMMA SameHeard ==
  ASSUME LinkTypes, TargetTypes, Heard, UNCHANGED <<linkVars, targetVars>>
  PROVE  LinkTypes' /\ TargetTypes' /\ Heard'
BY DEF LinkTypes, TargetTypes, Heard, linkVars, targetVars

LEMMA PresenceParts ==
  PresenceInv <=> /\ LinkTypes /\ TargetTypes /\ Heard
                  /\ EventTypes /\ EventInv
                  /\ ReportInv
                  /\ crashes \in 0..MaxCrashes
BY TypeParts DEF PresenceInv, ReportInv

LEMMA NextParts ==
  PresenceInv' <=> /\ LinkTypes' /\ TargetTypes' /\ Heard'
                   /\ EventTypes' /\ EventInv'
                   /\ ReportInv'
                   /\ (crashes \in 0..MaxCrashes)'
BY DEF PresenceTypeOK, LinkTypes, TargetTypes, EventTypes, ReportTypes, PresenceInv, ReportInv

\* What an event does leaves the socket, the targets and the report alone.
EventStep ==
  \/ \E e \in Events, C \in SUBSET Contacts : HandlerStarts(e, C)
  \/ \E e \in Events : HandlerStep(e)

LEMMA EventKeepsInv ==
  ASSUME PresenceInv, EventStep
  PROVE  PresenceInv'
<1>1. /\ LinkTypes /\ TargetTypes /\ Heard /\ EventTypes /\ EventInv /\ ReportInv
      /\ crashes \in 0..MaxCrashes /\ active \in SUBSET Targets
  BY PresenceParts DEF TargetTypes
<1>2. UNCHANGED <<linkVars, targetVars, reportVars, crashes>>
  BY DEF EventStep, HandlerStep, HandlerStarts, ScopesRead, ReadRejected, RowInserted,
         InsertRejected, Forwarded
<1>3. EventTypes' /\ EventInv'
  <2>1. ASSUME NEW e \in Events, NEW C \in SUBSET Contacts, HandlerStarts(e, C)
        PROVE  EventTypes' /\ EventInv'
    BY <1>1, <2>1, StartKeepsEvents
  <2>2. ASSUME NEW e \in Events, NEW c \in Contacts, ScopesRead(e, c)
        PROVE  EventTypes' /\ EventInv'
    BY <1>1, <2>2, ReadKeepsEvents
  <2>3. ASSUME NEW e \in Events, NEW t \in Targets, RowInserted(e, t)
        PROVE  EventTypes' /\ EventInv'
    BY <1>1, <2>3, InsertKeepsEvents
  <2>4. ASSUME NEW e \in Events,
               ReadRejected(e) \/ (\E t \in Targets : InsertRejected(e, t)) \/ Forwarded(e)
        PROVE  EventTypes' /\ EventInv'
    BY <1>1, <2>4, RejectedKeepsEvents
  <2>5. QED
    BY <2>1, <2>2, <2>3, <2>4 DEF EventStep, HandlerStep
<1>4. LinkTypes' /\ TargetTypes' /\ Heard' /\ ReportInv' /\ (crashes \in 0..MaxCrashes)'
  BY <1>1, <1>2, SameHeard, SameReport
<1>5. QED
  BY <1>3, <1>4, NextParts

LEMMA CrashKeepsInv ==
  ASSUME PresenceInv, PresenceCrash
  PROVE  PresenceInv'
<1>1. /\ LinkTypes /\ TargetTypes /\ Heard /\ EventTypes /\ EventInv /\ ReportInv
      /\ crashes \in 0..MaxCrashes
  BY PresenceParts
<1>2. LinkTypes' /\ TargetTypes' /\ Heard'
  BY <1>1, PresenceBoundsAssumption DEF PresenceCrash, LinkTypes, TargetTypes, Heard
<1>3. ReportInv' /\ (crashes \in 0..MaxCrashes)'
  BY <1>1, SameReport, PresenceBoundsAssumption DEF PresenceCrash
<1>4. QED
  BY <1>1, <1>2, <1>3, CrashKeepsEvents, NextParts

LEMMA NextKeepsInv ==
  PresenceInv /\ [PresenceNext]_presenceVars => PresenceInv'
<1> SUFFICES ASSUME PresenceInv, [PresenceNext]_presenceVars PROVE PresenceInv'
  OBVIOUS
<1>1. /\ LinkTypes /\ TargetTypes /\ Heard /\ EventTypes /\ EventInv /\ ReportInv
      /\ crashes \in 0..MaxCrashes /\ PresenceTypeOK
  BY PresenceParts, TypeParts DEF PresenceInv
<1>2. CASE LinkStep
  <2>1. UNCHANGED <<targetVars, eventVars, historyVars, reportVars, crashes>>
    BY <1>2 DEF LinkStep, SocketMade, SocketOpens, SocketCloses
  <2>2. TargetTypes' /\ active' = active
    BY <1>1, <2>1 DEF TargetTypes, targetVars
  <2>3. QED
    BY <1>1, <1>2, <2>1, <2>2, LinkKeepsHeard, SameEvents, SameReport, NextParts
<1>3. ASSUME NEW t \in Targets, TargetStep(t) PROVE PresenceInv'
  <2>1. UNCHANGED <<reportVars, crashes>>
    BY <1>3 DEF TargetStep, EnableTarget, Subscribed, SubscribeRejected, TargetUpserted,
                UpsertRejected, DisableTarget
  <2>2. QED
    BY <1>1, <1>3, <2>1, TargetKeepsHeard, TargetKeepsEvents, SameReport, NextParts
<1>4. CASE EventStep
  BY <1>4, EventKeepsInv
<1>5. CASE ReportStep
  <2>1. UNCHANGED <<linkVars, targetVars, eventVars, historyVars, crashes>>
    BY <1>5 DEF ReportStep, ReportRead, ReportSent, OutboundRow, InboundRow, Reads
  <2>2. active' = active
    BY <2>1 DEF targetVars
  <2>3. QED
    BY <1>1, <1>5, <2>1, <2>2, SameHeard, SameEvents, ReportKeepsInv, NextParts
<1>6. CASE PresenceCrash
  BY <1>6, CrashKeepsInv
<1>7. CASE UNCHANGED presenceVars
  <2>1. UNCHANGED <<linkVars, targetVars, eventVars, historyVars, reportVars, crashes>>
    BY <1>7 DEF presenceVars
  <2>2. active' = active
    BY <2>1 DEF targetVars
  <2>3. QED
    BY <1>1, <2>1, <2>2, SameHeard, SameEvents, SameReport, NextParts
<1>8. \A e \in Events : message[e][1] \in Contacts \/ e \notin Deliveries
  BY <1>1 DEF EventTypes, Messages
<1>9. QED
  <2>1. ASSUME NEW u \in Updates, PresenceUpdate(u) PROVE EventStep
    BY <2>1 DEF PresenceUpdate, EventStep, Events
  <2>2. ASSUME NEW d \in Deliveries, MessageUpsert(d) PROVE EventStep
    <3>1. d \in Events /\ {message[d][1]} \in SUBSET Contacts
      BY <1>8 DEF Events
    <3>2. QED
      BY <2>2, <3>1 DEF MessageUpsert, EventStep
  <2>3. ASSUME NEW e \in Events, HandlerStep(e) PROVE EventStep
    BY <2>3 DEF EventStep
  <2>4. QED
    BY <1>2, <1>3, <1>4, <1>5, <1>6, <1>7, <2>1, <2>2, <2>3 DEF PresenceNext, LinkStep

\* The inductive invariant holds in every state the program reaches.
THEOREM PresenceInvariant == PresenceSpec => []PresenceInv
BY InitHolds, NextKeepsInv, PTL DEF PresenceSpec

\* Type correctness: what is inserted is a target, and counts stay in range.
THEOREM PresenceTypes == PresenceSpec => []PresenceTypeOK
<1>1. PresenceInv => PresenceTypeOK
  BY DEF PresenceInv
<1>2. QED
  BY <1>1, PresenceInvariant, PTL

\* Evidence is recorded only about targets that were active while the event was
\* handled, whatever requests come between targetScopesForJid and the INSERTs.
THEOREM EvidenceWasAskedFor == PresenceSpec => []EvidenceOnlyWhileActive
<1>1. PresenceInv => EvidenceOnlyWhileActive
  BY DEF PresenceInv, EventInv
<1>2. QED
  BY <1>1, PresenceInvariant, PTL

\* A handler none of whose queries was rejected misses no target that was
\* active throughout.
THEOREM EvidenceComplete == PresenceSpec => []NoEvidenceMissed
<1>1. PresenceInv => NoEvidenceMissed
  <2> SUFFICES ASSUME PresenceInv, NEW e \in Events, eventPc[e] = "recorded", ~failed[e],
                      NEW t \in always[e]
               PROVE  rows[<<Key(e), t>>] > 0
    BY DEF NoEvidenceMissed
  <2>1. QED
    BY DEF PresenceInv, EventInv, Covered
<1>2. QED
  BY <1>1, PresenceInvariant, PTL

\* A scope counts a message once however often it is delivered.
THEOREM EvidenceCountedOnce == PresenceSpec => []OneRowPerEvent
<1>1. PresenceInv => OneRowPerEvent
  BY DEF PresenceInv, EventInv
<1>2. QED
  BY <1>1, PresenceInvariant, PTL

\* A target enabled on the account's present socket is subscribed to there.
THEOREM TargetsHeard == PresenceSpec => []HeardOnItsSocket
<1>1. PresenceInv => HeardOnItsSocket
  BY DEF PresenceInv, Heard, HeardOnItsSocket
<1>2. QED
  BY <1>1, PresenceInvariant, PTL

\* The report measures the messages answered by the very next one within a
\* day, and no others, for any number of rows.
THEOREM ReportMeasures == PresenceSpec => []MeasuredOnce
<1>1. PresenceInv => MeasuredOnce
  BY DEF PresenceInv
<1>2. QED
  BY <1>1, PresenceInvariant, PTL

-----------------------------------------------------------------------------
(* The handlers come to their end.                                         *)

\* What a step may do to the handlers.
LEMMA HandlersMove ==
  ASSUME PresenceInv, [PresenceNext]_presenceVars
  PROVE  \/ UNCHANGED <<eventPc, todo, inserting>>
         \/ PresenceCrash
         \/ \E e \in Events, C \in (SUBSET Contacts) \ {{}} : HandlerStarts(e, C)
         \/ \E e \in Events : HandlerStep(e)
<1>1. CASE LinkStep \/ ReportStep \/ UNCHANGED presenceVars
  BY <1>1 DEF LinkStep, SocketMade, SocketOpens, SocketCloses, ReportStep, ReportRead,
              OutboundRow, InboundRow, Reads, ReportSent, presenceVars, eventVars
<1>2. CASE \E t \in Targets : TargetStep(t)
  BY <1>2 DEF TargetStep, EnableTarget, Subscribed, SubscribeRejected, TargetUpserted,
              UpsertRejected, DisableTarget, eventVars
<1>3. CASE \E u \in Updates : PresenceUpdate(u)
  BY <1>3 DEF PresenceUpdate, Events
<1>4. ASSUME NEW d \in Deliveries, MessageUpsert(d)
      PROVE  \E e \in Events, C \in (SUBSET Contacts) \ {{}} : HandlerStarts(e, C)
  <2>1. message[d][1] \in Contacts
    BY TypeParts DEF PresenceInv, EventTypes, Messages
  <2>2. d \in Events /\ {message[d][1]} \in (SUBSET Contacts) \ {{}}
    BY <2>1 DEF Events
  <2>3. QED
    BY <1>4, <2>2 DEF MessageUpsert
<1>5. QED
  BY <1>1, <1>2, <1>3, <1>4 DEF PresenceNext, LinkStep

\* What one step does to a handler that is under way.
Nearer(e) ==
  Under(e)
    => \/ UNCHANGED <<eventPc[e], todo[e], inserting[e]>>
       \/ todo'[e] \subseteq todo[e] /\ todo'[e] # todo[e]
       \/ /\ todo'[e] = todo[e]
          /\ inserting'[e] \subseteq inserting[e] /\ inserting'[e] # inserting[e]
       \/ eventPc'[e] = "done"

LEMMA HandlerStepNearer ==
  ASSUME PresenceInv, NeverStuck, NEW e \in Events, HandlerStep(e)
  PROVE  NeverStuck' /\ \A x \in Events : Nearer(x)
<1>t. EventTypes
  BY TypeParts DEF PresenceInv
<1>1. eventPc[e] = "lookup" => inserting[e] = {}
  BY DEF PresenceInv, EventInv, Covered
<1>2. eventPc[e] = "lookup" => todo[e] # {}
  BY DEF NeverStuck
<1>3. \A x \in Events \ {e} : UNCHANGED <<eventPc[x], todo[x], inserting[x]>>
  BY <1>t DEF HandlerStep, ScopesRead, ReadRejected, RowInserted, InsertRejected, Forwarded,
              EventTypes
<1> DEFINE Fine == /\ eventPc'[e] = "lookup" => todo'[e] # {}
                   /\ eventPc'[e] = "insert" => inserting'[e] # {}
                   /\ Nearer(e)
<1>4. Fine
  <2>1. ASSUME NEW c \in Contacts, ScopesRead(e, c) PROVE Fine
    <3> DEFINE scopes == {t \in active : t[2] = c}
    <3>1. /\ todo'[e] = todo[e] \ {c} /\ c \in todo[e] /\ inserting'[e] = scopes
          /\ eventPc'[e] = IF scopes = {} THEN AfterContact(todo'[e]) ELSE "insert"
      BY <2>1, <1>t DEF ScopesRead, EventTypes
    <3>2. QED
      BY <3>1 DEF AfterContact, Nearer
  <2>2. CASE ReadRejected(e)
    BY <2>2, <1>t, <1>2 DEF ReadRejected, EventTypes, Nearer
  <2>3. ASSUME NEW t \in Targets, RowInserted(e, t) PROVE Fine
    <3>1. /\ t \in inserting[e] /\ inserting'[e] = inserting[e] \ {t} /\ todo'[e] = todo[e]
          /\ eventPc'[e] = IF eventPc[e] = "insert" /\ inserting'[e] = {}
                             THEN AfterContact(todo[e]) ELSE eventPc[e]
      BY <2>3, <1>t DEF RowInserted, EventTypes
    <3>2. eventPc[e] # "lookup"
      BY <1>1, <3>1
    <3>3. QED
      BY <3>1, <3>2 DEF AfterContact, Nearer
  <2>4. ASSUME NEW t \in Targets, InsertRejected(e, t) PROVE Fine
    <3>1. /\ t \in inserting[e] /\ inserting'[e] = inserting[e] \ {t} /\ todo'[e] = {}
          /\ eventPc'[e] = IF eventPc[e] = "insert" THEN "recorded" ELSE eventPc[e]
      BY <2>4, <1>t DEF InsertRejected, EventTypes
    <3>2. eventPc[e] # "lookup"
      BY <1>1, <3>1
    <3>3. QED
      BY <3>1, <3>2 DEF Nearer
  <2>5. CASE Forwarded(e)
    BY <2>5, <1>t DEF Forwarded, EventTypes, Nearer
  <2>6. QED
    BY <2>1, <2>2, <2>3, <2>4, <2>5 DEF HandlerStep
<1>5. NeverStuck'
  BY <1>3, <1>4 DEF NeverStuck
<1>6. \A x \in Events : Nearer(x)
  BY <1>3, <1>4 DEF Nearer
<1>7. QED
  BY <1>5, <1>6

LEMMA StepNearer ==
  ASSUME PresenceInv, NeverStuck, [PresenceNext]_presenceVars
  PROVE  NeverStuck' /\ \A x \in Events : Nearer(x)
<1>t. EventTypes
  BY TypeParts DEF PresenceInv
<1>1. CASE UNCHANGED <<eventPc, todo, inserting>>
  BY <1>1 DEF NeverStuck, Nearer
<1>2. CASE PresenceCrash
  BY <1>2, <1>t DEF PresenceCrash, EventTypes, NeverStuck, Nearer, Under
<1>3. ASSUME NEW e \in Events, NEW C \in (SUBSET Contacts) \ {{}}, HandlerStarts(e, C)
      PROVE  NeverStuck' /\ \A x \in Events : Nearer(x)
  <2>1. /\ eventPc[e] = "new" /\ eventPc'[e] = "lookup" /\ todo'[e] = C
        /\ \A x \in Events \ {e} : UNCHANGED <<eventPc[x], todo[x], inserting[x]>>
    BY <1>3, <1>t DEF HandlerStarts, EventTypes
  <2>2. QED
    BY <2>1 DEF NeverStuck, Nearer, Under
<1>4. ASSUME NEW e \in Events, HandlerStep(e)
      PROVE  NeverStuck' /\ \A x \in Events : Nearer(x)
  BY <1>4, HandlerStepNearer
<1>5. \/ UNCHANGED <<eventPc, todo, inserting>>
      \/ PresenceCrash
      \/ \E e \in Events, C \in (SUBSET Contacts) \ {{}} : HandlerStarts(e, C)
      \/ \E e \in Events : HandlerStep(e)
  BY HandlersMove
<1>6. QED
  BY <1>1, <1>2, <1>3, <1>4, <1>5

\* recordPresenceEvidence and recordMessageEvent: whatever is rejected and whoever
\* asked, a handler that is recording waits for something that will be answered.
THEOREM HandlersNeverStuck == PresenceSpec => []NeverStuck
<1>1. PresenceInit => NeverStuck
  BY DEF PresenceInit, NeverStuck
<1>2. PresenceInv /\ NeverStuck /\ [PresenceNext]_presenceVars => NeverStuck'
  BY StepNearer
<1>3. QED
  BY <1>1, <1>2, PresenceInvariant, PTL DEF PresenceSpec

\* And every answer brings it nearer to forwarding its event, for any number of contacts,
\* targets and handlers.
THEOREM HandlersRunDown == PresenceSpec => HandlerRunsDown
<1>1. PresenceInv /\ NeverStuck /\ [PresenceNext]_presenceVars
        => [\A e \in Events :
              Under(e)
                => \/ UNCHANGED <<eventPc[e], todo[e], inserting[e]>>
                   \/ todo'[e] \subseteq todo[e] /\ todo'[e] # todo[e]
                   \/ /\ todo'[e] = todo[e]
                      /\ inserting'[e] \subseteq inserting[e] /\ inserting'[e] # inserting[e]
                   \/ eventPc'[e] = "done"]_presenceVars
  BY StepNearer DEF Nearer
<1>2. QED
  BY <1>1, PresenceInvariant, HandlersNeverStuck, PTL DEF PresenceSpec, HandlerRunsDown

===============================================================================
