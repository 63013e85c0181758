------------------------------ MODULE ConciergeProofs ------------------------------
(***************************************************************************)
(* For any branches, numbers and requests: the inbox never claims an       *)
(* answer nobody gave, and a customer is answered from the number they     *)
(* wrote to.                                                               *)
(***************************************************************************)
EXTENDS Concierge, TLAPS

\* A stored event is filed under a branch of its own tenant.
FiledUnderTenant ==
  \A m \in Messages : m[1] \in Accounts /\ inbox[m] # "absent" =>
    \E branch \in Branches :
      branch.branchId = filed[m] /\ branch.tenantId = TenantOf[m[1]]

NothingElseFiled == \A m \in Messages : inbox[m] = "absent" => filed[m] = None

\* What a request has done by the time it gets somewhere.
Done(r) ==
  /\ replyPc[r] = "new"            => ~sent[r] /\ outbox[r] = {}
  /\ replyPc[r] = "send"           => ~sent[r] /\ outbox[r] = {} /\ answering[r].mode = "live"
  /\ replyPc[r] = "record"         => sent[r] /\ outbox[r] = {}
  /\ replyPc[r] = "mark"           => sent[r] /\ outbox[r] = {"sent"}
  /\ replyPc[r] = "fail"           => outbox[r] \subseteq {"sent"}
  /\ replyPc[r] = "simulate"       => ~sent[r] /\ outbox[r] = {}
  /\ replyPc[r] = "mark_simulated" => ~sent[r] /\ outbox[r] = {"simulated"}

Progress ==
  \A r \in Replies : Done(r) /\ (replyPc[r] # "new" => answering[r] \in Branches)

ConciergeInv ==
  /\ ConciergeTypeOK
  /\ FiledUnderTenant /\ NothingElseFiled
  /\ Progress /\ RecordIsTrue /\ RepliedWasAnswered

-----------------------------------------------------------------------------
\* The fields of a branch.
LEMMA BranchFields ==
  ASSUME NEW branch \in Branches
  PROVE  /\ branch.branchId \in BranchIds /\ branch.branchId # None
         /\ branch.waAccountId \in Accounts \cup {None}
         /\ branch.mode \in {"test", "live"}
<1> DEFINE Record == [branchId : BranchIds, tenantId : {b.tenantId : b \in Branches},
                      waAccountId : Accounts \cup {None}, mode : {"test", "live"}]
<1>1. PICK config \in Configurations : \E i \in DOMAIN config : branch = config[i]
  BY DEF Branches, BranchesIn
<1>2. config \in Seq(Record)
  BY ConfigurationsAssumption
<1>3. branch \in Record
  <2> HIDE DEF Record
  <2>1. QED
    BY <1>1, <1>2
<1>4. QED
  BY <1>3, AccountsAssumption

LEMMA LoadedAreBranches ==
  ASSUME ConciergeTypeOK, NEW branch \in BranchesIn(branches)
  PROVE  branch \in Branches
BY DEF ConciergeTypeOK, Branches

\* What resolveBranch returns is of the event's tenant.
LEMMA ResolvedIsOfTenant ==
  ASSUME ConciergeTypeOK, NEW account \in Accounts, NEW branch \in ResolveBranch(account)
  PROVE  branch \in Branches /\ branch.tenantId = TenantOf[account]
<1>1. branch \in BranchesIn(branches) /\ Matches(branch, account)
  BY DEF ResolveBranch, BranchesIn
<1>2. branch \in Branches
  BY <1>1, LoadedAreBranches
<1>3. branch.waAccountId = account => branch.tenantId = TenantOf[account]
  BY <1>2, BootstrapAssumption, AccountsAssumption
<1>4. QED
  BY <1>1, <1>2, <1>3 DEF Matches

LEMMA InitHolds == ConciergeInit => ConciergeInv
<1> SUFFICES ASSUME ConciergeInit PROVE ConciergeInv
  OBVIOUS
<1>1. ConciergeTypeOK
  BY ConciergeBoundsAssumption DEF ConciergeInit, ConciergeTypeOK, LoadBranches
<1>2. FiledUnderTenant /\ NothingElseFiled /\ Progress /\ RecordIsTrue /\ RepliedWasAnswered
  BY DEF ConciergeInit, FiledUnderTenant, NothingElseFiled, Progress, Done, RecordIsTrue,
         RepliedWasAnswered
<1>3. QED
  BY <1>1, <1>2 DEF ConciergeInv

\* A message is stored under a branch that loads, of its tenant if it came from a number.
LEMMA IngestKeepsInv ==
  ASSUME ConciergeInv, NEW m \in Messages, NEW branch \in Branches,
         m[1] \in Accounts => branch.tenantId = TenantOf[m[1]],
         IngestInbound(m, branch.branchId)
  PROVE  ConciergeInv'
<1> USE DEF IngestInbound, StoreInbound, replyVars
<1>1. branch.branchId \in BranchIds
  BY BranchFields
<1>2. ConciergeTypeOK'
  BY <1>1 DEF ConciergeInv, ConciergeTypeOK
<1>3. \A n \in Messages : \/ inbox'[n] = inbox[n] /\ filed'[n] = filed[n]
                          \/ /\ n = m /\ inbox[n] = "absent" /\ inbox'[n] = "pending"
                             /\ filed'[n] = branch.branchId
  BY DEF ConciergeInv, ConciergeTypeOK
<1>4. FiledUnderTenant' /\ NothingElseFiled'
  BY <1>3 DEF ConciergeInv, FiledUnderTenant, NothingElseFiled
<1>5. Progress' /\ RecordIsTrue'
  BY DEF ConciergeInv, Progress, Done, RecordIsTrue
<1>6. RepliedWasAnswered'
  BY <1>3 DEF ConciergeInv, RepliedWasAnswered
<1>7. QED
  BY <1>2, <1>4, <1>5, <1>6 DEF ConciergeInv

LEMMA EventKeepsInv ==
  ASSUME ConciergeInv, NEW m \in Messages, OperatorEvent(m) \/ TestInbound(m)
  PROVE  ConciergeInv'
<1>1. CASE OperatorEvent(m)
  <2>1. PICK branch \in ResolveBranch(m[1]) : IngestInbound(m, branch.branchId)
    BY <1>1 DEF OperatorEvent
  <2>2. branch \in Branches /\ branch.tenantId = TenantOf[m[1]]
    BY <1>1, ResolvedIsOfTenant DEF OperatorEvent, ConciergeInv
  <2>3. QED
    BY <2>1, <2>2, IngestKeepsInv
<1>2. CASE TestInbound(m)
  <2>1. PICK branch \in BranchesIn(branches) : branch.branchId = m[1]
    BY <1>2 DEF TestInbound
  <2>2. branch \in Branches /\ m[1] \in BranchIds
    BY <2>1, LoadedAreBranches, BranchFields DEF ConciergeInv
  <2>3. QED
    BY <1>2, <2>1, <2>2, AccountsAssumption, IngestKeepsInv DEF TestInbound
<1>3. QED
  BY <1>1, <1>2

LEMMA StatusKeepsInv ==
  ASSUME ConciergeInv, NEW m \in Messages, NEW status \in {"pending", "replied", "archived"},
         SetMessageStatus(m, status)
  PROVE  ConciergeInv'
<1> USE DEF SetMessageStatus, replyVars
<1>1. ConciergeTypeOK'
  BY DEF ConciergeInv, ConciergeTypeOK
<1>2. \A n \in Messages : inbox'[n] = inbox[n] \/ (n = m /\ inbox[n] # "absent" /\ inbox'[n] = status)
  BY DEF ConciergeInv, ConciergeTypeOK
<1>3. FiledUnderTenant' /\ NothingElseFiled'
  BY <1>2 DEF ConciergeInv, FiledUnderTenant, NothingElseFiled
<1>4. Progress' /\ RecordIsTrue'
  BY DEF ConciergeInv, Progress, Done, RecordIsTrue
<1>5. RepliedWasAnswered'
  BY <1>2 DEF ConciergeInv, RepliedWasAnswered
<1>6. QED
  BY <1>1, <1>3, <1>4, <1>5 DEF ConciergeInv

LEMMA ReplyKeepsInv ==
  ASSUME ConciergeInv, NEW r \in Replies, NEW branch \in BranchesIn(branches), Reply(r, branch)
  PROVE  ConciergeInv'
<1> USE DEF Reply, Asked, inboxVars
<1>1. branch \in Branches /\ branch.mode \in {"test", "live"}
  BY LoadedAreBranches, BranchFields DEF ConciergeInv
<1>2. ConciergeTypeOK'
  BY <1>1 DEF ConciergeInv, ConciergeTypeOK
<1>3. /\ answering'[r] = branch /\ replyPc[r] = "new"
      /\ replyPc'[r] = IF branch.mode = "test" THEN "simulate" ELSE "send"
      /\ \A q \in Replies \ {r} : answering'[q] = answering[q] /\ replyPc'[q] = replyPc[q]
      /\ ~sent[r] /\ outbox[r] = {}
  BY DEF ConciergeInv, ConciergeTypeOK, Progress, Done
<1>4. FiledUnderTenant' /\ NothingElseFiled'
  BY DEF ConciergeInv, FiledUnderTenant, NothingElseFiled
<1>5. Progress' /\ RecordIsTrue'
  <2>1. \A q \in Replies \ {r} : Done(q)' /\ (replyPc'[q] # "new" => answering'[q] \in Branches)
    BY <1>1, <1>3 DEF ConciergeInv, Progress, Done
  <2>2. Done(r)' /\ (replyPc'[r] # "new" => answering'[r] \in Branches)
    <3>1. CASE branch.mode = "test"
      BY <1>1, <1>3, <3>1 DEF Done
    <3>2. CASE branch.mode = "live"
      BY <1>1, <1>3, <3>2 DEF Done
    <3>3. QED
      BY <1>1, <3>1, <3>2
  <2>3. RecordIsTrue'
    BY <1>1, <1>3 DEF ConciergeInv, Progress, Done, RecordIsTrue
  <2>4. QED
    BY <2>1, <2>2, <2>3 DEF Progress
<1>6. RepliedWasAnswered'
  BY <1>3 DEF ConciergeInv, RepliedWasAnswered
<1>7. QED
  BY <1>2, <1>4, <1>5, <1>6 DEF ConciergeInv

LEMMA SendKeepsInv ==
  ASSUME ConciergeInv, NEW r \in Replies, TextSent(r) \/ TextRefused(r)
  PROVE  ConciergeInv'
<1> USE DEF TextSent, TextRefused, inboxVars
<1>1. ConciergeTypeOK'
  BY DEF ConciergeInv, ConciergeTypeOK
<1>2. /\ replyPc[r] = "send" /\ replyPc'[r] \in {"record", "fail"}
      /\ replyPc'[r] = "record" => sent'[r]
      /\ sent'[r] => answering[r].waAccountId # None
      /\ \A q \in Replies \ {r} : replyPc'[q] = replyPc[q] /\ sent'[q] = sent[q]
      /\ answering[r].mode = "live" /\ outbox[r] = {}
  BY DEF ConciergeInv, ConciergeTypeOK, Progress, Done
<1>3. FiledUnderTenant' /\ NothingElseFiled' /\ RepliedWasAnswered'
  BY DEF ConciergeInv, FiledUnderTenant, NothingElseFiled, RepliedWasAnswered
<1>4. Progress' /\ RecordIsTrue'
  <2>1. ASSUME NEW q \in Replies \ {r}
        PROVE  Done(q)' /\ (replyPc'[q] # "new" => answering'[q] \in Branches)
    <3>1. Done(q) /\ (replyPc[q] # "new" => answering[q] \in Branches)
      BY DEF ConciergeInv, Progress
    <3>2. QED
      BY <1>2, <3>1 DEF Done
  <2>2. Done(r)' /\ (replyPc'[r] # "new" => answering'[r] \in Branches)
    BY <1>2 DEF ConciergeInv, Progress, Done
  <2>3. RecordIsTrue'
    BY <1>2 DEF ConciergeInv, Progress, Done, RecordIsTrue
  <2>4. QED
    BY <2>1, <2>2, <2>3 DEF Progress
<1>5. QED
  BY <1>1, <1>3, <1>4 DEF ConciergeInv

LEMMA StoredKeepsInv ==
  ASSUME ConciergeInv, NEW r \in Replies, OutboundStored(r)
  PROVE  ConciergeInv'
<1> USE DEF OutboundStored, inboxVars
<1>1. ConciergeTypeOK'
  BY DEF ConciergeInv, ConciergeTypeOK
<1>2. /\ \/ replyPc[r] = "record" /\ replyPc'[r] = "mark" /\ outbox'[r] = outbox[r] \cup {"sent"}
         \/ /\ replyPc[r] = "simulate" /\ replyPc'[r] = "mark_simulated"
            /\ outbox'[r] = outbox[r] \cup {"simulated"}
         \/ replyPc[r] = "fail" /\ replyPc'[r] = "done" /\ outbox'[r] = outbox[r] \cup {"failed"}
      /\ \A q \in Replies \ {r} : replyPc'[q] = replyPc[q] /\ outbox'[q] = outbox[q]
      /\ UNCHANGED <<answering, sent, inbox, filed, setByAgent>>
  BY DEF ConciergeInv, ConciergeTypeOK
<1>3. FiledUnderTenant' /\ NothingElseFiled'
  BY DEF ConciergeInv, FiledUnderTenant, NothingElseFiled
<1>4. RepliedWasAnswered'
  <2>1. \A q \in Replies : outbox[q] \subseteq outbox'[q]
    BY <1>2
  <2>2. QED
    BY <1>2, <2>1 DEF ConciergeInv, RepliedWasAnswered
<1>5. Progress' /\ RecordIsTrue'
  <2>1. ASSUME NEW q \in Replies \ {r}
        PROVE  Done(q)' /\ (replyPc'[q] # "new" => answering'[q] \in Branches)
    <3>1. Done(q) /\ (replyPc[q] # "new" => answering[q] \in Branches)
      BY DEF ConciergeInv, Progress
    <3>2. QED
      BY <1>2, <3>1 DEF Done
  <2>2. Done(r)' /\ (replyPc'[r] # "new" => answering'[r] \in Branches)
    BY <1>2 DEF ConciergeInv, Progress, Done
  <2>3. RecordIsTrue'
    <3>1. /\ "sent" \in outbox'[r] => sent'[r]
          /\ "simulated" \in outbox'[r] => ~sent'[r]
      BY <1>2 DEF ConciergeInv, Progress, Done, RecordIsTrue
    <3>2. QED
      BY <1>2, <3>1 DEF ConciergeInv, RecordIsTrue
  <2>4. QED
    BY <2>1, <2>2, <2>3 DEF Progress
<1>6. QED
  BY <1>1, <1>3, <1>4, <1>5 DEF ConciergeInv

LEMMA MarkKeepsInv ==
  ASSUME ConciergeInv, NEW r \in Replies, MarkConversationReplied(r)
  PROVE  ConciergeInv'
<1> USE DEF MarkConversationReplied
<1>1. ConciergeTypeOK'
  BY DEF ConciergeInv, ConciergeTypeOK
<1>2. \A m \in Messages :
        \/ inbox'[m] = inbox[m] /\ (m \in setByAgent => m \in setByAgent')
        \/ /\ inbox[m] = "pending" /\ inbox'[m] = "replied"
           /\ filed[m] = answering[r].branchId
  BY DEF Of
<1>3. outbox[r] \cap {"sent", "simulated"} # {}
  BY DEF ConciergeInv, Progress, Done
<1>4. FiledUnderTenant' /\ NothingElseFiled'
  BY <1>2 DEF ConciergeInv, FiledUnderTenant, NothingElseFiled
<1>5. RepliedWasAnswered'
  BY <1>2, <1>3 DEF ConciergeInv, RepliedWasAnswered
<1>6. /\ replyPc'[r] = "done"
      /\ \A q \in Replies \ {r} : replyPc'[q] = replyPc[q]
  BY DEF ConciergeInv, ConciergeTypeOK
<1>7. Progress' /\ RecordIsTrue'
  BY <1>6 DEF ConciergeInv, Progress, Done, RecordIsTrue
<1>8. QED
  BY <1>1, <1>4, <1>5, <1>7 DEF ConciergeInv

LEMMA FailKeepsInv ==
  ASSUME ConciergeInv, NEW r \in Replies, ReplyQueryFails(r)
  PROVE  ConciergeInv'
<1> USE DEF ReplyQueryFails, inboxVars
<1>1. ConciergeTypeOK'
  BY DEF ConciergeInv, ConciergeTypeOK
<1>2. /\ \/ replyPc[r] \in {"record", "mark"} /\ replyPc'[r] = "fail"
         \/ replyPc[r] \in {"fail", "simulate", "mark_simulated"} /\ replyPc'[r] = "done"
      /\ \A q \in Replies \ {r} : replyPc'[q] = replyPc[q]
  BY DEF ConciergeInv, ConciergeTypeOK
<1>3. FiledUnderTenant' /\ NothingElseFiled' /\ RepliedWasAnswered'
  BY DEF ConciergeInv, FiledUnderTenant, NothingElseFiled, RepliedWasAnswered
<1>4. Progress' /\ RecordIsTrue'
  BY <1>2 DEF ConciergeInv, Progress, Done, RecordIsTrue
<1>5. QED
  BY <1>1, <1>3, <1>4 DEF ConciergeInv

LEMMA CrashKeepsInv == ConciergeInv /\ ConciergeCrash => ConciergeInv'
<1> SUFFICES ASSUME ConciergeInv, ConciergeCrash PROVE ConciergeInv'
  OBVIOUS
<1> USE DEF ConciergeCrash, inboxVars
<1>1. PICK lost \in SUBSET {r \in Replies : replyPc[r] = "send" /\ answering[r].waAccountId # None} :
        sent' = [r \in Replies |-> sent[r] \/ r \in lost]
  BY Zenon
<1>2. \A r \in Replies : (sent[r] \/ r \in lost) \in BOOLEAN
  OBVIOUS
<1>3. ConciergeTypeOK'
  <2>1. sent' \in [Replies -> BOOLEAN]
    BY <1>1, <1>2, Zenon
  <2>2. branches' \in Configurations
    BY DEF LoadBranches
  <2>3. replyPc' \in [Replies -> {"new", "send", "record", "mark", "fail", "simulate",
                                  "mark_simulated", "done"}]
    BY DEF ConciergeInv, ConciergeTypeOK
  <2>4. crashes' \in 0..MaxCrashes
    BY ConciergeBoundsAssumption DEF ConciergeInv, ConciergeTypeOK
  <2>5. QED
    BY <2>1, <2>2, <2>3, <2>4 DEF ConciergeInv, ConciergeTypeOK
<1>4. FiledUnderTenant' /\ NothingElseFiled' /\ RepliedWasAnswered'
  BY DEF ConciergeInv, FiledUnderTenant, NothingElseFiled, RepliedWasAnswered
<1>5. ASSUME NEW r \in Replies
      PROVE  /\ replyPc'[r] = (IF replyPc[r] = "new" THEN "new" ELSE "done")
             /\ sent'[r] <=> sent[r] \/ r \in lost
             /\ r \in lost => replyPc[r] = "send" /\ answering[r].waAccountId # None
  BY <1>1
<1>6. Progress' /\ RecordIsTrue'
  BY <1>5 DEF ConciergeInv, Progress, Done, RecordIsTrue
<1>7. QED
  BY <1>3, <1>4, <1>6 DEF ConciergeInv

LEMMA StepKeepsInv == ConciergeInv /\ [ConciergeNext]_conciergeVars => ConciergeInv'
<1> SUFFICES ASSUME ConciergeInv, [ConciergeNext]_conciergeVars PROVE ConciergeInv'
  OBVIOUS
<1>1. ASSUME NEW r \in Replies, ReplyStep(r) PROVE ConciergeInv'
  BY <1>1, ReplyKeepsInv, SendKeepsInv, StoredKeepsInv, MarkKeepsInv, FailKeepsInv DEF ReplyStep
<1>2. CASE UNCHANGED conciergeVars
  <2>1. ConciergeTypeOK' /\ FiledUnderTenant' /\ NothingElseFiled' /\ RepliedWasAnswered'
    BY <1>2 DEF conciergeVars, inboxVars, replyVars, ConciergeInv, ConciergeTypeOK,
                FiledUnderTenant, NothingElseFiled, RepliedWasAnswered
  <2>2. Progress' /\ RecordIsTrue'
    BY <1>2 DEF conciergeVars, replyVars, ConciergeInv, Progress, Done, RecordIsTrue
  <2>3. QED
    BY <2>1, <2>2 DEF ConciergeInv
<1>3. QED
  BY <1>1, <1>2, EventKeepsInv, StatusKeepsInv, CrashKeepsInv DEF ConciergeNext

\* The inductive invariant holds in every state the concierge reaches.
THEOREM ConciergeInvariant == ConciergeSpec => []ConciergeInv
BY InitHolds, StepKeepsInv, PTL DEF ConciergeSpec

\* Type correctness: every stored message is filed under a branch.
THEOREM ConciergeTypes == ConciergeSpec => []ConciergeTypeOK
<1>1. ConciergeInv => ConciergeTypeOK
  BY DEF ConciergeInv
<1>2. QED
  BY <1>1, ConciergeInvariant, PTL

\* A message shows as replied only if its chat has a reply on record, or the agent
\* said so.
THEOREM RepliesWereGiven == ConciergeSpec => []RepliedWasAnswered
<1>1. ConciergeInv => RepliedWasAnswered
  BY DEF ConciergeInv
<1>2. QED
  BY <1>1, ConciergeInvariant, PTL

\* What is on record as sent was sent, and test branches reach nobody.
THEOREM RecordsAreTrue == ConciergeSpec => []RecordIsTrue
<1>1. ConciergeInv => RecordIsTrue
  BY DEF ConciergeInv
<1>2. QED
  BY <1>1, ConciergeInvariant, PTL

\* A customer is answered from the number they wrote to, whatever files the process
\* finds when it starts again.
THEOREM CustomersKnowTheNumber == ConciergeSpec => []AnsweredFromTheirNumber
<1>1. ConciergeInv => AnsweredFromTheirNumber
  <2> SUFFICES ASSUME ConciergeInv, NEW r \in Replies, NEW m \in Messages,
                      sent[r], m[1] \in Accounts, filed[m] = answering[r].branchId
               PROVE  answering[r].waAccountId = m[1]
    BY DEF AnsweredFromTheirNumber
  <2>1. answering[r] \in Branches /\ answering[r].waAccountId # None
    BY DEF ConciergeInv, Progress, Done, RecordIsTrue
  <2>2. answering[r].waAccountId \in Accounts /\ answering[r].branchId # None
    BY <2>1, BranchFields
  <2>3. inbox[m] # "absent"
    BY <2>2 DEF ConciergeInv, NothingElseFiled
  <2>4. PICK branch \in Branches : branch.branchId = filed[m] /\ branch.tenantId = TenantOf[m[1]]
    BY <2>3 DEF ConciergeInv, FiledUnderTenant
  <2>5. answering[r].tenantId = TenantOf[m[1]]
    BY <2>1, <2>4, BootstrapAssumption
  <2>6. answering[r].tenantId = TenantOf[answering[r].waAccountId]
    BY <2>1, BootstrapAssumption
  <2>7. QED
    BY <2>2, <2>5, <2>6, BootstrapAssumption
<1>2. QED
  BY <1>1, ConciergeInvariant, PTL

\* A redelivered event changes nothing that is stored.
THEOREM RedeliveriesHarmless == ConciergeSpec => RedeliveryHarmless
<1> DEFINE Harmless(m) ==
      inbox[m] # "absent" =>
        /\ notified'[m] = notified[m] /\ filed'[m] = filed[m]
        /\ inbox[m] # "pending" /\ inbox'[m] = "pending" => m \in setByAgent'
<1>1. ASSUME ConciergeTypeOK, [ConciergeNext]_conciergeVars, NEW m \in Messages PROVE Harmless(m)
  <2>1. ASSUME NEW n \in Messages, NEW branchId, IngestInbound(n, branchId) PROVE Harmless(m)
    <3>1. CASE n = m
      BY <1>1, <2>1, <3>1 DEF ConciergeTypeOK, IngestInbound, StoreInbound
    <3>2. CASE n # m
      <4>1. inbox'[m] = inbox[m] /\ filed'[m] = filed[m]
        <5>1. CASE inbox[n] = "absent"
          BY <1>1, <2>1, <3>2, <5>1 DEF ConciergeTypeOK, IngestInbound, StoreInbound
        <5>2. CASE inbox[n] # "absent"
          BY <2>1, <5>2 DEF IngestInbound, StoreInbound
        <5>3. QED
          BY <5>1, <5>2
      <4>2. notified'[m] = notified[m]
        BY <1>1, <2>1, <3>2 DEF ConciergeTypeOK, IngestInbound
      <4>3. QED
        BY <4>1, <4>2
    <3>3. QED
      BY <3>1, <3>2
  <2>2. ASSUME NEW n \in Messages, NEW status, SetMessageStatus(n, status) PROVE Harmless(m)
    BY <1>1, <2>2 DEF ConciergeTypeOK, SetMessageStatus
  <2>3. ASSUME NEW r \in Replies, ReplyStep(r) PROVE Harmless(m)
    BY <1>1, <2>3 DEF ConciergeTypeOK, ReplyStep, Reply, Asked, TextSent, TextRefused, OutboundStored,
                MarkConversationReplied, ReplyQueryFails, inboxVars
  <2>4. CASE ConciergeCrash \/ UNCHANGED conciergeVars
    BY <2>4 DEF ConciergeCrash, conciergeVars, inboxVars
  <2>5. QED
    BY <1>1, <2>1, <2>2, <2>3, <2>4 DEF ConciergeNext, OperatorEvent, TestInbound
<1>2. ConciergeTypeOK /\ [ConciergeNext]_conciergeVars
        => [\A m \in Messages : Harmless(m)]_conciergeVars
  BY <1>1
<1>3. QED
  BY <1>2, ConciergeTypes, PTL DEF ConciergeSpec, RedeliveryHarmless

================================================================================
