-------------------------------- MODULE Concierge --------------------------------
(***************************************************************************)
(* The restaurant concierge: its branches (restaurant-concierge/src/       *)
(* branches.ts), the messages it keeps in rc_messages (db.ts), the webhook *)
(* through which the operator delivers them, each at least once            *)
(* (routes/webhook.ts), and the agent's API to read, answer and archive    *)
(* them (routes/api.ts).                                                   *)
(*                                                                         *)
(* One customer writes to every number and to every branch in test mode;   *)
(* what the customer and a branch write to each other is a chat.  The      *)
(* operator, the notifier and the agent are external.  Between the awaits  *)
(* of one reply, webhook events, status changes and other replies are      *)
(* handled.                                                                *)
(***************************************************************************)
EXTENDS Naturals, FiniteSets, Sequences

CONSTANTS
  Configurations, \* what a process may find in its directory of branches
  Accounts,       \* waAccountIds of the events the operator forwards
  TenantOf,       \* and their tenantId
  PerChat,        \* messages to each number, and to each branch in test mode
  Replies,        \* identities of POST /v1/replies requests
  MaxCrashes,     \* bound on process exits
  DbMayFail       \* may a query be rejected?

\* waAccountId of a branch that has not been paired.
None == "none"

BranchesIn(config) == {config[i] : i \in DOMAIN config}
Branches  == UNION {BranchesIn(config) : config \in Configurations}
BranchIds == {branch.branchId : branch \in Branches}

ASSUME ConfigurationsAssumption ==
  Configurations \subseteq
    Seq([branchId : BranchIds, tenantId : {branch.tenantId : branch \in Branches},
         waAccountId : Accounts \cup {None}, mode : {"test", "live"}])

\* A branch names the tenant and the account of one bootstrap, and keeps its tenant;
\* a tenant has one number.
ASSUME BootstrapAssumption ==
  /\ \A branch \in Branches :
       branch.waAccountId # None => branch.tenantId = TenantOf[branch.waAccountId]
  /\ \A branch, other \in Branches :
       branch.branchId = other.branchId => branch.tenantId = other.tenantId
  /\ \A a, b \in Accounts : TenantOf[a] = TenantOf[b] => a = b

ASSUME AccountsAssumption == None \notin Accounts \cup BranchIds /\ Accounts \cap BranchIds = {}
ASSUME ConciergeBoundsAssumption ==
  PerChat \in Nat /\ MaxCrashes \in Nat /\ DbMayFail \in BOOLEAN

VARIABLES
  branches,    \* the branches of this process, in order
  inbox,       \* status of the 'in' row of each customer message
  filed,       \* its branch_id
  notified,    \* history: notifications begun for each message
  replyPc,     \* where each request is
  answering,   \* the branch it answers for
  seen,        \* history: pending messages of the chat when the request came in
  sent,        \* history: did the operator send the text?
  outbox,      \* statuses of the 'out' rows the request wrote
  setByAgent,  \* history: messages whose status the agent set last
  crashes      \* process exits so far

inboxVars     == <<inbox, filed, notified, setByAgent>>
replyVars     == <<replyPc, answering, seen, sent, outbox>>
conciergeVars == <<branches, inboxVars, replyVars, crashes>>

Messages == (Accounts \cup BranchIds) \X (1..PerChat)

\* The messages of the chat a request answers in.
Of(r) == {m \in Messages : filed[m] = answering[r].branchId}

NoBranch == [branchId |-> None, tenantId |-> None, waAccountId |-> None, mode |-> "test"]

ConciergeTypeOK ==
  /\ branches \in Configurations
  /\ inbox \in [Messages -> {"absent", "pending", "replied", "archived"}]
  /\ filed \in [Messages -> BranchIds \cup {None}]
  /\ \A m \in Messages : inbox[m] # "absent" => filed[m] \in BranchIds
  /\ notified \in [Messages -> Nat]
  /\ setByAgent \in SUBSET Messages
  /\ replyPc \in [Replies -> {"new", "send", "record", "mark", "fail", "simulate",
                              "mark_simulated", "done"}]
  /\ answering \in [Replies -> Branches \cup {NoBranch}]
  /\ seen \in [Replies -> SUBSET Messages]
  /\ sent \in [Replies -> BOOLEAN]
  /\ outbox \in [Replies -> SUBSET {"sent", "simulated", "failed"}]
  /\ crashes \in 0..MaxCrashes

\* Two branches with one id do not start; nor does a file the schema rejects, which is
\* no configuration here.
LoadBranches ==
  {config \in Configurations :
     \A i, j \in DOMAIN config : config[i].branchId = config[j].branchId => i = j}

ConciergeInit ==
  /\ branches \in LoadBranches
  /\ inbox = [m \in Messages |-> "absent"]
  /\ filed = [m \in Messages |-> None]
  /\ notified = [m \in Messages |-> 0]
  /\ setByAgent = {}
  /\ replyPc = [r \in Replies |-> "new"]
  /\ answering = [r \in Replies |-> NoBranch]
  /\ seen = [r \in Replies |-> {}]
  /\ sent = [r \in Replies |-> FALSE]
  /\ outbox = [r \in Replies |-> {}]
  /\ crashes = 0

-----------------------------------------------------------------------------
\* A branch that is still unpaired matches whatever number the event is for.
MatchesUnpaired(branch, account) ==
  \/ branch.tenantId = TenantOf[account]
  \/ branch.waAccountId \in {account, None}

Matches(branch, account) ==
  \/ branch.tenantId = TenantOf[account]
  \/ branch.waAccountId = account

\* resolveBranch: the first branch that matches, if any does.
ResolveBranch(account) ==
  {branches[i] : i \in {k \in DOMAIN branches :
                          /\ Matches(branches[k], account)
                          /\ \A j \in 1..(k - 1) : ~Matches(branches[j], account)}}

\* An insert that leaves the status to a default nobody reads.
StoreInboundAsNew(m, branchId) ==
  /\ inbox' = [inbox EXCEPT ![m] = IF @ = "absent" THEN "new" ELSE @]
  /\ filed' = [filed EXCEPT ![m] = IF @ = None THEN branchId ELSE @]

\* An insert that overwrites the row on conflict.
StoreInboundOver(m, branchId) ==
  /\ inbox' = [inbox EXCEPT ![m] = "pending"]
  /\ filed' = [filed EXCEPT ![m] = branchId]

\* storeInbound: a message whose WhatsApp id is in the table already inserts nothing.  Events
\* come with that id; a row without one would conflict with none.
StoreInbound(m, branchId) ==
  IF inbox[m] = "absent"
  THEN inbox' = [inbox EXCEPT ![m] = "pending"] /\ filed' = [filed EXCEPT ![m] = branchId]
  ELSE UNCHANGED <<inbox, filed>>

\* The row is stored, and if it is new the notification goes out, without being
\* waited for.
IngestInbound(m, branchId) ==
  /\ StoreInbound(m, branchId)
  /\ notified' = [notified EXCEPT ![m] = IF inbox[m] = "absent" THEN @ + 1 ELSE @]
  /\ UNCHANGED <<branches, setByAgent, replyVars, crashes>>

\* POST /webhooks/operator of a customer's message, for the first time or again; an
\* event of an unknown branch is acknowledged and ignored.
OperatorEvent(m) ==
  /\ m[1] \in Accounts
  /\ \E branch \in ResolveBranch(m[1]) : IngestInbound(m, branch.branchId)

\* POST /v1/test/inbound, whose message ids are new.
TestInbound(m) ==
  /\ inbox[m] = "absent"
  /\ \E branch \in BranchesIn(branches) : branch.branchId = m[1] /\ branch.mode = "test"
  /\ IngestInbound(m, m[1])

\* POST /v1/messages/:id/status, for the row of a customer's message.  The code would
\* take the id of a reply's row as well, which records how the sending went.
SetMessageStatus(m, status) ==
  /\ inbox[m] # "absent"
  /\ inbox' = [inbox EXCEPT ![m] = status]
  /\ setByAgent' = setByAgent \cup {m}
  /\ UNCHANGED <<branches, filed, notified, replyVars, crashes>>

-----------------------------------------------------------------------------
(* POST /v1/replies.                                                       *)

Asked(r, branch) ==
  /\ replyPc[r] = "new"
  /\ answering' = [answering EXCEPT ![r] = branch]
  /\ seen' = [seen EXCEPT ![r] =
                {m \in Messages : filed[m] = branch.branchId /\ inbox[m] = "pending"}]
  /\ UNCHANGED <<branches, inboxVars, sent, outbox, crashes>>

\* A request that does not look at the mode of the branch.
ReplyInAnyMode(r, branch) ==
  /\ Asked(r, branch)
  /\ replyPc' = [replyPc EXCEPT ![r] = "send"]

\* The request: test branches never reach the operator.
Reply(r, branch) ==
  /\ Asked(r, branch)
  /\ replyPc' = [replyPc EXCEPT ![r] = IF branch.mode = "test" THEN "simulate" ELSE "send"]

\* sendText resolves: the branch has been paired.
TextSent(r) ==
  /\ replyPc[r] = "send"
  /\ answering[r].waAccountId # None
  /\ replyPc' = [replyPc EXCEPT ![r] = "record"]
  /\ sent' = [sent EXCEPT ![r] = TRUE]
  /\ UNCHANGED <<branches, inboxVars, answering, seen, outbox, crashes>>

\* A request that goes on after a send that failed.
TextRefusedIgnored(r) ==
  /\ replyPc[r] = "send"
  /\ replyPc' = [replyPc EXCEPT ![r] = "mark"]
  /\ UNCHANGED <<branches, inboxVars, answering, seen, sent, outbox, crashes>>

\* sendText is rejected; the operator, if it was asked, may have sent the text all
\* the same.
TextRefused(r) ==
  /\ replyPc[r] = "send"
  /\ replyPc' = [replyPc EXCEPT ![r] = "fail"]
  /\ \E anyhow \in {FALSE, answering[r].waAccountId # None} : sent' = [sent EXCEPT ![r] = anyhow]
  /\ UNCHANGED <<branches, inboxVars, answering, seen, outbox, crashes>>

\* storeOutbound commits; what comes next depends on which of the three calls it was.
OutboundStored(r) ==
  \E step \in {[at |-> "record",   status |-> "sent",      next |-> "mark"],
               [at |-> "simulate", status |-> "simulated", next |-> "mark_simulated"],
               [at |-> "fail",     status |-> "failed",    next |-> "done"]} :
    /\ replyPc[r] = step.at
    /\ outbox' = [outbox EXCEPT ![r] = @ \cup {step.status}]
    /\ replyPc' = [replyPc EXCEPT ![r] = step.next]
    /\ UNCHANGED <<branches, inboxVars, answering, seen, sent, crashes>>

\* markConversationReplied: every message of the chat that is pending by now.
MarkConversationReplied(r) ==
  /\ replyPc[r] \in {"mark", "mark_simulated"}
  /\ LET marked == {m \in Of(r) : inbox[m] = "pending"} IN
       /\ inbox' = [m \in Messages |-> IF m \in marked THEN "replied" ELSE inbox[m]]
       /\ setByAgent' = setByAgent \ marked
  /\ replyPc' = [replyPc EXCEPT ![r] = "done"]
  /\ UNCHANGED <<branches, filed, notified, answering, seen, sent, outbox, crashes>>

\* A query of the request is rejected.  After a live send that leads to the write of
\* a 'failed' row, whatever was sent and stored before.
ReplyQueryFails(r) ==
  /\ DbMayFail
  /\ replyPc[r] \in {"record", "mark", "fail", "simulate", "mark_simulated"}
  /\ replyPc' = [replyPc EXCEPT ![r] = IF @ \in {"record", "mark"} THEN "fail" ELSE "done"]
  /\ UNCHANGED <<branches, inboxVars, answering, seen, sent, outbox, crashes>>

\* The process ends, also when the insert of a webhook event is rejected: nothing
\* catches that rejection.  The next one reads the branches again.
ConciergeCrash ==
  /\ crashes < MaxCrashes
  /\ crashes' = crashes + 1
  /\ branches' \in LoadBranches
  /\ \E lost \in SUBSET {r \in Replies : replyPc[r] = "send" /\ answering[r].waAccountId # None} :
       sent' = [r \in Replies |-> sent[r] \/ r \in lost]
  /\ replyPc' = [r \in Replies |-> IF replyPc[r] = "new" THEN "new" ELSE "done"]
  /\ UNCHANGED <<inboxVars, answering, seen, outbox>>

ReplyStep(r) ==
  \/ \E branch \in BranchesIn(branches) : Reply(r, branch)
  \/ TextSent(r) \/ TextRefused(r) \/ OutboundStored(r)
  \/ MarkConversationReplied(r) \/ ReplyQueryFails(r)

ConciergeNext ==
  \/ \E m \in Messages :
       \/ OperatorEvent(m) \/ TestInbound(m)
       \/ \E status \in {"pending", "replied", "archived"} : SetMessageStatus(m, status)
  \/ \E r \in Replies : ReplyStep(r)
  \/ ConciergeCrash

ConciergeSpec == ConciergeInit /\ [][ConciergeNext]_conciergeVars

-----------------------------------------------------------------------------
(* Properties.                                                             *)

\* A customer is not told apart from one who was answered: a message that shows as
\* replied, other than by the agent's own hand, has a reply to its chat on record.
RepliedWasAnswered ==
  \A m \in Messages \ setByAgent :
    inbox[m] = "replied" =>
      \E r \in Replies : filed[m] = answering[r].branchId /\ outbox[r] \cap {"sent", "simulated"} # {}

\* What is on record as sent was sent, and nothing was for a branch that was in test
\* mode or unpaired when the agent replied.
RecordIsTrue ==
  \A r \in Replies :
    /\ "sent" \in outbox[r] => sent[r]
    /\ sent[r] => answering[r].mode = "live" /\ answering[r].waAccountId # None
    /\ "simulated" \in outbox[r] => ~sent[r]

\* A customer is answered from the number they wrote to: an event is filed under a
\* branch of its own tenant even while that branch is unpaired, and stays in the chat
\* the agent answers after restarts with other files.
AnsweredFromTheirNumber ==
  \A r \in Replies, m \in Messages :
    sent[r] /\ m[1] \in Accounts /\ filed[m] = answering[r].branchId
      => answering[r].waAccountId = m[1]

\* A redelivered event neither reopens a message that was dealt with, nor notifies
\* the agent again, nor moves it to another branch when the files have changed.
RedeliveryHarmless ==
  [][\A m \in Messages :
       inbox[m] # "absent" =>
         /\ notified'[m] = notified[m] /\ filed'[m] = filed[m]
         /\ inbox[m] # "pending" /\ inbox'[m] = "pending" => m \in setByAgent']_conciergeVars

\* restaurant-concierge/README.md: the pending inbox always has the truth.  A message
\* that came in after the agent wrote the reply is not taken off it unread.
PendingInboxIsTrue ==
  [][\A r \in Replies, m \in Messages :
       replyPc[r] \in {"mark", "mark_simulated"} /\ replyPc'[r] = "done"
         /\ inbox[m] = "pending" /\ inbox'[m] = "replied"
           => m \in seen[r]]_conciergeVars

=============================================================================
