# Formal model of the WhatsApp operator and the restaurant concierge

This directory holds TLA+ modules, TLC configurations and TLAPS proofs about two programs of
this repository:

- `whatsapp-operator` keeps the WhatsApp sessions of many accounts in one Node process, pairs
  them by QR code or phone code, and delivers incoming messages to the webhooks of applications;
- `restaurant-concierge` is one of those applications: it stores customer messages, tells an
  agent about them, and sends the agent's replies through the operator.

Both are single-threaded JavaScript. Nothing runs in parallel, but every `await` is a point where
any other handler, timer or request may run, and the database, the WhatsApp library and the
webhooks answer in any order or not at all. All the hard behaviour is in those interleavings, in
the process ending between two steps, and in calls that fail half way. **An action of a module
is one stretch of code between two awaits**; what follows an await is an action of its own.

## Inventory

| Part | State it keeps | Operations | Modelled in |
|---|---|---|---|
| Socket lifecycle (`whatsapp/session-manager.ts`, `auth-state.ts`) | maps `sockets`, `startingSessions`, `stopping`; reconnect timers; `wa_sessions` | `startSession`, `shutdownSession`, `stopSession`, `resetSession`, handlers of `connection.update` and `creds.update`, `restoreConnectableSessions` | `SessionLifecycle`, `ReplacedHistory` |
| Account row, QR and pairing codes (same file, `routes/accounts.ts`) | `wa_accounts` row, `qrReadyAccounts`, `qrExpiryTimers`, `pairingModeRequested`, `pairingCodeRequests`, `pairingCodes` | QR handler, expiry timers, `requestPairingCode`, connect / pairing-code / disconnect / reset routes | `SessionManager` |
| Inbound messages (`messages.upsert`, `webhook/forward.ts`, `demo/never-miss-a-job.ts`) | running handlers, attempts, `wa_webhook_dead_letters`, `lastReplyAt` | batch loop, `forwardEvent`, `deliverWithRetry`, demo reply | `InboundMessages`, `EventDelivery` |
| Concierge (`restaurant-concierge/src`) | `rc_messages`; the branches, read from files at start | `loadBranches`, `resolveBranch`, webhook, replies, message status, test inbound | `Concierge` |
| Tenant credentials and account access (`routes/accounts.ts`, `db/accounts.ts`, `middleware/account-access.ts`, start of `index.ts`) | `wa_accounts`, `wa_tenant_credentials`, `wa_account_bindings` | create, bootstrap, issue, rotate, reconcile at start-up, access check | `TenantAccess` |
| Presence intelligence (`db/presence-intelligence.ts`, `routes/presence.ts`, handlers of `presence.update` and `messages.upsert`) | `wa_presence_targets`, `wa_presence_observations`, `wa_message_events`; subscriptions of a socket | enable and disable a target, `recordPresenceUpdate`, `recordMessageEvent`, response times of the report | `PresenceIntelligence` |
| MCP OAuth (`mcp/oauth.ts`, `routes/mcp.ts`) | `mcp_oauth_codes`, `mcp_oauth_tokens` | authorize, exchange, refresh, check of an access token | `OAuthTokens` |
| Send, media, call, message routes; signatures; schema; console page | none of their own | one library call or one query each | not modelled |

How they interact: routes, timers and the boot list call into the session manager; the library
calls back with events of a socket; the session manager writes the account row, which the routes
read later; `messages.upsert` reads the bindings and posts to webhooks; the concierge's webhook
is such a binding, and its replies come back through the operator's `/send`. The account row and
the credentials are all that survives a process.

What makes each part correct, and what is hard about it:

- *Lifecycle*: one startup at a time although five callers may ask; the close of an old socket
  must not touch its successor; a mark, a map entry or a timer left behind keeps a session down or
  brings it up against somebody's will; credentials must survive everything but a logout.
- *QR and pairing codes*: timers capture sockets that may have been replaced when they fire; a
  request lives through refreshes and closes; one flag and one map are shared by all requests.
- *Inbound*: order within a batch, retries, the last attempt, dead letters that cannot be stored,
  answers that are lost, bindings that change between messages, a process that ends with deliveries in its memory.
- *Tenant access*: every route is a chain of reads and writes of rows that other requests change
  in between; a chain may break after any of its writes. Several applications may share an account,
  but only if the operator's configuration puts them there; a request names an account by its id or
  by a label, which need not be unique, and each query looks that name up again.
- *Concierge*: redelivered events, a reply in flight while messages arrive, queries that fail
  after the text was sent; branches that are paired and go live between two starts, while the
  messages filed under them stay.
- *Presence*: rows are written on a list of targets read before, for many targets at once, and one
  rejected query must cost neither the event nor the rows of others; a subscription belongs to a
  socket and a target does not; reports count what redelivery may double.
- *OAuth*: a refresh reads, revokes and replaces in three queries.

`PROJECT.json` lists these as hazards, each at its line with the properties that cover it.

## Modules

### SessionLifecycle

The skeleton of `session-manager.ts` for one account. No handler touches two accounts and every
map is keyed by the account, so one account is the whole component; a process exit is the only
event accounts share.

| Code | Model |
|---|---|
| `sockets.get(id)` | `current` |
| a `WASocket` object: its connection, its creds object | `conn[s]`, `registered[s]` |
| `startingSessions.get(id)`, runs of `startSessionInternal` | `starting`, `startPc`, `startCreds` |
| `stopping.has(id)`, runs of `stopSession` | `stopping`, `stopPc`, `stopSock` |
| a close handler after its first await | `closeStep[s]`, `closeKind[s]` |
| `setTimeout(startSession, 5000)` | `reconnects`: how many are pending; nothing cancels one |
| `restoreConnectableSessions` | `bootPc` |
| the `creds` row of `wa_sessions`, `saveCreds` in flight | `stored`, `saving` |

Identities of sockets, startups and stops are reused once nothing in the program refers to them
(`Free`), so a small set is not a bound on how many there are over time but on how many
exist at once. `rejected` is a history variable: the sockets whose `logout()` was rejected.

About the library (external) it is assumed that a socket closes once, that a `close` or `open`
follows `pair-success`, and that `logout()` either ends the socket, which runs its close handler
there and then, or rejects with the connection still up. The latter is possible for a paired socket
only, whose unlink request has to be sent; the switch `LogoutMayReject` allows it. `DbMayFail`
allows the queries of starts and stops to be rejected. A rejected query in an event handler is an
unhandled rejection: the process ends, which is `Restart`. A query in flight at an exit has either
committed (the action that says so comes first) or is lost; one that PostgreSQL commits after the
next process has read the row is left out. `BootList` finds any `creds` row, also one of a device
that never finished pairing.

### ReplacedHistory

Adds to `SessionLifecycle` one history variable: was the last close that was handled a replacement
by another client, with nobody asking for a session since?

### SessionManager

`SessionLifecycle` and everything else the same handlers do: the account row (`row`: status,
connected, has a QR), the QR handler with its two awaits (`qrStep`) and its expiry timer
(`qrTimer`, the socket it captured), pairing requests (`pairPc`, `pairSock`, `pairCode`), the
active code and the expiry timers of codes, and the routes that read the row in one step and
act on it in another (`ConnectRead`, then `ConnectStart` or `ConnectRefresh`; `PairingAsked`,
then `PairingJoined` or `PairingRequest`). Each action is the lifecycle action of the same handler
conjoined with what the handler does besides, so the refinement `ImplementsLifecycle` needs no
mapping beyond the shared variables; what it says is that none of the added handlers (QR, timers,
pairing, row writes) moves a socket or a credential, and it is checked by TLC and proved.

Phone numbers are left out (a request for another number than the active code's is refused, which
changes nothing), and so is the text of codes: a code is an identity. Two things are assumed of the
library: the QR codes of a socket come `qrTimeout` (20 s) apart, so that the handler of one is over
before the next (`QrEvent`), and a request for a pairing code pending on a connection that closes is
rejected, not answered (`PairingCodeIssued`).

### EventDelivery, InboundMessages

`EventDelivery` is the promise: an event addressed to a binding may be handled any number of times
and ends `delivered`, `dead_letter` or `lost`, for good. `InboundMessages` is the code:
`handlerPc`/`at` follow the loop of each `messages.upsert` handler, `deliveryPc`/`attempt` each
`deliverWithRetry`. `outcome` is the same variable in both; `handled` is history (has the
application seen it?), which no code reads. A refused or unanswered POST may or may not have been
handled; and an application may come to handle an event that was POSTed to it only when the `fetch`
has given up, or the process is gone (`HandledLate`). `Promise.all` is modelled as it is: it settles
when all deliveries have, or at once when one is rejected, which happens only when a dead letter cannot be stored. The bindings of a message
are whatever set its query returns (`BindingsRead`), so that any change of them between two messages
is covered. The events of receipts, reactions, contacts, groups and calls go through the same
`forwardEvent` one at a time and add no behaviour.

`Abstract` in `InboundMessages` instantiates `EventDelivery` with `handled` and `outcome`;
`ImplementsDelivery` is checked by TLC and proved.

### Concierge

The branches, `rc_messages` and the handlers that write it. `branches` is the list `loadBranches`
made of the directory when the process started (a file is one record: id, tenant, account, mode);
`Configurations` says what a start may find there, and `ConciergeCrash` reads it again.
`ResolveBranch` is the loop of `resolveBranch`: the first branch whose tenant or account matches.
`inbox` and `filed` are the status and the `branch_id` of each customer message's row; `replyPc`
and `answering` follow one `POST /v1/replies` through its awaits with the branch it found; `outbox`
are the rows it wrote. History: `notified`, `seen` (what was pending when the reply was asked for),
`sent` (did the operator send the text?), `setByAgent` (status set by hand). Left out are
events without a WhatsApp id, whose rows conflict with none (`db.ts:61`), and a status set by hand on
the row of a reply: `RecordIsTrue` speaks of what the reply itself recorded.

`BootstrapAssumption` says which directories there are: tenant and account of a branch come from one
bootstrap (`branches.ts:27`, "tenantId must equal the tenantId used in /accounts/bootstrap"), a branch
keeps its tenant, and a tenant has one number. Without it `resolveBranch` may file a message under a
branch that answers from another number, because an account match early in the list wins over a
tenant match further down. A message of an unpaired branch is filed by its tenant alone, and the
reply is refused until the branch has an account: that the account is then the number the customer
wrote to is `AnsweredFromTheirNumber`.

### PresenceIntelligence

| Code | Model |
|---|---|
| the socket `getSocket` returns, whether it is open, its subscriptions | `socket` (a number), `link`, `subscribed` |
| rows of `wa_presence_targets` with `is_active` | `active`, of pairs scope and contact |
| `POST /targets` after `getSocket`, after `presenceSubscribe` | `enablePc`, `enableOn` |
| a handler in `recordPresenceUpdate` or `recordMessageEvent` | `eventPc`, `todo`: contacts not looked up |
| `INSERT`s under way, also those of a handler that gave up or a process that ended | `inserting` |
| `wa_presence_observations`, `wa_message_events` | `rows`: how many, per event or message and target |
| `pendingOutbound`, `responseMinutes` of the report | `pending`, `measured` |

The rows a report reads are chosen as its loop gets to them: what the loop does with a row does not
depend on later ones, so this gives the same reports as choosing all rows first. Identities of rows
stand for `responseMinutes` entries, which keeps two equal response times apart. `Percentile` is
translated literally except that ranks count from one and `p` is in hundredths; `Ascending` is the
sorted copy it takes, defined as an arrangement that ascends, whichever sort finds it. A message the account
itself sent is recorded like the others and then skipped, not forwarded (`session-manager.ts:402-414`);
`Forwarded` stands for both. A message without an id, which the code makes
one for from its time and direction (`presence-intelligence.ts:260`), is left out. History: `ever` and
`always` (targets active at some time, or throughout, while the handler was at its queries),
`failed`, `enabledOn`, `about`.

### OAuthTokens

Codes, pairs of tokens and token requests. `ExchangeCode` is one action because the code is
consumed by one `DELETE ... RETURNING`; a refresh is three (`RefreshRead`, `RefreshRevoked`,
`IssueTokens`), and `GrantFails` breaks it off at each. `origin` is history: the authorization
code a pair goes back to. `raced` is history: codes one of whose pairs was being refreshed by two
requests at once, both of which the code lets through. Scopes, redirect URIs,
verifiers and client secrets are compared, never changed, and are left out, as are the identities of
clients: the exchange of a code compares them, a refresh authenticates the client that asks and does
not compare it with the pair's. Left out too are refused
requests, except the one with a wrong verifier, which has consumed its code.

### TenantAccess

All state is rows, so an action is one query and what the handler does until its next one.
`pc`, `todo` and `account` follow a provisioning request (`POST /accounts`, `/accounts/bootstrap`,
`/accounts/tenant-token`, or `reconcileBaronBinding`) through its queries; `ProvisionFails` breaks it
off at any of them, which is also what a process exit does to it. `access` follows
a tenant's request through its three reads: the scope of the token, the bindings of the account
(`RequireAccountAccess`), and the route's own `getAccount` (`AccountFound`), each an action. A token
is the identity of the request that stored it; hashes are left out because equal
hashes mean equal tokens. History: `latest`, the token stored
last for a scope, and `hadToken`, `wasBound`, `replaced`, what was the case when
a request came in. The reconciliation ends before the server listens, hence `Listening`.

A name is an id or a label (`Identifiers`). Whoever creates an account labels it, with a default all
bootstraps share (`routes/accounts.ts:114`), with another account's id, or with what
`BARON_WA_ACCOUNT_ID` says; the schema does not make labels unique. `Named` is the condition both
look-ups have, `id::text = $1 OR label = $1`: the access check asks for a binding of any account so
named, `GetAccount` takes the account with that id, else any one with that label. The reconciliation
looks its account up the same way and may find one another tenant has made, or already has.

So an account can have two scopes, and is meant to be able to: `restaurant-concierge/src/operator.ts:30`
counts on bindings of other applications on the same number. `SharedByReconciliation` says how a second
one may get there: by the reconciliation, whose account is the configuration's choice, and never by
bootstraps and creations that race, fail or repeat. Its one exception is an account whose id somebody
gave to another account as a label: bootstrap looks through the accounts by id, and finds the other's
binding under it.

`GrantedToOwner` says that what a granted request acts on is bound to the scope of its token, as
`whatsapp-operator/README.md:161` has it for the requested `waAccountId`. Check and route look the
account up separately, with accounts created in between. The property speaks of names that are one
account's. For a label that several have it fails, in the model as in the code: the check passes
through the caller's own account and `getAccount` may take another. The README's sentence is about ids,
so this is listed as a hazard (`db/accounts.ts:172`) and not as a finding.

The `startSession` at the end of bootstrap and of the
reconciliation is `ConnectSession` of `SessionLifecycle`.

### MC modules and proofs

The `MC` modules add symmetry sets, values of constants and, for `MCSession` and `MCPresence`, the
constraints. The eight `...Proofs` modules hold the theorems: one module per component, and
`PercentileProofs` for the sorting argument under the percentiles of a report.

Operators whose comments begin with "A ... that ..." just before the definition they vary
(`OnCloseUnguarded`, `ShutdownKeepsOpen`, `RefusedOffByOne`, ...) are deliberate faults: each is put in
place of that definition to see a property fail. No specification uses them.

## Runs

| Run | Question | Bounds |
|---|---|---|
| `lifecycle` | Can any interleaving lose a connection, block later starts, let a stale close do harm, drop good credentials, or give up a session that is to come back? | 2 sockets, 2 startups, 2 stops, 2 timers, 1 restart; failing queries and rejected logouts |
| `lifecycle_live` | Does a dropped session come back? Is a swallowed rejection of `logout()` the only way to two connections? | 2 sockets, 1 startup, 1 stop, 1 timer, 1 restart; no failures |
| `session` | With rows, QR codes, pairing requests, timers and routes added, do sockets and credentials still move only as in the lifecycle? Do two pairing requests leave the pairing mode on, or a dead socket's code active? | 2 sockets, 1 startup, 1 stop, 2 requests, 1 code, 1 restart, failing queries, 1 operation waiting on the database at once |
| `inbound` | Is a batch delivered in order, does every delivery end, and as promised, and does every handler? | 1 batch of 2, 2 bindings, 3 attempts (the code's), 1 crash, failing queries |
| `concierge` | Does the inbox ever claim an answer nobody gave, is redelivery harmless, are customers answered from the number they wrote to? | 2 branches of 2 tenants in 4 directories (unpaired, paired for a test, live, one with a duplicate), 1 message to each number and each test branch, 2 replies, 2 restarts, failing queries |
| `presence` | Is exactly the evidence recorded that was asked for, once, whatever fails? Does every event get past the recording? Are the report's response times those of its rows? | 2 scopes, 2 contacts, 1 update, 1 message and its redelivery, 2 sockets, 1 crash, failing queries; reports of up to 6 rows at 4 times |
| `oauth` | Does an authorization ever have two working pairs? | 2 codes, 5 pairs, 2 requests at once, any failure and expiry |
| `tenant_access` | Can interleaved or broken-off provisioning put two tenants on an account, other than by the reconciliation, or kill a token in use? Does a request by the name of one account ever act on an account of another tenant, or a replaced token open anything? | 2 tenants of one application, 1 label besides the ids, 3 provisioning requests, 1 tenant request, failures at every query |

Why these are enough: two sockets are an old one and its successor; two startups, stops or requests
are one and its rival; a third of any adds only repetition because the maps hold one entry.
`MaxReconnects` bounds pending timers by disabling the close handler's last step while
that many are pending, which delays it, as a slow database would; a pending timer's only
effect is one `startSession`, so two already race. `MaxInFlight` is a state constraint: states with
more operations waiting for the database are not explored further. In `tenant_access` three
requests are two that race and one that has set the scene; one label and the ids give labels that are
shared, unique, or another account's id. In `oauth` five pairs allow a pair, two
refreshes of it at once and one of each successor. In `concierge` two restarts lead from an unpaired
branch to one that is live. All other bounds are guards of the actions that use them up. The
proofs have none of these bounds.

`presence` is cut down by constraints, each for a reason: a report neither reads nor changes what
requests and handlers have in memory, so it runs alone (`ReportAlone`); a handler that has
started does not look at the socket (`SocketAlone`); at most two targets are asked for or active
at a time, which is two scopes of one contact or two contacts of one scope (`FewTargets`); two events
meet, an update and a message or a message and its redelivery (`TwoEvents`); and after an exit, which
ends the handlers, the targets no longer change (`AfterExit`). Six rows hold two answered messages
with others between them, and the times make a response of exactly a day, `Day`, shorter ones and longer
ones. The liveness property is checked within these constraints: they cut off starting more, never a
step of a handler.

`CHECK_DEADLOCK FALSE` is set for `inbound`, `tenant_access` and `oauth`, whose batches, requests
and codes come to an end; everywhere else deadlock is checked.

Four runs expect a violation: a document says one thing and the code does another.

| Run | Document | What happens |
|---|---|---|
| `two_connections` | `docs/whatsapp-architecture.md:43`, one live socket per account, "never two" | `stopSession` swallows a rejected `logout()` (`session-manager.ts:554`) and forgets a connected socket; the next start makes a second. Theorem `OneConnection` shows this is the only way. |
| `replaced` | `docs/WHATSAPP_OPERATOR_INTEGRATION.md:358`, `connectionReplaced` does not reconnect | drop; timer set; a user connects before it fires; replaced elsewhere; the old timer fires and takes the session back |
| `second_code` | `docs/WHATSAPP_CAPABILITIES.md:14`, no second code while one is active | the next QR of the same socket clears the active code (`session-manager.ts:268`) |
| `inbox_truth` | `restaurant-concierge/README.md:86`, the pending inbox always has the truth | a message that arrives while a reply is being sent is marked replied with those the agent had seen |

### Fairness

`LifecycleSpec`, `SessionSpec`, `InboundSpec`, `ConciergeSpec`, `TenantSpec`, `PresenceSpec` and
`OAuthSpec` assume none. `Fairness` of
`SessionLifecycle` is weak fairness of the operator's own continuations: a startup's steps, a close
handler's purge and write, a save, a reconnect timer and the boot list. Node runs every due
timer and every settled promise, and in that run the database answers. Nothing is assumed of the
users, of the library or of stops: they may do anything or nothing for ever. `InboundFairness` is
weak fairness of each handler and each delivery: queries settle, pauses end, and a `fetch` ends
because Node's HTTP client has header and body timeouts of its own, though the code sets none.
Whether the application accepts is left open. `FairPresenceSpec` has weak fairness of each
handler that records evidence: its queries are answered or rejected, and the forwarding that follows
settles, which is what `DeliveryEnds` shows of `InboundMessages`.

## Proofs

All checked by `tlapm` from the assumptions in the modules alone: identities differ from `None`,
bounds are naturals, switches are Boolean. No set needs to be finite. Every property of a passing
run is a theorem except the four liveness properties, and of each of these the theorems say what
holds of every schedule, fair or not: that a thing owed is not given up, or that each step of a
handler brings it nearer to its end and nobody takes it back.

Some properties are theorems only: `OnlyRequestsWake`, `GivenUpLast`, `StrictOrder`,
`DeliveryRunsDown`, both `HandlerRunsDown`, `NeverStuck`, `EndsForGood`, `AnswersStand`, and
`DeliveredWasHandled` and `EndsAreFinal` of `EventDelivery`. TLC found no counterexample on the
instances of the runs before they were proved; the runs do not repeat them.

### Lifecycle and session manager

`LifecycleInvariant`: `LifecycleInv` is inductive. It is the conjunction of the four safety
invariants of the run `lifecycle`, of `TypeOK` (which the run `session` checks as a part of
`SessionTypeOK`), and of two facts they need: a stop holds a socket exactly while its `logout()` is
pending (`StopHoldsSocket`, without which the socket that `LogoutDone` closes need not be one), and
a close handler is about to purge only after a close that lost the credentials
(`PurgeNeedsAuthLost`, for `DropsKeepCredentials`). `NoStrayConnection` and `MapHoldsLiveSocket`
support each other: a socket is made only when the map is empty, so every other live one must be in
`rejected`, and `Free` sockets are closed. The proof follows `Next`: lemmas for the shared pieces
(`StartSession`, `EndStartup`, `OnClose`, `ShutdownSession`), frame lemmas that say which conjuncts
depend on which variables, one lemma per group of actions, one step per action. From it come
`LifecycleTypes`, `OneStartup`, `NoConnectionLost`, `MapNeverStale`, `StoppingReleased`; the action
properties `StaleClosesHarmless` and `DropsKeepCredentials` by a step lemma under the invariant; and
`OneConnection`: with `LogoutMayReject = FALSE` the set `rejected` stays empty, so two live sockets
are both `current`.

Two more action properties bound `DueSessionStarts` from below and above. `DueSessionsKept`: a
session that is down and due, or has a startup under way, stays so until it has a socket, a restart
reads the list again, or the startup's own credential read is rejected. The close and `logout()`
handlers that may still run are those of older sockets: the map is empty, and `StopHoldsSocket` says
what a late `logout()` closes. `RestUntilAsked`, by `SingleStartup`: with no startup, timer, boot or
close handler that will set one, only a route or a restart brings a session up. So the document's
claim about `connectionReplaced` holds whenever no timer was pending before, which is exactly what
the run `replaced` breaks.

`SessionImplementsLifecycle`: every step of `SessionNext` is a step of `Next` or leaves the
lifecycle's variables alone. Whatever is proved of the lifecycle is then true of the full session
manager: `SessionLosesNoConnection`, `SessionMapsAreRight`, `SessionIgnoresStaleCloses`,
`SessionKeepsCredentials`, `SessionComesUpWhenDue` and, without rejected logouts,
`SessionHasOneConnection`. `PairingModeReleased` is an invariant of its own, with the typing of
`pairPc`. `SessionTypes` is proved by the parts of the state (row, QR, pairing) with `TypeOK` from
the lifecycle. `CodesAreCurrent`, like `OneConnection`, assumes `LogoutMayReject = FALSE`.
`CodeOfCurrentSocket` needs `AskedSocketKnown` (a run that has asked or been given a code knows the
socket) because the map goes from empty to a new socket while codes stay, and it needs
`NoStrayConnection` of the lifecycle with `rejected = {}`: the socket that answers is live, hence
the current one.

### Tenant access

`TenantAccessProofs` proves every property of the run `tenant_access`, for any number of tenants,
labels, requests and accounts. `SharedByReconciliation` is not inductive: a request at work on an
account will bind it later. `Claims` adds to the bindings the pairs that requests other than
reconciliations have found or created and will bind; two claims to one account agree unless a
finished reconciliation put one of them there or the account's id is a label elsewhere
(`OwnershipInv`). A step adds at most one claim: that of the account it creates, which nobody claims
yet, of one a bootstrap has found bound to its own scope, or of what a reconciliation has bound. The
exception is stable because accounts are never renamed: a name that two accounts share stays shared
(`NamesStay`). `AccessInv` ties rows, tokens and scopes of requests under way for
`GrantedToOwner` and `ReplacedTokenRefused`; `ArrivalInv` says that what a request saw on arrival
still stands, for `BootstrapReuses` and `TokenKept`. `ProvisioningStands` is about the answers: the
account one names stays bound to its tenant, and the tenant has one token, the latest, although
calls race and break off. `AnswerInv` says that a route reaches its binding with a token behind it
and its answer with the binding behind it; `AccessInv` that there is then only one token.

### Inbound messages and delivery

`InboundMessagesProofs`: `InboundInv` adds to the types and `OwedIsAtWork` that nothing has been
done for a message its handler has not reached (`Untouched`) and that behind the handler a delivery
is at work only if `Promise.all` gave up on its message (`Settled`). `BatchInOrder` follows: the
messages at work are the handler's own, or exceptions. `DeliveryPromiseKept` maps each step to a
step of `EventDelivery` or a stutter, with `OwedIsAtWork` for the guards of the abstract steps. What
the promise amounts to is then proved of `EventDelivery` alone (`PromiseMeansHandled`: delivered
means handled, and nobody handles what was not addressed to them; `PromiseIsFinal`: an end is an
end) and holds of the code through the refinement (`DeliveriesEndForGood`).

`NobodyGivenUpEarly`: an event is dead-lettered after the last attempt only, and lost only with the
process or when its dead letter is refused then. `OrderIsStrict` is `BatchInOrder` without its
exception, for a database that refuses nothing (`DbMayFail = FALSE`): then an event is lost only
with the process, which stops all deliveries (`LostSettled`), so `Promise.all` gives up on nothing
under way. `DeliveriesRunDown` and `HandlersRunDown` are the safety half of `DeliveryEnds` and
`BatchHandled`: `StepsLeft`, three for each attempt, and `StepsToGo`, five for each message, are
naturals that every step of their owner decreases and no other step changes.

### Presence intelligence

`PresenceIntelligenceProofs`: `EventInv` ties what is being inserted to the histories (`Witnessed`),
says that no row is written twice (`FirstInsert`) and that what was active throughout is written,
being written or still to be looked up (`Covered`); `Heard` follows a subscription from the request
to the target; `Pending` says what `pendingOutbound` is at each row, from which `MeasuredOnce` is
inductive. `HandlersNeverStuck` (a handler always has a contact to look up or an `INSERT` to hear
of) and `HandlersRunDown` (each step leaves fewer) are the safety half of `EventForwarded`.

`PercentilesAreNearestRanks`: `Ascending` chooses by `CHOOSE`, so one has to show that there is
something to choose. The place of an entry is the number of entries not after it, equal ones in the
order they came in; places grow from entry to entry, so they are a permutation, and its inverse
sorts (`SortingExists`). Then at least `rank` entries are at most the entry at the rank
(`CountUpToRank`), fewer than `rank` are below it (`CountBelowRank`), and the code's rounding, here
`(p * n + 99) \div 100`, stays within `1..n`.

### OAuth

`OAuthTokensProofs`: outside `raced`, a code lives on in one place (`OneHolder`): a pair that is not
revoked, or a request that has consumed the last one and owes the next. `AuthorizationsEnd` needs no
exception for races: once a code is consumed or expired, no request holds it and no pair of it
works, nothing a client still has opens `/mcp` again.

### Concierge

`ConciergeProofs`: `Progress` says what a reply has done wherever it is (for `RecordsAreTrue` and
`RepliesWereGiven`); `FiledUnderTenant` that a stored event lies under a branch of its own tenant,
from which, with `BootstrapAssumption`, `CustomersKnowTheNumber` follows whatever directories the
restarts find.

### Only model-checked

The liveness properties `DueSessionStarts`, `BatchHandled`, `DeliveryEnds` and `EventForwarded`:
fairness and `ENABLED` are beyond the prover. The four runs that expect a violation are
counterexamples, which TLC finds and nothing proves.

## Plan

Done: all modules above, their runs, and proofs of every safety property of theirs.

Next, in this order, each with the hazard it belongs to:

1. The start that bootstrap and the reconciliation skip after a restart, because the row still says
   `qr_ready`: the reads of `TenantAccess` composed with the rows of `SessionManager`.
2. The stale-row race of `POST /:id/connect` against the comment at `routes/accounts.ts:227`, and the
   subscription that no reconnect renews against `routes/presence.ts:70`, as runs that expect a
   violation.
3. The order of the row writes of open, close and QR handlers: what the row says once everything is
   quiet.
4. Phone numbers in `SessionManager`, for a pairing request that joins one for another number.

## Not modelled

Routes that make a single library call or a single read (`send.ts`, `media.ts`, `calls.ts`,
`messages.ts`), signatures, schema and configuration have no state whose steps could interleave. So
with the tools of the MCP server, each a query or a library call, and with client registration, one
insert. Of the presence report the tables by weekday and hour, the confidence and the narrative are
arithmetic over one read. Tenant secrets are one upsert each. Message contents, phone numbers, QR
images, menus and wording are data the properties do not tell apart. The Signal key store is
written in transactions by the library and purged with the credentials.

Hazards that no property covers are listed in `PROJECT.json` with the reason: mostly the code promises
nothing there, or the plan above names them.
