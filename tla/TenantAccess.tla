------------------------------ MODULE TenantAccess ------------------------------
(***************************************************************************)
(* Which application tenant may use which WhatsApp account: the routes of  *)
(* routes/accounts.ts that create accounts, bind them to a tenant and      *)
(* issue its token, the reconciliation of the Baron account at start-up    *)
(* (index.ts), and the check every tenant request passes                   *)
(* (middleware/account-access.ts).                                         *)
(*                                                                         *)
(* All state is rows.  A route is a chain of queries; between two of them  *)
(* other requests run theirs.  Each of the actions below is one query and  *)
(* what the handler does until its next one.                               *)
(*                                                                         *)
(* A request names an account by a string, which may be the id of one      *)
(* account and the label of others: labels are chosen by whoever creates   *)
(* an account, have a default and need not be unique.                      *)
(***************************************************************************)
EXTENDS Naturals

CONSTANTS
  Apps, Tenants,   \* the scopes are their pairs
  Labels,          \* strings that are the id of no account
  Provisions,      \* requests with the platform key, and runs of the reconciliation
  Requests,        \* requests of tenants that name an account
  LegacyAllowed,   \* ALLOW_LEGACY_TENANT_HEADERS
  None

Scopes == Apps \X Tenants

ASSUME LegacyAssumption == LegacyAllowed \in BOOLEAN
ASSUME NoneAssumption == None \notin Provisions \cup Scopes

VARIABLES
  accounts,     \* rows of wa_accounts, numbered in the order of created_at
  label,        \* their labels
  bindings,     \* active rows of wa_account_bindings: <<account, scope>>
  credentials,  \* rows of wa_tenant_credentials: <<scope, token>>
  latest,       \* history: the token stored last for each scope
  pc,           \* where each provisioning request is
  route,        \* the route it came in on
  scope,        \* the scope it is for
  name,         \* BARON_WA_ACCOUNT_ID, for a reconciliation
  todo,         \* accounts bootstrap has yet to look at
  account,      \* the account it found or created; 0: none yet
  issued,       \* did it store a token?
  hadToken,     \* history: had the scope a token when the request came in?
  wasBound,     \* history: had the scope an account when the request came in?
  access,       \* where each tenant request is
  token,        \* the token it carries; None: the legacy headers
  target,       \* the id or label it names an account by
  actsFor,      \* the scope it acts for
  actsOn,       \* the account it acts on; 0: none yet
  replaced      \* history: was its token replaced before it came in?

rows          == <<accounts, label, bindings, credentials, latest>>
provisionVars == <<pc, route, scope, name, todo, account, issued, hadToken, wasBound>>
accessVars    == <<access, token, target, actsFor, actsOn, replaced>>
tenantVars    == <<rows, provisionVars, accessVars>>

Routes   == {"bootstrap", "create", "token", "rotate", "reconcile"}
Finished == {"done", "refused", "failed"}

\* What a caller may name an account by, or label one with.
Identifiers == Labels \cup (1..accounts)

TenantTypeOK ==
  /\ accounts \in Nat
  /\ label \in [1..accounts -> Identifiers]
  /\ bindings \subseteq (1..accounts) \X Scopes
  /\ credentials \subseteq Scopes \X Provisions
  /\ latest \in [Scopes -> Provisions \cup {None}]
  /\ pc \in [Provisions -> {"new", "list", "find", "search", "account", "credential",
                            "store", "bind"} \cup Finished]
  /\ route \in [Provisions -> Routes]
  /\ scope \in [Provisions -> Scopes]
  /\ name \in [Provisions -> Identifiers \cup {None}]
  /\ todo \in [Provisions -> SUBSET (1..accounts)]
  /\ account \in [Provisions -> 0..accounts]
  /\ issued \in [Provisions -> BOOLEAN]
  /\ hadToken \in [Provisions -> BOOLEAN]
  /\ wasBound \in [Provisions -> BOOLEAN]
  /\ access \in [Requests -> {"new", "scope", "bindings", "granted", "acting", "refused"}]
  /\ token \in [Requests -> Provisions \cup {None}]
  /\ target \in [Requests -> Identifiers \cup {None}]
  /\ actsFor \in [Requests -> Scopes \cup {None}]
  /\ actsOn \in [Requests -> 0..accounts]
  /\ replaced \in [Requests -> BOOLEAN]

\* An empty database.  The route and the scope of a request are settled before it comes in; so
\* are BARON_APP_ID and BARON_TENANT_ID, which may change from one process to the next.
TenantInit ==
  /\ accounts = 0 /\ label = <<>>
  /\ bindings = {} /\ credentials = {}
  /\ latest = [s \in Scopes |-> None]
  /\ pc = [r \in Provisions |-> "new"]
  /\ route \in [Provisions -> Routes]
  /\ scope \in [Provisions -> Scopes]
  /\ name = [r \in Provisions |-> None]
  /\ todo = [r \in Provisions |-> {}]
  /\ account = [r \in Provisions |-> 0]
  /\ issued = [r \in Provisions |-> FALSE]
  /\ hadToken = [r \in Provisions |-> FALSE]
  /\ wasBound = [r \in Provisions |-> FALSE]
  /\ access = [q \in Requests |-> "new"]
  /\ token = [q \in Requests |-> None]
  /\ target = [q \in Requests |-> None]
  /\ actsFor = [q \in Requests |-> None]
  /\ actsOn = [q \in Requests |-> 0]
  /\ replaced = [q \in Requests |-> FALSE]

-----------------------------------------------------------------------------
Credentials(s) == {c \in credentials : c[1] = s}

\* WHERE id::text = $1 OR label = $1
Named(n) == {a \in 1..accounts : a = n \/ label[a] = n}

\* getAccount: the account with that id, else whichever of those with that label comes first.
GetAccount(n) == IF n \in 1..accounts THEN {n} ELSE Named(n)

\* A check that compares the application and forgets the tenant.
BoundToApp(n, s) == \E b \in bindings : b[1] \in Named(n) /\ b[2][1] = s[1]

\* Is one of getActiveBindings(n) the scope's?
Bound(n, s) == \E a \in Named(n) : <<a, s>> \in bindings

\* The plaintext of a token is in the one answer to the request that stored it.
Handed(r) == pc[r] = "done" /\ issued[r]

\* main: the reconciliation ends before the server listens, and a new process starts it only
\* when the requests of the old one are over.
Idle(r)   == pc[r] \in {"new"} \cup Finished
Listening == \A r \in Provisions : route[r] = "reconcile" => Idle(r)
Quiet     == /\ \A r \in Provisions : Idle(r)
             /\ \A q \in Requests : access[q] \notin {"scope", "bindings", "granted"}

FirstQuery(way) ==
  CASE way = "bootstrap" -> "list"
    [] way = "reconcile" -> "find"
    [] way = "create"    -> "account"
    [] OTHER             -> "credential"

\* A valid provisioning request comes in, or a process starts.
ProvisionArrives(r) ==
  /\ pc[r] = "new"
  /\ \/ /\ route[r] = "reconcile" /\ Quiet
        /\ \E n \in Identifiers : name' = [name EXCEPT ![r] = n]
     \/ route[r] # "reconcile" /\ Listening /\ UNCHANGED name
  /\ pc' = [pc EXCEPT ![r] = FirstQuery(route[r])]
  /\ hadToken' = [hadToken EXCEPT ![r] = Credentials(scope[r]) # {}]
  /\ wasBound' = [wasBound EXCEPT ![r] = \E b \in bindings : b[2] = scope[r]]
  /\ UNCHANGED <<rows, accessVars, route, scope, todo, account, issued>>

\* bootstrap: const accounts = await listAccounts()
ListAccounts(r) ==
  /\ pc[r] = "list"
  /\ todo' = [todo EXCEPT ![r] = 1..accounts]
  /\ pc' = [pc EXCEPT ![r] = IF accounts = 0 THEN "account" ELSE "search"]
  /\ UNCHANGED <<rows, accessVars, route, scope, name, account, issued, hadToken, wasBound>>

\* The account of S with the latest created_at.
Newest(S) == {a \in S : \A b \in S : b <= a}

\* A search that gives up when the newest account is not the scope's.
SearchNewestOnly(r) ==
  /\ pc[r] = "search"
  /\ \E candidate \in Newest(todo[r]) :
       LET found == Bound(candidate, scope[r])
       IN  /\ account' = [account EXCEPT ![r] = IF found THEN candidate ELSE 0]
           /\ pc' = [pc EXCEPT ![r] = IF found THEN "credential" ELSE "account"]
  /\ UNCHANGED <<rows, accessVars, route, scope, name, todo, issued, hadToken, wasBound>>

\* A search that leaves its loop with the last candidate when none is the scope's.
SearchKeepsLast(r) ==
  /\ pc[r] = "search"
  /\ \E candidate \in Newest(todo[r]) :
       LET rest  == todo[r] \ {candidate}
           found == Bound(candidate, scope[r]) \/ rest = {}
       IN  /\ todo' = [todo EXCEPT ![r] = rest]
           /\ account' = [account EXCEPT ![r] = IF found THEN candidate ELSE 0]
           /\ pc' = [pc EXCEPT ![r] = IF found THEN "credential" ELSE "search"]
  /\ UNCHANGED <<rows, accessVars, route, scope, name, issued, hadToken, wasBound>>

\* bootstrap: one turn of the loop over the accounts listed, the newest first.
SearchAccount(r) ==
  /\ pc[r] = "search"
  /\ \E candidate \in Newest(todo[r]) :
       LET rest  == todo[r] \ {candidate}
           found == Bound(candidate, scope[r])
       IN  /\ todo' = [todo EXCEPT ![r] = rest]
           /\ account' = [account EXCEPT ![r] = IF found THEN candidate ELSE 0]
           /\ pc' = [pc EXCEPT ![r] = IF found THEN "credential"
                                      ELSE IF rest = {} THEN "account" ELSE "search"]
  /\ UNCHANGED <<rows, accessVars, route, scope, name, issued, hadToken, wasBound>>

\* A reconciliation that takes the account for granted.
FindBaronUnchecked(r) ==
  /\ pc[r] = "find"
  /\ \/ \E a \in GetAccount(name[r]) : account' = [account EXCEPT ![r] = a]
     \/ GetAccount(name[r]) = {} /\ UNCHANGED account
  /\ pc' = [pc EXCEPT ![r] = "bind"]
  /\ UNCHANGED <<rows, accessVars, route, scope, name, todo, issued, hadToken, wasBound>>

\* reconcileBaronBinding: getAccount(BARON_WA_ACCOUNT_ID), whoever made that account.
FindBaron(r) ==
  /\ pc[r] = "find"
  /\ \/ \E a \in GetAccount(name[r]) :
          /\ account' = [account EXCEPT ![r] = a]
          /\ pc' = [pc EXCEPT ![r] = "bind"]
     \/ /\ GetAccount(name[r]) = {}
        /\ pc' = [pc EXCEPT ![r] = "account"]
        /\ UNCHANGED account
  /\ UNCHANGED <<rows, accessVars, route, scope, name, todo, issued, hadToken, wasBound>>

\* createAccount, with the label of the body or the default one.  The reconciliation labels its
\* account BARON_WA_ACCOUNT_ID, and issues no credential.
CreateAccount(r) ==
  /\ pc[r] = "account"
  /\ accounts' = accounts + 1
  /\ \E n \in IF route[r] = "reconcile" THEN {name[r]} ELSE Identifiers :
       label' = [a \in 1..(accounts + 1) |-> IF a \in 1..accounts THEN label[a] ELSE n]
  /\ account' = [account EXCEPT ![r] = accounts + 1]
  /\ pc' = [pc EXCEPT ![r] = IF route[r] = "reconcile" THEN "bind" ELSE "credential"]
  /\ UNCHANGED <<bindings, credentials, latest, accessVars,
                 route, scope, name, todo, issued, hadToken, wasBound>>

\* A read whose result only the answer uses: every call issues a token.
ReadCredentialUnguarded(r) ==
  /\ pc[r] = "credential"
  /\ pc' = [pc EXCEPT ![r] = "store"]
  /\ UNCHANGED <<rows, accessVars, route, scope, name, todo, account, issued, hadToken, wasBound>>

\* issueTenantCredential up to its write: a scope's token is kept unless rotate is set.
\* POST /accounts/tenant-token answers 409 then, the other routes go on without one.
ReadCredential(r) ==
  LET keep == Credentials(scope[r]) # {} /\ route[r] # "rotate"
  IN  /\ pc[r] = "credential"
      /\ pc' = [pc EXCEPT ![r] = IF ~keep THEN "store"
                                 ELSE IF route[r] = "token" THEN "refused" ELSE "bind"]
      /\ UNCHANGED <<rows, accessVars, route, scope, name, todo, account, issued, hadToken, wasBound>>

\* An insert beside the row of the token it replaces.
StoreBeside(r) ==
  /\ pc[r] = "store"
  /\ credentials' = credentials \cup {<<scope[r], r>>}
  /\ latest' = [latest EXCEPT ![scope[r]] = r]
  /\ issued' = [issued EXCEPT ![r] = TRUE]
  /\ pc' = [pc EXCEPT ![r] = IF route[r] \in {"token", "rotate"} THEN "done" ELSE "bind"]
  /\ UNCHANGED <<accounts, label, bindings, accessVars,
                 route, scope, name, todo, account, hadToken, wasBound>>

\* issueTenantCredential: the upsert of the new token's hash.
StoreCredential(r) ==
  /\ pc[r] = "store"
  /\ credentials' = (credentials \ Credentials(scope[r])) \cup {<<scope[r], r>>}
  /\ latest' = [latest EXCEPT ![scope[r]] = r]
  /\ issued' = [issued EXCEPT ![r] = TRUE]
  /\ pc' = [pc EXCEPT ![r] = IF route[r] \in {"token", "rotate"} THEN "done" ELSE "bind"]
  /\ UNCHANGED <<accounts, label, bindings, accessVars,
                 route, scope, name, todo, account, hadToken, wasBound>>

\* createBinding.  What follows, a startSession, is a step of SessionLifecycle.
CreateBinding(r) ==
  /\ pc[r] = "bind"
  /\ bindings' = bindings \cup {<<account[r], scope[r]>>}
  /\ pc' = [pc EXCEPT ![r] = "done"]
  /\ UNCHANGED <<accounts, label, credentials, latest, accessVars,
                 route, scope, name, todo, account, issued, hadToken, wasBound>>

\* A query is rejected, or the process exits: the rows written stay, the answer is lost.
ProvisionFails(r) ==
  /\ ~Idle(r)
  /\ pc' = [pc EXCEPT ![r] = "failed"]
  /\ UNCHANGED <<rows, accessVars, route, scope, name, todo, account, issued, hadToken, wasBound>>

-----------------------------------------------------------------------------
\* A request names an account and carries a token some scope was handed.
TokenRequest(q, t, n) ==
  /\ access[q] = "new" /\ Listening /\ Handed(t)
  /\ access' = [access EXCEPT ![q] = "scope"]
  /\ token' = [token EXCEPT ![q] = t]
  /\ target' = [target EXCEPT ![q] = n]
  /\ replaced' = [replaced EXCEPT ![q] = latest[scope[t]] # t]
  /\ UNCHANGED <<rows, provisionVars, actsFor, actsOn>>

\* A request with the platform key and the x-app-id and x-tenant-id headers, no token.
LegacyRequest(q, s, n) ==
  /\ access[q] = "new" /\ Listening
  /\ access' = [access EXCEPT ![q] = IF LegacyAllowed THEN "bindings" ELSE "refused"]
  /\ target' = [target EXCEPT ![q] = n]
  /\ actsFor' = [actsFor EXCEPT ![q] = s]
  /\ UNCHANGED <<rows, provisionVars, token, actsOn, replaced>>

\* resolveTenantScope: the scope whose row has the token's hash, if any.
ResolveTenantScope(q) ==
  /\ access[q] = "scope"
  /\ \/ \E c \in credentials :
          /\ c[2] = token[q]
          /\ actsFor' = [actsFor EXCEPT ![q] = c[1]]
          /\ access' = [access EXCEPT ![q] = "bindings"]
     \/ /\ \A c \in credentials : c[2] # token[q]
        /\ access' = [access EXCEPT ![q] = "refused"]
        /\ UNCHANGED actsFor
  /\ UNCHANGED <<rows, provisionVars, token, target, actsOn, replaced>>

\* A check of the account's bindings for the application alone.
CheckApp(q) ==
  /\ access[q] = "bindings"
  /\ access' = [access EXCEPT ![q] = IF BoundToApp(target[q], actsFor[q]) THEN "granted" ELSE "refused"]
  /\ UNCHANGED <<rows, provisionVars, token, target, actsFor, actsOn, replaced>>

\* requireAccountAccess: is an account of that id or label bound to the scope?
RequireAccountAccess(q) ==
  /\ access[q] = "bindings"
  /\ access' = [access EXCEPT ![q] = IF Bound(target[q], actsFor[q]) THEN "granted" ELSE "refused"]
  /\ UNCHANGED <<rows, provisionVars, token, target, actsFor, actsOn, replaced>>

\* The route behind the check, first of all: getAccount, by the same id or label.
AccountFound(q) ==
  /\ access[q] = "granted"
  /\ \E a \in GetAccount(target[q]) : actsOn' = [actsOn EXCEPT ![q] = a]
  /\ access' = [access EXCEPT ![q] = "acting"]
  /\ UNCHANGED <<rows, provisionVars, token, target, actsFor, replaced>>

\* next(err), or the process exits.
AccessFails(q) ==
  /\ access[q] \in {"scope", "bindings", "granted"}
  /\ access' = [access EXCEPT ![q] = "refused"]
  /\ UNCHANGED <<rows, provisionVars, token, target, actsFor, actsOn, replaced>>

-----------------------------------------------------------------------------
Provision(r) ==
  \/ ProvisionArrives(r) \/ ListAccounts(r) \/ SearchAccount(r) \/ FindBaron(r)
  \/ CreateAccount(r) \/ ReadCredential(r) \/ StoreCredential(r) \/ CreateBinding(r)
  \/ ProvisionFails(r)

Access(q) ==
  \/ \E t \in Provisions, n \in Identifiers : TokenRequest(q, t, n)
  \/ \E s \in Scopes, n \in Identifiers : LegacyRequest(q, s, n)
  \/ ResolveTenantScope(q) \/ RequireAccountAccess(q) \/ AccountFound(q) \/ AccessFails(q)

TenantNext == (\E r \in Provisions : Provision(r)) \/ (\E q \in Requests : Access(q))

TenantSpec == TenantInit /\ [][TenantNext]_tenantVars

-----------------------------------------------------------------------------
\* A string that is the id or the label of one account at most, of all there are by now.
Unambiguous(n) == \A a, b \in Named(n) : a = b

\* Only the reconciliation puts a second scope on an account, the one its configuration names:
\* bootstraps and creations never do, however they interleave, fail and are retried, unless the
\* account's id was given to another account as a label.
SharedByReconciliation ==
  \A b, c \in bindings :
    b[1] = c[1] /\ b[2] # c[2] /\ Unambiguous(b[1])
      => \E r \in Provisions : /\ route[r] = "reconcile" /\ pc[r] = "done"
                              /\ account[r] = b[1] /\ scope[r] \in {b[2], c[2]}

\* README.md: the credential owns the account that a route acts on.  The check and the route
\* look the account up separately, with accounts created in between; by an id, or a label that
\* is one account's, both find the same.
GrantedToOwner ==
  \A q \in Requests :
    access[q] = "acting" /\ token[q] # None /\ Unambiguous(target[q])
      => <<actsOn[q], scope[token[q]]>> \in bindings

\* A token replaced before a request comes in opens nothing.
ReplacedTokenRefused ==
  \A q \in Requests : replaced[q] => access[q] \notin {"granted", "acting"}

\* A tenant that has an account when bootstrap is called gets no second one.
BootstrapReuses ==
  \A r \in Provisions : route[r] = "bootstrap" /\ wasBound[r] => pc[r] # "account"

\* A call that is not a rotation, and finds a token in place when it comes in, leaves it: only
\* a rotation, or a call that raced the first issue, invalidates a token handed out.
TokenKept ==
  [][\A r \in Provisions :
       issued'[r] /\ ~issued[r] /\ hadToken[r] => route[r] = "rotate"]_tenantVars

\* What an answer says stays true: the account it names is bound to the tenant, and the tenant
\* has one token, the one stored last.  So a token that was handed out opens its tenant's
\* accounts until another is stored, however calls race, fail half way and are repeated.
AnswersStand ==
  \A r \in Provisions :
    pc[r] = "done" =>
      /\ route[r] \in {"bootstrap", "create", "reconcile"} => <<account[r], scope[r]>> \in bindings
      /\ route[r] # "reconcile" => Credentials(scope[r]) = {<<scope[r], latest[scope[r]]>>}

=============================================================================
