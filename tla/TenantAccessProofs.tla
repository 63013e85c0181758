--------------------------- MODULE TenantAccessProofs ---------------------------
(***************************************************************************)
(* For any number of scopes, labels, requests and accounts: only the       *)
(* reconciliation gives an account a second scope, a request acts on an    *)
(* account of its token's scope where its name is that of one account, and *)
(* a replaced token opens nothing.                                         *)
(***************************************************************************)
EXTENDS TenantAccess, TLAPS

\* The scope an account is meant for: what its bindings say, and what the routes at work on it
\* are for.  What a reconciliation will bind is not among them.
Claims ==
  bindings \cup {<<account[r], scope[r]>> :
                   r \in {p \in Provisions : account[p] # 0 /\ route[p] # "reconcile"}}

\* The reconciliation put one of two scopes on the account.
Reconciled(a, s, t) ==
  \E r \in Provisions : /\ route[r] = "reconcile" /\ pc[r] = "done"
                        /\ account[r] = a /\ scope[r] \in {s, t}

\* Two claims to one account agree, or the exceptions of SharedByReconciliation apply.
Agree(c, d) == c[1] = d[1] /\ c[2] # d[2] /\ Unambiguous(c[1]) => Reconciled(c[1], c[2], d[2])

\* A request about to bind has its account, and only the reconciliation looks for Baron's.
Working(r) ==
  /\ pc[r] = "find" => route[r] = "reconcile"
  /\ pc[r] \in {"list", "search", "credential", "store"} => route[r] # "reconcile"
  /\ pc[r] \in {"find", "account"} /\ route[r] = "reconcile" => name[r] \in Identifiers
  /\ pc[r] = "bind" => account[r] # 0
  /\ pc[r] \in {"credential", "store"} /\ route[r] \notin {"token", "rotate"} => account[r] # 0

OwnershipInv ==
  /\ TenantTypeOK
  /\ \A c, d \in Claims : Agree(c, d)
  /\ \A r \in Provisions : Working(r)

LEMMA ClaimsTyped ==
  ASSUME TenantTypeOK
  PROVE  Claims \subseteq (1..accounts) \X Scopes
<1>1. {<<account[r], scope[r]>> : r \in {p \in Provisions : account[p] # 0 /\ route[p] # "reconcile"}}
        \subseteq (1..accounts) \X Scopes
  BY DEF TenantTypeOK
<1>2. QED
  BY <1>1 DEF Claims, TenantTypeOK

LEMMA TenantInitTypes ==
  ASSUME TenantInit
  PROVE  TenantTypeOK
BY DEF TenantInit, TenantTypeOK, Finished, Identifiers

\* A turn of bootstrap's search ends with an account bound to the scope, or with none.
LEMMA SearchFinds ==
  ASSUME TenantTypeOK, NEW r \in Provisions, SearchAccount(r)
  PROVE  \E a \in 0..accounts :
           /\ account' = [account EXCEPT ![r] = a]
           /\ a # 0 => Bound(a, scope[r])
           /\ a = 0 => pc'[r] \in {"account", "search"}
<1>1. PICK candidate \in Newest(todo[r]) :
        LET found == Bound(candidate, scope[r])
        IN  /\ account' = [account EXCEPT ![r] = IF found THEN candidate ELSE 0]
            /\ pc' = [pc EXCEPT ![r] = IF found THEN "credential"
                                       ELSE IF todo[r] \ {candidate} = {} THEN "account" ELSE "search"]
  BY DEF SearchAccount
<1>2. candidate \in 1..accounts /\ accounts \in Nat
  BY DEF Newest, TenantTypeOK
<1>3. CASE Bound(candidate, scope[r])
  <2>1. candidate \in 0..accounts /\ candidate # 0
    BY <1>2
  <2>2. account' = [account EXCEPT ![r] = candidate]
    BY <1>1, <1>3
  <2>3. QED
    BY <1>3, <2>1, <2>2
<1>4. CASE ~Bound(candidate, scope[r])
  <2>1. account' = [account EXCEPT ![r] = 0] /\ pc'[r] \in {"account", "search"}
    BY <1>1, <1>4 DEF TenantTypeOK
  <2>2. 0 \in 0..accounts
    BY <1>2
  <2>3. QED
    BY <2>1, <2>2
<1>5. QED
  BY <1>3, <1>4

\* Accounts and their labels stay, so a string names what it named before.
LEMMA NamesStay ==
  ASSUME TenantTypeOK, NEW r \in Provisions, Provision(r)
  PROVE  /\ accounts \in Nat /\ accounts' \in Nat /\ accounts <= accounts'
         /\ \A a \in 1..accounts : label'[a] = label[a]
         /\ Identifiers \subseteq Identifiers'
         /\ \A n : Named(n) \subseteq Named(n)'
<1>1. accounts \in Nat /\ accounts' \in Nat /\ accounts <= accounts'
  BY DEF Provision, ProvisionArrives, ListAccounts, SearchAccount, FindBaron, CreateAccount,
         ReadCredential, StoreCredential, CreateBinding, ProvisionFails, rows, TenantTypeOK
<1>2. ASSUME NEW a \in 1..accounts
      PROVE  label'[a] = label[a]
  <2>1. CASE CreateAccount(r)
    <3>1. PICK n : label' = [b \in 1..(accounts + 1) |-> IF b \in 1..accounts THEN label[b] ELSE n]
      BY <2>1 DEF CreateAccount
    <3>2. a \in 1..(accounts + 1)
      BY <1>1
    <3>3. QED
      BY <3>1, <3>2
  <2>2. CASE ~CreateAccount(r)
    BY <2>2 DEF Provision, ProvisionArrives, ListAccounts, SearchAccount, FindBaron,
                ReadCredential, StoreCredential, CreateBinding, ProvisionFails, rows
  <2>3. QED
    BY <2>1, <2>2
<1>3. 1..accounts \subseteq 1..accounts'
  BY <1>1
<1>4. QED
  BY <1>1, <1>2, <1>3 DEF Identifiers, Named

\* Provisioning steps keep the types.
LEMMA ProvisionTypes ==
  ASSUME TenantTypeOK, NEW r \in Provisions, Working(r), Provision(r)
  PROVE  TenantTypeOK'
<1> USE DEF TenantTypeOK, Finished
<1>1. CASE ProvisionArrives(r)
  <2>1. FirstQuery(route[r]) \in {"list", "find", "account", "credential"}
    BY DEF FirstQuery, Routes
  <2>2. name' \in [Provisions -> Identifiers \cup {None}]
    BY <1>1 DEF ProvisionArrives
  <2>3. QED
    BY <1>1, <2>1, <2>2 DEF ProvisionArrives, rows, accessVars, Identifiers
<1>2. CASE ListAccounts(r)
  BY <1>2 DEF ListAccounts, rows, accessVars, Identifiers
<1>3. CASE SearchAccount(r)
  <2>1. PICK a \in 0..accounts : account' = [account EXCEPT ![r] = a]
    BY <1>3, SearchFinds
  <2>2. /\ pc' \in [Provisions -> {"new", "list", "find", "search", "account", "credential",
                                   "store", "bind"} \cup Finished]
        /\ todo' \in [Provisions -> SUBSET (1..accounts)]
    BY <1>3 DEF SearchAccount
  <2>3. QED
    BY <1>3, <2>1, <2>2 DEF SearchAccount, rows, accessVars, Identifiers
<1>4. CASE FindBaron(r)
  <2>1. account' \in [Provisions -> 0..accounts]
    <3>1. \A a \in GetAccount(name[r]) : a \in 0..accounts
      BY DEF GetAccount, Named
    <3>2. QED
      BY <1>4, <3>1 DEF FindBaron
  <2>2. pc' = [pc EXCEPT ![r] = "bind"] \/ pc' = [pc EXCEPT ![r] = "account"]
    BY <1>4 DEF FindBaron
  <2>3. QED
    BY <1>4, <2>1, <2>2 DEF FindBaron, rows, accessVars, Identifiers
<1>5. CASE CreateAccount(r)
  <2>1. /\ accounts' = accounts + 1 /\ Identifiers \subseteq Identifiers'
        /\ 0..accounts \subseteq 0..accounts' /\ 1..accounts \subseteq 1..accounts'
    BY <1>5, NamesStay DEF CreateAccount
  <2>2. label' \in [1..accounts' -> Identifiers']
    <3>1. PICK n \in Identifiers :
            label' = [a \in 1..(accounts + 1) |-> IF a \in 1..accounts THEN label[a] ELSE n]
      BY <1>5 DEF CreateAccount, Working
    <3>2. QED
      BY <2>1, <3>1
  <2>3. account' \in [Provisions -> 0..accounts']
    BY <1>5, <2>1 DEF CreateAccount
  <2>4. /\ bindings' \subseteq (1..accounts') \X Scopes
        /\ name' \in [Provisions -> Identifiers' \cup {None}]
        /\ target' \in [Requests -> Identifiers' \cup {None}]
    BY <1>5, <2>1 DEF CreateAccount, accessVars
  <2>5. /\ todo' \in [Provisions -> SUBSET (1..accounts')]
        /\ actsOn' \in [Requests -> 0..accounts']
    BY <1>5, <2>1 DEF CreateAccount, accessVars
  <2>6. pc' \in [Provisions -> {"new", "list", "find", "search", "account", "credential",
                                "store", "bind"} \cup Finished]
    BY <1>5 DEF CreateAccount
  <2>7. QED
    BY <1>5, <2>1, <2>2, <2>3, <2>4, <2>5, <2>6 DEF CreateAccount, accessVars
<1>6. CASE ReadCredential(r)
  BY <1>6 DEF ReadCredential, rows, accessVars, Identifiers
<1>7. CASE StoreCredential(r)
  BY <1>7 DEF StoreCredential, accessVars, Identifiers
<1>8. CASE CreateBinding(r)
  BY <1>8 DEF CreateBinding, accessVars, Working, Identifiers
<1>9. CASE ProvisionFails(r)
  BY <1>9 DEF ProvisionFails, rows, accessVars, Identifiers
<1>10. QED
  BY <1>1, <1>2, <1>3, <1>4, <1>5, <1>6, <1>7, <1>8, <1>9 DEF Provision

\* So do the steps of tenant requests.
LEMMA AccessTypes ==
  ASSUME TenantTypeOK, NEW q \in Requests, Access(q)
  PROVE  TenantTypeOK'
<1> USE DEF TenantTypeOK, rows, provisionVars, Identifiers
<1>1. CASE \E t \in Provisions, n \in Identifiers : TokenRequest(q, t, n)
  BY <1>1 DEF TokenRequest
<1>2. CASE \E s \in Scopes, n \in Identifiers : LegacyRequest(q, s, n)
  BY <1>2 DEF LegacyRequest
<1>3. CASE ResolveTenantScope(q)
  BY <1>3 DEF ResolveTenantScope
<1>4. CASE RequireAccountAccess(q) \/ AccessFails(q)
  BY <1>4 DEF RequireAccountAccess, AccountFound, AccessFails
<1>5. CASE AccountFound(q)
  BY <1>5 DEF AccountFound, GetAccount, Named
<1>6. QED
  BY <1>1, <1>2, <1>3, <1>4, <1>5 DEF Access

\* A step adds claims to the account it creates, to one whose id names another account too, or
\* as the reconciliation.
LEMMA ClaimsGrow ==
  ASSUME OwnershipInv, NEW r \in Provisions, Provision(r), NEW c \in Claims'
  PROVE  \/ c \in Claims
         \/ c = <<accounts + 1, scope[r]>>
         \/ ~Unambiguous(c[1])
         \/ /\ route'[r] = "reconcile" /\ pc'[r] = "done"
            /\ account'[r] = c[1] /\ scope'[r] = c[2]
<1> USE DEF OwnershipInv, TenantTypeOK
<1>1. CASE \/ ProvisionArrives(r) \/ ListAccounts(r) \/ ReadCredential(r) \/ StoreCredential(r)
           \/ ProvisionFails(r)
  BY <1>1 DEF ProvisionArrives, ListAccounts, ReadCredential, StoreCredential, ProvisionFails,
              Claims, rows
<1>2. CASE SearchAccount(r)
  <2>1. PICK a \in 0..accounts : account' = [account EXCEPT ![r] = a] /\ (a # 0 => Bound(a, scope[r]))
    BY <1>2, SearchFinds
  <2>2. UNCHANGED <<bindings, scope, route>>
    BY <1>2 DEF SearchAccount, rows
  <2>3. c \in Claims \/ (a # 0 /\ c = <<a, scope[r]>>)
    BY <2>1, <2>2 DEF Claims
  <2>4. ASSUME a # 0, Unambiguous(a)
        PROVE  <<a, scope[r]>> \in bindings
    <3>1. a \in Named(a)
      BY <2>1, <2>4 DEF Named
    <3>2. QED
      BY <2>1, <2>4, <3>1 DEF Bound, Unambiguous
  <2>5. <<a, scope[r]>>[1] = a
    OBVIOUS
  <2>6. QED
    BY <2>3, <2>4, <2>5 DEF Claims
<1>3. CASE FindBaron(r)
  <2>1. route[r] = "reconcile" /\ UNCHANGED <<bindings, scope, route>>
    BY <1>3 DEF FindBaron, rows, Working
  <2>2. \A p \in Provisions : p # r => account'[p] = account[p]
    BY <1>3 DEF FindBaron
  <2>3. {<<account'[p], scope[p]>> : p \in {x \in Provisions : account'[x] # 0 /\ route[x] # "reconcile"}}
          \subseteq {<<account[p], scope[p]>> :
                       p \in {x \in Provisions : account[x] # 0 /\ route[x] # "reconcile"}}
    BY <2>1, <2>2
  <2>4. QED
    BY <2>1, <2>3 DEF Claims
<1>4. CASE CreateAccount(r)
  BY <1>4 DEF CreateAccount, Claims
<1>5. CASE CreateBinding(r)
  <2>1. c \in Claims \/ c = <<account[r], scope[r]>>
    BY <1>5 DEF CreateBinding, Claims
  <2>2. account[r] # 0
    BY <1>5 DEF CreateBinding, Working
  <2>3. CASE route[r] = "reconcile"
    BY <1>5, <2>1, <2>3 DEF CreateBinding
  <2>4. CASE route[r] # "reconcile"
    BY <2>1, <2>2, <2>4 DEF Claims
  <2>5. QED
    BY <2>3, <2>4
<1>6. QED
  BY <1>1, <1>2, <1>3, <1>4, <1>5 DEF Provision

\* What a reconciliation has bound stays its work.
LEMMA ReconciledStays ==
  ASSUME TenantTypeOK, NEW r \in Provisions, Provision(r), NEW a, NEW s, NEW t, Reconciled(a, s, t)
  PROVE  Reconciled(a, s, t)'
<1>1. PICK p \in Provisions : /\ route[p] = "reconcile" /\ pc[p] = "done"
                              /\ account[p] = a /\ scope[p] \in {s, t}
  BY DEF Reconciled
<1>2. pc'[p] = "done" /\ account'[p] = account[p] /\ UNCHANGED <<route, scope>>
  BY <1>1 DEF Provision, ProvisionArrives, ListAccounts, SearchAccount, FindBaron, CreateAccount,
              ReadCredential, StoreCredential, CreateBinding, ProvisionFails, Idle, Finished, TenantTypeOK
<1>3. QED
  BY <1>1, <1>2 DEF Reconciled

\* A request keeps what it needs to go on.
LEMMA WorkingKept ==
  ASSUME OwnershipInv, NEW r \in Provisions, Provision(r), NEW p \in Provisions
  PROVE  Working(p)'
<1> USE DEF OwnershipInv, TenantTypeOK, Working, Finished
<1>1. CASE ProvisionArrives(r)
  <2>1. Identifiers' = Identifiers
    BY <1>1 DEF ProvisionArrives, rows, Identifiers
  <2>2. QED
    BY <1>1, <2>1 DEF ProvisionArrives, FirstQuery, Routes
<1>2. CASE SearchAccount(r)
  <2>1. PICK a \in 0..accounts : /\ account' = [account EXCEPT ![r] = a]
                                 /\ a = 0 => pc'[r] \in {"account", "search"}
    BY <1>2, SearchFinds
  <2>2. /\ pc[r] = "search" /\ pc'[r] \in {"credential", "account", "search"}
        /\ \A x \in Provisions \ {r} : pc'[x] = pc[x]
        /\ UNCHANGED <<rows, route, name>>
    BY <1>2 DEF SearchAccount
  <2>3. Identifiers' = Identifiers
    BY <2>2 DEF rows, Identifiers
  <2>4. route[r] # "reconcile"
    BY <2>2
  <2>5. QED
    BY <2>1, <2>2, <2>3, <2>4
<1>3. CASE ListAccounts(r)
  <2>1. Identifiers' = Identifiers
    BY <1>3 DEF ListAccounts, rows, Identifiers
  <2>2. QED
    BY <1>3, <2>1 DEF ListAccounts
<1>4. CASE FindBaron(r)
  <2>1. Identifiers' = Identifiers
    BY <1>4 DEF FindBaron, rows, Identifiers
  <2>2. \A a \in GetAccount(name[r]) : a # 0
    BY DEF GetAccount, Named
  <2>3. pc'[r] = "bind" => account'[r] # 0
    BY <1>4, <2>2 DEF FindBaron
  <2>4. /\ pc[r] = "find" /\ pc'[r] \in {"bind", "account"} /\ UNCHANGED <<route, name>>
        /\ \A x \in Provisions \ {r} : pc'[x] = pc[x] /\ account'[x] = account[x]
    BY <1>4 DEF FindBaron
  <2>5. QED
    BY <2>1, <2>3, <2>4
<1>5. CASE CreateAccount(r)
  <2>1. Identifiers \subseteq Identifiers'
    BY <1>5, NamesStay DEF Provision
  <2>2. QED
    BY <1>5, <2>1 DEF CreateAccount
<1>6. CASE ReadCredential(r)
  BY <1>6 DEF ReadCredential, rows, Identifiers
<1>7. CASE StoreCredential(r) \/ CreateBinding(r) \/ ProvisionFails(r)
  BY <1>7 DEF StoreCredential, CreateBinding, ProvisionFails, rows, Identifiers
<1>8. QED
  BY <1>1, <1>2, <1>3, <1>4, <1>5, <1>6, <1>7 DEF Provision

LEMMA OwnershipStep ==
  ASSUME OwnershipInv, [TenantNext]_tenantVars
  PROVE  OwnershipInv'
<1>1. CASE \E r \in Provisions : Provision(r)
  <2>1. PICK r \in Provisions : Provision(r)
    BY <1>1
  <2>2. TenantTypeOK'
    BY <2>1, ProvisionTypes DEF OwnershipInv
  <2>3. ASSUME NEW c \in Claims', NEW d \in Claims',
               c[1] = d[1], c[2] # d[2], Unambiguous(c[1])'
        PROVE  Reconciled(c[1], c[2], d[2])'
    <3>1. \A e \in Claims : e[1] # accounts + 1
      <4>1. Claims \subseteq (1..accounts) \X Scopes /\ accounts \in Nat
        BY ClaimsTyped DEF OwnershipInv, TenantTypeOK
      <4>2. QED
        BY <4>1
    <3>2. Unambiguous(c[1])
      BY <2>1, <2>3, NamesStay DEF Unambiguous, OwnershipInv
    <3>3. CASE c \in Claims /\ d \in Claims
      <4>1. Reconciled(c[1], c[2], d[2])
        BY <2>3, <3>2, <3>3 DEF OwnershipInv, Agree
      <4>2. QED
        BY <2>1, <4>1, ReconciledStays DEF OwnershipInv
    <3>4. CASE c \notin Claims \/ d \notin Claims
      <4>1. \E e \in {c, d} : /\ route'[r] = "reconcile" /\ pc'[r] = "done"
                              /\ account'[r] = e[1] /\ scope'[r] = e[2]
        <5>1. c \notin Claims => \/ c = <<accounts + 1, scope[r]>>
                                 \/ /\ route'[r] = "reconcile" /\ pc'[r] = "done"
                                    /\ account'[r] = c[1] /\ scope'[r] = c[2]
          BY <2>1, <3>2, ClaimsGrow
        <5>2. d \notin Claims => \/ d = <<accounts + 1, scope[r]>>
                                 \/ /\ route'[r] = "reconcile" /\ pc'[r] = "done"
                                    /\ account'[r] = d[1] /\ scope'[r] = d[2]
          BY <2>1, <2>3, <3>2, ClaimsGrow
        <5>3. QED
          BY <2>3, <3>1, <3>4, <5>1, <5>2
      <4>2. QED
        BY <2>1, <2>3, <4>1 DEF Reconciled
    <3>5. QED
      BY <3>3, <3>4
  <2>4. QED
    BY <2>1, <2>2, <2>3, WorkingKept DEF OwnershipInv, Agree
<1>2. CASE \E q \in Requests : Access(q)
  <2>1. TenantTypeOK'
    BY <1>2, AccessTypes DEF OwnershipInv
  <2>2. UNCHANGED <<rows, provisionVars>>
    BY <1>2 DEF Access, TokenRequest, LegacyRequest, ResolveTenantScope, RequireAccountAccess,
                AccountFound, AccessFails
  <2>3. QED
    BY <2>1, <2>2 DEF OwnershipInv, Claims, Agree, Reconciled, Unambiguous, Named, Identifiers, Working,
                      rows, provisionVars
<1>3. CASE UNCHANGED tenantVars
  <2>1. UNCHANGED <<rows, provisionVars>> /\ TenantTypeOK'
    BY <1>3 DEF OwnershipInv, TenantTypeOK, Identifiers, tenantVars, rows, provisionVars, accessVars
  <2>2. QED
    BY <2>1 DEF OwnershipInv, Claims, Agree, Reconciled, Unambiguous, Named, Identifiers, Working,
                rows, provisionVars
<1>4. QED
  BY <1>1, <1>2, <1>3 DEF TenantNext

\* Ownership holds from the start.
LEMMA OwnershipInvariant == TenantSpec => []OwnershipInv
<1>1. TenantInit => OwnershipInv
  <2>1. TenantInit => Claims = {}
    BY DEF TenantInit, Claims
  <2>2. TenantInit => \A r \in Provisions : Working(r)
    BY DEF TenantInit, Working
  <2>3. QED
    BY <2>1, <2>2, TenantInitTypes DEF OwnershipInv
<1>2. OwnershipInv /\ [TenantNext]_tenantVars => OwnershipInv'
  BY OwnershipStep
<1>3. QED
  BY <1>1, <1>2, PTL DEF TenantSpec

\* TenantTypeOK: every row and every request of routes/accounts.ts keeps its type; no binding
\* names an account that does not exist.
THEOREM TenantTypes == TenantSpec => []TenantTypeOK
<1>1. OwnershipInv => TenantTypeOK
  BY DEF OwnershipInv
<1>2. QED
  BY <1>1, OwnershipInvariant, PTL

\* SharedByReconciliation: however POST /accounts, POST /accounts/bootstrap and the reconciliation
\* interleave and fail, an account that serves two scopes, and whose id is no other account's
\* label, was given one of them by the reconciliation.
THEOREM SharingIsReconciled == TenantSpec => []SharedByReconciliation
<1>1. OwnershipInv => SharedByReconciliation
  BY DEF OwnershipInv, SharedByReconciliation, Claims, Agree, Reconciled
<1>2. QED
  BY <1>1, OwnershipInvariant, PTL

-----------------------------------------------------------------------------
\* A request that got past resolveTenantScope acts for the scope of its token, and one that got
\* past the check names an account of that scope; a replaced token is nowhere, and its request
\* will not store it again.
Admitted(q) ==
  /\ access[q] = "new" => token[q] = None /\ ~replaced[q]
  /\ access[q] \in {"bindings", "granted", "acting"} /\ token[q] # None
       => actsFor[q] = scope[token[q]]
  /\ access[q] \in {"granted", "acting"} => Bound(target[q], actsFor[q])
  /\ access[q] = "acting" => actsOn[q] \in Named(target[q])
  /\ replaced[q] => /\ token[q] \in Provisions /\ pc[token[q]] = "done"
                    /\ \A c \in credentials : c[2] # token[q]
                    /\ access[q] \notin {"bindings", "granted", "acting"}

\* A token's row is its request's.
AccessInv ==
  /\ \A c \in credentials : c[1] = scope[c[2]] /\ c[2] = latest[c[1]]
  /\ \A q \in Requests : Admitted(q)

\* Only issueTenantCredential writes a token.
LEMMA TokensStored ==
  ASSUME TenantTypeOK, NEW r \in Provisions, Provision(r)
  PROVE  \A c \in credentials' : \/ c \in credentials /\ latest'[c[1]] = latest[c[1]]
                                 \/ c = <<scope[r], r>> /\ pc[r] = "store" /\ latest'[scope[r]] = r
<1>1. CASE StoreCredential(r)
  <2>1. ASSUME NEW c \in credentials', c \notin credentials \/ c[1] = scope[r]
        PROVE  c = <<scope[r], r>>
    BY <1>1, <2>1 DEF StoreCredential, Credentials
  <2>2. latest' = [latest EXCEPT ![scope[r]] = r] /\ pc[r] = "store" /\ scope[r] \in Scopes
    BY <1>1 DEF StoreCredential, TenantTypeOK
  <2>3. \A c \in credentials' : c \in credentials => c[1] \in Scopes
    BY DEF TenantTypeOK
  <2>4. QED
    BY <2>1, <2>2, <2>3 DEF TenantTypeOK
<1>2. CASE UNCHANGED <<credentials, latest>>
  BY <1>2
<1>3. StoreCredential(r) \/ UNCHANGED <<credentials, latest>>
  BY DEF Provision, ProvisionArrives, ListAccounts, SearchAccount, FindBaron, CreateAccount,
         ReadCredential, CreateBinding, ProvisionFails, rows
<1>4. QED
  BY <1>1, <1>2, <1>3

LEMMA AccessStep ==
  ASSUME TenantTypeOK, AccessInv, [TenantNext]_tenantVars
  PROVE  AccessInv'
<1>1. ASSUME NEW r \in Provisions, Provision(r)
      PROVE  AccessInv'
  <2> USE DEF TenantTypeOK, AccessInv, Admitted
  <2>1. UNCHANGED <<accessVars, scope>> /\ bindings \subseteq bindings'
    BY <1>1 DEF Provision, ProvisionArrives, ListAccounts, SearchAccount, FindBaron, CreateAccount,
                ReadCredential, StoreCredential, CreateBinding, ProvisionFails, rows
  <2>2. \A t \in Provisions : pc[t] = "done" => pc'[t] = "done"
    BY <1>1 DEF Provision, ProvisionArrives, ListAccounts, SearchAccount, FindBaron, CreateAccount,
                ReadCredential, StoreCredential, CreateBinding, ProvisionFails, Idle, Finished
  <2>3. \A c \in credentials' : \/ c \in credentials /\ latest'[c[1]] = latest[c[1]]
                                \/ c = <<scope[r], r>> /\ pc[r] = "store" /\ latest'[scope[r]] = r
    BY <1>1, TokensStored
  <2>4. \A n, s : /\ Bound(n, s) => Bound(n, s)'
                  /\ Named(n) \subseteq Named(n)'
    BY <1>1, <2>1, NamesStay DEF Bound
  <2>5. \A q \in Requests : replaced[q] => token[q] # r \/ pc[r] # "store"
    OBVIOUS
  <2>6. QED
    BY <2>1, <2>2, <2>3, <2>4, <2>5 DEF accessVars
<1>2. ASSUME NEW q \in Requests, Access(q)
      PROVE  AccessInv'
  <2>1. UNCHANGED <<rows, provisionVars>>
    BY <1>2 DEF Access, TokenRequest, LegacyRequest, ResolveTenantScope, RequireAccountAccess,
                AccountFound, AccessFails
  <2>2. /\ \A n, s : Bound(n, s)' = Bound(n, s) /\ Named(n)' = Named(n)
        /\ UNCHANGED <<credentials, latest, pc, scope>>
    BY <2>1 DEF Bound, Named, rows, provisionVars
  <2>3. \A p \in Requests \ {q} :
          /\ access'[p] = access[p] /\ token'[p] = token[p] /\ target'[p] = target[p]
          /\ actsFor'[p] = actsFor[p] /\ actsOn'[p] = actsOn[p] /\ replaced'[p] = replaced[p]
    BY <1>2 DEF Access, TokenRequest, LegacyRequest, ResolveTenantScope, RequireAccountAccess,
                AccountFound, AccessFails, TenantTypeOK
  <2>4. \A p \in Requests \ {q} : Admitted(p)'
    BY <2>2, <2>3 DEF AccessInv, Admitted
  <2>5. Admitted(q)'
    <3> USE DEF AccessInv, Admitted, TenantTypeOK
    <3>1. CASE \E t \in Provisions, n \in Identifiers : TokenRequest(q, t, n)
      <4>1. PICK t \in Provisions, n \in Identifiers : TokenRequest(q, t, n)
        BY <3>1
      <4>2. /\ access'[q] = "scope" /\ token'[q] = t /\ pc[t] = "done"
            /\ replaced'[q] => latest[scope[t]] # t
        BY <4>1 DEF TokenRequest, Handed
      <4>3. QED
        BY <4>2, <2>2
    <3>2. CASE \E s \in Scopes, n \in Identifiers : LegacyRequest(q, s, n)
      <4>1. /\ access[q] = "new" /\ access'[q] \in {"bindings", "refused"}
            /\ token'[q] = token[q] /\ replaced'[q] = replaced[q]
        BY <3>2 DEF LegacyRequest
      <4>2. QED
        BY <4>1
    <3>3. CASE ResolveTenantScope(q)
      <4>1. /\ access[q] = "scope" /\ token'[q] = token[q] /\ replaced'[q] = replaced[q]
            /\ \/ /\ access'[q] = "bindings"
                  /\ \E c \in credentials : c[2] = token[q] /\ actsFor'[q] = c[1]
               \/ access'[q] = "refused"
        BY <3>3 DEF ResolveTenantScope
      <4>2. QED
        BY <4>1, <2>2
    <3>4. CASE RequireAccountAccess(q)
      <4>1. /\ access[q] = "bindings" /\ token'[q] = token[q] /\ target'[q] = target[q]
            /\ actsFor'[q] = actsFor[q] /\ replaced'[q] = replaced[q]
            /\ access'[q] = IF Bound(target[q], actsFor[q]) THEN "granted" ELSE "refused"
        BY <3>4 DEF RequireAccountAccess
      <4>2. QED
        BY <4>1, <2>2
    <3>5. CASE AccountFound(q)
      <4>1. /\ access[q] = "granted" /\ access'[q] = "acting" /\ actsOn'[q] \in GetAccount(target[q])
            /\ token'[q] = token[q] /\ target'[q] = target[q]
            /\ actsFor'[q] = actsFor[q] /\ replaced'[q] = replaced[q]
        BY <3>5 DEF AccountFound
      <4>2. GetAccount(target[q]) \subseteq Named(target[q])
        BY DEF GetAccount, Named
      <4>3. QED
        BY <4>1, <4>2, <2>2
    <3>6. CASE AccessFails(q)
      <4>1. /\ access[q] # "new" /\ access'[q] = "refused"
            /\ token'[q] = token[q] /\ replaced'[q] = replaced[q]
        BY <3>6 DEF AccessFails
      <4>2. QED
        BY <4>1, <2>2
    <3>7. QED
      BY <1>2, <3>1, <3>2, <3>3, <3>4, <3>5, <3>6 DEF Access
  <2>6. QED
    BY <2>2, <2>4, <2>5 DEF AccessInv
<1>3. CASE UNCHANGED tenantVars
  BY <1>3 DEF tenantVars, rows, provisionVars, accessVars, AccessInv, Admitted, Bound, Named
<1>4. QED
  BY <1>1, <1>2, <1>3 DEF TenantNext

LEMMA AccessInvariant == TenantSpec => []AccessInv
<1>1. TenantInit => AccessInv
  BY DEF TenantInit, AccessInv, Admitted
<1>2. TenantTypeOK /\ AccessInv /\ [TenantNext]_tenantVars => AccessInv'
  BY AccessStep
<1>3. QED
  BY <1>1, <1>2, TenantTypes, PTL DEF TenantSpec

\* GrantedToOwner: requireAccountAccess and the getAccount of the route behind it look an account
\* up in two queries; by a name that is no other account's, a request with a token acts on an
\* account bound to the scope the token was issued to.
THEOREM GrantsToOwners == TenantSpec => []GrantedToOwner
<1>1. AccessInv => GrantedToOwner
  BY DEF AccessInv, Admitted, GrantedToOwner, Bound, Unambiguous
<1>2. QED
  BY <1>1, AccessInvariant, PTL

\* ReplacedTokenRefused: a token that a rotation replaced before a request comes in opens nothing.
THEOREM ReplacedTokensRefused == TenantSpec => []ReplacedTokenRefused
<1>1. AccessInv => ReplacedTokenRefused
  BY DEF AccessInv, Admitted, ReplacedTokenRefused
<1>2. QED
  BY <1>1, AccessInvariant, PTL

-----------------------------------------------------------------------------
\* What a request saw on arrival still stands: a scope keeps having a token and an account, and
\* bootstrap has not passed over the account yet.
Remembered(r) ==
  /\ hadToken[r] => Credentials(scope[r]) # {}
  /\ hadToken[r] /\ pc[r] = "store" => route[r] = "rotate"
  /\ wasBound[r] /\ route[r] = "bootstrap" =>
       /\ \E a \in 1..accounts : <<a, scope[r]>> \in bindings
       /\ pc[r] = "search" => \E a \in todo[r] : Bound(a, scope[r])
       /\ pc[r] # "account"

ArrivalInv == \A r \in Provisions : Remembered(r)

LEMMA RowsStay ==
  ASSUME TenantTypeOK, NEW r \in Provisions, Provision(r)
  PROVE  /\ \A s \in Scopes : Credentials(s) # {} => Credentials(s)' # {}
         /\ bindings \subseteq bindings' /\ 1..accounts \subseteq 1..accounts'
         /\ \A n, s : Bound(n, s) => Bound(n, s)'
         /\ UNCHANGED <<route, scope>>
<1>1. UNCHANGED <<route, scope>> /\ bindings \subseteq bindings'
  BY DEF Provision, ProvisionArrives, ListAccounts, SearchAccount, FindBaron, CreateAccount,
         ReadCredential, StoreCredential, CreateBinding, ProvisionFails, rows
<1>2. ASSUME NEW s \in Scopes, Credentials(s) # {}
      PROVE  Credentials(s)' # {}
  <2>1. CASE StoreCredential(r)
    <3>1. CASE s = scope[r]
      <4>1. <<s, r>> \in credentials'
        BY <2>1, <3>1 DEF StoreCredential
      <4>2. QED
        BY <4>1 DEF Credentials
    <3>2. CASE s # scope[r]
      BY <1>2, <2>1, <3>2 DEF StoreCredential, Credentials, TenantTypeOK
    <3>3. QED
      BY <3>1, <3>2
  <2>2. CASE ~StoreCredential(r)
    BY <1>2, <2>2 DEF Provision, ProvisionArrives, ListAccounts, SearchAccount, FindBaron, CreateAccount,
                      ReadCredential, CreateBinding, ProvisionFails, rows, Credentials
  <2>3. QED
    BY <2>1, <2>2
<1>3. 1..accounts \subseteq 1..accounts' /\ \A n : Named(n) \subseteq Named(n)'
  BY NamesStay
<1>4. QED
  BY <1>1, <1>2, <1>3 DEF Bound

LEMMA OwnArrival ==
  ASSUME TenantTypeOK, NEW r \in Provisions, Provision(r), Working(r), Remembered(r)
  PROVE  Remembered(r)'
<1> USE DEF TenantTypeOK, Remembered
<1>1. CASE ProvisionArrives(r)
  <2>1. /\ hadToken'[r] = (Credentials(scope[r]) # {})
        /\ wasBound'[r] = (\E b \in bindings : b[2] = scope[r])
        /\ UNCHANGED <<rows, route, scope>>
    BY <1>1 DEF ProvisionArrives
  <2>2. pc'[r] # "store" /\ pc'[r] # "search" /\ (route[r] = "bootstrap" => pc'[r] # "account")
    BY <1>1 DEF ProvisionArrives, FirstQuery, Routes
  <2>3. UNCHANGED <<accounts, bindings, Credentials(scope[r])>>
    BY <2>1 DEF rows, Credentials
  <2>4. wasBound'[r] => \E a \in 1..accounts : <<a, scope[r]>> \in bindings
    <3>1. ASSUME wasBound'[r]
          PROVE  \E a \in 1..accounts : <<a, scope[r]>> \in bindings
      <4>1. PICK b \in bindings : b[2] = scope[r]
        BY <2>1, <3>1
      <4>2. b[1] \in 1..accounts /\ b = <<b[1], b[2]>>
        BY bindings \subseteq (1..accounts) \X Scopes
      <4>3. QED
        BY <4>1, <4>2
    <3>2. QED
      BY <3>1
  <2>5. QED
    BY <2>1, <2>2, <2>3, <2>4 DEF rows
<1>2. CASE ListAccounts(r)
  <2>1. UNCHANGED <<rows, route, scope, hadToken, wasBound>>
    BY <1>2 DEF ListAccounts
  <2>2. /\ todo'[r] = 1..accounts
        /\ accounts = 0 => pc'[r] = "account"
        /\ accounts # 0 => pc'[r] = "search"
    BY <1>2 DEF ListAccounts
  <2>3. UNCHANGED <<accounts, label, bindings, Credentials(scope[r])>>
    BY <2>1 DEF rows, Credentials
  <2>4. \A a \in 1..accounts : <<a, scope[r]>> \in bindings => accounts # 0 /\ Bound(a, scope[r])
    <3>1. \A a \in 1..accounts : accounts # 0 /\ a \in Named(a)
      BY DEF Named
    <3>2. QED
      BY <3>1 DEF Bound
  <2>5. \A a : Bound(a, scope[r])' = Bound(a, scope[r])
    BY <2>1 DEF rows, Bound, Named
  <2>6. QED
    BY <2>1, <2>2, <2>3, <2>4, <2>5
<1>3. CASE SearchAccount(r)
  <2>1. UNCHANGED <<rows, route, scope, hadToken, wasBound>> /\ pc[r] = "search"
    BY <1>3 DEF SearchAccount
  <2>2. PICK candidate \in Newest(todo[r]) :
          /\ todo'[r] = todo[r] \ {candidate}
          /\ pc'[r] = IF Bound(candidate, scope[r]) THEN "credential"
                      ELSE IF todo[r] \ {candidate} = {} THEN "account" ELSE "search"
    BY <1>3 DEF SearchAccount
  <2>3. /\ pc'[r] # "store"
        /\ pc'[r] = "search" => ~Bound(candidate, scope[r])
        /\ pc'[r] = "account" => ~Bound(candidate, scope[r]) /\ todo[r] \ {candidate} = {}
    BY <2>2
  <2>4. \A a : Bound(a, scope[r])' = Bound(a, scope[r])
    BY <2>1 DEF rows, Bound, Named
  <2>5. UNCHANGED <<accounts, bindings, Credentials(scope[r])>>
    BY <2>1 DEF rows, Credentials
  <2>6. QED
    BY <2>1, <2>2, <2>3, <2>4, <2>5
<1>4. CASE ReadCredential(r)
  BY <1>4 DEF ReadCredential, rows, Credentials, Bound, Named
<1>5. CASE FindBaron(r) \/ ProvisionFails(r) \/ CreateAccount(r) \/ StoreCredential(r) \/ CreateBinding(r)
  <2>1. /\ UNCHANGED <<todo, hadToken, wasBound>>
        /\ pc'[r] # "store" /\ pc'[r] # "search" /\ (pc'[r] = "account" => pc[r] = "find")
    BY <1>5 DEF FindBaron, ProvisionFails, CreateAccount, StoreCredential, CreateBinding
  <2>2. QED
    BY <2>1, RowsStay DEF Working
<1>6. QED
  BY <1>1, <1>2, <1>3, <1>4, <1>5 DEF Provision

LEMMA ArrivalStep ==
  ASSUME OwnershipInv, ArrivalInv, NEW r \in Provisions, Provision(r)
  PROVE  ArrivalInv'
<1>1. Remembered(r)'
  BY OwnArrival DEF ArrivalInv, OwnershipInv
<1>2. ASSUME NEW p \in Provisions, p # r
      PROVE  Remembered(p)'
  <2>1. /\ pc'[p] = pc[p] /\ todo'[p] = todo[p]
        /\ hadToken'[p] = hadToken[p] /\ wasBound'[p] = wasBound[p]
    BY <1>2 DEF Provision, ProvisionArrives, ListAccounts, SearchAccount, FindBaron, CreateAccount,
                ReadCredential, StoreCredential, CreateBinding, ProvisionFails, OwnershipInv, TenantTypeOK
  <2>2. QED
    BY <2>1, RowsStay DEF ArrivalInv, Remembered, OwnershipInv, TenantTypeOK
<1>3. QED
  BY <1>1, <1>2 DEF ArrivalInv

LEMMA ArrivalInvariant == TenantSpec => []ArrivalInv
<1>1. TenantInit => ArrivalInv
  BY DEF TenantInit, ArrivalInv, Remembered
<1>2. OwnershipInv /\ ArrivalInv /\ [TenantNext]_tenantVars => ArrivalInv'
  <2>1. ASSUME ArrivalInv, UNCHANGED <<rows, provisionVars>>
        PROVE  ArrivalInv'
    BY <2>1 DEF ArrivalInv, Remembered, Credentials, Bound, Named, rows, provisionVars
  <2>2. (\E q \in Requests : Access(q)) => UNCHANGED <<rows, provisionVars>>
    BY DEF Access, TokenRequest, LegacyRequest, ResolveTenantScope, RequireAccountAccess, AccountFound, AccessFails
  <2>3. QED
    BY <2>1, <2>2, ArrivalStep DEF TenantNext, tenantVars
<1>3. QED
  BY <1>1, <1>2, OwnershipInvariant, PTL DEF TenantSpec

\* BootstrapReuses: bootstrap never creates an account for a tenant that had one when it was called.
THEOREM BootstrapReusesAccount == TenantSpec => []BootstrapReuses
<1>1. ArrivalInv => BootstrapReuses
  BY DEF ArrivalInv, Remembered, BootstrapReuses
<1>2. QED
  BY <1>1, ArrivalInvariant, PTL

\* TokenKept: only a rotation, or a call that raced the first issue, replaces a tenant's token.
THEOREM TokensKept == TenantSpec => TokenKept
<1>1. TenantTypeOK /\ ArrivalInv /\ [TenantNext]_tenantVars =>
        [\A r \in Provisions : issued'[r] /\ ~issued[r] /\ hadToken[r] => route[r] = "rotate"]_tenantVars
  <2> SUFFICES ASSUME TenantTypeOK, ArrivalInv, TenantNext,
                      NEW p \in Provisions, issued'[p] /\ ~issued[p] /\ hadToken[p]
               PROVE  route[p] = "rotate"
    OBVIOUS
  <2>1. CASE \E q \in Requests : Access(q)
    BY <2>1 DEF Access, TokenRequest, LegacyRequest, ResolveTenantScope, RequireAccountAccess,
                AccountFound, AccessFails, provisionVars
  <2>2. ASSUME NEW r \in Provisions, Provision(r)
        PROVE  pc[p] = "store"
    BY <2>2 DEF Provision, ProvisionArrives, ListAccounts, SearchAccount, FindBaron, CreateAccount,
                ReadCredential, StoreCredential, CreateBinding, ProvisionFails, TenantTypeOK
  <2>3. QED
    BY <2>1, <2>2 DEF TenantNext, ArrivalInv, Remembered
<1>2. QED
  BY <1>1, TenantTypes, ArrivalInvariant, PTL DEF TenantSpec, TokenKept

-----------------------------------------------------------------------------
\* A route that comes to its binding or its answer has a token behind it, and a route that
\* binds an account has bound it by its answer.
Answering(r) ==
  /\ pc[r] \in {"bind", "done"} /\ route[r] # "reconcile" => Credentials(scope[r]) # {}
  /\ pc[r] = "done" /\ route[r] \in {"bootstrap", "create", "reconcile"}
       => <<account[r], scope[r]>> \in bindings

AnswerInv == \A r \in Provisions : Answering(r)

LEMMA OwnAnswer ==
  ASSUME TenantTypeOK, NEW r \in Provisions, Provision(r), Answering(r), Working(r)
  PROVE  Answering(r)'
<1> USE DEF TenantTypeOK, Answering
<1>1. CASE ProvisionArrives(r)
  BY <1>1 DEF ProvisionArrives, FirstQuery, Routes
<1>2. CASE ListAccounts(r) \/ FindBaron(r) \/ ProvisionFails(r)
  BY <1>2 DEF ListAccounts, FindBaron, ProvisionFails, Working
<1>3. CASE SearchAccount(r)
  <2>1. pc[r] = "search" /\ pc'[r] \in {"credential", "account", "search"} /\ UNCHANGED route
    BY <1>3 DEF SearchAccount
  <2>2. QED
    BY <2>1
<1>4. CASE CreateAccount(r)
  BY <1>4 DEF CreateAccount
<1>5. CASE ReadCredential(r)
  BY <1>5 DEF ReadCredential, rows, Credentials, Working
<1>6. CASE StoreCredential(r)
  <2>1. <<scope[r], r>> \in Credentials(scope[r])' /\ UNCHANGED <<route, scope>>
    BY <1>6 DEF StoreCredential, Credentials
  <2>2. /\ pc[r] = "store"
        /\ pc'[r] = IF route[r] \in {"token", "rotate"} THEN "done" ELSE "bind"
    BY <1>6 DEF StoreCredential
  <2>3. QED
    BY <2>1, <2>2
<1>7. CASE CreateBinding(r)
  BY <1>7, RowsStay DEF CreateBinding
<1>8. QED
  BY <1>1, <1>2, <1>3, <1>4, <1>5, <1>6, <1>7 DEF Provision

LEMMA AnswerStep ==
  ASSUME OwnershipInv, AnswerInv, NEW r \in Provisions, Provision(r)
  PROVE  AnswerInv'
<1>1. Answering(r)'
  BY OwnAnswer DEF AnswerInv, OwnershipInv
<1>2. ASSUME NEW p \in Provisions, p # r
      PROVE  Answering(p)'
  <2>1. pc'[p] = pc[p] /\ account'[p] = account[p]
    BY <1>2 DEF Provision, ProvisionArrives, ListAccounts, SearchAccount, FindBaron, CreateAccount,
                ReadCredential, StoreCredential, CreateBinding, ProvisionFails, OwnershipInv,
                TenantTypeOK
  <2>2. QED
    BY <2>1, RowsStay DEF AnswerInv, Answering, OwnershipInv, TenantTypeOK
<1>3. QED
  BY <1>1, <1>2 DEF AnswerInv

LEMMA AnswerInvariant == TenantSpec => []AnswerInv
<1>1. TenantInit => AnswerInv
  BY DEF TenantInit, AnswerInv, Answering
<1>2. OwnershipInv /\ AnswerInv /\ [TenantNext]_tenantVars => AnswerInv'
  <2>1. ASSUME AnswerInv, UNCHANGED <<rows, provisionVars>>
        PROVE  AnswerInv'
    BY <2>1 DEF AnswerInv, Answering, Credentials, rows, provisionVars
  <2>2. (\E q \in Requests : Access(q)) => UNCHANGED <<rows, provisionVars>>
    BY DEF Access, TokenRequest, LegacyRequest, ResolveTenantScope, RequireAccountAccess,
           AccountFound, AccessFails
  <2>3. QED
    BY <2>1, <2>2, AnswerStep DEF TenantNext, tenantVars
<1>3. QED
  BY <1>1, <1>2, OwnershipInvariant, PTL DEF TenantSpec

\* AnswersStand: what POST /accounts, POST /accounts/bootstrap, POST /accounts/tenant-token and the
\* reconciliation have answered stays true, and the token stored last is the one that works.
THEOREM ProvisioningStands == TenantSpec => []AnswersStand
<1>1. TenantTypeOK /\ AccessInv /\ AnswerInv => AnswersStand
  <2> SUFFICES ASSUME TenantTypeOK, AccessInv, AnswerInv, NEW r \in Provisions, pc[r] = "done",
                      route[r] # "reconcile"
               PROVE  Credentials(scope[r]) = {<<scope[r], latest[scope[r]]>>}
    BY DEF AnswersStand, AnswerInv, Answering
  <2>1. Credentials(scope[r]) # {}
    BY DEF AnswerInv, Answering
  <2>2. \A c \in Credentials(scope[r]) : c = <<scope[r], latest[scope[r]]>>
    BY DEF Credentials, AccessInv, TenantTypeOK
  <2>3. QED
    BY <2>1, <2>2
<1>2. QED
  BY <1>1, TenantTypes, AccessInvariant, AnswerInvariant, PTL

=============================================================================
