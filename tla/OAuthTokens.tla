------------------------------- MODULE OAuthTokens -------------------------------
(***************************************************************************)
(* The OAuth endpoints of the MCP server (mcp/oauth.ts): authorization     *)
(* codes, the pairs of an access and a refresh token they are exchanged    *)
(* for, and the check of an MCP request's access token (routes/mcp.ts).    *)
(*                                                                         *)
(* A token request that is refused changes nothing and is left out, except *)
(* the one whose verifier is wrong: it has consumed the code.              *)
(***************************************************************************)
EXTENDS Naturals, FiniteSets

CONSTANTS
  Codes,   \* authorization codes
  Pairs,   \* token pairs
  Grants   \* POST /oauth/token requests under way at a time

VARIABLES
  codes,        \* mcp_oauth_codes
  stored,       \* pairs with a row in mcp_oauth_tokens
  revoked,      \* those with revoked_at set
  stale,        \* those with access_expires_at past
  lapsed,       \* those with refresh_expires_at past
  origin,       \* history: the code a pair goes back to
  grantPc,      \* where each token request is
  grantCode,    \* history: the code it goes back to
  grantRefresh, \* the pair it refreshes
  raced         \* history: codes that had one pair refreshed by two requests at once

pairVars  == <<stored, revoked, stale, lapsed, origin>>
grantVars == <<grantPc, grantCode, grantRefresh>>
oauthVars == <<codes, pairVars, grantVars, raced>>

None == "none"

ASSUME NoneAssumption == None \notin Codes \cup Pairs

OAuthTypeOK ==
  /\ codes \in [Codes -> {"unused", "stored", "expired", "gone"}]
  /\ stored \in SUBSET Pairs
  /\ revoked \in SUBSET stored
  /\ stale \in SUBSET stored
  /\ lapsed \in SUBSET stale
  /\ origin \in [Pairs -> Codes \cup {None}]
  /\ \A p \in stored : origin[p] \in Codes
  /\ grantPc \in [Grants -> {"idle", "update", "insert"}]
  /\ grantCode \in [Grants -> Codes \cup {None}]
  /\ \A g \in Grants : grantPc[g] # "idle" => grantCode[g] \in Codes
  /\ grantRefresh \in [Grants -> Pairs \cup {None}]
  /\ \A g \in Grants : grantPc[g] = "update" => grantRefresh[g] \in stored
  /\ raced \in SUBSET Codes

OAuthInit ==
  /\ codes = [c \in Codes |-> "unused"]
  /\ stored = {} /\ revoked = {} /\ stale = {} /\ lapsed = {}
  /\ origin = [p \in Pairs |-> None]
  /\ grantPc = [g \in Grants |-> "idle"]
  /\ grantCode = [g \in Grants |-> None]
  /\ grantRefresh = [g \in Grants |-> None]
  /\ raced = {}

-----------------------------------------------------------------------------
\* POST /oauth/authorize with the right password.
OAuthAuthorize(c) ==
  /\ codes[c] = "unused"
  /\ codes' = [codes EXCEPT ![c] = "stored"]
  /\ UNCHANGED <<pairVars, grantVars, raced>>

CodeExpires(c) ==
  /\ codes[c] = "stored"
  /\ codes' = [codes EXCEPT ![c] = "expired"]
  /\ UNCHANGED <<pairVars, grantVars, raced>>

\* authorization_code: the DELETE returns the code, and the verifier is compared
\* with its challenge.
ExchangeCode(g, c, verifies) ==
  /\ grantPc[g] = "idle"
  /\ codes[c] = "stored"
  /\ codes' = [codes EXCEPT ![c] = "gone"]
  /\ IF verifies THEN /\ grantPc' = [grantPc EXCEPT ![g] = "insert"]
                      /\ grantCode' = [grantCode EXCEPT ![g] = c]
                 ELSE UNCHANGED <<grantPc, grantCode>>
  /\ UNCHANGED <<pairVars, grantRefresh, raced>>

\* The access token of a pair is admitted to /mcp.
VerifyAccessToken(p) == p \in stored \ (revoked \cup stale)

\* Its refresh token is exchanged.
Refreshable(p) == p \in stored \ (revoked \cup lapsed)

Works(p) == VerifyAccessToken(p) \/ Refreshable(p)

\* A refresh that forgets what it is to revoke and issue again.
RefreshReadOnly(g, p) ==
  /\ grantPc[g] = "idle"
  /\ Refreshable(p)
  /\ grantPc' = [grantPc EXCEPT ![g] = "update"]
  /\ UNCHANGED <<codes, pairVars, grantCode, grantRefresh, raced>>

\* refresh_token: the SELECT returns a pair that is neither revoked nor expired.  The client
\* that asks authenticates itself; that the pair is its own is not compared.
RefreshRead(g, p) ==
  /\ grantPc[g] = "idle"
  /\ Refreshable(p)
  /\ grantPc' = [grantPc EXCEPT ![g] = "update"]
  /\ grantCode' = [grantCode EXCEPT ![g] = origin[p]]
  /\ grantRefresh' = [grantRefresh EXCEPT ![g] = p]
  /\ raced' = IF \E h \in Grants : grantPc[h] = "update" /\ grantRefresh[h] = p
              THEN raced \cup {origin[p]} ELSE raced
  /\ UNCHANGED <<codes, pairVars>>

\* A refresh that goes on without the UPDATE.
RefreshNotRevoked(g) ==
  /\ grantPc[g] = "update"
  /\ grantPc' = [grantPc EXCEPT ![g] = "insert"]
  /\ UNCHANGED <<codes, pairVars, grantCode, grantRefresh, raced>>

\* The UPDATE commits.
RefreshRevoked(g) ==
  /\ grantPc[g] = "update"
  /\ revoked' = revoked \cup {grantRefresh[g]}
  /\ grantPc' = [grantPc EXCEPT ![g] = "insert"]
  /\ UNCHANGED <<codes, stored, stale, lapsed, origin, grantCode, grantRefresh, raced>>

\* issueTokens commits its INSERT and answers.
IssueTokens(g, p) ==
  /\ grantPc[g] = "insert"
  /\ p \notin stored
  /\ stored' = stored \cup {p}
  /\ origin' = [origin EXCEPT ![p] = grantCode[g]]
  /\ grantPc' = [grantPc EXCEPT ![g] = "idle"]
  /\ grantCode' = [grantCode EXCEPT ![g] = None]
  /\ grantRefresh' = [grantRefresh EXCEPT ![g] = None]
  /\ UNCHANGED <<codes, revoked, stale, lapsed, raced>>

\* A query is rejected, or the process ends: what was committed stays.
GrantFails(g) ==
  /\ grantPc[g] # "idle"
  /\ grantPc' = [grantPc EXCEPT ![g] = "idle"]
  /\ grantCode' = [grantCode EXCEPT ![g] = None]
  /\ grantRefresh' = [grantRefresh EXCEPT ![g] = None]
  /\ UNCHANGED <<codes, pairVars, raced>>

AccessExpires(p) ==
  /\ p \in stored \ stale
  /\ stale' = stale \cup {p}
  /\ UNCHANGED <<codes, stored, revoked, lapsed, origin, grantVars, raced>>

\* 30 days against one hour: the access token has long expired.
RefreshExpires(p) ==
  /\ p \in stale \ lapsed
  /\ lapsed' = lapsed \cup {p}
  /\ UNCHANGED <<codes, stored, revoked, stale, origin, grantVars, raced>>

-----------------------------------------------------------------------------
GrantStep(g) ==
  \/ \E c \in Codes, verifies \in BOOLEAN : ExchangeCode(g, c, verifies)
  \/ \E p \in Pairs : RefreshRead(g, p) \/ IssueTokens(g, p)
  \/ RefreshRevoked(g) \/ GrantFails(g)

OAuthNext ==
  \/ \E c \in Codes : OAuthAuthorize(c) \/ CodeExpires(c)
  \/ \E p \in Pairs : AccessExpires(p) \/ RefreshExpires(p)
  \/ \E g \in Grants : GrantStep(g)

OAuthSpec == OAuthInit /\ [][OAuthNext]_oauthVars

-----------------------------------------------------------------------------
\* However a code is exchanged and its pairs refreshed, one pair at most opens
\* anything: the code was exchanged once (DELETE ... RETURNING) and each refresh
\* replaced the pair before it, whatever queries fail between the SELECT, the
\* UPDATE and the INSERT; unless two requests refreshed one pair at once.
OneLivePair ==
  \A p, q \in stored :
    Works(p) /\ Works(q) /\ origin[p] = origin[q] /\ p # q => origin[p] \in raced

\* Nothing opens with a code any more: it was consumed or has expired, no request
\* holds it or a pair that goes back to it, and no such pair works.
Ended(c) ==
  /\ codes[c] \in {"expired", "gone"}
  /\ \A g \in Grants : grantCode[g] # c
  /\ \A p \in stored : origin[p] = c => ~Works(p)

\* An authorization that has come to its end, by expiry or by a query that failed
\* halfway through an exchange or a refresh, does not come back: nothing a client
\* still holds, code, access or refresh token, opens /mcp again.
EndsForGood == [][\A c \in Codes : Ended(c) => Ended(c)']_oauthVars

=============================================================================
