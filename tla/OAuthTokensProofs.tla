---------------------------- MODULE OAuthTokensProofs ----------------------------
(***************************************************************************)
(* For any number of codes, pairs and requests: a code is exchanged once   *)
(* and a refresh replaces.                                                 *)
(***************************************************************************)
EXTENDS OAuthTokens, TLAPS

\* A request that has consumed a code or a pair and owes a new one.
Owes(g, c) == grantPc[g] = "insert" /\ grantCode[g] = c

Live == stored \ revoked

\* A code that has not been consumed has nothing that goes back to it.
Unconsumed ==
  \A c \in Codes : codes[c] # "gone" =>
    /\ \A p \in stored : origin[p] # c
    /\ \A g \in Grants : grantPc[g] # "idle" => grantCode[g] # c

\* A request knows what it refreshes, and an idle one nothing.
Requests ==
  /\ \A g \in Grants : grantPc[g] = "idle" => grantRefresh[g] = None /\ grantCode[g] = None
  /\ \A g \in Grants : grantPc[g] = "update" => grantRefresh[g] # None

\* While no pair of a code is refreshed twice at once, the code lives on in one
\* place: a live pair, or the request that has consumed the last one.
OneHolder ==
  \A c \in Codes \ raced :
    /\ \A p, q \in Live : origin[p] = c /\ origin[q] = c => p = q
    /\ \A g, h \in Grants : Owes(g, c) /\ Owes(h, c) => g = h
    /\ \A g \in Grants, p \in Live : Owes(g, c) => origin[p] # c
    /\ \A g \in Grants : grantPc[g] = "update" /\ grantCode[g] = c => grantRefresh[g] \in Live
    /\ \A g, h \in Grants :
         /\ grantPc[g] = "update" /\ grantPc[h] = "update"
         /\ grantCode[g] = c /\ grantCode[h] = c
         => g = h

Refreshing == \A g \in Grants : grantPc[g] = "update" => origin[grantRefresh[g]] = grantCode[g]

OAuthInv == OAuthTypeOK /\ Unconsumed /\ Requests /\ Refreshing /\ OneHolder

-----------------------------------------------------------------------------
LEMMA InitHolds == OAuthInit => OAuthInv
BY NoneAssumption
   DEF OAuthInit, OAuthInv, OAuthTypeOK, Unconsumed, Requests, Refreshing, OneHolder,
       Owes, Live

LEMMA CodeStepKeepsInv ==
  ASSUME OAuthInv, NEW c \in Codes, OAuthAuthorize(c) \/ CodeExpires(c)
  PROVE  OAuthInv'
<1> USE DEF OAuthAuthorize, CodeExpires, pairVars, grantVars
<1>1. OAuthTypeOK'
  BY DEF OAuthInv, OAuthTypeOK
<1>2. codes[c] # "gone" /\ \A d \in Codes : codes'[d] = codes[d] \/ d = c
  BY DEF OAuthInv, OAuthTypeOK
<1>3. Unconsumed' /\ Requests'
  BY <1>2 DEF OAuthInv, Unconsumed, Requests
<1>4. Refreshing' /\ OneHolder'
  BY DEF OAuthInv, Refreshing, OneHolder, Owes, Live
<1>5. QED
  BY <1>1, <1>3, <1>4 DEF OAuthInv

LEMMA ExpiryKeepsInv ==
  ASSUME OAuthInv, NEW p \in Pairs, AccessExpires(p) \/ RefreshExpires(p)
  PROVE  OAuthInv'
<1> USE DEF AccessExpires, RefreshExpires, grantVars
<1>1. OAuthTypeOK'
  BY DEF OAuthInv, OAuthTypeOK
<1>2. Unconsumed' /\ Requests' /\ Refreshing' /\ OneHolder'
  BY DEF OAuthInv, Unconsumed, Requests, Refreshing, OneHolder, Owes, Live
<1>3. QED
  BY <1>1, <1>2 DEF OAuthInv

LEMMA ExchangeKeepsInv ==
  ASSUME OAuthInv, NEW g \in Grants, NEW c \in Codes, NEW verifies \in BOOLEAN,
         ExchangeCode(g, c, verifies)
  PROVE  OAuthInv'
<1> USE DEF ExchangeCode, pairVars
<1>1. OAuthTypeOK'
  BY DEF OAuthInv, OAuthTypeOK
<1>2. /\ codes[c] = "stored" /\ grantPc[g] = "idle" /\ grantRefresh[g] = None
      /\ \A p \in stored : origin[p] # c
      /\ \A h \in Grants : grantPc[h] # "idle" => grantCode[h] # c
      /\ codes'[c] = "gone" /\ \A d \in Codes \ {c} : codes'[d] = codes[d]
  BY DEF OAuthInv, OAuthTypeOK, Unconsumed, Requests
<1>3. /\ \A h \in Grants \ {g} : grantPc'[h] = grantPc[h] /\ grantCode'[h] = grantCode[h]
      /\ \/ grantPc'[g] = "insert" /\ grantCode'[g] = c
         \/ grantPc'[g] = "idle" /\ grantCode'[g] = grantCode[g]
  BY <1>2 DEF OAuthInv, OAuthTypeOK
<1>4. Unconsumed'
  BY <1>2, <1>3 DEF OAuthInv, Unconsumed
<1>5. Requests'
  BY <1>2, <1>3 DEF OAuthInv, Requests
<1>6. Refreshing' /\ OneHolder'
  BY <1>2, <1>3 DEF OAuthInv, Refreshing, OneHolder, Owes, Live
<1>7. QED
  BY <1>1, <1>4, <1>5, <1>6 DEF OAuthInv

LEMMA RefreshReadKeepsInv ==
  ASSUME OAuthInv, NEW g \in Grants, NEW p \in Pairs, RefreshRead(g, p)
  PROVE  OAuthInv'
<1> USE DEF RefreshRead, Refreshable, pairVars
<1>1. OAuthTypeOK'
  BY NoneAssumption DEF OAuthInv, OAuthTypeOK
<1>2. /\ grantPc[g] = "idle" /\ p \in Live /\ origin[p] \in Codes /\ p # None
      /\ grantPc'[g] = "update" /\ grantCode'[g] = origin[p] /\ grantRefresh'[g] = p
      /\ \A h \in Grants \ {g} : /\ grantPc'[h] = grantPc[h] /\ grantCode'[h] = grantCode[h]
                                 /\ grantRefresh'[h] = grantRefresh[h]
  BY NoneAssumption DEF OAuthInv, OAuthTypeOK, Live
<1>3. Unconsumed' /\ Requests' /\ Refreshing'
  BY <1>2 DEF OAuthInv, Unconsumed, Requests, Refreshing, Live
<1>4. OneHolder'
  <2> SUFFICES ASSUME NEW c \in Codes \ raced' PROVE OneHolder!(c)'
    BY DEF OneHolder
  <2>1. c \in Codes \ raced /\ OneHolder!(c)
    BY DEF OAuthInv, OneHolder
  <2>2. \A h \in Grants : grantPc[h] = "update" /\ grantCode[h] = c => origin[p] # c
    <3> SUFFICES ASSUME NEW h \in Grants, grantPc[h] = "update", grantCode[h] = c, origin[p] = c
                 PROVE  FALSE
      OBVIOUS
    <3>1. grantRefresh[h] = p
      BY <1>2, <2>1 DEF OAuthInv, Refreshing
    <3>2. QED
      BY <2>1, <3>1
  <2>3. QED
    BY <1>2, <2>1, <2>2 DEF Owes, Live
<1>5. QED
  BY <1>1, <1>3, <1>4 DEF OAuthInv

LEMMA RevokeKeepsInv ==
  ASSUME OAuthInv, NEW g \in Grants, RefreshRevoked(g)
  PROVE  OAuthInv'
<1> USE DEF RefreshRevoked
<1>1. OAuthTypeOK'
  BY DEF OAuthInv, OAuthTypeOK
<1>2. /\ grantPc[g] = "update" /\ grantRefresh[g] \in stored /\ grantRefresh[g] # None
      /\ origin[grantRefresh[g]] = grantCode[g]
      /\ grantPc'[g] = "insert" /\ \A h \in Grants \ {g} : grantPc'[h] = grantPc[h]
  BY DEF OAuthInv, OAuthTypeOK, Requests, Refreshing
<1>3. Unconsumed' /\ Requests' /\ Refreshing'
  BY <1>2 DEF OAuthInv, Unconsumed, Requests, Refreshing
<1>4. OneHolder'
  <2> SUFFICES ASSUME NEW c \in Codes \ raced PROVE OneHolder!(c)'
    BY DEF OneHolder
  <2>1. OneHolder!(c) /\ Live' = Live \ {grantRefresh[g]}
    BY DEF OAuthInv, OneHolder, Live
  <2>2. CASE grantCode[g] = c
    BY <1>2, <2>1, <2>2 DEF Owes
  <2>3. CASE grantCode[g] # c
    <3>1. \A h \in Grants : grantPc[h] = "update" /\ grantCode[h] = c
            => grantRefresh[h] # grantRefresh[g]
      BY <1>2, <2>3 DEF OAuthInv, Refreshing
    <3>2. QED
      BY <1>2, <2>1, <2>3, <3>1 DEF Owes
  <2>4. QED
    BY <2>2, <2>3
<1>5. QED
  BY <1>1, <1>3, <1>4 DEF OAuthInv

LEMMA IssueKeepsInv ==
  ASSUME OAuthInv, NEW g \in Grants, NEW p \in Pairs, IssueTokens(g, p)
  PROVE  OAuthInv'
<1> USE DEF IssueTokens
<1>1. /\ grantPc[g] = "insert" /\ grantCode[g] \in Codes /\ p \notin stored /\ p \notin revoked
      /\ codes[grantCode[g]] = "gone"
      /\ grantPc'[g] = "idle" /\ grantCode'[g] = None /\ grantRefresh'[g] = None
      /\ \A h \in Grants \ {g} : /\ grantPc'[h] = grantPc[h] /\ grantCode'[h] = grantCode[h]
                                 /\ grantRefresh'[h] = grantRefresh[h]
      /\ origin'[p] = grantCode[g] /\ \A q \in Pairs \ {p} : origin'[q] = origin[q]
  BY DEF OAuthInv, OAuthTypeOK, Unconsumed
<1>2. OAuthTypeOK'
  BY <1>1, NoneAssumption DEF OAuthInv, OAuthTypeOK
<1>3. stored \subseteq Pairs /\ (\A h \in Grants : grantPc[h] = "update" => grantRefresh[h] \in stored)
  BY DEF OAuthInv, OAuthTypeOK
<1>4. Unconsumed' /\ Refreshing'
  BY <1>1, <1>3, NoneAssumption DEF OAuthInv, Unconsumed, Refreshing
<1>5. Requests'
  BY <1>1, <1>3, NoneAssumption DEF OAuthInv, Requests
<1>6. OneHolder'
  <2> SUFFICES ASSUME NEW c \in Codes \ raced PROVE OneHolder!(c)'
    BY DEF OneHolder
  <2>1. OneHolder!(c) /\ Live' = Live \cup {p} /\ Live \subseteq Pairs /\ p \notin Live
    BY <1>1, <1>3 DEF OAuthInv, OneHolder, Live
  <2>2. \A h \in Grants : Owes(h, c)' => Owes(h, c) /\ h # g
    BY <1>1 DEF Owes
  <2>3. CASE grantCode[g] = c
    <3>1. Owes(g, c)
      BY <1>1, <2>3 DEF Owes
    <3>2. \A h \in Grants : ~Owes(h, c)'
      BY <2>1, <2>2, <3>1
    <3>3. QED
      BY <1>1, <2>1, <3>1, <3>2
  <2>4. CASE grantCode[g] # c
    BY <1>1, <2>1, <2>2, <2>4
  <2>5. QED
    BY <2>3, <2>4
<1>7. QED
  BY <1>2, <1>3, <1>4, <1>5, <1>6 DEF OAuthInv

LEMMA FailKeepsInv ==
  ASSUME OAuthInv, NEW g \in Grants, GrantFails(g)
  PROVE  OAuthInv'
<1> USE DEF GrantFails, pairVars
<1>1. OAuthTypeOK'
  BY DEF OAuthInv, OAuthTypeOK
<1>2. /\ grantPc'[g] = "idle" /\ grantCode'[g] = None /\ grantRefresh'[g] = None
      /\ \A h \in Grants \ {g} : /\ grantPc'[h] = grantPc[h] /\ grantCode'[h] = grantCode[h]
                                 /\ grantRefresh'[h] = grantRefresh[h]
  BY DEF OAuthInv, OAuthTypeOK
<1>3. Unconsumed' /\ Requests' /\ Refreshing'
  BY <1>2 DEF OAuthInv, Unconsumed, Requests, Refreshing
<1>4. OneHolder'
  BY <1>2 DEF OAuthInv, OneHolder, Owes, Live
<1>5. QED
  BY <1>1, <1>3, <1>4 DEF OAuthInv

LEMMA NextKeepsInv == OAuthInv /\ [OAuthNext]_oauthVars => OAuthInv'
<1> SUFFICES ASSUME OAuthInv, [OAuthNext]_oauthVars PROVE OAuthInv'
  OBVIOUS
<1>1. ASSUME NEW g \in Grants, GrantStep(g) PROVE OAuthInv'
  BY <1>1, ExchangeKeepsInv, RefreshReadKeepsInv, IssueKeepsInv, RevokeKeepsInv, FailKeepsInv
     DEF GrantStep
<1>2. CASE UNCHANGED oauthVars
  BY <1>2 DEF oauthVars, pairVars, grantVars, OAuthInv, OAuthTypeOK, Unconsumed, Requests, Refreshing, OneHolder, Owes, Live
<1>3. QED
  BY <1>1, <1>2, CodeStepKeepsInv, ExpiryKeepsInv DEF OAuthNext

\* The inductive invariant holds in every state the endpoints reach.
THEOREM OAuthInvariant == OAuthSpec => []OAuthInv
BY InitHolds, NextKeepsInv, PTL DEF OAuthSpec

\* Type correctness: every stored pair goes back to a code.
THEOREM OAuthTypes == OAuthSpec => []OAuthTypeOK
<1>1. OAuthInv => OAuthTypeOK
  BY DEF OAuthInv
<1>2. QED
  BY <1>1, OAuthInvariant, PTL

\* A code is exchanged once and a refresh replaces: two pairs that work go back to
\* one code only if two requests refreshed one pair at once.
THEOREM RefreshReplaces == OAuthSpec => []OneLivePair
<1>1. OAuthInv => OneLivePair
  BY DEF OAuthInv, OAuthTypeOK, OneHolder, OneLivePair, Live, Works, VerifyAccessToken,
         Refreshable
<1>2. QED
  BY <1>1, OAuthInvariant, PTL

\* What has ended is taken up by no request, so no pair comes to it.
LEMMA StepKeepsEnded ==
  ASSUME OAuthInv, [OAuthNext]_oauthVars, NEW c \in Codes, Ended(c)
  PROVE  Ended(c)'
<1> USE DEF Ended, Works, VerifyAccessToken, Refreshable, pairVars, grantVars
<1>t. /\ codes \in [Codes -> {"unused", "stored", "expired", "gone"}]
      /\ origin \in [Pairs -> Codes \cup {None}] /\ stored \subseteq Pairs
      /\ grantCode \in [Grants -> Codes \cup {None}] /\ c # None
  BY NoneAssumption DEF OAuthInv, OAuthTypeOK
<1>1. ASSUME NEW d \in Codes, OAuthAuthorize(d) \/ CodeExpires(d) PROVE Ended(c)'
  BY <1>1, <1>t DEF OAuthAuthorize, CodeExpires
<1>2. ASSUME NEW p \in Pairs, AccessExpires(p) \/ RefreshExpires(p) PROVE Ended(c)'
  BY <1>2 DEF AccessExpires, RefreshExpires
<1>3. ASSUME NEW g \in Grants, NEW d \in Codes, NEW verifies \in BOOLEAN,
             ExchangeCode(g, d, verifies)
      PROVE  Ended(c)'
  BY <1>3, <1>t DEF ExchangeCode
<1>4. ASSUME NEW g \in Grants, NEW p \in Pairs, RefreshRead(g, p) PROVE Ended(c)'
  BY <1>4, <1>t DEF RefreshRead
<1>5. ASSUME NEW g \in Grants, NEW p \in Pairs, IssueTokens(g, p) PROVE Ended(c)'
  BY <1>5, <1>t DEF IssueTokens
<1>6. ASSUME NEW g \in Grants, RefreshRevoked(g) \/ GrantFails(g) PROVE Ended(c)'
  BY <1>6, <1>t DEF RefreshRevoked, GrantFails
<1>7. CASE UNCHANGED oauthVars
  BY <1>7 DEF oauthVars
<1>8. QED
  BY <1>1, <1>2, <1>3, <1>4, <1>5, <1>6, <1>7 DEF OAuthNext, GrantStep

\* mcp/oauth.ts: a refresh or an exchange that failed halfway ends an authorization for
\* good; no token or code that is still about brings it back.
THEOREM AuthorizationsEnd == OAuthSpec => EndsForGood
<1>1. OAuthInv /\ [OAuthNext]_oauthVars => [\A c \in Codes : Ended(c) => Ended(c)']_oauthVars
  BY StepKeepsEnded
<1>2. QED
  BY <1>1, OAuthInvariant, PTL DEF OAuthSpec, EndsForGood

===============================================================================
