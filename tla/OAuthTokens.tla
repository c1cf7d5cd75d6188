---------------------------- MODULE OAuthTokens ----------------------------
(***************************************************************************)
(* The token tables of ZmcpOAuthProvider (oauth_provider.py) and everything *)
(* that changes them: the code and refresh grants of /token, /revoke, the   *)
(* checks of an access token, the eviction of full tables, the revocation   *)
(* of a client in the admin portal and the changes of portal users.         *)
(*                                                                         *)
(* Two threads run.  The MCP event loop serves one request at a time (no    *)
(* coroutine of the provider suspends), so a request between its lookup and *)
(* its last write is held in "call" and keeps every other loop action from  *)
(* running.  The admin portal has an event loop in a thread of its own: its *)
(* actions interleave with the halves of a loop request.                    *)
(*                                                                         *)
(* _mint_token_pair always makes an access token and a refresh token        *)
(* together, so the n-th pair stands for both; the tables are sets of pair  *)
(* numbers.  An OrderedDict is then ordered by number, its oldest entry is  *)
(* the least one.                                                           *)
(***************************************************************************)
EXTENDS Naturals, Sequences, FiniteSets

CONSTANTS Client, User, Role, Scope,
          NoRole,                 \* "role" of a user who does not exist
          Readable,               \* outcomes of reading config.toml, in SUBSET BOOLEAN
          MaxClients,             \* _MAX_DYNAMIC_CLIENTS
          MaxCodes,               \* _MAX_LIVE_CODES
          MaxAccess, MaxRefresh,  \* _MAX_LIVE_ACCESS_TOKENS, _MAX_LIVE_REFRESH_TOKENS
          CodeBound, PairBound, PasswordBound   \* bounds of the exploration

ASSUME ConstantsAssumption ==
  /\ NoRole \notin Role
  /\ Role # {}
  /\ Readable \subseteq BOOLEAN
  /\ MaxClients \in Nat /\ MaxCodes \in Nat \ {0}
  /\ MaxAccess \in Nat \ {0} /\ MaxRefresh \in Nat \ {0}
  /\ CodeBound \in Nat /\ PairBound \in Nat /\ PasswordBound \in Nat

VARIABLES
  status,     \* client -> where it is between registration and revocation
  issued,     \* every authorization code ever issued, in order
  codes,      \* _codes: the numbers of the codes in the table
  staleCodes, \* codes past their expires_at
  pairs,      \* every token pair ever minted, in order
  access,     \* _access_tokens
  refresh,    \* _refresh_tokens
  backPtr,    \* _access_to_refresh (a row of pair n leads from its access to its refresh token)
  active,     \* keys of _active_refresh_family
  tracked,    \* pairs listed in _family_tokens
  consumed,   \* _consumed_refresh_tokens, oldest first
  expired,    \* tokens past their expires_at
  call,       \* the /token request the event loop is in the middle of
  users,      \* [admin.users] in config.toml
  reused      \* history: families revoked because a token was used again

tables == <<codes, access, refresh, backPtr, active, tracked, consumed>>
minted == <<issued, pairs>>
vars == <<status, issued, codes, staleCodes, pairs, access, refresh, backPtr,
          active, tracked, consumed, expired, call, users, reused>>

-----------------------------------------------------------------------------
(* Types *)

\* What an AuthorizationCode carries; pw is the password the login used
\* (history: the code object does not hold it).
CodeRec == [client : Client, user : User, role : Role,
            scopes : SUBSET Scope \ {{}}, pw : Nat]

\* What a token pair carries.  fp = 0: no fingerprint could be read.  code and
\* parent are history: the code it descends from, the pair it was refreshed from.
PairRec == [client : Client, user : User, role : Role,
            scopes : SUBSET Scope \ {{}}, fp : Nat,
            family : Nat, code : Nat, parent : Nat]

Token == {"access", "refresh"} \X Nat

\* "popped": gone from _clients, its tokens not swept; "swept": its access tokens are.
Status == {"unknown", "registered", "popped", "swept", "revoked"}

NoCall == [kind |-> "none", item |-> 0]

Spent == {consumed[i] : i \in DOMAIN consumed}

TypeOK ==
  /\ status \in [Client -> Status]
  /\ issued \in Seq(CodeRec)
  /\ codes \subseteq DOMAIN issued
  /\ staleCodes \subseteq DOMAIN issued
  /\ pairs \in Seq(PairRec)
  /\ access \subseteq DOMAIN pairs
  /\ refresh \subseteq DOMAIN pairs
  /\ backPtr \subseteq DOMAIN pairs
  /\ active \subseteq DOMAIN pairs
  /\ tracked \subseteq DOMAIN pairs
  /\ consumed \in Seq(DOMAIN pairs)
  /\ expired \subseteq Token
  /\ call \in [kind : {"none", "code", "refresh"}, item : Nat]
  /\ call.kind = "code" => call.item \in DOMAIN issued
  /\ call.kind = "refresh" => call.item \in DOMAIN pairs
  /\ users \in [User -> [role : Role \cup {NoRole}, pw : Nat \ {0}]]
  /\ reused \subseteq Nat

Init ==
  /\ status = [c \in Client |-> "unknown"]
  /\ issued = <<>> /\ pairs = <<>>
  /\ codes = {} /\ staleCodes = {}
  /\ access = {} /\ refresh = {} /\ backPtr = {}
  /\ active = {} /\ tracked = {} /\ consumed = <<>>
  /\ expired = {}
  /\ call = NoCall
  /\ users \in [User -> [role : Role, pw : {1}]]
  /\ reused = {}

-----------------------------------------------------------------------------
(* Helpers *)

\* Definitions named Faulty... are no part of the specification.  Each is a plausible
\* mistake in the definition that follows it; a property is worth its run only if the
\* mistake breaks it.

\* one entry too many survives
FaultyGc(table, limit) ==
  {n \in table : Cardinality({m \in table : m > n}) < limit}

\* _gc: evict the oldest entries until fewer than limit are left.
Gc(table, limit) ==
  {n \in table : Cardinality({m \in table : m > n}) < limit - 1}

GcConsumed == IF Len(consumed) >= MaxRefresh
              THEN SubSeq(consumed, Len(consumed) - MaxRefresh + 2, Len(consumed))
              ELSE consumed

Registered == {c \in Client : status[c] = "registered"}

\* the client is authenticated by what the token says, not by the table
FaultyKnownClient(c) == status[c] # "unknown"

\* get_client: /token and /revoke authenticate the client before anything else.
KnownClient(c) == c \in Registered

Family(n) == pairs[n].family

\* the number of the last pair again
FaultyNewPair == Len(pairs)

\* The two fresh secrets of the next pair.
NewPair == Len(pairs) + 1

\* lifetimes are not looked at
FaultyPastLifetime(token) == FALSE

PastLifetime(token) == token \in expired

\* current_password_fingerprint: None when the user is gone or the file cannot be read.
Fingerprint(u, readable) ==
  IF readable /\ users[u].role # NoRole THEN users[u].pw ELSE 0

\* user_still_valid, as _subject_still_valid calls it for a token.
SubjectValid(n, readable) ==
  LET p == pairs[n] IN
  /\ readable
  /\ users[p.user].role = p.role
  /\ p.fp # 0 => users[p.user].pw = p.fp

\* What load_access_token answers for a token of this deployment presented from
\* an allowed address.
Accepted(n) ==
  /\ n \in access
  /\ ~PastLifetime(<<"access", n>>)
  /\ SubjectValid(n, TRUE)

-----------------------------------------------------------------------------
(* The event loop: registration, consent and codes *)

Idle == call = NoCall

RegisterClient(c) ==
  /\ Idle
  /\ status[c] = "unknown"
  /\ Cardinality(Registered) < MaxClients
  /\ status' = [status EXCEPT ![c] = "registered"]
  /\ UNCHANGED <<tables, minted, staleCodes, expired, call, users, reused>>

\* A user of the portal logged in for a client and allowed the scopes: the code.
\* The pending request keeps the client object, so the client may be gone by then.
\* Login and consent are one step: what changes between them can as well change
\* between the consent and the exchange of the code.
CompletePending(c, u, scopes) ==
  LET q == Len(issued) + 1 IN
  /\ Idle
  /\ q <= CodeBound
  /\ status[c] # "unknown"
  /\ users[u].role # NoRole
  /\ issued' = Append(issued, [client |-> c, user |-> u, role |-> users[u].role,
                               scopes |-> scopes, pw |-> users[u].pw])
  /\ codes' = Gc(codes, MaxCodes) \cup {q}
  /\ UNCHANGED <<status, staleCodes, pairs, access, refresh, backPtr, active, tracked,
                 consumed, expired, call, users, reused>>

-----------------------------------------------------------------------------
(* The event loop: POST /token *)

\* load_authorization_code: the authenticated client presents a code of its own.
LoadCode(q) ==
  /\ Idle
  /\ q \in codes
  /\ KnownClient(issued[q].client)
  /\ IF q \in staleCodes
     THEN codes' = codes \ {q} /\ UNCHANGED call
     ELSE call' = [kind |-> "code", item |-> q] /\ UNCHANGED codes
  /\ UNCHANGED <<status, minted, staleCodes, access, refresh, backPtr, active, tracked,
                 consumed, expired, users, reused>>

\* _mint_token_pair: both tokens, into tables that lost the entries just spent.
Mint(pair, accessLeft, refreshLeft) ==
  /\ pairs' = Append(pairs, pair)
  /\ access' = Gc(accessLeft, MaxAccess) \cup {NewPair}
  /\ refresh' = Gc(refreshLeft, MaxRefresh) \cup {NewPair}
  /\ tracked' = tracked \cup {NewPair}

\* a code can be exchanged again until it expires
FaultyCodesLeft(q) == codes

\* "One-shot: code is consumed even on the happy path."
CodesLeft(q) == codes \ {q}

\* exchange_authorization_code
ExchangeCode ==
  LET q == call.item IN
  /\ call.kind = "code"
  /\ NewPair <= PairBound
  /\ codes' = CodesLeft(q)
  /\ \E readable \in Readable :
       Mint([client |-> issued[q].client, user |-> issued[q].user, role |-> issued[q].role,
             scopes |-> issued[q].scopes, fp |-> Fingerprint(issued[q].user, readable),
             family |-> NewPair, code |-> q, parent |-> 0], access, refresh)
  /\ backPtr' = backPtr \cup {NewPair}
  /\ active' = active \cup {NewPair}
  /\ call' = NoCall
  /\ UNCHANGED <<status, issued, staleCodes, consumed, expired, users, reused>>

\* only the refresh tokens are revoked
FaultyRevokeFamily(f) ==
  LET killed == {n \in tracked : Family(n) = f} IN
  /\ tracked' = tracked \ killed
  /\ refresh' = refresh \ killed
  /\ active' = active \ killed
  /\ UNCHANGED <<access, backPtr>>

\* _revoke_family, with its removals from the five tables.
RevokeFamily(f) ==
  LET killed == {n \in tracked : Family(n) = f} IN
  /\ tracked' = tracked \ killed
  /\ access' = access \ killed
  /\ refresh' = refresh \ killed
  /\ backPtr' = backPtr \ killed
  /\ active' = active \ killed

\* load_refresh_token of a token that was rotated before: reuse.  Any registered
\* client may present it; /revoke looks a token up the same way.
PresentSpent(n) ==
  /\ Idle
  /\ Registered # {}
  /\ n \in Spent
  /\ RevokeFamily(Family(n))
  /\ reused' = reused \cup {Family(n)}
  /\ UNCHANGED <<status, minted, codes, staleCodes, consumed, expired, call, users>>

\* load_refresh_token of a token in the table.
LoadRefresh(n) ==
  /\ Idle
  /\ n \in refresh \ Spent
  /\ KnownClient(pairs[n].client)
  /\ \E readable \in Readable :
       IF PastLifetime(<<"refresh", n>>) \/ ~SubjectValid(n, readable)
       THEN refresh' = refresh \ {n} /\ UNCHANGED call
       ELSE call' = [kind |-> "refresh", item |-> n] /\ UNCHANGED refresh
  /\ UNCHANGED <<status, minted, codes, staleCodes, access, backPtr, active, tracked,
                 consumed, expired, users, reused>>

\* the old access token stays valid until it expires
FaultyAccessLeft(n) == access

\* The access token of a spent refresh token goes with it, found by the back-pointer.
AccessLeft(n) == IF n \in backPtr THEN access \ {n} ELSE access

\* the spent refresh token stays in its table
FaultyRefreshLeft(n) == refresh

RefreshLeft(n) == refresh \ {n}

\* any scope may be asked for on a refresh
FaultyScopesHeld(scopes, n) == TRUE

\* "reject any scope the client did not originally hold"
ScopesHeld(scopes, n) == scopes \subseteq pairs[n].scopes

\* exchange_refresh_token: the token is consumed, the access token it belongs to
\* is dropped by the back-pointer, the next pair joins the family.
ExchangeRefresh(scopes) ==
  LET n == call.item
      old == pairs[n]
      family == IF n \in active THEN old.family ELSE NewPair
  IN
  /\ call.kind = "refresh"
  /\ NewPair <= PairBound
  /\ ScopesHeld(scopes, n)
  /\ consumed' = IF n \in active THEN Append(GcConsumed, n) ELSE consumed
  /\ \E readable \in Readable :
       Mint([old EXCEPT !.scopes = scopes, !.fp = Fingerprint(old.user, readable),
                        !.family = family, !.parent = n],
            AccessLeft(n), RefreshLeft(n))
  /\ backPtr' = (backPtr \ {n}) \cup {NewPair}
  /\ active' = (active \ {n}) \cup {NewPair}
  /\ call' = NoCall
  /\ UNCHANGED <<status, issued, codes, staleCodes, expired, users, reused>>

\* A loaded grant that is refused before anything is popped: an address outside the
\* client's allowlist, a scope outside the grant, a failed PKCE check.
RefuseExchange ==
  /\ ~Idle
  /\ call' = NoCall
  /\ UNCHANGED <<status, minted, tables, staleCodes, expired, users, reused>>

-----------------------------------------------------------------------------
(* The event loop: a call with an access token, POST /revoke *)

\* load_access_token when it refuses the token and forgets it.  (Accepting one
\* changes nothing here.)
RefuseAccess(n) ==
  /\ Idle
  /\ n \in access
  /\ \E readable \in Readable : PastLifetime(<<"access", n>>) \/ ~SubjectValid(n, readable)
  /\ access' = access \ {n}
  /\ UNCHANGED <<status, minted, codes, staleCodes, refresh, backPtr, active, tracked,
                 consumed, expired, call, users, reused>>

\* revoke_token with an access token: its refresh token by the back-pointer.
RevokeAccess(n) ==
  /\ Idle
  /\ Accepted(n)
  /\ KnownClient(pairs[n].client)
  /\ access' = access \ {n}
  /\ refresh' = IF n \in backPtr THEN refresh \ {n} ELSE refresh
  /\ backPtr' = backPtr \ {n}
  /\ UNCHANGED <<status, minted, codes, staleCodes, active, tracked,
                 consumed, expired, call, users, reused>>

\* revoke_token with a refresh token: its access token by the back-pointer.
RevokeRefresh(n) ==
  /\ Idle
  /\ n \in refresh \ Spent
  /\ ~PastLifetime(<<"refresh", n>>)
  /\ SubjectValid(n, TRUE)
  /\ KnownClient(pairs[n].client)
  /\ refresh' = refresh \ {n}
  /\ access' = IF n \in backPtr THEN access \ {n} ELSE access
  /\ backPtr' = backPtr \ {n}
  /\ UNCHANGED <<status, minted, codes, staleCodes, active, tracked,
                 consumed, expired, call, users, reused>>

-----------------------------------------------------------------------------
(* The admin portal's thread *)

\* oauth_client_revoke: the client is forgotten, then its access tokens are swept,
\* then its refresh tokens.  One such request runs at a time.
PopClient(c) ==
  /\ status[c] = "registered"
  /\ \A d \in Client : status[d] \notin {"popped", "swept"}
  /\ status' = [status EXCEPT ![c] = "popped"]
  /\ UNCHANGED <<tables, minted, staleCodes, expired, call, users, reused>>

SweepAccess(c) ==
  LET swept == {n \in access : pairs[n].client = c} IN
  /\ status[c] = "popped"
  /\ status' = [status EXCEPT ![c] = "swept"]
  /\ access' = access \ swept
  /\ backPtr' = backPtr \ swept
  /\ UNCHANGED <<minted, codes, staleCodes, refresh, active, tracked,
                 consumed, expired, call, users, reused>>

SweepRefresh(c) ==
  /\ status[c] = "swept"
  /\ status' = [status EXCEPT ![c] = "revoked"]
  /\ refresh' = {n \in refresh : pairs[n].client # c}
  /\ UNCHANGED <<minted, codes, staleCodes, access, backPtr, active, tracked,
                 consumed, expired, call, users, reused>>

\* A user is created, deleted (or disabled), or given another role.
ChangeRole(u, r) ==
  /\ r # users[u].role
  /\ users' = [users EXCEPT ![u].role = r]
  /\ UNCHANGED <<status, minted, tables, staleCodes, expired, call, reused>>

ChangePassword(u) ==
  /\ users[u].role # NoRole
  /\ users[u].pw < PasswordBound
  /\ users' = [users EXCEPT ![u].pw = @ + 1]
  /\ UNCHANGED <<status, minted, tables, staleCodes, expired, call, reused>>

-----------------------------------------------------------------------------
(* Time *)

Expire(token) ==
  /\ token \notin expired
  /\ token[2] \in IF token[1] = "access" THEN access ELSE refresh
  /\ expired' = expired \cup {token}
  /\ UNCHANGED <<status, minted, tables, staleCodes, call, users, reused>>

ExpireCode(q) ==
  /\ q \in codes \ staleCodes
  /\ staleCodes' = staleCodes \cup {q}
  /\ UNCHANGED <<status, minted, tables, expired, call, users, reused>>

-----------------------------------------------------------------------------

Scopes == SUBSET Scope \ {{}}

LoopStep ==
  \/ \E c \in Client : RegisterClient(c)
  \/ \E c \in Client, u \in User, s \in Scopes : CompletePending(c, u, s)
  \/ \E q \in codes : LoadCode(q)
  \/ ExchangeCode
  \/ \E n \in DOMAIN pairs : PresentSpent(n) \/ LoadRefresh(n)
  \/ \E s \in Scopes : ExchangeRefresh(s)
  \/ RefuseExchange
  \/ \E n \in DOMAIN pairs : RefuseAccess(n) \/ RevokeAccess(n) \/ RevokeRefresh(n)

AdminStep ==
  \/ \E c \in Client : PopClient(c) \/ SweepAccess(c) \/ SweepRefresh(c)
  \/ \E u \in User, r \in Role \cup {NoRole} : ChangeRole(u, r)
  \/ \E u \in User : ChangePassword(u)

Clock ==
  \/ \E k \in {"access", "refresh"}, n \in DOMAIN pairs : Expire(<<k, n>>)
  \/ \E q \in codes : ExpireCode(q)

Next == LoopStep \/ AdminStep \/ Clock

Spec == Init /\ [][Next]_vars

\* Lifetimes are finite, and a request the loop is in the middle of ends: nothing in
\* a provider coroutine waits.
Fairness ==
  /\ \A n \in 1..PairBound : WF_vars(Expire(<<"access", n>>))
  /\ WF_vars(ExchangeCode \/ (\E s \in Scopes : ExchangeRefresh(s)) \/ RefuseExchange)

FairSpec == Spec /\ Fairness

-----------------------------------------------------------------------------
(* Properties *)

Live == access \cup refresh

\* Refreshing replaces: of the pairs of one family only the newest can still be
\* alive (docs/CHATGPT-CUSTOM-APP.md: each use rotates both tokens and evicts the old
\* access token).  Broken by a rotation that leaves either old token behind.
OnlyNewestLives ==
  \A m, n \in DOMAIN pairs : Family(m) = Family(n) /\ m < n => m \notin Live

\* Reuse detection is final (docs/OAUTH.md): once a spent refresh token of a family
\* was presented, no token of the family is alive again, whatever else happens.
ReusedFamilyIsDead == \A n \in Live : Family(n) \notin reused

\* One consent, one chain: the code that a grant started from is exchanged once, and
\* every refresh stays in the family of its grant.
OneFamilyPerCode ==
  \A m, n \in DOMAIN pairs : (pairs[m].code = pairs[n].code) <=> (Family(m) = Family(n))

\* Least privilege along the chain: what a token may do was allowed at the consent it
\* descends from, and by every refresh in between; client, user and role never change.
WithinGrant ==
  \A n \in DOMAIN pairs :
    LET p == pairs[n] IN
    /\ p.code \in DOMAIN issued
    /\ p.scopes \subseteq issued[p.code].scopes
    /\ <<p.client, p.user, p.role>> =
         <<issued[p.code].client, issued[p.code].user, issued[p.code].role>>
    /\ p.parent # 0 => p.scopes \subseteq pairs[p.parent].scopes

\* The tables stay within the limits that protect the server's memory.
TablesBounded ==
  /\ Cardinality(codes) <= MaxCodes
  /\ Cardinality(access) <= MaxAccess
  /\ Cardinality(refresh) <= MaxRefresh
  /\ Len(consumed) <= MaxRefresh

\* the event loop is in the middle of a /token request of the client c
Serving(c) ==
  \/ call.kind = "code" /\ issued[call.item].client = c
  \/ call.kind = "refresh" /\ pairs[call.item].client = c

\* A client that was forgotten gets no further token, and no further request of it is
\* begun, except the one request the event loop had already authenticated.
ForgottenGainsNothing ==
  [][\A c \in Client :
       /\ status[c] \in {"popped", "swept", "revoked"}
       /\ ~Serving(c)
       => /\ ~Serving(c)'
          /\ \A n \in access' \cup refresh' : pairs'[n].client = c => n \in Live]_vars

\* A revoked client is locked out in the end even if a request of its own slipped
\* through the revocation: no token of it is accepted for ever.
RevokedClientEventuallyOut ==
  \A c \in Client :
    status[c] = "revoked" ~>
      [](\A n \in DOMAIN pairs : pairs[n].client = c => ~Accepted(n))

\* The refinement: a token being exchanged still counts as the grant's usable one,
\* the admin's sweep does not stop an exchange that has begun.
Usable(g) ==
  LET held == {n \in DOMAIN pairs :
                 /\ pairs[n].code = g
                 /\ n \in refresh \/ call = [kind |-> "refresh", item |-> n]}
  IN  IF held = {} THEN 0 ELSE CHOOSE n \in held : \A m \in held : m <= n

Chain == INSTANCE GrantChain WITH
           Grant <- 1..CodeBound,
           usable <- [g \in 1..CodeBound |-> Usable(g)],
           begun <- {pairs[n].code : n \in DOMAIN pairs},
           last <- Len(pairs)

\* Codes and refresh tokens of this implementation form the chains the server promises.
ImplementsChains == Chain!Spec

-----------------------------------------------------------------------------
(* What a comment or a document says and the code does not do *)

\* admin/views/oauth_clients.py:564: "Forget the client and every token it holds in
\* the live provider so the next call from that client is rejected."
RevokedClientIsRejected ==
  \A n \in DOMAIN pairs : status[pairs[n].client] = "revoked" => ~Accepted(n)

\* oauth_provider.py:246: "a password changed since (by an admin, after a compromise)
\* ends the user's tokens": an accepted token stems from a login with the password
\* the user has now.
LoginPasswordIsCurrent ==
  \A n \in DOMAIN pairs :
    Accepted(n) => issued[pairs[n].code].pw = users[pairs[n].user].pw
=============================================================================
