----------------------------- MODULE OAuthLogin -----------------------------
(***************************************************************************)
(* The interactive half of the OAuth flow (oauth_login.py and the pending   *)
(* authorizations of oauth_provider.py): a client's /authorize is parked    *)
(* under a request id, a browser logs in for it, and the consent of that    *)
(* browser makes it a code, once.                                           *)
(*                                                                         *)
(* A POST runs in one stretch of the event loop once its form has arrived.  *)
(* Every browser may have the link of a request, several pages of it, and   *)
(* send them in any order, late or twice; the portal changes its users      *)
(* meanwhile, from another thread.  Time zones are left out.                *)
(***************************************************************************)
EXTENDS LoginLimiter, SequencesExt

CONSTANTS
  User, Browser, Ask,        \* request id -> scopes the client asked for
  Role,                      \* roles of users in config.toml
  CapOf, MostCapped,         \* _ROLE_SCOPE_CAP, and the role it takes for unknown ones
  Offer,                     \* sets of scopes a consent form may carry
  AddressOf,
  MaxPending, MaxLogins      \* bounds: parked requests, logins for one request

Id == DOMAIN Ask
Address == {AddressOf[b] : b \in Browser}

ASSUME LoginAssumption ==
  /\ MostCapped \in DOMAIN CapOf
  /\ MaxPending \in Nat \ {0} /\ MaxLogins \in Nat

None == "none"

VARIABLES
  users,     \* [admin.users.*]: name -> role, None if absent
  pending,   \* _pending: request id -> entry
  parked,    \* the order in which they came
  jar,       \* cookies: browser -> request id -> nonce, 0 if it has none
  attempts,  \* _oauth_login_limiter: address -> its failed attempts
  code,      \* _codes, by the request they answer
  logins,    \* history: request id -> how many logins, and the last of them
  answers    \* history: codes and denials per request id

table == <<pending, parked>>
vars == <<users, pending, parked, jar, attempts, code, logins, answers>>

Unborn == [stage |-> "unborn"]   \* /authorize makes a new id each time
Absent == [stage |-> "absent"]
Entry == [stage |-> "parked", expired |-> FALSE, subject |-> None, role |-> None, nonce |-> 0]
NoCode == [scopes |-> {}]

Init ==
  /\ users \in [User -> Role]
  /\ pending = [q \in Id |-> Unborn] /\ parked = <<>>
  /\ jar = [b \in Browser |-> [q \in Id |-> 0]]
  /\ attempts = [a \in Address |-> Clean]
  /\ code = [q \in Id |-> NoCode]
  /\ logins = [q \in Id |-> [count |-> 0]]
  /\ answers = [q \in Id |-> 0]

-----------------------------------------------------------------------------
(* The pending authorizations *)

\* one too many is kept
FaultyRoom(order) == SubSeq(order, Len(order) - Min({Len(order), MaxPending}) + 1, Len(order))

\* who stays when a request is to be parked: _gc drops the oldest of a full table
Room(order) == SubSeq(order, Len(order) - Min({Len(order), MaxPending - 1}) + 1, Len(order))

\* authorize, stash_pending; the browser is sent to the login page
Authorize(q) ==
  /\ pending[q] = Unborn
  /\ LET kept == Room(parked) IN
     /\ parked' = Append(kept, q)
     /\ pending' = [p \in Id |-> IF p = q THEN Entry
                                 ELSE IF p \in ToSet(parked) \ ToSet(kept) THEN Absent
                                 ELSE pending[p]]
  /\ UNCHANGED <<users, jar, attempts, code, logins, answers>>

Position(q) == CHOOSE i \in DOMAIN parked : parked[i] = q

Popped(q) ==
  /\ pending' = [pending EXCEPT ![q] = Absent]
  /\ parked' = RemoveAt(parked, Position(q))

Alive(q) == pending[q].stage = "parked" /\ ~pending[q].expired

Expire(q) ==
  /\ Alive(q)
  /\ pending' = [pending EXCEPT ![q].expired = TRUE]
  /\ UNCHANGED <<users, parked, jar, attempts, code, logins, answers>>

\* an entry that has expired leaves with the request that finds it
Stale(q) ==
  /\ ~Alive(q)
  /\ IF pending[q].stage = "parked" THEN Popped(q) ELSE UNCHANGED table
  /\ UNCHANGED <<users, jar, attempts, code, logins, answers>>

-----------------------------------------------------------------------------
(* handle_oauth_login; the GET only renders *)

\* a POST gets this far: the address is not locked, the entry is there and alive
Heard(b, q) == Allowed(attempts[AddressOf[b]]) /\ Alive(q)

Counted(b) == attempts' = [attempts EXCEPT ![AddressOf[b]] = Recorded(@)]

\* the refusal is an attempt too (in the place of the oldest)
FaultyLockedOut(b) ==
  /\ ~Allowed(attempts[AddressOf[b]])
  /\ attempts' = [attempts EXCEPT ![AddressOf[b]] = Recorded(Tail(@))]
  /\ UNCHANGED <<users, table, jar, code, logins, answers>>

\* a POST of a locked address changes nothing
LockedOut(b) ==
  /\ ~Allowed(attempts[AddressOf[b]])
  /\ UNCHANGED vars

WrongPassword(b, q) ==
  /\ Heard(b, q)
  /\ Counted(b)
  /\ UNCHANGED <<users, table, jar, code, logins, answers>>

\* the first login's cookie is good for all of them
FaultyNonce(q) == 1

\* a fresh nonce for every login
Nonce(q) == logins[q].count + 1

\* _handle_login_step, with the user as config.toml has it now
LoginStep(b, q, u) ==
  /\ Heard(b, q) /\ logins[q].count < MaxLogins
  /\ users[u] # None
  /\ attempts' = [attempts EXCEPT ![AddressOf[b]] = Clean]
  /\ pending' = [pending EXCEPT ![q].subject = u, ![q].role = users[u], ![q].nonce = Nonce(q)]
  /\ jar' = [jar EXCEPT ![b][q] = Nonce(q)]
  /\ logins' = [logins EXCEPT ![q] = [count |-> @.count + 1, by |-> b, subject |-> u, role |-> users[u]]]
  /\ UNCHANGED <<users, parked, code, answers>>

\* the browser that logged in last for the request
SameBrowser(b, q) ==
  /\ pending[q].subject # None
  /\ jar[b][q] # 0 /\ jar[b][q] = pending[q].nonce

\* a consent of any other browser that has the link, or of nobody who logged in
RefuseConsent(b, q) ==
  /\ Heard(b, q) /\ ~SameBrowser(b, q)
  /\ Counted(b)
  /\ UNCHANGED <<users, table, jar, code, logins, answers>>

Cap(role) == IF role \in DOMAIN CapOf THEN CapOf[role] ELSE CapOf[MostCapped]

\* only the wildcard is kept from a role that may not give it
FaultyGranted(q, offered) ==
  LET posted == IF "*" \in offered THEN {"*"} ELSE offered
      candidate == IF "*" \in Ask[q] \/ Ask[q] = {} THEN posted ELSE posted \cap Ask[q]
  IN IF "*" \in Cap(pending[q].role) THEN candidate ELSE candidate \ {"*"}

\* what of a form is granted: of what was asked for, what the role may give
Granted(q, offered) ==
  LET posted == IF "*" \in offered THEN {"*"} ELSE offered
      candidate == IF "*" \in Ask[q] \/ Ask[q] = {} THEN posted ELSE posted \cap Ask[q]
      cap == Cap(pending[q].role)
  IN IF "*" \in cap THEN candidate ELSE candidate \cap cap

\* the entry stays until it expires
FaultyTaken(q) == UNCHANGED table

\* take_pending
Taken(q) == Popped(q)

\* _handle_consent_step: Allow, complete_pending
Allow(b, q, offered) ==
  /\ Heard(b, q) /\ SameBrowser(b, q)
  /\ Granted(q, offered) # {}
  /\ Taken(q)
  /\ code' = [code EXCEPT ![q] = [scopes |-> Granted(q, offered), by |-> b,
                                  subject |-> pending[q].subject, role |-> pending[q].role]]
  /\ jar' = [jar EXCEPT ![b][q] = 0]
  /\ answers' = [answers EXCEPT ![q] = @ + 1]
  /\ UNCHANGED <<users, attempts, logins>>

\* ... Deny
Deny(b, q) ==
  /\ Heard(b, q) /\ SameBrowser(b, q)
  /\ Taken(q)
  /\ answers' = [answers EXCEPT ![q] = @ + 1]
  /\ UNCHANGED <<users, jar, attempts, code, logins>>

-----------------------------------------------------------------------------
(* The portal and time *)

ChangeUser(u) ==
  /\ \E role \in Role \cup {None} : role # users[u] /\ users' = [users EXCEPT ![u] = role]
  /\ UNCHANGED <<table, jar, attempts, code, logins, answers>>

Tick ==
  /\ attempts' = [a \in DOMAIN attempts |-> Aged(attempts[a])]
  /\ UNCHANGED <<users, table, jar, code, logins, answers>>

Next ==
  \/ Tick
  \/ \E u \in User : ChangeUser(u)
  \/ \E q \in Id : Authorize(q) \/ Expire(q) \/ Stale(q)
  \/ \E b \in Browser : LockedOut(b)
  \/ \E b \in Browser, q \in Id :
       \/ WrongPassword(b, q) \/ RefuseConsent(b, q) \/ Deny(b, q)
       \/ \E u \in User : LoginStep(b, q, u)
       \/ \E offered \in Offer : Allow(b, q, offered)

\* time goes by
Spec == Init /\ [][Next]_vars /\ WF_vars(Tick)

-----------------------------------------------------------------------------
(* Properties *)

\* Types; the table of parked requests and its order agree and stay within the bound of _gc.
TypeOK ==
  /\ users \in [User -> Role \cup {None}]
  /\ \A q \in Id : pending[q].stage \in {"unborn", "parked", "absent"}
  /\ ToSet(parked) = {q \in Id : pending[q].stage = "parked"}
  /\ Len(parked) <= MaxPending
  /\ jar \in [Browser -> [Id -> 0 .. MaxLogins]]
  /\ \A a \in Address : Len(attempts[a]) <= MaxAttempts

Answered(q) == code[q] # NoCode

\* A code speaks for the user who logged in last for its request, and it was that login's
\* own browser that pressed Allow: nobody else who holds the link, however the pages of two
\* browsers, or two tabs of one, come in.
CodeOfItsBrowser ==
  \A q \in Id : Answered(q) =>
    /\ logins[q].count > 0
    /\ code[q].by = logins[q].by
    /\ code[q].subject = logins[q].subject

\* Its scopes were asked for and are within what the role of that login may give; "*" is
\* given by those who may give everything, and alone.
GrantWithinRole ==
  \A q \in Id : Answered(q) =>
    LET cap == Cap(logins[q].role) IN
    /\ code[q].scopes # {}
    /\ "*" \in Ask[q] \/ Ask[q] = {} \/ code[q].scopes \subseteq Ask[q]
    /\ "*" \in cap \/ code[q].scopes \subseteq cap
    /\ "*" \in code[q].scopes => code[q].scopes = {"*"}

\* A request is answered once: Allow sent twice, Allow after Deny, or Allow in two browsers
\* never makes a second code.
OneAnswer == \A q \in Id : answers[q] <= 1

\* No address stays locked: time reopens it, whatever it goes on sending while it waits.
LockoutEnds == \A a \in Address : []<>Allowed(attempts[a])
=============================================================================
