-------------------------- MODULE OAuthLoginProofs --------------------------
(* Theorems about OAuthLogin, for every value of its constants. *)
EXTENDS OAuthLogin, FiniteSetTheorems, SequenceTheorems, TLAPS

-----------------------------------------------------------------------------
(* The inductive invariant *)

PendingEntry ==
  [stage : {"parked"}, expired : BOOLEAN, subject : User \cup {None},
   role : Role \cup {None}, nonce : Nat]

LastLogin == [count : Nat \ {0}, by : Browser, subject : User, role : Role]

Shapes ==
  /\ users \in [User -> Role \cup {None}]
  /\ pending \in [Id -> {Unborn, Absent} \cup PendingEntry]
  /\ jar \in [Browser -> [Id -> Nat]]
  /\ DOMAIN code = Id /\ code = [q \in Id |-> code[q]]
  /\ logins \in [Id -> [count : {0}] \cup LastLogin]
  /\ answers \in [Id -> {0, 1}]

\* A request that was answered is out of the table, for good.
AnsweredIsGone ==
  \A q \in Id :
    /\ answers[q] = 1 => pending[q] = Absent
    /\ code[q] # NoCode => answers[q] = 1

\* An entry speaks of the last login made for it, and has that login's nonce.
EntryOfLastLogin ==
  \A q \in Id :
    /\ pending[q] = Unborn => logins[q].count = 0
    /\ pending[q].stage = "parked" =>
         /\ pending[q].nonce = logins[q].count
         /\ logins[q].count = 0 => pending[q].subject = None
         /\ logins[q].count # 0 => /\ pending[q].subject = logins[q].subject
                                   /\ pending[q].role = logins[q].role

\* Only the browser of the last login holds its nonce.
NonceOfLastLogin ==
  \A q \in Id, b \in Browser :
    /\ jar[b][q] <= logins[q].count
    /\ jar[b][q] = logins[q].count /\ jar[b][q] # 0 => logins[q].by = b

IInv ==
  /\ Shapes
  /\ AnsweredIsGone
  /\ EntryOfLastLogin
  /\ NonceOfLastLogin
  /\ CodeOfItsBrowser
  /\ GrantWithinRole

-----------------------------------------------------------------------------
(* The invariant is inductive *)

LEMMA InitIInv == Init => IInv
<1> SUFFICES ASSUME Init PROVE IInv
  OBVIOUS
<1> USE DEF Init
<1>1. Shapes
  BY DEF Shapes
<1>2. AnsweredIsGone
  BY DEF AnsweredIsGone
<1>3. EntryOfLastLogin
  BY DEF EntryOfLastLogin, Unborn
<1>4. NonceOfLastLogin
  BY DEF NonceOfLastLogin
<1>5. CodeOfItsBrowser /\ GrantWithinRole
  BY DEF CodeOfItsBrowser, GrantWithinRole, Answered
<1> QED BY <1>1, <1>2, <1>3, <1>4, <1>5 DEF IInv

\* The steps that only take requests out of the table, age them or bring new ones in.
Shelving ==
  /\ UNCHANGED <<users, jar, code, logins, answers>>
  /\ pending' \in [Id -> {Unborn, Absent} \cup PendingEntry]
  /\ \A q \in Id :
       \/ pending'[q] = pending[q]
       \/ pending'[q] = Absent
       \/ pending[q] = Unborn /\ pending'[q] = Entry
       \/ /\ pending[q].stage = "parked"
          /\ pending'[q] = [pending[q] EXCEPT !.expired = TRUE]

LEMMA ShelvingStep == ASSUME IInv, Shelving PROVE IInv'
<1> USE DEF IInv, Shelving
<1>1. Shapes'
  BY DEF Shapes
<1>2. \A q \in Id : pending[q] \in {Unborn, Absent} \cup PendingEntry
  BY DEF Shapes
<1>3. AnsweredIsGone'
  BY <1>2 DEF AnsweredIsGone, PendingEntry, Unborn, Absent
<1>4. EntryOfLastLogin'
  <2> SUFFICES ASSUME NEW q \in Id
               PROVE  /\ pending'[q] = Unborn => logins[q].count = 0
                      /\ pending'[q].stage = "parked" =>
                           /\ pending'[q].nonce = logins[q].count
                           /\ logins[q].count = 0 => pending'[q].subject = None
                           /\ logins[q].count # 0 => /\ pending'[q].subject = logins[q].subject
                                                     /\ pending'[q].role = logins[q].role
    BY DEF EntryOfLastLogin
  <2>1. CASE pending'[q] = pending[q]
    BY <2>1 DEF EntryOfLastLogin
  <2>2. CASE pending'[q] = Absent
    BY <2>2 DEF Absent, Unborn
  <2>3. CASE pending[q] = Unborn /\ pending'[q] = Entry
    BY <2>3 DEF EntryOfLastLogin, Entry, Unborn
  <2>4. CASE pending[q].stage = "parked" /\ pending'[q] = [pending[q] EXCEPT !.expired = TRUE]
    BY <2>4, <1>2 DEF EntryOfLastLogin, PendingEntry, Unborn, Absent
  <2> QED BY <2>1, <2>2, <2>3, <2>4
<1>5. NonceOfLastLogin'
  BY DEF NonceOfLastLogin
<1>6. CodeOfItsBrowser' /\ GrantWithinRole'
  BY DEF CodeOfItsBrowser, GrantWithinRole, Answered
<1> QED BY <1>1, <1>3, <1>4, <1>5, <1>6

LEMMA ShelvingSteps ==
  ASSUME IInv, NEW q \in Id, Authorize(q) \/ Expire(q) \/ Stale(q)
  PROVE  IInv'
<1>1. \A p \in Id : pending[p] \in {Unborn, Absent} \cup PendingEntry
  BY DEF IInv, Shapes
<1>2. pending \in [Id -> {Unborn, Absent} \cup PendingEntry]
  BY DEF IInv, Shapes
<1>3. CASE Authorize(q)
  <2>1. Entry \in PendingEntry
    BY DEF Entry, PendingEntry
  <2> QED BY <1>1, <1>3, <2>1, ShelvingStep DEF Authorize, Shelving
<1>4. CASE Expire(q)
  <2>1. pending[q].stage = "parked" /\ pending[q] \in PendingEntry
    BY <1>1, <1>4 DEF Expire, Alive, Unborn, Absent
  <2>2. [pending[q] EXCEPT !.expired = TRUE] \in PendingEntry
    BY <2>1 DEF PendingEntry
  <2> QED BY <1>1, <1>2, <1>4, <2>1, <2>2, ShelvingStep DEF Expire, Shelving
<1>5. CASE Stale(q)
  <2>1. \/ pending' = [pending EXCEPT ![q] = Absent]
        \/ pending' = pending
    BY <1>5 DEF Stale, Popped, table
  <2>2. UNCHANGED <<users, jar, code, logins, answers>>
    BY <1>5 DEF Stale
  <2> QED BY <1>2, <2>1, <2>2, ShelvingStep DEF Shelving
<1> QED BY <1>3, <1>4, <1>5

\* A login makes the entry, the cookie and the history agree on a nonce nobody has yet.
LEMMA LoginStepIInv ==
  ASSUME IInv, NEW b \in Browser, NEW q \in Id, NEW u \in User, LoginStep(b, q, u)
  PROVE  IInv'
<1> DEFINE n == logins[q].count + 1
<1>1. /\ pending[q].stage = "parked" /\ pending[q] \in PendingEntry
      /\ logins[q].count \in Nat /\ n \in Nat \ {0}
      /\ users[u] \in Role
  BY DEF IInv, Shapes, LoginStep, Heard, Alive, Unborn, Absent, LastLogin
<1>2. /\ pending' = [pending EXCEPT ![q] =
            [@ EXCEPT !.subject = u, !.role = users[u], !.nonce = n]]
      /\ jar' = [jar EXCEPT ![b][q] = n]
      /\ logins' = [logins EXCEPT ![q] = [count |-> n, by |-> b, subject |-> u, role |-> users[u]]]
      /\ UNCHANGED <<users, parked, code, answers>>
  BY DEF LoginStep, Nonce
<1> HIDE DEF n
<1>3. /\ [pending[q] EXCEPT !.subject = u, !.role = users[u], !.nonce = n] \in PendingEntry
      /\ [count |-> n, by |-> b, subject |-> u, role |-> users[u]] \in LastLogin
  BY <1>1 DEF PendingEntry, LastLogin
<1>4. Shapes'
  BY <1>1, <1>2, <1>3 DEF IInv, Shapes
<1>5. answers[q] # 1 /\ code[q] = NoCode
  BY <1>1 DEF IInv, AnsweredIsGone, Absent
<1>6. /\ logins'[q] = [count |-> n, by |-> b, subject |-> u, role |-> users[u]]
      /\ \A p \in Id \ {q} : logins'[p] = logins[p] /\ pending'[p] = pending[p]
      /\ pending'[q] = [pending[q] EXCEPT !.subject = u, !.role = users[u], !.nonce = n]
  BY <1>2 DEF IInv, Shapes
<1>7. AnsweredIsGone'
  BY <1>2, <1>5, <1>6 DEF IInv, AnsweredIsGone
<1>8. EntryOfLastLogin'
  <2> SUFFICES ASSUME NEW p \in Id
               PROVE  /\ pending'[p] = Unborn => logins'[p].count = 0
                      /\ pending'[p].stage = "parked" =>
                           /\ pending'[p].nonce = logins'[p].count
                           /\ logins'[p].count = 0 => pending'[p].subject = None
                           /\ logins'[p].count # 0 => /\ pending'[p].subject = logins'[p].subject
                                                     /\ pending'[p].role = logins'[p].role
    BY DEF EntryOfLastLogin
  <2>1. CASE p # q
    BY <1>6, <2>1 DEF IInv, EntryOfLastLogin
  <2>2. CASE p = q
    <3>1. /\ pending'[q].stage = "parked" /\ pending'[q].nonce = n
          /\ pending'[q].subject = u /\ pending'[q].role = users[u]
      BY <1>1, <1>6 DEF PendingEntry
    <3>2. /\ logins'[q].count = n /\ logins'[q].subject = u /\ logins'[q].role = users[u]
          /\ n # 0
      BY <1>1, <1>6
    <3> QED BY <2>2, <3>1, <3>2 DEF Unborn
  <2> QED BY <2>1, <2>2
<1>9. NonceOfLastLogin'
  <2> SUFFICES ASSUME NEW p \in Id, NEW c \in Browser
               PROVE  /\ jar'[c][p] <= logins'[p].count
                      /\ jar'[c][p] = logins'[p].count /\ jar'[c][p] # 0 => logins'[p].by = c
    BY DEF NonceOfLastLogin
  <2>1. jar[c][p] \in Nat /\ jar[c][p] <= logins[p].count
    BY DEF IInv, Shapes, NonceOfLastLogin
  <2>2. CASE p # q
    BY <1>2, <1>6, <2>1, <2>2 DEF IInv, Shapes, NonceOfLastLogin
  <2>3. CASE p = q /\ c = b
    BY <1>1, <1>2, <1>6, <2>3 DEF IInv, Shapes
  <2>4. CASE p = q /\ c # b
    <3>1. jar'[c][p] = jar[c][p]
      BY <1>2, <2>4 DEF IInv, Shapes
    <3> QED BY <1>1, <1>6, <2>1, <2>4, <3>1 DEF n
  <2> QED BY <2>2, <2>3, <2>4
<1>10. CodeOfItsBrowser' /\ GrantWithinRole'
  BY <1>2, <1>5, <1>6 DEF IInv, CodeOfItsBrowser, GrantWithinRole, Answered
<1> QED BY <1>4, <1>7, <1>8, <1>9, <1>10 DEF IInv

\* What is granted, whatever the form carried.
LEMMA GrantedFacts ==
  ASSUME NEW q \in Id, NEW offered
  PROVE  LET cap == Cap(pending[q].role) IN
         /\ "*" \in Ask[q] \/ Ask[q] = {} \/ Granted(q, offered) \subseteq Ask[q]
         /\ "*" \in cap \/ Granted(q, offered) \subseteq cap
         /\ "*" \in Granted(q, offered) => Granted(q, offered) \subseteq {"*"}
BY DEF Granted

\* The browser that may consent is the one of the last login.
LEMMA ConsenterIsLast ==
  ASSUME IInv, NEW b \in Browser, NEW q \in Id, Heard(b, q), SameBrowser(b, q)
  PROVE  /\ pending[q].stage = "parked"
         /\ logins[q].count > 0
         /\ logins[q].by = b
         /\ logins[q].subject = pending[q].subject
         /\ logins[q].role = pending[q].role
         /\ answers[q] = 0 /\ code[q] = NoCode
<1>1. pending[q].stage = "parked"
  BY DEF Heard, Alive
<1>2. logins[q].count \in Nat /\ logins[q].count # 0
  BY <1>1 DEF IInv, Shapes, LastLogin, SameBrowser, EntryOfLastLogin
<1>3. answers[q] = 0 /\ code[q] = NoCode
  BY <1>1 DEF IInv, Shapes, AnsweredIsGone, Absent
<1> QED BY <1>1, <1>2, <1>3 DEF IInv, SameBrowser, EntryOfLastLogin, NonceOfLastLogin

LEMMA AllowStep ==
  ASSUME IInv, NEW b \in Browser, NEW q \in Id, NEW offered, Allow(b, q, offered)
  PROVE  IInv'
<1>1. /\ pending[q].stage = "parked"
      /\ logins[q].count > 0 /\ logins[q].by = b
      /\ logins[q].subject = pending[q].subject /\ logins[q].role = pending[q].role
      /\ answers[q] = 0 /\ code[q] = NoCode
  BY ConsenterIsLast DEF Allow
<1>2. /\ pending' = [pending EXCEPT ![q] = Absent]
      /\ jar' = [jar EXCEPT ![b][q] = 0]
      /\ answers' = [answers EXCEPT ![q] = @ + 1]
      /\ code' = [code EXCEPT ![q] = [scopes |-> Granted(q, offered), by |-> b,
                                      subject |-> pending[q].subject, role |-> pending[q].role]]
      /\ Granted(q, offered) # {}
      /\ UNCHANGED <<users, logins>>
  BY DEF Allow, Taken, Popped
<1>3. /\ pending'[q] = Absent /\ answers'[q] = 1
      /\ code'[q].scopes = Granted(q, offered)
      /\ code'[q].by = b /\ code'[q].subject = pending[q].subject
      /\ \A p \in Id \ {q} : /\ pending'[p] = pending[p] /\ answers'[p] = answers[p]
                             /\ code'[p] = code[p]
  BY <1>1, <1>2 DEF IInv, Shapes
<1>4. Shapes'
  BY <1>1, <1>2 DEF IInv, Shapes
<1>5. AnsweredIsGone'
  BY <1>3 DEF IInv, AnsweredIsGone
<1>6. EntryOfLastLogin'
  BY <1>2, <1>3 DEF IInv, EntryOfLastLogin, Absent, Unborn
<1>7. NonceOfLastLogin'
  BY <1>2 DEF IInv, Shapes, LastLogin, NonceOfLastLogin
<1>8. CodeOfItsBrowser'
  BY <1>1, <1>2, <1>3 DEF IInv, CodeOfItsBrowser, Answered
<1>9. GrantWithinRole'
  <2>1. logins' = logins
    BY <1>2
  <2> SUFFICES ASSUME NEW p \in Id, code'[p] # NoCode
               PROVE  LET cap == Cap(logins[p].role) IN
                      /\ code'[p].scopes # {}
                      /\ "*" \in Ask[p] \/ Ask[p] = {} \/ code'[p].scopes \subseteq Ask[p]
                      /\ "*" \in cap \/ code'[p].scopes \subseteq cap
                      /\ "*" \in code'[p].scopes => code'[p].scopes = {"*"}
    BY <2>1 DEF GrantWithinRole, Answered, Cap
  <2>2. CASE p = q
    BY <1>1, <1>2, <1>3, <2>2, GrantedFacts
  <2>3. CASE p # q
    BY <1>3, <2>3 DEF IInv, GrantWithinRole, Answered
  <2> QED BY <2>2, <2>3
<1> QED BY <1>4, <1>5, <1>6, <1>7, <1>8, <1>9 DEF IInv

LEMMA DenyStep ==
  ASSUME IInv, NEW b \in Browser, NEW q \in Id, Deny(b, q)
  PROVE  IInv'
<1>1. pending[q].stage = "parked" /\ answers[q] = 0 /\ code[q] = NoCode
  BY ConsenterIsLast DEF Deny
<1>2. /\ pending' = [pending EXCEPT ![q] = Absent]
      /\ answers' = [answers EXCEPT ![q] = @ + 1]
      /\ UNCHANGED <<users, jar, code, logins>>
  BY DEF Deny, Taken, Popped
<1>3. /\ pending'[q] = Absent /\ answers'[q] = 1
      /\ \A p \in Id \ {q} : pending'[p] = pending[p] /\ answers'[p] = answers[p]
  BY <1>1, <1>2 DEF IInv, Shapes
<1>4. Shapes'
  BY <1>1, <1>2 DEF IInv, Shapes
<1>5. AnsweredIsGone' /\ EntryOfLastLogin'
  BY <1>2, <1>3 DEF IInv, AnsweredIsGone, EntryOfLastLogin, Absent, Unborn
<1>6. NonceOfLastLogin' /\ CodeOfItsBrowser' /\ GrantWithinRole'
  BY <1>2 DEF IInv, NonceOfLastLogin, CodeOfItsBrowser, GrantWithinRole, Answered
<1> QED BY <1>4, <1>5, <1>6 DEF IInv

LEMMA NextIInv == ASSUME IInv, [Next]_vars PROVE IInv'
<1>1. CASE UNCHANGED <<users, pending, jar, code, logins, answers>>
  BY <1>1 DEF IInv, Shapes, AnsweredIsGone, EntryOfLastLogin, NonceOfLastLogin,
              CodeOfItsBrowser, GrantWithinRole, Answered
<1>2. CASE UNCHANGED vars
  BY <1>1, <1>2 DEF vars, table
<1>3. CASE Tick
  BY <1>1, <1>3 DEF Tick, table
<1>4. ASSUME NEW u \in User, ChangeUser(u) PROVE IInv'
  <2>1. users' \in [User -> Role \cup {None}]
    BY <1>4 DEF ChangeUser, IInv, Shapes
  <2>2. UNCHANGED <<pending, jar, code, logins, answers>>
    BY <1>4 DEF ChangeUser, table
  <2> QED BY <2>1, <2>2 DEF IInv, Shapes, AnsweredIsGone, EntryOfLastLogin, NonceOfLastLogin,
                            CodeOfItsBrowser, GrantWithinRole, Answered
<1>5. ASSUME NEW q \in Id, Authorize(q) \/ Expire(q) \/ Stale(q) PROVE IInv'
  BY <1>5, ShelvingSteps
<1>6. ASSUME NEW b \in Browser, LockedOut(b) PROVE IInv'
  BY <1>2, <1>6 DEF LockedOut
<1>7. ASSUME NEW b \in Browser, NEW q \in Id, WrongPassword(b, q) \/ RefuseConsent(b, q)
      PROVE  IInv'
  BY <1>1, <1>7 DEF WrongPassword, RefuseConsent, table
<1>8. ASSUME NEW b \in Browser, NEW q \in Id, Deny(b, q) PROVE IInv'
  BY <1>8, DenyStep
<1>9. ASSUME NEW b \in Browser, NEW q \in Id, NEW u \in User, LoginStep(b, q, u) PROVE IInv'
  BY <1>9, LoginStepIInv
<1>10. ASSUME NEW b \in Browser, NEW q \in Id, NEW offered \in Offer, Allow(b, q, offered)
       PROVE  IInv'
  BY <1>10, AllowStep
<1> QED BY <1>2, <1>3, <1>4, <1>5, <1>6, <1>7, <1>8, <1>9, <1>10 DEF Next

\* The invariant holds in every state a pending authorization can reach.
THEOREM Invariance == Spec => []IInv
BY InitIInv, NextIInv, PTL DEF Spec

-----------------------------------------------------------------------------
(* The order of the table, the limiter and the cookies *)

\* The order lists the parked requests, each once, and _gc keeps it within its limit.
OrderAgrees ==
  /\ parked \in Seq(Id)
  /\ \A i, j \in DOMAIN parked : parked[i] = parked[j] => i = j
  /\ ToSet(parked) = {q \in Id : pending[q].stage = "parked"}
  /\ Len(parked) <= MaxPending

\* An address that may still try has room for one more failure.
LimiterWithin ==
  /\ attempts \in [Address -> Seq(Nat)]
  /\ \A a \in Address : Len(attempts[a]) <= MaxAttempts

LoginsWithin == \A q \in Id : logins[q].count <= MaxLogins

Within == OrderAgrees /\ LimiterWithin /\ LoginsWithin

LEMMA ToSetIsRange == \A s : ToSet(s) = {s[i] : i \in DOMAIN s}
BY DEF ToSet

\* A part of a list, possibly empty.
LEMMA PartFacts ==
  ASSUME NEW S, NEW s \in Seq(S), NEW a \in Int, NEW b \in Int,
         1 <= a, a <= b + 1, b <= Len(s)
  PROVE  /\ SubSeq(s, a, b) \in Seq(S)
         /\ Len(SubSeq(s, a, b)) = b - a + 1
         /\ \A i \in 1 .. b - a + 1 : SubSeq(s, a, b)[i] = s[a + i - 1]
<1>1. Len(s) \in Nat /\ \A i \in a .. b : s[i] \in S
  OBVIOUS
<1>2. /\ SubSeq(s, a, b) \in Seq(S)
      /\ Len(SubSeq(s, a, b)) = IF a <= b THEN b - a + 1 ELSE 0
      /\ \A i \in 1 .. b - a + 1 : SubSeq(s, a, b)[i] = s[a + i - 1]
  BY <1>1, SubSeqProperties
<1> QED BY <1>2

\* One list after another.
LEMMA JoinFacts ==
  ASSUME NEW S, NEW x \in Seq(S), NEW y \in Seq(S)
  PROVE  /\ x \o y \in Seq(S) /\ Len(x \o y) = Len(x) + Len(y)
         /\ \A i \in 1 .. Len(x) + Len(y) :
              (x \o y)[i] = IF i <= Len(x) THEN x[i] ELSE y[i - Len(x)]
BY ConcatProperties

\* Taking one element out of a list without repetitions.
LEMMA RemoveAtFacts ==
  ASSUME NEW S, NEW s \in Seq(S), NEW k \in DOMAIN s,
         \A i, j \in DOMAIN s : s[i] = s[j] => i = j
  PROVE  LET t == RemoveAt(s, k) IN
         /\ t \in Seq(S)
         /\ Len(t) = Len(s) - 1
         /\ \A i, j \in DOMAIN t : t[i] = t[j] => i = j
         /\ ToSet(t) = ToSet(s) \ {s[k]}
<1> DEFINE t == RemoveAt(s, k)
           x == SubSeq(s, 1, k - 1)
           y == SubSeq(s, k + 1, Len(s))
<1>1. k \in 1 .. Len(s) /\ Len(s) \in Nat /\ DOMAIN s = 1 .. Len(s)
  OBVIOUS
<1>2. /\ x \in Seq(S) /\ Len(x) = k - 1 /\ \A i \in 1 .. k - 1 : x[i] = s[i]
      /\ y \in Seq(S) /\ Len(y) = Len(s) - k /\ \A i \in 1 .. Len(s) - k : y[i] = s[k + i]
  <2>1. x \in Seq(S) /\ Len(x) = k - 1 /\ \A i \in 1 .. k - 1 : x[i] = s[1 + i - 1]
    <3>1. k - 1 \in Int /\ 1 <= k - 1 + 1 /\ k - 1 <= Len(s) /\ k - 1 - 1 + 1 = k - 1
      BY <1>1
    <3> HIDE DEF x
    <3> QED BY <3>1, PartFacts DEF x
  <2>2. /\ y \in Seq(S) /\ Len(y) = Len(s) - k
        /\ \A i \in 1 .. Len(s) - k : y[i] = s[k + 1 + i - 1]
    <3>1. /\ k + 1 \in Int /\ 1 <= k + 1 /\ k + 1 <= Len(s) + 1
          /\ Len(s) - (k + 1) + 1 = Len(s) - k
      BY <1>1
    <3> HIDE DEF y
    <3> QED BY <3>1, PartFacts DEF y
  <2> HIDE DEF x, y
  <2>3. \A i \in 1 .. k - 1 : 1 + i - 1 = i
    BY <1>1
  <2>4. \A i \in 1 .. Len(s) - k : k + 1 + i - 1 = k + i
    BY <1>1
  <2>5. \A i \in 1 .. k - 1 : x[i] = s[i]
    BY <2>1, <2>3
  <2>6. \A i \in 1 .. Len(s) - k : y[i] = s[k + i]
    BY <2>2, <2>4
  <2> QED BY <2>1, <2>2, <2>5, <2>6
<1>3. t = x \o y
  BY DEF RemoveAt
<1> HIDE DEF t, x, y
<1>4. /\ t \in Seq(S) /\ Len(t) = Len(s) - 1
      /\ \A i \in 1 .. Len(s) - 1 : t[i] = IF i < k THEN s[i] ELSE s[i + 1]
  <2>1. /\ x \o y \in Seq(S) /\ Len(x \o y) = Len(x) + Len(y)
        /\ \A i \in 1 .. Len(x) + Len(y) :
             (x \o y)[i] = IF i <= Len(x) THEN x[i] ELSE y[i - Len(x)]
    <3>1. x \in Seq(S)
      BY <1>2
    <3>2. y \in Seq(S)
      BY <1>2
    <3> QED BY <3>1, <3>2, JoinFacts
  <2>2. t \in Seq(S) /\ Len(t) = Len(s) - 1
    BY <1>1, <1>2, <1>3, <2>1
  <2>3. ASSUME NEW i \in 1 .. Len(s) - 1 PROVE t[i] = IF i < k THEN s[i] ELSE s[i + 1]
    <3>1. i \in 1 .. Len(x) + Len(y) /\ i \in Nat
      BY <1>1, <1>2
    <3>2. CASE i < k
      BY <1>1, <1>2, <1>3, <2>1, <3>1, <3>2
    <3>3. CASE ~(i < k)
      <4>1. i - (k - 1) \in 1 .. Len(s) - k /\ k + (i - (k - 1)) = i + 1 /\ ~(i <= k - 1)
        BY <1>1, <3>1, <3>3
      <4>2. y[i - (k - 1)] = s[k + (i - (k - 1))]
        BY <1>2, <4>1
      <4>3. t[i] = y[i - (k - 1)]
        BY <1>2, <1>3, <2>1, <3>1, <4>1
      <4> QED BY <3>3, <4>1, <4>2, <4>3
    <3> QED BY <3>2, <3>3
  <2> QED BY <2>2, <2>3
<1>5. DOMAIN t = 1 .. Len(s) - 1
  BY <1>4
<1>6. ASSUME NEW i \in DOMAIN t, NEW j \in DOMAIN t, t[i] = t[j] PROVE i = j
  <2>1. i \in DOMAIN s /\ i + 1 \in DOMAIN s /\ j \in DOMAIN s /\ j + 1 \in DOMAIN s
    BY <1>1, <1>5
  <2> QED BY <1>1, <1>4, <1>5, <1>6, <2>1
<1>7. ToSet(t) \subseteq ToSet(s) \ {s[k]}
  <2> SUFFICES ASSUME NEW i \in DOMAIN t PROVE t[i] \in ToSet(s) \ {s[k]}
    BY ToSetIsRange
  <2>1. CASE i < k
    <3>1. i \in DOMAIN s /\ i # k /\ t[i] = s[i]
      BY <1>1, <1>4, <1>5, <2>1
    <3> QED BY <3>1, ToSetIsRange
  <2>2. CASE ~(i < k)
    <3>1. i + 1 \in DOMAIN s /\ i + 1 # k /\ t[i] = s[i + 1]
      BY <1>1, <1>4, <1>5, <2>2
    <3> QED BY <3>1, ToSetIsRange
  <2> QED BY <2>1, <2>2
<1>8. ASSUME NEW i \in DOMAIN s, s[i] # s[k] PROVE s[i] \in ToSet(t)
  <2>1. CASE i < k
    BY <1>1, <1>4, <1>5, <2>1, ToSetIsRange
  <2>2. CASE i > k
    <3>1. i - 1 \in DOMAIN t /\ t[i - 1] = s[i]
      BY <1>1, <1>4, <1>5, <2>2
    <3> QED BY <3>1, ToSetIsRange
  <2>3. i # k
    BY <1>8
  <2> QED BY <1>1, <2>1, <2>2, <2>3
<1>9. ToSet(s) \ {s[k]} \subseteq ToSet(t)
  BY <1>8, ToSetIsRange
<1> QED BY <1>4, <1>6, <1>7, <1>9 DEF t

\* Who stays when a request is to be parked: the last of them, fewer than the limit.
LEMMA RoomFacts ==
  ASSUME OrderAgrees
  PROVE  LET kept == Room(parked) IN
         /\ kept \in Seq(Id)
         /\ Len(kept) < MaxPending
         /\ \A i, j \in DOMAIN kept : kept[i] = kept[j] => i = j
         /\ ToSet(kept) \subseteq ToSet(parked)
<1> DEFINE kept == Room(parked)
           m == Min({Len(parked), MaxPending - 1})
           l == Len(parked)
<1>1. l \in Nat /\ MaxPending - 1 \in Nat /\ parked \in Seq(Id) /\ DOMAIN parked = 1 .. l
  BY LoginAssumption DEF LoginAssumption, OrderAgrees
<1>2. m \in Nat /\ m <= l /\ m <= MaxPending - 1
  <2>1. \E x \in {l, MaxPending - 1} : \A y \in {l, MaxPending - 1} : x <= y
    BY <1>1
  <2>2. m \in {l, MaxPending - 1} /\ \A y \in {l, MaxPending - 1} : m <= y
    BY <2>1 DEF Min
  <2> QED BY <1>1, <2>2
<1>3. kept = SubSeq(parked, l - m + 1, l)
  BY DEF Room
<1> HIDE DEF kept, m, l
<1>4. /\ kept \in Seq(Id) /\ Len(kept) = m
      /\ \A i \in 1 .. m : kept[i] = parked[l - m + i]
  <2>1. /\ l - m + 1 \in Int /\ 1 <= l - m + 1 /\ l - m + 1 <= l + 1
        /\ l \in Int /\ l - (l - m + 1) + 1 = m
    BY <1>1, <1>2
  <2>2. l <= Len(parked)
    BY <1>1 DEF l
  <2>3. /\ kept \in Seq(Id) /\ Len(kept) = m
        /\ \A i \in 1 .. m : kept[i] = parked[l - m + 1 + i - 1]
    BY <1>1, <1>3, <2>1, <2>2, PartFacts
  <2>4. \A i \in 1 .. m : l - m + 1 + i - 1 = l - m + i
    BY <1>1, <1>2
  <2> QED BY <2>3, <2>4
<1>5. DOMAIN kept = 1 .. m /\ \A i \in 1 .. m : l - m + i \in DOMAIN parked
  BY <1>1, <1>2, <1>4
<1>6. ASSUME NEW i \in DOMAIN kept, NEW j \in DOMAIN kept, kept[i] = kept[j] PROVE i = j
  <2>1. l - m + i = l - m + j
    BY <1>4, <1>5, <1>6 DEF OrderAgrees
  <2> QED BY <1>1, <1>2, <1>5, <2>1
<1>7. ToSet(kept) \subseteq ToSet(parked)
  BY <1>4, <1>5, ToSetIsRange
<1>8. Len(kept) < MaxPending
  BY <1>1, <1>2, <1>4, LoginAssumption DEF LoginAssumption
<1> QED BY <1>4, <1>6, <1>7, <1>8 DEF kept

LEMMA PoppedOrder ==
  ASSUME Shapes, OrderAgrees, NEW q \in Id, pending[q].stage = "parked", Popped(q)
  PROVE  OrderAgrees'
<1> DEFINE k == Position(q)
<1>1. q \in ToSet(parked) /\ parked \in Seq(Id)
  BY DEF OrderAgrees
<1>2. k \in DOMAIN parked /\ parked[k] = q
  BY <1>1, ToSetIsRange DEF Position
<1>3. parked' = RemoveAt(parked, k)
  BY DEF Popped
<1> HIDE DEF k
<1>4. /\ parked' \in Seq(Id)
      /\ Len(parked') = Len(parked) - 1
      /\ \A i, j \in DOMAIN parked' : parked'[i] = parked'[j] => i = j
      /\ ToSet(parked') = ToSet(parked) \ {q}
  BY <1>1, <1>2, <1>3, RemoveAtFacts DEF OrderAgrees
<1>5. /\ pending'[q].stage # "parked"
      /\ \A p \in Id \ {q} : pending'[p] = pending[p]
  BY DEF Popped, Absent, Shapes
<1>6. Len(parked') <= MaxPending
  BY <1>1, <1>4, LoginAssumption DEF OrderAgrees, LoginAssumption
<1> QED BY <1>4, <1>5, <1>6 DEF OrderAgrees

LEMMA AuthorizeOrder ==
  ASSUME Shapes, OrderAgrees, NEW q \in Id, Authorize(q)
  PROVE  OrderAgrees'
<1> DEFINE kept == Room(parked)
<1>1. /\ kept \in Seq(Id)
      /\ Len(kept) < MaxPending
      /\ \A i, j \in DOMAIN kept : kept[i] = kept[j] => i = j
      /\ ToSet(kept) \subseteq ToSet(parked)
  BY RoomFacts
<1>2. /\ parked' = Append(kept, q)
      /\ pending' = [p \in Id |-> IF p = q THEN Entry
                                  ELSE IF p \in ToSet(parked) \ ToSet(kept) THEN Absent
                                  ELSE pending[p]]
  BY DEF Authorize
<1>3. q \notin ToSet(kept)
  BY <1>1 DEF Authorize, OrderAgrees, Unborn
<1> HIDE DEF kept
<1>4. /\ parked' \in Seq(Id) /\ Len(parked') = Len(kept) + 1
      /\ DOMAIN parked' = DOMAIN kept \cup {Len(kept) + 1}
      /\ parked'[Len(kept) + 1] = q
      /\ \A i \in DOMAIN kept : parked'[i] = kept[i]
  BY <1>1, <1>2
<1>5. ToSet(parked') = ToSet(kept) \cup {q}
  BY <1>4 DEF ToSet
<1>6. \A i, j \in DOMAIN parked' : parked'[i] = parked'[j] => i = j
  BY <1>1, <1>3, <1>4, ToSetIsRange
<1>7. ToSet(parked') = {p \in Id : pending'[p].stage = "parked"}
  BY <1>1, <1>2, <1>5 DEF OrderAgrees, Entry, Absent
<1>8. Len(parked') <= MaxPending
  BY <1>1, <1>4, LoginAssumption DEF LoginAssumption
<1> QED BY <1>4, <1>6, <1>7, <1>8 DEF OrderAgrees

\* A function on the first numbers is a list.
LEMMA ListFacts ==
  ASSUME NEW S, NEW k \in Nat, NEW f \in [1 .. k -> S]
  PROVE  f \in Seq(S) /\ Len(f) = k
OBVIOUS

\* As time goes by an address has no more attempts than before.
LEMMA AgedFacts ==
  ASSUME NEW s \in Seq(Nat)
  PROVE  Aged(s) \in Seq(Nat) /\ Len(Aged(s)) <= Len(s)
<1> DEFINE old == {i \in DOMAIN s : s[i] + 1 >= Window}
           n == Cardinality(old)
<1>1. Len(s) \in Nat /\ DOMAIN s = 1 .. Len(s)
  OBVIOUS
<1>2. IsFiniteSet(1 .. Len(s)) /\ Cardinality(1 .. Len(s)) = Len(s)
  <2>1. /\ IsFiniteSet(1 .. Len(s))
        /\ Cardinality(1 .. Len(s)) = IF 1 > Len(s) THEN 0 ELSE Len(s) - 1 + 1
    BY <1>1, FS_Interval
  <2> QED BY <1>1, <2>1
<1>3. IsFiniteSet(old) /\ n <= Len(s)
  BY <1>1, <1>2, FS_Subset
<1>4. n \in Nat
  BY <1>3, FS_CardinalityType
<1>5. Aged(s) = [i \in 1 .. Len(s) - n |-> s[n + i] + 1]
  BY DEF Aged
<1> HIDE DEF old, n
<1>6. Len(s) - n \in Nat
  BY <1>1, <1>3, <1>4
<1>7. \A i \in 1 .. Len(s) - n : n + i \in DOMAIN s /\ s[n + i] + 1 \in Nat
  BY <1>1, <1>3, <1>4
<1>8. Aged(s) \in [1 .. Len(s) - n -> Nat]
  BY <1>5, <1>7
<1>9. Aged(s) \in Seq(Nat) /\ Len(Aged(s)) = Len(s) - n
  BY <1>6, <1>8, ListFacts
<1>10. Len(s) - n <= Len(s)
  BY <1>1, <1>4
<1> QED BY <1>9, <1>10

\* A failure is counted only for an address that may still try.
LEMMA CountedWithin ==
  ASSUME LimiterWithin, NEW b \in Browser, Allowed(attempts[AddressOf[b]]), Counted(b)
  PROVE  LimiterWithin'
<1> DEFINE a == AddressOf[b]
<1>1. /\ a \in Address /\ attempts[a] \in Seq(Nat) /\ Len(attempts[a]) < MaxAttempts
      /\ MaxAttempts \in Nat
  BY LimiterAssumption DEF LimiterWithin, Allowed, Address, LimiterAssumption
<1>2. /\ Recorded(attempts[a]) \in Seq(Nat)
      /\ Len(Recorded(attempts[a])) <= MaxAttempts
  BY <1>1 DEF Recorded
<1>3. attempts' = [attempts EXCEPT ![a] = Recorded(attempts[a])]
  BY DEF Counted
<1> HIDE DEF a
<1> QED BY <1>1, <1>2, <1>3 DEF LimiterWithin

LEMMA InitWithin == Init => Within
<1> SUFFICES ASSUME Init PROVE Within
  OBVIOUS
<1>1. parked = <<>> /\ \A q \in Id : pending[q].stage # "parked"
  BY DEF Init, Unborn
<1>2. OrderAgrees
  BY <1>1, LoginAssumption DEF OrderAgrees, ToSet, LoginAssumption
<1>3. LimiterWithin
  BY LimiterAssumption DEF Init, LimiterWithin, Clean, LimiterAssumption
<1>4. LoginsWithin
  BY LoginAssumption DEF Init, LoginsWithin, LoginAssumption
<1> QED BY <1>2, <1>3, <1>4 DEF Within

LEMMA WithinStep ==
  ASSUME IInv, Within, [Next]_vars
  PROVE  Within'
<1>1. Shapes /\ OrderAgrees /\ LimiterWithin /\ LoginsWithin
  BY DEF IInv, Within
<1>2. CASE UNCHANGED <<pending, parked, attempts, logins>>
  BY <1>1, <1>2 DEF Within, OrderAgrees, LimiterWithin, LoginsWithin
<1>3. CASE UNCHANGED vars
  BY <1>2, <1>3 DEF vars
<1>4. CASE Tick
  <2>1. UNCHANGED <<pending, parked, logins>> /\ attempts' = [a \in Address |-> Aged(attempts[a])]
    BY <1>1, <1>4 DEF Tick, table, LimiterWithin
  <2>2. ASSUME NEW a \in Address
        PROVE  Aged(attempts[a]) \in Seq(Nat) /\ Len(Aged(attempts[a])) <= MaxAttempts
    <3>1. /\ attempts[a] \in Seq(Nat) /\ Len(attempts[a]) <= MaxAttempts
          /\ Len(attempts[a]) \in Nat
      BY <1>1 DEF LimiterWithin
    <3>2. Aged(attempts[a]) \in Seq(Nat) /\ Len(Aged(attempts[a])) <= Len(attempts[a])
      BY <3>1, AgedFacts
    <3>3. Len(Aged(attempts[a])) \in Nat
      BY <3>2
    <3> QED BY <3>1, <3>2, <3>3, LimiterAssumption DEF LimiterAssumption
  <2> QED BY <1>1, <2>1, <2>2 DEF Within, OrderAgrees, LimiterWithin, LoginsWithin
<1>5. ASSUME NEW u \in User, ChangeUser(u) PROVE Within'
  BY <1>2, <1>5 DEF ChangeUser, table
<1>6. ASSUME NEW q \in Id, Authorize(q) PROVE Within'
  <2>1. UNCHANGED <<attempts, logins>>
    BY <1>6 DEF Authorize
  <2> QED BY <1>1, <1>6, <2>1, AuthorizeOrder DEF Within, LimiterWithin, LoginsWithin
<1>7. ASSUME NEW q \in Id, Expire(q) PROVE Within'
  <2>1. UNCHANGED <<parked, attempts, logins>>
    BY <1>7 DEF Expire
  <2>2. \A p \in Id : (pending'[p].stage = "parked") <=> (pending[p].stage = "parked")
    <3>1. pending[q] \in PendingEntry
      BY <1>1, <1>7 DEF Expire, Alive, Shapes, Unborn, Absent
    <3>2. [pending[q] EXCEPT !.expired = TRUE].stage = "parked" /\ pending[q].stage = "parked"
      BY <3>1 DEF PendingEntry
    <3> QED BY <1>1, <1>7, <3>2 DEF Expire, Shapes
  <2> QED BY <1>1, <2>1, <2>2 DEF Within, OrderAgrees, LimiterWithin, LoginsWithin
<1>8. ASSUME NEW q \in Id, Stale(q) PROVE Within'
  <2>1. UNCHANGED <<attempts, logins>>
    BY <1>8 DEF Stale
  <2>2. CASE pending[q].stage = "parked"
    <3>1. Popped(q)
      BY <1>8, <2>2 DEF Stale
    <3> QED BY <1>1, <2>1, <2>2, <3>1, PoppedOrder DEF Within, LimiterWithin, LoginsWithin
  <2>3. CASE pending[q].stage # "parked"
    BY <1>2, <1>8, <2>1, <2>3 DEF Stale, table
  <2> QED BY <2>2, <2>3
<1>9. ASSUME NEW b \in Browser, LockedOut(b) PROVE Within'
  BY <1>3, <1>9 DEF LockedOut
<1>10. ASSUME NEW b \in Browser, NEW q \in Id, WrongPassword(b, q) \/ RefuseConsent(b, q)
       PROVE  Within'
  <2>1. UNCHANGED <<pending, parked, logins>> /\ Counted(b) /\ Allowed(attempts[AddressOf[b]])
    BY <1>10 DEF WrongPassword, RefuseConsent, Heard, table
  <2> QED BY <1>1, <2>1, CountedWithin DEF Within, OrderAgrees, LoginsWithin
<1>11. ASSUME NEW b \in Browser, NEW q \in Id, NEW u \in User, LoginStep(b, q, u)
       PROVE  Within'
  <2>1. /\ pending' = [pending EXCEPT ![q] =
             [@ EXCEPT !.subject = u, !.role = users[u], !.nonce = Nonce(q)]]
        /\ attempts' = [attempts EXCEPT ![AddressOf[b]] = Clean]
        /\ parked' = parked
        /\ logins[q].count < MaxLogins
        /\ logins' = [logins EXCEPT ![q] = [count |-> logins[q].count + 1, by |-> b,
                                            subject |-> u, role |-> users[u]]]
    BY <1>11 DEF LoginStep, Nonce
  <2>2. \A p \in Id : (pending'[p].stage = "parked") <=> (pending[p].stage = "parked")
    <3>1. pending[q] \in PendingEntry
      BY <1>1, <1>11 DEF LoginStep, Heard, Alive, Shapes, Unborn, Absent
    <3>2. /\ [pending[q] EXCEPT !.subject = u, !.role = users[u], !.nonce = Nonce(q)].stage
               = "parked"
          /\ pending[q].stage = "parked"
      BY <3>1 DEF PendingEntry
    <3> QED BY <1>1, <2>1, <3>2 DEF Shapes
  <2>3. OrderAgrees'
    BY <1>1, <2>1, <2>2 DEF OrderAgrees
  <2>4. LimiterWithin'
    <3>1. Clean \in Seq(Nat) /\ Len(Clean) <= MaxAttempts
      BY LimiterAssumption DEF Clean, LimiterAssumption
    <3> QED BY <1>1, <2>1, <3>1 DEF LimiterWithin
  <2>5. LoginsWithin'
    <3>1. logins[q].count \in Nat /\ MaxLogins \in Nat
      BY <1>1, LoginAssumption DEF Shapes, LastLogin, LoginAssumption
    <3>2. logins'[q].count <= MaxLogins
      BY <1>1, <2>1, <3>1 DEF Shapes
    <3> QED BY <1>1, <2>1, <3>2 DEF Shapes, LoginsWithin
  <2> QED BY <2>3, <2>4, <2>5 DEF Within
<1>12. ASSUME NEW b \in Browser, NEW q \in Id, NEW offered \in Offer, Allow(b, q, offered)
       PROVE  Within'
  <2>1. UNCHANGED <<attempts, logins>> /\ Popped(q) /\ pending[q].stage = "parked"
    BY <1>12 DEF Allow, Taken, Heard, Alive
  <2> QED BY <1>1, <2>1, PoppedOrder DEF Within, LimiterWithin, LoginsWithin
<1>13. ASSUME NEW b \in Browser, NEW q \in Id, Deny(b, q) PROVE Within'
  <2>1. UNCHANGED <<attempts, logins>> /\ Popped(q) /\ pending[q].stage = "parked"
    BY <1>13 DEF Deny, Taken, Heard, Alive
  <2> QED BY <1>1, <2>1, PoppedOrder DEF Within, LimiterWithin, LoginsWithin
<1> QED BY <1>3, <1>4, <1>5, <1>6, <1>7, <1>8, <1>9, <1>10, <1>11, <1>12, <1>13 DEF Next

-----------------------------------------------------------------------------
(* What it implies *)

\* A code speaks for the last login of its request, and its own browser asked for it
\* (_handle_consent_step), for any number of browsers, requests and logins.
THEOREM ConsentOfTheLastLogin == Spec => []CodeOfItsBrowser
<1>1. IInv => CodeOfItsBrowser
  BY DEF IInv
<1> QED BY <1>1, Invariance, PTL

\* What a code grants was asked for and is within the cap of that login's role
\* (_scope_cap_for_role), whatever a form carries.
THEOREM GrantIsCapped == Spec => []GrantWithinRole
<1>1. IInv => GrantWithinRole
  BY DEF IInv
<1> QED BY <1>1, Invariance, PTL

\* A pending authorization is answered once at most (take_pending).
THEOREM AnsweredOnce == Spec => []OneAnswer
<1>1. IInv => OneAnswer
  BY DEF IInv, Shapes, OneAnswer
<1> QED BY <1>1, Invariance, PTL
\* The table of pending authorizations and the order it is evicted in agree and stay within
\* the limit (_gc, take_pending), no address counts more failures than lock it, and no
\* cookie carries a nonce that was not given out.
THEOREM TypeCorrect == Spec => []TypeOK
<1>1. IInv /\ Within => TypeOK
  <2> SUFFICES ASSUME IInv, Within PROVE TypeOK
    OBVIOUS
  <2>1. \A q \in Id : pending[q].stage \in {"unborn", "parked", "absent"}
    BY DEF IInv, Shapes, PendingEntry, Unborn, Absent
  <2>2. ASSUME NEW b \in Browser, NEW q \in Id PROVE jar[b][q] \in 0 .. MaxLogins
    <3>1. /\ jar[b][q] \in Nat /\ logins[q].count \in Nat /\ MaxLogins \in Nat
          /\ jar[b][q] <= logins[q].count /\ logins[q].count <= MaxLogins
      BY LoginAssumption DEF IInv, Shapes, LastLogin, NonceOfLastLogin, Within, LoginsWithin,
         LoginAssumption
    <3> QED BY <3>1
  <2>3. jar \in [Browser -> [Id -> 0 .. MaxLogins]]
    BY <2>2 DEF IInv, Shapes
  <2> QED BY <2>1, <2>3 DEF TypeOK, IInv, Shapes, Within, OrderAgrees, LimiterWithin
<1> QED BY <1>1, InitWithin, WithinStep, Invariance, PTL DEF Spec
=============================================================================
