------------------------ MODULE PortalSessionsProofs ------------------------
(* Theorems about PortalSessions, for every set of users, sessions and requests. *)
EXTENDS PortalSessions, TLAPS

-----------------------------------------------------------------------------
(* The inductive invariant *)

Tables == [User -> Account \cup {Nobody}]
Portal == reader["portal"]

Typed ==
  /\ users \in Tables
  /\ saves \in Nat \ {0} /\ saves <= MaxSaves /\ cache.key \in 0 .. saves
  /\ reader = [t \in Thread |-> reader[t]]
  /\ session = [s \in Token |-> session[s]]
  /\ request = [r \in Request |-> request[r]]
  /\ \A t \in Thread : reader[t] # Free => reader[t].key \in 1 .. saves
  /\ \A t \in Thread : reader[t] = Free \/ reader[t].step \in {"statted", "read", "handler"}
  /\ reader["mcp"].step # "handler"
  /\ Portal # Free => Portal.token \in Token /\ Live(Portal.token)
  /\ \A s \in Token : Live(s) => session[s].user \in User /\ Holder(s) \in Account
  /\ \A r \in Request : request[r].stage \in {"idle", "form"}

\* What is stored under the key k, or about to be, is what the file held in its state k.
\* Of a state that is past that is known only as far as the portal's check depends on it.
Vouched(k, read) ==
  /\ read \in Tables
  /\ k = saves => read = users
  /\ Checking /\ Portal.key = k => read[Actor.user] \in Portal.said

Witnessed ==
  /\ cache.key # 0 => Vouched(cache.key, cache.users)
  /\ \A t \in Thread : reader[t].step = "read" => Vouched(reader[t].key, reader[t].users)
  /\ Checking => users[Actor.user] \in Portal.said

\* A session in a handler, and one that sent the form of user_detail, had what the file said
\* of its user when the file was in the state the handler or the form began with.
Standing ==
  /\ Portal.step = "handler" /\ Portal.key = saves =>
       users[Actor.user] = Holder(Portal.token)
  /\ \A r \in Request : request[r].stage = "form" /\ request[r].form.op = "detail" =>
       /\ request[r].form.seen \subseteq 1 .. saves
       /\ saves \in request[r].form.seen => users[request[r].by] = request[r].held

IInv == Typed /\ Witnessed /\ Standing

\* the two action properties, of one step
CheckedStep ==
  Checking =>
    LET said == reader["portal"].said
        now == reader'["portal"] IN
    /\ now.step = "handler" => Holder(reader["portal"].token) \in said
    /\ now = Free => Unread \/ said # {Holder(reader["portal"].token)}

StandingStep ==
  \A r \in Request :
    SavesFor(r, "detail") /\ request[r].form.seen # {} => users[request[r].by] = request[r].held

LEMMA Accounts == \A a \in Account : a = [role |-> a.role, password |-> a.password]
BY SessionsAssumption DEF SessionsAssumption

LEMMA Threads == "portal" \in Thread /\ "mcp" \in Thread /\ \A t \in Thread : t = "portal" \/ t = "mcp"
BY DEF Thread

LEMMA InitIInv == Init => IInv
<1> SUFFICES ASSUME Init PROVE IInv
  OBVIOUS
<1>1. Typed
  BY SessionsAssumption, Threads
     DEF Init, SessionsAssumption, Typed, Tables, Portal, Free, New, Waits, Live
<1>2. ~Checking /\ Portal.step = "free" /\ \A t \in Thread : reader[t].step = "free"
  BY Threads DEF Init, Checking, Portal, Free
<1>3. Witnessed /\ Standing
  BY <1>2 DEF Init, Witnessed, Standing, Waits
<1> QED BY <1>1, <1>3 DEF IInv

\* Nothing of the portal is in progress in the new state, and the file stays.
LEMMA RestStep ==
  ASSUME IInv, UNCHANGED <<users, saves, cache, request>>,
         reader' = [t \in Thread |-> reader'[t]],
         Portal' = Free, reader'["mcp"] = reader["mcp"],
         session' = [s \in Token |-> session'[s]],
         \A s \in Token : Live(s)' => session'[s].user \in User /\ Holder(s)' \in Account
  PROVE  IInv'
<1>1. Typed'
  BY Threads DEF IInv, Typed, Portal, Free
<1>2. ~Checking'
  BY DEF Checking, Portal, Free
<1>3. Witnessed'
  BY <1>2, Threads DEF IInv, Witnessed, Vouched, Portal, Free
<1>4. Standing'
  BY DEF IInv, Standing, Portal, Free
<1> QED BY <1>1, <1>3, <1>4 DEF IInv

\* The file is saved while nothing of the portal is in progress, or its handler ends.
LEMMA SaveStep ==
  ASSUME IInv, users' \in Tables, saves < MaxSaves, saves' = saves + 1, UNCHANGED cache,
         reader' = [t \in Thread |-> reader'[t]],
         Portal' = Free, reader'["mcp"] = reader["mcp"],
         session' = [s \in Token |-> session'[s]],
         \A s \in Token : Live(s)' => session'[s].user \in User /\ Holder(s)' \in Account,
         request' = [r \in Request |-> request'[r]],
         \A r \in Request : request'[r] \in {request[r], Waits}
  PROVE  IInv'
<1>1. Typed'
  BY SessionsAssumption, Threads DEF SessionsAssumption, IInv, Typed, Portal, Free, Waits
<1>2. ~Checking'
  BY DEF Checking, Portal, Free
<1>3. Witnessed'
  BY <1>2, Threads DEF IInv, Typed, Witnessed, Vouched, Portal, Free
<1>4. Standing'
  BY DEF IInv, Typed, Standing, Portal, Free, Waits
<1> QED BY <1>1, <1>3, <1>4 DEF IInv

-----------------------------------------------------------------------------
(* Sessions *)

LEMMA LoginStep ==
  ASSUME IInv, NEW s \in Token, NEW u \in User, NEW old \in SUBSET Token, Login(s, u, old)
  PROVE  IInv'
<1>1. users[u] \in Account
  BY DEF Login, IInv, Typed, Tables
<1>2. \A t \in Token : Live(t)' => session'[t].user \in User /\ Holder(t)' \in Account
  <2> SUFFICES ASSUME NEW t \in Token, Live(t)'
               PROVE  session'[t].user \in User /\ Holder(t)' \in Account
    OBVIOUS
  <2>1. CASE t = s
    <3>1. session'[t] = [stage |-> "live", user |-> u, role |-> users[u].role,
                         password |-> users[u].password]
      BY <2>1 DEF Login
    <3> QED BY <1>1, <3>1, Accounts DEF Holder
  <2>2. CASE t # s
    <3>1. session'[t] = session[t]
      BY <2>2 DEF Login, Live, Gone
    <3> QED BY <3>1 DEF IInv, Typed, Live, Holder
  <2> QED BY <2>1, <2>2
<1>3. session' = [t \in Token |-> session'[t]]
  BY DEF Login
<1> QED BY <1>2, <1>3, RestStep DEF Login, PortalFree, Portal, IInv, Typed

LEMMA EndsStep == ASSUME IInv, NEW s \in Token, Ends(s) PROVE IInv'
<1>1. session' = [t \in Token |-> session'[t]]
  BY DEF Ends, IInv, Typed
<1>2. \A t \in Token : Live(t)' => session'[t] = session[t]
  BY DEF Ends, IInv, Typed, Live, Gone
<1>3. \A t \in Token : Live(t)' => session'[t].user \in User /\ Holder(t)' \in Account
  BY <1>2 DEF IInv, Typed, Live, Holder
<1> QED BY <1>1, <1>3, RestStep DEF Ends, PortalFree, Portal, IInv, Typed

-----------------------------------------------------------------------------
(* portal_users *)

LEMMA ArrivesStep == ASSUME IInv, NEW s \in Token, Arrives(s) PROVE IInv'
<1>1. /\ Portal' = [step |-> "statted", key |-> saves, users |-> <<>>, token |-> s, said |-> {users[session[s].user]}]
      /\ reader' = [t \in Thread |-> reader'[t]] /\ reader'["mcp"] = reader["mcp"]
      /\ UNCHANGED <<users, saves, cache, session, request>> /\ Live(s)
  BY Threads DEF Arrives, IInv, Typed, Portal
<1>2. Typed'
  BY <1>1, Threads DEF IInv, Typed, Portal, Free, Live, Holder
<1>3. Portal'.key = saves /\ Portal'.said = {users[session[s].user]} /\ Actor' = session[s]
      /\ Portal'.step = "statted"
  BY <1>1 DEF Actor, Portal
<1>4. \A k, read : Vouched(k, read) => Vouched(k, read)'
  BY <1>1, <1>3 DEF Vouched
<1>5. Witnessed'
  BY <1>1, <1>3, <1>4, Threads DEF IInv, Witnessed, Portal
<1>6. Standing'
  BY <1>1, <1>3 DEF IInv, Standing, Portal
<1> QED BY <1>2, <1>5, <1>6 DEF IInv

\* The portal's part of the state, and the file, stay.
LEMMA McpStep ==
  ASSUME IInv, UNCHANGED <<users, saves, session, request>>,
         reader' = [t \in Thread |-> reader'[t]], UNCHANGED Portal,
         reader'["mcp"] = Free \/ reader'["mcp"].step \in {"statted", "read"},
         reader'["mcp"] # Free => reader'["mcp"].key \in 1 .. saves,
         reader'["mcp"].step = "read" => Vouched(reader'["mcp"].key, reader'["mcp"].users),
         cache'.key \in 0 .. saves,
         cache'.key # 0 => Vouched(cache'.key, cache'.users)
  PROVE  IInv' /\ CheckedStep /\ StandingStep
<1>1. Typed'
  BY Threads DEF IInv, Typed, Portal, Free, Live, Holder
<1>2. Checking' = Checking /\ Actor' = Actor
  BY DEF Checking, Actor, Portal
<1>3. \A k, read : Vouched(k, read) => Vouched(k, read)'
  BY <1>2 DEF Vouched
<1>4. Witnessed'
  BY <1>2, <1>3, Threads DEF IInv, Witnessed, Portal, Free
<1>5. Standing'
  BY <1>2 DEF IInv, Standing, Portal, Holder
<1>6. CheckedStep /\ StandingStep
  BY DEF CheckedStep, Checking, Portal, Free, StandingStep, SavesFor
<1> QED BY <1>1, <1>4, <1>5, <1>6 DEF IInv

\* The check of a request is over, with users that are vouched for or could not be read.
LEMMA SettleStep ==
  ASSUME IInv, Checking, NEW read, NEW valid, Settles("portal", valid),
         \/ ~valid /\ Unread
         \/ (valid <=> Valid("portal", read)) /\ Vouched(Portal.key, read),
         UNCHANGED <<users, saves, request>>,
         cache'.key \in 0 .. saves,
         cache'.key # 0 => Vouched(cache'.key, cache'.users)
  PROVE  IInv' /\ CheckedStep /\ StandingStep
<1> DEFINE s == Portal.token
           u == session[s].user
<1>1. Portal # Free /\ Portal.key \in 1 .. saves /\ s \in Token /\ Live(s) /\ u \in User
  BY Threads DEF Checking, Portal, Free, IInv, Typed
<1>2. StandingStep
  BY DEF StandingStep, SavesFor
<1>3. reader' = [t \in Thread |-> reader'[t]] /\ reader'["mcp"] = reader["mcp"]
  BY Threads DEF Settles, IInv, Typed
<1>4. CASE valid
  <2>1. Vouched(Portal.key, read) /\ read[u] = Holder(s)
    BY <1>4 DEF Valid, Portal
  <2>2. Portal' = [step |-> "handler", key |-> Portal.key, token |-> s] /\ UNCHANGED session
    BY <1>4, Threads DEF Settles, Portal, IInv, Typed
  <2>3. ~Checking' /\ Actor' = Actor /\ Portal'.key = Portal.key /\ Portal'.token = s
        /\ Portal'.step = "handler" /\ Actor = session[s]
    BY <2>2 DEF Checking, Portal, Actor
  <2>4. Typed'
    BY <1>1, <1>3, <2>2, <2>3, Threads DEF IInv, Typed, Portal, Free, Live, Holder
  <2>5. Witnessed'
    <3>1. \A k, r : Vouched(k, r) => Vouched(k, r)'
      BY <2>3 DEF Vouched
    <3> QED BY <1>3, <2>3, <3>1, Threads DEF IInv, Witnessed, Portal
  <2>6. Standing'
    <3>1. Portal.key = saves => users[u] = Holder(s)
      BY <2>1 DEF Vouched
    <3>2. Holder(s)' = Holder(s)
      BY <2>2 DEF Holder
    <3> QED BY <2>3, <3>1, <3>2 DEF IInv, Standing, Portal
  <2>7. CheckedStep
    <3>1. read[u] \in Portal.said
      BY <2>1, <2>3 DEF Vouched
    <3>2. Holder(s) \in Portal.said
      BY <2>1, <3>1
    <3>3. Portal' # Free
      BY <2>3 DEF Free
    <3> QED BY <3>2, <3>3 DEF CheckedStep, Portal
  <2> QED BY <1>2, <2>4, <2>5, <2>6, <2>7 DEF IInv
<1>5. CASE ~valid
  <2>1. Portal' = Free /\ session' = [session EXCEPT ![s] = Gone]
    BY <1>5, Threads DEF Settles, Portal, IInv, Typed
  <2>2. ~Checking' /\ Portal'.step = "free"
    BY <2>1 DEF Checking, Portal, Free
  <2>3. Typed'
    <3>1. \A t \in Token : Live(t)' => session'[t] = session[t]
      BY <2>1 DEF IInv, Typed, Live, Gone
    <3>2. \A t \in Token : Live(t)' => session'[t].user \in User /\ Holder(t)' \in Account
      BY <3>1 DEF IInv, Typed, Live, Holder
    <3>3. session' = [t \in Token |-> session'[t]]
      BY <2>1 DEF IInv, Typed
    <3> QED BY <1>3, <2>1, <3>2, <3>3, Threads DEF IInv, Typed, Portal, Free
  <2>4. Witnessed'
    <3>1. \A k, r : Vouched(k, r) => Vouched(k, r)'
      BY <2>2 DEF Vouched
    <3> QED BY <1>3, <2>2, <3>1, Threads DEF IInv, Witnessed, Portal
  <2>5. Standing'
    BY <2>2 DEF IInv, Standing, Portal
  <2>6. CheckedStep
    <3>1. CASE Unread
      BY <2>2, <3>1 DEF CheckedStep, Portal
    <3>2. CASE Vouched(Portal.key, read) /\ ~Valid("portal", read)
      <4>1. read[u] \in Portal.said
        BY <3>2 DEF Vouched, Actor, Portal
      <4>2. read[u] # Holder(s)
        BY <3>2 DEF Valid, Portal
      <4> QED BY <2>2, <4>1, <4>2 DEF CheckedStep, Portal
    <3>3. Unread \/ (Vouched(Portal.key, read) /\ ~Valid("portal", read))
      BY <1>5
    <3> QED BY <3>1, <3>2, <3>3
  <2> QED BY <1>2, <2>3, <2>4, <2>5, <2>6 DEF IInv
<1> QED BY <1>4, <1>5

LEMMA McpArrivesStep == ASSUME IInv, McpArrives PROVE IInv' /\ CheckedStep /\ StandingStep
<1>1. /\ reader'["mcp"] = [step |-> "statted", key |-> saves, users |-> <<>>] /\ UNCHANGED Portal
      /\ reader' = [t \in Thread |-> reader'[t]]
  BY Threads DEF McpArrives, IInv, Typed, Portal
<1>2. saves \in 1 .. saves
  BY DEF IInv, Typed
<1> QED BY <1>1, <1>2, McpStep DEF McpArrives, IInv, Typed, Witnessed

\* The MCP thread is done.
LEMMA McpSettles ==
  ASSUME IInv, NEW valid, Settles("mcp", valid), UNCHANGED <<users, saves, request>>,
         cache'.key \in 0 .. saves,
         cache'.key # 0 => Vouched(cache'.key, cache'.users)
  PROVE  IInv' /\ CheckedStep /\ StandingStep
<1>1. /\ reader'["mcp"] = Free /\ UNCHANGED <<Portal, session>>
      /\ reader' = [t \in Thread |-> reader'[t]]
  BY Threads DEF Settles, IInv, Typed, Portal
<1>2. reader'["mcp"].step # "read"
  BY <1>1 DEF Free
<1> QED BY <1>1, <1>2, McpStep

LEMMA HitStep == ASSUME IInv, NEW t \in Thread, Hit(t) PROVE IInv' /\ CheckedStep /\ StandingStep
<1>1. /\ reader[t].step = "statted" /\ cache.key = reader[t].key /\ Settles(t, Valid(t, cache.users))
      /\ UNCHANGED <<users, saves, cache, request>>
  BY DEF Hit
<1>2. cache.key \in 1 .. saves /\ Vouched(cache.key, cache.users)
  BY <1>1 DEF IInv, Typed, Witnessed, Free
<1>3. CASE t = "portal"
  BY <1>1, <1>2, <1>3, SettleStep DEF Checking, Portal
<1>4. CASE t = "mcp"
  BY <1>1, <1>2, <1>4, McpSettles
<1> QED BY <1>3, <1>4, Threads

LEMMA ReadsStep == ASSUME IInv, NEW t \in Thread, Reads(t) PROVE IInv' /\ CheckedStep /\ StandingStep
<1>1. /\ reader[t].step = "statted"
      /\ reader' = [reader EXCEPT ![t].step = "read", ![t].users = users]
      /\ UNCHANGED <<users, saves, cache, session, request>>
  BY DEF Reads
<1>2. reader' = [u \in Thread |-> reader'[u]] /\ \A u \in Thread : u # t => reader'[u] = reader[u]
  BY <1>1 DEF IInv, Typed
<1>3. reader'[t] = [reader[t] EXCEPT !.step = "read", !.users = users]
  BY <1>1 DEF IInv, Typed
<1>4. reader[t].key \in 1 .. saves /\ users \in Tables
  BY <1>1 DEF IInv, Typed, Free
<1>5. CASE t = "mcp"
  <2>1. reader'[t].step = "read" /\ reader'[t].users = users /\ reader'[t].key = reader[t].key
    BY <1>3
  <2>2. Vouched(reader[t].key, users)
    BY <1>4 DEF Vouched, IInv, Witnessed
  <2> QED BY <1>1, <1>2, <1>4, <1>5, <2>1, <2>2, Threads, McpStep DEF Portal, IInv, Typed, Witnessed
<1>6. CASE t = "portal"
  <2>0. Portal' = [Portal EXCEPT !.step = "read", !.users = users]
        /\ reader'["mcp"] = reader["mcp"] /\ Portal.step = "statted"
    BY <1>1, <1>2, <1>3, <1>6, Threads DEF Portal
  <2>1. /\ Portal'.step = "read" /\ Portal'.users = users
        /\ Portal'.key = Portal.key /\ Portal'.token = Portal.token /\ Portal'.said = Portal.said
    BY <2>0
  <2>2. Checking /\ Checking' /\ Actor' = Actor /\ Portal # Free /\ Portal' # Free
    <3>1. Portal # Free /\ Portal' # Free
      <4>1. Portal.step = "statted" /\ Portal'.step = "read"
        BY <2>0, <2>1
      <4> QED BY <4>1 DEF Free
    <3>2. Checking /\ Checking'
      BY <2>0, <2>1 DEF Checking, Portal
    <3>3. Actor' = Actor
      BY <1>1, <2>1 DEF Actor, Portal
    <3> QED BY <3>1, <3>2, <3>3
  <2>3. \A k, read : Vouched(k, read) => Vouched(k, read)'
    BY <1>1, <2>1, <2>2 DEF Vouched
  <2>4. Vouched(Portal.key, users)
    BY <1>4, <2>2 DEF Vouched, IInv, Witnessed
  <2>5. Typed'
    BY <1>1, <1>2, <2>0, <2>1, <2>2, Threads DEF IInv, Typed, Portal, Live, Holder
  <2>6. Witnessed'
    <3>1. cache'.key # 0 => Vouched(cache.key, cache.users)'
      BY <1>1, <2>3 DEF IInv, Witnessed
    <3>2. Vouched(Portal.key, Portal.users)'
      BY <2>1, <2>3, <2>4
    <3>3. (reader["mcp"].step = "read" => Vouched(reader["mcp"].key, reader["mcp"].users))'
      BY <2>0, <2>3, Threads DEF IInv, Witnessed
    <3>4. (users[Actor.user] \in Portal.said)'
      BY <1>1, <2>1, <2>2 DEF IInv, Witnessed
    <3> QED BY <3>1, <3>2, <3>3, <3>4, Threads DEF Witnessed, Portal
  <2>7. Standing'
    BY <1>1, <2>1 DEF IInv, Standing
  <2>8. CheckedStep /\ StandingStep
    BY <1>1, <2>1, <2>2 DEF CheckedStep, Portal, StandingStep, SavesFor
  <2> QED BY <2>5, <2>6, <2>7, <2>8 DEF IInv
<1> QED BY <1>5, <1>6, Threads

LEMMA FailsStep == ASSUME IInv, NEW t \in Thread, ReadFails(t) PROVE IInv' /\ CheckedStep /\ StandingStep
<1>1. /\ reader[t].step = "statted" /\ cache.key # reader[t].key /\ Settles(t, FALSE)
      /\ UNCHANGED <<users, saves, cache, request>>
  BY DEF ReadFails
<1>2. cache.key \in 0 .. saves /\ (cache.key # 0 => Vouched(cache.key, cache.users))
  BY DEF IInv, Typed, Witnessed
<1>3. CASE t = "portal"
  BY <1>1, <1>2, <1>3, SettleStep DEF Checking, Portal, Unread
<1>4. CASE t = "mcp"
  BY <1>1, <1>2, <1>4, McpSettles
<1> QED BY <1>3, <1>4, Threads

LEMMA StoresStep == ASSUME IInv, NEW t \in Thread, Stores(t) PROVE IInv' /\ CheckedStep /\ StandingStep
<1>1. /\ reader[t].step = "read" /\ Settles(t, Valid(t, reader[t].users))
      /\ cache' = [key |-> reader[t].key, users |-> reader[t].users]
      /\ UNCHANGED <<users, saves, request>>
  BY DEF Stores, Key
<1>2. reader[t].key \in 1 .. saves /\ Vouched(reader[t].key, reader[t].users)
  BY <1>1 DEF IInv, Typed, Witnessed, Free
<1>3. cache'.key = reader[t].key /\ cache'.users = reader[t].users
  BY <1>1
<1>4. CASE t = "portal"
  BY <1>1, <1>2, <1>3, <1>4, SettleStep DEF Checking, Portal
<1>5. CASE t = "mcp"
  BY <1>1, <1>2, <1>3, <1>5, McpSettles
<1> QED BY <1>4, <1>5, Threads

-----------------------------------------------------------------------------
(* The user pages *)

\* Outside a check, the property of the check says nothing.
LEMMA Unchecked == ~Checking => CheckedStep
BY DEF CheckedStep

LEMMA HandlerFacts ==
  ASSUME IInv, InHandler
  PROVE  /\ ~Checking /\ Portal # Free /\ Portal.step = "handler" /\ Portal.key \in 1 .. saves
         /\ Portal.token \in Token /\ Live(Portal.token)
BY Threads DEF InHandler, Checking, Portal, Free, IInv, Typed

LEMMA Leaving ==
  ASSUME IInv, Leaves
  PROVE  /\ Portal' = Free /\ reader'["mcp"] = reader["mcp"]
         /\ reader' = [t \in Thread |-> reader'[t]]
BY Threads DEF Leaves, Portal, IInv, Typed

LEMMA ShowsStep == ASSUME IInv, Shows PROVE IInv' /\ CheckedStep /\ StandingStep
<1>1. IInv'
  BY Leaving, RestStep DEF Shows, IInv, Typed, Live, Holder
<1>2. CheckedStep
  BY HandlerFacts, Unchecked DEF Shows
<1>3. StandingStep
  BY DEF Shows, StandingStep, SavesFor
<1> QED BY <1>1, <1>2, <1>3

LEMMA AwaitsStep ==
  ASSUME IInv, NEW r \in Request, NEW form, Awaits(r, form),
         form.op = "detail" => form.seen \subseteq 1 .. Portal.key
  PROVE  IInv' /\ CheckedStep /\ StandingStep
<1> DEFINE q == [stage |-> "form", token |-> Portal.token, by |-> Actor.user,
                 held |-> Holder(Portal.token), form |-> form]
<1>1. /\ InHandler /\ Leaves /\ UNCHANGED <<users, saves, cache, session>>
      /\ request' = [request EXCEPT ![r] = q]
  BY DEF Awaits, Portal
<1>2. \A p \in Request : request'[p] = IF p = r THEN q ELSE request[p]
  BY <1>1 DEF IInv, Typed
<1>3. request' = [p \in Request |-> request'[p]]
  BY <1>1 DEF IInv, Typed
<1>4. Portal.key \in 1 .. saves /\ saves \in Nat /\ (Portal.key = saves => users[Actor.user] = Holder(Portal.token))
  BY <1>1, HandlerFacts DEF IInv, Standing, Typed
<1>5. q.stage = "form" /\ q.by = Actor.user /\ q.held = Holder(Portal.token) /\ q.form = form
  OBVIOUS
<1> HIDE DEF q
<1>6. Typed'
  BY <1>1, <1>2, <1>3, <1>5, Leaving, Threads DEF IInv, Typed, Portal, Free, Live, Holder
<1>7. ~Checking' /\ Portal'.step = "free" /\ Portal' = Free
  BY <1>1, Leaving DEF Checking, Portal, Free
<1>8. Witnessed'
  BY <1>1, <1>7, Leaving, Threads DEF IInv, Witnessed, Vouched, Portal, Free
<1>9. Standing'
  <2> SUFFICES ASSUME NEW p \in Request, request'[p].stage = "form", request'[p].form.op = "detail"
               PROVE  /\ request'[p].form.seen \subseteq 1 .. saves
                      /\ saves \in request'[p].form.seen => users[request'[p].by] = request'[p].held
    BY <1>1, <1>7 DEF Standing
  <2>1. CASE p = r
    BY <1>2, <1>4, <1>5, <2>1
  <2>2. CASE p # r
    BY <1>2, <2>2 DEF IInv, Standing
  <2> QED BY <2>1, <2>2
<1>10. CheckedStep
  BY <1>1, HandlerFacts, Unchecked
<1>11. StandingStep
  BY <1>1 DEF StandingStep, SavesFor
<1> QED BY <1>6, <1>8, <1>9, <1>10, <1>11 DEF IInv

LEMMA DetailStep == ASSUME IInv, NEW r \in Request, AwaitsDetail(r) PROVE IInv' /\ CheckedStep /\ StandingStep
<1>1. PICK u \in User, seen \in SUBSET (1 .. Portal.key) :
        Awaits(r, [op |-> "detail", target |-> u, role |-> users[u].role, seen |-> seen])
  BY DEF AwaitsDetail, Portal
<1> QED BY <1>1, AwaitsStep

LEMMA OtherFormStep ==
  ASSUME IInv, NEW r \in Request, NEW op \in {"create", "bulk"}, Awaits(r, [op |-> op])
  PROVE  IInv' /\ CheckedStep /\ StandingStep
<1> DEFINE form == [op |-> op]
<1>1. form.op # "detail"
  OBVIOUS
<1> QED BY <1>1, AwaitsStep

LEMMA FormTaken ==
  ASSUME IInv, NEW r \in Request, PortalFree, Done(r)
  PROVE  /\ ~Checking
         /\ request' = [p \in Request |-> request'[p]]
         /\ \A p \in Request : request'[p] = IF p = r THEN Waits ELSE request[p]
BY DEF PortalFree, Checking, Free, Done, IInv, Typed

LEMMA RefusedStep == ASSUME IInv, NEW r \in Request, Refused(r) PROVE IInv' /\ CheckedStep /\ StandingStep
<1>1. /\ ~Checking /\ PortalFree /\ UNCHANGED <<users, saves, cache, reader, session>>
      /\ request' = [p \in Request |-> request'[p]]
      /\ \A p \in Request : request'[p] = IF p = r THEN Waits ELSE request[p]
  BY FormTaken DEF Refused
<1>2. Typed'
  BY <1>1 DEF IInv, Typed, Portal, Free, Live, Holder, Waits
<1>3. Witnessed'
  BY <1>1 DEF IInv, Witnessed, Vouched, Portal, Actor, Checking
<1>4. Standing'
  BY <1>1 DEF IInv, Standing, Portal, Actor, Holder, Waits
<1>5. CheckedStep /\ StandingStep
  BY <1>1, Unchecked DEF StandingStep, SavesFor
<1> QED BY <1>2, <1>3, <1>4, <1>5 DEF IInv

\* A form that saves: everything but the property of user_detail.
LEMMA FormSaves ==
  ASSUME IInv, NEW r \in Request, NEW new \in Tables, PortalFree, Done(r), Saved(new),
         UNCHANGED <<cache, reader>>,
         session' = [s \in Token |-> session'[s]],
         \A s \in Token : Live(s)' => session'[s].user \in User /\ Holder(s)' \in Account
  PROVE  IInv' /\ CheckedStep
<1>1. /\ ~Checking /\ Portal' = Free /\ reader'["mcp"] = reader["mcp"]
      /\ reader' = [t \in Thread |-> reader'[t]]
  BY FormTaken DEF PortalFree, Portal, IInv, Typed
<1>2. IInv'
  BY <1>1, FormTaken, SaveStep DEF Saved
<1> QED BY <1>1, <1>2, Unchecked

LEMMA CreatesStep ==
  ASSUME IInv, NEW r \in Request, NEW u \in User, NEW account \in Account, Creates(r, u, account)
  PROVE  IInv' /\ CheckedStep /\ StandingStep
<1>1. [users EXCEPT ![u] = account] \in Tables
  BY DEF IInv, Typed, Tables
<1>2. PortalFree /\ Done(r) /\ request[r].form.op = "create"
      /\ Saved([users EXCEPT ![u] = account]) /\ UNCHANGED <<cache, reader, session>>
  BY DEF Creates, Form
<1>3. IInv' /\ CheckedStep
  BY <1>1, <1>2, FormSaves DEF IInv, Typed, Live, Holder
<1>4. StandingStep
  BY <1>2, FormTaken DEF StandingStep, SavesFor, Waits
<1> QED BY <1>3, <1>4

LEMMA BulkStep ==
  ASSUME IInv, NEW r \in Request, NEW gone \in SUBSET User, DeletesMany(r, gone)
  PROVE  IInv' /\ CheckedStep /\ StandingStep
<1> DEFINE new == [u \in User |-> IF u \in gone THEN Nobody ELSE users[u]]
<1>1. new \in Tables
  BY DEF IInv, Typed, Tables
<1>2. PortalFree /\ Done(r) /\ request[r].form.op = "bulk" /\ Saved(new)
      /\ UNCHANGED <<cache, reader, session>>
  BY DEF DeletesMany, Form
<1> HIDE DEF new
<1>3. IInv' /\ CheckedStep
  BY <1>1, <1>2, FormSaves DEF IInv, Typed, Live, Holder
<1>4. StandingStep
  BY <1>2, FormTaken DEF StandingStep, SavesFor, Waits
<1> QED BY <1>3, <1>4

\* The guard on the page's modification time is what vouches for the session again.
LEMMA EditsStep ==
  ASSUME IInv, NEW r \in Request, NEW account \in Account, Edits(r, account)
  PROVE  IInv' /\ CheckedStep /\ StandingStep
<1> DEFINE u == request[r].form.target
<1>1. /\ PortalFree /\ request[r].stage = "form" /\ request[r].form.op = "detail"
      /\ request[r].form.seen \subseteq {saves}
      /\ session' = Refreshed(r, u, account) /\ Done(r) /\ UNCHANGED <<cache, reader>>
      /\ Saved([users EXCEPT ![u] = account]) \/ UNCHANGED <<users, saves>>
  BY DEF Edits, Form, SameFile
<1>2. request[r].form.seen # {} => users[request[r].by] = request[r].held
  BY <1>1 DEF IInv, Standing
<1>3. session' = [s \in Token |-> session'[s]]
  BY <1>1 DEF Refreshed
<1>4. \A s \in Token : Live(s)' => session'[s].user \in User /\ Holder(s)' \in Account
  <2> SUFFICES ASSUME NEW s \in Token, Live(s)'
               PROVE  session'[s].user \in User /\ Holder(s)' \in Account
    OBVIOUS
  <2>1. session'[s] = session[s] \/
        /\ Live(s) /\ session[s].user = u
        /\ session'[s] = [stage |-> "live", user |-> u, role |-> account.role,
                          password |-> account.password]
    BY <1>1 DEF Refreshed, Live, Gone
  <2>2. CASE session'[s] = session[s]
    BY <2>2 DEF IInv, Typed, Live, Holder
  <2>3. CASE session'[s] # session[s]
    <3>1. u \in User
      BY <2>1, <2>3 DEF IInv, Typed
    <3> QED BY <2>1, <2>3, <3>1, Accounts DEF Holder
  <2> QED BY <2>2, <2>3
<1>5. StandingStep
  BY <1>1, <1>2, FormTaken DEF StandingStep, SavesFor, Waits
<1>6. CASE Saved([users EXCEPT ![u] = account])
  <2>1. [users EXCEPT ![u] = account] \in Tables
    BY DEF IInv, Typed, Tables
  <2> QED BY <1>1, <1>3, <1>4, <1>5, <1>6, <2>1, FormSaves
<1>7. CASE UNCHANGED <<users, saves>>
  <2>1. /\ ~Checking /\ Portal = Free /\ reader' = reader
        /\ request' = [p \in Request |-> request'[p]]
        /\ \A p \in Request : request'[p] = IF p = r THEN Waits ELSE request[p]
    BY <1>1, FormTaken DEF PortalFree, Portal
  <2>2. Typed'
    BY <1>1, <1>3, <1>4, <1>7, <2>1 DEF IInv, Typed, Portal, Waits
  <2>3. Witnessed'
    BY <1>1, <1>7, <2>1 DEF IInv, Witnessed, Vouched, Portal, Checking
  <2>4. Standing'
    BY <1>7, <2>1 DEF IInv, Standing, Portal, Free, Waits
  <2> QED BY <1>5, <2>1, <2>2, <2>3, <2>4, Unchecked DEF IInv
<1> QED BY <1>1, <1>6, <1>7

LEMMA DeletesStep == ASSUME IInv, NEW u \in User, Deletes(u) PROVE IInv' /\ CheckedStep /\ StandingStep
<1>1. /\ InHandler /\ Leaves /\ Saved([users EXCEPT ![u] = Nobody])
      /\ UNCHANGED <<cache, session, request>>
  BY DEF Deletes
<1>2. [users EXCEPT ![u] = Nobody] \in Tables
  BY DEF IInv, Typed, Tables
<1>3. IInv'
  BY <1>1, <1>2, Leaving, SaveStep DEF Saved, IInv, Typed, Live, Holder
<1>4. CheckedStep
  BY <1>1, HandlerFacts, Unchecked
<1>5. StandingStep
  BY <1>1 DEF StandingStep, SavesFor, Waits
<1> QED BY <1>3, <1>4, <1>5

\* The only save that can come while a request is checked.
LEMMA OutsideStep ==
  ASSUME IInv, NEW u \in User, NEW account \in Account \cup {Nobody}, EditedOutside(u, account)
  PROVE  IInv' /\ CheckedStep /\ StandingStep
<1>1. /\ users' = [users EXCEPT ![u] = account] /\ saves < MaxSaves /\ saves' = saves + 1
      /\ UNCHANGED <<cache, session, request>>
  BY DEF EditedOutside, Saved
<1>2. users' \in Tables /\ saves \in Nat \ {0} /\ MaxSaves \in Nat
  BY <1>1, SessionsAssumption DEF SessionsAssumption, IInv, Typed, Tables
<1>3. StandingStep
  BY <1>1 DEF StandingStep, SavesFor, Waits
<1>4. /\ reader' = [t \in Thread |-> reader'[t]] /\ reader'["mcp"] = reader["mcp"]
      /\ Portal = Free <=> Portal' = Free
      /\ Portal'.step = Portal.step /\ Portal'.key = Portal.key /\ Portal'.token = Portal.token
      /\ Portal'.users = Portal.users
      /\ Checking => Portal.said \subseteq Portal'.said
      /\ Checking /\ Actor.user = u => account \in Portal'.said
  <2>1. CASE Checking /\ Actor.user = u
    <3>1. reader' = [reader EXCEPT !["portal"].said = @ \cup {account}]
      BY <2>1 DEF EditedOutside
    <3>2. /\ reader' = [t \in Thread |-> reader'[t]] /\ reader'["mcp"] = reader["mcp"]
          /\ Portal' = [Portal EXCEPT !.said = @ \cup {account}]
      BY <3>1, Threads DEF IInv, Typed, Portal
    <3>3. /\ Portal'.step = Portal.step /\ Portal'.key = Portal.key
          /\ Portal'.token = Portal.token /\ Portal'.users = Portal.users
          /\ Portal'.said = Portal.said \cup {account}
      BY <3>2
    <3>4. Portal.step # "free"
      BY <2>1 DEF Checking, Portal
    <3>5. Portal # Free /\ Portal' # Free
      BY <3>3, <3>4 DEF Free
    <3> QED BY <2>1, <3>2, <3>3, <3>5
  <2>2. CASE ~(Checking /\ Actor.user = u)
    <3>1. reader' = reader
      BY <2>2 DEF EditedOutside
    <3> QED BY <2>2, <3>1 DEF IInv, Typed, Portal
  <2> QED BY <2>1, <2>2
<1>5. (Checking <=> Checking') /\ Actor' = Actor
  BY <1>1, <1>4 DEF Checking, Actor, Portal
<1>6. Typed'
  <2>1. \A t \in Thread : reader'[t] # Free => reader'[t].key \in 1 .. saves'
    <3>1. \A t \in Thread : reader'[t] # Free => reader'[t].key \in 1 .. saves
      BY <1>4, Threads DEF IInv, Typed, Portal
    <3> QED BY <1>1, <1>2, <3>1
  <2>2. \A t \in Thread : reader'[t] = Free \/ reader'[t].step \in {"statted", "read", "handler"}
    BY <1>4, Threads DEF IInv, Typed, Portal
  <2>3. reader'["mcp"].step # "handler"
        /\ (Portal' # Free => Portal'.token \in Token /\ Live(Portal'.token))
    BY <1>4 DEF IInv, Typed
  <2> QED BY <1>1, <1>2, <1>4, <2>1, <2>2, <2>3 DEF IInv, Typed, Live, Holder
<1>7. \A k, read : k \in 0 .. saves /\ Vouched(k, read) => Vouched(k, read)'
  BY <1>1, <1>2, <1>4, <1>5 DEF Vouched
<1>8. Witnessed'
  <2>1. (cache.key # 0 => Vouched(cache.key, cache.users))'
    BY <1>1, <1>7 DEF IInv, Typed, Witnessed
  <2>2. (Portal.step = "read" => Vouched(Portal.key, Portal.users))'
    <3>1. Portal.step = "read" => Portal.key \in 0 .. saves /\ Vouched(Portal.key, Portal.users)
      BY Threads DEF IInv, Typed, Witnessed, Portal, Free
    <3> QED BY <1>4, <1>7, <3>1
  <2>3. (reader["mcp"].step = "read" => Vouched(reader["mcp"].key, reader["mcp"].users))'
    <3>1. reader["mcp"].step = "read" =>
            reader["mcp"].key \in 0 .. saves /\ Vouched(reader["mcp"].key, reader["mcp"].users)
      BY Threads DEF IInv, Typed, Witnessed, Free
    <3> QED BY <1>4, <1>7, <3>1
  <2>4. (Checking => users[Actor.user] \in Portal.said)'
    <3>1. Checking => users[Actor.user] \in Portal.said
      BY DEF IInv, Witnessed
    <3>2. Checking => Actor.user \in User
      BY Threads DEF IInv, Typed, Checking, Actor, Portal, Free
    <3> QED BY <1>1, <1>4, <1>5, <3>1, <3>2 DEF IInv, Typed, Tables
  <2> QED BY <2>1, <2>2, <2>3, <2>4, Threads DEF Witnessed, Portal
<1>9. Standing'
  <2>1. Portal.step = "handler" => Portal.key \in 1 .. saves
    BY Threads DEF IInv, Typed, Portal, Free
  <2>2. ~(Portal'.step = "handler" /\ Portal'.key = saves')
    BY <1>1, <1>2, <1>4, <2>1
  <2>3. \A r \in Request : request[r].stage = "form" /\ request[r].form.op = "detail" =>
          request[r].form.seen \subseteq 1 .. saves' /\ saves' \notin request[r].form.seen
    BY <1>1, <1>2 DEF IInv, Standing
  <2> QED BY <1>1, <2>2, <2>3 DEF Standing
<1>10. CheckedStep
  <2>1. Checking => Portal'.step # "handler" /\ Portal' # Free
    <3>1. Checking => Portal.step # "handler" /\ Portal.step # "free"
      BY DEF Checking, Portal
    <3> QED BY <1>4, <3>1 DEF Free
  <2> QED BY <2>1 DEF CheckedStep, Portal
<1> QED BY <1>3, <1>6, <1>8, <1>9, <1>10 DEF IInv

-----------------------------------------------------------------------------
(* The theorems *)

LEMMA NoRequestStep ==
  ASSUME IInv, UNCHANGED <<saves, request>>, ~Checking
  PROVE  CheckedStep /\ StandingStep
BY Unchecked DEF StandingStep, SavesFor

LEMMA InvStep == IInv /\ [Next]_vars => IInv' /\ CheckedStep /\ StandingStep
<1> SUFFICES ASSUME IInv, [Next]_vars PROVE IInv' /\ CheckedStep /\ StandingStep
  OBVIOUS
<1>1. PortalFree => ~Checking
  BY DEF PortalFree, Checking, Free
<1>2. CASE McpArrives \/ Shows
  BY <1>2, McpArrivesStep, ShowsStep
<1>3. CASE \E t \in Thread : Hit(t) \/ Reads(t) \/ ReadFails(t) \/ Stores(t)
  BY <1>3, HitStep, ReadsStep, FailsStep, StoresStep
<1>4. CASE \E s \in Token : Ends(s) \/ Arrives(s)
  <2>1. UNCHANGED <<saves, request>> /\ ~Checking
    BY <1>1, <1>4 DEF Ends, Arrives
  <2> QED BY <1>4, <2>1, EndsStep, ArrivesStep, NoRequestStep
<1>5. CASE \E s \in Token, u \in User, old \in {{}} \cup {{t} : t \in Token} : Login(s, u, old)
  <2>1. PICK s \in Token, u \in User, old \in SUBSET Token : Login(s, u, old)
    BY <1>5
  <2>2. UNCHANGED <<saves, request>> /\ ~Checking
    BY <1>1, <2>1 DEF Login
  <2> QED BY <2>1, <2>2, LoginStep, NoRequestStep
<1>6. CASE \E u \in User, account \in Account \cup {Nobody} : EditedOutside(u, account)
  BY <1>6, OutsideStep
<1>7. CASE \E u \in User : Deletes(u)
  BY <1>7, DeletesStep
<1>8. ASSUME NEW r \in Request,
             \/ AwaitsDetail(r) \/ \E op \in {"create", "bulk"} : Awaits(r, [op |-> op])
             \/ Refused(r)
             \/ \E account \in Account : Edits(r, account) \/ \E u \in User : Creates(r, u, account)
             \/ \E gone \in SUBSET User : DeletesMany(r, gone)
      PROVE  IInv' /\ CheckedStep /\ StandingStep
  BY <1>8, DetailStep, OtherFormStep, RefusedStep, EditsStep, CreatesStep, BulkStep
<1>9. CASE UNCHANGED vars
  <2>1. Typed' /\ Witnessed' /\ Standing'
    BY <1>9 DEF vars, IInv, Typed, Witnessed, Vouched, Standing, Portal, Actor, Checking, Live, Holder
  <2>2. CheckedStep /\ StandingStep
    BY <1>9 DEF vars, CheckedStep, Checking, StandingStep, SavesFor, Free
  <2> QED BY <2>1, <2>2 DEF IInv
<1> QED BY <1>2, <1>3, <1>4, <1>5, <1>6, <1>7, <1>8, <1>9 DEF Next

LEMMA IInvInvariant == Spec => []IInv
BY InitIInv, InvStep, PTL DEF Spec

\* Every session stands for an account, with a role and a password that make one, and every
\* key of the cache is the number of a state the file was in.
THEOREM SessionsTyped == Spec => []TypeOK
<1>1. IInv => TypeOK
  <2> SUFFICES ASSUME IInv PROVE TypeOK
    OBVIOUS
  <2>1. saves \in 1 .. MaxSaves
    BY SessionsAssumption DEF SessionsAssumption, IInv, Typed
  <2>2. \A t \in Thread : reader[t].step \in {"free", "statted", "read", "handler"}
    BY DEF IInv, Typed, Free
  <2> QED BY <2>1, <2>2 DEF TypeOK, IInv, Typed, Tables
<1> QED BY <1>1, IInvInvariant, PTL

\* Every request is let in on what the file said while it was checked, whichever thread
\* filled the cache and whatever was saved between the stat and the read: the file is
\* statted before it is read, so that a reading is never stored under a key it is older than.
THEOREM LetInByTheFile == Spec => CheckedByTheFile
<1>1. IInv /\ [Next]_vars => [CheckedStep]_vars
  BY InvStep
<1> QED BY <1>1, IInvInvariant, PTL DEF Spec, CheckedByTheFile, CheckedStep

\* user_detail never saves for a session the file no longer vouches for, if the form carries
\* the modification time its page was given.
THEOREM EditsStand == Spec => EditByTheStanding
<1>1. IInv /\ [Next]_vars => [StandingStep]_vars
  BY InvStep
<1> QED BY <1>1, IInvInvariant, PTL DEF Spec, EditByTheStanding, StandingStep
=============================================================================
