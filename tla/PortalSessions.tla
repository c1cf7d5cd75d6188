--------------------------- MODULE PortalSessions ---------------------------
(***************************************************************************)
(* Who is in the portal (admin/auth.py, admin/app.py, admin/views/users.py):*)
(* the sessions in memory, the users in config.toml, and the cached reading *)
(* of that file that every request is checked against.                      *)
(*                                                                         *)
(* The portal's handlers are stretches of its event loop: one runs at a     *)
(* time, to its end or to the await of its form.  portal_users also runs in *)
(* the MCP endpoint's thread, and config.toml is edited outside, so a file  *)
(* may be saved between any two of its steps.  The number of a file state is    *)
(* the key of the cache (mtime, size, inode): no two states share one.      *)
(***************************************************************************)
EXTENDS Naturals, FiniteSets

CONSTANTS
  User, Admin,               \* the role that may edit users
  Account, Founders,         \* [role, password] pairs, and those the file may begin with
  Token,                     \* session tokens, each made once
  Request,
  MaxSaves                   \* bound: states of the file

ASSUME SessionsAssumption ==
  /\ MaxSaves \in Nat \ {0} /\ Founders \subseteq Account
  /\ \A a \in Account : a = [role |-> a.role, password |-> a.password]

Thread == {"portal", "mcp"}
Nobody == [role |-> "none", password |-> 0]

VARIABLES
  users,     \* config.toml's [admin.users]
  saves,     \* which state of the file that is
  cache,     \* _USERS_CACHE: the key and the users stored under it
  reader,    \* a thread in portal_users, or the portal's in a handler; history: what the file
             \* said of the session's user meanwhile
  session,   \* _sessions: token -> user, role and password_fingerprint
  request    \* handlers that await their form

vars == <<users, saves, cache, reader, session, request>>

Free == [step |-> "free"]
New == [stage |-> "new"]
Gone == [stage |-> "gone"]
Waits == [stage |-> "idle"]

Live(s) == session[s].stage = "live"
Holder(s) == [role |-> session[s].role, password |-> session[s].password]
PortalFree == reader["portal"] = Free

Init ==
  /\ users \in [User -> {Nobody} \cup Founders] /\ saves = 1
  /\ \E u \in User : users[u].role = Admin
  /\ cache = [key |-> 0]
  /\ reader = [t \in Thread |-> Free]
  /\ session = [s \in Token |-> New]
  /\ request = [r \in Request |-> Waits]

-----------------------------------------------------------------------------
(* Sessions *)

\* a name that is not in the file gets in with an empty account
FaultyLogin(s, u, old) ==
  /\ PortalFree /\ session[s] = New
  /\ session' = [t \in Token |->
       IF t = s THEN [stage |-> "live", user |-> u, role |-> users[u].role,
                      password |-> users[u].password]
       ELSE IF t \in old /\ Live(t) THEN Gone ELSE session[t]]
  /\ UNCHANGED <<users, saves, cache, reader, request>>

\* _login, with the users as the file has them; the browser's former session goes.  When the
\* limiter lets a login be tried (LoginLimiter) is left open
Login(s, u, old) ==
  /\ PortalFree
  /\ session[s] = New /\ users[u] # Nobody
  /\ session' = [t \in Token |->
       IF t = s THEN [stage |-> "live", user |-> u, role |-> users[u].role,
                      password |-> users[u].password]
       ELSE IF t \in old /\ Live(t) THEN Gone ELSE session[t]]
  /\ UNCHANGED <<users, saves, cache, reader, request>>

\* _logout, and validate_session after eight hours
Ends(s) ==
  /\ PortalFree /\ Live(s)
  /\ session' = [session EXCEPT ![s] = Gone]
  /\ UNCHANGED <<users, saves, cache, reader, request>>

-----------------------------------------------------------------------------
(* portal_users *)

\* _get_session: a request comes in with a session that is in the table
Arrives(s) ==
  /\ PortalFree /\ Live(s)
  /\ reader' = [reader EXCEPT !["portal"] = [step |-> "statted", key |-> saves, users |-> <<>>,
                                             token |-> s, said |-> {users[session[s].user]}]]
  /\ UNCHANGED <<users, saves, cache, session, request>>

\* load_access_token asks for the users too
McpArrives ==
  /\ reader["mcp"] = Free
  /\ reader' = [reader EXCEPT !["mcp"] = [step |-> "statted", key |-> saves, users |-> <<>>]]
  /\ UNCHANGED <<users, saves, cache, session, request>>

\* user_still_valid, by the users that were read
Valid(t, read) == read[session[reader[t].token].user] = Holder(reader[t].token)

\* and what follows from it
Settles(t, valid) ==
  LET s == reader[t].token
  IN IF t = "mcp" THEN reader' = [reader EXCEPT ![t] = Free] /\ UNCHANGED session
     ELSE IF valid
     THEN reader' = [reader EXCEPT ![t] = [step |-> "handler", key |-> @.key, token |-> s]] /\ UNCHANGED session
     ELSE reader' = [reader EXCEPT ![t] = Free] /\ session' = [session EXCEPT ![s] = Gone]

Hit(t) ==
  /\ reader[t].step = "statted" /\ cache.key = reader[t].key
  /\ Settles(t, Valid(t, cache.users))
  /\ UNCHANGED <<users, saves, cache, request>>

Reads(t) ==
  /\ reader[t].step = "statted" /\ cache.key # reader[t].key
  /\ reader' = [reader EXCEPT ![t].step = "read", ![t].users = users]
  /\ UNCHANGED <<users, saves, cache, session, request>>

\* the file cannot be read
ReadFails(t) ==
  /\ reader[t].step = "statted" /\ cache.key # reader[t].key
  /\ Settles(t, FALSE)
  /\ UNCHANGED <<users, saves, cache, request>>

\* the state of the file once it has been read
FaultyKey(t) == saves

\* the state of the file before it was read
Key(t) == reader[t].key

Stores(t) ==
  /\ reader[t].step = "read"
  /\ cache' = [key |-> Key(t), users |-> reader[t].users]
  /\ Settles(t, Valid(t, reader[t].users))
  /\ UNCHANGED <<users, saves, request>>

-----------------------------------------------------------------------------
(* The user pages *)

InHandler == reader["portal"].step = "handler"
Checking == reader["portal"].step \in {"statted", "read"}
Actor == session[reader["portal"].token]
Leaves == reader' = [reader EXCEPT !["portal"] = Free]

\* a page that only shows, or one that its session's role or the handler's checks turn down
Shows ==
  /\ InHandler
  /\ Leaves
  /\ UNCHANGED <<users, saves, cache, session, request>>

\* await request.form(); the handler goes on with what it read before
Awaits(r, form) ==
  /\ InHandler /\ Actor.role = Admin /\ request[r] = Waits
  /\ request' = [request EXCEPT ![r] =
       [stage |-> "form", token |-> reader["portal"].token, by |-> Actor.user,
        held |-> Holder(reader["portal"].token), form |-> form]]
  /\ Leaves
  /\ UNCHANGED <<users, saves, cache, session>>

\* user_detail has read its user.  Its form was made from a state of the file before that, or
\* carries none: the page that shows what was wrong with a form leaves it out.
AwaitsDetail(r) ==
  InHandler /\ \E u \in User, seen \in {{}} \cup {{k} : k \in 1 .. reader["portal"].key} :
    /\ users[u] # Nobody
    /\ Awaits(r, [op |-> "detail", target |-> u, role |-> users[u].role, seen |-> seen])

Form(r, op) == PortalFree /\ request[r].stage = "form" /\ request[r].form.op = op
Done(r) == request' = [request EXCEPT ![r] = Waits]
Saved(new) ==
  /\ saves < MaxSaves
  /\ users' = new /\ saves' = saves + 1
AdminsBut(gone) == {u \in User \ gone : users[u].role = Admin}

\* user_create
Creates(r, u, account) ==
  /\ Form(r, "create") /\ users[u] = Nobody
  /\ Saved([users EXCEPT ![u] = account])
  /\ Done(r)
  /\ UNCHANGED <<cache, reader, session>>

\* the form is taken whatever was saved meanwhile
FaultySameFile(r) == TRUE

\* the concurrent-edit guard: the file is the one the form was made from, if the form says so
SameFile(r) == request[r].form.seen \subseteq {saves}

\* a form that is not taken
Refused(r) ==
  /\ PortalFree /\ request[r].stage = "form"
  /\ Done(r)
  /\ UNCHANGED <<users, saves, cache, reader, session>>

\* every other session of the user ends; one's own goes on with what the edit made of it
Refreshed(r, u, account) ==
  [s \in Token |->
     IF ~Live(s) \/ session[s].user # u THEN session[s]
     ELSE IF request[r].by = u /\ s = request[r].token
          THEN [stage |-> "live", user |-> u, role |-> account.role, password |-> account.password]
          ELSE Gone]

\* user_detail: a role that is not sent stays what the document says, one that is sent is
\* judged by the role read before the form came; the save may fail after the sessions have
\* changed
Edits(r, account) ==
  LET u == request[r].form.target IN
  /\ Form(r, "detail") /\ SameFile(r) /\ users[u] # Nobody
  /\ request[r].by = u => account.role \in {request[r].form.role, users[u].role}
  /\ request[r].form.role = Admin /\ account.role \notin {Admin, users[u].role} =>
       Cardinality(AdminsBut({})) > 1
  /\ session' = Refreshed(r, u, account)
  /\ Saved([users EXCEPT ![u] = account]) \/ UNCHANGED <<users, saves>>
  /\ Done(r)
  /\ UNCHANGED <<cache, reader>>

\* user_bulk_delete
DeletesMany(r, gone) ==
  /\ Form(r, "bulk") /\ gone # {} /\ request[r].by \notin gone
  /\ AdminsBut({}) = {} \/ AdminsBut(gone) # {}
  /\ Saved([u \in User |-> IF u \in gone THEN Nobody ELSE users[u]])
  /\ Done(r)
  /\ UNCHANGED <<cache, reader, session>>

\* user_delete: no form, so in the stretch of its check
Deletes(u) ==
  /\ InHandler /\ Actor.role = Admin
  /\ users[u] # Nobody /\ u # Actor.user
  /\ users[u].role = Admin => Cardinality(AdminsBut({})) > 1
  /\ Saved([users EXCEPT ![u] = Nobody])
  /\ Leaves
  /\ UNCHANGED <<cache, session, request>>

\* config.toml is edited on the host
EditedOutside(u, account) ==
  /\ Saved([users EXCEPT ![u] = account]) /\ users[u] # account
  /\ IF Checking /\ Actor.user = u
     THEN reader' = [reader EXCEPT !["portal"].said = @ \cup {account}]
     ELSE UNCHANGED reader
  /\ UNCHANGED <<cache, session, request>>

Next ==
  \/ McpArrives \/ Shows
  \/ \E t \in Thread : Hit(t) \/ Reads(t) \/ ReadFails(t) \/ Stores(t)
  \/ \E s \in Token : Ends(s) \/ Arrives(s)
  \/ \E s \in Token, u \in User, old \in {{}} \cup {{t} : t \in Token} : Login(s, u, old)
  \/ \E u \in User, account \in Account \cup {Nobody} : EditedOutside(u, account)
  \/ \E u \in User : Deletes(u)
  \/ \E r \in Request :
       \/ AwaitsDetail(r) \/ \E op \in {"create", "bulk"} : Awaits(r, [op |-> op])
       \/ Refused(r)
       \/ \E account \in Account : Edits(r, account) \/ \E u \in User : Creates(r, u, account)
       \/ \E gone \in SUBSET User : DeletesMany(r, gone)

Spec == Init /\ [][Next]_vars

-----------------------------------------------------------------------------
(* Properties *)

\* Types; a session stands for an account, with a role and a password, and never for none.
TypeOK ==
  /\ users \in [User -> Account \cup {Nobody}]
  /\ saves \in 1 .. MaxSaves /\ cache.key \in 0 .. saves
  /\ \A t \in Thread : reader[t].step \in {"free", "statted", "read", "handler"}
  /\ \A s \in Token : Live(s) => Holder(s) \in Account
  /\ \A r \in Request : request[r].stage \in {"idle", "form"}

Unread == reader["portal"].step = "statted" /\ cache.key # reader["portal"].key

\* A session is let in on the word of a file that was there while the request was checked,
\* and not of an older one, whichever thread filled the cache and whatever was saved while
\* it did: a user deleted, demoted or given another password before the request came is out.
\* And nobody is put out by a stale reading: the file could not be read, or it did say
\* something else of the user meanwhile.
CheckedByTheFile ==
  [][Checking =>
       LET said == reader["portal"].said
           now == reader'["portal"] IN
       /\ now.step = "handler" => Holder(reader["portal"].token) \in said
       /\ now = Free => Unread \/ said # {Holder(reader["portal"].token)}]_vars

\* r's handler, of kind op, saves in this step
SavesFor(r, op) ==
  request[r].stage = "form" /\ request[r].form.op = op /\ request'[r] = Waits /\ saves' # saves

\* What user_detail saves was asked for by a session that the file still vouches for, though
\* the form took its time after the session was checked: a password reset or a demotion that
\* ended the session is not undone by a form it had sent before.  Only a form that carries a
\* modification time is held to it: one sent again from the page that showed an error, or
\* made when the file could not be statted, is saved over whatever came between.
EditByTheStanding ==
  [][\A r \in Request :
       SavesFor(r, "detail") /\ request[r].form.seen # {} =>
         users[request[r].by] = request[r].held]_vars

\* The same of user_create.  app.py:660 on the time before every request was checked: "a
\* deleted admin could create a new admin".
NoUserOfADeletedAdmin ==
  [][\A r \in Request : SavesFor(r, "create") => users[request[r].by] # Nobody]_vars
=============================================================================
