----------------------------- MODULE ConfigFile -----------------------------
(***************************************************************************)
(* config.toml while the server runs.  Two kinds of writers read it, change *)
(* the document and save it whole (admin/config_writer.py): the handlers of *)
(* the admin portal, one at a time on the portal's event loop, and worker   *)
(* threads that persist OAuth clients registered at run time                *)
(* (_persist_client in server.py), one thread per registration.  The lock   *)
(* _config_lock covers a load and a save, not what is between them.         *)
(*                                                                         *)
(* A document is abstracted to the roles of the portal users, the state of  *)
(* the MCP tokens, the OAuth clients, and one setting that stands for all   *)
(* that is read at start-up only.  The process keeps copies: the token      *)
(* store, the provider's clients, the settings it started with, and the     *)
(* document that the "Restart needed" banner compares the file with.        *)
(***************************************************************************)
EXTENDS Naturals, FiniteSets

CONSTANTS User, Token, Client, Setting,
          Portal, NoOne,
          Default, \* the setting of a file that does not have it
          Op       \* the requests made to the portal

Role == {"admin", "viewer", "none"}           \* "none": no such user
TokenState == {"active", "revoked", "absent"}

ASSUME ConstantsAssumption ==
  /\ IsFiniteSet(User) /\ Default \in Setting
  /\ Portal \notin Client /\ NoOne \notin Client \cup User \cup {Portal}
  /\ Op \subseteq [kind : {"setting", "add", "role", "delete", "bulk",
                           "create", "toggle", "remove", "forget"},
                   by : User \cup {NoOne}, who : SUBSET (User \cup Token \cup Client),
                   val : Role \cup Setting]
  /\ \A o \in Op : o.kind = "setting" => o.val \in Setting
  /\ \A o \in Op : o.kind = "forget" => o.who \subseteq Client
  /\ \A o \in Op : o.kind \in {"add", "role"} =>
                    o.val \in Role \ {"none"} /\ \E u \in User : o.who = {u}

Doc == [users : [User -> Role], tokens : [Token -> TokenState],
        clients : SUBSET Client, setting : Setting]

VARIABLES
  file,       \* what config.toml holds; of one that does not parse, what it held before
  broken,     \* it holds part of a document, cut where it does not parse
  truncating, \* the writer in the middle of a direct write
  step, op, doc,  \* per writer: where it is, for what request, the document it loaded
  dump,       \* per registration: the document its snapshot read
  clients,    \* ZmcpOAuthProvider._clients
  store,      \* TokenStore: the tokens and whether they are active
  running,    \* the settings the process started with
  baseline,   \* AdminApp._initial_config_dump
  revoked,    \* history: the clients revoked
  unread,     \* history: the tokens whose row was changed by a write nobody reloads after
  excused     \* history: a write was cut off before the admins, or a user was added or
              \* edited on other users than the ones the request was checked against

disk == <<file, broken, truncating>>
memory == <<clients, store, running, baseline>>
history == <<revoked, unread, excused>>
vars == <<file, broken, truncating, step, op, doc, dump, clients, store, running, baseline,
          revoked, unread, excused>>

Writer == Client \cup {Portal}

NoOp == [kind |-> "none", by |-> NoOne, who |-> {}, val |-> "none"]

\* the request of the thread that persists c
Registration(c) == [kind |-> "register", by |-> NoOne, who |-> {c}, val |-> "none"]

Steps == {"idle", "checked", "queued", "loaded", "reload", "pop", "saved", "snapped", "done"}

TypeOK ==
  /\ file \in Doc
  /\ broken \in BOOLEAN
  /\ truncating \in Writer \cup {NoOne}
  /\ truncating # NoOne => step[truncating] = "loaded"
  /\ step \in [Writer -> Steps]
  /\ op \in [Writer -> Op \cup {NoOp} \cup {Registration(c) : c \in Client}]
  /\ doc \in [Writer -> Doc]
  /\ dump \in [Client -> Doc]
  /\ clients \subseteq Client
  /\ store \in [Token -> TokenState]
  /\ running \in Setting
  /\ baseline \in Doc
  /\ revoked \subseteq Client /\ unread \subseteq Token /\ excused \in BOOLEAN

Init ==
  /\ file \in {d \in Doc : d.clients = {} /\ \E u \in User : d.users[u] = "admin"}
  /\ broken = FALSE /\ truncating = NoOne
  /\ step = [w \in Writer |-> "idle"]
  /\ op = [w \in Writer |-> NoOp]
  /\ doc = [w \in Writer |-> file] /\ dump = [c \in Client |-> file]
  /\ clients = {} /\ store = file.tokens
  /\ running = file.setting /\ baseline = file
  /\ revoked = {} /\ unread = {} /\ excused = FALSE

-----------------------------------------------------------------------------
(* What a request does to the document it loaded *)

At(w, s) == step[w] = s

Goto(w, s) == step' = [step EXCEPT ![w] = s]

Admins(d) == {u \in User : d.users[u] = "admin"}

SetUsers(d, who, role) == [d EXCEPT !.users = [u \in User |-> IF u \in who THEN role ELSE @[u]]]

SetTokens(d, who, state) ==
  [d EXCEPT !.tokens = [t \in Token |-> IF t \in who THEN state ELSE @[t]]]

\* token_revoke: an active token is revoked, a revoked one is activated.
Toggled(d, who) ==
  [d EXCEPT !.tokens = [t \in Token |->
     IF t \in who
     THEN CASE @[t] = "active" -> "revoked" [] @[t] = "revoked" -> "active" [] OTHER -> @[t]
     ELSE @[t]]]

Edited(d, o) ==
  CASE o.kind = "setting"  -> [d EXCEPT !.setting = o.val]
    [] o.kind \in {"add", "role"}    -> SetUsers(d, o.who, o.val)
    [] o.kind \in {"delete", "bulk"} -> SetUsers(d, o.who, "none")
    [] o.kind = "create"   -> SetTokens(d, o.who, "active")
    [] o.kind = "toggle"   -> Toggled(d, o.who)
    [] o.kind = "remove"   -> SetTokens(d, o.who, "absent")
    [] o.kind = "forget"   -> [d EXCEPT !.clients = @ \ o.who]
    [] o.kind = "register" -> [d EXCEPT !.clients = @ \cup o.who]

\* somebody named in the request is still there
Exists(d, o) == \E u \in o.who : d.users[u] # "none"

\* the last admin is counted for a single deletion only
FaultyProceeds(d, o) ==
  CASE o.kind = "delete" -> Exists(d, o) /\ (Admins(d) # {} => Admins(d) \ o.who # {})
    [] o.kind = "role"   -> Exists(d, o)
    [] o.kind = "create" -> \A t \in o.who : d.tokens[t] = "absent"
    [] o.kind = "toggle" -> \A t \in o.who : d.tokens[t] # "absent"
    [] OTHER             -> TRUE

\* Whether the handler goes on to save, judged on the document it loaded: the last admin
\* stays (user_delete, user_bulk_delete), and what is changed must be there.
Proceeds(d, o) ==
  CASE o.kind = "delete" -> Exists(d, o) /\ (Admins(d) # {} => Admins(d) \ o.who # {})
    [] o.kind = "bulk"   -> Admins(d) # {} => Admins(d) \ o.who # {}
    [] o.kind = "role"   -> Exists(d, o)
    [] o.kind = "create" -> \A t \in o.who : d.tokens[t] = "absent"
    [] o.kind = "toggle" -> \A t \in o.who : d.tokens[t] # "absent"
    [] OTHER             -> TRUE

\* remove_config_table saves only if there is something to remove.
NothingToRemove(d, o) ==
  \/ o.kind = "remove" /\ \A t \in o.who : d.tokens[t] = "absent"
  \/ o.kind = "forget" /\ o.who \cap d.clients = {}

\* tokens switched off or on are reloaded at the next start only
FaultyReloadsStore(o) == o.kind \in {"create", "remove"}

\* the handlers of tokens.py end with _reload_tokens
ReloadsStore(o) == o.kind \in {"create", "toggle", "remove"}

\* oauth_client_revoke goes on in memory
ForgetsInMemory(o) == o.kind = "forget"

\* the thread of a registration takes a new baseline
TakesBaseline(o) == o.kind = "register"

\* Where a writer is after a save that went well; the handlers of the users and of the
\* settings are done then ...
After(o) ==
  CASE ReloadsStore(o)    -> "reload"
    [] ForgetsInMemory(o) -> "pop"
    [] TakesBaseline(o)   -> "saved"
    [] OTHER              -> "idle"

\* ... and after one that failed: the handler reports it, the thread logs it.
Abandon(w) == Goto(w, IF w = Portal THEN "idle" ELSE "done")

-----------------------------------------------------------------------------
(* The portal *)

\* What a handler checks before it loads the document it will change.  Only user_delete
\* has no form to wait for: the others acted for an admin when their form began to arrive,
\* and he may be none now.  Nobody changes his own role or deletes himself, the last admin
\* stays one; "read" has the target's role as user_detail read it before the form.
MayBegin(o, read) ==
  /\ o.kind = "delete" => o.by \in Admins(file)
  /\ o.kind \in {"delete", "bulk"} => o.by \notin o.who
  /\ o.kind = "add" => \A u \in o.who : file.users[u] = "none"
  /\ o.kind = "role" =>
       /\ Exists(read, o)
       /\ o.by \in o.who => \A u \in o.who : o.val = read.users[u]
       /\ o.who \cap Admins(read) # {} /\ o.val # "admin" => Cardinality(Admins(file)) > 1

\* The file as the checks know it: a form that carries no modification time is not held
\* against the file, so the target's role may be one the file does not have any more.
Readings(o) ==
  {file} \cup (IF o.kind = "role"
               THEN {SetUsers(file, o.who, r) : r \in Role \ {"none"}} ELSE {})

Begin(o) ==
  /\ At(Portal, "idle")
  /\ ~broken /\ truncating = NoOne
  /\ \E read \in Readings(o) :
       MayBegin(o, read) /\ doc' = [doc EXCEPT ![Portal] = read]
  /\ op' = [op EXCEPT ![Portal] = o]
  /\ Goto(Portal, "checked")
  /\ UNCHANGED <<disk, dump, memory, history>>

-----------------------------------------------------------------------------
(* Registrations *)

\* register_client: known in memory at once, written by a worker thread.
Register(c) ==
  /\ At(c, "idle")
  /\ clients' = clients \cup {c}
  /\ op' = [op EXCEPT ![c] = Registration(c)]
  /\ Goto(c, "queued")
  /\ UNCHANGED <<disk, doc, dump, store, running, baseline, history>>

\* refresh_config_baseline: the file is read, then the baseline is set.
SnapshotLoad(c) ==
  /\ At(c, "saved") /\ truncating = NoOne
  /\ IF broken
     THEN Goto(c, "done") /\ UNCHANGED dump
     ELSE Goto(c, "snapped") /\ dump' = [dump EXCEPT ![c] = file]
  /\ UNCHANGED <<disk, op, doc, memory, history>>

SnapshotStore(c) ==
  /\ At(c, "snapped")
  /\ baseline' = dump[c]
  /\ Goto(c, "done")
  /\ UNCHANGED <<disk, op, doc, dump, clients, store, running, history>>

-----------------------------------------------------------------------------
(* Every writer: load_config_document, save_config_document *)

\* A document that lacks tables is a document: whoever loads what an empty or cut-off file
\* still says goes on with it.
Load(w) ==
  /\ step[w] \in {"checked", "queued"} /\ truncating = NoOne
  /\ IF broken \/ ~Proceeds(file, op[w])
     THEN Abandon(w) /\ UNCHANGED <<doc, excused>>
     ELSE /\ doc' = [doc EXCEPT ![w] = file]
          /\ Goto(w, IF NothingToRemove(file, op[w]) THEN After(op[w]) ELSE "loaded")
          /\ excused' = (excused \/ (op[w].kind \in {"add", "role"} /\ doc[w].users # file.users))
  /\ UNCHANGED <<disk, op, dump, memory, revoked, unread>>

\* the tokens whose row is another one in d
Rewritten(d) == {t \in Token : d.tokens[t] # file.tokens[t]}

\* the end of a save that went well
Saved(w) ==
  /\ file' = Edited(doc[w], op[w])
  /\ broken' = FALSE /\ truncating' = NoOne
  /\ Goto(w, After(op[w]))
  /\ unread' = IF w = Portal THEN unread ELSE unread \cup Rewritten(file')
  /\ UNCHANGED <<op, doc, dump, memory, revoked, excused>>

\* the new document takes the place of the old one in one rename
Rename(w) ==
  /\ At(w, "loaded") /\ truncating = NoOne
  /\ Saved(w)

\* An OSError on the way to the rename, whatever its cause: the file itself is opened for
\* writing, which empties it.
Fallback(w) ==
  /\ At(w, "loaded") /\ truncating = NoOne
  /\ truncating' = w
  /\ UNCHANGED <<file, broken, step, op, doc, dump, memory, history>>

DirectWrite(w) ==
  /\ truncating = w
  /\ Saved(w)

\* What a cut-off file of d says where it parses, from nothing to all of it: tables that
\* are missing, and a user without a role is a viewer, a token without is_active an active
\* one.  (Which tables are the first ones in the file is left open.)
Parts(d) ==
  {p \in Doc :
    /\ \A u \in User : p.users[u] \in {d.users[u], "none"} \cup
                                       (IF d.users[u] = "none" THEN {} ELSE {"viewer"})
    /\ \A t \in Token : p.tokens[t] \in {d.tokens[t], "absent"} \cup
                                         (IF d.tokens[t] = "absent" THEN {} ELSE {"active"})
    /\ p.clients \subseteq d.clients
    /\ p.setting \in {d.setting, Default}}

\* the direct write of w was cut off: what is there parses, or it does not
CutOff(w) ==
  /\ \/ broken' = TRUE /\ UNCHANGED file
     \/ broken' = FALSE /\ file' \in Parts(Edited(doc[w], op[w]))
  /\ unread' = unread \cup Rewritten(file')
  /\ excused' = (excused \/ Admins(file') = {})

\* the lock stays taken
FaultySaveFails(w) ==
  /\ \/ At(w, "loaded") /\ truncating = NoOne /\ UNCHANGED <<file, broken, unread, excused>>
     \/ truncating = w /\ CutOff(w)
  /\ Abandon(w)
  /\ UNCHANGED <<truncating, op, doc, dump, memory, revoked>>

\* The direct write fails too: before the file was opened, or after.
SaveFails(w) ==
  /\ \/ At(w, "loaded") /\ truncating = NoOne /\ UNCHANGED <<file, broken, unread, excused>>
     \/ truncating = w /\ CutOff(w)
  /\ truncating' = NoOne
  /\ Abandon(w)
  /\ UNCHANGED <<op, doc, dump, memory, revoked>>

-----------------------------------------------------------------------------
(* What the portal does after a save *)

\* _reload_tokens: the store stays what it is when the file does not parse.
Reload ==
  /\ At(Portal, "reload") /\ truncating = NoOne
  /\ IF broken
     THEN unread' = unread \cup {t \in Token : store[t] # file.tokens[t]} /\ UNCHANGED store
     ELSE unread' = {} /\ store' = file.tokens
  /\ Goto(Portal, "idle")
  /\ UNCHANGED <<disk, op, doc, dump, clients, running, baseline, revoked, excused>>

\* oauth_client_revoke, its second half
Pop ==
  /\ At(Portal, "pop")
  /\ clients' = clients \ op[Portal].who
  /\ revoked' = revoked \cup op[Portal].who
  /\ Goto(Portal, "idle")
  /\ UNCHANGED <<disk, op, doc, dump, store, running, baseline, unread, excused>>

-----------------------------------------------------------------------------
(* The process *)

\* admin_bootstrap.py: a file with no user at all is given an admin (if the portal is
\* enabled in it).
Booted(d) ==
  {d} \cup (IF \A u \in User : d.users[u] = "none"
           THEN {SetUsers(d, {u}, "admin") : u \in User} ELSE {})

\* The process is stopped or killed, and started again on a file that can be read, which
\* is what a direct write under way has put there so far: whoever was writing is gone,
\* what was in memory comes from the file.
Restart ==
  /\ broken => truncating # NoOne
  /\ \E d \in IF truncating = NoOne THEN {file}
              ELSE Parts(Edited(doc[truncating], op[truncating])) : file' \in Booted(d)
  /\ broken' = FALSE /\ truncating' = NoOne
  /\ step' = [w \in Writer |-> IF w = Portal \/ At(w, "idle") THEN "idle" ELSE "done"]
  /\ clients' = file'.clients /\ store' = file'.tokens
  /\ running' = file'.setting /\ baseline' = file'
  /\ unread' = {}
  /\ excused' = (Admins(file') = {} /\ (excused \/ truncating # NoOne))
  /\ UNCHANGED <<op, doc, dump, revoked>>

Next ==
  \/ \E o \in Op : Begin(o)
  \/ \E c \in Client : Register(c) \/ SnapshotLoad(c) \/ SnapshotStore(c)
  \/ \E w \in Writer : Load(w) \/ Rename(w) \/ Fallback(w) \/ DirectWrite(w) \/ SaveFails(w)
  \/ Reload \/ Pop \/ Restart

Spec == Init /\ [][Next]_vars

-----------------------------------------------------------------------------
(* Properties *)

\* the file has a whole document in it
Readable == ~broken /\ truncating = NoOne

\* "Keep at least one admin" (admin/views/users.py): whoever demotes or deletes whom, alone
\* or in a batch, and whatever older documents the threads of registrations write
\* meanwhile, an admin is left to log in.  Excused are a direct write that was cut off
\* before the admins, which later writers take over, until a start finds or makes an
\* admin; and a user added or edited after the check was made on other users.
AdminRemains == Readable /\ ~excused => Admins(file) # {}

\* The token store follows the file: between two requests to the portal, what the MCP
\* endpoint accepts is what config.toml says of the token, also when registrations wrote
\* and saves failed.  Excepted are the tokens whose row such a write has changed, by an
\* older document or by part of one, until the store is loaded again: nobody does it then.
StoreFollowsFile ==
  Readable /\ At(Portal, "idle") => \A t \in Token \ unread : store[t] = file.tokens[t]

-----------------------------------------------------------------------------
(* What a comment or a docstring says and the code does not do *)

\* _compute_restart_needed
Banner == file # baseline

\* admin/app.py:440: the baseline is "the 'nothing pending' baseline", taken again "after
\* a runtime write that the running process has already absorbed": a change the process
\* has not absorbed is announced by the banner.
PendingIsAnnounced == Readable /\ file.setting # running => Banner

\* admin/views/oauth_clients.py:552: the config entry is dropped first "so
\* re-registration cannot resurrect it silently".
RevokedStaysOut == Readable => file.clients \cap revoked = {}

\* admin/views/users.py:252: "The last remaining admin must stay an admin so the operator
\* can always recover": an edit of roles leaves one.
LastAdminStays ==
  [][At(Portal, "loaded") /\ op[Portal].kind = "role" /\ file' # file => Admins(file') # {}]_vars
=============================================================================
