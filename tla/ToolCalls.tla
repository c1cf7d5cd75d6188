----------------------------- MODULE ToolCalls -----------------------------
(***************************************************************************)
(* Who may call what: the bearer tokens of a request (token_store.py,       *)
(* oauth_provider.py), the checks of the tool handlers, of                  *)
(* zabbix_raw_api_call and of the extension tools, the catalogue of         *)
(* tools/list, and the two-step approval action_prepare / action_confirm    *)
(* (server.py), while the portal edits the tokens (TokenPages).             *)
(*                                                                         *)
(* A request is checked in one synchronous stretch with the TokenInfo it    *)
(* was given when it was authenticated, and calls Zabbix after awaits, when *)
(* the row may have changed.  Refusals for an address, an expiry date,      *)
(* raw_json or a bad argument are calls that do not happen.                 *)
(***************************************************************************)
EXTENDS TokenPages

CONSTANTS
  Person, GrantOf,        \* users of one OAuth client, and what each consented to
  Request, Confirmation,
  Default, ReadOnlyServer,
  ToolDef                 \* name -> [prefixes, writes, known, suffix, extension, lacking]

Tool == DOMAIN ToolDef

ASSUME CallsAssumption ==
  /\ Default \in Server /\ ReadOnlyServer \subseteq Server
  /\ None \notin Confirmation
  \* no method that writes has a name that reads: NoUnmeantWrite of Catalogue
  /\ \A t \in Tool : ToolDef[t].suffix => ~ToolDef[t].writes

VARIABLES
  req,      \* MCP requests
  pending,  \* _pending_actions
  done      \* history: how often each prepared action reached Zabbix

vars == <<portal, req, pending, done>>

Idle == [stage |-> "idle"]

-----------------------------------------------------------------------------
(* Rights *)

\* check_token_authorization
Authorised(info, s, prefixes, writes) ==
  /\ s \in info.servers
  /\ writes => ~info.readOnly
  /\ Wild(info.scopes) \/ prefixes \subseteq Expanded(info.scopes)

CheckWrite(s) == s \notin ReadOnlyServer

\* where a call lands that names no server: _default_server_for_caller
DefaultFor(info) ==
  IF info.servers = {} \/ Default \in info.servers THEN {Default} ELSE info.servers

\* _resolve_server_for_caller: a server the caller may not use is unknown
Resolved(info, named) == IF named = None THEN DefaultFor(info) ELSE {named} \cap info.servers

-----------------------------------------------------------------------------
(* The catalogue *)

\* a tool is left out once one reachable server is read-only
FaultyListedByMode(info) ==
  {t \in Tool : ToolDef[t].writes => info.servers \cap ReadOnlyServer = {}}

\* _filter_tools_by_server_mode
ListedByMode(info) ==
  {t \in Tool : ToolDef[t].writes /\ info.servers # {} => ~ info.servers \subseteq ReadOnlyServer}

\* _filter_tools_by_token
ListedByToken(info) ==
  {t \in Tool :
     /\ ToolDef[t].writes => ~info.readOnly
     /\ \/ Wild(info.scopes)
        \/ ToolDef[t].extension /\ ("extensions" \in info.scopes \/ t \in Expanded(info.scopes))
        \/ ~ToolDef[t].extension /\ ToolDef[t].prefixes \subseteq Expanded(info.scopes)}

\* _annotate_tools_by_version, with the versions known at that moment
ListedByVersion(info, knownServers) ==
  {t \in Tool : info.servers = {} \/ ~ info.servers \subseteq (knownServers \cap ToolDef[t].lacking)}

\* tools/list
Listed(info, knownServers) ==
  ListedByToken(info) \cap ListedByMode(info) \cap ListedByVersion(info, knownServers)

\* where a call of the tool is answered by Zabbix
CallableOn(info, t) ==
  {s \in Server : /\ Authorised(info, s, ToolDef[t].prefixes, ToolDef[t].writes)
                  /\ ToolDef[t].writes => CheckWrite(s)
                  /\ s \notin ToolDef[t].lacking}

-----------------------------------------------------------------------------
(* The start *)

Init ==
  /\ PagesInit
  /\ req = [r \in Request |-> Idle]
  /\ pending = [c \in Confirmation |-> [stage |-> "unused"]]
  /\ done = [c \in Confirmation |-> 0]

\* The process restarts: what was in memory is gone, the token file is read again.
Restart ==
  /\ PagesRestart
  /\ req' = [r \in Request |-> Idle]
  /\ pending' = [c \in Confirmation |->
                   IF pending[c].stage = "waiting" THEN [stage |-> "spent"] ELSE pending[c]]
  /\ UNCHANGED done

-----------------------------------------------------------------------------
(* The MCP loop *)

\* verify: the TokenInfo that a bearer secret stands for
InfoOf(i) == [id |-> i, caller |-> i, scopes |-> store[i].scopes,
              servers |-> store[i].servers, readOnly |-> store[i].readOnly]

AuthenticateToken(r, secret) ==
  /\ req[r] = Idle
  /\ \E i \in DOMAIN store :
       /\ store[i].secret = secret /\ store[i].active
       /\ req' = [req EXCEPT ![r] = [stage |-> "open", info |-> InfoOf(i)]]
  /\ UNCHANGED <<portal, pending, done>>

\* _publish_token_to_contextvar: the id is that of the client, whoever the user is
GrantInfo(p) == [id |-> "oauth", caller |-> p, scopes |-> GrantOf[p].scopes,
                 servers |-> Server, readOnly |-> GrantOf[p].readOnly]

AuthenticatePerson(r, p) ==
  /\ req[r] = Idle
  /\ req' = [req EXCEPT ![r] = [stage |-> "open", info |-> GrantInfo(p)]]
  /\ UNCHANGED <<portal, pending, done>>

\* by: the action that is confirmed, or none
Direct == [from |-> None]
Begin(r, t, s, by) ==
  req' = [req EXCEPT ![r] = [stage |-> "call", info |-> req[r].info,
                             job |-> [tool |-> t, server |-> s, by |-> by]]]

\* The handler of a method's tool, or of an extension tool, up to its first await.
CallTool(r, t, named) ==
  /\ req[r].stage = "open"
  /\ \E s \in Resolved(req[r].info, named) :
       /\ Authorised(req[r].info, s, ToolDef[t].prefixes, ToolDef[t].writes)
       /\ ToolDef[t].writes => CheckWrite(s)
       /\ Begin(r, t, s, Direct)
  /\ UNCHANGED <<portal, pending, done>>

\* what zabbix_raw_api_call takes for a read
RawReads(t) == (ToolDef[t].known /\ ~ToolDef[t].writes) \/ ToolDef[t].suffix

CallRaw(r, t, named) ==
  /\ req[r].stage = "open" /\ ~ToolDef[t].extension
  /\ \E s \in Resolved(req[r].info, named) :
       /\ Authorised(req[r].info, s, ToolDef[t].prefixes, ~RawReads(t))
       /\ RawReads(t) \/ CheckWrite(s)
       /\ Begin(r, t, s, Direct)
  /\ UNCHANGED <<portal, pending, done>>

\* action_prepare: checks, drops what has expired, keeps the action with its caller's id
PrepareAction(r, c, t, named) ==
  /\ req[r].stage = "open" /\ ~ToolDef[t].extension
  /\ pending[c].stage = "unused"
  /\ \E s \in Resolved(req[r].info, named) :
       /\ Authorised(req[r].info, s, ToolDef[t].prefixes, TRUE)
       /\ CheckWrite(s)
       /\ pending' = [d \in Confirmation |->
            IF d = c THEN [stage |-> "waiting", tool |-> t, server |-> s, expired |-> FALSE,
                           owner |-> req[r].info.id, preparer |-> req[r].info.caller]
            ELSE IF pending[d].stage = "waiting" /\ pending[d].expired THEN [stage |-> "spent"]
            ELSE pending[d]]
  /\ req' = [req EXCEPT ![r] = Idle]
  /\ UNCHANGED <<portal, done>>

Expire(c) ==
  /\ pending[c].stage = "waiting" /\ ~pending[c].expired
  /\ pending' = [pending EXCEPT ![c].expired = TRUE]
  /\ UNCHANGED <<portal, req, done>>

\* the rights were checked when the action was prepared
FaultyConfirmable(info, action) == action.owner = info.id /\ ~action.expired

\* the same caller, in time
Owned(info, action) == action.owner = info.id /\ ~action.expired

\* ... and the rights of this request, again
Confirmable(info, action) ==
  /\ Owned(info, action)
  /\ Authorised(info, action.server, ToolDef[action.tool].prefixes, TRUE)
  /\ CheckWrite(action.server)

\* the first thing action_confirm does, before it knows who asks
Popped(c) == [stage |-> "spent"]

ConfirmAction(r, c) ==
  /\ req[r].stage = "open"
  /\ pending[c].stage = "waiting"
  /\ pending' = [pending EXCEPT ![c] = Popped(c)]
  /\ IF Confirmable(req[r].info, pending[c])
     THEN Begin(r, pending[c].tool, pending[c].server,
                [from |-> c, owner |-> pending[c].owner, preparer |-> pending[c].preparer])
     ELSE req' = [req EXCEPT ![r] = Idle]
  /\ UNCHANGED <<portal, done>>

\* The awaits are over: the call goes to Zabbix, unless its release lacks the method.
Carry(r) ==
  /\ req[r].stage = "call"
  /\ req' = [req EXCEPT ![r] = Idle]
  /\ LET c == req[r].job.by.from IN
     done' = IF c = None THEN done ELSE [done EXCEPT ![c] = @ + 1]
  /\ UNCHANGED <<portal, pending>>

\* The request ends without a call: refused, failed, or an answer from memory.
End(r) ==
  /\ req[r] # Idle
  /\ req' = [req EXCEPT ![r] = Idle]
  /\ UNCHANGED <<portal, pending, done>>

-----------------------------------------------------------------------------

RequestStep(r) ==
  \/ \E secret \in Secret : AuthenticateToken(r, secret)
  \/ \E p \in Person : AuthenticatePerson(r, p)
  \/ \E t \in Tool, named \in Server \cup {None} :
       \/ CallTool(r, t, named) \/ CallRaw(r, t, named)
       \/ \E c \in Confirmation : PrepareAction(r, c, t, named)
  \/ \E c \in Confirmation : ConfirmAction(r, c)
  \/ Carry(r) \/ End(r)

Next ==
  \/ PagesNext /\ UNCHANGED <<req, pending, done>>
  \/ Restart
  \/ \E r \in Request : RequestStep(r)
  \/ \E c \in Confirmation : Expire(c)

Spec == Init /\ [][Next]_vars

-----------------------------------------------------------------------------
(* Properties *)

TypeOK ==
  /\ PagesTypeOK
  /\ \A r \in Request :
       /\ req[r].stage \in {"idle", "open", "call"}
       /\ req[r].stage = "call" => req[r].job.tool \in Tool /\ req[r].job.server \in Server
  /\ \A c \in Confirmation :
       /\ pending[c].stage \in {"unused", "waiting", "spent"}
       \* carried out once at most, however often it is confirmed
       /\ done[c] \in {0, 1} /\ done[c] = 1 => pending[c].stage = "spent"

\* A call on its way to Zabbix is within the rights of the request that makes it: its
\* servers, its scopes, no write for a read-only token or server - also when it was
\* prepared under rights the token no longer has (CHANGELOG: the authorization is
\* checked again by action_confirm).
RightsHeld ==
  \A r \in Request : req[r].stage = "call" =>
    LET info == req[r].info
        job == req[r].job IN
    /\ job.server \in info.servers
    /\ Wild(info.scopes) \/ ToolDef[job.tool].prefixes \subseteq Expanded(info.scopes)
    /\ ToolDef[job.tool].writes => ~info.readOnly /\ job.server \notin ReadOnlyServer

\* SECURITY.md: the confirmation token "only works for the caller that prepared it".
\* Two users of one OAuth client have one id.
PreparerConfirms ==
  \A r \in Request : req[r].stage = "call" /\ req[r].job.by # Direct =>
    req[r].info.caller = req[r].job.by.preparer

\* tools/list hides no method from a caller who could call it on some server, whatever
\* versions are known at that moment.
NothingHidden ==
  \A r \in Request : req[r].stage = "open" =>
    \A t \in Tool, knownServers \in SUBSET Server :
      ~ToolDef[t].extension /\ CallableOn(req[r].info, t) # {} => t \in Listed(req[r].info, knownServers)

=============================================================================
