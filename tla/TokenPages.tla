----------------------------- MODULE TokenPages -----------------------------
(***************************************************************************)
(* The portal's pages for MCP tokens (admin/views/tokens.py) and the store  *)
(* they feed (TokenStore.load_from_config).                                 *)
(*                                                                         *)
(* Handlers of the portal share one event loop: each runs in one stretch    *)
(* except where it awaits its form.  Saving config.toml and reloading the   *)
(* store are two steps because the MCP loop, another thread, authenticates  *)
(* requests between them (ToolCalls).  A save that fails is no step.        *)
(*                                                                         *)
(* The modification time of the file is a version; a page holds the set of  *)
(* it, or the empty set when it was made, or is sent, without one.  A       *)
(* wildcard list of servers is Server itself; names, addresses and dates    *)
(* are checked without an effect here, and a form they refuse changes       *)
(* nothing.                                                                 *)
(***************************************************************************)
EXTENDS Naturals, FiniteSets

CONSTANTS
  TokenId, Secret,        \* keys of [tokens.*], bearer secrets
  Editor, CapOf,          \* portal sessions, and the scopes their roles may hand out
  Server,
  Group,                  \* TOOL_GROUPS: name -> prefixes and tool names
  ScopeChoice, ServerChoice,  \* what an edit may ask for
  MaxSaves                \* bound on the writes of config.toml

ASSUME PagesAssumption ==
  /\ ServerChoice \subseteq SUBSET Server
  /\ "none" \notin Editor
  /\ MaxSaves \in Nat

VARIABLES
  file,     \* [tokens.*] of config.toml: the rows by id
  version,  \* its modification time
  store,    \* TokenStore
  stale,    \* a reload failed and none succeeded since
  saving,   \* the session between its save and its reload
  form      \* edit pages: what the browser holds and the handler awaits

portal == <<file, version, store, stale, saving, form>>

None == "none"
NoForm == [stage |-> "none"]
Row == [secret : Secret, scopes : ScopeChoice, servers : ServerChoice,
        readOnly : BOOLEAN, active : BOOLEAN]

Wild(scopes) == "*" \in scopes

\* _expand_tool_groups
Expanded(scopes) == UNION {IF g \in DOMAIN Group THEN Group[g] ELSE {g} : g \in scopes}

\* the scopes of a token are none a role may not hand out: _beyond_role
WithinCap(e, scopes) ==
  \/ Wild(CapOf[e])
  \/ scopes \subseteq CapOf[e] \cup Expanded(CapOf[e])

Fresh == Secret \ {file[i].secret : i \in DOMAIN file}
Forget(ids, rows) == [j \in DOMAIN rows \ ids |-> rows[j]]
With(i, row, rows) == [j \in DOMAIN rows \cup {i} |-> IF j = i THEN row ELSE rows[j]]

PagesInit ==
  /\ file \in UNION {[ids -> {row \in Row : row.active}] : ids \in SUBSET TokenId}
  /\ \A i, j \in DOMAIN file : file[i].secret = file[j].secret => i = j
  /\ store = file                  \* run_server loads [tokens.*]
  /\ version = 0 /\ stale = FALSE /\ saving = None
  /\ form = [e \in Editor |-> NoForm]

\* The process restarts: pages are gone, the file is read again.
PagesRestart ==
  /\ store' = file /\ stale' = FALSE /\ saving' = None
  /\ form' = [e \in Editor |-> NoForm]
  /\ UNCHANGED <<file, version>>

-----------------------------------------------------------------------------
(* The portal: a handler runs in one stretch except where it awaits the form *)

Save(e, rows) ==
  /\ file' = rows
  /\ version < MaxSaves /\ version' = version + 1
  /\ saving' = e
  /\ UNCHANGED <<store, stale>>

\* token_create
CreateToken(e, i, row) ==
  /\ saving = None
  /\ i \notin DOMAIN store
  /\ i \notin DOMAIN file            \* add_config_table refuses a table that exists
  /\ row.secret \in Fresh /\ row.active
  /\ WithinCap(e, row.scopes)
  /\ Save(e, With(i, row, file))
  /\ UNCHANGED form

\* token_detail, GET: the page holds the modification time of the file, or nothing where
\* config_mtime could not tell it.
OpenForm(e, i) ==
  /\ saving = None /\ form[e].stage = "none"
  /\ i \in DOMAIN store
  /\ \E seen \in {{}, {version}} :
       form' = [form EXCEPT ![e] = [stage |-> "open", id |-> i, seen |-> seen]]
  /\ UNCHANGED <<file, version, store, stale, saving>>

\* token_detail, POST, up to the form it awaits
PostForm(e) ==
  /\ saving = None /\ form[e].stage = "open"
  /\ form' = [form EXCEPT ![e] =
       IF form[e].id \in DOMAIN store /\ WithinCap(e, store[form[e].id].scopes)
       THEN [@ EXCEPT !.stage = "posted"] ELSE NoForm]
  /\ UNCHANGED <<file, version, store, stale, saving>>

\* without the guard against concurrent edits
FaultyUnedited(e) == form[e].id \in DOMAIN file

\* The guard on the page's modification time, which a form without one passes, and the row
\* is still there.
Unedited(e) == form[e].seen \subseteq {version} /\ form[e].id \in DOMAIN file

\* token_detail, POST, from there on: scopes that were not sent stay as they are.
SubmitForm(e, scopes, servers, readOnly) ==
  /\ saving = None /\ form[e].stage = "posted"
  /\ Unedited(e)
  /\ scopes = {} \/ WithinCap(e, scopes)
  /\ LET i == form[e].id
         kept == IF scopes = {} THEN file[i].scopes ELSE scopes IN
     Save(e, [file EXCEPT ![i] = [@ EXCEPT !.scopes = kept, !.servers = servers,
                                           !.readOnly = readOnly]])
  /\ form' = [form EXCEPT ![e] = NoForm]

\* ... or it is refused
RefuseForm(e) ==
  /\ saving = None /\ form[e].stage = "posted"
  /\ form' = [form EXCEPT ![e] = NoForm]
  /\ UNCHANGED <<file, version, store, stale, saving>>

\* token_revoke: the button that revokes is the one that activates
ToggleToken(e, i) ==
  /\ saving = None
  /\ i \in DOMAIN store => WithinCap(e, store[i].scopes)
  /\ i \in DOMAIN file
  /\ Save(e, [file EXCEPT ![i].active = ~@])
  /\ UNCHANGED form

\* token_regenerate
RegenerateToken(e, i, secret) ==
  /\ saving = None
  /\ i \in DOMAIN store /\ WithinCap(e, store[i].scopes)
  /\ i \in DOMAIN file
  /\ secret \in Fresh
  /\ Save(e, [file EXCEPT ![i].secret = secret])
  /\ UNCHANGED form

\* token_delete, token_bulk_delete: for admins
DeleteTokens(e, ids) ==
  /\ saving = None
  /\ Wild(CapOf[e])
  /\ ids # {} /\ ids \subseteq DOMAIN file
  /\ Save(e, Forget(ids, file))
  /\ UNCHANGED form

\* rows that are no longer in the file stay
FaultyReload ==
  /\ saving # None
  /\ saving' = None
  /\ store' = [i \in DOMAIN file \cup DOMAIN store |-> IF i \in DOMAIN file THEN file[i] ELSE store[i]]
  /\ stale' = FALSE
  /\ UNCHANGED <<file, version, form>>

\* _reload_tokens and load_from_config; an exception is only logged
Reload ==
  /\ saving # None
  /\ saving' = None
  /\ \/ store' = file /\ stale' = FALSE
     \/ store' = store /\ stale' = TRUE
  /\ UNCHANGED <<file, version, form>>

-----------------------------------------------------------------------------

PagesNext ==
  \/ \E e \in Editor, i \in TokenId :
       \/ \E row \in Row : CreateToken(e, i, row)
       \/ OpenForm(e, i) \/ ToggleToken(e, i)
       \/ \E secret \in Secret : RegenerateToken(e, i, secret)
  \/ \E e \in Editor :
       \/ PostForm(e) \/ RefuseForm(e)
       \/ \E scopes \in ScopeChoice \cup {{}}, servers \in ServerChoice, readOnly \in BOOLEAN :
            SubmitForm(e, scopes, servers, readOnly)
  \/ \E e \in Editor, ids \in SUBSET TokenId : DeleteTokens(e, ids)
  \/ Reload

PagesSpec == PagesInit /\ [][PagesNext \/ PagesRestart]_portal

-----------------------------------------------------------------------------
(* Properties *)

PagesTypeOK ==
  /\ \A i \in DOMAIN file : i \in TokenId /\ file[i] \in Row
  /\ \A i \in DOMAIN store : i \in TokenId /\ store[i] \in Row
  /\ version \in 0..MaxSaves /\ stale \in BOOLEAN /\ saving \in Editor \cup {None}
  /\ ~stale /\ saving = None => store = file
  /\ \A i, j \in DOMAIN file : file[i].secret = file[j].secret => i = j

\* the step that sends a page without a modification time: it passes the guard
SentUnguarded(e) == form[e].stage = "posted" /\ form[e].seen = {} /\ form'[e] # form[e]

\* No session gives a token scopes its role may not hand out, ever; nor does it change a
\* token that has such scopes, however the edits of others come between its page, its check
\* and its save: as long as the token store could follow the file, and unless its page
\* carries no modification time (the save proceeds then, config_writer.py says, and may meet
\* a token that was widened after the check).
EditsWithinCap ==
  [][saving = None /\ saving' # None =>
       \A i \in DOMAIN file' :
         /\ i \notin DOMAIN file => WithinCap(saving', file'[i].scopes)
         /\ i \in DOMAIN file /\ file'[i] # file[i] =>
              /\ file'[i].scopes # file[i].scopes => WithinCap(saving', file'[i].scopes)
              /\ ~stale /\ ~SentUnguarded(saving') =>
                   WithinCap(saving', file[i].scopes)]_portal
=============================================================================
