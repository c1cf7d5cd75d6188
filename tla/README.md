# Specifications of zabbix-mcp-server

TLA+ models of the parts of zabbix-mcp-server where several threads, awaited forms, retries,
long histories or tables kept by hand decide whether the code is right; checked with TLC on
small instances, with theorems about them checked by TLAPS for instances of any size. Paths
below are relative to `src/src/zabbix_mcp/` unless they begin with `README.md`,
`CHANGELOG.md`, `SECURITY.md`, `config.example.toml` or `docs/`.

    tlc -workers 2 -config OAuthChains.cfg MCOAuthTokens     one run (see the table of runs)
    tlapm OAuthTokensProofs.tla                              the proofs of one module

`PROJECT.json` lists the components, the runs, the source lines behind every definition,
the hazards, the findings and the theorems.

## The program

An MCP server answers tool calls over HTTP or stdio by calling the JSON-RPC API of one or
more Zabbix servers. It is also an OAuth authorization server for its own endpoint, and
has an admin portal that edits its `config.toml`. One process, with

- the **MCP event loop** (main thread, uvicorn): OAuth endpoints, bearer checks, tool
  handlers, the tasks extension. Between two `await`s a handler runs alone on this loop;
- the **portal's event loop**, in a daemon thread of its own: it shares the provider, the
  token store and the client manager with the first loop;
- **worker threads** of `asyncio.to_thread`: every Zabbix call, every stage of a report,
  and the writing of a newly registered OAuth client;
- a thread that warms up the versions of the Zabbix servers, and one that looks for updates.

What is shared between threads is guarded by `_config_lock` (one load or one save of the
file), the `RLock` of the client manager (connecting), and small locks of the session
store, the limiters, the report store and the pending actions. The OAuth tables have none.

### Inventory

| Component | State | Operations | Hard behaviour | What makes it right | Module |
|---|---|---|---|---|---|
| OAuth token tables (`oauth_provider.py`, `admin/views/oauth_clients.py`) | clients, codes, access and refresh tokens, back-pointers, families, consumed tokens | register, exchange a code, refresh, reuse, revoke, check, evict; the portal's revocation | the portal's thread against half-done requests; long chains; full tables | only the newest pair of a family lives; a reused family is dead; a code starts one chain; no scope is gained; a forgotten client gains nothing | OAuthTokens |
| OAuth login and consent (`oauth_login.py`) | pending authorizations, nonces, failed attempts | park, login, consent, deny, expire | two browsers with one link; roles that change between login and consent; a full table | the code is the last login's, allowed by its browser, within its role, once | OAuthLogin |
| Token store and authorization (`token_store.py`, `server.py`) | tokens by hash and by id; the rights of a request | verify, check, list the tools | rows reloaded under requests that await | a call is within its request's rights; no callable tool is hidden | ToolCalls |
| Token pages (`admin/views/tokens.py`) | rows of `config.toml`, open forms | create, edit, toggle, regenerate, delete, reload | a form that is awaited while another session saves | nobody edits beyond his role | TokenPages |
| Action approval (`server.py` 3776-3936) | pending actions | prepare, confirm, expire | another caller, a late or second confirmation, changed rights | executed once at most, with the rights of now | ToolCalls |
| Portal sessions and users (`admin/auth.py`, `admin/app.py`, `admin/views/users.py`) | sessions, the cache of users, open forms | login, logout, check, user edits | two threads fill one cache while the file is saved | the file of the check decides; an ended session's form that is held to the file changes nothing | PortalSessions |
| Login limiter (`admin/auth.py`) | failed attempts per address | allow, record, clear | a client that goes on while it is locked | no address stays locked | LoginLimiter |
| Zabbix connections (`client.py`) | connection, version and zone per server; rate buckets | call, check, get_version, get_zabbix_timezone, warm_versions | threads at one cache, lost answers, resends, upgrades | a write is carried out once at most and its outcome told truly; nobody waits for ever | ZabbixClient |
| API catalogue (`api/*.py`, `config.py`, `server.py`) | none: tables kept by hand | register tools, raw calls, version refusals | four tables that classify one method | they agree on what reads, on releases and on groups | Catalogue |
| Extension tools (`api/extensions.py`) | one frontend session for all threads | answers from several reads, graph_render | Zabbix changes, or a read fails, between two reads | nothing is lost from an answer below its limits; reads stay within the token; a refused session is forgotten | Views |
| Background tasks (`task_store.py`, `server.py`) | tasks, status, payload, cancel scopes | accept, get, result, cancel, sweep | cancel against a result, lifetimes, few workers | what is finished stays; every task ends | TaskStore |
| `config.toml` (`admin/config_writer.py`, its callers) | the file, the copies in memory, the banner's baseline | every save of the portal; the registration's thread | load and save under separate locks, failed saves, restarts | an admin remains; the token store follows the file | ConfigFile |
| Report store, rate limiter, HTTP middleware and shutdown, normalisation, reporting, update checker, configuration parser, other pages, time zones, installer | see *Not modelled* | | | | |

## The modules

| Module | What it is |
|---|---|
| `GrantChain` | abstract: what an authorization server promises about one grant |
| `OAuthTokens`, `OAuthTokensProofs` | the token tables of the provider, with the portal's thread; theorems |
| `LoginLimiter` | operators: the sliding window of failed logins of one address |
| `OAuthLogin`, `OAuthLoginProofs` | what comes before a code: login and consent; theorems |
| `TokenPages` | the portal's token pages and the token store they feed |
| `ToolCalls`, `ToolCallsProofs` | extends `TokenPages`: requests, rights, tools/list, two-step writes; theorems about both, and about `Catalogue` |
| `PortalSessions`, `PortalSessionsProofs` | sessions, the cache of users, the user pages; theorems |
| `ZabbixClient`, `ZabbixClientProofs` | the client manager and its threads; theorems |
| `Catalogue` | all methods and the tables that classify them |
| `Views`, `ViewsProofs` | the extension tools and the frontend session; theorems |
| `TaskStore`, `TaskStoreProofs` | the tasks extension, the report coroutine, the pool of workers; theorems |
| `ConfigFile`, `ConfigFileProofs` | config.toml, its writers and the copies in memory; theorems |
| `MC...` | instances for TLC: symmetry, sets of requests, tables |

Compositions: `ToolCalls` is the MCP loop on top of `TokenPages`, the portal's loop, joined
by the store; `OAuthLogin` uses the limiter; what `OAuthLogin` ends with, a code, is what
`OAuthTokens` begins with; `OAuthTokens` implements `GrantChain`. `Catalogue` gives the
assumption `CallsAssumption` of `ToolCalls` its ground (see *The proofs*).

Definitions named `Faulty...` stand before the definition they are a mistake in. They are
used by no specification: with one put in the place of its neighbour, the property
it is listed with in `PROJECT.json` fails, which shows that the property says something.

### OAuthTokens

No coroutine of the provider waits, so on the event loop a request is interrupted by the
portal's thread only. `/token` has two halves that the framework calls one after the
other, `load_...` and `exchange_...`: `LoadCode`/`LoadRefresh` leave the request in `call`,
`ExchangeCode`/`ExchangeRefresh`/`RefuseExchange` end it, and no other loop action is enabled
between. The portal's revocation of a client is `PopClient`, `SweepAccess`, `SweepRefresh`
(its first step, on the file, is in `ConfigFile`).

An access token and a refresh token are always made together by `_mint_token_pair`; the
n-th pair stands for both and the tables are sets of numbers. The order of an
`OrderedDict` is then the order of the numbers, and eviction drops the least ones. What a
token carries is in `pairs`; `code` and `parent` are history. A lifetime passes by `Expire`
and `ExpireCode` at any time. Reading the file for the user check may fail (`Readable`).

Abstracted: login and consent are one step (`CompletePending`; `OAuthLogin` has them);
per-client lifetimes and address lists are the outcomes they lead to; the audience check
belongs to the deployment.

`GrantChain` knows one usable token per grant. `ImplementsChains` is the refinement:
`usable` maps to the newest refresh token of a code that is in the table or held by the
request in flight.

### OAuthLogin, LoginLimiter

`pending` is `_pending`, `parked` its order; `Authorize` is `authorize` with `stash_pending`,
which drops the oldest of a full table first (`Room`). `jar` holds the nonce cookies, one per
request id and browser. Each POST of `handle_oauth_login` is one action, since the handler
does not wait between its checks and its changes: `LockedOut`, `WrongPassword`, `LoginStep`,
`RefuseConsent`, `Allow`, `Deny`, `Stale`. A browser may send any of them at any time: an old
page, a second tab and a page sent twice are the same step from another state. `Expire` is the
passing of the lifetime; `ChangeUser` the portal's edit of a role, or the removal of a user.
`LoginLimiter` keeps the failures of one address as the source does, a list with the oldest
first, of their ages; `Tick` ages them and drops the first ones that are past `Window`. The
limiter is cleared by a login that succeeds, not by a consent.

Abstracted: users are roles, a password is right or wrong, the time zone a user chooses is
left out. A role that `_ROLE_SCOPE_CAP` does not know has the cap of `MostCapped`.

### TokenPages, ToolCalls

`file` is `[tokens.*]`, `version` its modification time, `store` the `TokenStore`. A handler of
the portal is one action, except where it awaits: `OpenForm` (GET), `PostForm` (the checks
before `await request.form()`) and `SubmitForm` (all after it), with the guard `Unedited`. A form
carries the modification time of its page, or none: `config_mtime` gives an empty one when it
cannot stat the file, and the handler compares only one that is there (`tokens.py:484`). A
save and the reload of the store are two steps (`Save`, `Reload`) because the MCP loop
authenticates requests between them; `stale` is a reload that failed. `Restart` loses what
is in memory.

A request (`req`) is `AuthenticateToken` or `AuthenticatePerson`, then one handler up to its
first await (`CallTool`, `CallRaw`, `PrepareAction`, `ConfirmAction`), then `Carry` when Zabbix
is called. It keeps the `TokenInfo` it was given at the start, as the code does. `Popped` is
the first thing `action_confirm` does. The filters of tools/list are `ListedByToken`,
`ListedByMode`, `ListedByVersion`; `NothingHidden` relates them to the checks of a call.

Abstracted: a tool is its prefixes and the four flags the checks look at; addresses, expiry
dates, `raw_json` and wrong arguments are calls that do not happen.

### PortalSessions

`portal_users` is taken apart, because it runs in the portal's and in the MCP endpoint's
thread and the file may be saved in between: `Arrives`/`McpArrives` (stat), `Hit`, or `Reads` (open
and parse) and `Stores` (the lock, the cache), or `ReadFails`. `Settles` is what
`user_still_valid` leads to in the portal: the handler runs, or the session is dropped. A
handler that takes a form is `Awaits`/`AwaitsDetail` and then `Creates`, `Edits`, `DeletesMany` or
`Refused`. `AwaitsDetail` takes a form with its page's modification time or with none, as the
page that shows an error sends it (`users.py:283`), and `SameFile` holds only the first to the
file (`users.py:227`). `EditedOutside` is a hand on the file. `saves` is the key of the cache, the
modification time in nanoseconds, size and inode: no two states of the file share one,
which the model takes as given. Another session's edit of `config.toml` is `EditedOutside`
with another account, or none. `said` and `held` are history.

Abstracted: the CSRF check, the audit log, the disabled flag (an account that is not the
session's), the portal's limiter (the same class as in `OAuthLogin`).

### ZabbixClient

One member of `Call` is one thread performing one operation. Each read of a cache without
the lock, each taking of the lock, each request and each write of a cache is a step.
Zabbix is external: it may be upgraded (`Upgrade`), answers a request in each way the code
tells apart (result, refusal, lost session, lost answer), and may carry a lost request out
later (`LateEffect`). A connection is the version it was made with, since `zabbix_utils`
reads the version when it connects and keeps it. The comment at `client.py:558` that
"zabbix_utils wraps what fails before [the request left] into ProcessingError" is an
assumption of the model: such a failure is `Refused`.

`ReconnectFails` lets `check_connection` try again up to `CheckAttempts` times and chooses
freely which errors are transient.

### Catalogue

Every method of `api/*.py` is a record of its object, its verb and `read_only`; sections of the
source are unions of `Managed`, `Gets`, `Reads` and `Writes`. `Since`, `Removed` and `Advice` are
the tables and the words of `api/versions.py`; `Registered` and `RawRegistered` the filters of
the registration; `ReadsByName` and `ResendIsSafe` the two tables of verbs. The state is one
caller and one server that is upgraded now and then: he calls by tool or by name, is refused
and does what the refusal says, or the connection breaks and `Resend` sends once more.
Parameters and descriptions are left out.

### Views

`Plan` is the order of the reads of each tool, `Checked` the scopes its handler asks for,
`Prefix` what the same read would need as a tool of its own. A call is `Start`, one action per
read (`ReadHosts`, `ReadItems`, `ReadTrend`, `ReadProblems`, `ReadTriggers`, `Count`, ...), `ReadFails`,
`Answer`. A read of problems returns at most `Fetched` of them, a list tells at most `Told`, chosen
freely where there are more (`Page`): for `host_status_get` these are 50 and 25, for
`problem_active_get` they come from its `limit`, for the overview and the summary they are 1000
and 5000 read. `Kept` is `_filter_active_problems`; `FirstEnabled` the host it names. `Change` lets
hosts and triggers be switched and problems start and end between any two reads, and
`Witness` records what was true meanwhile. `graph_render` is `StartRender`, `Login`, `Store`, `Fetch`,
`RefusedFetch`, `Drop`: reading and writing `_GRAPH_SESSION_CACHE` are separate steps, as no lock
spans them; `EndSession` is the frontend's doing.

Abstracted: one item a host, severities, the limits of other reads than of problems, the order
of a sorted read (which decides what is cut), values and layout; the
arithmetic of `anomaly_detect` and `capacity_forecast`.

### TaskStore

`Accept` is `intercept_tool_call` up to the first job of the coroutine: the loop starts the
coroutine before the answer with the id can have reached the client, so nothing that names
the task comes between. A report is `Stages` jobs one after the other. `EndJob` makes the
coroutine ready; it runs (`Resume`, `Complete`, `Fail`) at a later turn of the loop, and a
cancel may come between: `anyio` interrupts only what still waits. A worker that runs
cannot be stopped; a queued job can be dropped. `Expire` is the passing of a lifetime,
`Sweep` the cleaning that `tasks/get`, `tasks/result` and the periodic sweeper do; `Accept` and
`Cancel` clean as part of themselves.

### ConfigFile

A writer is the portal, which serves one request at a time, or the thread that persists one
client. `Load` and the save are separate steps, as the lock is released between them. A save
renames (`Rename`), or falls back to writing the file itself (`Fallback`, then `DirectWrite`),
or fails (`SaveFails`); while it writes the file itself it holds the lock. A direct write that
was cut off, by an error or by a stop, leaves what does not parse (`broken`) or a document with
tables missing (`Parts`, down to the empty one), which the next writer loads and saves like any
other. `Begin` is what a handler checks before it loads the document it will change, of the
file or, for a form that carries no modification time, of a role the file no longer has
(`Readings`); `Proceeds` what it checks on that document. `Reload` and `Pop` are what token handlers
and the client revocation do after the save; `SnapshotLoad` and `SnapshotStore` are
`refresh_config_baseline`. `Restart` reads everything from the file, which the bootstrap gives an
admin if nobody is in it (`Booted`).

History: `unread` are the tokens whose row was changed by a write after which nobody loads the
store, namely a registration's or one that was cut off; `excused` says that a cut-off write
left no admin, or that a user was added or edited in a document with other users than the
request was checked against. A start clears the first, and the second if there is an admin.

Abstracted: a document is roles, tokens, clients and one setting that is read at start-up
only (`Default` when it is missing); which tables come first in the file, so that `Parts` allows
more than the prefixes of one text; `user_create` on a document without the table `[admin]`, which
saves it without the new user. The order of one administrator's edits and another's is in
`TokenPages` and `PortalSessions`: here the portal serves one request at a time. "operator" has
the part of "viewer" in the role guards.

## Runs

| Run | Module | Instance | What it shows |
|---|---|---|---|
| `OAuthChains` | `MCOAuthTokens` | one client and user, two scopes, tables of two, chains of three pairs | chains of refreshes with reuse, sign-out, expiry, full tables and narrower scopes: only the newest pair lives (`OnlyNewestLives`), a reused family stays dead (`ReusedFamilyIsDead`), a code starts one chain (`OneFamilyPerCode`), no scope is gained (`WithinGrant`), the tables keep their limits (`TablesBounded`) |
| `OAuthPortal` | `MCOAuthTokens` | one client that is revoked, a user with two passwords, a file that may be unreadable | a forgotten client gets at most the token of the request in flight (`ForgottenGainsNothing`) and is locked out in the end (`RevokedClientEventuallyOut`); the tables implement `GrantChain` (`ImplementsChains`) |
| `OAuthLogin` | `MCOAuthLogin` | two requests for a table of one, two browsers, two users whose roles change | a code is the last login's and was allowed by its browser (`CodeOfItsBrowser`), lies within its role (`GrantWithinRole`), is given once (`OneAnswer`); an address is reopened by time (`LockoutEnds`) |
| `ToolCalls` | `MCToolCalls` | a token row, users of a client, two editors, a writable and a read-only server | a call leaves with the rights of its request (`RightsHeld`), tools/list hides nothing callable (`NothingHidden`), nobody edits beyond his role, from a page that may carry no modification time (`EditsWithinCap`) |
| `ConfirmedByAnother` *x* | `MCToolCalls` | two users of one OAuth client | finding: `PreparerConfirms` |
| `PortalSessions` | `MCPortalSessions` | two users, two sessions, one awaited form, three states of the file | nobody is let in or put out by a stale reading (`CheckedByTheFile`); an edit of a user whose form carries a modification time is saved for a session that still stands (`EditByTheStanding`) |
| `ClientCalls` | `MCZabbixClient` | two threads with any operation, the warm-up, two upgrades | a write is carried out once at most (`WriteAppliedAtMostOnce`) and its outcome told truly (`OutcomeHonest`); a connection is replaced by a reconnect only; every operation ends (`CallsEnd`) |
| `ClientLostWrite` *x* | `MCZabbixClient` | two writes | finding: `LostWriteIsReported` |
| `Catalogue` | `MCCatalogue` | every method, 11 releases, 3 configurations | nothing writes that passes for a read (`NoUnmeantWrite`), a refusal names what the server has (`AdviceHolds`), the groups listed one by one are the whole catalogue (`GroupsAreEverything`) |
| `Views` | `MCViews` | three hosts, two triggers, three problems, reads and lists of one to four, one call, two renders | an answer that was not full loses no problem that was there all along (`AnswerIsCurrent`), no read exceeds the token (`ReadsWithinRights`), a refused frontend session is forgotten (`RefusedIsForgotten`) |
| `TaskStore` | `MCTaskStore` | three calls, two live at a time, one worker | what is finished stays finished (`FinishedIsFinal`), every task ends (`TaskEnds`), limits hold |
| `ConfigFile` | `MCConfigFile` | two users, a token, a registration, saves that fall back, fail or are cut off, restarts | unless excused an admin is left (`AdminRemains`), the token store has every row that is not `unread` as the file does (`StoreFollowsFile`) |

*x*: the run is expected to fail; see *Findings*. The others hold, each with its module's
type invariant.

### Bounds

*OAuthTokens.* Three pairs are a chain of two refreshes, or a refreshed grant beside another:
they reach the reuse of a token two generations old, a second family, and the eviction from
tables of two. Two scopes let a refresh ask for less, and the next one for what was given
up. In OAuthPortal one client is forgotten by the portal while the loop is between the halves
of its `/token` request; two passwords let the user change between consent, exchange and
check, and a file that may be unreadable leaves a pair without a fingerprint. `CodeBound`,
`PairBound` and `PasswordBound` stop the exploration; the code has no such limits. `VIEW
Relevant` leaves the expiry marks of tokens and codes out of a state that are in no table any
more: they never come back, and nothing looks at their lifetime.

*OAuthLogin.* Two requests for a table of one: parking the second drops the first while a
browser is at its login. Two browsers behind one address share its limiter. `MaxLogins` and
`MaxAttempts` of two are a second login that replaces the first one's nonce, and a lockout;
a window of two ticks has an attempt of each age. The role "guest" is one that
`_ROLE_SCOPE_CAP` does not know.

*ToolCalls.* One row and one request at a time: requests overlap only in what they leave
behind, and the row's two secrets and two saves give a request that was authenticated
before an edit, between save and reload, and after. A second server is read-only, and lacks
no tool. The two tools are a write of the group that the narrower tokens have and a read that
they do not have and that the first server is too old for; `graph_render` is the extension
tool of the run `ConfirmedByAnother`. `VIEW Relevant` counts the modification
times of open pages as one that are not the file's: only equality with the file's is asked, and
a time that is past does not come back. Of a call on its way it keeps whether it is within its
rights and which prepared action it carries out, all that its two steps and `RightsHeld` look
at; of a prepared action that has expired, that it has.

*PortalSessions.* Three states of the file are what a reading under a stale key needs: it is
looked at, saved, read, saved again. The accounts differ in role or in password, so a demotion
and a change of password are both there.

*ZabbixClient.* Two threads and the warm-up are a holder of the lock, one that waits for it
and one on the path without it. `VersionBound` lets the server be upgraded twice.
`CheckAttempts` is the code's own limit of four. One server is enough, since servers share
only the lock.

*Catalogue.* Nothing is cut: all methods, one release on each side of every boundary in
`METHOD_SINCE` and `METHOD_REMOVED`, and a pre-release at the last one.

*Views.* Two hosts of a group and one outside; each trigger has two hosts and one spans the group's border. Of
three problems two share a trigger, so that a read or a list can be cut between them:
`MCFetched` and `MCTold` have a tool whose read is cut, one whose list is, and one that is never.
Three
changes switch something off and on again between two reads and end a problem. Calls and
renders share no state, so `AtRest` explores either with the other at rest.

*TaskStore.* Two live tasks of three reach the limit; one worker makes a report wait behind a
cancelled one.

*ConfigFile.* Two users are a last admin and somebody who acts, is added, promoted or deleted
beside him; a batch can name both, sent by somebody who is in the file no more. One
registration is enough for a stale write, since the portal serves one request at a time.
`VIEW Relevant` leaves out of a state what no further step and no property reads (the documents
of a handler that has ended, who made a request that is under way), so that states which only
differ there count as one; the two users are interchangeable (`Symmetry`).

`CHECK_DEADLOCK FALSE` is set for OAuthTokens, ZabbixClient, TaskStore and ConfigFile: a
bounded history of them may end, and an idle server that nobody calls is a proper state.
The other modules always have a step.

### Fairness

- `OAuthTokens.FairSpec`: access tokens expire in the end, and a request the loop is in the
  middle of ends, since nothing in the provider waits. Nobody is obliged to present a token,
  to refresh or to revoke.
- `OAuthLogin.Spec`: time goes by (`WF` of `Tick`). Nobody is obliged to send a page;
  `LockoutEnds` holds even of clients that go on sending while they are locked.
- `ZabbixClient.FairSpec`: a thread that has begun goes on (`WF` of all its steps together, so
  no outcome is preferred); requests end at `request_timeout`. Taking the lock is weakly
  fair: nothing is assumed about the order in which waiters get it. This suffices since each
  thread performs one operation.
- `TaskStore.FairSpec`: workers take queued jobs, a job ends, the loop runs what is ready.
  Lifetimes need not pass and clients need not poll.

### Findings

Where a run shows that the code does something else than a comment or a document of the
repository says. `PROJECT.json` quotes the lines.

- A write that is sent again after a session error, and whose second answer is lost, is
  reported as a plain connection error and not as an unknown outcome (`ClientLostWrite`;
  `client.py:563` and `README.md:1110` promise the latter).
- The caller an action is prepared for is the id of the token, which for an OAuth grant names
  the client: a second user of the same client confirms it, with his own rights
  (`ConfirmedByAnother`; `SECURITY.md:112` says "only works for the caller that prepared it").

### Seen, and not kept as runs

The modules define these statements, and each is false in a small instance:

| Statement | Instance | What happens |
|---|---|---|
| `OAuthTokens!RevokedClientIsRejected` | OAuthPortal with `Readable = {TRUE}`, `CodeBound` and `PasswordBound` 1, `Spec` | a `/token` request authenticated before a revocation in the portal mints a token after its sweep; it cannot be renewed |
| `OAuthTokens!LoginPasswordIsCurrent` | OAuthChains with one scope, `CodeBound` 1, `PairBound` and `PasswordBound` 2 | the fingerprint of the password is read at the exchange of the code, not at the login |
| `TaskStore!CancelledStaysCancelled` | TaskStore with `Task = {a, b}` | a task reported as cancelled becomes completed |
| `ConfigFile!PendingIsAnnounced` | ConfigFile with one user, no token, two settings, `SettingOps` | a registration takes the new file as the banner's baseline and hides a restart that is due |
| `ConfigFile!RevokedStaysOut` | one user, no token, `ForgetOps` | the thread of a registration writes a revoked client back |
| `ConfigFile!LastAdminStays` | two users, no token, `AddOps` and `RoleOps` | the role guard reads the file before the document it changes is loaded, and the target's role before the form has come |
| `PortalSessions!NoUserOfADeletedAdmin` | PortalSessions | a form sent before its editor was deleted still creates a user (`admin/app.py:660`) |
| `Views!TopHostsOfTheGroup` | Views | the host named in a group's overview is the trigger's first enabled one, of whatever group (`extensions.py:1143`) |

What else the models contain, or what reading for them brought up:

- Revoke on the page of tokens is a toggle: a click on a page that is no longer true
  reinstates. A "legacy" token that was deleted in the portal is there again after a restart.
- A confirmation of another caller is refused and uses the action up (`server.py:3875`). An
  action prepared under a token id may be confirmed under a token created later with that id.
- `oauth_login.py:311` says that the throttle "covers login only"; its check stands before
  the consent as well. A role deleted between login and consent is used all the same.
- `user_create` and `user_bulk_delete` have no guard like `user_detail`'s on the file's
  modification time.
- `config.example.toml:359` says that tools outside any group are registered regardless of the
  list; the registration takes the listed groups only. `zabbix_raw_api_call` reaches
  prefixes that `disabled_tools` names.
- `problem_get` with `monitored`, and `problem_active_get`, read triggers while they ask for
  the scope `problem` alone (`ReadsWithinRights` excepts these two). `docs/OAUTH.md:467` lists
  `problem_active_get` under the scope `extensions`, which alone does not give that prefix.
- A count of the infrastructure summary that fails is told as 0; `host_status` counts
  severities over the first 25 problems.
- Rows of `_access_to_refresh` outlive their tokens, as expiry and the portal's sweep leave
  them (harmless: a refresh looks up the newest only).
- The cached version of a Zabbix server may differ from the version its cached connection was
  made with; one lock serves all servers (`client.py:333`), so a slow connect delays the others.
- Cancelling a task does not stop the stage its worker is in, and cancelling an expired task
  ends in an attribute error instead of a refusal.
- Of two registrations whose threads load the file together one is lost from the file, and a
  save that falls back to a direct write can leave half a document. An empty one is a
  document: `add_config_table` goes on with it (`config_writer.py:158`), and the check of the last
  admin is skipped where there is none (`users.py:380`).
- A user's form that was refused is shown again without its modification time
  (`users.py:283`-`291`): sent once more, it is not held against the edits of others.
- `host_status_get` tells 25 of the problems it reads and not that there are more.

## The proofs

Theorems hold of `Spec`, for every value of the constants that the assumption of the module
admits: any number of clients, users, threads, servers, tasks, hosts, and any bound. TLC
evaluates these assumptions in the runs. Each follows from an inductive invariant, proved
with one lemma per action; the temporal step is PTL's.

| Module | Theorems | Property |
|---|---|---|
| `OAuthTokensProofs` | `Invariance`, `TypeCorrect`, `RotationCorrect`, `ReuseIsFinal`, `CodeIsOneShot` | `IInv`, `TypeOK`, `OnlyNewestLives`, `ReusedFamilyIsDead`, `OneFamilyPerCode` |
| | `GrantKept`, `TablesStayBounded`, `ForgottenStaysOut`, `ChainsImplemented` | `WithinGrant`, `TablesBounded`, `ForgottenGainsNothing`, `ImplementsChains` |
| `OAuthLoginProofs` | `Invariance`, `TypeCorrect`, `ConsentOfTheLastLogin`, `GrantIsCapped`, `AnsweredOnce` | `IInv`, `TypeOK`, `CodeOfItsBrowser`, `GrantWithinRole`, `OneAnswer` |
| `ToolCallsProofs` | `PreparedOnce`, `CallsWithinRights`, `EditorsWithinTheirRole`, `CallableIsListed` | `TypeOK`, `RightsHeld`, `EditsWithinCap`, `NothingHidden` |
| | `CatalogueInvariance`, `CallsAreKnown`, `OnlyReadsGoOut`, `AdviceCanBeTaken`, `SixGroupsAreAll` | `CatalogueInv`, `CatalogueTypeOK`, `NoUnmeantWrite`, `AdviceHolds`, `GroupsAreEverything` |
| `PortalSessionsProofs` | `SessionsTyped`, `LetInByTheFile`, `EditsStand` | `TypeOK`, `CheckedByTheFile`, `EditByTheStanding` |
| `ZabbixClientProofs` | `CachesTyped`, `WritesAreSentOnce`, `OutcomesAreHonest`, `ConnectionsAreKept` | `TypeOK`, `WriteAppliedAtMostOnce`, `OutcomeHonest`, `ReplacedOnlyByReconnect` |
| `ViewsProofs` | `ViewsTyped`, `AnswersAreCurrent`, `ReadsAllowed`, `RefusedStaysOut` | `TypeOK`, `AnswerIsCurrent`, `ReadsWithinRights`, `RefusedIsForgotten` |
| `TaskStoreProofs` | `StoreWithinLimits`, `FinishedStays` | `TypeOK`, `FinishedIsFinal` |
| `ConfigFileProofs` | `DocumentsTyped`, `AnAdminStays`, `StoreFollows` | `TypeOK`, `AdminRemains`, `StoreFollowsFile` |

**OAuthTokens.** A refresh drops the old access token by its back-pointer, so a live access
token must have one; it keeps the family only if the token is in `_active_refresh_family`, so
a live refresh token must be there; a revocation of the family finds only what
`_family_tokens` lists, so all that lives must be listed: these three are `Reachable`.
`FamiliesKnown` numbers a family by its first pair, so that the family of a new code is new.
`CodesSpent` ties a family to its code and keeps an exchanged code out of the table.
`InFlight` is what a half-done request relies on: the portal's thread may have run since, and
the invariant says what it cannot have changed.

Four further results rest on it. `WithinGrant` is a statement about pairs that never change
once they are there, so only the two exchanges matter; `ParentsKnown` adds that a pair's
parent is an older pair. `TablesBounded`: eviction drops numbers below a bound until the table
fits, and `GcMakesRoom` shows that afterwards one more fits, by taking the least number of a
finite set for which too many remain. `ForgottenGainsNothing` is a statement about single
steps: whatever is not an exchange adds nothing to the tables (`QuietStep`), and an exchange is
of the client that is being served. For the refinement `ImplementsChains`, `Held` is the set of
refresh tokens of a code that are in the table or in the hands of the request in flight; by
`OnlyNewestLives` and `OneFamilyPerCode` it has one member at most (`HeldIsOne`), which is what
the mapping chooses. Each action then maps to the beginning or the going on of a chain
(`MintRefined`), to the end of those whose member disappears (`EndRefined`; an eviction or the
portal's sweep can end several at once), or to a stutter.

**OAuthLogin.** A consent is checked against a nonce only. `EntryOfLastLogin` says that an
entry has the nonce, user and role of its last login, `NonceOfLastLogin` that only that login's
browser can have this nonce, whatever older ones are in other jars, and `AnsweredIsGone` that
an answered request never comes back to the table. The limits in `TypeOK` need a second
invariant, `Within`: the list of parked requests has each of them once (`OrderAgrees`), so that
its length is their number and dropping the first makes room, and the attempts of an address
are recorded only while there is room for one more (`LimiterWithin`). What `Append`, `RemoveAt`
and the cutting of a list do to it is stated in lemmas of their own.

**ToolCalls.** The pages' part (`PInv`) holds a form that was posted, carries a modification
time and would still be accepted to the rights of its editor (`PostedWithinCap`): any save makes
such forms older than the file (`FormsBehind`), so the check of the first half is about the row
the second half changes. Of a form without a time the check of the second half remains: it
gives no scope beyond the editor's cap. The loop's part (`CInv`) says that at most one request carries out a prepared action,
and that it is spent by then (`CarriedOnce`). `NothingHidden` and `RightsHeld` use of the tables
of tools what `CallsAssumption` states: that a tool whose suffix reads does not write. Its ground is
`SafeIsRead`, proved of the catalogue's own tables.

**Catalogue.** `ToolCallsProofs` extends it too, since its methods are what the tools are made
of. `Proper` is proved section by section: an entry reads exactly when its verb is one
of ten (`ReadVerbs`), and its object has a group. From this follow that a name determines its
entry, that both tables of verbs contain reads only, and that the six groups are everything.
`OutOfUse` and `InTime` say of `METHOD_REMOVED` and `METHOD_SINCE` that what a refusal names is
never taken away and is as old as the refusal; so advice once given holds after any upgrade
(`AdviceIsThere`). The tables are the code's; configurations and releases are any
(`CatalogueAssumption` types them).

**PortalSessions.** `CheckedByTheFile` speaks of the file during a check, and the cache of a
reading that may be older. `Vouched` says what a reading is worth: under the key of the
present file it is the file; under the key the check took it is something the file said
during the check; of any other past state nothing need be known. `Standing` carries this from
the check to the save, through the awaited form, if the form carries a modification time.

**ZabbixClient.** `Fits` relates the place of a thread to what Zabbix may have done for it: a
thread that has not sent, or will send again, has left nothing behind (`Untouched`), and only
one that reconnects to report a lost write may have. `Alone` says that who connects holds the
lock over an empty slot, which is why no connection is lost under another.

**Views.** The reads of a call are a suffix of its tool's plan, and what has been read so far
contains what was there all along (`DataOK`, with the history of `Current`), if it is less than
what the read may return (`FoundOK`) and the list may tell (`ShownOK`). That the host named
for a problem exists whenever one of its hosts is on (`FirstEnabledThere`) is the least-element
argument on the trigger's sequence. For the renders, a cookie about to be stored is new
(`New`): neither refused before nor in anyone's hands.

**TaskStore.** `FinishedIsFinal` needs `Over`: who could finish a finished task again has ended.
The limits are on cardinalities of sets that change by one task at a time.

**ConfigFile.** `Following`: of the tokens that are not `unread` the store has what the file says,
or the portal is about to load it, and the document the portal loaded agrees with the store;
so a save of the portal changes only what its request names, and that is reloaded. `Founded`: as
long as nothing is excused, the file has an admin, every document that is about to be written
will have one, and what was checked of a request under way spares one (`Spared`). `EditedAdmins`
carries that to the document the request makes; that more than one admin leaves one without
the target is a statement about cardinalities (`AnotherAdmin`). No request is assumed away: what
`excused` and `unread` leave open is in the properties, where the code gives no more
(`RevokedStaysOut` and `LastAdminStays` above are the same stale reads and writes).

Only model-checked: what holds under fairness (`RevokedClientEventuallyOut`, `LockoutEnds`,
`CallsEnd`, `TaskEnds`), out of the prover's reach like `ENABLED`. Every invariant and action
property of the passing runs, and the refinement, is a theorem.

## Not modelled

- *Report store*: a lock around an ordered dictionary of 20. What it means for tasks (a
  completed task whose link is dead, since 100 may be live) belongs to a composition with
  `TaskStore`, which does not exist yet.
- *Rate limiter of Zabbix calls*: a sliding window per caller with the eviction of idle
  buckets. `ZabbixClient` has what it leads to, a refusal before anything is sent.
- *HTTP middleware and shutdown*: filters of headers and addresses applied in sequence; at
  shutdown the notification streams are closed, after which nothing of the state is read.
- *Normalisation of parameters, reporting, time zones*: pure transformations of data that
  depend on formats more than on order. The checks around them are in `ToolCalls` and
  `Catalogue`, the stages of a report in `TaskStore`, the cached zone in `ZabbixClient`.
- *Update checker*: one periodic thread that replaces one cached answer.
- *Template migration, configuration parser and command line*: run once, before any thread that
  shares state with them. The bootstrap's part in a start is in `ConfigFile`.
- *Other portal pages*: they show state, or write `config.toml` with the steps of `ConfigFile`.
- *Installer and scripts*: shell scripts run by an operator.
- The file system and clocks: a save is seen whole except for the direct write, the
  modification time in nanoseconds tells two saves apart.

## Plan

1. `OAuthTokens`, `GrantChain`; `ZabbixClient`; `TaskStore`; `ConfigFile`. *done*
2. `OAuthLogin` with the limiter; `TokenPages` and `ToolCalls`; `PortalSessions`; `Catalogue`;
   `Views`. *done*
3. Proofs of the safety and action properties of these modules. *done*
4. The steps of `Spec => Chain!Spec`, the limits of the OAuth tables, the types of `OAuthLogin`,
   the tables of `Catalogue`. *done*
5. The report store composed with `TaskStore`; the rate limiter's buckets; the streams at
   shutdown; edits of servers and templates in `ConfigFile`.
