---------------------------- MODULE ZabbixClient ----------------------------
(***************************************************************************)
(* ClientManager (client.py): the worker threads of tool calls share one    *)
(* cached connection, one cached version and one cached time zone per       *)
(* Zabbix server.  asyncio.to_thread runs every operation in a thread of    *)
(* its own, so each member of Call is a thread that performs one operation. *)
(* The start-up thread of warm_versions runs beside them.                   *)
(*                                                                         *)
(* A Zabbix server is external: it may be upgraded at any time and answers  *)
(* each request in any of the ways the code distinguishes.  Its version     *)
(* number stands for everything that a restart can change; a connection is  *)
(* the version that was read when it was made (zabbix_utils keeps it).      *)
(***************************************************************************)
EXTENDS Naturals, FiniteSets

CONSTANTS Call, Server, Warm, NoOne,
          Kinds,          \* which operations the threads perform
          CheckAttempts,  \* length of "delays" in check_connection
          VersionBound    \* bound of the exploration: upgrades of a server

ASSUME ConstantsAssumption ==
  /\ Server # {}
  /\ Warm \notin Call /\ NoOne \notin Call \cup {Warm}
  /\ Kinds \subseteq {"read", "write", "version", "zone", "check"}
  /\ CheckAttempts \in Nat \ {0} /\ VersionBound \in Nat \ {0}

VARIABLES
  version,   \* the version each Zabbix server runs (external)
  clients,   \* _clients: the cached connection, 0 for none
  versions,  \* _versions: 0 for unknown
  zones,     \* _zabbix_zones: the version whose zone setting is cached, 0 for none
  lock,      \* who holds _lock (one RLock for all servers)
  call,      \* the state of every thread
  warm,      \* the warm-up thread: servers to do, and the connection it carries
  applied,   \* how often Zabbix carried a call out (external)
  adrift     \* calls whose lost request Zabbix may still carry out (external)

cache == <<clients, versions, zones>>
zabbix == <<version, applied, adrift>>
vars == <<version, clients, versions, zones, lock, call, warm, applied, adrift>>

-----------------------------------------------------------------------------

Steps == {"idle", "lookup", "waitGet", "connect", "send", "waitReconnect", "reconnect",
         "storeVersion", "askZone", "storeZone", "done"}

\* got: the connection or the answer the thread holds.  why: what the reconnect is for.
CallState == [step : Steps, kind : Kinds \cup {"none"}, srv : Server, got : Nat,
              why : {"none", "resend", "report", "check"}, tries : {1} \cup 0..(CheckAttempts - 1),
              result : {"none", "ok", "error", "unknown"}]

Ver == 0..VersionBound

TypeOK ==
  /\ version \in [Server -> 1..VersionBound]
  /\ clients \in [Server -> Ver]
  /\ versions \in [Server -> Ver]
  /\ zones \in [Server -> Ver]
  /\ lock \in Call \cup {Warm, NoOne}
  /\ call \in [Call -> CallState]
  /\ warm \in [todo : SUBSET Server, srv : Server, got : Ver]
  /\ applied \in [Call -> Nat]
  /\ adrift \subseteq Call

\* the server named in a record that is not in use yet
AnyServer == CHOOSE s \in Server : TRUE

Init ==
  /\ version = [s \in Server |-> 1]
  /\ clients = [s \in Server |-> 0]
  /\ versions = [s \in Server |-> 0]
  /\ zones = [s \in Server |-> 0]
  /\ lock = NoOne
  /\ call = [c \in Call |-> [step |-> "idle", kind |-> "none", srv |-> AnyServer, got |-> 0,
                             why |-> "none", tries |-> 0, result |-> "none"]]
  /\ warm = [todo |-> Server, srv |-> AnyServer, got |-> 0]
  /\ applied = [c \in Call |-> 0]
  /\ adrift = {}

-----------------------------------------------------------------------------
(* Zabbix *)

Upgrade(s) ==
  /\ version[s] < VersionBound
  /\ version' = [version EXCEPT ![s] = @ + 1]
  /\ UNCHANGED <<cache, lock, call, warm, applied, adrift>>

\* A request whose answer was lost is carried out after the client gave up on it.
LateEffect(c) ==
  /\ c \in adrift
  /\ adrift' = adrift \ {c}
  /\ applied' = [applied EXCEPT ![c] = @ + 1]
  /\ UNCHANGED <<version, cache, lock, call, warm>>

-----------------------------------------------------------------------------
(* Threads *)

At(c, step) == call[c].step = step

\* the thread c goes on at "step"
Goto(c, step) == call' = [call EXCEPT ![c].step = step]

GotoWith(c, step, value) == call' = [call EXCEPT ![c].step = step, ![c].got = value]

Return(c, result) == call' = [call EXCEPT ![c].step = "done", ![c].result = result]

\* What a thread does once _get_client gave it a connection.
AfterClient(kind) ==
  CASE kind = "version" -> "storeVersion"
    [] kind = "zone" -> "askZone"
    [] OTHER -> "send"

\* call(), get_version(), get_zabbix_timezone(), check_connection(): a cached version
\* or zone is the answer.
Begin(c, kind, s) ==
  LET cached == \/ kind = "version" /\ versions[s] # 0
                \/ kind = "zone" /\ zones[s] # 0 IN
  /\ At(c, "idle")
  /\ call' = [call EXCEPT ![c] =
       [@ EXCEPT !.kind = kind, !.srv = s,
                 !.step = CASE cached -> "done"
                            [] kind = "check" -> "waitReconnect"
                            [] OTHER -> "lookup",
                 !.why = IF kind = "check" THEN "check" ELSE "none",
                 !.result = IF cached THEN "ok" ELSE "none"]]
  /\ UNCHANGED <<zabbix, cache, lock, warm>>

\* call() when the rate limiter raises.
RateLimited(c, s) ==
  /\ At(c, "idle")
  /\ \E kind \in Kinds \cap {"read", "write"} :
       call' = [call EXCEPT ![c] = [@ EXCEPT !.kind = kind, !.srv = s, !.step = "done",
                                             !.result = "error"]]
  /\ UNCHANGED <<zabbix, cache, lock, warm>>

\* _get_client, fast path: one read of the dict, no lock.
Lookup(c) ==
  LET s == call[c].srv IN
  /\ At(c, "lookup")
  /\ IF clients[s] # 0
     THEN GotoWith(c, AfterClient(call[c].kind), clients[s])
     ELSE Goto(c, "waitGet")
  /\ UNCHANGED <<zabbix, cache, lock, warm>>

\* connects without looking again
FaultyAcquireGet(c) ==
  /\ At(c, "waitGet")
  /\ lock = NoOne
  /\ lock' = c
  /\ Goto(c, "connect")
  /\ UNCHANGED <<zabbix, cache, warm>>

\* _get_client, slow path: look again under the lock.
AcquireGet(c) ==
  LET s == call[c].srv IN
  /\ At(c, "waitGet")
  /\ lock = NoOne
  /\ IF clients[s] # 0
     THEN GotoWith(c, AfterClient(call[c].kind), clients[s]) /\ UNCHANGED lock
     ELSE Goto(c, "connect") /\ lock' = c
  /\ UNCHANGED <<zabbix, cache, warm>>

\* _connect succeeds and the connection is cached; leaving the block frees the lock.
Connect(c) ==
  LET s == call[c].srv IN
  /\ At(c, "connect")
  /\ clients' = [clients EXCEPT ![s] = version[s]]
  /\ GotoWith(c, AfterClient(call[c].kind), version[s])
  /\ lock' = NoOne
  /\ UNCHANGED <<zabbix, versions, zones, warm>>

\* the exception leaves the lock taken
FaultyConnectFails(c) ==
  /\ At(c, "connect")
  /\ Return(c, "error")
  /\ UNCHANGED <<zabbix, cache, lock, warm>>

\* _connect raises.  get_zabbix_timezone answers "" and caches nothing.
ConnectFails(c) ==
  /\ At(c, "connect")
  /\ Return(c, IF call[c].kind = "zone" THEN "ok" ELSE "error")
  /\ lock' = NoOne
  /\ UNCHANGED <<zabbix, cache, warm>>

-----------------------------------------------------------------------------
(* Sending a call *)

\* a write is taken for a read
FaultyResendIsSafe(c) == TRUE

\* resend_is_safe
ResendIsSafe(c) == call[c].kind = "read"

\* Zabbix carries a write out.  (What a read does there is of no interest.)
Effect(c) == applied' = IF call[c].kind = "write" THEN [applied EXCEPT ![c] = @ + 1]
                        ELSE applied

Answered(c) ==
  /\ At(c, "send")
  /\ Effect(c)
  /\ Return(c, "ok")
  /\ UNCHANGED <<version, cache, lock, warm, adrift>>

\* An error Zabbix answered with, or a request that never left: raised as it is.
Refused(c) ==
  /\ At(c, "send")
  /\ Return(c, "error")
  /\ UNCHANGED <<zabbix, cache, lock, warm>>

\* "not authorised", "session", "re-login": log in again and send it again, once.
SessionRefused(c) ==
  /\ At(c, "send")
  /\ IF call[c].tries = 0
     THEN call' = [call EXCEPT ![c].step = "waitReconnect", ![c].why = "resend"]
     ELSE Return(c, "error")
  /\ UNCHANGED <<zabbix, cache, lock, warm>>

\* the connection is renewed but the error is raised as it came
FaultyOnLostAnswer(c) ==
  IF call[c].tries = 0 /\ ResendIsSafe(c)
  THEN call' = [call EXCEPT ![c].step = "waitReconnect", ![c].why = "resend"]
  ELSE Return(c, "error")

\* The two except clauses only guard the first attempt: what the second one raises
\* reaches the caller unchanged.
OnLostAnswer(c) ==
  IF call[c].tries = 0
  THEN call' = [call EXCEPT ![c].step = "waitReconnect",
                            ![c].why = IF ResendIsSafe(c) THEN "resend" ELSE "report"]
  ELSE Return(c, "error")

\* The connection breaks after the request went out.  Zabbix carried it out, will
\* still carry it out, or never got it.
AnswerLost(c) ==
  /\ At(c, "send")
  /\ OnLostAnswer(c)
  /\ \/ Effect(c) /\ UNCHANGED adrift
     \/ /\ call[c].kind = "write"
        /\ adrift' = adrift \cup {c}
        /\ UNCHANGED applied
     \/ UNCHANGED <<applied, adrift>>
  /\ UNCHANGED <<version, cache, lock, warm>>

-----------------------------------------------------------------------------
(* _reconnect *)

AcquireReconnect(c) ==
  /\ At(c, "waitReconnect")
  /\ lock = NoOne
  /\ lock' = c
  /\ clients' = [clients EXCEPT ![call[c].srv] = 0]
  /\ Goto(c, "reconnect")
  /\ UNCHANGED <<zabbix, versions, zones, warm>>

\* The new connection is cached with its version; the zone is asked for anew.
Reconnect(c) ==
  LET s == call[c].srv IN
  /\ At(c, "reconnect")
  /\ clients' = [clients EXCEPT ![s] = version[s]]
  /\ versions' = [versions EXCEPT ![s] = version[s]]
  /\ zones' = [zones EXCEPT ![s] = 0]
  /\ lock' = NoOne
  /\ call' = [call EXCEPT ![c] =
       CASE @.why = "resend" -> [@ EXCEPT !.step = "send", !.got = version[s], !.tries = 1]
         [] @.why = "report" -> [@ EXCEPT !.step = "done", !.result = "unknown"]
         [] @.why = "check"  -> [@ EXCEPT !.step = "done", !.result = "ok"]]
  /\ UNCHANGED <<zabbix, warm>>

\* one attempt too many
FaultyReconnectFails(c) ==
  /\ At(c, "reconnect")
  /\ lock' = NoOne
  /\ \/ /\ call[c].why = "check"
        /\ call[c].tries < CheckAttempts
        /\ call' = [call EXCEPT ![c].step = "waitReconnect", ![c].tries = @ + 1]
     \/ Return(c, IF call[c].why = "report" THEN "unknown" ELSE "error")
  /\ UNCHANGED <<zabbix, cache, warm>>

\* _connect raises: the block is left with no connection cached.  call() reports the
\* lost write all the same; check_connection tries again after a transient error.
ReconnectFails(c) ==
  /\ At(c, "reconnect")
  /\ lock' = NoOne
  /\ \/ /\ call[c].why = "check"
        /\ call[c].tries + 1 < CheckAttempts
        /\ call' = [call EXCEPT ![c].step = "waitReconnect", ![c].tries = @ + 1]
     \/ Return(c, IF call[c].why = "report" THEN "unknown" ELSE "error")
  /\ UNCHANGED <<zabbix, cache, warm>>

-----------------------------------------------------------------------------
(* get_version and get_zabbix_timezone: the caches are written without the lock *)

StoreVersion(c) ==
  /\ At(c, "storeVersion")
  /\ versions' = [versions EXCEPT ![call[c].srv] = call[c].got]
  /\ Return(c, "ok")
  /\ UNCHANGED <<zabbix, clients, zones, lock, warm>>

\* The answer is what the server says now, on whatever connection.
AskZone(c) ==
  /\ At(c, "askZone")
  /\ \/ GotoWith(c, "storeZone", version[call[c].srv])
     \/ Return(c, "ok")            \* connection error: "" for this call, not cached
  /\ UNCHANGED <<zabbix, cache, lock, warm>>

StoreZone(c) ==
  /\ At(c, "storeZone")
  /\ zones' = [zones EXCEPT ![call[c].srv] = call[c].got]
  /\ Return(c, "ok")
  /\ UNCHANGED <<zabbix, clients, versions, lock, warm>>

-----------------------------------------------------------------------------
(* warm_versions: connects outside the lock *)

\* A server whose version is known, or that cannot be reached, is passed over.
WarmSkip(s) ==
  /\ warm.got = 0 /\ s \in warm.todo
  /\ warm' = [warm EXCEPT !.todo = @ \ {s}]
  /\ UNCHANGED <<zabbix, cache, lock, call>>

WarmConnect(s) ==
  /\ warm.got = 0 /\ s \in warm.todo
  /\ versions[s] = 0
  /\ warm' = [todo |-> warm.todo \ {s}, srv |-> s, got |-> version[s]]
  /\ UNCHANGED <<zabbix, cache, lock, call>>

SetDefault(table, s, value) == [table EXCEPT ![s] = IF @ = 0 THEN value ELSE @]

WarmStore ==
  /\ warm.got # 0
  /\ lock = NoOne
  /\ clients' = SetDefault(clients, warm.srv, warm.got)
  /\ versions' = SetDefault(versions, warm.srv, warm.got)
  /\ warm' = [warm EXCEPT !.got = 0]
  /\ UNCHANGED <<zabbix, zones, lock, call>>

-----------------------------------------------------------------------------

Work(c) ==
  \/ Lookup(c) \/ AcquireGet(c) \/ Connect(c) \/ ConnectFails(c)
  \/ Answered(c) \/ Refused(c) \/ SessionRefused(c) \/ AnswerLost(c)
  \/ AcquireReconnect(c) \/ Reconnect(c) \/ ReconnectFails(c)
  \/ StoreVersion(c) \/ AskZone(c) \/ StoreZone(c)

Next ==
  \/ \E c \in Call, s \in Server : RateLimited(c, s) \/ \E k \in Kinds : Begin(c, k, s)
  \/ \E c \in Call : Work(c) \/ LateEffect(c)
  \/ \E s \in Server : Upgrade(s) \/ WarmSkip(s) \/ WarmConnect(s)
  \/ WarmStore

Spec == Init /\ [][Next]_vars

\* A running thread goes on, and every request ends: with its answer or at
\* request_timeout.  Nobody is obliged to begin an operation, to upgrade a server or
\* to carry a lost request out.
Fairness == \A c \in Call : WF_vars(Work(c))

FairSpec == Spec /\ Fairness

-----------------------------------------------------------------------------
(* Properties *)

IsWrite(c) == call[c].kind = "write"

\* README.md "A write is sent once": however sessions, connections and answers are
\* lost, Zabbix carries a write out at most once.
WriteAppliedAtMostOnce == \A c \in Call : applied[c] + (IF c \in adrift THEN 1 ELSE 0) <= 1

\* What call() says about a write is true: a result means it was carried out exactly
\* once, an error of the first attempt that it was not and never will be.
OutcomeHonest ==
  \A c \in Call : IsWrite(c) =>
    /\ call[c].result = "ok" => applied[c] = 1
    /\ call[c].result = "error" /\ call[c].tries = 0 => applied[c] = 0 /\ c \notin adrift

\* A connection in the cache is replaced by a reconnect only (ClientManager: concurrent
\* first calls must not "race on dict assignment and leak a connection").
ReplacedOnlyByReconnect ==
  [][\A s \in Server :
       clients[s] # 0 /\ clients'[s] # clients[s] =>
         clients'[s] = 0 /\ lock' \in Call /\ call[lock'].step = "waitReconnect"]_vars

\* No thread waits for ever: not for the lock, and not because another one failed while
\* holding it.
CallsEnd == \A c \in Call : call[c].step # "idle" ~> call[c].step = "done"

-----------------------------------------------------------------------------
(* What a comment or a document says and the code does not do *)

\* client.py:563 "A read is asked again; a write is NOT [...] The caller gets
\* UnknownOutcomeError and checks first" (README.md:1110 likewise): a write that may
\* have been carried out is never reported as a plain failure.
LostWriteIsReported ==
  \A c \in Call : IsWrite(c) /\ call[c].result = "error" =>
    applied[c] = 0 /\ c \notin adrift
=============================================================================
