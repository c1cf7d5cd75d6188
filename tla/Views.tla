------------------------------- MODULE Views -------------------------------
(***************************************************************************)
(* The extension tools (api/extensions.py) behind the checks of their       *)
(* handlers (server.py): answers put together from several Zabbix reads,    *)
(* each in a worker thread, while hosts and triggers are enabled and         *)
(* disabled and problems start and end between two reads.  problem_get with *)
(* monitored=true runs the same filter.  graph_render keeps one frontend    *)
(* session for all threads.                                                 *)
(*                                                                         *)
(* One item a host; every problem is of severity Warning or above.  A tool  *)
(* fetches a limited number of problems and tells a limited number of those *)
(* it keeps; which ones come first is left open, and the limits a caller    *)
(* may choose are the same in every call.  A wrong argument and an unknown  *)
(* host or group are calls that do not happen.                              *)
(***************************************************************************)
EXTENDS Naturals, Sequences, FiniteSets

CONSTANTS
  Host, Members,       \* Members: the hosts of the group asked about
  Measured,            \* hosts that have the item asked about
  Trigger, HostsOf,    \* HostsOf: trigger -> its hosts, in the order Zabbix names them
  Problem, TriggerOf,
  Fetched, Told,       \* tool -> how many problems it reads, and shows, at most
  Call, Renderer,      \* worker threads
  RightsChoice,        \* scopes of tokens, as tool prefixes
  MaxChanges, MaxLogins

ASSUME ViewsAssumption ==
  /\ Members \subseteq Host /\ Measured \subseteq Host
  /\ HostsOf \in [Trigger -> Seq(Host)] /\ TriggerOf \in [Problem -> Trigger]
  /\ MaxChanges \in Nat /\ MaxLogins \in Nat

VARIABLES
  on, active, changes,            \* Zabbix: what is enabled, the problems; how often it changed
  view,                           \* the calls in progress
  cookie, render,                 \* _GRAPH_SESSION_CACHE (0: empty), the renders in progress
  valid, logins, refused          \* the frontend's sessions; history: those it refused

zabbix == <<on, active, changes>>
graphs == <<cookie, render, valid, logins, refused>>
vars == <<zabbix, view, graphs>>

None == "none"
Idle == [stage |-> "idle"]

-----------------------------------------------------------------------------
(* The tools *)

\* the reads of each tool
Plan == [
  problem_get                |-> <<"problems", "triggers">>,
  problem_active_get         |-> <<"problems", "triggers">>,
  host_status_get            |-> <<"hosts", "problems", "triggers", "items">>,
  hostgroup_overview_get     |-> <<"group", "hosts", "problems", "triggers">>,
  infrastructure_summary_get |-> <<"host_count", "enabled_count", "item_count", "trigger_count",
                                   "template_count", "problems", "triggers", "top">>,
  anomaly_detect             |-> <<"hosts", "items", "trends">>,
  capacity_forecast          |-> <<"hosts", "items", "trends">>,
  item_threshold_search      |-> <<"items">>,
  item_history_summary_get   |-> <<"hosts", "items", "history">>]

Tool == DOMAIN Plan
Counts == {"host_count", "enabled_count", "item_count", "trigger_count", "template_count"}
\* tools that are asked about one host; the last of them may name an item instead
AboutAHost == {"host_status_get", "capacity_forecast", "item_history_summary_get"}
OfProblems == {t \in Tool : \E i \in DOMAIN Plan[t] : Plan[t][i] = "problems"}

ASSUME LimitsAssumption ==
  /\ Fetched \in [OfProblems -> Nat \ {0}]
  /\ Told \in [OfProblems -> Nat]

\* the scope a token needs for the same read made by a tool of its own
Prefix == [group |-> "hostgroup", hosts |-> "host", top |-> "host", host_count |-> "host",
           enabled_count |-> "host", items |-> "item", item_count |-> "item", trends |-> "trend",
           history |-> "history", problems |-> "problem", triggers |-> "trigger",
           trigger_count |-> "trigger", template_count |-> "template"]

\* the first read only
FaultyChecked(t) == {Prefix[Head(Plan[t])]}

\* what the handlers ask of the token
Checked(t) ==
  CASE t \in {"problem_get", "problem_active_get"} -> {"problem"}
    [] t = "host_status_get" -> {"host", "hostinterface", "problem", "trigger", "item"}
    [] t = "hostgroup_overview_get" -> {"hostgroup", "host", "problem", "trigger"}
    [] t = "infrastructure_summary_get" ->
         {"host", "hostgroup", "item", "trigger", "template", "problem"}
    [] t \in {"anomaly_detect", "capacity_forecast"} -> {"host", "item", "trend"}
    [] t = "item_threshold_search" -> {"item"}
    [] t = "item_history_summary_get" -> {"item", "history", "host"}

HostSet(t) == {HostsOf[t][i] : i \in DOMAIN HostsOf[t]}
On(hosts) == {p \in Problem : HostSet(TriggerOf[p]) \cap hosts # {}}

\* a problem an operator should act upon: its trigger is enabled, and a host of it
Watched == {p \in Problem : TriggerOf[p] \in on /\ HostSet(TriggerOf[p]) \cap on # {}}

\* the host named for a trigger: the first that is enabled
FirstEnabled(t) ==
  LET H == HostsOf[t] IN
  {H[i] : i \in {i \in DOMAIN H : H[i] \in on /\ \A j \in 1 .. i - 1 : H[j] \notin on}}

\* problems whose trigger is enabled, on whatever host
FaultyKept(problems) == {p \in problems : TriggerOf[p] \in on}

\* _filter_active_problems
Kept(problems) ==
  {p \in problems : TriggerOf[p] \in on /\ FirstEnabled(TriggerOf[p]) # {}}

-----------------------------------------------------------------------------

Init ==
  /\ on = Host \cup Trigger /\ active \in SUBSET Problem /\ changes = 0
  /\ view = [c \in Call |-> Idle]
  /\ cookie = 0 /\ valid = {} /\ logins = 0 /\ refused = {}
  /\ render = [r \in Renderer |-> Idle]

(* A call *)

\* The handler's check, then a thread.  part: the name given is only a part of the host's.
\* Kept in history: what was active, watched, or both all along, since the call began.
Start(c, t, rights, host, part) ==
  /\ view[c] = Idle
  /\ Checked(t) \subseteq rights
  /\ host \in Host => t \in AboutAHost
  /\ host = None => t \notin AboutAHost \ {"item_history_summary_get"}
  /\ part => t = "host_status_get"
  /\ view' = [view EXCEPT ![c] =
       [stage |-> "open", tool |-> t, rights |-> rights, host |-> host, part |-> part,
        left |-> IF host = None /\ t \in AboutAHost THEN Tail(Plan[t]) ELSE Plan[t],
        hosts |-> {}, items |-> {}, data |-> {}, found |-> {},
        shown |-> {}, named |-> {},
        wasActive  |-> IF t \in OfProblems THEN active ELSE {},
        wasWatched |-> IF t \in OfProblems THEN Watched ELSE {},
        always     |-> IF t \in OfProblems THEN active \cap Watched ELSE {}]]
  /\ UNCHANGED <<zabbix, graphs>>

At(c, read) == view[c].stage = "open" /\ view[c].left # <<>> /\ Head(view[c].left) = read

\* v, with the answer to its next read taken in
Take(c, v) ==
  /\ view' = [view EXCEPT ![c] = [v EXCEPT !.left = Tail(@)]]
  /\ UNCHANGED <<zabbix, graphs>>

\* an error answer
Fail(c) ==
  /\ view' = [view EXCEPT ![c] = Idle]
  /\ UNCHANGED <<zabbix, graphs>>

ReadGroup(c) == At(c, "group") /\ Take(c, view[c])

\* host_status_get: no host of that name, so those whose name contains it
SearchHost(c) ==
  /\ At(c, "hosts") /\ view[c].part
  /\ view' = [view EXCEPT ![c].part = FALSE]
  /\ UNCHANGED <<zabbix, graphs>>

ReadHosts(c) ==
  LET t == view[c].tool
      hosts == CASE t = "hostgroup_overview_get" -> Members
                 [] t = "anomaly_detect" -> Members \cap on
                 [] OTHER -> {view[c].host} IN
  /\ At(c, "hosts") /\ ~view[c].part
  /\ hosts = {} => t = "hostgroup_overview_get"
  /\ Take(c, [view[c] EXCEPT !.hosts = hosts])

ReadItems(c) ==
  LET t == view[c].tool
      items == (IF view[c].hosts = {} THEN Host ELSE view[c].hosts) \cap Measured IN
  /\ At(c, "items")
  /\ items = {} => t \in {"host_status_get", "item_threshold_search"}
  /\ Take(c, [view[c] EXCEPT !.items = items])

\* the host is asked again
FaultyReadTrend(c, h) ==
  /\ At(c, "trends") /\ h \in view[c].items
  /\ view' = [view EXCEPT ![c].data = @ \cup {h}]
  /\ UNCHANGED <<zabbix, graphs>>

\* one host after the other
ReadTrend(c, h) ==
  /\ At(c, "trends") /\ h \in view[c].items
  /\ \E data \in {view[c].data, view[c].data \cup {h}} :
       view' = [view EXCEPT ![c].items = @ \ {h}, ![c].data = data]
  /\ UNCHANGED <<zabbix, graphs>>

\* two hosts to compare, or values to draw a line through
EndTrends(c) ==
  /\ At(c, "trends") /\ view[c].items = {}
  /\ Cardinality(view[c].data) >= IF view[c].tool = "anomaly_detect" THEN 2 ELSE 1
  /\ Take(c, view[c])

ReadHistory(c) == At(c, "history") /\ Take(c, view[c])

\* what a read of at most n of the problems returns, or a list of them cut off after n
Page(problems, n) ==
  IF Cardinality(problems) <= n THEN {problems}
  ELSE {part \in SUBSET problems : Cardinality(part) = n}

\* the problems there are for the tool to read
Asked(v) ==
  IF v.tool \in {"host_status_get", "hostgroup_overview_get"}
  THEN active \cap On(v.hosts) ELSE active

ReadProblems(c) ==
  /\ At(c, "problems")
  /\ \E found \in Page(Asked(view[c]), Fetched[view[c].tool]) :
       Take(c, [view[c] EXCEPT !.found = found])

\* nothing is read where there is nothing to ask about
Needless(v) ==
  \/ Head(v.left) = "triggers" /\ v.found = {}
  \/ Head(v.left) = "top" /\ v.named = {}

\* The filter, and as many of what it keeps as the tool tells.
ReadTriggers(c) ==
  /\ At(c, "triggers")
  /\ \E shown \in Page(Kept(view[c].found), Told[view[c].tool]) :
       Take(c, [view[c] EXCEPT !.shown = shown,
                               !.named = UNION {FirstEnabled(TriggerOf[p]) : p \in shown}])

\* infrastructure_summary_get: a count that fails is 0
Count(c) == \E read \in Counts : At(c, read) /\ Take(c, view[c])

\* the names of the hosts with most problems
ReadTop(c) == At(c, "top") /\ Take(c, view[c])

\* A read fails or finds too little: no answer at all.
ReadFails(c) ==
  /\ view[c].stage = "open" /\ view[c].left # <<>> /\ Head(view[c].left) \notin Counts
  /\ ~Needless(view[c])
  /\ Fail(c)

Answer(c) ==
  /\ view[c].stage = "open" /\ view[c].left = <<>>
  /\ view' = [view EXCEPT ![c].stage = "answered"]
  /\ UNCHANGED <<zabbix, graphs>>

Return(c) ==
  /\ view[c].stage = "answered"
  /\ view' = [view EXCEPT ![c] = Idle]
  /\ UNCHANGED <<zabbix, graphs>>

-----------------------------------------------------------------------------
(* Zabbix *)

Toggle(S, x) == (S \ {x}) \cup ({x} \ S)

Witness ==
  view' = [c \in Call |->
    IF view[c].stage # "open" \/ view[c].tool \notin OfProblems THEN view[c]
    ELSE [view[c] EXCEPT !.wasActive = @ \cup active', !.wasWatched = @ \cup Watched',
                         !.always = @ \cap (active \cap Watched)']]

Change ==
  /\ changes < MaxChanges /\ changes' = changes + 1
  /\ \/ \E x \in Host \cup Trigger : on' = Toggle(on, x) /\ active' = active
     \/ \E p \in Problem : active' = Toggle(active, p) /\ on' = on
  /\ Witness
  /\ UNCHANGED graphs

-----------------------------------------------------------------------------
(* graph_render *)

Move(r, stage, n) == render' = [render EXCEPT ![r] = [stage |-> stage, cookie |-> n]]

\* the session that is kept, or else a login
StartRender(r) ==
  /\ render[r] = Idle
  /\ Move(r, IF cookie = 0 THEN "login" ELSE "fetch", cookie)
  /\ UNCHANGED <<zabbix, view, cookie, valid, logins, refused>>

\* index.php; a failed login fetches without a cookie
Login(r) ==
  /\ render[r].stage = "login"
  /\ \/ /\ logins < MaxLogins /\ logins' = logins + 1
        /\ valid' = valid \cup {logins'}
        /\ Move(r, "store", logins')
     \/ Move(r, "fetch", 0) /\ UNCHANGED <<valid, logins>>
  /\ UNCHANGED <<zabbix, view, cookie, refused>>

Store(r) ==
  /\ render[r].stage = "store"
  /\ cookie' = render[r].cookie
  /\ Move(r, "fetch", cookie')
  /\ UNCHANGED <<zabbix, view, valid, logins, refused>>

\* chart2.php: an image, or an error that says nothing of the session
Fetch(r) ==
  /\ render[r].stage = "fetch"
  /\ render' = [render EXCEPT ![r] = Idle]
  /\ UNCHANGED <<zabbix, view, cookie, valid, logins, refused>>

\* a login page is an error like any other
FaultyRefusedFetch(r) ==
  /\ render[r].stage = "fetch"
  /\ refused' = refused \cup ({render[r].cookie} \ valid)
  /\ render' = [render EXCEPT ![r] = Idle]
  /\ UNCHANGED <<zabbix, view, cookie, valid, logins>>

\* ... or no image: the login page, 401, 403, or another page though the session is good
RefusedFetch(r) ==
  /\ render[r].stage = "fetch"
  /\ refused' = refused \cup ({render[r].cookie} \ valid)
  /\ Move(r, "drop", render[r].cookie)
  /\ UNCHANGED <<zabbix, view, cookie, valid, logins>>

Drop(r) ==
  /\ render[r].stage = "drop"
  /\ cookie' = 0
  /\ render' = [render EXCEPT ![r] = Idle]
  /\ UNCHANGED <<zabbix, view, valid, logins, refused>>

\* a timeout or a new password on the Zabbix side
EndSession(n) ==
  /\ n \in valid
  /\ valid' = valid \ {n}
  /\ UNCHANGED <<zabbix, view, cookie, render, logins, refused>>

-----------------------------------------------------------------------------

CallStep(c) ==
  \/ \E t \in Tool, rights \in RightsChoice, host \in Host \cup {None}, part \in BOOLEAN :
       Start(c, t, rights, host, part)
  \/ ReadGroup(c) \/ SearchHost(c) \/ ReadHosts(c) \/ ReadItems(c) \/ ReadHistory(c)
  \/ \E h \in Host : ReadTrend(c, h)
  \/ EndTrends(c) \/ ReadProblems(c) \/ ReadTriggers(c) \/ Count(c) \/ ReadTop(c)
  \/ ReadFails(c) \/ Answer(c) \/ Return(c)

RenderStep(r) ==
  StartRender(r) \/ Login(r) \/ Store(r) \/ Fetch(r) \/ RefusedFetch(r) \/ Drop(r)

Next ==
  \/ \E c \in Call : CallStep(c)
  \/ \E r \in Renderer : RenderStep(r)
  \/ Change
  \/ \E n \in 1..MaxLogins : EndSession(n)

Spec == Init /\ [][Next]_vars

-----------------------------------------------------------------------------
(* Properties *)

TypeOK ==
  /\ on \subseteq Host \cup Trigger /\ active \subseteq Problem /\ changes \in 0..MaxChanges
  /\ cookie \in 0..logins /\ logins \in 0..MaxLogins /\ valid \subseteq 1..logins
  /\ refused \subseteq 0..logins /\ refused \cap valid = {}
  /\ \A c \in Call : view[c].stage \in {"idle", "open", "answered"}
  /\ \A r \in Renderer : render[r].stage \in {"idle", "login", "store", "fetch", "drop"}
  /\ \A c \in Call : view[c] # Idle =>
       /\ view[c].shown \subseteq view[c].found /\ view[c].named \subseteq Host
       /\ view[c].data \cap view[c].items = {}

Answered(c) == view[c].stage = "answered"

\* what the call was about
InScope(v) ==
  IF v.tool = "host_status_get" THEN On({v.host})
  ELSE IF v.tool = "hostgroup_overview_get" THEN On(Members) ELSE Problem

\* neither the read nor the answer of the call was full
Unlimited(v) ==
  Cardinality(v.found) < Fetched[v.tool] /\ Cardinality(v.shown) < Told[v.tool]

\* An answer leaves out no problem that was there, on an enabled trigger of an enabled
\* host, all the time the call took: a read that fails is never told as "no problem".  Only
\* one whose read, or whose list, came back full may lack some (host_status_get shows 25 of
\* 50 it reads, and does not say that there are more).  And a problem that is shown was
\* there, and its trigger and a host of it were enabled, if not at one moment then each at
\* some moment of the call (problem_active_get: only problems where both the trigger and
\* the host are enabled).
AnswerIsCurrent ==
  \A c \in Call : Answered(c) /\ view[c].tool \in OfProblems =>
    /\ Unlimited(view[c]) => view[c].always \cap InScope(view[c]) \subseteq view[c].shown
    /\ view[c].shown \subseteq view[c].wasActive \cap view[c].wasWatched

\* server.py: scope is required "for every Zabbix endpoint we internally call so a
\* narrow-scoped token can't read problems / items here that it could not pull" with the
\* tool of that endpoint - which the two tools that only list problems do not ask.
ReadsWithinRights ==
  \A c \in Call : view[c].stage = "open" /\ view[c].left # <<>>
                  /\ view[c].tool \notin {"problem_get", "problem_active_get"} =>
    Prefix[Head(view[c].left)] \in view[c].rights

\* hostgroup_overview_get promises the "most-problematic hosts within the group": the
\* first enabled host of a trigger may be one of another group.
TopHostsOfTheGroup ==
  \A c \in Call : Answered(c) /\ view[c].tool = "hostgroup_overview_get" =>
    view[c].named \subseteq Members

\* A session the frontend refused is not kept beyond the render that learnt it, whatever
\* other threads logged in, stored and dropped meanwhile.
RefusedIsForgotten ==
  cookie \in refused \ {0} => \E r \in Renderer : render[r] = [stage |-> "drop", cookie |-> cookie]
=============================================================================
