---------------------------- MODULE ViewsProofs ----------------------------
(* Theorems about Views, for every set of hosts, triggers and problems, every number of
   calls and renders, and every rights a token may have. *)
EXTENDS Views, WellFoundedInduction, TLAPS

-----------------------------------------------------------------------------
(* graph_render: the inductive invariant *)

Fetching == [stage : {"login", "store", "fetch", "drop"}, cookie : Nat]

\* What a render holds at "store" is new: nobody else holds it, nothing was refused under it.
New(r) ==
  LET n == render[r].cookie IN
  render[r].stage = "store" =>
    /\ n # 0 /\ n \notin refused /\ n # cookie
    /\ \A q \in Renderer : q # r /\ render[q] # Idle => render[q].cookie # n

GInv ==
  /\ logins \in 0..MaxLogins /\ cookie \in 0..logins /\ valid \subseteq 1..logins
  /\ refused \subseteq 0..logins /\ refused \cap valid = {}
  /\ render \in [Renderer -> {Idle} \cup Fetching]
  /\ \A r \in Renderer : render[r] # Idle => render[r].cookie \in 0..logins
  /\ \A r \in Renderer : New(r)
  /\ RefusedIsForgotten

LEMMA InitGInv == ASSUME Init, MaxLogins \in Nat PROVE GInv
BY DEF Init, GInv, New, RefusedIsForgotten, Idle

LEMMA StayGInv == ASSUME GInv, UNCHANGED graphs PROVE GInv'
BY DEF graphs, GInv, New, RefusedIsForgotten

LEMMA Moved ==
  ASSUME GInv, NEW r \in Renderer, NEW f \in {Idle} \cup Fetching,
         render' = [render EXCEPT ![r] = f]
  PROVE  /\ render' \in [Renderer -> {Idle} \cup Fetching]
         /\ \A q \in Renderer : render'[q] = IF q = r THEN f ELSE render[q]
BY DEF GInv

LEMMA StageOf ==
  ASSUME GInv, NEW r \in Renderer, render[r].stage \in {"login", "store", "fetch", "drop"}
  PROVE  render[r] \in Fetching /\ render[r] # Idle
BY DEF GInv, Idle

LEMMA StartRenderStep == ASSUME GInv, NEW r \in Renderer, StartRender(r) PROVE GInv'
<1> DEFINE f == [stage |-> IF cookie = 0 THEN "login" ELSE "fetch", cookie |-> cookie]
<1>1. /\ f \in Fetching /\ f.cookie = cookie /\ f.stage \in {"login", "fetch"} /\ f # Idle
  BY DEF GInv, Fetching, Idle
<1>2. render' = [render EXCEPT ![r] = f] /\ render[r] = Idle
      /\ UNCHANGED <<cookie, valid, logins, refused>>
  BY DEF StartRender, Move
<1> HIDE DEF f
<1>3. /\ render' \in [Renderer -> {Idle} \cup Fetching]
      /\ \A q \in Renderer : render'[q] = IF q = r THEN f ELSE render[q]
  BY <1>1, <1>2, Moved
<1>4. \A q \in Renderer : New(q)'
  BY <1>1, <1>2, <1>3 DEF GInv, New
<1>5. RefusedIsForgotten'
  BY <1>2, <1>3 DEF GInv, RefusedIsForgotten, Idle
<1> QED BY <1>1, <1>2, <1>3, <1>4, <1>5 DEF GInv

\* A session that is new was neither given nor refused before.
LEMMA LoginStep == ASSUME GInv, NEW r \in Renderer, Login(r), MaxLogins \in Nat PROVE GInv'
<1>1. render[r].stage = "login" /\ UNCHANGED <<cookie, refused>>
  BY DEF Login
<1>2. CASE logins < MaxLogins /\ logins' = logins + 1 /\ valid' = valid \cup {logins'}
           /\ Move(r, "store", logins')
  <2> DEFINE f == [stage |-> "store", cookie |-> logins']
  <2>1. f \in Fetching /\ f.cookie = logins + 1 /\ f.stage = "store" /\ f # Idle
    <3>1. logins + 1 \in Nat /\ logins' = logins + 1
      BY <1>2 DEF GInv
    <3> QED BY <3>1 DEF Fetching, Idle
  <2>2. render' = [render EXCEPT ![r] = f]
    BY <1>2 DEF Move
  <2> HIDE DEF f
  <2>3. /\ render' \in [Renderer -> {Idle} \cup Fetching]
        /\ \A q \in Renderer : render'[q] = IF q = r THEN f ELSE render[q]
    BY <2>1, <2>2, Moved
  <2>4. logins + 1 \notin refused /\ logins + 1 # cookie /\ logins + 1 # 0
        /\ \A q \in Renderer : render[q] # Idle => render[q].cookie # logins + 1
    BY DEF GInv
  <2>5. \A q \in Renderer : New(q)'
    <3> SUFFICES ASSUME NEW q \in Renderer PROVE New(q)'
      OBVIOUS
    <3>1. CASE q = r
      BY <1>1, <2>1, <2>3, <2>4, <3>1 DEF New
    <3>2. CASE q # r
      <4>1. render'[q] = render[q] /\ (render[q].stage = "store" => render[q].cookie # logins + 1)
        BY <2>3, <2>4, <3>2, StageOf
      <4> QED BY <1>1, <2>1, <2>3, <3>2, <4>1 DEF GInv, New
    <3> QED BY <3>1, <3>2
  <2>6. RefusedIsForgotten'
    BY <1>1, <2>3 DEF GInv, RefusedIsForgotten
  <2>7. /\ logins' \in 0..MaxLogins /\ cookie' \in 0..logins' /\ valid' \subseteq 1..logins'
        /\ refused' \subseteq 0..logins' /\ refused' \cap valid' = {}
        /\ \A q \in Renderer : render'[q] # Idle => render'[q].cookie \in 0..logins'
    BY <1>1, <1>2, <2>1, <2>3, <2>4 DEF GInv
  <2> QED BY <2>3, <2>5, <2>6, <2>7 DEF GInv
<1>3. CASE Move(r, "fetch", 0) /\ UNCHANGED <<valid, logins>>
  <2> DEFINE f == [stage |-> "fetch", cookie |-> 0]
  <2>1. f \in Fetching /\ f.cookie = 0 /\ f.stage = "fetch" /\ f # Idle
    BY DEF Fetching, Idle
  <2>2. render' = [render EXCEPT ![r] = f]
    BY <1>3 DEF Move
  <2> HIDE DEF f
  <2>3. /\ render' \in [Renderer -> {Idle} \cup Fetching]
        /\ \A q \in Renderer : render'[q] = IF q = r THEN f ELSE render[q]
    BY <2>1, <2>2, Moved
  <2>4. \A q \in Renderer : New(q)'
    BY <1>1, <1>3, <2>1, <2>3 DEF GInv, New
  <2>5. RefusedIsForgotten'
    BY <1>1, <2>3 DEF GInv, RefusedIsForgotten
  <2> QED BY <1>1, <1>3, <2>1, <2>3, <2>4, <2>5 DEF GInv
<1> QED BY <1>2, <1>3 DEF Login

LEMMA StoreStep == ASSUME GInv, NEW r \in Renderer, Store(r) PROVE GInv'
<1> DEFINE f == [stage |-> "fetch", cookie |-> render[r].cookie]
<1>1. /\ render[r].stage = "store" /\ cookie' = render[r].cookie
      /\ render' = [render EXCEPT ![r] = f] /\ UNCHANGED <<valid, logins, refused>>
  BY DEF Store, Move
<1>2. render[r] \in Fetching /\ render[r] # Idle
  BY <1>1, StageOf
<1>3. f \in Fetching /\ f.cookie = render[r].cookie /\ f.stage = "fetch" /\ f # Idle
  BY <1>2 DEF Fetching, Idle
<1> HIDE DEF f
<1>4. /\ render' \in [Renderer -> {Idle} \cup Fetching]
      /\ \A q \in Renderer : render'[q] = IF q = r THEN f ELSE render[q]
  BY <1>1, <1>3, Moved
<1>5. \A q \in Renderer : New(q)'
  <2> SUFFICES ASSUME NEW q \in Renderer PROVE New(q)'
    OBVIOUS
  <2>1. CASE q = r
    BY <1>3, <1>4, <2>1 DEF New
  <2>2. CASE q # r
    BY <1>1, <1>2, <1>3, <1>4, <2>2 DEF GInv, New
  <2> QED BY <2>1, <2>2
<1>6. RefusedIsForgotten'
  BY <1>1 DEF GInv, New, RefusedIsForgotten
<1> QED BY <1>1, <1>2, <1>3, <1>4, <1>5, <1>6 DEF GInv

LEMMA FetchStep == ASSUME GInv, NEW r \in Renderer, Fetch(r) PROVE GInv'
<1>1. render' = [render EXCEPT ![r] = Idle] /\ render[r].stage = "fetch"
      /\ UNCHANGED <<cookie, valid, logins, refused>>
  BY DEF Fetch
<1>2. /\ render' \in [Renderer -> {Idle} \cup Fetching]
      /\ \A q \in Renderer : render'[q] = IF q = r THEN Idle ELSE render[q]
  BY <1>1, Moved
<1>3. \A q \in Renderer : New(q)'
  BY <1>1, <1>2 DEF GInv, New, Idle
<1>4. RefusedIsForgotten'
  BY <1>1, <1>2 DEF GInv, RefusedIsForgotten
<1> QED BY <1>1, <1>2, <1>3, <1>4 DEF GInv

LEMMA RefusedStep == ASSUME GInv, NEW r \in Renderer, RefusedFetch(r) PROVE GInv'
<1> DEFINE f == [stage |-> "drop", cookie |-> render[r].cookie]
<1>1. /\ render[r].stage = "fetch" /\ refused' = refused \cup ({render[r].cookie} \ valid)
      /\ render' = [render EXCEPT ![r] = f] /\ UNCHANGED <<cookie, valid, logins>>
  BY DEF RefusedFetch, Move
<1>2. render[r] \in Fetching /\ render[r] # Idle
  BY <1>1, StageOf
<1>3. f \in Fetching /\ f.cookie = render[r].cookie /\ f.stage = "drop" /\ f # Idle
  BY <1>2 DEF Fetching, Idle
<1>4. /\ render' \in [Renderer -> {Idle} \cup Fetching]
      /\ \A q \in Renderer : render'[q] = IF q = r THEN f ELSE render[q]
  BY <1>1, <1>3, Moved
<1>5. \A q \in Renderer : New(q)'
  <2> HIDE DEF f
  <2> SUFFICES ASSUME NEW q \in Renderer PROVE New(q)'
    OBVIOUS
  <2>1. CASE q = r
    BY <1>3, <1>4, <2>1 DEF New
  <2>2. CASE q # r
    BY <1>1, <1>2, <1>3, <1>4, <2>2 DEF GInv, New
  <2> QED BY <2>1, <2>2
<1>6. RefusedIsForgotten'
  <2> SUFFICES ASSUME cookie \in refused' \ {0}
               PROVE  \E q \in Renderer : render'[q] = [stage |-> "drop", cookie |-> cookie]
    BY <1>1 DEF RefusedIsForgotten
  <2>1. CASE cookie = render[r].cookie
    BY <1>4, <2>1
  <2>2. CASE cookie # render[r].cookie
    <3>1. PICK q \in Renderer : render[q] = [stage |-> "drop", cookie |-> cookie]
      BY <1>1, <2>2 DEF GInv, RefusedIsForgotten
    <3>2. q # r
      BY <1>1, <3>1
    <3> QED BY <1>4, <3>1, <3>2
  <2> QED BY <2>1, <2>2
<1> QED BY <1>1, <1>2, <1>3, <1>4, <1>5, <1>6 DEF GInv

LEMMA DropStep == ASSUME GInv, NEW r \in Renderer, Drop(r) PROVE GInv'
<1>1. render' = [render EXCEPT ![r] = Idle] /\ cookie' = 0
      /\ UNCHANGED <<valid, logins, refused>>
  BY DEF Drop
<1>2. /\ render' \in [Renderer -> {Idle} \cup Fetching]
      /\ \A q \in Renderer : render'[q] = IF q = r THEN Idle ELSE render[q]
  BY <1>1, Moved
<1>3. \A q \in Renderer : New(q)'
  BY <1>1, <1>2 DEF GInv, New, Idle
<1>4. RefusedIsForgotten'
  BY <1>1 DEF RefusedIsForgotten
<1> QED BY <1>1, <1>2, <1>3, <1>4 DEF GInv

LEMMA EndSessionStep == ASSUME GInv, NEW n, EndSession(n) PROVE GInv'
<1>1. valid' = valid \ {n} /\ UNCHANGED <<cookie, render, logins, refused>>
  BY DEF EndSession
<1>2. (\A q \in Renderer : New(q))' /\ RefusedIsForgotten'
  BY <1>1 DEF GInv, New, RefusedIsForgotten
<1> QED BY <1>1, <1>2 DEF GInv

-----------------------------------------------------------------------------
(* The plans: which read comes after which *)

ReadName == DOMAIN Prefix
In(x, seq) == \E i \in DOMAIN seq : seq[i] = x
After(seq, x, y) == \A i, j \in DOMAIN seq : seq[i] = x /\ seq[j] = y => i < j

\* No read comes twice; hosts come before problems, problems before triggers, items before
\* trends.
Ordered(seq) ==
  /\ \A i, j \in DOMAIN seq : seq[i] = seq[j] => i = j
  /\ After(seq, "hosts", "problems") /\ After(seq, "problems", "triggers")
  /\ After(seq, "items", "trends")

LEMMA TailFacts ==
  ASSUME NEW S, NEW seq \in Seq(S), seq # <<>>
  PROVE  /\ Tail(seq) \in Seq(S) /\ Head(seq) = seq[1] /\ 1 \in DOMAIN seq
         /\ \A i \in DOMAIN Tail(seq) : i \in Nat /\ i + 1 \in DOMAIN seq /\ Tail(seq)[i] = seq[i + 1]
         /\ \A i \in DOMAIN seq : i \in Nat \ {0} /\ (i # 1 => i - 1 \in DOMAIN Tail(seq))
OBVIOUS

LEMMA OrderedTail ==
  ASSUME NEW S, NEW seq \in Seq(S), seq # <<>>, Ordered(seq)
  PROVE  Ordered(Tail(seq))
<1> DEFINE rest == Tail(seq)
<1>1. \A i \in DOMAIN rest : i \in Nat /\ i + 1 \in DOMAIN seq /\ rest[i] = seq[i + 1]
  BY TailFacts
<1> HIDE DEF rest
<1>2. \A i, j \in DOMAIN rest : rest[i] = rest[j] => i = j
  BY <1>1 DEF Ordered
<1>3. \A x, y : After(seq, x, y) => After(rest, x, y)
  BY <1>1 DEF After
<1>4. Ordered(rest)
  BY <1>2, <1>3 DEF Ordered
<1> QED BY <1>4 DEF rest

LEMMA InTail ==
  ASSUME NEW S, NEW seq \in Seq(S), seq # <<>>, Ordered(seq)
  PROVE  /\ ~In(Head(seq), Tail(seq))
         /\ \A x : In(x, seq) <=> x = Head(seq) \/ In(x, Tail(seq))
<1> DEFINE rest == Tail(seq)
<1>1. /\ Head(seq) = seq[1] /\ 1 \in DOMAIN seq
      /\ \A i \in DOMAIN rest : i \in Nat /\ i + 1 \in DOMAIN seq /\ rest[i] = seq[i + 1]
      /\ \A i \in DOMAIN seq : i \in Nat \ {0} /\ (i # 1 => i - 1 \in DOMAIN rest)
  BY TailFacts
<1>2. DOMAIN rest \subseteq Nat \ {0}
  OBVIOUS
<1> HIDE DEF rest
<1>3. ~In(Head(seq), rest)
  <2>1. \A i \in DOMAIN rest : i + 1 # 1
    BY <1>2
  <2> QED BY <1>1, <2>1 DEF In, Ordered
<1>4. ASSUME NEW x PROVE In(x, seq) <=> x = Head(seq) \/ In(x, rest)
  <2>1. In(x, rest) \/ x = Head(seq) => In(x, seq)
    BY <1>1 DEF In
  <2>2. ASSUME NEW i \in DOMAIN seq, seq[i] = x, i # 1 PROVE In(x, rest)
    <3>1. i - 1 \in DOMAIN rest /\ rest[i - 1] = seq[(i - 1) + 1] /\ (i - 1) + 1 = i
      BY <1>1, <2>2
    <3> QED BY <2>2, <3>1 DEF In
  <2> QED BY <1>1, <2>1, <2>2 DEF In
<1> QED BY <1>3, <1>4 DEF rest

\* What is at the head has nothing before it.
LEMMA HeadFirst ==
  ASSUME NEW S, NEW seq \in Seq(S), seq # <<>>, NEW x, After(seq, x, Head(seq))
  PROVE  ~In(x, seq)
<1>1. Head(seq) = seq[1] /\ 1 \in DOMAIN seq /\ \A i \in DOMAIN seq : i \in Nat \ {0}
  BY TailFacts
<1> QED BY <1>1 DEF After, In

LEMMA PlanOf ==
  /\ Plan["problem_get"] = <<"problems", "triggers">>
  /\ Plan["problem_active_get"] = <<"problems", "triggers">>
  /\ Plan["host_status_get"] = <<"hosts", "problems", "triggers", "items">>
  /\ Plan["hostgroup_overview_get"] = <<"group", "hosts", "problems", "triggers">>
  /\ Plan["infrastructure_summary_get"] =
       <<"host_count", "enabled_count", "item_count", "trigger_count",
         "template_count", "problems", "triggers", "top">>
  /\ Plan["anomaly_detect"] = <<"hosts", "items", "trends">>
  /\ Plan["capacity_forecast"] = <<"hosts", "items", "trends">>
  /\ Plan["item_threshold_search"] = <<"items">>
  /\ Plan["item_history_summary_get"] = <<"hosts", "items", "history">>
  /\ Tool = {"problem_get", "problem_active_get", "host_status_get", "hostgroup_overview_get",
             "infrastructure_summary_get", "anomaly_detect", "capacity_forecast",
             "item_threshold_search", "item_history_summary_get"}
BY DEF Plan, Tool

ListsProblems == {"problem_get", "problem_active_get"}
OfHosts == {"host_status_get", "hostgroup_overview_get"}

\* What the proofs need of a plan.
Fits(t) ==
  /\ Plan[t] \in Seq(ReadName) /\ Plan[t] # <<>> /\ Ordered(Plan[t])
  /\ In("problems", Plan[t]) <=> In("triggers", Plan[t])
  /\ t \in OfHosts => In("hosts", Plan[t]) /\ In("problems", Plan[t])
  /\ t \in AboutAHost => Head(Plan[t]) = "hosts"
  /\ In("hosts", Plan[t]) => t \in AboutAHost \cup {"hostgroup_overview_get", "anomaly_detect"}
  /\ In("problems", Plan[t]) => t \notin AboutAHost \ {"host_status_get"}
  /\ t \notin ListsProblems => \A i \in DOMAIN Plan[t] : Prefix[Plan[t][i]] \in Checked(t)

LEMMA ReadNames ==
  ReadName = {"group", "hosts", "top", "host_count", "enabled_count", "items", "item_count",
              "trends", "history", "problems", "triggers", "trigger_count", "template_count"}
BY DEF ReadName, Prefix

LEMMA PlansFit == \A t \in Tool : Fits(t)
<1> USE DEF Fits, Ordered, After, In, AboutAHost, OfHosts, ListsProblems
<1>1. Fits("problem_get") /\ Fits("problem_active_get")
  BY PlanOf, ReadNames
<1>2. Fits("host_status_get")
  BY PlanOf, ReadNames DEF Checked, Prefix
<1>3. Fits("hostgroup_overview_get")
  BY PlanOf, ReadNames DEF Checked, Prefix
<1>4. Fits("infrastructure_summary_get")
  BY PlanOf, ReadNames DEF Checked, Prefix
<1>5. Fits("anomaly_detect") /\ Fits("capacity_forecast")
  BY PlanOf, ReadNames DEF Checked, Prefix
<1>6. Fits("item_threshold_search") /\ Fits("item_history_summary_get")
  BY PlanOf, ReadNames DEF Checked, Prefix
<1> HIDE DEF Fits
<1> QED BY <1>1, <1>2, <1>3, <1>4, <1>5, <1>6, PlanOf

-----------------------------------------------------------------------------
(* _filter_active_problems: the first enabled host of a trigger is there if any is *)

LEMMA FirstEnabledThere ==
  ASSUME NEW t \in Trigger
  PROVE  /\ FirstEnabled(t) \subseteq HostSet(t) \cap on
         /\ FirstEnabled(t) = {} <=> HostSet(t) \cap on = {}
<1> DEFINE H == HostsOf[t]
           N == {i \in DOMAIN H : H[i] \in on}
<1>1. H \in Seq(Host)
  BY ViewsAssumption DEF ViewsAssumption
<1>2. FirstEnabled(t) \subseteq HostSet(t) \cap on
  BY DEF FirstEnabled, HostSet
<1>3. ASSUME HostSet(t) \cap on # {} PROVE FirstEnabled(t) # {}
  <2>1. N # {} /\ N \subseteq Nat
    BY <1>1, <1>3 DEF HostSet
  <2>2. PICK i \in N : \A j \in N : ~(<<j, i>> \in OpToRel(<, Nat))
    BY <2>1, NatLessThanWellFounded, WFMin
  <2>3. \A j \in N : ~(j < i)
    BY <2>1, <2>2 DEF OpToRel
  <2>4. \A j \in 1 .. i - 1 : H[j] \notin on
    <3> SUFFICES ASSUME NEW j \in 1 .. i - 1, H[j] \in on PROVE FALSE
      OBVIOUS
    <3>1. i \in 1 .. Len(H)
      BY <1>1
    <3>2. j \in DOMAIN H /\ j < i
      BY <1>1, <3>1
    <3> QED BY <2>3, <3>2
  <2>5. H[i] \in FirstEnabled(t)
    BY <2>4 DEF FirstEnabled
  <2> QED BY <2>5
<1> QED BY <1>2, <1>3

LEMMA KeptIsWatched ==
  ASSUME NEW P \in SUBSET Problem
  PROVE  /\ Kept(P) = P \cap Watched
         /\ UNION {FirstEnabled(TriggerOf[p]) : p \in P} \subseteq Host
<1>1. \A p \in P : TriggerOf[p] \in Trigger
  BY ViewsAssumption DEF ViewsAssumption
<1>2. \A p \in P : FirstEnabled(TriggerOf[p]) # {} <=> HostSet(TriggerOf[p]) \cap on # {}
  BY <1>1, FirstEnabledThere
<1>3. \A t \in Trigger : HostSet(t) \subseteq Host
  <2> TAKE t \in Trigger
  <2>1. HostsOf[t] \in Seq(Host)
    BY ViewsAssumption DEF ViewsAssumption
  <2> QED BY <2>1 DEF HostSet
<1>4. \A p \in P : FirstEnabled(TriggerOf[p]) \subseteq Host
  BY <1>1, <1>3, FirstEnabledThere
<1> QED BY <1>2, <1>4 DEF Kept, Watched

-----------------------------------------------------------------------------
(* The calls: the inductive invariant *)

ViewType ==
  [stage : {"open", "answered"}, tool : Tool, rights : RightsChoice, host : Host \cup {None},
   part : BOOLEAN, left : Seq(ReadName), hosts : SUBSET Host, items : SUBSET Host,
   data : SUBSET Host, found : SUBSET Problem, shown : SUBSET Problem, named : SUBSET Host,
   wasActive : SUBSET Problem, wasWatched : SUBSET Problem, always : SUBSET Problem]

HostsFor(v) == IF v.tool = "hostgroup_overview_get" THEN Members ELSE {v.host}

\* The reads that are left: allowed, and in the order of the plan.
LeftOK(v) ==
  /\ Ordered(v.left)
  /\ In("problems", v.left) => In("triggers", v.left)
  /\ In("triggers", v.left) => v.tool \in OfProblems
  /\ v.tool \notin ListsProblems => \A i \in DOMAIN v.left : Prefix[v.left[i]] \in v.rights
  /\ In("hosts", v.left) => v.host \in Host \/ v.tool \in {"hostgroup_overview_get", "anomaly_detect"}
  /\ v.stage = "answered" => v.left = <<>>

\* What a read of problems may find, and what may be shown of it.
FoundOK(v, found) ==
  /\ Cardinality(found) < Fetched[v.tool] => v.always \cap InScope(v) \subseteq found
  /\ found \subseteq v.wasActive
ShownOK(v, shown) ==
  /\ Cardinality(v.found) < Fetched[v.tool] /\ Cardinality(shown) < Told[v.tool] =>
       v.always \cap InScope(v) \subseteq shown
  /\ shown \subseteq v.wasWatched

\* What was read so far.
DataOK(v) ==
  /\ v.tool \in OfHosts /\ ~In("hosts", v.left) => v.hosts = HostsFor(v)
  /\ In("items", v.left) => v.data = {}
  /\ v.data \cap v.items = {}
  /\ In("triggers", v.left) => v.shown = {}
  /\ v.shown \subseteq v.found
  /\ v.tool \notin OfProblems => v.always = {} /\ v.found = {}
  /\ ~In("problems", v.left) => FoundOK(v, v.found)
  /\ ~In("triggers", v.left) => ShownOK(v, v.shown)

\* The history is up to date.
Current(v) ==
  v.stage = "open" /\ v.tool \in OfProblems =>
    active \subseteq v.wasActive /\ Watched \subseteq v.wasWatched /\ v.always \subseteq active \cap Watched

ViewOK(v) == v = Idle \/ (v \in ViewType /\ LeftOK(v) /\ DataOK(v) /\ Current(v))

VInv ==
  /\ on \subseteq Host \cup Trigger /\ active \subseteq Problem /\ changes \in 0..MaxChanges
  /\ view = [c \in Call |-> view[c]] /\ \A c \in Call : ViewOK(view[c])

\* A view that was read as far, with a history that went on.
LEMMA KeptOK ==
  ASSUME NEW v, NEW w, w.tool = v.tool, w.host = v.host, w.found = v.found, w.shown = v.shown,
         w.always \subseteq v.always,
         v.wasActive \subseteq w.wasActive, v.wasWatched \subseteq w.wasWatched
  PROVE  /\ HostsFor(w) = HostsFor(v)
         /\ FoundOK(v, v.found) => FoundOK(w, w.found)
         /\ ShownOK(v, v.shown) => ShownOK(w, w.shown)
<1>1. InScope(w) = InScope(v) /\ HostsFor(w) = HostsFor(v)
  BY DEF InScope, HostsFor
<1> QED BY <1>1 DEF FoundOK, ShownOK

LEMMA SameOK ==
  ASSUME NEW v, NEW w, LeftOK(v), DataOK(v),
         w.left = v.left, w.stage = v.stage \/ v.left = <<>>,
         w.tool = v.tool, w.rights = v.rights, w.host = v.host,
         w.hosts = v.hosts, w.found = v.found, w.shown = v.shown,
         w.always \subseteq v.always,
         v.wasActive \subseteq w.wasActive, v.wasWatched \subseteq w.wasWatched,
         In("items", v.left) => w.data = {}, w.data \cap w.items = {}
  PROVE  LeftOK(w) /\ DataOK(w)
<1>1. LeftOK(w)
  BY DEF LeftOK
<1>2. DataOK(w)
  BY KeptOK DEF DataOK
<1> QED BY <1>1, <1>2

LEMMA InitVInv == Init => VInv
BY ViewsAssumption DEF ViewsAssumption, Init, VInv, ViewOK

LEMMA StayVInv == ASSUME VInv, UNCHANGED <<zabbix, view>> PROVE VInv'
BY DEF VInv, ViewOK, LeftOK, DataOK, Current, Watched, zabbix

LEMMA Moves ==
  ASSUME VInv, NEW c \in Call, NEW v, ViewOK(v), view' = [view EXCEPT ![c] = v], UNCHANGED zabbix
  PROVE  VInv'
<1>1. \A d \in Call : view'[d] = IF d = c THEN v ELSE view[d]
  BY DEF VInv
<1>2. view' = [d \in Call |-> view'[d]]
  BY DEF VInv
<1>3. \A w : ViewOK(w) => ViewOK(w)'
  BY DEF ViewOK, LeftOK, DataOK, Current, Watched, zabbix
<1>4. \A d \in Call : ViewOK(view[d])'
  BY <1>1, <1>3 DEF VInv
<1> QED BY <1>2, <1>4 DEF VInv, zabbix

LEMMA OpenView ==
  ASSUME VInv, NEW c \in Call, view[c].stage \in {"open", "answered"}
  PROVE  view[c] \in ViewType /\ LeftOK(view[c]) /\ DataOK(view[c]) /\ Current(view[c])
BY DEF VInv, ViewOK, Idle

\* A read is done: what is left is still right.
LEMMA LeftAfter ==
  ASSUME NEW v \in ViewType, LeftOK(v), v.stage = "open", v.left # <<>>, NEW w \in ViewType,
         w.left = Tail(v.left), w.tool = v.tool, w.rights = v.rights, w.host = v.host,
         w.stage = "open"
  PROVE  LeftOK(w)
<1>1. v.left \in Seq(ReadName) /\ Ordered(v.left)
  BY DEF ViewType, LeftOK
<1>2. Ordered(w.left)
  BY <1>1, OrderedTail
<1>3. /\ ~In(Head(v.left), w.left)
      /\ \A x : In(x, v.left) <=> x = Head(v.left) \/ In(x, w.left)
  BY <1>1, InTail
<1>4. Head(v.left) = "triggers" => ~In("problems", v.left)
  BY <1>1, HeadFirst DEF Ordered
<1>5. In("problems", w.left) => In("triggers", w.left)
  BY <1>3, <1>4 DEF LeftOK
<1>6. \A i \in DOMAIN w.left : i + 1 \in DOMAIN v.left /\ w.left[i] = v.left[i + 1]
  BY <1>1, TailFacts
<1> QED BY <1>2, <1>3, <1>5, <1>6 DEF LeftOK

\* ... and what was read is right, if the new answer is.
LEMMA DataAfter ==
  ASSUME NEW v \in ViewType, LeftOK(v), DataOK(v), v.left # <<>>, NEW w \in ViewType,
         w.left = Tail(v.left), w.tool = v.tool, w.host = v.host, w.data = v.data,
         w.always = v.always, w.wasActive = v.wasActive, w.wasWatched = v.wasWatched,
         IF Head(v.left) = "hosts" THEN v.tool \in OfHosts => w.hosts = HostsFor(v)
         ELSE w.hosts = v.hosts,
         Head(v.left) # "items" => w.items = v.items,
         IF Head(v.left) = "problems"
         THEN FoundOK(v, w.found)
         ELSE w.found = v.found,
         IF Head(v.left) = "triggers"
         THEN w.shown \subseteq v.found /\ ShownOK(v, w.shown)
         ELSE w.shown = v.shown
  PROVE  DataOK(w)
<1>1. v.left \in Seq(ReadName) /\ Ordered(v.left)
  BY DEF ViewType, LeftOK
<1>2. /\ ~In(Head(v.left), w.left)
      /\ \A x : In(x, v.left) <=> x = Head(v.left) \/ In(x, w.left)
  BY <1>1, InTail
<1>3. /\ InScope(w) = InScope(v) /\ HostsFor(w) = HostsFor(v)
      /\ \A S : FoundOK(w, S) <=> FoundOK(v, S)
      /\ w.found = v.found => \A S : ShownOK(w, S) <=> ShownOK(v, S)
  BY DEF InScope, HostsFor, FoundOK, ShownOK
<1>4. w.tool \in OfHosts /\ ~In("hosts", w.left) => w.hosts = HostsFor(w)
  BY <1>2, <1>3 DEF DataOK
<1>5. In("items", w.left) => w.data = {}
  BY <1>2 DEF DataOK
<1>6. w.data \cap w.items = {}
  BY <1>2 DEF DataOK
<1>7. In("triggers", w.left) => w.shown = {}
  BY <1>2 DEF DataOK
<1>8. Head(v.left) = "problems" => In("triggers", v.left) /\ v.tool \in OfProblems
  BY <1>2 DEF LeftOK
<1>9. w.shown \subseteq w.found
  BY <1>2, <1>8 DEF DataOK
<1>10. w.tool \notin OfProblems => w.always = {} /\ w.found = {}
  BY <1>8 DEF DataOK
<1>11. ~In("problems", w.left) => FoundOK(w, w.found)
  BY <1>2, <1>3 DEF DataOK
<1>12. ~In("triggers", w.left) => ShownOK(w, w.shown)
  BY <1>2, <1>3, <1>8 DEF DataOK
<1> QED BY <1>4, <1>5, <1>6, <1>7, <1>9, <1>10, <1>11, <1>12 DEF DataOK

LEMMA TailType == ASSUME NEW v \in ViewType, v.left # <<>> PROVE Tail(v.left) \in Seq(ReadName)
BY DEF ViewType

\* A read whose answer does not matter here.
LEMMA PlainTake ==
  ASSUME VInv, NEW c \in Call, view[c].stage = "open", view[c].left # <<>>,
         Head(view[c].left) \notin {"hosts", "problems", "triggers", "items"},
         Take(c, view[c])
  PROVE  VInv'
<1> DEFINE v == view[c]
           w == [v EXCEPT !.left = Tail(@)]
<1>1. v \in ViewType /\ LeftOK(v) /\ DataOK(v) /\ Current(v)
  BY OpenView
<1>2. /\ w \in ViewType /\ w.left = Tail(v.left) /\ w.stage = "open" /\ w.tool = v.tool
      /\ w.rights = v.rights /\ w.host = v.host /\ w.data = v.data /\ w.items = v.items
      /\ w.hosts = v.hosts /\ w.found = v.found /\ w.shown = v.shown
      /\ w.always = v.always /\ w.wasActive = v.wasActive /\ w.wasWatched = v.wasWatched
  BY <1>1, TailType DEF ViewType
<1>3. view' = [view EXCEPT ![c] = w] /\ UNCHANGED zabbix
  BY DEF Take
<1> HIDE DEF w
<1>4. LeftOK(w) /\ DataOK(w)
  BY <1>1, <1>2, LeftAfter, DataAfter
<1>5. Current(w)
  BY <1>1, <1>2 DEF Current
<1> QED BY <1>2, <1>3, <1>4, <1>5, Moves DEF ViewOK

LEMMA AtFacts ==
  ASSUME NEW c, NEW read, At(c, read)
  PROVE  view[c].stage = "open" /\ view[c].left # <<>> /\ Head(view[c].left) = read
BY DEF At

LEMMA SearchHostStep == ASSUME VInv, NEW c \in Call, SearchHost(c) PROVE VInv'
<1> DEFINE v == view[c]
           w == [v EXCEPT !.part = FALSE]
<1>1. v.stage = "open" /\ view' = [view EXCEPT ![c] = w] /\ UNCHANGED zabbix
  BY AtFacts DEF SearchHost
<1>2. v \in ViewType /\ LeftOK(v) /\ DataOK(v) /\ Current(v)
  BY <1>1, OpenView
<1>3. /\ w \in ViewType /\ w.left = v.left /\ w.stage = v.stage /\ w.tool = v.tool
      /\ w.rights = v.rights /\ w.host = v.host /\ w.data = v.data /\ w.items = v.items
      /\ w.hosts = v.hosts /\ w.found = v.found /\ w.shown = v.shown
      /\ w.always = v.always /\ w.wasActive = v.wasActive /\ w.wasWatched = v.wasWatched
  BY <1>2 DEF ViewType
<1> HIDE DEF w
<1>4. LeftOK(w) /\ DataOK(w)
  <2>1. (In("items", v.left) => v.data = {}) /\ v.data \cap v.items = {}
    BY <1>2 DEF DataOK
  <2> QED BY <1>2, <1>3, <2>1, SameOK
<1>5. Current(w)
  BY <1>2, <1>3 DEF Current
<1> QED BY <1>1, <1>3, <1>4, <1>5, Moves DEF ViewOK

LEMMA ReadHostsStep == ASSUME VInv, NEW c \in Call, ReadHosts(c) PROVE VInv'
<1> DEFINE v == view[c]
           t == v.tool
           hosts == CASE t = "hostgroup_overview_get" -> Members
                      [] t = "anomaly_detect" -> Members \cap on
                      [] OTHER -> {v.host}
           w == [v EXCEPT !.hosts = hosts, !.left = Tail(@)]
<1>1. v.stage = "open" /\ v.left # <<>> /\ Head(v.left) = "hosts"
  BY AtFacts DEF ReadHosts
<1>2. view' = [view EXCEPT ![c] = w] /\ UNCHANGED zabbix
  BY DEF ReadHosts, Take
<1>3. v \in ViewType /\ LeftOK(v) /\ DataOK(v) /\ Current(v)
  BY <1>1, OpenView
<1>4. hosts \in SUBSET Host
  <2>1. In("hosts", v.left)
    <3>1. v.left \in Seq(ReadName) /\ Ordered(v.left)
      BY <1>3 DEF ViewType, LeftOK
    <3> QED BY <1>1, <3>1, InTail
  <2>2. t \in {"hostgroup_overview_get", "anomaly_detect"} \/ v.host \in Host
    BY <1>3, <2>1 DEF LeftOK
  <2>3. CASE t = "hostgroup_overview_get"
    BY <2>3, ViewsAssumption DEF ViewsAssumption
  <2>4. CASE t = "anomaly_detect"
    BY <2>4, ViewsAssumption DEF ViewsAssumption
  <2>5. CASE t \notin {"hostgroup_overview_get", "anomaly_detect"}
    BY <2>2, <2>5
  <2> QED BY <2>3, <2>4, <2>5
<1>5. t \in OfHosts => hosts = HostsFor(v)
  BY DEF OfHosts, HostsFor
<1> HIDE DEF hosts
<1>6. /\ w \in ViewType /\ w.left = Tail(v.left) /\ w.stage = "open" /\ w.tool = v.tool
      /\ w.rights = v.rights /\ w.host = v.host /\ w.data = v.data /\ w.items = v.items
      /\ w.hosts = hosts /\ w.found = v.found /\ w.shown = v.shown
      /\ w.always = v.always /\ w.wasActive = v.wasActive /\ w.wasWatched = v.wasWatched
  BY <1>1, <1>3, <1>4, TailType DEF ViewType
<1> HIDE DEF w
<1>7. LeftOK(w) /\ DataOK(w)
  BY <1>1, <1>3, <1>5, <1>6, LeftAfter, DataAfter
<1>8. Current(w)
  BY <1>1, <1>3, <1>6 DEF Current
<1> QED BY <1>2, <1>6, <1>7, <1>8, Moves DEF ViewOK

LEMMA ReadItemsStep == ASSUME VInv, NEW c \in Call, ReadItems(c) PROVE VInv'
<1> DEFINE v == view[c]
           items == (IF v.hosts = {} THEN Host ELSE v.hosts) \cap Measured
           w == [v EXCEPT !.items = items, !.left = Tail(@)]
<1>1. v.stage = "open" /\ v.left # <<>> /\ Head(v.left) = "items"
  BY AtFacts DEF ReadItems
<1>2. view' = [view EXCEPT ![c] = w] /\ UNCHANGED zabbix
  BY DEF ReadItems, Take
<1>3. v \in ViewType /\ LeftOK(v) /\ DataOK(v) /\ Current(v)
  BY <1>1, OpenView
<1>4. items \in SUBSET Host
  BY ViewsAssumption DEF ViewsAssumption
<1> HIDE DEF items
<1>5. /\ w \in ViewType /\ w.left = Tail(v.left) /\ w.stage = "open" /\ w.tool = v.tool
      /\ w.rights = v.rights /\ w.host = v.host /\ w.data = v.data /\ w.items = items
      /\ w.hosts = v.hosts /\ w.found = v.found /\ w.shown = v.shown
      /\ w.always = v.always /\ w.wasActive = v.wasActive /\ w.wasWatched = v.wasWatched
  BY <1>1, <1>3, <1>4, TailType DEF ViewType
<1> HIDE DEF w
<1>6. LeftOK(w) /\ DataOK(w)
  BY <1>1, <1>3, <1>5, LeftAfter, DataAfter
<1>7. Current(w)
  BY <1>1, <1>3, <1>5 DEF Current
<1> QED BY <1>2, <1>5, <1>6, <1>7, Moves DEF ViewOK

\* A page is all there is, or full.
LEMMA PageOf ==
  ASSUME NEW S, NEW n, NEW part \in Page(S, n)
  PROVE  part \subseteq S /\ (part = S \/ Cardinality(part) = n)
BY DEF Page

LEMMA Limits == \A t \in OfProblems : Fetched[t] \in Nat /\ Told[t] \in Nat
BY LimitsAssumption DEF LimitsAssumption

\* Every problem that was there all the time is found, unless the page is full, and every
\* one found was there.
LEMMA ReadProblemsStep == ASSUME VInv, NEW c \in Call, ReadProblems(c) PROVE VInv'
<1> DEFINE v == view[c]
<1>1. v.stage = "open" /\ v.left # <<>> /\ Head(v.left) = "problems"
  BY AtFacts DEF ReadProblems
<1>2. PICK found \in Page(Asked(v), Fetched[v.tool]) : Take(c, [v EXCEPT !.found = found])
  BY DEF ReadProblems
<1> DEFINE w == [v EXCEPT !.found = found, !.left = Tail(@)]
<1>3. view' = [view EXCEPT ![c] = w] /\ UNCHANGED zabbix
  BY <1>2 DEF Take
<1>4. v \in ViewType /\ LeftOK(v) /\ DataOK(v) /\ Current(v)
  BY <1>1, OpenView
<1>5. Asked(v) \subseteq active /\ active \subseteq Problem /\ found \subseteq Asked(v)
  BY PageOf DEF VInv, Asked
<1>6. v.tool \in OfProblems /\ ~In("hosts", v.left)
  <2>1. v.left \in Seq(ReadName) /\ Ordered(v.left)
    BY <1>4 DEF ViewType, LeftOK
  <2> QED BY <1>1, <1>4, <2>1, InTail, HeadFirst DEF LeftOK, Ordered
<1>7. FoundOK(v, found)
  <2>1. active \subseteq v.wasActive /\ v.always \subseteq active
    BY <1>1, <1>4, <1>6 DEF Current
  <2>2. Asked(v) = IF v.tool \in OfHosts THEN active \cap On(v.hosts) ELSE active
    BY DEF Asked, OfHosts
  <2>3. v.tool \in OfHosts => InScope(v) = On(v.hosts)
    BY <1>4, <1>6 DEF DataOK, OfHosts, InScope, HostsFor
  <2>4. v.always \cap InScope(v) \subseteq Asked(v)
    BY <2>1, <2>2, <2>3
  <2>5. found = Asked(v) \/ ~(Cardinality(found) < Fetched[v.tool])
    BY <1>6, PageOf, Limits
  <2> QED BY <1>5, <2>1, <2>4, <2>5 DEF FoundOK
<1>8. /\ w \in ViewType /\ w.left = Tail(v.left) /\ w.stage = "open" /\ w.tool = v.tool
      /\ w.rights = v.rights /\ w.host = v.host /\ w.data = v.data /\ w.items = v.items
      /\ w.hosts = v.hosts /\ w.found = found /\ w.shown = v.shown
      /\ w.always = v.always /\ w.wasActive = v.wasActive /\ w.wasWatched = v.wasWatched
  BY <1>1, <1>4, <1>5, TailType DEF ViewType
<1> HIDE DEF w
<1>9. LeftOK(w) /\ DataOK(w)
  BY <1>1, <1>4, <1>7, <1>8, LeftAfter, DataAfter
<1>10. Current(w)
  BY <1>1, <1>4, <1>8 DEF Current
<1> QED BY <1>3, <1>8, <1>9, <1>10, Moves DEF ViewOK

\* The filter keeps the watched among the found: all that were watched all the time.
LEMMA ReadTriggersStep == ASSUME VInv, NEW c \in Call, ReadTriggers(c) PROVE VInv'
<1> DEFINE v == view[c]
           Named(shown) == UNION {FirstEnabled(TriggerOf[p]) : p \in shown}
<1>1. v.stage = "open" /\ v.left # <<>> /\ Head(v.left) = "triggers"
  BY AtFacts DEF ReadTriggers
<1>2. PICK shown \in Page(Kept(v.found), Told[v.tool]) :
        Take(c, [v EXCEPT !.shown = shown, !.named = Named(shown)])
  BY DEF ReadTriggers
<1> DEFINE named == Named(shown)
           w == [v EXCEPT !.shown = shown, !.named = named, !.left = Tail(@)]
<1>3. view' = [view EXCEPT ![c] = w] /\ UNCHANGED zabbix
  BY <1>2 DEF Take
<1>4. v \in ViewType /\ LeftOK(v) /\ DataOK(v) /\ Current(v)
  BY <1>1, OpenView
<1>5. /\ Kept(v.found) = v.found \cap Watched /\ shown \subseteq Kept(v.found)
      /\ shown \in SUBSET Problem /\ named \in SUBSET Host
  <2>1. v.found \in SUBSET Problem
    BY <1>4 DEF ViewType
  <2>2. Kept(v.found) = v.found \cap Watched
    BY <2>1, KeptIsWatched
  <2>3. shown \subseteq Kept(v.found) /\ shown \in SUBSET Problem
    BY <2>1, <2>2, PageOf
  <2>4. named \in SUBSET Host
    BY <2>3, KeptIsWatched
  <2> QED BY <2>2, <2>3, <2>4
<1>6. v.tool \in OfProblems /\ ~In("problems", v.left)
  <2>1. v.left \in Seq(ReadName) /\ Ordered(v.left)
    BY <1>4 DEF ViewType, LeftOK
  <2> QED BY <1>1, <1>4, <2>1, InTail, HeadFirst DEF LeftOK, Ordered
<1>7. shown \subseteq v.found /\ ShownOK(v, shown)
  <2>1. Watched \subseteq v.wasWatched /\ v.always \subseteq Watched
    BY <1>1, <1>4, <1>6 DEF Current
  <2>2. FoundOK(v, v.found)
    BY <1>4, <1>6 DEF DataOK
  <2>3. shown = Kept(v.found) \/ ~(Cardinality(shown) < Told[v.tool])
    BY <1>6, PageOf, Limits
  <2> QED BY <1>5, <2>1, <2>2, <2>3 DEF FoundOK, ShownOK
<1> HIDE DEF named
<1>8. /\ w \in ViewType /\ w.left = Tail(v.left) /\ w.stage = "open" /\ w.tool = v.tool
      /\ w.rights = v.rights /\ w.host = v.host /\ w.data = v.data /\ w.items = v.items
      /\ w.hosts = v.hosts /\ w.found = v.found /\ w.shown = shown
      /\ w.always = v.always /\ w.wasActive = v.wasActive /\ w.wasWatched = v.wasWatched
  BY <1>1, <1>4, <1>5, TailType DEF ViewType
<1> HIDE DEF w
<1>9. LeftOK(w) /\ DataOK(w)
  BY <1>1, <1>4, <1>7, <1>8, LeftAfter, DataAfter
<1>10. Current(w)
  BY <1>1, <1>4, <1>8 DEF Current
<1> QED BY <1>3, <1>8, <1>9, <1>10, Moves DEF ViewOK

LEMMA ReadTrendStep == ASSUME VInv, NEW c \in Call, NEW h \in Host, ReadTrend(c, h) PROVE VInv'
<1> DEFINE v == view[c]
<1>1. v.stage = "open" /\ v.left # <<>> /\ Head(v.left) = "trends"
  BY AtFacts DEF ReadTrend
<1>2. v \in ViewType /\ LeftOK(v) /\ DataOK(v) /\ Current(v)
  BY <1>1, OpenView
<1>3. PICK data \in {v.data, v.data \cup {h}} :
        view' = [view EXCEPT ![c].items = @ \ {h}, ![c].data = data] /\ UNCHANGED zabbix
  BY DEF ReadTrend
<1> DEFINE w == [v EXCEPT !.items = @ \ {h}, !.data = data]
<1>4. view' = [view EXCEPT ![c] = w]
  BY <1>3 DEF VInv
<1>5. ~In("items", v.left)
  <2>1. v.left \in Seq(ReadName) /\ Ordered(v.left)
    BY <1>2 DEF ViewType, LeftOK
  <2> QED BY <1>1, <2>1, HeadFirst DEF Ordered
<1>6. /\ w \in ViewType /\ w.left = v.left /\ w.stage = v.stage /\ w.tool = v.tool
      /\ w.rights = v.rights /\ w.host = v.host /\ w.data = data /\ w.items = v.items \ {h}
      /\ w.hosts = v.hosts /\ w.found = v.found /\ w.shown = v.shown
      /\ w.always = v.always /\ w.wasActive = v.wasActive /\ w.wasWatched = v.wasWatched
  BY <1>2, <1>3 DEF ViewType
<1> HIDE DEF w
<1>7. LeftOK(w) /\ DataOK(w)
  <2>1. data \cap (v.items \ {h}) = {}
    BY <1>2 DEF DataOK
  <2> QED BY <1>2, <1>5, <1>6, <2>1, SameOK
<1>8. Current(w)
  BY <1>2, <1>6 DEF Current
<1> QED BY <1>3, <1>4, <1>6, <1>7, <1>8, Moves DEF ViewOK

LEMMA PlainStep ==
  ASSUME VInv, NEW c \in Call,
         ReadGroup(c) \/ ReadHistory(c) \/ Count(c) \/ ReadTop(c) \/ EndTrends(c)
  PROVE  VInv'
<1>1. CASE ReadGroup(c)
  BY <1>1, AtFacts, PlainTake DEF ReadGroup
<1>2. CASE ReadHistory(c)
  BY <1>2, AtFacts, PlainTake DEF ReadHistory
<1>3. CASE Count(c)
  <2>1. PICK read \in Counts : At(c, read) /\ Take(c, view[c])
    BY <1>3 DEF Count
  <2>2. read \notin {"hosts", "problems", "triggers", "items"}
    BY <2>1 DEF Counts
  <2> QED BY <2>1, <2>2, AtFacts, PlainTake
<1>4. CASE ReadTop(c)
  BY <1>4, AtFacts, PlainTake DEF ReadTop
<1>5. CASE EndTrends(c)
  BY <1>5, AtFacts, PlainTake DEF EndTrends
<1> QED BY <1>1, <1>2, <1>3, <1>4, <1>5

LEMMA OverStep == ASSUME VInv, NEW c \in Call, ReadFails(c) \/ Return(c) PROVE VInv'
<1>1. view' = [view EXCEPT ![c] = Idle] /\ UNCHANGED zabbix
  BY DEF ReadFails, Fail, Return
<1> QED BY <1>1, Moves DEF ViewOK

LEMMA AnswerStep == ASSUME VInv, NEW c \in Call, Answer(c) PROVE VInv'
<1> DEFINE v == view[c]
           w == [v EXCEPT !.stage = "answered"]
<1>1. v.stage = "open" /\ v.left = <<>> /\ UNCHANGED zabbix
  BY DEF Answer
<1>2. v \in ViewType /\ LeftOK(v) /\ DataOK(v)
  BY <1>1, OpenView
<1>3. view' = [view EXCEPT ![c] = w]
  BY DEF Answer, VInv
<1>4. /\ w \in ViewType /\ w.left = v.left /\ w.stage = "answered" /\ w.tool = v.tool
      /\ w.rights = v.rights /\ w.host = v.host /\ w.data = v.data /\ w.items = v.items
      /\ w.hosts = v.hosts /\ w.found = v.found /\ w.shown = v.shown
      /\ w.always = v.always /\ w.wasActive = v.wasActive /\ w.wasWatched = v.wasWatched
  BY <1>2 DEF ViewType
<1> HIDE DEF w
<1>5. LeftOK(w) /\ DataOK(w)
  <2>1. (In("items", v.left) => v.data = {}) /\ v.data \cap v.items = {}
    BY <1>2 DEF DataOK
  <2> QED BY <1>1, <1>2, <1>4, <2>1, SameOK
<1>6. Current(w)
  BY <1>4 DEF Current
<1> QED BY <1>1, <1>3, <1>4, <1>5, <1>6, Moves DEF ViewOK

LEMMA StartStep ==
  ASSUME VInv, NEW c \in Call, NEW t \in Tool, NEW rights \in RightsChoice,
         NEW host \in Host \cup {None}, NEW part \in BOOLEAN, Start(c, t, rights, host, part)
  PROVE  VInv'
<1> DEFINE left == IF host = None /\ t \in AboutAHost THEN Tail(Plan[t]) ELSE Plan[t]
           w == [stage |-> "open", tool |-> t, rights |-> rights, host |-> host, part |-> part,
                 left |-> left, hosts |-> {}, items |-> {}, data |-> {}, found |-> {},
                 shown |-> {}, named |-> {},
                 wasActive  |-> IF t \in OfProblems THEN active ELSE {},
                 wasWatched |-> IF t \in OfProblems THEN Watched ELSE {},
                 always     |-> IF t \in OfProblems THEN active \cap Watched ELSE {}]
<1>1. /\ view' = [view EXCEPT ![c] = w] /\ UNCHANGED zabbix
      /\ Checked(t) \subseteq rights
      /\ host \in Host => t \in AboutAHost
      /\ host = None => t \notin AboutAHost \ {"item_history_summary_get"}
  BY DEF Start
<1>2. /\ Plan[t] \in Seq(ReadName) /\ Plan[t] # <<>> /\ Ordered(Plan[t])
      /\ In("problems", Plan[t]) <=> In("triggers", Plan[t])
      /\ t \in OfHosts => In("hosts", Plan[t]) /\ In("problems", Plan[t])
      /\ t \in AboutAHost => Head(Plan[t]) = "hosts"
      /\ In("hosts", Plan[t]) => t \in AboutAHost \cup {"hostgroup_overview_get", "anomaly_detect"}
      /\ In("problems", Plan[t]) => t \notin AboutAHost \ {"host_status_get"}
      /\ t \notin ListsProblems => \A i \in DOMAIN Plan[t] : Prefix[Plan[t][i]] \in Checked(t)
  BY PlansFit DEF Fits
<1>3. t \in OfProblems <=> In("problems", Plan[t])
  BY DEF OfProblems, In
<1>4. /\ Ordered(left) /\ left \in Seq(ReadName)
      /\ In("problems", left) => In("triggers", left)
      /\ In("triggers", left) => t \in OfProblems
      /\ In("hosts", left) => host \in Host \/ t \in {"hostgroup_overview_get", "anomaly_detect"}
      /\ t \notin ListsProblems => \A i \in DOMAIN left : Prefix[left[i]] \in rights
      /\ t \in OfHosts => In("hosts", left)
      /\ t \in OfProblems => In("problems", left)
  <2>1. CASE ~(host = None /\ t \in AboutAHost)
    <3>1. left = Plan[t] /\ (t \in AboutAHost => host \in Host)
      BY <2>1
    <3> QED BY <1>1, <1>2, <1>3, <3>1
  \* item_history_summary_get, given an item: the plan without its host
  <2>2. CASE host = None /\ t \in AboutAHost
    <3>1. t = "item_history_summary_get" /\ left = Tail(Plan[t])
      BY <1>1, <2>2
    <3>2. /\ Ordered(left) /\ left \in Seq(ReadName) /\ ~In("hosts", left)
          /\ \A x : In(x, left) => In(x, Plan[t])
      BY <1>2, <2>2, <3>1, OrderedTail, InTail, TailFacts
    <3>3. ~In("problems", Plan[t]) /\ t \notin OfHosts
      BY <1>2, <2>2, <3>1 DEF OfHosts
    <3>4. \A i \in DOMAIN left : In(left[i], Plan[t])
      BY <3>2 DEF In
    <3>5. \A i \in DOMAIN left : Prefix[left[i]] \in rights
      BY <1>1, <1>2, <3>1, <3>4 DEF In, ListsProblems
    <3> QED BY <1>2, <1>3, <3>2, <3>3, <3>5
  <2> QED BY <2>1, <2>2
<1> HIDE DEF left
<1>5. active \in SUBSET Problem /\ Watched \in SUBSET Problem
  BY DEF VInv, Watched
<1>6. /\ w \in ViewType /\ w.left = left /\ w.stage = "open" /\ w.tool = t /\ w.rights = rights
      /\ w.host = host /\ w.data = {} /\ w.items = {} /\ w.found = {} /\ w.shown = {}
      /\ t \in OfProblems =>
           w.wasActive = active /\ w.wasWatched = Watched /\ w.always = active \cap Watched
      /\ t \notin OfProblems => w.always = {}
  BY <1>4, <1>5 DEF ViewType
<1> HIDE DEF w
<1>7. LeftOK(w)
  BY <1>4, <1>6 DEF LeftOK
<1>8. DataOK(w)
  <2>1. CASE t \in OfProblems
    BY <1>4, <1>6, <2>1 DEF DataOK
  <2>2. CASE t \notin OfProblems
    BY <1>4, <1>6, <2>2 DEF DataOK, FoundOK, ShownOK
  <2> QED BY <2>1, <2>2
<1>9. Current(w)
  BY <1>6 DEF Current
<1> QED BY <1>1, <1>6, <1>7, <1>8, <1>9, Moves DEF ViewOK

\* Zabbix changes: the history of every open call follows.
LEMMA ChangeStep == ASSUME VInv, Change PROVE VInv'
<1>1. on' \subseteq Host \cup Trigger /\ active' \subseteq Problem /\ changes' \in 0..MaxChanges
  <2>1. \A S, T, x : S \subseteq T /\ x \in T => Toggle(S, x) \subseteq T
    BY DEF Toggle
  <2>2. changes' \in 0..MaxChanges
    BY ViewsAssumption DEF ViewsAssumption, Change, VInv
  <2>3. CASE \E x \in Host \cup Trigger : on' = Toggle(on, x) /\ active' = active
    BY <2>1, <2>2, <2>3 DEF VInv
  <2>4. CASE \E p \in Problem : active' = Toggle(active, p) /\ on' = on
    BY <2>1, <2>2, <2>4 DEF VInv
  <2> QED BY <2>3, <2>4 DEF Change
<1>2. Watched' \subseteq Problem
  BY DEF Watched
<1>3. view' = [c \in Call |-> view'[c]]
  BY DEF Change, Witness
<1>4. ASSUME NEW c \in Call PROVE ViewOK(view[c])'
  <2> DEFINE v == view[c]
             w == [v EXCEPT !.wasActive = @ \cup active', !.wasWatched = @ \cup Watched',
                            !.always = @ \cap (active \cap Watched)']
  <2>1. CASE v.stage # "open" \/ v.tool \notin OfProblems
    <3>1. view'[c] = v
      BY <2>1 DEF Change, Witness
    <3>2. v = Idle \/ (v \in ViewType /\ LeftOK(v) /\ DataOK(v))
      BY DEF VInv, ViewOK
    <3>3. view'[c].stage # "open" \/ view'[c].tool \notin OfProblems
      BY <2>1, <3>1
    <3>4. Current(view[c])'
      BY <3>3 DEF Current, OfProblems, Tool, Plan
    <3>5. view'[c] = Idle \/ (view'[c] \in ViewType /\ LeftOK(view'[c]) /\ DataOK(view'[c]))
      BY <3>1, <3>2
    <3> QED BY <3>4, <3>5 DEF ViewOK, LeftOK, DataOK
  <2>2. CASE v.stage = "open" /\ v.tool \in OfProblems
    <3>1. view'[c] = w
      BY <2>2 DEF Change, Witness
    <3>2. v \in ViewType /\ LeftOK(v) /\ DataOK(v)
      BY <2>2, OpenView
    <3>3. /\ w \in ViewType /\ w.left = v.left /\ w.stage = v.stage /\ w.tool = v.tool
          /\ w.rights = v.rights /\ w.host = v.host /\ w.data = v.data /\ w.items = v.items
          /\ w.hosts = v.hosts /\ w.found = v.found /\ w.shown = v.shown
          /\ w.always = v.always \cap (active' \cap Watched')
          /\ w.wasActive = v.wasActive \cup active' /\ w.wasWatched = v.wasWatched \cup Watched'
      BY <1>1, <1>2, <3>2 DEF ViewType
    <3> HIDE DEF w
    <3>4. LeftOK(w) /\ DataOK(w)
      <4>1. (In("items", v.left) => v.data = {}) /\ v.data \cap v.items = {}
        BY <3>2 DEF DataOK
      <4> QED BY <3>2, <3>3, <4>1, SameOK
    <3>5. /\ view'[c] \in ViewType /\ LeftOK(view'[c]) /\ DataOK(view'[c])
          /\ active' \subseteq view'[c].wasActive /\ Watched' \subseteq view'[c].wasWatched
          /\ view'[c].always \subseteq active' \cap Watched'
      BY <3>1, <3>3, <3>4
    <3>6. Current(view[c])'
      BY <3>5 DEF Current
    <3> QED BY <3>5, <3>6 DEF ViewOK, LeftOK, DataOK
  <2> QED BY <2>1, <2>2
<1> QED BY <1>1, <1>3, <1>4 DEF VInv

-----------------------------------------------------------------------------
(* The theorems *)

IInv == GInv /\ VInv

LEMMA CallKeeps == ASSUME VInv, NEW c \in Call, CallStep(c) PROVE VInv'
<1>1. CASE \E t \in Tool, rights \in RightsChoice, host \in Host \cup {None}, part \in BOOLEAN :
             Start(c, t, rights, host, part)
  BY <1>1, StartStep
<1>2. CASE \E h \in Host : ReadTrend(c, h)
  BY <1>2, ReadTrendStep
<1> QED
  BY <1>1, <1>2, PlainStep, SearchHostStep, ReadHostsStep, ReadItemsStep, ReadProblemsStep,
     ReadTriggersStep, OverStep, AnswerStep
     DEF CallStep

LEMMA CallLeavesGraphs == ASSUME NEW c \in Call, CallStep(c) PROVE UNCHANGED graphs
BY DEF CallStep, Start, ReadGroup, SearchHost, ReadHosts, ReadItems, ReadHistory, ReadTrend,
       EndTrends, ReadProblems, ReadTriggers, Count, ReadTop, ReadFails, Fail, Answer, Return, Take

LEMMA RenderKeeps == ASSUME GInv, NEW r \in Renderer, RenderStep(r) PROVE GInv' /\ UNCHANGED <<zabbix, view>>
<1>1. GInv'
  BY ViewsAssumption, StartRenderStep, LoginStep, StoreStep, FetchStep, RefusedStep, DropStep
     DEF ViewsAssumption, RenderStep
<1>2. UNCHANGED <<zabbix, view>>
  BY DEF RenderStep, StartRender, Login, Store, Fetch, RefusedFetch, Drop
<1> QED BY <1>1, <1>2

LEMMA InvStep == IInv /\ [Next]_vars => IInv'
<1> SUFFICES ASSUME IInv, [Next]_vars PROVE IInv'
  OBVIOUS
<1>1. CASE \E c \in Call : CallStep(c)
  BY <1>1, CallKeeps, CallLeavesGraphs, StayGInv DEF IInv
<1>2. CASE \E r \in Renderer : RenderStep(r)
  BY <1>2, RenderKeeps, StayVInv DEF IInv
<1>3. CASE Change
  <2>1. UNCHANGED graphs
    BY <1>3 DEF Change
  <2> QED BY <1>3, <2>1, ChangeStep, StayGInv DEF IInv
<1>4. CASE \E n \in 1..MaxLogins : EndSession(n)
  <2>1. UNCHANGED <<zabbix, view>>
    BY <1>4 DEF EndSession
  <2> QED BY <1>4, <2>1, EndSessionStep, StayVInv DEF IInv
<1>5. CASE UNCHANGED vars
  BY <1>5, StayGInv, StayVInv DEF vars, IInv
<1> QED BY <1>1, <1>2, <1>3, <1>4, <1>5 DEF Next

LEMMA IInvInvariant == Spec => []IInv
<1>1. Init => IInv
  BY ViewsAssumption, InitGInv, InitVInv DEF ViewsAssumption, IInv
<1> QED BY <1>1, InvStep, PTL DEF Spec

\* Types; every problem that is shown was found, and every host that is named is one.
THEOREM ViewsTyped == Spec => []TypeOK
<1>1. IInv => TypeOK
  <2> SUFFICES ASSUME IInv PROVE TypeOK
    OBVIOUS
  <2>1. \A c \in Call : /\ view[c].stage \in {"idle", "open", "answered"}
                        /\ view[c] # Idle => /\ view[c].shown \subseteq view[c].found
                                             /\ view[c].named \subseteq Host
                                             /\ view[c].data \cap view[c].items = {}
    BY DEF IInv, VInv, ViewOK, ViewType, DataOK, Idle
  <2>2. \A r \in Renderer : render[r].stage \in {"idle", "login", "store", "fetch", "drop"}
    BY DEF IInv, GInv, Fetching, Idle
  <2> QED BY <2>1, <2>2 DEF TypeOK, IInv, VInv, GInv
<1> QED BY <1>1, IInvInvariant, PTL

\* An answer that no limit cut leaves out no problem that was there, watched, all the time
\* the call took, and none shows one that was not: the filter after the reads asks for the
\* first enabled host of a trigger, and there is one whenever a host of it is enabled.
THEOREM AnswersAreCurrent == Spec => []AnswerIsCurrent
<1>1. IInv => AnswerIsCurrent
  <2> SUFFICES ASSUME IInv, NEW c \in Call, Answered(c), view[c].tool \in OfProblems
               PROVE  /\ Unlimited(view[c]) =>
                           view[c].always \cap InScope(view[c]) \subseteq view[c].shown
                      /\ view[c].shown \subseteq view[c].wasActive \cap view[c].wasWatched
    BY DEF AnswerIsCurrent
  <2> DEFINE v == view[c]
  <2>1. LeftOK(v) /\ DataOK(v) /\ v.left = <<>>
    BY OpenView DEF Answered, IInv, LeftOK
  <2>2. ~In("problems", v.left) /\ ~In("triggers", v.left)
    BY <2>1 DEF In
  <2>3. FoundOK(v, v.found) /\ ShownOK(v, v.shown) /\ v.shown \subseteq v.found
    BY <2>1, <2>2 DEF DataOK
  <2> QED BY <2>3 DEF FoundOK, ShownOK, Unlimited
<1> QED BY <1>1, IInvInvariant, PTL

\* An extension tool reads nothing that its caller could not read with the tool of that
\* read: the handlers ask for the scope of every read before the first.
THEOREM ReadsAllowed == Spec => []ReadsWithinRights
<1>1. IInv => ReadsWithinRights
  <2> SUFFICES ASSUME IInv, NEW c \in Call, view[c].stage = "open", view[c].left # <<>>,
                      view[c].tool \notin ListsProblems
               PROVE  Prefix[Head(view[c].left)] \in view[c].rights
    BY DEF ReadsWithinRights, ListsProblems
  <2>1. view[c].left \in Seq(ReadName) /\ LeftOK(view[c])
    BY OpenView DEF IInv, ViewType
  <2>2. Head(view[c].left) = view[c].left[1] /\ 1 \in DOMAIN view[c].left
    BY <2>1, TailFacts
  <2> QED BY <2>1, <2>2 DEF LeftOK
<1> QED BY <1>1, IInvInvariant, PTL

\* A session the frontend refused does not come back into the cache: what a render stores is
\* a session of its own login, which nobody has used yet.
THEOREM RefusedStaysOut == Spec => []RefusedIsForgotten
<1>1. IInv => RefusedIsForgotten
  BY DEF IInv, GInv
<1> QED BY <1>1, IInvInvariant, PTL
=============================================================================
