----------------------------- MODULE Catalogue -----------------------------
(***************************************************************************)
(* The catalogue of Zabbix methods (api/*.py), and the four places that     *)
(* classify a method by a table of their own: the tool groups of            *)
(* config.toml, the read check of zabbix_raw_api_call, the verbs the client *)
(* sends again after a lost answer, and the releases that have the method.  *)
(*                                                                         *)
(* A method is its object, its verb and whether its entry calls it a read;  *)
(* names are compared in lower case everywhere.  Parameters and             *)
(* descriptions are left out: no table here depends on them.                *)
(***************************************************************************)
EXTENDS Naturals, FiniteSets

CONSTANTS
  Choice,      \* configurations: [tools, disabled, writeTools]
  Version      \* versions a server may run: [at, pre]

ASSUME CatalogueAssumption ==
  /\ Choice \subseteq [tools : SUBSET STRING, disabled : SUBSET STRING, writeTools : BOOLEAN]
  /\ Version \subseteq [at : Nat, pre : BOOLEAN]

All == {"all"}   \* no `tools` in config.toml

-----------------------------------------------------------------------------
(* The tables: each section is a list of MethodDef in the source *)

Reads(objects, verbs) == [object : objects, verb : verbs, reads : {TRUE}]
Writes(objects, verbs) == [object : objects, verb : verbs, reads : {FALSE}]
Gets(objects) == Reads(objects, {"get"})
Managed(objects) == Gets(objects) \cup Writes(objects, {"create", "update", "delete"})
Mass(objects) == Writes(objects, {"massadd", "massremove"})

Dashboards == Managed({"dashboard", "templatedashboard"})
ReportsAndNodes == Managed({"report"}) \cup Gets({"hanode"})
Values == Gets({"history", "trend"}) \cup Writes({"history"}, {"clear", "push"})
Events == Gets({"event"}) \cup Writes({"event"}, {"acknowledge"})
Problems == Gets({"problem"})
MapsAndTasks == Managed({"map"}) \cup Gets({"task"}) \cup Writes({"task"}, {"create"})
Slas == Managed({"sla"}) \cup Reads({"sla"}, {"getsli"})
Services == Managed({"service"})

Hosts == Managed({"host"}) \cup Mass({"host"}) \cup Writes({"host"}, {"massupdate"})
GroupsAndInterfaces ==
  Managed({"hostgroup", "hostinterface"}) \cup Mass({"hostgroup", "hostinterface"})
  \cup Writes({"hostgroup"}, {"massupdate", "propagate"})
  \cup Writes({"hostinterface"}, {"replacehostinterfaces"})
ItemsAndTriggers == Managed({"item", "trigger"})
GraphsAndTemplates ==
  Managed({"graph", "template"}) \cup Gets({"graphitem"})
  \cup Mass({"template"}) \cup Writes({"template"}, {"massupdate"})
TemplateGroupsAndRules ==
  Managed({"templategroup", "discoveryrule"}) \cup Mass({"templategroup"})
  \cup Writes({"templategroup"}, {"massupdate", "propagate"})
Prototypes == Managed({"itemprototype", "triggerprototype"})
MorePrototypes == Managed({"graphprototype", "hostprototype", "discoveryruleprototype"})
MacrosAndMaps ==
  Managed({"usermacro", "valuemap"})
  \cup Writes({"usermacro"}, {"createglobal", "updateglobal", "deleteglobal"})
MaintenanceAndCorrelation == Managed({"maintenance", "correlation"})
Discovery == Managed({"drule"}) \cup Gets({"dcheck", "dhost", "dservice"})
WebAndConfiguration ==
  Managed({"httptest"}) \cup Reads({"configuration"}, {"export", "importcompare"})
  \cup Writes({"configuration"}, {"import"})

ActionsAndAlerts == Managed({"action"}) \cup Gets({"alert"})
MediaTypes == Managed({"mediatype"})
Scripts ==
  Managed({"script"}) \cup Writes({"script"}, {"execute"})
  \cup Reads({"script"}, {"getscriptsbyevents", "getscriptsbyhosts"})

UserEdits == Managed({"user"})
\* two entries of one method
FaultyUserSessions ==
  Writes({"user"}, {"login", "logout", "checkauthentication", "provision", "resettotp", "unblock"})
  \cup Reads({"user"}, {"checkauthentication"})

UserSessions ==
  Writes({"user"}, {"login", "logout", "provision", "resettotp", "unblock"})
  \cup Reads({"user"}, {"checkauthentication"})
UserGroups == Managed({"usergroup"})
Directories == Managed({"userdirectory"}) \cup Writes({"userdirectory"}, {"test"})
RolesAndTokens == Managed({"role", "token"}) \cup Writes({"token"}, {"generate"})
Authentication == Gets({"authentication"}) \cup Writes({"authentication"}, {"update"})

RegistrationAndIcons ==
  Gets({"autoregistration"}) \cup Writes({"autoregistration"}, {"update"}) \cup Managed({"iconmap"})
ImagesAndSettings ==
  Managed({"image"}) \cup Gets({"settings"}) \cup Writes({"settings"}, {"update"})
ExpressionsAndModules == Managed({"regexp", "module"})
ConnectorsAndAudit ==
  Managed({"connector"}) \cup Gets({"auditlog", "housekeeping"})
  \cup Writes({"housekeeping"}, {"update"})
Proxies == Managed({"proxy", "proxygroup"})
Mfa == Managed({"mfa"})

Traces == Gets({"apmtrace", "apmspan", "apmlog", "apmmetric"})
DevicesAndServer ==
  Gets({"device", "serverinfo"}) \cup Writes({"device"}, {"offboard"})
  \cup Reads({"apiinfo"}, {"version"})
EventRules ==
  Managed({"ceprule"}) \cup Writes({"ceprule"}, {"resettimewindows"}) \cup Gets({"hostdashboard"})

\* ALL_METHODS
Methods == UNION {
  Dashboards, ReportsAndNodes, Values, Events, Problems, MapsAndTasks, Slas, Services,
  Hosts, GroupsAndInterfaces, ItemsAndTriggers, GraphsAndTemplates, TemplateGroupsAndRules,
  Prototypes, MorePrototypes, MacrosAndMaps, MaintenanceAndCorrelation, Discovery,
  WebAndConfiguration, ActionsAndAlerts, MediaTypes, Scripts, UserEdits, UserSessions,
  UserGroups, Directories, RolesAndTokens, Authentication, RegistrationAndIcons,
  ImagesAndSettings, ExpressionsAndModules, ConnectorsAndAudit, Proxies, Mfa,
  Traces, DevicesAndServer, EventRules}

-----------------------------------------------------------------------------
(* The tool groups *)

\* TOOL_GROUPS; of the tools that are no method only zabbix_raw_api_call is kept
ToolGroups == [
  monitoring |-> {
    "host", "hostgroup", "hostinterface", "hostprototype", "item", "itemprototype",
    "trigger", "triggerprototype", "problem", "event", "history", "trend", "graph",
    "graphitem", "graphprototype", "discoveryrule", "discoveryruleprototype", "dcheck",
    "dhost", "drule", "dservice", "httptest", "sla", "service", "apmtrace", "apmspan",
    "apmlog", "apmmetric", "hostdashboard"},
  data_collection |-> {"template", "templategroup", "templatedashboard", "valuemap", "dashboard"},
  alerts |-> {"action", "alert", "mediatype", "script", "ceprule"},
  users |-> {"user", "usergroup", "userdirectory", "usermacro", "token", "role", "mfa"},
  administration |-> {
    "settings", "housekeeping", "authentication", "autoregistration", "configuration",
    "connector", "correlation", "hanode", "iconmap", "image", "maintenance", "map",
    "module", "proxy", "proxygroup", "regexp", "report", "task", "auditlog", "apiinfo",
    "serverinfo", "device"},
  extensions |-> {"zabbix_raw_api_call"}]

ExpandedGroups(entries) ==
  UNION {IF e \in DOMAIN ToolGroups THEN ToolGroups[e] ELSE {e} : e \in entries}

\* both lists are matched, but neither is expanded
FaultyRegistered(c) ==
  {m \in Methods : /\ c.tools = All \/ m.object \in c.tools
                   /\ m.object \notin c.disabled
                   /\ m.reads \/ c.writeTools}

\* _register_tools: `tools`, then `disabled_tools`, then `register_write_tools`
Registered(c) ==
  {m \in Methods : /\ c.tools = All \/ m.object \in ExpandedGroups(c.tools)
                   /\ m.object \notin ExpandedGroups(c.disabled)
                   /\ m.reads \/ c.writeTools}

RawRegistered(c) ==
  /\ c.tools = All \/ "zabbix_raw_api_call" \in ExpandedGroups(c.tools)
  /\ "zabbix_raw_api_call" \notin ExpandedGroups(c.disabled)
  /\ c.writeTools

-----------------------------------------------------------------------------
(* What a release has *)

Entry(at, objects, verbs) == [at : {at}, object : objects, verb : verbs]
CrudVerbs == {"get", "create", "update", "delete"}

\* METHOD_SINCE: the first release that has the method, if 5.0 does not
Since == UNION {
  Entry(52, {"authentication", "housekeeping", "settings"}, {"get", "update"}),
  Entry(52, {"role", "templatedashboard"}, CrudVerbs),
  Entry(54, {"report", "token"}, CrudVerbs), Entry(54, {"token"}, {"generate"}),
  Entry(54, {"configuration"}, {"importcompare"}),
  Entry(60, {"regexp", "sla", "module"}, CrudVerbs), Entry(60, {"sla"}, {"getsli"}),
  Entry(60, {"hanode"}, {"get"}), Entry(60, {"history"}, {"clear"}), Entry(60, {"user"}, {"unblock"}),
  Entry(62, {"templategroup", "userdirectory"}, CrudVerbs),
  Entry(62, {"templategroup"}, {"massadd", "massremove", "massupdate"}),
  Entry(62, {"hostgroup", "templategroup"}, {"propagate"}), Entry(62, {"userdirectory"}, {"test"}),
  Entry(64, {"connector"}, CrudVerbs), Entry(64, {"script"}, {"getscriptsbyevents"}),
  Entry(64, {"user"}, {"provision"}),
  Entry(70, {"mfa", "proxygroup"}, CrudVerbs), Entry(70, {"history"}, {"push"}),
  Entry(70, {"hostdashboard"}, {"get"}), Entry(70, {"user"}, {"resettotp"}),
  Entry(74, {"discoveryruleprototype"}, CrudVerbs),
  Entry(80, {"ceprule"}, CrudVerbs), Entry(80, {"ceprule"}, {"resettimewindows"}),
  Entry(80, {"apmlog", "apmmetric", "apmspan", "apmtrace", "device", "serverinfo"}, {"get"}),
  Entry(80, {"device"}, {"offboard"})}

Gone(at, object, verbs, object2, verbs2) ==
  [at : {at}, object : {object}, verb : verbs, instead : {[object : {object2}, verb : verbs2]}]

\* METHOD_REMOVED: the first release without the method, and what to use instead
Removed == UNION {
  Gone(52, "templatescreen", {"copy", "create"}, "templatedashboard", {"create"}),
  Gone(52, "templatescreen", {"delete"}, "templatedashboard", {"delete"}),
  Gone(52, "templatescreen", {"get"}, "templatedashboard", {"get"}),
  Gone(52, "templatescreen", {"update"}, "templatedashboard", {"update"}),
  Gone(52, "templatescreenitem", {"get"}, "templatedashboard", {"get"}),
  Gone(54, "settings", {"getglobal"}, "settings", {"get"}),
  Gone(54, "application", {"create", "delete", "massadd", "update"}, "item", {"update"}),
  Gone(54, "application", {"get"}, "item", {"get"}),
  Gone(54, "screen", {"create"}, "dashboard", {"create"}),
  Gone(54, "screen", {"delete"}, "dashboard", {"delete"}),
  Gone(54, "screen", {"get"}, "dashboard", {"get"}),
  Gone(54, "screen", {"update"}, "dashboard", {"update"}),
  Gone(54, "screenitem", {"create", "delete", "update", "updatebyposition"}, "dashboard", {"update"}),
  Gone(54, "screenitem", {"get"}, "dashboard", {"get"}),
  Gone(60, "service", {"adddependencies", "deletedependencies"}, "service", {"update"}),
  Gone(60, "service", {"addtimes"}, "sla", {"create", "update"}),
  Gone(60, "service", {"deletetimes"}, "sla", {"update"}),
  Gone(60, "service", {"getsla"}, "sla", {"getsli"}),
  Gone(62, "trigger", {"adddependencies", "deletedependencies"}, "trigger", {"update"}),
  Gone(72, "discoveryrule", {"copy"}, "discoveryrule", {"create", "get"}),
  Gone(80, "host", {"massupdate"}, "host", {"update"}),
  Gone(80, "hostgroup", {"massupdate"}, "hostgroup", {"update", "massadd", "massremove"}),
  Gone(80, "hostinterface", {"create", "delete", "massadd", "massremove", "replacehostinterfaces", "update"},
       "host", {"update"}),
  Gone(80, "template", {"massupdate"}, "template", {"update", "massadd", "massremove"}),
  Gone(80, "templategroup", {"massupdate"}, "templategroup", {"update", "massadd", "massremove"})}

Of(table, m) == {e \in table : e.object = m.object /\ e.verb = m.verb}

\* is_removed: what a pre-release of that very release still has is not known
IsRemoved(v, at) == v.at > at \/ (v.at = at /\ ~v.pre)

\* before the release that took a method away
FaultyUnavailable(m, v) ==
  \/ \E e \in Of(Since, m) : v.at <= e.at
  \/ \E e \in Of(Removed, m) : IsRemoved(v, e.at)

\* unavailable_reason
Unavailable(m, v) ==
  \/ \E e \in Of(Since, m) : v.at < e.at
  \/ \E e \in Of(Removed, m) : IsRemoved(v, e.at)

\* the methods a refusal names
Advice(m, v) ==
  {i \in Methods : \E e \in Of(Removed, m) :
     IsRemoved(v, e.at) /\ \E r \in e.instead : r.object = i.object /\ r.verb = i.verb}

-----------------------------------------------------------------------------
(* Reads, by their names *)

\* methods of older releases, and one no release lists: reachable by name only
Unlisted ==
  {[object |-> e.object, verb |-> e.verb, reads |-> e.verb \in {"get", "getglobal", "getsla"}] :
     e \in {f \in Removed : \A m \in Methods : f.object # m.object \/ f.verb # m.verb}}
  \cup Writes({"mediatype"}, {"test"})

\* what zabbix_raw_api_call takes for a read: the table first, then the suffix
ReadsByName(m) ==
  \/ m \in Methods /\ m.reads
  \/ m.verb \in {"get", "getscriptsbyevents", "getscriptsbyhosts", "export", "importcompare",
                 "checkauthentication"}

\* token.generate: the caller wants an answer
FaultyResendIsSafe(m) ==
  m.verb \in {"get", "version", "export", "importcompare", "getsli", "generate",
              "getscriptsbyhosts", "getscriptsbyevents", "checkauthentication"}

\* resend_is_safe
ResendIsSafe(m) ==
  m.verb \in {"get", "version", "export", "importcompare", "getsli",
              "getscriptsbyhosts", "getscriptsbyevents", "checkauthentication"}

-----------------------------------------------------------------------------
(* A caller and one server that is upgraded now and then *)

VARIABLES config, release, reader, call

catalogueVars == <<config, release, reader, call>>

NoCall == [stage |-> "idle"]

CatalogueInit ==
  /\ config \in Choice
  /\ release \in Version
  /\ reader \in BOOLEAN       \* a read-only token, or a read-only server
  /\ call = NoCall

Upgrade ==
  /\ \E v \in Version : /\ v.at > release.at \/ (v.at = release.at /\ release.pre /\ ~v.pre)
                        /\ release' = v
  /\ UNCHANGED <<config, reader, call>>

\* the version check comes last; after a refusal the caller may do what it says
Checked(m) ==
  call' = IF Unavailable(m, release)
          THEN [stage |-> "refused", method |-> m, advice |-> Advice(m, release),
                advised |-> call.stage = "refused"]
          ELSE [stage |-> "sent", method |-> m, times |-> 1]

Takes(m) ==
  \/ call = NoCall
  \/ call.stage = "refused" /\ m \in call.advice

\* the tool of a method, _refuse_if_unavailable
CallMethod(m) ==
  /\ Takes(m)
  /\ m \in Registered(config)
  /\ m.reads \/ ~reader
  /\ Checked(m)
  /\ UNCHANGED <<config, release, reader>>

\* zabbix_raw_api_call: any method, by its name
CallByName(m) ==
  /\ Takes(m)
  /\ RawRegistered(config)
  /\ ReadsByName(m) \/ ~reader
  /\ Checked(m)
  /\ UNCHANGED <<config, release, reader>>

\* The connection breaks before the answer: _reconnect, and a second time if that is safe.
Resend ==
  /\ call.stage = "sent" /\ call.times = 1 /\ ResendIsSafe(call.method)
  /\ call' = [call EXCEPT !.times = 2]
  /\ UNCHANGED <<config, release, reader>>

\* An answer, an error, or an outcome nobody knows.
Return ==
  /\ call # NoCall
  /\ call' = NoCall
  /\ UNCHANGED <<config, release, reader>>

CatalogueNext ==
  \/ Upgrade \/ Resend \/ Return
  \/ \E m \in Methods : CallMethod(m)
  \/ \E m \in Methods \cup Unlisted : CallByName(m)

CatalogueSpec == CatalogueInit /\ [][CatalogueNext]_catalogueVars

-----------------------------------------------------------------------------
(* Properties *)

CatalogueTypeOK ==
  /\ config \in Choice /\ release \in Version /\ reader \in BOOLEAN
  /\ call # NoCall => /\ call.stage \in {"sent", "refused"}
                    /\ call.method \in Methods \cup Unlisted
                    \* no two entries of one method
                    /\ \A m \in Methods \ {call.method} :
                         m.object # call.method.object \/ m.verb # call.method.verb

\* For a read-only server, and a second time after a broken connection, only a method
\* goes out whose entry says that it reads - or one that is in no table and does read: the
\* verbs of client.py and of zabbix_raw_api_call against the read_only flags of the
\* catalogue (SECURITY.md: read-only "blocks all write operations ... at the MCP server
\* level, including via the zabbix_raw_api_call tool").
NoUnmeantWrite ==
  call.stage = "sent" /\ (reader \/ call.times = 2) => call.method.reads

\* What a refusal says to use instead, the server has - also for a pre-release, and when
\* it is upgraded meanwhile; a method that was taken away is refused with such a word.
AdviceHolds ==
  call.stage = "refused" =>
    /\ ~call.advised
    /\ Of(Since, call.method) = {} => call.advice # {}

\* config.example.toml: `tools` with the six groups is the same as no `tools`; what is
\* disabled or a write stays out of both.
GroupsAreEverything ==
  config.tools = DOMAIN ToolGroups =>
    LET whole == [config EXCEPT !.tools = All] IN
    Registered(config) = Registered(whole) /\ RawRegistered(config) = RawRegistered(whole)
=============================================================================
