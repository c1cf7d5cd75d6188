-------------------------- MODULE ToolCallsProofs --------------------------
(* Theorems about ToolCalls and the TokenPages it contains, and about the Catalogue its tools
   come from, for every value of their constants. *)
EXTENDS ToolCalls, Catalogue, TLAPS

-----------------------------------------------------------------------------
(* The inductive invariant of the pages *)

PageForm == [stage : {"open", "posted"}, id : TokenId, seen : SUBSET Nat]

\* A page was made from a state of the file that is not newer than the file, and is older
\* while a save waits for its reload: nobody opens a page then.
FormsBehind ==
  /\ form \in [Editor -> {NoForm} \cup PageForm]
  /\ \A e \in Editor : form[e] # NoForm => \A n \in form[e].seen :
       /\ n <= version
       /\ saving # None => n < version

\* A form that is awaited, with the modification time of the file as it is, is about a row
\* that was, and is, within what its session may hand out.
PostedWithinCap ==
  \A e \in Editor :
    /\ form[e].stage = "posted" /\ version \in form[e].seen
    /\ form[e].id \in DOMAIN file /\ ~stale
    => WithinCap(e, file[form[e].id].scopes)

PInv == PagesTypeOK /\ FormsBehind /\ PostedWithinCap

\* What a step of the portal may do to the tokens.
WithinEditorsCap ==
  saving = None /\ saving' # None =>
    \A i \in DOMAIN file' :
      /\ i \notin DOMAIN file => WithinCap(saving', file'[i].scopes)
      /\ i \in DOMAIN file /\ file'[i] # file[i] =>
           /\ file'[i].scopes # file[i].scopes => WithinCap(saving', file'[i].scopes)
           /\ ~stale /\ ~SentUnguarded(saving') => WithinCap(saving', file[i].scopes)

LEMMA InitPInv == PagesInit => PInv
<1> SUFFICES ASSUME PagesInit PROVE PInv
  OBVIOUS
<1>1. PICK ids \in SUBSET TokenId : file \in [ids -> {row \in Row : row.active}]
  BY DEF PagesInit
<1>2. PagesTypeOK
  <2>1. \A i \in DOMAIN file : i \in TokenId /\ file[i] \in Row
    BY <1>1
  <2>2. version \in 0..MaxSaves
    BY PagesAssumption DEF PagesInit, PagesAssumption
  <2> QED BY <2>1, <2>2 DEF PagesInit, PagesTypeOK
<1>3. FormsBehind /\ PostedWithinCap
  BY DEF PagesInit, FormsBehind, PostedWithinCap, NoForm
<1> QED BY <1>2, <1>3 DEF PInv

LEMMA RestartPInv == ASSUME PInv, PagesRestart PROVE PInv'
<1>1. PagesTypeOK'
  BY DEF PInv, PagesTypeOK, PagesRestart
<1>2. FormsBehind' /\ PostedWithinCap'
  BY DEF PagesRestart, FormsBehind, PostedWithinCap, NoForm
<1> QED BY <1>1, <1>2 DEF PInv

\* Every save makes the open pages old.
LEMMA SaveStep ==
  ASSUME PInv, NEW e \in Editor, NEW rows, saving = None, Save(e, rows),
         form' \in [Editor -> {NoForm} \cup PageForm],
         \A d \in Editor : form'[d] = form[d] \/ form'[d] = NoForm,
         \A i \in DOMAIN rows : i \in TokenId /\ rows[i] \in Row,
         \A i, j \in DOMAIN rows : rows[i].secret = rows[j].secret => i = j
  PROVE  PInv'
<1>1. /\ file' = rows /\ saving' = e /\ saving' # None
      /\ version \in Nat /\ version' = version + 1 /\ version' \in 0..MaxSaves
      /\ UNCHANGED <<store, stale>>
  BY PagesAssumption DEF Save, PInv, PagesTypeOK, PagesAssumption, None
<1>2. PagesTypeOK'
  BY <1>1 DEF PInv, PagesTypeOK
<1>3. \A d \in Editor : form'[d] # NoForm => \A n \in form'[d].seen : n \in Nat /\ n < version'
  BY <1>1 DEF PInv, FormsBehind, PageForm
<1>4. FormsBehind'
  BY <1>1, <1>3 DEF FormsBehind
<1>5. PostedWithinCap'
  <2>1. \A d \in Editor : form'[d].stage = "posted" => form'[d] # NoForm
    BY DEF NoForm
  <2> QED BY <1>1, <1>3, <2>1 DEF PostedWithinCap
<1> QED BY <1>2, <1>4, <1>5 DEF PInv

\* Steps of the pages alone: the file, the store and the version stay.
LEMMA FormStep ==
  ASSUME PInv, NEW e \in Editor, NEW f \in {NoForm} \cup PageForm, saving = None,
         form' = [form EXCEPT ![e] = f],
         f # NoForm => \A n \in f.seen : n <= version,
         f.stage = "posted" /\ version \in f.seen /\ f.id \in DOMAIN file /\ ~stale =>
           WithinCap(e, file[f.id].scopes),
         UNCHANGED <<file, version, store, stale, saving>>
  PROVE  PInv' /\ WithinEditorsCap
<1>1. PagesTypeOK'
  BY DEF PInv, PagesTypeOK
<1>2. \A d \in Editor : form'[d] = IF d = e THEN f ELSE form[d]
  BY DEF PInv, FormsBehind
<1>3. FormsBehind'
  BY <1>2 DEF PInv, FormsBehind
<1>4. PostedWithinCap'
  <2> SUFFICES ASSUME NEW d \in Editor, form'[d].stage = "posted", version \in form'[d].seen,
                      form'[d].id \in DOMAIN file, ~stale
               PROVE  WithinCap(d, file[form'[d].id].scopes)
    BY DEF PostedWithinCap, WithinCap, Expanded, Wild
  <2>1. CASE d = e
    BY <1>2, <2>1
  <2>2. CASE d # e
    BY <1>2, <2>2 DEF PInv, PostedWithinCap
  <2> QED BY <2>1, <2>2
<1>5. WithinEditorsCap
  BY DEF WithinEditorsCap
<1> QED BY <1>1, <1>3, <1>4, <1>5 DEF PInv

LEMMA CreateStep ==
  ASSUME PInv, NEW e \in Editor, NEW i \in TokenId, NEW row \in Row, CreateToken(e, i, row)
  PROVE  PInv' /\ WithinEditorsCap
<1> DEFINE rows == With(i, row, file)
<1>1. /\ DOMAIN rows = DOMAIN file \cup {i} /\ i \notin DOMAIN file
      /\ rows[i] = row /\ \A j \in DOMAIN file : rows[j] = file[j]
      /\ \A j \in DOMAIN file : file[j].secret # row.secret
      /\ WithinCap(e, row.scopes)
  BY DEF With, CreateToken, Fresh
<1>2. /\ saving = None /\ Save(e, rows) /\ UNCHANGED form
  BY DEF CreateToken
<1> HIDE DEF rows
<1>3. PInv'
  BY <1>1, <1>2, SaveStep DEF PInv, PagesTypeOK, FormsBehind
<1>4. WithinEditorsCap
  BY <1>1, <1>2 DEF WithinEditorsCap, Save
<1> QED BY <1>3, <1>4

LEMMA ToggleStep ==
  ASSUME PInv, NEW e \in Editor, NEW i \in TokenId, ToggleToken(e, i)
  PROVE  PInv' /\ WithinEditorsCap
<1> DEFINE rows == [file EXCEPT ![i].active = ~@]
<1>1. i \in DOMAIN file /\ file[i] \in Row
  BY DEF ToggleToken, PInv, PagesTypeOK
<1>2. /\ DOMAIN rows = DOMAIN file
      /\ rows[i] = [file[i] EXCEPT !.active = ~@]
      /\ \A j \in DOMAIN file \ {i} : rows[j] = file[j]
  BY <1>1
<1>3. rows[i] \in Row /\ rows[i].secret = file[i].secret /\ rows[i].scopes = file[i].scopes
  BY <1>1, <1>2 DEF Row
<1>4. saving = None /\ Save(e, rows) /\ UNCHANGED form
  BY DEF ToggleToken
<1> HIDE DEF rows
<1>5. PInv'
  <2>1. \A j \in DOMAIN rows : j \in TokenId /\ rows[j] \in Row
    BY <1>1, <1>2, <1>3 DEF PInv, PagesTypeOK
  <2>2. \A j, k \in DOMAIN rows : rows[j].secret = rows[k].secret => j = k
    <3>1. \A j \in DOMAIN rows : rows[j].secret = file[j].secret
      BY <1>2, <1>3
    <3> QED BY <1>2, <3>1 DEF PInv, PagesTypeOK
  <2> QED BY <1>4, <2>1, <2>2, SaveStep DEF PInv, FormsBehind
<1>6. ~stale => WithinCap(e, file[i].scopes)
  BY <1>1, <1>4 DEF ToggleToken, PInv, PagesTypeOK
<1>7. WithinEditorsCap
  BY <1>2, <1>3, <1>4, <1>6 DEF WithinEditorsCap, Save
<1> QED BY <1>5, <1>7

LEMMA RegenerateStep ==
  ASSUME PInv, NEW e \in Editor, NEW i \in TokenId, NEW secret \in Secret,
         RegenerateToken(e, i, secret)
  PROVE  PInv' /\ WithinEditorsCap
<1> DEFINE rows == [file EXCEPT ![i].secret = secret]
<1>1. i \in DOMAIN file /\ file[i] \in Row /\ \A j \in DOMAIN file : file[j].secret # secret
  BY DEF RegenerateToken, Fresh, PInv, PagesTypeOK
<1>2. /\ DOMAIN rows = DOMAIN file
      /\ rows[i] = [file[i] EXCEPT !.secret = secret]
      /\ \A j \in DOMAIN file \ {i} : rows[j] = file[j]
  BY <1>1
<1>3. rows[i] \in Row /\ rows[i].secret = secret /\ rows[i].scopes = file[i].scopes
  BY <1>1, <1>2 DEF Row
<1>4. saving = None /\ Save(e, rows) /\ UNCHANGED form
  BY DEF RegenerateToken
<1> HIDE DEF rows
<1>5. PInv'
  <2>1. \A j \in DOMAIN rows : j \in TokenId /\ rows[j] \in Row
    BY <1>1, <1>2, <1>3 DEF PInv, PagesTypeOK
  <2>2. \A j, k \in DOMAIN rows : rows[j].secret = rows[k].secret => j = k
    BY <1>1, <1>2, <1>3 DEF PInv, PagesTypeOK
  <2> QED BY <1>4, <2>1, <2>2, SaveStep DEF PInv, FormsBehind
<1>6. ~stale => WithinCap(e, file[i].scopes)
  BY <1>1, <1>4 DEF RegenerateToken, PInv, PagesTypeOK
<1>7. WithinEditorsCap
  BY <1>2, <1>3, <1>4, <1>6 DEF WithinEditorsCap, Save
<1> QED BY <1>5, <1>7

LEMMA DeleteStep ==
  ASSUME PInv, NEW e \in Editor, NEW ids \in SUBSET TokenId, DeleteTokens(e, ids)
  PROVE  PInv' /\ WithinEditorsCap
<1> DEFINE rows == Forget(ids, file)
<1>1. DOMAIN rows \subseteq DOMAIN file /\ \A j \in DOMAIN rows : rows[j] = file[j]
  BY DEF Forget
<1>2. saving = None /\ Save(e, rows) /\ UNCHANGED form
  BY DEF DeleteTokens
<1> HIDE DEF rows
<1>3. PInv'
  BY <1>1, <1>2, SaveStep DEF PInv, PagesTypeOK, FormsBehind
<1>4. WithinEditorsCap
  BY <1>1, <1>2 DEF WithinEditorsCap, Save
<1> QED BY <1>3, <1>4

LEMMA OpenStep ==
  ASSUME PInv, NEW e \in Editor, NEW i \in TokenId, OpenForm(e, i)
  PROVE  PInv' /\ WithinEditorsCap
<1>0. PICK seen \in {{}, {version}} :
         form' = [form EXCEPT ![e] = [stage |-> "open", id |-> i, seen |-> seen]]
  BY DEF OpenForm
<1> DEFINE f == [stage |-> "open", id |-> i, seen |-> seen]
<1>1. version \in Nat
  BY PagesAssumption DEF PInv, PagesTypeOK, PagesAssumption
<1>2. f \in PageForm /\ (\A n \in f.seen : n <= version) /\ f.stage # "posted"
  BY <1>1 DEF PageForm
<1>3. /\ saving = None /\ form' = [form EXCEPT ![e] = f]
      /\ UNCHANGED <<file, version, store, stale, saving>>
  BY <1>0 DEF OpenForm
<1> HIDE DEF f
<1> QED BY <1>2, <1>3, FormStep

LEMMA PostStep ==
  ASSUME PInv, NEW e \in Editor, PostForm(e)
  PROVE  PInv' /\ WithinEditorsCap
<1> DEFINE f == IF form[e].id \in DOMAIN store /\ WithinCap(e, store[form[e].id].scopes)
                THEN [form[e] EXCEPT !.stage = "posted"] ELSE NoForm
<1>1. form[e] \in PageForm /\ form[e] # NoForm /\ \A n \in form[e].seen : n <= version
  BY DEF PInv, FormsBehind, PostForm, NoForm
<1>2. saving = None /\ UNCHANGED <<file, version, store, stale, saving>>
  BY DEF PostForm
<1>3. form' = [form EXCEPT ![e] = f]
  BY DEF PostForm
<1>4. CASE f = NoForm
  <2>1. NoForm \in {NoForm} \cup PageForm /\ NoForm.stage # "posted"
    BY DEF NoForm
  <2> HIDE DEF f
  <2> QED BY <1>2, <1>3, <1>4, <2>1, FormStep
<1>5. CASE f # NoForm
  <2>1. /\ f = [form[e] EXCEPT !.stage = "posted"]
        /\ form[e].id \in DOMAIN store /\ WithinCap(e, store[form[e].id].scopes)
    BY <1>5
  <2>2. f \in PageForm /\ f.seen = form[e].seen /\ f.id = form[e].id
    BY <1>1, <2>1 DEF PageForm
  <2>3. ~stale => store = file
    BY <1>2 DEF PInv, PagesTypeOK
  <2> HIDE DEF f
  <2> QED BY <1>1, <1>2, <1>3, <2>1, <2>2, <2>3, FormStep
<1> QED BY <1>4, <1>5

LEMMA RefuseStep ==
  ASSUME PInv, NEW e \in Editor, RefuseForm(e)
  PROVE  PInv' /\ WithinEditorsCap
<1>1. NoForm \in {NoForm} \cup PageForm /\ NoForm.stage # "posted"
  BY DEF NoForm
<1> QED BY <1>1, FormStep DEF RefuseForm

LEMMA SubmitStep ==
  ASSUME PInv, NEW e \in Editor, NEW scopes \in ScopeChoice \cup {{}},
         NEW servers \in ServerChoice, NEW readOnly \in BOOLEAN,
         SubmitForm(e, scopes, servers, readOnly)
  PROVE  PInv' /\ WithinEditorsCap
<1> DEFINE i == form[e].id
           new == IF scopes = {} THEN file[i].scopes ELSE scopes
           row == [file[i] EXCEPT !.scopes = new, !.servers = servers, !.readOnly = readOnly]
           rows == [file EXCEPT ![i] = row]
<1>1. i \in DOMAIN file /\ file[i] \in Row
  BY DEF SubmitForm, Unedited, PInv, PagesTypeOK
<1>2. new \in ScopeChoice
  BY <1>1 DEF Row
<1>3. Save(e, rows)
  BY DEF SubmitForm
<1>4. row \in Row /\ row.secret = file[i].secret /\ row.scopes = new
  BY <1>1, <1>2 DEF Row
<1>5. form' = [form EXCEPT ![e] = NoForm] /\ saving = None
  BY DEF SubmitForm
<1>6. new # file[i].scopes => WithinCap(e, new)
  BY DEF SubmitForm
<1>7. ~stale /\ ~SentUnguarded(e) => WithinCap(e, file[i].scopes)
  <2>1. form[e].stage = "posted" /\ form'[e] # form[e]
    BY <1>5 DEF SubmitForm, NoForm, PInv, FormsBehind
  <2>2. form[e].seen # {} => version \in form[e].seen
    BY DEF SubmitForm, Unedited
  <2> QED BY <1>1, <2>1, <2>2 DEF SentUnguarded, PInv, PostedWithinCap
<1> HIDE DEF row, new, i
<1>8. /\ DOMAIN rows = DOMAIN file /\ rows[i] = row
      /\ \A j \in DOMAIN file \ {i} : rows[j] = file[j]
  BY <1>1
<1> HIDE DEF rows
<1>9. PInv'
  <2>1. \A j, k \in DOMAIN rows : rows[j].secret = rows[k].secret => j = k
    BY <1>1, <1>4, <1>8 DEF PInv, PagesTypeOK
  <2>2. \A j \in DOMAIN rows : j \in TokenId /\ rows[j] \in Row
    BY <1>1, <1>4, <1>8 DEF PInv, PagesTypeOK
  <2>3. form' \in [Editor -> {NoForm} \cup PageForm]
        /\ \A d \in Editor : form'[d] = form[d] \/ form'[d] = NoForm
    BY <1>5 DEF PInv, FormsBehind
  <2> QED BY <1>3, <1>5, <2>1, <2>2, <2>3, SaveStep
<1>10. WithinEditorsCap
  BY <1>3, <1>4, <1>5, <1>6, <1>7, <1>8 DEF WithinEditorsCap, Save
<1> QED BY <1>9, <1>10

LEMMA ReloadStep == ASSUME PInv, Reload PROVE PInv' /\ WithinEditorsCap
<1>1. PagesTypeOK'
  BY DEF PInv, PagesTypeOK, Reload
<1>2. /\ saving # None /\ saving' = None
      /\ UNCHANGED <<file, version, form>>
  BY DEF Reload
<1>3. FormsBehind'
  BY <1>2 DEF PInv, FormsBehind
<1>4. PostedWithinCap'
  <2>1. \A e \in Editor : form[e].stage = "posted" => form[e] # NoForm
    BY DEF NoForm
  <2>2. version \in Nat
    BY PagesAssumption DEF PInv, PagesTypeOK, PagesAssumption
  <2>3. \A e \in Editor : form[e].stage = "posted" => version \notin form[e].seen
    BY <1>2, <2>1, <2>2 DEF PInv, FormsBehind
  <2> QED BY <1>2, <2>3 DEF PostedWithinCap
<1>5. WithinEditorsCap
  BY <1>2 DEF WithinEditorsCap
<1> QED BY <1>1, <1>3, <1>4, <1>5 DEF PInv

LEMMA PagesStep == ASSUME PInv, PagesNext PROVE PInv' /\ WithinEditorsCap
BY CreateStep, OpenStep, ToggleStep, RegenerateStep, PostStep, RefuseStep, SubmitStep,
   DeleteStep, ReloadStep
   DEF PagesNext

LEMMA PagesStutter == ASSUME PInv, UNCHANGED portal PROVE PInv' /\ WithinEditorsCap
<1> USE DEF portal
<1>1. PagesTypeOK'
  BY DEF PInv, PagesTypeOK
<1>2. FormsBehind' /\ PostedWithinCap'
  BY DEF PInv, FormsBehind, PostedWithinCap, WithinCap, Expanded, Wild
<1>3. WithinEditorsCap
  BY DEF WithinEditorsCap
<1> QED BY <1>1, <1>2, <1>3 DEF PInv
-----------------------------------------------------------------------------
(* The inductive invariant of the requests *)

\* RightsHeld, of one request
RightsOf(q) ==
  LET info == q.info
      job == q.job IN
  /\ job.server \in info.servers
  /\ Wild(info.scopes) \/ ToolDef[job.tool].prefixes \subseteq Expanded(info.scopes)
  /\ ToolDef[job.tool].writes => ~info.readOnly /\ job.server \notin ReadOnlyServer

RequestOK(q) ==
  \/ q = Idle
  \/ q.stage = "open" /\ q.info.servers \subseteq Server
  \/ /\ q.stage = "call" /\ q.info.servers \subseteq Server
     /\ q.job.tool \in Tool /\ q.job.by.from \in Confirmation \cup {None}
     /\ RightsOf(q)

ActionOK(a) ==
  \/ a.stage \in {"unused", "spent"}
  \/ a.stage = "waiting" /\ a.tool \in Tool

\* the prepared action a request is about to carry out
FromOf(q) == IF q.stage = "call" THEN q.job.by.from ELSE None

Tables ==
  /\ req = [r \in Request |-> req[r]] /\ \A r \in Request : RequestOK(req[r])
  /\ pending = [c \in Confirmation |-> pending[c]]
  /\ \A c \in Confirmation : ActionOK(pending[c])
  /\ done = [c \in Confirmation |-> done[c]]
  /\ \A c \in Confirmation : done[c] \in {0, 1} /\ (done[c] = 1 => pending[c].stage = "spent")

\* A request that confirmed an action is the only one that carries it out, and it did not
\* do so yet.
CarriedOnce ==
  \A r \in Request : FromOf(req[r]) # None =>
    /\ pending[FromOf(req[r])].stage = "spent" /\ done[FromOf(req[r])] = 0
    /\ \A s \in Request : FromOf(req[s]) = FromOf(req[r]) => s = r

CInv == Tables /\ CarriedOnce

IInv == PInv /\ CInv

LEMMA InitCInv == Init => CInv
<1> SUFFICES ASSUME Init PROVE CInv
  OBVIOUS
<1>1. Tables
  BY DEF Init, Tables, RequestOK, ActionOK
<1>2. CarriedOnce
  BY DEF Init, CarriedOnce, FromOf, Idle
<1> QED BY <1>1, <1>2 DEF CInv

LEMMA RestartCInv == ASSUME CInv, Restart PROVE CInv'
<1>1. /\ \A r \in Request : req'[r] = Idle
      /\ \A c \in Confirmation : pending'[c] = IF pending[c].stage = "waiting"
                                               THEN [stage |-> "spent"] ELSE pending[c]
      /\ done' = done
  BY DEF Restart
<1>2. Tables'
  <2>1. req' = [r \in Request |-> req'[r]] /\ pending' = [c \in Confirmation |-> pending'[c]]
    BY DEF Restart
  <2>2. \A r \in Request : RequestOK(req'[r])
    BY <1>1 DEF RequestOK
  <2>3. \A c \in Confirmation : ActionOK(pending'[c])
    BY <1>1 DEF CInv, Tables, ActionOK
  <2>4. \A c \in Confirmation : done[c] = 1 => pending'[c].stage = "spent"
    BY <1>1 DEF CInv, Tables
  <2> QED BY <1>1, <2>1, <2>2, <2>3, <2>4 DEF CInv, Tables, RequestOK, ActionOK, RightsOf
<1>3. CarriedOnce'
  BY <1>1 DEF CarriedOnce, FromOf, Idle
<1> QED BY <1>2, <1>3 DEF CInv

\* One request moves, and is not about to carry out an action that it did not carry before.
LEMMA RequestMoves ==
  ASSUME CInv, NEW r \in Request, NEW q, RequestOK(q), FromOf(q) = None,
         req' = [req EXCEPT ![r] = q], UNCHANGED <<pending, done>>
  PROVE  CInv'
<1>1. \A s \in Request : req'[s] = IF s = r THEN q ELSE req[s]
  BY DEF CInv, Tables
<1>2. Tables'
  <2>1. req' = [s \in Request |-> req'[s]]
    BY DEF CInv, Tables
  <2>2. \A s \in Request : RequestOK(req'[s])
    BY <1>1 DEF CInv, Tables
  <2>3. \A c \in Confirmation : ActionOK(pending'[c])
    BY DEF CInv, Tables
  <2> QED BY <2>1, <2>2, <2>3 DEF CInv, Tables, RequestOK, ActionOK, RightsOf
<1>3. CarriedOnce'
  <2>1. \A s \in Request : FromOf(req'[s]) = IF s = r THEN None ELSE FromOf(req[s])
    BY <1>1
  <2> QED BY <2>1 DEF CInv, CarriedOnce
<1> QED BY <1>2, <1>3 DEF CInv

-----------------------------------------------------------------------------
(* The steps of the requests *)

LEMMA CallOK ==
  ASSUME NEW q, NEW t \in Tool, NEW s \in Server, NEW by, q.info.servers \subseteq Server,
         by.from \in Confirmation \cup {None},
         s \in q.info.servers,
         Wild(q.info.scopes) \/ ToolDef[t].prefixes \subseteq Expanded(q.info.scopes),
         ToolDef[t].writes => ~q.info.readOnly /\ s \notin ReadOnlyServer
  PROVE  LET new == [stage |-> "call", info |-> q.info,
                     job |-> [tool |-> t, server |-> s, by |-> by]]
         IN  RequestOK(new) /\ FromOf(new) = by.from
BY DEF RequestOK, RightsOf, FromOf

LEMMA ResolvedServer ==
  ASSUME NEW info, NEW named, NEW s \in Resolved(info, named), info.servers \subseteq Server
  PROVE  s \in Server
BY CallsAssumption DEF Resolved, DefaultFor, CallsAssumption

LEMMA OpenRequest ==
  ASSUME CInv, NEW r \in Request, req[r].stage = "open"
  PROVE  req[r].info.servers \subseteq Server
BY DEF CInv, Tables, RequestOK, Idle

LEMMA CallingRequest ==
  ASSUME CInv, NEW r \in Request, req[r].stage = "call"
  PROVE  /\ RightsOf(req[r]) /\ req[r].info.servers \subseteq Server
         /\ req[r].job.tool \in Tool /\ req[r].job.by.from \in Confirmation \cup {None}
BY DEF CInv, Tables, RequestOK, Idle

LEMMA NoRequest == RequestOK(Idle) /\ FromOf(Idle) = None
BY DEF RequestOK, FromOf, Idle

LEMMA TokenStep ==
  ASSUME IInv, NEW r \in Request, NEW secret \in Secret, AuthenticateToken(r, secret)
  PROVE  CInv'
<1>1. PICK i \in DOMAIN store : req' = [req EXCEPT ![r] = [stage |-> "open", info |-> InfoOf(i)]]
  BY DEF AuthenticateToken
<1> DEFINE q == [stage |-> "open", info |-> InfoOf(i)]
<1>2. store[i] \in Row
  BY DEF IInv, PInv, PagesTypeOK
<1>3. InfoOf(i).servers \subseteq Server
  BY <1>2, PagesAssumption DEF InfoOf, Row, PagesAssumption
<1>4. RequestOK(q) /\ FromOf(q) = None
  BY <1>3 DEF RequestOK, FromOf
<1>5. UNCHANGED <<pending, done>>
  BY DEF AuthenticateToken
<1> HIDE DEF q
<1>6. req' = [req EXCEPT ![r] = q]
  BY <1>1 DEF q
<1> QED BY <1>4, <1>5, <1>6, RequestMoves DEF IInv

LEMMA PersonStep ==
  ASSUME IInv, NEW r \in Request, NEW p \in Person, AuthenticatePerson(r, p)
  PROVE  CInv'
<1> DEFINE q == [stage |-> "open", info |-> GrantInfo(p)]
<1>1. RequestOK(q) /\ FromOf(q) = None
  BY DEF RequestOK, FromOf, GrantInfo
<1>2. req' = [req EXCEPT ![r] = q] /\ UNCHANGED <<pending, done>>
  BY DEF AuthenticatePerson
<1> HIDE DEF q
<1> QED BY <1>1, <1>2, RequestMoves DEF IInv

LEMMA ToolStep ==
  ASSUME IInv, NEW r \in Request, NEW t \in Tool, NEW named, CallTool(r, t, named)
  PROVE  CInv'
<1>1. PICK s \in Resolved(req[r].info, named) :
        /\ Authorised(req[r].info, s, ToolDef[t].prefixes, ToolDef[t].writes)
        /\ ToolDef[t].writes => CheckWrite(s)
        /\ Begin(r, t, s, Direct)
  BY DEF CallTool
<1> DEFINE q == [stage |-> "call", info |-> req[r].info,
                 job |-> [tool |-> t, server |-> s, by |-> Direct]]
<1>2. req[r].info.servers \subseteq Server /\ s \in Server
  BY OpenRequest, ResolvedServer DEF CallTool, IInv
<1>3. RequestOK(q) /\ FromOf(q) = None
  BY <1>1, <1>2, CallOK DEF Authorised, CheckWrite, Direct
<1>4. req' = [req EXCEPT ![r] = q] /\ UNCHANGED <<pending, done>>
  BY <1>1 DEF CallTool, Begin
<1> HIDE DEF q
<1> QED BY <1>3, <1>4, RequestMoves DEF IInv

\* What the raw call takes for a read is no write: CallsAssumption.
LEMMA RawStep ==
  ASSUME IInv, NEW r \in Request, NEW t \in Tool, NEW named, CallRaw(r, t, named)
  PROVE  CInv'
<1>1. PICK s \in Resolved(req[r].info, named) :
        /\ Authorised(req[r].info, s, ToolDef[t].prefixes, ~RawReads(t))
        /\ RawReads(t) \/ CheckWrite(s)
        /\ Begin(r, t, s, Direct)
  BY DEF CallRaw
<1> DEFINE q == [stage |-> "call", info |-> req[r].info,
                 job |-> [tool |-> t, server |-> s, by |-> Direct]]
<1>2. req[r].info.servers \subseteq Server /\ s \in Server
  BY OpenRequest, ResolvedServer DEF CallRaw, IInv
<1>3. RawReads(t) => ~ToolDef[t].writes
  BY CallsAssumption DEF RawReads, CallsAssumption
<1>4. RequestOK(q) /\ FromOf(q) = None
  BY <1>1, <1>2, <1>3, CallOK DEF Authorised, CheckWrite, Direct
<1>5. req' = [req EXCEPT ![r] = q] /\ UNCHANGED <<pending, done>>
  BY <1>1 DEF CallRaw, Begin
<1> HIDE DEF q
<1> QED BY <1>4, <1>5, RequestMoves DEF IInv

\* The actions that wait, apart from what a step does with requests: no action comes back,
\* and none that was carried out stops being spent.
LEMMA ActionsMove ==
  ASSUME CInv, req' = [r \in Request |-> req'[r]], \A r \in Request : RequestOK(req'[r]),
         \A r \in Request : FromOf(req'[r]) = None \/ FromOf(req'[r]) = FromOf(req[r]),
         pending' = [c \in Confirmation |-> pending'[c]],
         \A c \in Confirmation : /\ ActionOK(pending'[c])
                                 /\ pending[c].stage = "spent" => pending'[c].stage = "spent",
         UNCHANGED done
  PROVE  CInv'
<1>1. Tables'
  BY DEF CInv, Tables, RequestOK, ActionOK, RightsOf
<1>2. CarriedOnce'
  <2> SUFFICES ASSUME NEW r \in Request, FromOf(req'[r]) # None
               PROVE  /\ pending'[FromOf(req'[r])].stage = "spent"
                      /\ done[FromOf(req'[r])] = 0
                      /\ \A s \in Request : FromOf(req'[s]) = FromOf(req'[r]) => s = r
    BY DEF CarriedOnce, FromOf
  <2>1. FromOf(req'[r]) = FromOf(req[r])
    OBVIOUS
  <2>2. FromOf(req[r]) \in Confirmation
    BY <2>1, CallingRequest DEF FromOf
  <2> QED BY <2>1, <2>2 DEF CInv, CarriedOnce
<1> QED BY <1>1, <1>2 DEF CInv

LEMMA PrepareStep ==
  ASSUME IInv, NEW r \in Request, NEW c \in Confirmation, NEW t \in Tool, NEW named,
         PrepareAction(r, c, t, named)
  PROVE  CInv'
<1>1. PICK server : pending' = [d \in Confirmation |->
            IF d = c THEN [stage |-> "waiting", tool |-> t, server |-> server, expired |-> FALSE,
                           owner |-> req[r].info.id, preparer |-> req[r].info.caller]
            ELSE IF pending[d].stage = "waiting" /\ pending[d].expired THEN [stage |-> "spent"]
            ELSE pending[d]]
  BY DEF PrepareAction
<1>2. pending[c].stage = "unused" /\ req' = [req EXCEPT ![r] = Idle] /\ UNCHANGED done
  BY DEF PrepareAction
<1>3. \A d \in Confirmation : /\ ActionOK(pending'[d])
                              /\ pending[d].stage = "spent" => pending'[d].stage = "spent"
  <2> TAKE d \in Confirmation
  <2>1. CASE d = c
    BY <1>1, <1>2, <2>1 DEF ActionOK
  <2>2. CASE d # c
    BY <1>1, <2>2 DEF IInv, CInv, Tables, ActionOK
  <2> QED BY <2>1, <2>2
<1>4. \A s \in Request : req'[s] = IF s = r THEN Idle ELSE req[s]
  BY <1>2 DEF IInv, CInv, Tables
<1>5. req' = [s \in Request |-> req'[s]]
  BY <1>2 DEF IInv, CInv, Tables
<1>6. \A s \in Request : /\ RequestOK(req'[s])
                         /\ FromOf(req'[s]) = None \/ FromOf(req'[s]) = FromOf(req[s])
  BY <1>4, NoRequest DEF IInv, CInv, Tables
<1>7. pending' = [d \in Confirmation |-> pending'[d]]
  BY <1>1
<1> QED BY <1>2, <1>3, <1>5, <1>6, <1>7, ActionsMove DEF IInv

LEMMA ExpireStep ==
  ASSUME IInv, NEW c \in Confirmation, Expire(c)
  PROVE  CInv'
<1>1. /\ pending[c].stage = "waiting" /\ pending' = [pending EXCEPT ![c].expired = TRUE]
      /\ UNCHANGED <<req, done>>
  BY DEF Expire
<1>2. pending' = [d \in Confirmation |-> pending'[d]]
  BY <1>1 DEF IInv, CInv, Tables
<1>3. \A d \in Confirmation : pending'[d] = IF d = c THEN [pending[c] EXCEPT !.expired = TRUE]
                                            ELSE pending[d]
  BY <1>1 DEF IInv, CInv, Tables
<1>4. \A d \in Confirmation : /\ ActionOK(pending'[d])
                              /\ pending[d].stage = "spent" => pending'[d].stage = "spent"
  <2> TAKE d \in Confirmation
  <2>1. CASE d # c
    BY <1>3, <2>1 DEF IInv, CInv, Tables
  <2>2. CASE d = c
    <3>1. ActionOK(pending[c])
      BY DEF IInv, CInv, Tables
    <3>2. pending'[d] = [pending[c] EXCEPT !.expired = TRUE]
      BY <1>3, <2>2
    <3> QED BY <1>1, <2>2, <3>1, <3>2 DEF ActionOK
  <2> QED BY <2>1, <2>2
<1>5. req' = [r \in Request |-> req'[r]] /\ \A r \in Request : RequestOK(req'[r])
  BY <1>1 DEF IInv, CInv, Tables
<1> QED BY <1>1, <1>2, <1>4, <1>5, ActionsMove DEF IInv

\* The action is popped before anything else, so no other request finds it waiting.
LEMMA ConfirmStep ==
  ASSUME IInv, NEW r \in Request, NEW c \in Confirmation, ConfirmAction(r, c)
  PROVE  CInv'
<1> DEFINE t == pending[c].tool
           srv == pending[c].server
           by == [from |-> c, owner |-> pending[c].owner, preparer |-> pending[c].preparer]
           q == IF Confirmable(req[r].info, pending[c])
                THEN [stage |-> "call", info |-> req[r].info,
                      job |-> [tool |-> t, server |-> srv, by |-> by]]
                ELSE Idle
<1>1. /\ req[r].stage = "open" /\ pending[c].stage = "waiting"
      /\ pending' = [pending EXCEPT ![c] = Popped(c)] /\ UNCHANGED done
  BY DEF ConfirmAction
<1>2. req' = [req EXCEPT ![r] = q]
  BY DEF ConfirmAction, Begin
<1>3. t \in Tool
  BY <1>1 DEF IInv, CInv, Tables, ActionOK
<1>4. RequestOK(q) /\ (FromOf(q) = None \/ FromOf(q) = c)
  <2>1. CASE ~Confirmable(req[r].info, pending[c])
    BY <2>1, NoRequest
  <2>2. CASE Confirmable(req[r].info, pending[c])
    <3>1. /\ Authorised(req[r].info, srv, ToolDef[t].prefixes, TRUE)
          /\ CheckWrite(srv)
      BY <2>2 DEF Confirmable
    <3>2. req[r].info.servers \subseteq Server /\ srv \in Server
      BY <1>1, <3>1, OpenRequest DEF Authorised, IInv
    <3>3. by.from = c
      OBVIOUS
    <3>4. q = [stage |-> "call", info |-> req[r].info,
               job |-> [tool |-> t, server |-> srv, by |-> by]]
      BY <2>2
    <3> HIDE DEF t, srv, by, q
    <3> QED BY <1>3, <3>1, <3>2, <3>3, <3>4, CallOK DEF Authorised, CheckWrite
  <2> QED BY <2>1, <2>2
<1> HIDE DEF t, srv, by, q
<1>5. \A u \in Request : req'[u] = IF u = r THEN q ELSE req[u]
  BY <1>2 DEF IInv, CInv, Tables
<1>6. \A d \in Confirmation : pending'[d] = IF d = c THEN [stage |-> "spent"] ELSE pending[d]
  BY <1>1 DEF IInv, CInv, Tables, Popped
<1>7. Tables'
  <2>1. req' = [u \in Request |-> req'[u]] /\ pending' = [d \in Confirmation |-> pending'[d]]
    BY <1>1, <1>2 DEF IInv, CInv, Tables
  <2>2. \A u \in Request : RequestOK(req'[u])
    BY <1>4, <1>5 DEF IInv, CInv, Tables
  <2>3. \A d \in Confirmation : ActionOK(pending'[d])
    BY <1>6 DEF IInv, CInv, Tables, ActionOK
  <2>4. \A d \in Confirmation : done'[d] \in {0, 1} /\ (done'[d] = 1 => pending'[d].stage = "spent")
    BY <1>1, <1>6 DEF IInv, CInv, Tables
  <2>5. done' = [d \in Confirmation |-> done'[d]]
    BY <1>1 DEF IInv, CInv, Tables
  <2> QED BY <2>1, <2>2, <2>3, <2>4, <2>5 DEF Tables, RequestOK, ActionOK, RightsOf
<1>8. CarriedOnce'
  \* an action that waits was carried out by nobody, and nobody is about to
  <2>1. done[c] = 0 /\ \A u \in Request : FromOf(req[u]) # c
    <3>1. c # None
      BY CallsAssumption DEF CallsAssumption
    <3> QED BY <1>1, <3>1 DEF IInv, CInv, Tables, CarriedOnce
  <2>2. \A u \in Request : FromOf(req[u]) # None => FromOf(req[u]) \in Confirmation
    BY CallingRequest DEF IInv, FromOf
  <2> SUFFICES ASSUME NEW u \in Request, FromOf(req'[u]) # None
               PROVE  /\ pending'[FromOf(req'[u])].stage = "spent"
                      /\ done[FromOf(req'[u])] = 0
                      /\ \A v \in Request : FromOf(req'[v]) = FromOf(req'[u]) => v = u
    BY <1>1 DEF CarriedOnce, FromOf
  <2>3. CASE u = r
    BY <1>4, <1>5, <1>6, <2>1, <2>3
  <2>4. CASE u # r
    <3>1. FromOf(req'[u]) = FromOf(req[u]) /\ FromOf(req[u]) # c /\ FromOf(req[u]) \in Confirmation
      BY <1>5, <2>1, <2>2, <2>4
    <3>2. pending[FromOf(req[u])].stage = "spent" /\ done[FromOf(req[u])] = 0
      BY <3>1 DEF IInv, CInv, CarriedOnce
    <3>3. \A v \in Request : FromOf(req'[v]) = FromOf(req[u]) => v = u
      BY <1>4, <1>5, <3>1 DEF IInv, CInv, CarriedOnce
    <3> QED BY <1>6, <3>1, <3>2, <3>3
  <2> QED BY <2>3, <2>4
<1> QED BY <1>7, <1>8 DEF CInv

LEMMA CarryStep ==
  ASSUME IInv, NEW r \in Request, Carry(r)
  PROVE  CInv'
<1> DEFINE c == FromOf(req[r])
<1>1. /\ req[r].stage = "call" /\ req' = [req EXCEPT ![r] = Idle]
      /\ done' = IF c = None THEN done ELSE [done EXCEPT ![c] = @ + 1]
      /\ UNCHANGED pending
  BY DEF Carry, FromOf
<1>2. CASE c = None
  BY <1>1, <1>2, NoRequest, RequestMoves DEF IInv
<1>3. CASE c # None
  <2>1. c \in Confirmation /\ pending[c].stage = "spent" /\ done[c] = 0
    BY <1>1, <1>3, CallingRequest DEF IInv, CInv, CarriedOnce, FromOf
  <2> HIDE DEF c
  <2>2. \A d \in Confirmation : done'[d] = IF d = c THEN 1 ELSE done[d]
    BY <1>1, <1>3, <2>1 DEF IInv, CInv, Tables
  <2>3. \A s \in Request : req'[s] = IF s = r THEN Idle ELSE req[s]
    BY <1>1 DEF IInv, CInv, Tables
  <2>4. \A s \in Request : s # r /\ FromOf(req[s]) # None => FromOf(req[s]) # c
    BY <1>3 DEF c, IInv, CInv, CarriedOnce
  <2>5. Tables'
    <3>1. /\ req' = [s \in Request |-> req'[s]]
          /\ done' = [d \in Confirmation |-> done'[d]]
          /\ pending' = [d \in Confirmation |-> pending'[d]]
      BY <1>1, <1>3 DEF IInv, CInv, Tables
    <3>2. \A s \in Request : RequestOK(req'[s])
      BY <2>3, NoRequest DEF IInv, CInv, Tables
    <3>3. \A d \in Confirmation : ActionOK(pending'[d])
      BY <1>1 DEF IInv, CInv, Tables
    <3>4. \A d \in Confirmation :
            done'[d] \in {0, 1} /\ (done'[d] = 1 => pending'[d].stage = "spent")
      BY <1>1, <2>1, <2>2 DEF IInv, CInv, Tables
    <3> QED BY <3>1, <3>2, <3>3, <3>4 DEF Tables, RequestOK, ActionOK, RightsOf
  <2>6. CarriedOnce'
    <3> SUFFICES ASSUME NEW s \in Request, FromOf(req'[s]) # None
                 PROVE  /\ pending[FromOf(req'[s])].stage = "spent"
                        /\ done'[FromOf(req'[s])] = 0
                        /\ \A v \in Request : FromOf(req'[v]) = FromOf(req'[s]) => v = s
      BY <1>1 DEF CarriedOnce, FromOf
    <3>1. s # r /\ FromOf(req'[s]) = FromOf(req[s])
      BY <2>3, NoRequest
    <3>2. FromOf(req[s]) \in Confirmation
      BY <3>1, CallingRequest DEF IInv, FromOf
    <3>3. \A v \in Request : FromOf(req'[v]) = FromOf(req'[s]) => v = s
      BY <2>3, <3>1, NoRequest DEF IInv, CInv, CarriedOnce
    <3> QED BY <2>2, <2>4, <3>1, <3>2, <3>3 DEF IInv, CInv, CarriedOnce
  <2> QED BY <2>5, <2>6 DEF CInv
<1> QED BY <1>2, <1>3

LEMMA EndStep == ASSUME IInv, NEW r \in Request, End(r) PROVE CInv'
BY NoRequest, RequestMoves DEF End, IInv

LEMMA CallsStutter == ASSUME CInv, UNCHANGED <<req, pending, done>> PROVE CInv'
<1>1. Tables'
  BY DEF CInv, Tables, RequestOK, ActionOK, RightsOf
<1>2. CarriedOnce'
  BY DEF CInv, CarriedOnce, FromOf
<1> QED BY <1>1, <1>2 DEF CInv

-----------------------------------------------------------------------------
(* The theorems *)

LEMMA RequestsStep == ASSUME IInv, NEW r \in Request, RequestStep(r) PROVE CInv' /\ UNCHANGED portal
<1>1. CInv'
  BY TokenStep, PersonStep, ToolStep, RawStep, PrepareStep, ConfirmStep, CarryStep, EndStep
     DEF RequestStep
<1>2. UNCHANGED portal
  BY DEF RequestStep, AuthenticateToken, AuthenticatePerson, CallTool, CallRaw, PrepareAction,
         ConfirmAction, Carry, End
<1> QED BY <1>1, <1>2

\* A restart writes nothing.
LEMMA RestartStep == ASSUME IInv, Restart PROVE IInv' /\ WithinEditorsCap
<1>1. PInv'
  BY RestartPInv DEF Restart, IInv
<1>2. CInv'
  BY RestartCInv DEF IInv
<1>3. WithinEditorsCap
  BY DEF Restart, PagesRestart, WithinEditorsCap
<1> QED BY <1>1, <1>2, <1>3 DEF IInv

LEMMA InvStep == IInv /\ [Next]_vars => IInv' /\ WithinEditorsCap
<1> SUFFICES ASSUME IInv, [Next]_vars PROVE IInv' /\ WithinEditorsCap
  OBVIOUS
<1>1. CASE PagesNext /\ UNCHANGED <<req, pending, done>>
  BY <1>1, PagesStep, CallsStutter DEF IInv
<1>2. CASE Restart
  BY <1>2, RestartStep
<1>3. CASE \E r \in Request : RequestStep(r)
  BY <1>3, RequestsStep, PagesStutter DEF IInv
<1>4. CASE \E c \in Confirmation : Expire(c)
  <2>1. UNCHANGED portal
    BY <1>4 DEF Expire
  <2> QED BY <1>4, <2>1, ExpireStep, PagesStutter DEF IInv
<1>5. CASE UNCHANGED vars
  BY <1>5, PagesStutter, CallsStutter DEF IInv, vars
<1> QED BY <1>1, <1>2, <1>3, <1>4, <1>5 DEF Next

LEMMA IInvInvariant == Spec => []IInv
<1>1. Init => IInv
  BY InitPInv, InitCInv DEF IInv, Init
<1> QED BY <1>1, InvStep, PTL DEF Spec

\* The files, the store and the requests have the shape the code relies on, no two rows
\* share a secret, and a prepared action is carried out once at most (action_confirm pops
\* it before it does anything else).
THEOREM PreparedOnce == Spec => []TypeOK
<1>1. IInv => TypeOK
  <2> SUFFICES ASSUME IInv PROVE TypeOK
    OBVIOUS
  <2>1. PagesTypeOK
    BY DEF IInv, PInv
  <2>2. \A r \in Request :
          /\ req[r].stage \in {"idle", "open", "call"}
          /\ req[r].stage = "call" => req[r].job.tool \in Tool /\ req[r].job.server \in Server
    BY DEF IInv, CInv, Tables, RequestOK, RightsOf, Idle
  <2>3. \A c \in Confirmation :
          /\ pending[c].stage \in {"unused", "waiting", "spent"}
          /\ done[c] \in {0, 1} /\ (done[c] = 1 => pending[c].stage = "spent")
    BY DEF IInv, CInv, Tables, ActionOK
  <2> QED BY <2>1, <2>2, <2>3 DEF TypeOK
<1> QED BY <1>1, IInvInvariant, PTL

\* Whatever the portal does to the tokens between the check and the call, and whatever was
\* prepared before, a call that goes to Zabbix is within the rights of its request.
THEOREM CallsWithinRights == Spec => []RightsHeld
<1>1. IInv => RightsHeld
  <2> SUFFICES ASSUME IInv, NEW r \in Request, req[r].stage = "call" PROVE RightsOf(req[r])
    BY DEF RightsHeld, RightsOf
  <2> QED BY CallingRequest DEF IInv
<1> QED BY <1>1, IInvInvariant, PTL

\* No session of the portal gives a token scopes its role may not hand out, nor, unless its
\* page carries no modification time, changes a token that has such scopes, however many
\* sessions edit at once.
THEOREM EditorsWithinTheirRole == Spec => EditsWithinCap
<1>1. IInv /\ [Next]_vars => [WithinEditorsCap]_portal
  BY InvStep
<1> QED BY <1>1, IInvInvariant, PTL
       DEF Spec, EditsWithinCap, WithinEditorsCap, SentUnguarded

\* tools/list leaves out nothing that the caller could call on some server.
THEOREM CallableIsListed == Spec => []NothingHidden
<1>1. NothingHidden
  <2> SUFFICES ASSUME NEW r \in Request, NEW t \in Tool, NEW knownServers \in SUBSET Server,
                      ~ToolDef[t].extension, NEW s \in CallableOn(req[r].info, t)
               PROVE  t \in Listed(req[r].info, knownServers)
    BY DEF NothingHidden
  <2>1. t \in ListedByToken(req[r].info)
    BY DEF CallableOn, Authorised, ListedByToken
  <2>2. t \in ListedByMode(req[r].info)
    BY DEF CallableOn, Authorised, CheckWrite, ListedByMode
  <2>3. t \in ListedByVersion(req[r].info, knownServers)
    BY DEF CallableOn, Authorised, ListedByVersion
  <2> QED BY <2>1, <2>2, <2>3 DEF Listed
<1> QED BY <1>1, PTL

-----------------------------------------------------------------------------
(* The catalogue, which the tools are made of.  Its tables are proved right section by
   section; then any caller of it is. *)

\* the verbs that read, of any table
ReadVerbs == {"get", "getsli", "version", "export", "importcompare", "getscriptsbyevents",
              "getscriptsbyhosts", "checkauthentication", "getglobal", "getsla"}
WriteVerbs == {"acknowledge", "clear", "create", "createglobal", "delete", "deleteglobal",
               "execute", "generate", "import", "login", "logout", "massadd", "massremove",
               "massupdate", "offboard", "propagate", "provision", "push",
               "replacehostinterfaces", "resettimewindows", "resettotp", "test", "unblock",
               "update", "updateglobal"}
\* the record of a name
Named(object, verb) == [object |-> object, verb |-> verb, reads |-> verb \in ReadVerbs]
\* what the six groups hold
Everything == ExpandedGroups(DOMAIN ToolGroups)

\* Every entry of a table reads exactly when its verb does, and has a group.
Proper(S) == \A m \in S : m = Named(m.object, m.verb) /\ m.object \in Everything
Grouped(O) == \A o \in O : o \in Everything

LEMMA OfGroup ==
  ASSUME NEW g \in DOMAIN ToolGroups, NEW o \in ToolGroups[g] PROVE o \in Everything
BY DEF Everything, ExpandedGroups

LEMMA GroupedObjects ==
  Grouped({
    "host", "hostgroup", "hostinterface", "hostprototype", "item", "itemprototype", "trigger",
    "triggerprototype", "problem", "event", "history", "trend", "graph", "graphitem",
    "graphprototype", "discoveryrule", "discoveryruleprototype", "dcheck", "dhost", "drule",
    "dservice", "httptest", "sla", "service", "apmtrace", "apmspan", "apmlog", "apmmetric",
    "hostdashboard", "template", "templategroup", "templatedashboard", "valuemap", "dashboard",
    "action", "alert", "mediatype", "script", "ceprule", "user", "usergroup", "userdirectory",
    "usermacro", "token", "role", "mfa", "settings", "housekeeping", "authentication",
    "autoregistration", "configuration", "connector", "correlation", "hanode", "iconmap",
    "image", "maintenance", "map", "module", "proxy", "proxygroup", "regexp", "report", "task",
    "auditlog", "apiinfo", "serverinfo", "device", "zabbix_raw_api_call"})
BY OfGroup DEF Grouped, ToolGroups

LEMMA VerbsApart == \A v \in WriteVerbs : v \notin ReadVerbs
BY DEF WriteVerbs, ReadVerbs

LEMMA OfReads ==
  ASSUME NEW O, NEW V, Grouped(O), \A v \in V : v \in ReadVerbs
  PROVE Proper(Reads(O, V))
<1> SUFFICES ASSUME NEW m \in Reads(O, V) PROVE m = Named(m.object, m.verb) /\ m.object \in O
  BY DEF Proper, Grouped
<1>1. PICK o \in O, v \in V, r \in {TRUE} : m = [object |-> o, verb |-> v, reads |-> r]
  BY DEF Reads
<1>2. (v \in ReadVerbs) = TRUE
  OBVIOUS
<1> QED BY <1>1, <1>2 DEF Named

LEMMA OfWrites ==
  ASSUME NEW O, NEW V, Grouped(O), \A v \in V : v \in WriteVerbs
  PROVE Proper(Writes(O, V))
<1> SUFFICES ASSUME NEW m \in Writes(O, V) PROVE m = Named(m.object, m.verb) /\ m.object \in O
  BY DEF Proper, Grouped
<1>1. PICK o \in O, v \in V, r \in {FALSE} : m = [object |-> o, verb |-> v, reads |-> r]
  BY DEF Writes
<1>2. (v \in ReadVerbs) = FALSE
  BY VerbsApart
<1> QED BY <1>1, <1>2 DEF Named

LEMMA OfBoth == ASSUME NEW A, NEW B, Proper(A), Proper(B) PROVE Proper(A \cup B)
BY DEF Proper

LEMMA OfGets == ASSUME NEW O, Grouped(O) PROVE Proper(Gets(O))
<1>1. \A v \in {"get"} : v \in ReadVerbs
  BY DEF ReadVerbs
<1> QED BY <1>1, OfReads DEF Gets

LEMMA OfManaged == ASSUME NEW O, Grouped(O) PROVE Proper(Managed(O))
<1>1. \A v \in {"create", "update", "delete"} : v \in WriteVerbs
  BY DEF WriteVerbs
<1>2. Proper(Writes(O, {"create", "update", "delete"}))
  BY <1>1, OfWrites
<1>3. Proper(Gets(O))
  BY OfGets
<1> QED BY <1>2, <1>3, OfBoth DEF Managed

LEMMA OfMass == ASSUME NEW O, Grouped(O) PROVE Proper(Mass(O))
<1>1. \A v \in {"massadd", "massremove"} : v \in WriteVerbs
  BY DEF WriteVerbs
<1> QED BY <1>1, OfWrites DEF Mass

\* each section of the catalogue
LEMMA SectionsProper ==
  /\ Proper(Dashboards)
  /\ Proper(ReportsAndNodes)
  /\ Proper(Values)
  /\ Proper(Events)
  /\ Proper(Problems)
  /\ Proper(MapsAndTasks)
  /\ Proper(Slas)
  /\ Proper(Services)
  /\ Proper(Hosts)
  /\ Proper(GroupsAndInterfaces)
  /\ Proper(ItemsAndTriggers)
  /\ Proper(GraphsAndTemplates)
  /\ Proper(TemplateGroupsAndRules)
  /\ Proper(Prototypes)
  /\ Proper(MorePrototypes)
  /\ Proper(MacrosAndMaps)
  /\ Proper(MaintenanceAndCorrelation)
  /\ Proper(Discovery)
  /\ Proper(WebAndConfiguration)
  /\ Proper(ActionsAndAlerts)
  /\ Proper(MediaTypes)
  /\ Proper(Scripts)
  /\ Proper(UserEdits)
  /\ Proper(UserSessions)
  /\ Proper(UserGroups)
  /\ Proper(Directories)
  /\ Proper(RolesAndTokens)
  /\ Proper(Authentication)
  /\ Proper(RegistrationAndIcons)
  /\ Proper(ImagesAndSettings)
  /\ Proper(ExpressionsAndModules)
  /\ Proper(ConnectorsAndAudit)
  /\ Proper(Proxies)
  /\ Proper(Mfa)
  /\ Proper(Traces)
  /\ Proper(DevicesAndServer)
  /\ Proper(EventRules)
<1>1. Proper(Dashboards)
  BY OfManaged, GroupedObjects DEF Grouped, Dashboards
<1>2. Proper(ReportsAndNodes)
  BY OfManaged, OfGets, OfBoth, GroupedObjects DEF Grouped, ReportsAndNodes
<1>3. Proper(Values)
  BY OfGets, OfWrites, OfBoth, GroupedObjects DEF Grouped, WriteVerbs, Values
<1>4. Proper(Events)
  BY OfGets, OfWrites, OfBoth, GroupedObjects DEF Grouped, WriteVerbs, Events
<1>5. Proper(Problems)
  BY OfGets, GroupedObjects DEF Grouped, Problems
<1>6. Proper(MapsAndTasks)
  <2>1. Proper(Managed({"map"}))
    BY OfManaged, GroupedObjects DEF Grouped
  <2>2. Proper(Gets({"task"}))
    BY OfGets, GroupedObjects DEF Grouped
  <2>3. Proper(Writes({"task"}, {"create"}))
    BY OfWrites, GroupedObjects DEF Grouped, WriteVerbs
  <2> QED BY <2>1, <2>2, <2>3, OfBoth DEF MapsAndTasks
<1>7. Proper(Slas)
  BY OfManaged, OfReads, OfBoth, GroupedObjects DEF Grouped, ReadVerbs, Slas
<1>8. Proper(Services)
  BY OfManaged, GroupedObjects DEF Grouped, Services
<1>9. Proper(Hosts)
  <2>1. Proper(Managed({"host"}))
    BY OfManaged, GroupedObjects DEF Grouped
  <2>2. Proper(Mass({"host"}))
    BY OfMass, GroupedObjects DEF Grouped
  <2>3. Proper(Writes({"host"}, {"massupdate"}))
    BY OfWrites, GroupedObjects DEF Grouped, WriteVerbs
  <2> QED BY <2>1, <2>2, <2>3, OfBoth DEF Hosts
<1>10. Proper(GroupsAndInterfaces)
  <2>1. Proper(Managed({"hostgroup", "hostinterface"}))
    BY OfManaged, GroupedObjects DEF Grouped
  <2>2. Proper(Mass({"hostgroup", "hostinterface"}))
    BY OfMass, GroupedObjects DEF Grouped
  <2>3. Proper(Writes({"hostgroup"}, {"massupdate", "propagate"}))
    BY OfWrites, GroupedObjects DEF Grouped, WriteVerbs
  <2>4. Proper(Writes({"hostinterface"}, {"replacehostinterfaces"}))
    BY OfWrites, GroupedObjects DEF Grouped, WriteVerbs
  <2> QED BY <2>1, <2>2, <2>3, <2>4, OfBoth DEF GroupsAndInterfaces
<1>11. Proper(ItemsAndTriggers)
  BY OfManaged, GroupedObjects DEF Grouped, ItemsAndTriggers
<1>12. Proper(GraphsAndTemplates)
  <2>1. Proper(Managed({"graph", "template"}))
    BY OfManaged, GroupedObjects DEF Grouped
  <2>2. Proper(Gets({"graphitem"}))
    BY OfGets, GroupedObjects DEF Grouped
  <2>3. Proper(Mass({"template"}))
    BY OfMass, GroupedObjects DEF Grouped
  <2>4. Proper(Writes({"template"}, {"massupdate"}))
    BY OfWrites, GroupedObjects DEF Grouped, WriteVerbs
  <2> QED BY <2>1, <2>2, <2>3, <2>4, OfBoth DEF GraphsAndTemplates
<1>13. Proper(TemplateGroupsAndRules)
  <2>1. Proper(Managed({"templategroup", "discoveryrule"}))
    BY OfManaged, GroupedObjects DEF Grouped
  <2>2. Proper(Mass({"templategroup"}))
    BY OfMass, GroupedObjects DEF Grouped
  <2>3. Proper(Writes({"templategroup"}, {"massupdate", "propagate"}))
    BY OfWrites, GroupedObjects DEF Grouped, WriteVerbs
  <2> QED BY <2>1, <2>2, <2>3, OfBoth DEF TemplateGroupsAndRules
<1>14. Proper(Prototypes)
  BY OfManaged, GroupedObjects DEF Grouped, Prototypes
<1>15. Proper(MorePrototypes)
  BY OfManaged, GroupedObjects DEF Grouped, MorePrototypes
<1>16. Proper(MacrosAndMaps)
  BY OfManaged, OfWrites, OfBoth, GroupedObjects DEF Grouped, WriteVerbs, MacrosAndMaps
<1>17. Proper(MaintenanceAndCorrelation)
  BY OfManaged, GroupedObjects DEF Grouped, MaintenanceAndCorrelation
<1>18. Proper(Discovery)
  BY OfManaged, OfGets, OfBoth, GroupedObjects DEF Grouped, Discovery
<1>19. Proper(WebAndConfiguration)
  <2>1. Proper(Managed({"httptest"}))
    BY OfManaged, GroupedObjects DEF Grouped
  <2>2. Proper(Reads({"configuration"}, {"export", "importcompare"}))
    BY OfReads, GroupedObjects DEF Grouped, ReadVerbs
  <2>3. Proper(Writes({"configuration"}, {"import"}))
    BY OfWrites, GroupedObjects DEF Grouped, WriteVerbs
  <2> QED BY <2>1, <2>2, <2>3, OfBoth DEF WebAndConfiguration
<1>20. Proper(ActionsAndAlerts)
  BY OfManaged, OfGets, OfBoth, GroupedObjects DEF Grouped, ActionsAndAlerts
<1>21. Proper(MediaTypes)
  BY OfManaged, GroupedObjects DEF Grouped, MediaTypes
<1>22. Proper(Scripts)
  <2>1. Proper(Managed({"script"}))
    BY OfManaged, GroupedObjects DEF Grouped
  <2>2. Proper(Writes({"script"}, {"execute"}))
    BY OfWrites, GroupedObjects DEF Grouped, WriteVerbs
  <2>3. Proper(Reads({"script"}, {"getscriptsbyevents", "getscriptsbyhosts"}))
    BY OfReads, GroupedObjects DEF Grouped, ReadVerbs
  <2> QED BY <2>1, <2>2, <2>3, OfBoth DEF Scripts
<1>23. Proper(UserEdits)
  BY OfManaged, GroupedObjects DEF Grouped, UserEdits
<1>24. Proper(UserSessions)
  BY OfReads, OfWrites, OfBoth, GroupedObjects DEF Grouped, ReadVerbs, WriteVerbs, UserSessions
<1>25. Proper(UserGroups)
  BY OfManaged, GroupedObjects DEF Grouped, UserGroups
<1>26. Proper(Directories)
  BY OfManaged, OfWrites, OfBoth, GroupedObjects DEF Grouped, WriteVerbs, Directories
<1>27. Proper(RolesAndTokens)
  BY OfManaged, OfWrites, OfBoth, GroupedObjects DEF Grouped, WriteVerbs, RolesAndTokens
<1>28. Proper(Authentication)
  BY OfGets, OfWrites, OfBoth, GroupedObjects DEF Grouped, WriteVerbs, Authentication
<1>29. Proper(RegistrationAndIcons)
  <2>1. Proper(Gets({"autoregistration"}))
    BY OfGets, GroupedObjects DEF Grouped
  <2>2. Proper(Writes({"autoregistration"}, {"update"}))
    BY OfWrites, GroupedObjects DEF Grouped, WriteVerbs
  <2>3. Proper(Managed({"iconmap"}))
    BY OfManaged, GroupedObjects DEF Grouped
  <2> QED BY <2>1, <2>2, <2>3, OfBoth DEF RegistrationAndIcons
<1>30. Proper(ImagesAndSettings)
  <2>1. Proper(Managed({"image"}))
    BY OfManaged, GroupedObjects DEF Grouped
  <2>2. Proper(Gets({"settings"}))
    BY OfGets, GroupedObjects DEF Grouped
  <2>3. Proper(Writes({"settings"}, {"update"}))
    BY OfWrites, GroupedObjects DEF Grouped, WriteVerbs
  <2> QED BY <2>1, <2>2, <2>3, OfBoth DEF ImagesAndSettings
<1>31. Proper(ExpressionsAndModules)
  BY OfManaged, GroupedObjects DEF Grouped, ExpressionsAndModules
<1>32. Proper(ConnectorsAndAudit)
  <2>1. Proper(Managed({"connector"}))
    BY OfManaged, GroupedObjects DEF Grouped
  <2>2. Proper(Gets({"auditlog", "housekeeping"}))
    BY OfGets, GroupedObjects DEF Grouped
  <2>3. Proper(Writes({"housekeeping"}, {"update"}))
    BY OfWrites, GroupedObjects DEF Grouped, WriteVerbs
  <2> QED BY <2>1, <2>2, <2>3, OfBoth DEF ConnectorsAndAudit
<1>33. Proper(Proxies)
  BY OfManaged, GroupedObjects DEF Grouped, Proxies
<1>34. Proper(Mfa)
  BY OfManaged, GroupedObjects DEF Grouped, Mfa
<1>35. Proper(Traces)
  BY OfGets, GroupedObjects DEF Grouped, Traces
<1>36. Proper(DevicesAndServer)
  <2>1. Proper(Gets({"device", "serverinfo"}))
    BY OfGets, GroupedObjects DEF Grouped
  <2>2. Proper(Writes({"device"}, {"offboard"}))
    BY OfWrites, GroupedObjects DEF Grouped, WriteVerbs
  <2>3. Proper(Reads({"apiinfo"}, {"version"}))
    BY OfReads, GroupedObjects DEF Grouped, ReadVerbs
  <2> QED BY <2>1, <2>2, <2>3, OfBoth DEF DevicesAndServer
<1>37. Proper(EventRules)
  <2>1. Proper(Managed({"ceprule"}))
    BY OfManaged, GroupedObjects DEF Grouped
  <2>2. Proper(Writes({"ceprule"}, {"resettimewindows"}))
    BY OfWrites, GroupedObjects DEF Grouped, WriteVerbs
  <2>3. Proper(Gets({"hostdashboard"}))
    BY OfGets, GroupedObjects DEF Grouped
  <2> QED BY <2>1, <2>2, <2>3, OfBoth DEF EventRules
<1> QED BY <1>1, <1>2, <1>3, <1>4, <1>5, <1>6, <1>7, <1>8, <1>9, <1>10, <1>11, <1>12, <1>13,
      <1>14, <1>15, <1>16, <1>17, <1>18, <1>19, <1>20, <1>21, <1>22, <1>23, <1>24, <1>25, <1>26,
      <1>27, <1>28, <1>29, <1>30, <1>31, <1>32, <1>33, <1>34, <1>35, <1>36, <1>37

LEMMA MethodsProper == Proper(Methods)
BY SectionsProper DEF Proper, Methods

-----------------------------------------------------------------------------
(* What was taken away, and what a refusal names *)

\* The methods refusals name, with the release that names each first.
Advised == UNION {
  Entry(52, {"templatedashboard"}, CrudVerbs), Entry(54, {"settings"}, {"get"}),
  Entry(54, {"item"}, {"get", "update"}), Entry(54, {"dashboard"}, CrudVerbs),
  Entry(60, {"service"}, {"update"}),
  Entry(60, {"sla"}, {"create", "update", "getsli"}), Entry(62, {"trigger"}, {"update"}),
  Entry(72, {"discoveryrule"}, {"create", "get"}), Entry(80, {"host"}, {"update"}),
  Entry(80, {"hostgroup", "template", "templategroup"}, {"update", "massadd", "massremove"})}

\* a method of this name is advised at that release
AdvisedAt(at, object, verb) ==
  \E a \in Advised : a.object = object /\ a.verb = verb /\ a.at <= at

\* Entries of METHOD_REMOVED whose names read as they sound, and that name a way out which is
\* not taken away itself.
OutOfUse(S) ==
  \A e \in S :
    /\ e.at \in Nat
    /\ e.verb \in ReadVerbs <=> e.verb \in {"get", "getglobal", "getsla"}
    /\ e.instead # {}
    /\ \A r \in e.instead : AdvisedAt(e.at, r.object, r.verb)
    /\ \A a \in Advised : a.object # e.object \/ a.verb # e.verb

LEMMA AdvisedRecords ==
  \A a \in Advised :
    /\ a.at \in Nat
    /\ \/ a.at = 52 /\ a.object = "templatedashboard" /\ a.verb \in CrudVerbs
       \/ a.at = 54 /\ a.object = "settings" /\ a.verb = "get"
       \/ a.at = 54 /\ a.object = "item" /\ a.verb \in {"get", "update"}
       \/ a.at = 54 /\ a.object = "dashboard" /\ a.verb \in CrudVerbs
       \/ a.at = 60 /\ a.object = "service" /\ a.verb = "update"
       \/ a.at = 60 /\ a.object = "sla" /\ a.verb \in {"create", "update", "getsli"}
       \/ a.at = 62 /\ a.object = "trigger" /\ a.verb = "update"
       \/ a.at = 72 /\ a.object = "discoveryrule" /\ a.verb \in {"create", "get"}
       \/ a.at = 80 /\ a.object = "host" /\ a.verb = "update"
       \/ /\ a.at = 80 /\ a.object \in {"hostgroup", "template", "templategroup"}
          /\ a.verb \in {"update", "massadd", "massremove"}
BY DEF Advised, Entry

LEMMA OfEntry ==
  ASSUME NEW at \in Nat, NEW O, NEW V, Entry(at, O, V) \subseteq Advised, NEW o \in O
  PROVE \A v \in V : AdvisedAt(at, o, v)
<1> TAKE v \in V
<1>1. [at |-> at, object |-> o, verb |-> v] \in Entry(at, O, V)
  BY DEF Entry
<1> QED BY <1>1 DEF AdvisedAt

AdvisedObjects ==
  {"templatedashboard", "settings", "item", "dashboard", "service", "sla", "trigger",
   "discoveryrule", "host", "hostgroup", "template", "templategroup"}
AdvisedVerbs == {"get", "create", "update", "delete", "getsli", "massadd", "massremove"}

LEMMA AdvisedApart == \A a \in Advised : a.object \in AdvisedObjects /\ a.verb \in AdvisedVerbs
BY AdvisedRecords DEF AdvisedObjects, AdvisedVerbs, CrudVerbs

LEMMA OfGone ==
  ASSUME NEW at \in Nat, NEW object, NEW V, NEW object2, NEW V2, V2 # {},
         \A v \in V : v \in ReadVerbs <=> v \in {"get", "getglobal", "getsla"},
         object \notin AdvisedObjects \/ \A v \in V : v \notin AdvisedVerbs,
         \A v \in V2 : AdvisedAt(at, object2, v)
  PROVE OutOfUse(Gone(at, object, V, object2, V2))
<1> DEFINE I == [object : {object2}, verb : V2]
<1> SUFFICES ASSUME NEW e \in Gone(at, object, V, object2, V2) PROVE OutOfUse({e})
  BY DEF OutOfUse
<1>1. e.at = at /\ e.object = object /\ e.verb \in V /\ e.instead = I
  BY DEF Gone
<1>2. PICK v \in V2 : TRUE
  OBVIOUS
<1>3. [object |-> object2, verb |-> v] \in I
  OBVIOUS
<1>4. \A r \in I : r.object = object2 /\ r.verb \in V2
  OBVIOUS
<1>5. \A a \in Advised : a.object # e.object \/ a.verb # e.verb
  BY <1>1, AdvisedApart
<1> HIDE DEF I
<1>6. e.instead # {}
  BY <1>1, <1>3
<1>7. \A r \in e.instead : AdvisedAt(e.at, r.object, r.verb)
  BY <1>1, <1>4
<1>8. e.verb \in ReadVerbs <=> e.verb \in {"get", "getglobal", "getsla"}
  BY <1>1
<1> QED BY <1>1, <1>5, <1>6, <1>7, <1>8 DEF OutOfUse

LEMMA AdvisedNames ==
  /\ \A v \in CrudVerbs : AdvisedAt(52, "templatedashboard", v)
  /\ \A v \in {"get"} : AdvisedAt(54, "settings", v)
  /\ \A v \in {"get", "update"} : AdvisedAt(54, "item", v)
  /\ \A v \in CrudVerbs : AdvisedAt(54, "dashboard", v)
  /\ \A v \in {"update"} : AdvisedAt(60, "service", v)
  /\ \A v \in {"create", "update", "getsli"} : AdvisedAt(60, "sla", v)
  /\ \A v \in {"update"} : AdvisedAt(62, "trigger", v)
  /\ \A v \in {"create", "get"} : AdvisedAt(72, "discoveryrule", v)
  /\ \A v \in {"update"} : AdvisedAt(80, "host", v)
  /\ \A v \in {"update", "massadd", "massremove"} : AdvisedAt(80, "hostgroup", v)
  /\ \A v \in {"update", "massadd", "massremove"} : AdvisedAt(80, "template", v)
  /\ \A v \in {"update", "massadd", "massremove"} : AdvisedAt(80, "templategroup", v)
<1>1. \A v \in CrudVerbs : AdvisedAt(52, "templatedashboard", v)
  BY OfEntry DEF Advised
<1>2. \A v \in {"get"} : AdvisedAt(54, "settings", v)
  BY OfEntry DEF Advised
<1>3. \A v \in {"get", "update"} : AdvisedAt(54, "item", v)
  BY OfEntry DEF Advised
<1>4. \A v \in CrudVerbs : AdvisedAt(54, "dashboard", v)
  BY OfEntry DEF Advised
<1>5. \A v \in {"update"} : AdvisedAt(60, "service", v)
  BY OfEntry DEF Advised
<1>6. \A v \in {"create", "update", "getsli"} : AdvisedAt(60, "sla", v)
  BY OfEntry DEF Advised
<1>7. \A v \in {"update"} : AdvisedAt(62, "trigger", v)
  BY OfEntry DEF Advised
<1>8. \A v \in {"create", "get"} : AdvisedAt(72, "discoveryrule", v)
  BY OfEntry DEF Advised
<1>9. \A v \in {"update"} : AdvisedAt(80, "host", v)
  BY OfEntry DEF Advised
<1>10. \A v \in {"update", "massadd", "massremove"} : AdvisedAt(80, "hostgroup", v)
  BY OfEntry DEF Advised
<1>11. \A v \in {"update", "massadd", "massremove"} : AdvisedAt(80, "template", v)
  BY OfEntry DEF Advised
<1>12. \A v \in {"update", "massadd", "massremove"} : AdvisedAt(80, "templategroup", v)
  BY OfEntry DEF Advised
<1> QED BY <1>1, <1>2, <1>3, <1>4, <1>5, <1>6, <1>7, <1>8, <1>9, <1>10, <1>11, <1>12

LEMMA RemovedOutOfUse == OutOfUse(Removed)
<1> USE DEF ReadVerbs, CrudVerbs, AdvisedObjects, AdvisedVerbs
<1>1. OutOfUse(Gone(52, "templatescreen", {"copy", "create"}, "templatedashboard", {"create"}))
  BY OfGone, AdvisedNames
<1>2. OutOfUse(Gone(52, "templatescreen", {"delete"}, "templatedashboard", {"delete"}))
  BY OfGone, AdvisedNames
<1>3. OutOfUse(Gone(52, "templatescreen", {"get"}, "templatedashboard", {"get"}))
  BY OfGone, AdvisedNames
<1>4. OutOfUse(Gone(52, "templatescreen", {"update"}, "templatedashboard", {"update"}))
  BY OfGone, AdvisedNames
<1>5. OutOfUse(Gone(52, "templatescreenitem", {"get"}, "templatedashboard", {"get"}))
  BY OfGone, AdvisedNames
<1>6. OutOfUse(Gone(54, "settings", {"getglobal"}, "settings", {"get"}))
  BY OfGone, AdvisedNames
<1>7. OutOfUse(Gone(54, "application", {"create", "delete", "massadd", "update"}, "item",
      {"update"}))
  BY OfGone, AdvisedNames
<1>8. OutOfUse(Gone(54, "application", {"get"}, "item", {"get"}))
  BY OfGone, AdvisedNames
<1>9. OutOfUse(Gone(54, "screen", {"create"}, "dashboard", {"create"}))
  BY OfGone, AdvisedNames
<1>10. OutOfUse(Gone(54, "screen", {"delete"}, "dashboard", {"delete"}))
  BY OfGone, AdvisedNames
<1>11. OutOfUse(Gone(54, "screen", {"get"}, "dashboard", {"get"}))
  BY OfGone, AdvisedNames
<1>12. OutOfUse(Gone(54, "screen", {"update"}, "dashboard", {"update"}))
  BY OfGone, AdvisedNames
<1>13. OutOfUse(Gone(54, "screenitem", {"create", "delete", "update", "updatebyposition"},
      "dashboard", {"update"}))
  BY OfGone, AdvisedNames
<1>14. OutOfUse(Gone(54, "screenitem", {"get"}, "dashboard", {"get"}))
  BY OfGone, AdvisedNames
<1>15. OutOfUse(Gone(60, "service", {"adddependencies", "deletedependencies"}, "service",
      {"update"}))
  BY OfGone, AdvisedNames
<1>16. OutOfUse(Gone(60, "service", {"addtimes"}, "sla", {"create", "update"}))
  BY OfGone, AdvisedNames
<1>17. OutOfUse(Gone(60, "service", {"deletetimes"}, "sla", {"update"}))
  BY OfGone, AdvisedNames
<1>18. OutOfUse(Gone(60, "service", {"getsla"}, "sla", {"getsli"}))
  BY OfGone, AdvisedNames
<1>19. OutOfUse(Gone(62, "trigger", {"adddependencies", "deletedependencies"}, "trigger",
      {"update"}))
  BY OfGone, AdvisedNames
<1>20. OutOfUse(Gone(72, "discoveryrule", {"copy"}, "discoveryrule", {"create", "get"}))
  BY OfGone, AdvisedNames
<1>21. OutOfUse(Gone(80, "host", {"massupdate"}, "host", {"update"}))
  BY OfGone, AdvisedNames
<1>22. OutOfUse(Gone(80, "hostgroup", {"massupdate"}, "hostgroup", {"update", "massadd",
      "massremove"}))
  BY OfGone, AdvisedNames
<1>23. OutOfUse(Gone(80, "hostinterface", {"create", "delete", "massadd", "massremove",
      "replacehostinterfaces", "update"}, "host", {"update"}))
  BY OfGone, AdvisedNames
<1>24. OutOfUse(Gone(80, "template", {"massupdate"}, "template", {"update", "massadd",
      "massremove"}))
  BY OfGone, AdvisedNames
<1>25. OutOfUse(Gone(80, "templategroup", {"massupdate"}, "templategroup", {"update",
      "massadd", "massremove"}))
  BY OfGone, AdvisedNames
<1> QED BY <1>1, <1>2, <1>3, <1>4, <1>5, <1>6, <1>7, <1>8, <1>9, <1>10, <1>11, <1>12, <1>13,
    <1>14, <1>15, <1>16, <1>17, <1>18, <1>19, <1>20, <1>21, <1>22, <1>23, <1>24, <1>25
  DEF OutOfUse, Removed

\* no release has an advised method later than it is advised
InTime(S) ==
  \A s \in S, a \in Advised : s.object = a.object /\ s.verb = a.verb => s.at <= a.at

LEMMA SinceInTime == InTime(Since)
<1> USE DEF InTime, Entry, CrudVerbs
<1>1. InTime(Entry(52, {"authentication", "housekeeping", "settings"}, {"get", "update"}))
  BY AdvisedRecords
<1>2. InTime(Entry(52, {"role", "templatedashboard"}, CrudVerbs))
  BY AdvisedRecords
<1>3. InTime(Entry(54, {"report", "token"}, CrudVerbs))
  BY AdvisedRecords
<1>4. InTime(Entry(54, {"token"}, {"generate"}))
  BY AdvisedRecords
<1>5. InTime(Entry(54, {"configuration"}, {"importcompare"}))
  BY AdvisedRecords
<1>6. InTime(Entry(60, {"regexp", "sla", "module"}, CrudVerbs))
  BY AdvisedRecords
<1>7. InTime(Entry(60, {"sla"}, {"getsli"}))
  BY AdvisedRecords
<1>8. InTime(Entry(60, {"hanode"}, {"get"}))
  BY AdvisedRecords
<1>9. InTime(Entry(60, {"history"}, {"clear"}))
  BY AdvisedRecords
<1>10. InTime(Entry(60, {"user"}, {"unblock"}))
  BY AdvisedRecords
<1>11. InTime(Entry(62, {"templategroup", "userdirectory"}, CrudVerbs))
  BY AdvisedRecords
<1>12. InTime(Entry(62, {"templategroup"}, {"massadd", "massremove", "massupdate"}))
  BY AdvisedRecords
<1>13. InTime(Entry(62, {"hostgroup", "templategroup"}, {"propagate"}))
  BY AdvisedRecords
<1>14. InTime(Entry(62, {"userdirectory"}, {"test"}))
  BY AdvisedRecords
<1>15. InTime(Entry(64, {"connector"}, CrudVerbs))
  BY AdvisedRecords
<1>16. InTime(Entry(64, {"script"}, {"getscriptsbyevents"}))
  BY AdvisedRecords
<1>17. InTime(Entry(64, {"user"}, {"provision"}))
  BY AdvisedRecords
<1>18. InTime(Entry(70, {"mfa", "proxygroup"}, CrudVerbs))
  BY AdvisedRecords
<1>19. InTime(Entry(70, {"history"}, {"push"}))
  BY AdvisedRecords
<1>20. InTime(Entry(70, {"hostdashboard"}, {"get"}))
  BY AdvisedRecords
<1>21. InTime(Entry(70, {"user"}, {"resettotp"}))
  BY AdvisedRecords
<1>22. InTime(Entry(74, {"discoveryruleprototype"}, CrudVerbs))
  BY AdvisedRecords
<1>23. InTime(Entry(80, {"ceprule"}, CrudVerbs))
  BY AdvisedRecords
<1>24. InTime(Entry(80, {"ceprule"}, {"resettimewindows"}))
  BY AdvisedRecords
<1>25. InTime(Entry(80, {"apmlog", "apmmetric", "apmspan", "apmtrace", "device",
      "serverinfo"}, {"get"}))
  BY AdvisedRecords
<1>26. InTime(Entry(80, {"device"}, {"offboard"}))
  BY AdvisedRecords
<1> QED BY <1>1, <1>2, <1>3, <1>4, <1>5, <1>6, <1>7, <1>8, <1>9, <1>10, <1>11, <1>12, <1>13,
    <1>14, <1>15, <1>16, <1>17, <1>18, <1>19, <1>20, <1>21, <1>22, <1>23, <1>24, <1>25, <1>26
  DEF InTime, Since

Has(S, object, verb) == \E i \in S : i.object = object /\ i.verb = verb

LEMMA HasRead ==
  ASSUME NEW O, NEW V, NEW o \in O, NEW v \in V PROVE Has(Reads(O, V), o, v)
<1>1. [object |-> o, verb |-> v, reads |-> TRUE] \in Reads(O, V)
  BY DEF Reads
<1> QED BY <1>1 DEF Has

LEMMA HasWrite ==
  ASSUME NEW O, NEW V, NEW o \in O, NEW v \in V PROVE Has(Writes(O, V), o, v)
<1>1. [object |-> o, verb |-> v, reads |-> FALSE] \in Writes(O, V)
  BY DEF Writes
<1> QED BY <1>1 DEF Has

LEMMA HasManaged ==
  ASSUME NEW O, NEW o \in O, NEW v \in CrudVerbs PROVE Has(Managed(O), o, v)
<1>1. CASE v = "get"
  BY <1>1, HasRead DEF Managed, Gets, Has
<1>2. CASE v \in {"create", "update", "delete"}
  BY <1>2, HasWrite DEF Managed, Has
<1> QED BY <1>1, <1>2 DEF CrudVerbs

\* What is advised is there to be called.
LEMMA AdvisedAreMethods == \A a \in Advised : Has(Methods, a.object, a.verb)
<1> DEFINE Section == {Dashboards, Slas, Services, Hosts, GroupsAndInterfaces,
                       ItemsAndTriggers, GraphsAndTemplates, TemplateGroupsAndRules,
                       ImagesAndSettings}
<1>1. \A S \in Section : \A o, v : Has(S, o, v) => Has(Methods, o, v)
  BY DEF Has, Methods
<1>2. ASSUME NEW v \in CrudVerbs
      PROVE /\ \A o \in {"templatedashboard", "dashboard"} : Has(Dashboards, o, v)
            /\ \A o \in {"item", "trigger"} : Has(ItemsAndTriggers, o, v)
            /\ Has(Services, "service", v)
  BY HasManaged DEF Dashboards, ItemsAndTriggers, Services
<1>3. ASSUME NEW v \in CrudVerbs
      PROVE Has(Slas, "sla", v) /\ Has(Hosts, "host", v)
  <2>1. Has(Managed({"sla"}), "sla", v) /\ Has(Managed({"host"}), "host", v)
    BY HasManaged
  <2> QED BY <2>1 DEF Slas, Hosts, Has
<1>4. ASSUME NEW v \in CrudVerbs
      PROVE /\ Has(GroupsAndInterfaces, "hostgroup", v)
            /\ Has(GraphsAndTemplates, "template", v)
            /\ \A o \in {"templategroup", "discoveryrule"} : Has(TemplateGroupsAndRules, o, v)
  <2>1. /\ Has(Managed({"hostgroup", "hostinterface"}), "hostgroup", v)
        /\ Has(Managed({"graph", "template"}), "template", v)
        /\ \A o \in {"templategroup", "discoveryrule"} :
             Has(Managed({"templategroup", "discoveryrule"}), o, v)
    BY HasManaged
  <2>2. Has(GroupsAndInterfaces, "hostgroup", v)
    BY <2>1 DEF GroupsAndInterfaces, Has
  <2>3. Has(GraphsAndTemplates, "template", v)
    BY <2>1 DEF GraphsAndTemplates, Has
  <2>4. ASSUME NEW o \in {"templategroup", "discoveryrule"}
        PROVE Has(TemplateGroupsAndRules, o, v)
    BY <2>1 DEF TemplateGroupsAndRules, Has
  <2> QED BY <2>2, <2>3, <2>4
<1>5. ASSUME NEW v \in {"massadd", "massremove"}
      PROVE /\ Has(GroupsAndInterfaces, "hostgroup", v)
            /\ Has(GraphsAndTemplates, "template", v)
            /\ Has(TemplateGroupsAndRules, "templategroup", v)
  <2>1. \A O : \A o \in O : Has(Mass(O), o, v)
    BY HasWrite DEF Mass
  <2>2. /\ Has(Mass({"hostgroup", "hostinterface"}), "hostgroup", v)
        /\ Has(Mass({"template"}), "template", v)
        /\ Has(Mass({"templategroup"}), "templategroup", v)
    BY <2>1
  <2>3. Has(GroupsAndInterfaces, "hostgroup", v)
    BY <2>2 DEF GroupsAndInterfaces, Has
  <2>4. Has(GraphsAndTemplates, "template", v)
    BY <2>2 DEF GraphsAndTemplates, Has
  <2>5. Has(TemplateGroupsAndRules, "templategroup", v)
    BY <2>2 DEF TemplateGroupsAndRules, Has
  <2> QED BY <2>3, <2>4, <2>5
<1>6. Has(ImagesAndSettings, "settings", "get")
  BY HasRead DEF ImagesAndSettings, Gets, Has
<1>7. Has(Slas, "sla", "getsli")
  BY HasRead DEF Slas, Has
<1> QED
  BY AdvisedRecords, <1>1, <1>2, <1>3, <1>4, <1>5, <1>6, <1>7 DEF CrudVerbs

-----------------------------------------------------------------------------
(* The caller and the server *)

LEMMA UnlistedProper == \A m \in Unlisted : m = Named(m.object, m.verb)
<1> SUFFICES ASSUME NEW m \in Unlisted PROVE m = Named(m.object, m.verb)
  OBVIOUS
<1>1. CASE m \in Writes({"mediatype"}, {"test"})
  <2>1. m = [object |-> "mediatype", verb |-> "test", reads |-> FALSE]
    BY <1>1 DEF Writes
  <2>2. ("test" \in ReadVerbs) = FALSE
    BY DEF ReadVerbs
  <2> QED BY <2>1, <2>2 DEF Named
<1>2. CASE m \notin Writes({"mediatype"}, {"test"})
  <2>1. PICK e \in Removed :
          m = [object |-> e.object, verb |-> e.verb,
               reads |-> e.verb \in {"get", "getglobal", "getsla"}]
    BY <1>2 DEF Unlisted
  <2>2. (e.verb \in {"get", "getglobal", "getsla"}) = (e.verb \in ReadVerbs)
    BY RemovedOutOfUse DEF OutOfUse
  <2> QED BY <2>1, <2>2 DEF Named
<1> QED BY <1>1, <1>2

Known == Methods \cup Unlisted

\* A method is known by its name, and its name says whether it reads.
LEMMA KnownByName ==
  /\ \A m \in Known : m.reads <=> m.verb \in ReadVerbs
  /\ \A m, n \in Known : m.object = n.object /\ m.verb = n.verb => m = n
<1>1. \A m \in Known : m = Named(m.object, m.verb)
  BY MethodsProper, UnlistedProper DEF Known, Proper
<1>2. \A m \in Known : m.reads = (m.verb \in ReadVerbs)
  BY <1>1 DEF Named
<1>3. ASSUME NEW m \in Known, NEW n \in Known, m.object = n.object, m.verb = n.verb PROVE m = n
  BY <1>1, <1>3
<1> QED BY <1>2, <1>3

\* What zabbix_raw_api_call takes for a read, and what the client sends again, does read: the
\* ground of CallsAssumption.
LEMMA SafeIsRead ==
  ASSUME NEW m \in Known, ReadsByName(m) \/ ResendIsSafe(m) PROVE m.reads
BY KnownByName DEF ReadsByName, ResendIsSafe, ReadVerbs

\* What is advised for a release is there in it, and in all later ones.
LEMMA AdviceIsThere ==
  ASSUME NEW m, NEW v, NEW w, v.at \in Nat, w.at \in Nat, v.at <= w.at,
         NEW i \in Advice(m, v)
  PROVE i \in Known /\ ~Unavailable(i, w)
<1>1. PICK e \in Removed : /\ IsRemoved(v, e.at)
                               /\ \E r \in e.instead : r.object = i.object /\ r.verb = i.verb
  BY DEF Advice, Of
<1>2. e.at \in Nat /\ AdvisedAt(e.at, i.object, i.verb)
  BY <1>1, RemovedOutOfUse DEF OutOfUse
<1>3. PICK a \in Advised : a.object = i.object /\ a.verb = i.verb /\ a.at <= e.at
  BY <1>2 DEF AdvisedAt
<1>4. Of(Removed, i) = {}
  BY <1>3, RemovedOutOfUse DEF OutOfUse, Of
<1>5. \A s \in Of(Since, i) : s.at <= a.at
  BY <1>3, SinceInTime DEF InTime, Of
<1>6. e.at <= v.at
  BY <1>1, <1>2 DEF IsRemoved
<1>7. \A s \in Since : s.at \in Nat
  BY DEF Since, Entry
<1>8. ~\E s \in Of(Since, i) : w.at < s.at
  BY <1>2, <1>3, <1>5, <1>6, <1>7, AdvisedRecords DEF Of
<1> QED BY <1>4, <1>8 DEF Unavailable, Advice, Known

\* Who refuses for a removed method names one.
LEMMA SomeAdvice ==
  ASSUME NEW m, NEW v, Unavailable(m, v), Of(Since, m) = {}
  PROVE Advice(m, v) # {}
<1>1. PICK e \in Of(Removed, m) : IsRemoved(v, e.at)
  BY DEF Unavailable
<1>2. PICK r \in e.instead : AdvisedAt(e.at, r.object, r.verb)
  BY RemovedOutOfUse DEF OutOfUse, Of
<1>3. PICK i \in Methods : i.object = r.object /\ i.verb = r.verb
  BY <1>2, AdvisedAreMethods DEF AdvisedAt, Has
<1>4. i \in Advice(m, v)
  BY <1>1, <1>2, <1>3 DEF Advice
<1> QED BY <1>4

\* The call that was sent is a read where only reads may go out; the refused one is the
\* first of its caller and was made of a release the server had.
SentWell ==
  \E m \in Known, t \in {1, 2} :
    /\ call = [stage |-> "sent", method |-> m, times |-> t]
    /\ reader \/ t = 2 => m.reads

RefusedWell ==
  \E m \in Known, v \in Version :
    /\ call = [stage |-> "refused", method |-> m, advice |-> Advice(m, v), advised |-> FALSE]
    /\ v.at <= release.at
    /\ Unavailable(m, v)

CatalogueInv ==
  /\ config \in Choice /\ release \in Version /\ reader \in BOOLEAN
  /\ call = NoCall \/ SentWell \/ RefusedWell

LEMMA CheckedWell ==
  ASSUME CatalogueInv, NEW m \in Known, Takes(m), Checked(m),
         reader => m.reads, UNCHANGED <<config, release, reader>>
  PROVE CatalogueInv'
<1>1. \A v \in Version : v.at \in Nat
  BY CatalogueAssumption DEF CatalogueAssumption
<1>2. CASE call = NoCall
  <2>1. call.stage # "refused"
    BY <1>2 DEF NoCall
  <2>2. CASE Unavailable(m, release)
    <3>1. call' = [stage |-> "refused", method |-> m, advice |-> Advice(m, release),
                   advised |-> FALSE]
      BY <2>1, <2>2 DEF Checked
    <3>2. release \in Version /\ release.at <= release.at /\ release' = release
      BY <1>1 DEF CatalogueInv
    <3>3. RefusedWell'
      BY <3>1, <3>2, <2>2 DEF RefusedWell
    <3> QED BY <3>3 DEF CatalogueInv
  <2>3. CASE ~Unavailable(m, release)
    BY <2>3 DEF Checked, CatalogueInv, SentWell
  <2> QED BY <2>2, <2>3
<1>3. CASE call # NoCall
  <2>1. call.stage = "refused" /\ m \in call.advice
    BY <1>3 DEF Takes
  <2>2. RefusedWell
    BY <1>3, <2>1 DEF CatalogueInv, SentWell
  <2>3. PICK v \in Version : call.advice = Advice(call.method, v) /\ v.at <= release.at
    BY <2>2 DEF RefusedWell
  <2>4. v.at \in Nat /\ release.at \in Nat
    BY <1>1 DEF CatalogueInv
  <2>5. ~Unavailable(m, release)
    BY <2>1, <2>3, <2>4, AdviceIsThere
  <2> QED BY <2>5 DEF Checked, CatalogueInv, SentWell
<1> QED BY <1>2, <1>3

LEMMA CatalogueStep ==
  ASSUME CatalogueInv, [CatalogueNext]_catalogueVars PROVE CatalogueInv'
<1>1. \A v \in Version : v.at \in Nat
  BY CatalogueAssumption DEF CatalogueAssumption
<1>2. CASE Upgrade
  <2>1. release' \in Version /\ release.at <= release'.at /\ UNCHANGED <<config, reader, call>>
    BY <1>1, <1>2 DEF Upgrade, CatalogueInv
  <2>2. release.at \in Nat /\ release'.at \in Nat
    BY <2>1, <1>1 DEF CatalogueInv
  <2>3. RefusedWell => RefusedWell'
    <3> SUFFICES ASSUME RefusedWell PROVE RefusedWell'
      OBVIOUS
    <3>1. PICK m \in Known, v \in Version :
            /\ call = [stage |-> "refused", method |-> m, advice |-> Advice(m, v),
                       advised |-> FALSE]
            /\ v.at <= release.at /\ Unavailable(m, v)
      BY DEF RefusedWell
    <3>2. v.at \in Nat /\ v.at <= release'.at
      BY <3>1, <2>1, <2>2, <1>1
    <3> QED BY <3>1, <3>2, <2>1 DEF RefusedWell
  <2>4. SentWell => SentWell'
    BY <2>1 DEF SentWell
  <2> QED BY <2>1, <2>3, <2>4 DEF CatalogueInv, NoCall
<1>3. CASE Resend
  <2>1. SentWell
    BY <1>3 DEF Resend, CatalogueInv, RefusedWell, NoCall
  <2>2. PICK m \in Known : call = [stage |-> "sent", method |-> m, times |-> 1]
    BY <2>1, <1>3 DEF SentWell, Resend
  <2>3. call' = [stage |-> "sent", method |-> m, times |-> 2] /\ m.reads
    BY <2>2, <1>3, SafeIsRead DEF Resend
  <2> QED BY <2>3, <1>3 DEF Resend, CatalogueInv, SentWell
<1>4. CASE Return
  BY <1>4 DEF Return, CatalogueInv
<1>5. ASSUME NEW m \in Methods, CallMethod(m) PROVE CatalogueInv'
  BY <1>5, CheckedWell DEF CallMethod, Known
<1>6. ASSUME NEW m \in Methods \cup Unlisted, CallByName(m) PROVE CatalogueInv'
  BY <1>6, CheckedWell, SafeIsRead DEF CallByName, Known
<1>7. CASE UNCHANGED catalogueVars
  BY <1>7 DEF catalogueVars, CatalogueInv, SentWell, RefusedWell, NoCall
<1> QED BY <1>2, <1>3, <1>4, <1>5, <1>6, <1>7 DEF CatalogueNext

LEMMA InitCatalogueInv == CatalogueInit => CatalogueInv
BY DEF CatalogueInit, CatalogueInv

\* A call that was sent, or refused, is as its method's tables say, for any configurations and
\* releases.
THEOREM CatalogueInvariance == CatalogueSpec => []CatalogueInv
BY InitCatalogueInv, CatalogueStep, PTL DEF CatalogueSpec

\* What is called has a name of its own: no two entries of the catalogue describe one method.
THEOREM CallsAreKnown == CatalogueSpec => []CatalogueTypeOK
<1>1. CatalogueInv => CatalogueTypeOK
  BY KnownByName DEF CatalogueInv, SentWell, RefusedWell, Known, CatalogueTypeOK
<1> QED BY <1>1, CatalogueInvariance, PTL

\* For a read-only caller, and again after a broken connection, only reads go out.
THEOREM OnlyReadsGoOut == CatalogueSpec => []NoUnmeantWrite
<1>1. CatalogueInv => NoUnmeantWrite
  BY DEF CatalogueInv, SentWell, RefusedWell, NoUnmeantWrite, NoCall
<1> QED BY <1>1, CatalogueInvariance, PTL

\* A method that was taken away is refused with a word that helps, on every release and after
\* any upgrades.
THEOREM AdviceCanBeTaken == CatalogueSpec => []AdviceHolds
<1>1. CatalogueInv => AdviceHolds
  BY SomeAdvice DEF CatalogueInv, SentWell, RefusedWell, AdviceHolds, NoCall
<1> QED BY <1>1, CatalogueInvariance, PTL

\* The six groups of tools leave out no method.
THEOREM SixGroupsAreAll == CatalogueSpec => []GroupsAreEverything
<1>1. CatalogueInv => GroupsAreEverything
  <2> SUFFICES ASSUME CatalogueInv, config.tools = DOMAIN ToolGroups,
                      NEW whole, whole = [config EXCEPT !.tools = All]
               PROVE /\ Registered(config) = Registered(whole)
                     /\ RawRegistered(config) = RawRegistered(whole)
    BY DEF GroupsAreEverything
  <2>1. /\ whole.tools = All /\ whole.disabled = config.disabled
        /\ whole.writeTools = config.writeTools
    BY CatalogueAssumption DEF CatalogueInv, CatalogueAssumption
  <2>2. \A m \in Methods : m.object \in ExpandedGroups(config.tools)
    BY MethodsProper DEF Proper, Everything
  <2>3. "zabbix_raw_api_call" \in ExpandedGroups(config.tools)
    BY GroupedObjects DEF Grouped, Everything
  <2> QED BY <2>1, <2>2, <2>3 DEF Registered, RawRegistered
<1> QED BY <1>1, CatalogueInvariance, PTL
=============================================================================
