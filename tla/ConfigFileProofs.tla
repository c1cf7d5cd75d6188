-------------------------- MODULE ConfigFileProofs --------------------------
(* Theorems about ConfigFile, for every set of users, tokens, clients and requests. *)
EXTENDS ConfigFile, FiniteSetTheorems, TLAPS

-----------------------------------------------------------------------------
(* The inductive invariant *)

\* Whoever is past its start works for a request of its own kind.
Asked ==
  /\ step[Portal] # "idle" => op[Portal] \in Op
  /\ step[Portal] = "pop" => op[Portal].kind = "forget"
  /\ \A c \in Client : step[c] # "idle" => op[c] = Registration(c)

\* Of a token whose row no write has changed behind the portal: the store has it as the file
\* does (or did before it was cut off), or the portal is about to make it so; and the document
\* the portal loaded has it as the store does.
Following ==
  /\ step[Portal] # "reload" => \A t \in Token \ unread : store[t] = file.tokens[t]
  /\ step[Portal] = "loaded" => \A t \in Token \ unread : doc[Portal].tokens[t] = store[t]

IInv == TypeOK /\ Asked /\ Following

\* What was checked of the users d before a user is added or given a role: he is new, or
\* not the only admin.
Spared(d, o) ==
  /\ o.kind = "add" => \A u \in o.who : d.users[u] = "none"
  /\ o.kind = "role" /\ o.val # "admin" /\ o.who \cap Admins(d) # {} => Admins(d) \ o.who # {}

\* As long as nothing is excused: the file has an admin, so has every document that is about
\* to replace it, and a request that was checked spares one.
Founded ==
  ~excused =>
    /\ Admins(file) # {}
    /\ \A w \in Writer : step[w] = "loaded" => Admins(Edited(doc[w], op[w])) # {}
    /\ step[Portal] \in {"checked", "queued"} => Spared(doc[Portal], op[Portal])

Kinds == {"setting", "add", "role", "delete", "bulk", "create", "toggle", "remove", "forget"}

LEMMA Requests ==
  ASSUME NEW o \in Op
  PROVE  /\ o.kind \in Kinds
         /\ o.kind = "setting" => o.val \in Setting
         /\ o.kind = "forget" => o.who \subseteq Client
         /\ o.kind \in {"add", "role"} =>
              o.val \in Role \ {"none"} /\ \E u \in User : o.who = {u}
BY ConstantsAssumption DEF ConstantsAssumption, Kinds

LEMMA Names ==
  /\ Portal \in Writer /\ Portal \notin Client /\ NoOne \notin Writer
  /\ \A w \in Writer : w = Portal \/ w \in Client
BY ConstantsAssumption DEF ConstantsAssumption, Writer

LEMMA Registered ==
  ASSUME NEW c \in Client
  PROVE  Registration(c).kind = "register"
BY DEF Registration

\* A request makes a document of a document, and only the requests for tokens change those.
LEMMA EditedDoc ==
  ASSUME NEW d \in Doc, NEW o, o \in Op \/ \E c \in Client : o = Registration(c)
  PROVE  /\ Edited(d, o) \in Doc
         /\ o.kind \notin {"create", "toggle", "remove"} => Edited(d, o).tokens = d.tokens
<1>1. o.kind \in Kinds \cup {"register"}
  BY Requests, Registered
<1>2. /\ d.users \in [User -> Role] /\ d.tokens \in [Token -> TokenState]
      /\ d.clients \subseteq Client /\ d.setting \in Setting
  BY DEF Doc
<1>3. CASE o.kind = "setting"
  <2>1. o.val \in Setting
    BY <1>3, Requests, Registered
  <2> QED BY <1>2, <1>3, <2>1 DEF Edited, Doc
<1>4. CASE o.kind \in {"add", "role"}
  <2>1. o.val \in Role
    BY <1>4, Requests, Registered
  <2>2. Edited(d, o) = SetUsers(d, o.who, o.val)
    BY <1>4 DEF Edited
  <2> QED BY <1>2, <1>4, <2>1, <2>2 DEF SetUsers, Doc
<1>5. CASE o.kind \in {"delete", "bulk"}
  <2>1. Edited(d, o) = SetUsers(d, o.who, "none")
    BY <1>5 DEF Edited
  <2> QED BY <1>2, <1>5, <2>1 DEF SetUsers, Doc, Role
<1>6. CASE o.kind \in {"create", "remove"}
  <2>1. \E s \in TokenState : Edited(d, o) = SetTokens(d, o.who, s)
    BY <1>6 DEF Edited, TokenState
  <2> QED BY <1>2, <1>6, <2>1 DEF SetTokens, Doc
<1>7. CASE o.kind = "toggle"
  <2>1. Edited(d, o) = Toggled(d, o.who)
    BY <1>7 DEF Edited
  <2> QED BY <1>2, <1>7, <2>1 DEF Toggled, Doc, TokenState
<1>8. CASE o.kind = "forget"
  BY <1>2, <1>8 DEF Edited, Doc
<1>9. CASE o.kind = "register"
  <2>1. o.who \subseteq Client
    BY <1>9, Requests DEF Registration, Kinds
  <2> QED BY <1>2, <1>9, <2>1 DEF Edited, Doc
<1> QED BY <1>1, <1>3, <1>4, <1>5, <1>6, <1>7, <1>8, <1>9 DEF Kinds

\* A part of a document is one, and so is what the start makes of it.
LEMMA PartsTyped ==
  ASSUME NEW d \in Doc
  PROVE  d.tokens \in [Token -> TokenState] /\ d.clients \subseteq Client /\ d.setting \in Setting
BY DEF Doc

LEMMA BootedTyped == ASSUME NEW d \in Doc, NEW b \in Booted(d) PROVE b \in Doc
<1>1. b = d \/ \E u \in User : b = SetUsers(d, {u}, "admin")
  BY DEF Booted
<1>2. d.users \in [User -> Role]
  BY DEF Doc
<1> QED BY <1>1, <1>2 DEF SetUsers, Doc, Role

LEMMA AfterStep ==
  ASSUME NEW o, o \in Op \/ \E c \in Client : o = Registration(c)
  PROVE  /\ After(o) \in {"reload", "pop", "saved", "idle"}
         /\ After(o) # "reload" => o.kind \notin {"create", "toggle", "remove"}
         /\ After(o) = "pop" => o.kind = "forget"
         /\ (\E c \in Client : o = Registration(c)) => After(o) = "saved"
BY Requests, Registered DEF After, ReloadsStore, ForgetsInMemory, TakesBaseline, Kinds

LEMMA Sources ==
  ASSUME TypeOK, Asked, NEW w \in Writer, step[w] # "idle"
  PROVE  /\ op[w] \in Op \/ \E c \in Client : op[w] = Registration(c)
         /\ w \in Client => After(op[w]) = "saved"
         /\ w = Portal => op[w] \in Op /\ After(op[w]) # "saved"
<1>1. CASE w = Portal
  BY <1>1, Names, Requests DEF Asked, After, ReloadsStore, ForgetsInMemory, TakesBaseline, Kinds
<1>2. CASE w \in Client
  BY <1>2, Names, AfterStep DEF Asked
<1> QED BY <1>1, <1>2, Names

-----------------------------------------------------------------------------
(* The invariant is inductive *)

LEMMA InitIInv == Init => IInv
<1> SUFFICES ASSUME Init PROVE IInv
  OBVIOUS
<1>1. file \in Doc /\ file.tokens \in [Token -> TokenState] /\ file.setting \in Setting
  BY DEF Init, Doc
<1>2. TypeOK
  <2>1. op \in [Writer -> Op \cup {NoOp} \cup {Registration(c) : c \in Client}]
    BY DEF Init
  <2>2. broken \in BOOLEAN /\ truncating = NoOne /\ step \in [Writer -> Steps]
    BY DEF Init, Steps
  <2> QED BY <1>1, <2>1, <2>2 DEF Init, TypeOK
<1>3. Asked
  <2>1. \A w \in Writer : step[w] = "idle"
    BY DEF Init
  <2> QED BY <2>1, Names DEF Asked, Writer
<1>4. Following
  BY Names DEF Init, Following
<1> QED BY <1>2, <1>3, <1>4 DEF IInv

LEMMA Went ==
  ASSUME TypeOK, NEW w \in Writer, NEW s \in Steps, Goto(w, s)
  PROVE  /\ step' \in [Writer -> Steps]
         /\ \A v \in Writer : step'[v] = IF v = w THEN s ELSE step[v]
BY DEF TypeOK, Goto

\* A writer goes on with the request it has.
LEMMA AskedStays ==
  ASSUME Asked, NEW w \in Writer, NEW s, op' = op, step[w] # "idle",
         s = "pop" => op[w].kind = "forget",
         \A v \in Writer : step'[v] = IF v = w THEN s ELSE step[v]
  PROVE  Asked'
<1>1. step'[Portal] = IF w = Portal THEN s ELSE step[Portal]
  BY Names
<1>2. \A c \in Client : step'[c] = IF w = c THEN s ELSE step[c]
  BY DEF Writer
<1>3. /\ step'[Portal] # "idle" => op'[Portal] \in Op
      /\ step'[Portal] = "pop" => op'[Portal].kind = "forget"
  BY <1>1 DEF Asked
<1>4. \A c \in Client : step'[c] # "idle" => op'[c] = Registration(c)
  BY <1>2 DEF Asked
<1> QED BY <1>3, <1>4 DEF Asked

LEMMA BeginStep == ASSUME IInv, NEW o \in Op, Begin(o) PROVE IInv'
<1> USE DEF IInv, Begin, disk, memory, history
<1>1. /\ step' \in [Writer -> Steps]
      /\ \A v \in Writer : step'[v] = IF v = Portal THEN "checked" ELSE step[v]
  BY Went, Names DEF Steps
<1>2. TypeOK'
  <2>1. op' \in [Writer -> Op \cup {NoOp} \cup {Registration(c) : c \in Client}]
    BY DEF TypeOK
  <2>2. truncating' = NoOne
    OBVIOUS
  <2>3. doc' \in [Writer -> Doc]
    <3>1. PICK read \in Readings(o) : doc' = [doc EXCEPT ![Portal] = read]
      OBVIOUS
    <3>2. read = file \/ \E r \in Role : read = SetUsers(file, o.who, r)
      BY DEF Readings
    <3>3. read \in Doc
      <4>1. file \in Doc /\ file.users \in [User -> Role]
        BY DEF TypeOK, Doc
      <4>2. ASSUME NEW r \in Role PROVE SetUsers(file, o.who, r) \in Doc
        BY <4>1 DEF SetUsers, Doc
      <4> QED BY <3>2, <4>1, <4>2
    <3> QED BY <3>1, <3>3 DEF TypeOK
  <2> QED BY <1>1, <2>1, <2>2, <2>3 DEF TypeOK
<1>3. Asked'
  <2>1. /\ op'[Portal] = o /\ \A c \in Client : op'[c] = op[c]
    BY Names DEF TypeOK, Writer
  <2>2. step'[Portal] = "checked" /\ \A c \in Client : step'[c] = step[c]
    BY <1>1, Names DEF Writer
  <2> QED BY <2>1, <2>2 DEF Asked
<1>4. Following'
  BY <1>1, Names DEF TypeOK, Following, At
<1> QED BY <1>2, <1>3, <1>4

LEMMA RegisterStep == ASSUME IInv, NEW c \in Client, Register(c) PROVE IInv'
<1> USE DEF IInv, Register, disk, history
<1>0. c \in Writer /\ c # Portal
  BY Names DEF Writer
<1>1. /\ step' \in [Writer -> Steps]
      /\ \A v \in Writer : step'[v] = IF v = c THEN "queued" ELSE step[v]
  BY <1>0, Went DEF Steps
<1>2. TypeOK'
  BY <1>0, <1>1 DEF TypeOK, At
<1>3. Asked'
  BY <1>0, <1>1, Names DEF TypeOK, Asked, Writer
<1>4. Following'
  BY <1>0, <1>1, Names DEF TypeOK, Following
<1> QED BY <1>2, <1>3, <1>4

LEMMA SnapshotLoadStep == ASSUME IInv, NEW c \in Client, SnapshotLoad(c) PROVE IInv'
<1> USE DEF IInv, SnapshotLoad, disk, memory, history
<1>0. c \in Writer /\ c # Portal
  BY Names DEF Writer
<1>1. PICK s \in {"done", "snapped"} : Goto(c, s)
  OBVIOUS
<1>2. /\ step' \in [Writer -> Steps]
      /\ \A v \in Writer : step'[v] = IF v = c THEN s ELSE step[v]
  BY <1>0, <1>1, Went DEF Steps
<1>3. dump' \in [Client -> Doc]
  BY DEF TypeOK
<1>4. TypeOK'
  BY <1>0, <1>2, <1>3 DEF TypeOK, At
<1>5. Asked' /\ Following'
  BY <1>0, <1>2, Names DEF Asked, Following, Writer, At
<1> QED BY <1>4, <1>5

LEMMA SnapshotStoreStep == ASSUME IInv, NEW c \in Client, SnapshotStore(c) PROVE IInv'
<1> USE DEF IInv, SnapshotStore, disk, history
<1>0. c \in Writer /\ c # Portal
  BY Names DEF Writer
<1>1. /\ step' \in [Writer -> Steps]
      /\ \A v \in Writer : step'[v] = IF v = c THEN "done" ELSE step[v]
  BY <1>0, Went DEF Steps
<1>2. TypeOK'
  BY <1>0, <1>1 DEF TypeOK, At
<1>3. Asked' /\ Following'
  BY <1>0, <1>1, Names DEF Asked, Following, Writer, At
<1> QED BY <1>2, <1>3

LEMMA LoadStep == ASSUME IInv, NEW w \in Writer, Load(w) PROVE IInv'
<1> USE DEF IInv, Load, disk, memory, history
<1>1. PICK s \in {"idle", "done", "loaded", After(op[w])} :
        /\ Goto(w, s)
        /\ s = "idle" => w = Portal \/ s = After(op[w])
        /\ s = "loaded" => s = After(op[w]) \/ doc'[w] = file
  BY DEF Abandon, TypeOK
<1>2. step[w] # "idle"
  OBVIOUS
<1>3. s \in Steps /\ (w \in Client => s # "idle")
  BY <1>1, <1>2, Sources, AfterStep, Names DEF Steps
<1>4. /\ step' \in [Writer -> Steps]
      /\ \A v \in Writer : step'[v] = IF v = w THEN s ELSE step[v]
  BY <1>1, <1>3, Went
<1>5. doc' \in [Writer -> Doc] /\ \A v \in Writer \ {w} : doc'[v] = doc[v]
  BY DEF TypeOK
<1>6. TypeOK'
  <2>1. excused' \in BOOLEAN
    BY ZenonT(30) DEF TypeOK
  <2> QED BY <1>4, <1>5, <2>1, Names DEF TypeOK
<1>7. Asked'
  <2>1. s = "pop" => op[w].kind = "forget"
    BY <1>1, <1>2, Sources, AfterStep
  <2> QED BY <1>2, <1>4, <2>1, AskedStays
<1>8. Following'
  <2>1. s # "loaded" \/ doc'[w] = file
    BY <1>1, <1>2, Sources, AfterStep
  <2>2. step[w] \in {"checked", "queued"}
    OBVIOUS
  <2> QED BY <1>4, <1>5, <2>1, <2>2, Names DEF Following
<1> QED BY <1>6, <1>7, <1>8

LEMMA SavedStep ==
  ASSUME IInv, NEW w \in Writer, step[w] = "loaded", Saved(w)
  PROVE  IInv'
<1> USE DEF IInv, Saved, memory
<1>1. After(op[w]) \in {"reload", "pop", "saved", "idle"} /\ (w \in Client => After(op[w]) = "saved")
  BY Sources, AfterStep
<1>2. /\ step' \in [Writer -> Steps]
      /\ \A v \in Writer : step'[v] = IF v = w THEN After(op[w]) ELSE step[v]
  BY <1>1, Went DEF Steps
<1>3. /\ file' \in Doc
      /\ op[w].kind \notin {"create", "toggle", "remove"} => file'.tokens = doc[w].tokens
  BY Sources, EditedDoc DEF TypeOK
<1>4. /\ unread' \subseteq Token /\ unread \subseteq unread'
      /\ w # Portal => \A t \in Token \ unread' : file'.tokens[t] = file.tokens[t]
  BY DEF TypeOK, Rewritten
<1>5. TypeOK'
  BY <1>2, <1>3, <1>4, Names DEF TypeOK
<1>6. Asked'
  <2>1. After(op[w]) = "pop" => op[w].kind = "forget"
    BY Sources, AfterStep
  <2> QED BY <1>2, <2>1, AskedStays
<1>7. Following'
  <2>1. CASE w = Portal
    <3>1. After(op[Portal]) # "reload" => op[Portal].kind \notin {"create", "toggle", "remove"}
      BY <2>1, Sources, AfterStep
    <3> QED BY <1>1, <1>2, <1>3, <2>1, <3>1, Names DEF Following
  <2>2. CASE w # Portal
    BY <1>2, <1>4, <2>2, Names DEF Following
  <2> QED BY <2>1, <2>2
<1> QED BY <1>5, <1>6, <1>7

LEMMA FallbackStep == ASSUME IInv, NEW w \in Writer, Fallback(w) PROVE IInv'
BY DEF IInv, Fallback, memory, history, TypeOK, Asked, Following, At

\* A direct write that was cut off changes rows nobody reads again.
LEMMA SaveFailsStep == ASSUME IInv, NEW w \in Writer, SaveFails(w) PROVE IInv'
<1> USE DEF IInv, SaveFails, memory
<1>1. step[w] = "loaded"
  BY Names DEF TypeOK, At
<1>2. PICK s \in {"idle", "done"} : Goto(w, s) /\ (s = "idle" => w = Portal)
  BY DEF Abandon
<1>3. /\ step' \in [Writer -> Steps]
      /\ \A v \in Writer : step'[v] = IF v = w THEN s ELSE step[v]
  BY <1>2, Went DEF Steps
<1>4. /\ file' \in Doc /\ broken' \in BOOLEAN /\ unread' \subseteq Token /\ unread \subseteq unread'
      /\ \A t \in Token \ unread' : file'.tokens[t] = file.tokens[t]
  <2>1. CASE UNCHANGED <<file, broken, unread, excused>>
    BY <2>1 DEF TypeOK
  <2>2. CASE CutOff(w)
    <3>1. file' = file \/ file' \in Doc
      BY <2>2 DEF CutOff, Parts
    <3>2. unread' = unread \cup Rewritten(file')
      BY <2>2 DEF CutOff
    <3>3. broken' \in BOOLEAN
      BY <2>2 DEF CutOff
    <3> QED BY <3>1, <3>2, <3>3 DEF Rewritten, TypeOK
  <2> QED BY <2>1, <2>2
<1>5. excused' \in BOOLEAN
  BY ZenonT(30) DEF TypeOK, CutOff
<1>6. TypeOK'
  BY <1>3, <1>4, <1>5, Names DEF TypeOK
<1>7. Asked'
  BY <1>1, <1>2, <1>3, Names DEF Asked, Writer
<1>8. Following'
  BY <1>1, <1>2, <1>3, <1>4, Names DEF Following
<1> QED BY <1>6, <1>7, <1>8

LEMMA ReloadStep == ASSUME IInv, Reload PROVE IInv'
<1> USE DEF IInv, Reload, disk
<1>1. /\ step' \in [Writer -> Steps]
      /\ \A v \in Writer : step'[v] = IF v = Portal THEN "idle" ELSE step[v]
  BY Names, Went DEF Steps
<1>2. /\ store' \in [Token -> TokenState] /\ unread' \subseteq Token
      /\ \A t \in Token \ unread' : store'[t] = file.tokens[t]
  BY DEF TypeOK, Doc
<1>3. TypeOK'
  BY <1>1, <1>2, Names DEF TypeOK, At
<1>4. Asked'
  BY <1>1, Names DEF Asked, Writer
<1>5. Following'
  BY <1>1, <1>2, Names DEF Following
<1> QED BY <1>3, <1>4, <1>5

LEMMA PopStep == ASSUME IInv, Pop PROVE IInv'
<1> USE DEF IInv, Pop, disk
<1>1. /\ step' \in [Writer -> Steps]
      /\ \A v \in Writer : step'[v] = IF v = Portal THEN "idle" ELSE step[v]
  BY Names, Went DEF Steps
<1>2. revoked' \subseteq Client
  BY Requests DEF TypeOK, Asked, At
<1>3. TypeOK'
  BY <1>1, <1>2, Names DEF TypeOK, At
<1>4. Asked' /\ Following'
  BY <1>1, Names DEF Asked, Following, Writer, At
<1> QED BY <1>3, <1>4

\* What the process starts on is a document.
LEMMA RestartFile == ASSUME IInv, Restart PROVE file' \in Doc
<1>1. PICK d \in IF truncating = NoOne THEN {file}
                 ELSE Parts(Edited(doc[truncating], op[truncating])) : file' \in Booted(d)
  BY DEF Restart
<1>2. d \in Doc
  BY DEF IInv, TypeOK, Parts
<1> QED BY <1>1, <1>2, BootedTyped

LEMMA RestartStep == ASSUME IInv, Restart PROVE IInv'
<1> USE DEF IInv, Restart
<1>1. /\ step' \in [Writer -> Steps]
      /\ \A w \in Writer : step'[w] = IF w = Portal \/ step[w] = "idle" THEN "idle" ELSE "done"
  BY DEF Steps, At
<1>2. /\ file' \in Doc
      /\ clients' \subseteq Client /\ store' \in [Token -> TokenState]
      /\ running' \in Setting /\ baseline' \in Doc
  BY RestartFile, PartsTyped
<1>3. excused' \in BOOLEAN
  BY ZenonT(30)
<1>4. TypeOK'
  BY <1>1, <1>2, <1>3, Names DEF TypeOK
<1>5. Asked' /\ Following'
  BY <1>1, <1>2, Names DEF Asked, Following, Writer
<1> QED BY <1>4, <1>5

LEMMA InvStep == IInv /\ [Next]_vars => IInv'
<1> SUFFICES ASSUME IInv, [Next]_vars PROVE IInv'
  OBVIOUS
<1>1. CASE UNCHANGED vars
  BY <1>1 DEF vars, IInv, TypeOK, Asked, Following
<1>2. ASSUME NEW o \in Op, Begin(o) PROVE IInv'
  BY <1>2, BeginStep
<1>3. ASSUME NEW c \in Client, Register(c) \/ SnapshotLoad(c) \/ SnapshotStore(c) PROVE IInv'
  BY <1>3, RegisterStep, SnapshotLoadStep, SnapshotStoreStep
<1>4. ASSUME NEW w \in Writer, Rename(w) \/ DirectWrite(w) PROVE IInv'
  <2>1. step[w] = "loaded" /\ Saved(w)
    BY <1>4, Names DEF Rename, DirectWrite, At, IInv, TypeOK
  <2> QED BY <2>1, SavedStep
<1>5. ASSUME NEW w \in Writer, Load(w) \/ Fallback(w) \/ SaveFails(w) PROVE IInv'
  BY <1>5, LoadStep, FallbackStep, SaveFailsStep
<1> QED BY <1>1, <1>2, <1>3, <1>4, <1>5, ReloadStep, PopStep, RestartStep DEF Next

LEMMA IInvInvariant == Spec => []IInv
<1> QED BY InitIInv, InvStep, PTL DEF Spec

-----------------------------------------------------------------------------
(* The admins *)

\* More than one admin: one is left without u.
LEMMA AnotherAdmin ==
  ASSUME NEW d \in Doc, NEW u \in User, Cardinality(Admins(d)) > 1
  PROVE  Admins(d) \ {u} # {}
<1>1. SUFFICES ASSUME Admins(d) \ {u} = {} PROVE FALSE
  OBVIOUS
<1>2. IsFiniteSet({u}) /\ Cardinality({u}) = 1
  BY FS_Singleton
<1>3. Admins(d) \subseteq {u}
  BY <1>1
<1>4. Cardinality(Admins(d)) <= Cardinality({u}) /\ Cardinality(Admins(d)) \in Nat
  BY <1>2, <1>3, FS_Subset, FS_CardinalityType
<1> QED BY <1>2, <1>4

LEMMA UsersSet ==
  ASSUME NEW d \in Doc, NEW who, NEW r
  PROVE  /\ r # "admin" => Admins(SetUsers(d, who, r)) = Admins(d) \ who
         /\ \A u \in who \cap User : r = "admin" => u \in Admins(SetUsers(d, who, r))
<1>1. d.users \in [User -> Role]
  BY DEF Doc
<1>2. SetUsers(d, who, r).users = [u \in User |-> IF u \in who THEN r ELSE d.users[u]]
  BY <1>1 DEF SetUsers, Doc
<1> QED BY <1>2 DEF Admins

LEMMA EditedAdmins ==
  ASSUME NEW d \in Doc, NEW o, o \in Op \/ \E c \in Client : o = Registration(c),
         Admins(d) # {}, Proceeds(d, o), Spared(d, o)
  PROVE  Admins(Edited(d, o)) # {}
<1>1. o.kind \in Kinds \cup {"register"}
  BY Requests, Registered
<1>2. d.users \in [User -> Role]
  BY DEF Doc
<1>3. CASE o.kind \in {"add", "role"}
  <2>1. PICK u \in User : o.who = {u}
    BY <1>3, Requests, Registered
  <2>2. Edited(d, o) = SetUsers(d, o.who, o.val)
    BY <1>3 DEF Edited
  <2>3. CASE o.val = "admin"
    BY <2>1, <2>2, <2>3, UsersSet
  <2>4. CASE o.val # "admin"
    <3>1. Admins(Edited(d, o)) = Admins(d) \ o.who
      BY <2>2, <2>4, UsersSet
    <3>2. Admins(d) \ o.who # {}
      BY <1>3, <2>4 DEF Spared, Admins
    <3> QED BY <3>1, <3>2
  <2> QED BY <2>3, <2>4
<1>4. CASE o.kind \in {"delete", "bulk"}
  <2>1. Edited(d, o) = SetUsers(d, o.who, "none") /\ Admins(d) \ o.who # {}
    BY <1>4 DEF Edited, Proceeds
  <2> QED BY <2>1, UsersSet
<1>5. CASE o.kind \notin {"add", "role", "delete", "bulk"}
  <2>1. \/ \E v : Edited(d, o) = [d EXCEPT !.setting = v]
        \/ \E v : Edited(d, o) = [d EXCEPT !.clients = v]
        \/ \E v : Edited(d, o) = [d EXCEPT !.tokens = v]
    BY <1>1, <1>5 DEF Edited, SetTokens, Toggled, Kinds
  <2>2. Edited(d, o).users = d.users
    BY <2>1 DEF Doc
  <2> QED BY <2>2 DEF Admins
<1> QED BY <1>3, <1>4, <1>5

LEMMA FoundedStays ==
  ASSUME Founded, file' = file, excused' = excused,
         \A w \in Writer : step'[w] = "loaded" =>
           step[w] = "loaded" /\ doc'[w] = doc[w] /\ op'[w] = op[w],
         step'[Portal] \in {"checked", "queued"} =>
           step'[Portal] = step[Portal] /\ doc'[Portal] = doc[Portal] /\ op'[Portal] = op[Portal]
  PROVE  Founded'
BY DEF Founded, Spared, Admins

\* The role of the target is another one than in the file, the other admins are there.
LEMMA FoundedBegin == ASSUME IInv, Founded, NEW o \in Op, Begin(o) PROVE Founded'
<1> USE DEF IInv, Begin, disk, history
<1>1. PICK read \in Readings(o) : MayBegin(o, read) /\ doc' = [doc EXCEPT ![Portal] = read]
  OBVIOUS
<1>2. /\ file' = file /\ excused' = excused /\ Portal \in Writer
      /\ \A w \in Writer \ {Portal} : doc'[w] = doc[w] /\ op'[w] = op[w] /\ step'[w] = step[w]
      /\ doc'[Portal] = read /\ op'[Portal] = o /\ step'[Portal] = "checked"
  BY <1>1, Names DEF TypeOK, Goto
<1>3. Spared(read, o)
  <2>1. ASSUME o.kind = "add" PROVE \A u \in o.who : read.users[u] = "none"
    BY <1>1, <2>1 DEF MayBegin, Readings
  <2>2. ASSUME o.kind = "role", o.val # "admin", o.who \cap Admins(read) # {}
        PROVE  Admins(read) \ o.who # {}
    <3>1. PICK u \in User : o.who = {u}
      BY <2>2, Requests
    <3>2. Admins(file) \ {u} # {}
      BY <1>1, <2>2, AnotherAdmin DEF MayBegin, TypeOK
    <3>3. CASE read = file
      BY <3>1, <3>2, <3>3
    <3>4. CASE read # file
      <4>1. PICK r : read = SetUsers(file, o.who, r)
        BY <1>1, <3>4 DEF Readings
      <4>2. file.users \in [User -> Role]
        BY DEF TypeOK, Doc
      <4>3. read.users = [v \in User |-> IF v \in o.who THEN r ELSE file.users[v]]
        BY <4>1, <4>2 DEF SetUsers, TypeOK, Doc
      <4> QED BY <3>1, <3>2, <4>3 DEF Admins
    <3> QED BY <3>3, <3>4
  <2> QED BY <2>1, <2>2 DEF Spared
<1>4. \A w \in Writer : step'[w] = "loaded" => step[w] = "loaded" /\ doc'[w] = doc[w] /\ op'[w] = op[w]
  BY <1>2
<1> QED BY <1>2, <1>3, <1>4 DEF Founded, Admins

LEMMA FoundedLoad == ASSUME IInv, Founded, NEW w \in Writer, Load(w) PROVE Founded'
<1> USE DEF IInv, Load, disk
<1>1. PICK s \in {"idle", "done", "loaded", After(op[w])} :
        /\ Goto(w, s)
        /\ s = "loaded" => \/ s = After(op[w])
                           \/ doc'[w] = file /\ Proceeds(file, op[w])
                              /\ excused' = (excused \/ (op[w].kind \in {"add", "role"} /\
                                                         doc[w].users # file.users))
  BY DEF Abandon, TypeOK
<1>2. s \notin {"checked", "queued"} /\ (s # After(op[w]) \/ s # "loaded")
  BY Sources, AfterStep
<1>3. \A v \in Writer : step'[v] = IF v = w THEN s ELSE step[v]
  BY <1>1 DEF TypeOK, Goto
<1>4. file' = file /\ op' = op /\ \A v \in Writer \ {w} : doc'[v] = doc[v]
  BY DEF TypeOK
<1>5. ~excused' => ~excused
  BY ZenonT(30)
<1>6. ASSUME s = "loaded", ~excused' PROVE Admins(Edited(doc'[w], op'[w])) # {}
  <2>1. /\ doc'[w] = file /\ Proceeds(file, op[w]) /\ ~excused
        /\ op[w].kind \in {"add", "role"} => doc[w].users = file.users
    BY <1>1, <1>2, <1>5, <1>6
  <2>2. Admins(file) # {}
    BY <2>1 DEF Founded
  <2>3. op[w] \in Op \/ \E c \in Client : op[w] = Registration(c)
    BY Sources
  <2>4. Spared(file, op[w])
    <3>1. CASE op[w].kind \notin {"add", "role"}
      BY <3>1 DEF Spared
    <3>2. CASE op[w].kind \in {"add", "role"}
      <4>1. w = Portal /\ step[Portal] \in {"checked", "queued"}
        BY <3>2, Names, Registered DEF Asked
      <4>2. Spared(doc[w], op[w]) /\ doc[w].users = file.users
        BY <2>1, <3>2, <4>1 DEF Founded
      <4> QED BY <4>2 DEF Spared, Admins
    <3> QED BY <3>1, <3>2
  <2> QED BY <1>4, <2>1, <2>2, <2>3, <2>4, EditedAdmins DEF TypeOK
<1>7. ASSUME ~excused', NEW v \in Writer, step'[v] = "loaded"
      PROVE  Admins(Edited(doc'[v], op'[v])) # {}
  BY <1>3, <1>4, <1>5, <1>6, <1>7 DEF Founded
<1>8. ~excused' => Admins(file') # {}
  BY <1>4, <1>5 DEF Founded
<1>9. ~excused' /\ step'[Portal] \in {"checked", "queued"} => Spared(doc'[Portal], op'[Portal])
  BY <1>2, <1>3, <1>4, <1>5, Names DEF Founded
<1> QED BY <1>7, <1>8, <1>9 DEF Founded, Spared, Admins

LEMMA FoundedSaved ==
  ASSUME IInv, Founded, NEW w \in Writer, step[w] = "loaded", Saved(w)
  PROVE  Founded'
<1> USE DEF IInv, Saved
<1>1. After(op[w]) \notin {"loaded", "checked", "queued"}
  BY Sources, AfterStep
<1>2. ~excused => Admins(file') # {}
  BY DEF Founded
<1>3. \A v \in Writer : step'[v] \in {"loaded", "checked", "queued"} => step'[v] = step[v]
  BY <1>1 DEF TypeOK, Goto
<1> QED BY <1>2, <1>3, Names DEF Founded, Spared, Admins

LEMMA FoundedFails ==
  ASSUME IInv, Founded, NEW w \in Writer, SaveFails(w)
  PROVE  Founded'
<1> USE DEF IInv, SaveFails
<1>1. doc' = doc /\ op' = op /\ \A v \in Writer : step'[v] \in {step[v], "idle", "done"}
  BY DEF Abandon, TypeOK, Goto
<1>2. CASE UNCHANGED <<file, broken, unread, excused>>
  BY <1>1, <1>2, FoundedStays, Names
<1>3. CASE CutOff(w)
  <2>1. ~excused' => ~excused /\ Admins(file') # {}
    BY <1>3, ZenonT(30) DEF CutOff
  <2> QED BY <1>1, <2>1, Names DEF Founded, Spared, Admins
<1> QED BY <1>2, <1>3

LEMMA FoundedRestart == ASSUME Founded, Restart PROVE Founded'
<1> USE DEF Restart
<1>1. \A w \in Writer : step'[w] \in {"idle", "done"}
  OBVIOUS
<1>2. ~excused' => Admins(file') # {}
  <2>1. CASE truncating # NoOne
    BY <2>1
  <2>2. CASE truncating = NoOne
    <3>1. file' \in Booted(file)
      BY <2>2
    <3>2. Admins(file) # {} => file' = file
      BY <3>1 DEF Booted, Admins
    <3> QED BY <2>2, <3>2 DEF Founded
  <2> QED BY <2>1, <2>2
<1> QED BY <1>1, <1>2, Names DEF Founded, Spared, Admins

LEMMA FoundedStep == ASSUME IInv, Founded, [Next]_vars PROVE Founded'
<1> USE DEF disk, At, Goto
<1>1. CASE UNCHANGED vars
  BY <1>1 DEF vars, Founded, Spared, Admins
<1>2. ASSUME NEW o \in Op, Begin(o) PROVE Founded'
  BY <1>2, FoundedBegin
<1>3. ASSUME NEW c \in Client, Register(c) \/ SnapshotLoad(c) \/ SnapshotStore(c) PROVE Founded'
  <2>1. /\ file' = file /\ doc' = doc /\ excused' = excused
        /\ \A w \in Writer \ {c} : op'[w] = op[w] /\ step'[w] = step[w]
    BY <1>3 DEF Register, SnapshotLoad, SnapshotStore, IInv, TypeOK, history
  <2>2. step'[c] # "loaded" /\ c # Portal
    BY <1>3, Names DEF Register, SnapshotLoad, SnapshotStore, IInv, TypeOK, Writer
  <2> QED BY <2>1, <2>2, FoundedStays, Names
<1>4. ASSUME NEW w \in Writer, Rename(w) \/ DirectWrite(w) PROVE Founded'
  <2>1. step[w] = "loaded" /\ Saved(w)
    BY <1>4, Names DEF Rename, DirectWrite, At, IInv, TypeOK
  <2> QED BY <2>1, FoundedSaved
<1>5. ASSUME NEW w \in Writer, Fallback(w) PROVE Founded'
  BY <1>5, FoundedStays DEF Fallback, history
<1>6. CASE Reload \/ Pop
  <2>1. file' = file /\ doc' = doc /\ op' = op /\ excused' = excused
    BY <1>6 DEF Reload, Pop
  <2>2. \A v \in Writer : step'[v] \in {step[v], "idle"}
    BY <1>6 DEF Reload, Pop, IInv, TypeOK
  <2> QED BY <2>1, <2>2, FoundedStays, Names
<1> QED BY <1>1, <1>2, <1>3, <1>4, <1>5, <1>6, FoundedLoad, FoundedFails, FoundedRestart DEF Next

-----------------------------------------------------------------------------
(* Theorems *)

\* Every document the file, the writers and the banner hold is one; a writer in the middle
\* of a direct write is one that has loaded.
THEOREM DocumentsTyped == Spec => []TypeOK
<1>1. IInv => TypeOK
  BY DEF IInv
<1> QED BY <1>1, IInvInvariant, PTL

\* Whoever demotes or deletes users, alone or in a batch, and whatever older documents the
\* threads of registrations write: unless a direct write was cut off before the admins, or
\* an edit was checked on other users than it changed, an admin is in the file
\* (admin/views/users.py, "Keep at least one admin").
THEOREM AnAdminStays == Spec => []AdminRemains
<1>1. Init => Founded
  <2> SUFFICES ASSUME Init PROVE Founded
    OBVIOUS
  <2>1. Admins(file) # {}
    BY DEF Init, Admins
  <2>2. \A w \in Writer : step[w] = "idle"
    BY DEF Init
  <2> QED BY <2>1, <2>2, Names DEF Founded
<1>2. IInv /\ Founded /\ [Next]_vars => Founded'
  BY FoundedStep
<1>3. Founded => AdminRemains
  BY DEF Founded, AdminRemains
<1> QED BY <1>1, <1>2, <1>3, IInvInvariant, PTL DEF Spec

\* Between two requests the token store has a token as config.toml does, whatever saves fell
\* back or failed, unless a registration or a write that was cut off has changed its row
\* since the store was loaded (token handlers and _reload_tokens).
THEOREM StoreFollows == Spec => []StoreFollowsFile
<1>1. IInv => StoreFollowsFile
  BY DEF IInv, Following, StoreFollowsFile, Readable, At
<1> QED BY <1>1, IInvInvariant, PTL
=============================================================================
