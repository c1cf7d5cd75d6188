------------------------- MODULE ZabbixClientProofs -------------------------
(* Theorems about ZabbixClient, for every set of threads and servers. *)
EXTENDS ZabbixClient, TLAPS

-----------------------------------------------------------------------------
(* The inductive invariant *)

\* before anything of the call can have left
Before == {"idle", "lookup", "waitGet", "connect", "send"}
Reconnecting == {"waitReconnect", "reconnect"}
Locked == {"connect", "reconnect"}

Untouched(c) == applied[c] = 0 /\ c \notin adrift

\* Where a thread is, what for, and what Zabbix has done for it fit together.  A thread that
\* is to send again, or that still has to begin, has left nothing behind; one that reconnects
\* to report a lost write is the only one that may have.
Fits(c) ==
  /\ call[c].got \in Ver
  /\ call[c].step = "storeVersion" => call[c].kind = "version"
  /\ call[c].step \in {"askZone", "storeZone"} => call[c].kind = "zone"
  /\ call[c].why = "check" => call[c].kind = "check"
  /\ call[c].step \in Reconnecting => call[c].why # "none"
  /\ call[c].step = "idle" => call[c].why = "none"
  /\ call[c].step # "done" => call[c].result = "none"
  /\ call[c].kind # "write" => Untouched(c)
  /\ call[c].step \in Before => Untouched(c)
  /\ call[c].step \in Reconnecting /\ call[c].why # "report" => Untouched(c)
  /\ applied[c] \in {0, 1} /\ (c \in adrift => applied[c] = 0)
  /\ call[c].kind = "write" /\ call[c].result = "ok" => applied[c] = 1
  /\ call[c].kind = "write" /\ call[c].result = "error" /\ call[c].tries = 0 => Untouched(c)

\* Who connects holds the lock, and nothing is cached for its server.
Alone ==
  \A c \in Call : call[c].step \in Locked => lock = c /\ clients[call[c].srv] = 0

IInv == TypeOK /\ (\A c \in Call : Fits(c)) /\ Alone

\* ReplacedOnlyByReconnect, of one step
Replaced ==
  \A s \in Server :
    clients[s] # 0 /\ clients'[s] # clients[s] =>
      clients'[s] = 0 /\ lock' \in Call /\ call[lock'].step = "waitReconnect"

LEMMA Names == NoOne \notin Call /\ Server # {} /\ 0 \in Ver /\ VersionBound \in Nat \ {0}
BY ConstantsAssumption DEF ConstantsAssumption, Ver

LEMMA Attempts == CheckAttempts \in Nat \ {0}
BY ConstantsAssumption DEF ConstantsAssumption

LEMMA Known == \A v \in 1..VersionBound : v \in Ver
BY DEF Ver

-----------------------------------------------------------------------------
(* What a step of one thread leaves to the others *)

\* c alone moves on, to the state f.
Moves(c, f) ==
  /\ f \in CallState
  /\ call' \in [Call -> CallState]
  /\ \A d \in Call : call'[d] = IF d = c THEN f ELSE call[d]

LEMMA MovesTo ==
  ASSUME TypeOK, NEW c \in Call, NEW f \in CallState, call' = [call EXCEPT ![c] = f]
  PROVE  Moves(c, f)
BY DEF TypeOK, Moves

LEMMA FitsOthers ==
  ASSUME NEW c \in Call, \A d \in Call : Fits(d), NEW f, Moves(c, f), Fits(c)',
         \A d \in Call \ {c} : applied'[d] = applied[d] /\ (d \in adrift' <=> d \in adrift)
  PROVE  \A d \in Call : Fits(d)'
<1> SUFFICES ASSUME NEW d \in Call PROVE Fits(d)'
  OBVIOUS
<1>1. CASE d = c
  BY <1>1
<1>2. CASE d # c
  BY <1>2 DEF Fits, Untouched, Moves
<1> QED BY <1>1, <1>2

\* The lock and the cache are left alone by who does not hold the lock.
LEMMA AloneQuiet ==
  ASSUME Alone, NEW c \in Call, NEW f, Moves(c, f), f.step \notin Locked,
         lock' = lock, clients' = clients
  PROVE  Alone' /\ Replaced
BY DEF Alone, Moves, Replaced

\* Who holds the lock gives it back; it may have filled the empty slot.
LEMMA AloneRelease ==
  ASSUME TypeOK, Alone, NEW c \in Call, call[c].step \in Locked,
         NEW f, Moves(c, f), f.step \notin Locked,
         lock' = NoOne,
         \A s \in Server : clients[s] # 0 => clients'[s] = clients[s]
  PROVE  Alone' /\ Replaced
BY Names DEF Alone, Moves, Replaced

\* Nobody held the lock; c takes it with an empty slot.
LEMMA AloneTake ==
  ASSUME TypeOK, Alone, NEW c \in Call, lock = NoOne, NEW f, Moves(c, f), f.srv = call[c].srv,
         lock' = c, clients'[f.srv] = 0,
         \/ clients' = clients
         \/ call[c].step = "waitReconnect" /\ clients' = [clients EXCEPT ![f.srv] = 0]
  PROVE  Alone' /\ Replaced
<1>1. Alone'
  BY Names DEF Alone, Moves
<1>2. Replaced
  <2> SUFFICES ASSUME NEW s \in Server, clients[s] # 0, clients'[s] # clients[s]
               PROVE  clients'[s] = 0 /\ call[c].step = "waitReconnect"
    BY DEF Replaced
  <2> QED BY DEF TypeOK
<1> QED BY <1>1, <1>2

-----------------------------------------------------------------------------
(* A step of one thread *)

\* what every step of a thread leaves typed
Kept(c) ==
  /\ version' = version /\ warm' = warm
  /\ clients' \in [Server -> Ver] /\ versions' \in [Server -> Ver] /\ zones' \in [Server -> Ver]
  /\ lock' \in Call \cup {Warm, NoOne}
  /\ applied' \in [Call -> Nat] /\ adrift' \subseteq Call
  /\ \A d \in Call \ {c} : applied'[d] = applied[d] /\ (d \in adrift' <=> d \in adrift)

\* A step of c keeps the invariant when what it leaves of c fits, and the lock and the cache
\* are treated in one of the three ways.
LEMMA ThreadStep ==
  ASSUME IInv, NEW c \in Call, NEW f \in CallState, call' = [call EXCEPT ![c] = f],
         Kept(c), Fits(c)',
         \/ f.step \notin Locked /\ lock' = lock /\ clients' = clients
         \/ /\ call[c].step \in Locked /\ f.step \notin Locked /\ lock' = NoOne
            /\ \A s \in Server : clients[s] # 0 => clients'[s] = clients[s]
         \/ /\ lock = NoOne /\ lock' = c /\ f.srv = call[c].srv /\ clients'[f.srv] = 0
            /\ \/ clients' = clients
               \/ call[c].step = "waitReconnect" /\ clients' = [clients EXCEPT ![f.srv] = 0]
  PROVE  IInv' /\ Replaced
<1>1. Moves(c, f)
  BY MovesTo DEF IInv
<1>2. TypeOK'
  BY <1>1 DEF IInv, TypeOK, Kept, Moves
<1>3. \A d \in Call : Fits(d)'
  BY <1>1, FitsOthers DEF IInv, Kept
<1>4. Alone' /\ Replaced
  <2>1. CASE f.step \notin Locked /\ lock' = lock /\ clients' = clients
    BY <1>1, <2>1, AloneQuiet DEF IInv
  <2>2. CASE /\ call[c].step \in Locked /\ f.step \notin Locked /\ lock' = NoOne
             /\ \A s \in Server : clients[s] # 0 => clients'[s] = clients[s]
    BY <1>1, <2>2, AloneRelease DEF IInv
  <2>3. CASE /\ lock = NoOne /\ lock' = c /\ f.srv = call[c].srv /\ clients'[f.srv] = 0
             /\ \/ clients' = clients
                \/ call[c].step = "waitReconnect" /\ clients' = [clients EXCEPT ![f.srv] = 0]
    BY <1>1, <2>3, AloneTake DEF IInv
  <2> QED BY <2>1, <2>2, <2>3
<1> QED BY <1>2, <1>3, <1>4 DEF IInv

\* what is known of the thread that moves
LEMMA Mine ==
  ASSUME IInv, NEW c \in Call
  PROVE  /\ call[c] \in CallState /\ Fits(c) /\ call[c].srv \in Server
         /\ clients[call[c].srv] \in Ver /\ version[call[c].srv] \in Ver
         /\ call[c].step \in Locked => clients[call[c].srv] = 0
<1>1. call[c] \in CallState /\ call[c].srv \in Server
  BY DEF IInv, TypeOK, CallState
<1> QED BY <1>1, Known DEF IInv, TypeOK, Alone

LEMMA BeginKeeps ==
  ASSUME IInv, NEW c \in Call, NEW s \in Server, NEW k \in Kinds, Begin(c, k, s)
  PROVE  IInv' /\ Replaced
<1> DEFINE cached == (k = "version" /\ versions[s] # 0) \/ (k = "zone" /\ zones[s] # 0)
           f == [call[c] EXCEPT !.kind = k, !.srv = s,
                 !.step = CASE cached -> "done"
                            [] k = "check" -> "waitReconnect"
                            [] OTHER -> "lookup",
                 !.why = IF k = "check" THEN "check" ELSE "none",
                 !.result = IF cached THEN "ok" ELSE "none"]
<1>1. call' = [call EXCEPT ![c] = f]
  BY DEF Begin
<1> HIDE DEF f
<1>2. /\ f.kind = k /\ f.srv = s /\ f.got = call[c].got /\ f.tries = call[c].tries
      /\ f.step = (CASE cached -> "done" [] k = "check" -> "waitReconnect" [] OTHER -> "lookup")
      /\ f.why = (IF k = "check" THEN "check" ELSE "none")
      /\ f.result = (IF cached THEN "ok" ELSE "none")
      /\ f \in CallState
  BY Mine, ConstantsAssumption, ZenonT(30) DEF f, CallState, Steps
<1>3. Kept(c)
  BY DEF Begin, Kept, IInv, TypeOK, zabbix, cache
<1>4. Fits(c)'
  <2>1. call'[c] = f
    BY <1>1 DEF IInv, TypeOK
  <2>2. Untouched(c) /\ applied' = applied /\ adrift' = adrift /\ call[c].got \in Ver
    BY Mine DEF Begin, At, Fits, Before, zabbix
  <2> QED BY <1>2, <2>1, <2>2 DEF Fits, Untouched, Before, Reconnecting
<1>5. f.step \notin Locked /\ lock' = lock /\ clients' = clients
  BY <1>2 DEF Begin, Locked, cache
<1> QED BY <1>1, <1>2, <1>3, <1>4, <1>5, ThreadStep

\* what a thread can learn
LEMMA Answers ==
  ASSUME IInv, NEW c \in Call
  PROVE  /\ clients[call[c].srv] \in Nat /\ version[call[c].srv] \in Nat
         /\ AfterClient(call[c].kind) \in {"storeVersion", "askZone", "send"}
BY Mine, ConstantsAssumption DEF ConstantsAssumption, Ver, AfterClient

LEMMA Tables ==
  ASSUME IInv
  PROVE  /\ clients \in [Server -> Ver] /\ versions \in [Server -> Ver] /\ zones \in [Server -> Ver]
         /\ lock \in Call \cup {Warm, NoOne} /\ applied \in [Call -> Nat] /\ adrift \subseteq Call
         /\ 0 \in Ver
BY Names DEF IInv, TypeOK

LEMMA LookupKeeps ==
  ASSUME IInv, NEW c \in Call, Lookup(c)
  PROVE  IInv' /\ Replaced
<1> DEFINE f == IF clients[call[c].srv] # 0
                THEN [call[c] EXCEPT !.step = AfterClient(call[c].kind),
                                        !.got = clients[call[c].srv]]
                ELSE [call[c] EXCEPT !.step = "waitGet"]
<1>1. call' = [call EXCEPT ![c] = f] /\ call[c].step = "lookup"
  BY DEF Lookup, Goto, GotoWith, At, IInv, TypeOK
<1>2. \/ /\ clients[call[c].srv] # 0
         /\ f.step = AfterClient(call[c].kind) /\ f.got = clients[call[c].srv]
         /\ f.kind = call[c].kind /\ f.srv = call[c].srv /\ f.why = call[c].why
         /\ f.tries = call[c].tries /\ f.result = call[c].result
      \/ /\ ~(clients[call[c].srv] # 0)
         /\ f.step = "waitGet" /\ f.kind = call[c].kind /\ f.srv = call[c].srv
         /\ f.got = call[c].got /\ f.why = call[c].why /\ f.tries = call[c].tries
         /\ f.result = call[c].result
  BY Mine DEF CallState
<1>3. f \in CallState
  BY Mine, Answers DEF CallState, Steps
<1> HIDE DEF f
<1>4. call'[c] = f
  BY <1>1 DEF IInv, TypeOK
<1>5. Kept(c)
  BY Mine, Answers, Tables DEF Lookup, Goto, GotoWith, Kept, zabbix, cache
<1>6. Fits(c)'
  BY <1>1, <1>2, <1>4, Mine
  DEF Lookup, Goto, GotoWith, AfterClient, Fits, Untouched, Before, Reconnecting, CallState,
      zabbix, IInv, TypeOK
<1>7. f.step \notin Locked /\ lock' = lock /\ clients' = clients
  BY <1>1, <1>2, Mine
  DEF Lookup, Goto, GotoWith, AfterClient, Locked, cache, IInv, TypeOK, CallState
<1> QED BY <1>1, <1>3, <1>5, <1>6, <1>7, ThreadStep

LEMMA ConnectKeeps ==
  ASSUME IInv, NEW c \in Call, Connect(c)
  PROVE  IInv' /\ Replaced
<1> DEFINE f == [call[c] EXCEPT !.step = AfterClient(call[c].kind), !.got = version[call[c].srv]]
<1>1. call' = [call EXCEPT ![c] = f] /\ call[c].step = "connect"
  BY DEF Connect, GotoWith, At, IInv, TypeOK
<1>2. /\ f.step = AfterClient(call[c].kind) /\ f.got = version[call[c].srv]
      /\ f.kind = call[c].kind /\ f.srv = call[c].srv /\ f.why = call[c].why
      /\ f.tries = call[c].tries /\ f.result = call[c].result
  BY Mine DEF CallState
<1>3. f \in CallState
  BY Mine, Answers DEF CallState, Steps
<1> HIDE DEF f
<1>4. call'[c] = f
  BY <1>1 DEF IInv, TypeOK
<1>5. Kept(c)
  BY Mine, Answers, Tables DEF Connect, GotoWith, Kept, zabbix, cache
<1>6. Fits(c)'
  BY <1>1, <1>2, <1>4, Mine
  DEF Connect, GotoWith, AfterClient, Fits, Untouched, Before, Reconnecting, CallState, zabbix,
      IInv, TypeOK
<1>7. /\ call[c].step \in Locked /\ f.step \notin Locked /\ lock' = NoOne
      /\ \A s \in Server : clients[s] # 0 => clients'[s] = clients[s]
  BY <1>1, <1>2, Mine DEF Connect, GotoWith, AfterClient, Locked, cache, IInv, TypeOK, CallState
<1> QED BY <1>1, <1>3, <1>5, <1>6, <1>7, ThreadStep

LEMMA ConnectFailsKeeps ==
  ASSUME IInv, NEW c \in Call, ConnectFails(c)
  PROVE  IInv' /\ Replaced
<1> DEFINE f == [call[c] EXCEPT !.step = "done",
                                        !.result = (IF call[c].kind = "zone" THEN "ok" ELSE "error")]
<1>1. call' = [call EXCEPT ![c] = f] /\ call[c].step = "connect"
  BY DEF ConnectFails, Return, At, IInv, TypeOK
<1>2. /\ f.step = "done" /\ f.result = (IF call[c].kind = "zone" THEN "ok" ELSE "error")
      /\ f.kind = call[c].kind /\ f.srv = call[c].srv /\ f.got = call[c].got
      /\ f.why = call[c].why /\ f.tries = call[c].tries
  BY Mine DEF CallState
<1>3. f \in CallState
  BY Mine, Answers, ZenonT(30) DEF CallState, Steps
<1> HIDE DEF f
<1>4. call'[c] = f
  BY <1>1 DEF IInv, TypeOK
<1>5. Kept(c)
  BY Mine, Answers, Tables DEF ConnectFails, Return, Kept, zabbix, cache
<1>6. Fits(c)'
  BY <1>1, <1>2, <1>4, Mine
  DEF ConnectFails, Return, Fits, Untouched, Before, Reconnecting, CallState, zabbix, IInv, TypeOK
<1>7. /\ call[c].step \in Locked /\ f.step \notin Locked /\ lock' = NoOne
      /\ \A s \in Server : clients[s] # 0 => clients'[s] = clients[s]
  BY <1>1, <1>2, Mine DEF ConnectFails, Return, Locked, cache, IInv, TypeOK, CallState
<1> QED BY <1>1, <1>3, <1>5, <1>6, <1>7, ThreadStep

LEMMA AnsweredKeeps ==
  ASSUME IInv, NEW c \in Call, Answered(c)
  PROVE  IInv' /\ Replaced
<1> DEFINE f == [call[c] EXCEPT !.step = "done", !.result = "ok"]
<1>1. call' = [call EXCEPT ![c] = f] /\ call[c].step = "send"
  BY DEF Answered, Return, Effect, At, IInv, TypeOK
<1>2. /\ f.step = "done" /\ f.result = "ok" /\ f.kind = call[c].kind /\ f.srv = call[c].srv
      /\ f.got = call[c].got /\ f.why = call[c].why /\ f.tries = call[c].tries
  BY Mine DEF CallState
<1>3. f \in CallState
  BY Mine, Answers DEF CallState, Steps
<1> HIDE DEF f
<1>4. call'[c] = f
  BY <1>1 DEF IInv, TypeOK
<1>5. Kept(c)
  BY Mine, Answers, Tables DEF Answered, Return, Effect, Kept, zabbix, cache
<1>6. Fits(c)'
  BY <1>1, <1>2, <1>4, Mine
  DEF Answered, Return, Effect, Fits, Untouched, Before, Reconnecting, CallState, zabbix, IInv,
      TypeOK
<1>7. f.step \notin Locked /\ lock' = lock /\ clients' = clients
  BY <1>1, <1>2, Mine DEF Answered, Return, Effect, Locked, cache, IInv, TypeOK, CallState
<1> QED BY <1>1, <1>3, <1>5, <1>6, <1>7, ThreadStep

LEMMA RefusedKeeps ==
  ASSUME IInv, NEW c \in Call, Refused(c)
  PROVE  IInv' /\ Replaced
<1> DEFINE f == [call[c] EXCEPT !.step = "done", !.result = "error"]
<1>1. call' = [call EXCEPT ![c] = f] /\ call[c].step = "send"
  BY DEF Refused, Return, At, IInv, TypeOK
<1>2. /\ f.step = "done" /\ f.result = "error" /\ f.kind = call[c].kind
      /\ f.srv = call[c].srv /\ f.got = call[c].got /\ f.why = call[c].why
      /\ f.tries = call[c].tries
  BY Mine DEF CallState
<1>3. f \in CallState
  BY Mine, Answers DEF CallState, Steps
<1> HIDE DEF f
<1>4. call'[c] = f
  BY <1>1 DEF IInv, TypeOK
<1>5. Kept(c)
  BY Mine, Answers, Tables DEF Refused, Return, Kept, zabbix, cache
<1>6. Fits(c)'
  BY <1>1, <1>2, <1>4, Mine
  DEF Refused, Return, Fits, Untouched, Before, Reconnecting, CallState, zabbix, IInv, TypeOK
<1>7. f.step \notin Locked /\ lock' = lock /\ clients' = clients
  BY <1>1, <1>2, Mine DEF Refused, Return, Locked, cache, IInv, TypeOK, CallState
<1> QED BY <1>1, <1>3, <1>5, <1>6, <1>7, ThreadStep

LEMMA SessionRefusedKeeps ==
  ASSUME IInv, NEW c \in Call, SessionRefused(c)
  PROVE  IInv' /\ Replaced
<1> DEFINE f == IF call[c].tries = 0
                THEN [call[c] EXCEPT !.step = "waitReconnect", !.why = "resend"]
                ELSE [call[c] EXCEPT !.step = "done", !.result = "error"]
<1>1. call' = [call EXCEPT ![c] = f] /\ call[c].step = "send"
  BY DEF SessionRefused, Return, At, IInv, TypeOK
<1>2. \/ /\ call[c].tries = 0
         /\ f.step = "waitReconnect" /\ f.why = "resend" /\ f.kind = call[c].kind
         /\ f.srv = call[c].srv /\ f.got = call[c].got /\ f.tries = call[c].tries
         /\ f.result = call[c].result
      \/ /\ ~(call[c].tries = 0)
         /\ f.step = "done" /\ f.result = "error" /\ f.kind = call[c].kind
         /\ f.srv = call[c].srv /\ f.got = call[c].got /\ f.why = call[c].why
         /\ f.tries = call[c].tries
  BY Mine DEF CallState
<1>3. f \in CallState
  BY Mine, Answers DEF CallState, Steps
<1> HIDE DEF f
<1>4. call'[c] = f
  BY <1>1 DEF IInv, TypeOK
<1>5. Kept(c)
  BY Mine, Answers, Tables DEF SessionRefused, Return, Kept, zabbix, cache
<1>6. Fits(c)'
  BY <1>1, <1>2, <1>4, Mine
  DEF SessionRefused, Return, Fits, Untouched, Before, Reconnecting, CallState, zabbix, IInv, TypeOK
<1>7. f.step \notin Locked /\ lock' = lock /\ clients' = clients
  BY <1>1, <1>2, Mine DEF SessionRefused, Return, Locked, cache, IInv, TypeOK, CallState
<1> QED BY <1>1, <1>3, <1>5, <1>6, <1>7, ThreadStep

LEMMA AnswerLostKeeps ==
  ASSUME IInv, NEW c \in Call, AnswerLost(c)
  PROVE  IInv' /\ Replaced
<1> DEFINE f == IF call[c].tries = 0
                THEN [call[c] EXCEPT !.step = "waitReconnect",
                                        !.why = (IF ResendIsSafe(c) THEN "resend" ELSE "report")]
                ELSE [call[c] EXCEPT !.step = "done", !.result = "error"]
<1>1. call' = [call EXCEPT ![c] = f] /\ call[c].step = "send"
  BY DEF AnswerLost, OnLostAnswer, Return, Effect, At, IInv, TypeOK
<1>2. \/ /\ call[c].tries = 0
         /\ f.step = "waitReconnect" /\ f.why = (IF ResendIsSafe(c) THEN "resend" ELSE "report")
         /\ f.kind = call[c].kind /\ f.srv = call[c].srv /\ f.got = call[c].got
         /\ f.tries = call[c].tries /\ f.result = call[c].result
      \/ /\ ~(call[c].tries = 0)
         /\ f.step = "done" /\ f.result = "error" /\ f.kind = call[c].kind
         /\ f.srv = call[c].srv /\ f.got = call[c].got /\ f.why = call[c].why
         /\ f.tries = call[c].tries
  BY Mine DEF CallState
<1>3. f \in CallState
  BY Mine, Answers, ZenonT(30) DEF CallState, Steps
<1> HIDE DEF f
<1>4. call'[c] = f
  BY <1>1 DEF IInv, TypeOK
<1>5. Kept(c)
  BY Mine, Answers, Tables DEF AnswerLost, OnLostAnswer, Return, Effect, Kept, zabbix, cache
<1>6. Fits(c)'
  BY <1>1, <1>2, <1>4, Mine
  DEF AnswerLost, OnLostAnswer, Return, Effect, ResendIsSafe, Fits, Untouched, Before,
      Reconnecting, CallState, zabbix, IInv, TypeOK
<1>7. f.step \notin Locked /\ lock' = lock /\ clients' = clients
  BY <1>1, <1>2, Mine
  DEF AnswerLost, OnLostAnswer, Return, Effect, Locked, cache, IInv, TypeOK, CallState
<1> QED BY <1>1, <1>3, <1>5, <1>6, <1>7, ThreadStep

LEMMA AcquireReconnectKeeps ==
  ASSUME IInv, NEW c \in Call, AcquireReconnect(c)
  PROVE  IInv' /\ Replaced
<1> DEFINE f == [call[c] EXCEPT !.step = "reconnect"]
<1>1. call' = [call EXCEPT ![c] = f] /\ call[c].step = "waitReconnect"
  BY DEF AcquireReconnect, Goto, At, IInv, TypeOK
<1>2. /\ f.step = "reconnect" /\ f.kind = call[c].kind /\ f.srv = call[c].srv
      /\ f.got = call[c].got /\ f.why = call[c].why /\ f.tries = call[c].tries
      /\ f.result = call[c].result
  BY Mine DEF CallState
<1>3. f \in CallState
  BY Mine, Answers DEF CallState, Steps
<1> HIDE DEF f
<1>4. call'[c] = f
  BY <1>1 DEF IInv, TypeOK
<1>5. Kept(c)
  BY Mine, Answers, Tables DEF AcquireReconnect, Goto, Kept, zabbix, cache
<1>6. Fits(c)'
  BY <1>1, <1>2, <1>4, Mine
  DEF AcquireReconnect, Goto, Fits, Untouched, Before, Reconnecting, CallState, zabbix, IInv, TypeOK
<1>7. /\ lock = NoOne /\ lock' = c /\ f.srv = call[c].srv /\ clients'[f.srv] = 0
      /\ call[c].step = "waitReconnect" /\ clients' = [clients EXCEPT ![f.srv] = 0]
  BY <1>1, <1>2, Mine DEF AcquireReconnect, Goto, Locked, cache, IInv, TypeOK, CallState
<1> QED BY <1>1, <1>3, <1>5, <1>6, <1>7, ThreadStep

LEMMA ReconnectKeeps ==
  ASSUME IInv, NEW c \in Call, Reconnect(c)
  PROVE  IInv' /\ Replaced
<1> DEFINE f == CASE call[c].why = "resend" -> [call[c] EXCEPT !.step = "send",
                                        !.got = version[call[c].srv], !.tries = 1]
             [] call[c].why = "report" -> [call[c] EXCEPT !.step = "done", !.result = "unknown"]
             [] call[c].why = "check" -> [call[c] EXCEPT !.step = "done", !.result = "ok"]
<1>1. call' = [call EXCEPT ![c] = f] /\ call[c].step = "reconnect"
  BY Mine DEF Reconnect, At, IInv, TypeOK, Fits, Reconnecting
<1>2. \/ /\ call[c].why = "resend"
         /\ f.step = "send" /\ f.got = version[call[c].srv] /\ f.tries = 1
         /\ f.kind = call[c].kind /\ f.srv = call[c].srv /\ f.why = call[c].why
         /\ f.result = call[c].result
      \/ /\ call[c].why = "report"
         /\ f.step = "done" /\ f.result = "unknown" /\ f.kind = call[c].kind
         /\ f.srv = call[c].srv /\ f.got = call[c].got /\ f.why = call[c].why
         /\ f.tries = call[c].tries
      \/ /\ call[c].why = "check"
         /\ f.step = "done" /\ f.result = "ok" /\ f.kind = call[c].kind /\ f.srv = call[c].srv
         /\ f.got = call[c].got /\ f.why = call[c].why /\ f.tries = call[c].tries
  BY <1>1, Mine DEF CallState, Fits, Reconnecting
<1>3. f \in CallState
  BY Mine, Answers, <1>1, ZenonT(30) DEF CallState, Steps, Fits, Reconnecting
<1> HIDE DEF f
<1>4. call'[c] = f
  BY <1>1 DEF IInv, TypeOK
<1>5. Kept(c)
  BY Mine, Answers, Tables DEF Reconnect, Kept, zabbix, cache
<1>6. Fits(c)'
  BY <1>1, <1>2, <1>4, Mine
  DEF Reconnect, Fits, Untouched, Before, Reconnecting, CallState, zabbix, IInv, TypeOK
<1>7. /\ call[c].step \in Locked /\ f.step \notin Locked /\ lock' = NoOne
      /\ \A s \in Server : clients[s] # 0 => clients'[s] = clients[s]
  BY <1>1, <1>2, Mine DEF Reconnect, Locked, cache, IInv, TypeOK, CallState
<1> QED BY <1>1, <1>3, <1>5, <1>6, <1>7, ThreadStep

LEMMA StoreVersionKeeps ==
  ASSUME IInv, NEW c \in Call, StoreVersion(c)
  PROVE  IInv' /\ Replaced
<1> DEFINE f == [call[c] EXCEPT !.step = "done", !.result = "ok"]
<1>1. call' = [call EXCEPT ![c] = f] /\ call[c].step = "storeVersion"
  BY DEF StoreVersion, Return, At, IInv, TypeOK
<1>2. /\ f.step = "done" /\ f.result = "ok" /\ f.kind = call[c].kind /\ f.srv = call[c].srv
      /\ f.got = call[c].got /\ f.why = call[c].why /\ f.tries = call[c].tries
  BY Mine DEF CallState
<1>3. f \in CallState
  BY Mine, Answers DEF CallState, Steps
<1> HIDE DEF f
<1>4. call'[c] = f
  BY <1>1 DEF IInv, TypeOK
<1>5. Kept(c)
  BY Mine, Answers, Tables DEF StoreVersion, Return, Kept, zabbix, cache, Fits
<1>6. Fits(c)'
  BY <1>1, <1>2, <1>4, Mine
  DEF StoreVersion, Return, Fits, Untouched, Before, Reconnecting, CallState, zabbix, IInv, TypeOK
<1>7. f.step \notin Locked /\ lock' = lock /\ clients' = clients
  BY <1>1, <1>2, Mine DEF StoreVersion, Return, Locked, cache, IInv, TypeOK, CallState
<1> QED BY <1>1, <1>3, <1>5, <1>6, <1>7, ThreadStep

LEMMA StoreZoneKeeps ==
  ASSUME IInv, NEW c \in Call, StoreZone(c)
  PROVE  IInv' /\ Replaced
<1> DEFINE f == [call[c] EXCEPT !.step = "done", !.result = "ok"]
<1>1. call' = [call EXCEPT ![c] = f] /\ call[c].step = "storeZone"
  BY DEF StoreZone, Return, At, IInv, TypeOK
<1>2. /\ f.step = "done" /\ f.result = "ok" /\ f.kind = call[c].kind /\ f.srv = call[c].srv
      /\ f.got = call[c].got /\ f.why = call[c].why /\ f.tries = call[c].tries
  BY Mine DEF CallState
<1>3. f \in CallState
  BY Mine, Answers DEF CallState, Steps
<1> HIDE DEF f
<1>4. call'[c] = f
  BY <1>1 DEF IInv, TypeOK
<1>5. Kept(c)
  BY Mine, Answers, Tables DEF StoreZone, Return, Kept, zabbix, cache, Fits
<1>6. Fits(c)'
  BY <1>1, <1>2, <1>4, Mine
  DEF StoreZone, Return, Fits, Untouched, Before, Reconnecting, CallState, zabbix, IInv, TypeOK
<1>7. f.step \notin Locked /\ lock' = lock /\ clients' = clients
  BY <1>1, <1>2, Mine DEF StoreZone, Return, Locked, cache, IInv, TypeOK, CallState
<1> QED BY <1>1, <1>3, <1>5, <1>6, <1>7, ThreadStep


LEMMA AcquireGetKeeps ==
  ASSUME IInv, NEW c \in Call, AcquireGet(c)
  PROVE  IInv' /\ Replaced
<1> DEFINE s == call[c].srv
           f == IF clients[s] # 0
                THEN [call[c] EXCEPT !.step = AfterClient(call[c].kind), !.got = clients[s]]
                ELSE [call[c] EXCEPT !.step = "connect"]
<1>1. call' = [call EXCEPT ![c] = f] /\ call[c].step = "waitGet"
  BY DEF AcquireGet, Goto, GotoWith, At
<1>2. \/ /\ clients[s] # 0
         /\ f.step = AfterClient(call[c].kind) /\ f.got = clients[s]
         /\ f.kind = call[c].kind /\ f.srv = s /\ f.why = call[c].why /\ f.tries = call[c].tries
         /\ f.result = call[c].result
      \/ /\ clients[s] = 0
         /\ f.step = "connect" /\ f.got = call[c].got
         /\ f.kind = call[c].kind /\ f.srv = s /\ f.why = call[c].why /\ f.tries = call[c].tries
         /\ f.result = call[c].result
  BY Mine DEF CallState
<1>3. f \in CallState
  BY Mine, Answers DEF CallState, Steps
<1> HIDE DEF f
<1>4. call'[c] = f
  BY <1>1 DEF IInv, TypeOK
<1>5. Kept(c)
  BY Mine, Answers, Tables DEF AcquireGet, Kept, zabbix, cache
<1>6. Fits(c)'
  BY <1>1, <1>2, <1>4, Mine
  DEF AcquireGet, AfterClient, Fits, Untouched, Before, Reconnecting, CallState, zabbix, IInv,
      TypeOK
<1>7. CASE clients[s] # 0
  <2>1. f.step \notin Locked /\ lock' = lock /\ clients' = clients
    BY <1>2, <1>7, Answers DEF AcquireGet, Locked, cache
  <2> QED BY <1>1, <1>3, <1>5, <1>6, <2>1, ThreadStep
<1>8. CASE clients[s] = 0
  <2>1. lock = NoOne /\ lock' = c /\ f.srv = call[c].srv /\ clients'[f.srv] = 0 /\ clients' = clients
    BY <1>2, <1>8 DEF AcquireGet, cache
  <2> QED BY <1>1, <1>3, <1>5, <1>6, <2>1, ThreadStep
<1> QED BY <1>7, <1>8

LEMMA EndedInState ==
  ASSUME NEW r \in CallState, NEW told \in {"none", "ok", "error", "unknown"}
  PROVE  [r EXCEPT !.step = "done", !.result = told] \in CallState
BY DEF CallState, Steps

LEMMA RetriedInState ==
  ASSUME NEW r \in CallState, NEW n \in 0..(CheckAttempts - 1)
  PROVE  [r EXCEPT !.step = "waitReconnect", !.tries = n] \in CallState
BY DEF CallState, Steps

\* What a reconnect that failed leaves: another attempt of the check, or the error.
LEMMA ReconnectFailsKeeps ==
  ASSUME IInv, NEW c \in Call, ReconnectFails(c)
  PROVE  IInv' /\ Replaced
<1> DEFINE again == [call[c] EXCEPT !.step = "waitReconnect", !.tries = call[c].tries + 1]
           ended == [call[c] EXCEPT !.step = "done",
                                    !.result = IF call[c].why = "report" THEN "unknown" ELSE "error"]
           retried == call[c].why = "check" /\ call[c].tries + 1 < CheckAttempts
<1>1. PICK f \in {again, ended} :
        call' = [call EXCEPT ![c] = f] /\ (f = ended \/ (f = again /\ retried))
  <2>1. CASE retried /\ call' = [call EXCEPT ![c] = again]
    BY <2>1
  <2>2. CASE call' = [call EXCEPT ![c] = ended]
    BY <2>2
  <2> QED BY <2>1, <2>2 DEF ReconnectFails, Return
<1>2. call[c].step = "reconnect" /\ call'[c] = f
  BY <1>1 DEF ReconnectFails, At, IInv, TypeOK
<1>3. \/ /\ retried /\ f.step = "waitReconnect" /\ f.tries = call[c].tries + 1
         /\ f.kind = call[c].kind /\ f.srv = call[c].srv /\ f.got = call[c].got
         /\ f.why = call[c].why /\ f.result = call[c].result
      \/ /\ f.step = "done" /\ f.tries = call[c].tries
         /\ f.result = (IF call[c].why = "report" THEN "unknown" ELSE "error")
         /\ f.kind = call[c].kind /\ f.srv = call[c].srv /\ f.got = call[c].got
         /\ f.why = call[c].why
  BY <1>1, Mine DEF CallState
<1>4. call[c].tries \in Nat
  BY Mine, Attempts DEF CallState
<1>5. f \in CallState
  <2>1. ended \in CallState
    BY Mine, EndedInState
  <2>2. retried => call[c].tries + 1 \in 0..(CheckAttempts - 1)
    BY <1>4, Attempts
  <2>3. retried => again \in CallState
    BY <2>2, Mine, RetriedInState
  <2> QED BY <1>1, <2>1, <2>3
<1>6. Kept(c)
  BY Tables DEF ReconnectFails, Kept, zabbix, cache
<1>7. Fits(c)'
  BY <1>2, <1>3, Mine
  DEF ReconnectFails, Fits, Untouched, Before, Reconnecting, CallState, zabbix
<1>8. /\ call[c].step \in Locked /\ f.step \notin Locked /\ lock' = NoOne
      /\ \A s \in Server : clients[s] # 0 => clients'[s] = clients[s]
  BY <1>2, <1>3 DEF ReconnectFails, Locked, cache
<1> QED BY <1>1, <1>5, <1>6, <1>7, <1>8, ThreadStep

LEMMA AskZoneKeeps ==
  ASSUME IInv, NEW c \in Call, AskZone(c)
  PROVE  IInv' /\ Replaced
<1> DEFINE s == call[c].srv
           told == [call[c] EXCEPT !.step = "storeZone", !.got = version[s]]
           broken == [call[c] EXCEPT !.step = "done", !.result = "ok"]
<1>1. PICK f \in {told, broken} : call' = [call EXCEPT ![c] = f]
  BY DEF AskZone, GotoWith, Return
<1>2. call[c].step = "askZone" /\ call'[c] = f
  BY <1>1 DEF AskZone, At, IInv, TypeOK
<1>3. \/ /\ f.step = "storeZone" /\ f.got = version[s]
         /\ f.kind = call[c].kind /\ f.srv = s /\ f.why = call[c].why /\ f.tries = call[c].tries
         /\ f.result = call[c].result
      \/ /\ f.step = "done" /\ f.result = "ok"
         /\ f.kind = call[c].kind /\ f.srv = s /\ f.why = call[c].why /\ f.tries = call[c].tries
         /\ f.got = call[c].got
  BY <1>1, Mine DEF CallState
<1>4. f \in CallState
  BY <1>1, Mine, Answers, ZenonT(30) DEF CallState, Steps
<1>5. Kept(c)
  BY Tables DEF AskZone, Kept, zabbix, cache
<1>6. Fits(c)'
  BY <1>2, <1>3, Mine
  DEF AskZone, Fits, Untouched, Before, Reconnecting, CallState, zabbix
<1>7. f.step \notin Locked /\ lock' = lock /\ clients' = clients
  BY <1>3 DEF AskZone, Locked, cache
<1> QED BY <1>1, <1>4, <1>5, <1>6, <1>7, ThreadStep

LEMMA RateLimitedKeeps ==
  ASSUME IInv, NEW c \in Call, NEW s \in Server, RateLimited(c, s)
  PROVE  IInv' /\ Replaced
<1>1. PICK k \in Kinds \cap {"read", "write"} :
        call' = [call EXCEPT ![c] = [@ EXCEPT !.kind = k, !.srv = s, !.step = "done",
                                                  !.result = "error"]]
  BY DEF RateLimited
<1> DEFINE f == [call[c] EXCEPT !.kind = k, !.srv = s, !.step = "done", !.result = "error"]
<1>2. call' = [call EXCEPT ![c] = f] /\ call[c].step = "idle"
  BY <1>1 DEF RateLimited, At
<1>3. /\ f.kind = k /\ f.srv = s /\ f.step = "done" /\ f.result = "error"
      /\ f.got = call[c].got /\ f.why = call[c].why /\ f.tries = call[c].tries
      /\ f \in CallState
  BY Mine DEF CallState, Steps
<1> HIDE DEF f
<1>4. call'[c] = f
  BY <1>2 DEF IInv, TypeOK
<1>5. Kept(c)
  BY Tables DEF RateLimited, Kept, zabbix, cache
<1>6. call[c].why # "check"
  BY <1>2, Mine DEF Fits, CallState
<1>7. Fits(c)'
  BY <1>2, <1>3, <1>4, <1>6, Mine
  DEF RateLimited, Fits, Untouched, Before, Reconnecting, CallState, zabbix
<1>8. f.step \notin Locked /\ lock' = lock /\ clients' = clients
  BY <1>3 DEF RateLimited, Locked, cache
<1> QED BY <1>2, <1>3, <1>5, <1>7, <1>8, ThreadStep

-----------------------------------------------------------------------------
(* The steps of Zabbix and of the warm-up *)

\* A lost request that Zabbix may still carry out was not carried out before.
LEMMA LateEffectKeeps ==
  ASSUME IInv, NEW c \in Call, LateEffect(c)
  PROVE  IInv' /\ Replaced
<1>1. /\ call' = call /\ clients' = clients /\ lock' = lock
      /\ applied[c] = 0 /\ applied'[c] = 1 /\ c \notin adrift'
      /\ \A d \in Call \ {c} : applied'[d] = applied[d] /\ (d \in adrift' <=> d \in adrift)
  BY DEF LateEffect, IInv, TypeOK, cache, Fits
<1>2. TypeOK'
  BY DEF LateEffect, IInv, TypeOK, cache
<1>3. \A d \in Call : Fits(d)'
  <2> SUFFICES ASSUME NEW d \in Call PROVE Fits(d)'
    OBVIOUS
  <2>1. CASE d = c
    <3>1. Fits(c) /\ c \in adrift
      BY DEF IInv, LateEffect
    <3> QED BY <1>1, <2>1, <3>1 DEF Fits, Untouched
  <2>2. CASE d # c
    BY <1>1, <2>2 DEF IInv, Fits, Untouched
  <2> QED BY <2>1, <2>2
<1> QED BY <1>1, <1>2, <1>3 DEF IInv, Alone, Replaced

\* Nothing a thread has or holds changes, and the cache only where it was empty while
\* nobody held the lock.
LEMMA OtherStep ==
  ASSUME IInv, TypeOK', call' = call, applied' = applied, adrift' = adrift, lock' = lock,
         \/ clients' = clients
         \/ lock = NoOne /\ \A s \in Server : clients[s] # 0 => clients'[s] = clients[s]
  PROVE  IInv' /\ Replaced
<1>1. \A d \in Call : Fits(d)'
  BY DEF IInv, Fits, Untouched
<1>2. Alone' /\ Replaced
  BY Names DEF IInv, Alone, Replaced
<1> QED BY <1>1, <1>2 DEF IInv

LEMMA UpgradeKeeps ==
  ASSUME IInv, NEW s \in Server, Upgrade(s)
  PROVE  IInv' /\ Replaced
<1>1. version[s] + 1 \in 1..VersionBound
  BY Names DEF IInv, TypeOK, Upgrade
<1>2. TypeOK'
  BY <1>1 DEF IInv, TypeOK, Upgrade, cache
<1> QED BY <1>2, OtherStep DEF Upgrade, cache

LEMMA WarmKeeps ==
  ASSUME IInv, NEW s \in Server, WarmSkip(s) \/ WarmConnect(s)
  PROVE  IInv' /\ Replaced
<1>1. version[s] \in Ver
  BY Known DEF IInv, TypeOK
<1>2. TypeOK'
  BY <1>1 DEF IInv, TypeOK, WarmSkip, WarmConnect, cache, zabbix
<1> QED BY <1>2, OtherStep DEF WarmSkip, WarmConnect, cache, zabbix

LEMMA WarmStoreKeeps ==
  ASSUME IInv, WarmStore
  PROVE  IInv' /\ Replaced
<1>1. warm.srv \in Server /\ warm.got \in Ver
  BY DEF IInv, TypeOK
<1>2. TypeOK'
  BY <1>1, Names DEF IInv, TypeOK, WarmStore, SetDefault, zabbix
<1>3. \A s \in Server : clients[s] # 0 => clients'[s] = clients[s]
  BY <1>1 DEF IInv, TypeOK, WarmStore, SetDefault
<1> QED BY <1>2, <1>3, OtherStep DEF WarmStore, zabbix

-----------------------------------------------------------------------------
(* The invariant *)

LEMMA InitIInv == Init => IInv
<1> SUFFICES ASSUME Init PROVE IInv
  OBVIOUS
<1>1. AnyServer \in Server
  BY Names DEF AnyServer
<1>2. TypeOK
  BY <1>1, Names, Attempts DEF Init, TypeOK, CallState, Steps
<1>3. \A c \in Call : Fits(c)
  BY Names DEF Init, Fits, Untouched, Before, Reconnecting
<1>4. Alone
  BY DEF Init, Alone, Locked
<1> QED BY <1>2, <1>3, <1>4 DEF IInv

LEMMA InvStep == IInv /\ [Next]_vars => IInv' /\ (Replaced \/ UNCHANGED vars)
<1> SUFFICES ASSUME IInv, [Next]_vars PROVE IInv' /\ (Replaced \/ UNCHANGED vars)
  OBVIOUS
<1>1. CASE UNCHANGED vars
  BY <1>1, OtherStep DEF vars, IInv, TypeOK
<1>2. ASSUME NEW c \in Call, NEW s \in Server, RateLimited(c, s) \/ \E k \in Kinds : Begin(c, k, s)
      PROVE  IInv' /\ Replaced
  BY <1>2, RateLimitedKeeps, BeginKeeps
<1>3. ASSUME NEW c \in Call, Work(c) PROVE IInv' /\ Replaced
  BY <1>3, LookupKeeps, AcquireGetKeeps, ConnectKeeps, ConnectFailsKeeps, AnsweredKeeps,
      RefusedKeeps,
     SessionRefusedKeeps, AnswerLostKeeps, AcquireReconnectKeeps, ReconnectKeeps, ReconnectFailsKeeps,
     StoreVersionKeeps, AskZoneKeeps, StoreZoneKeeps
  DEF Work
<1>4. ASSUME NEW c \in Call, LateEffect(c) PROVE IInv' /\ Replaced
  BY <1>4, LateEffectKeeps
<1>5. ASSUME NEW s \in Server, Upgrade(s) \/ WarmSkip(s) \/ WarmConnect(s) PROVE IInv' /\ Replaced
  BY <1>5, UpgradeKeeps, WarmKeeps
<1>6. CASE WarmStore
  BY <1>6, WarmStoreKeeps
<1> QED BY <1>1, <1>2, <1>3, <1>4, <1>5, <1>6 DEF Next

LEMMA IInvInvariant == Spec => []IInv
BY InitIInv, InvStep, PTL DEF Spec

-----------------------------------------------------------------------------
(* The theorems *)

\* The caches hold versions, the lock somebody, and every thread is in one of the states of
\* the code, whatever Zabbix answers.
THEOREM CachesTyped == Spec => []TypeOK
<1>1. IInv => TypeOK
  BY DEF IInv
<1> QED BY <1>1, IInvInvariant, PTL

\* README.md "A write is sent once": whatever sessions, connections and answers are lost,
\* and however many threads call, Zabbix carries a write out at most once.
THEOREM WritesAreSentOnce == Spec => []WriteAppliedAtMostOnce
<1>1. IInv => WriteAppliedAtMostOnce
  BY DEF IInv, Fits, WriteAppliedAtMostOnce
<1> QED BY <1>1, IInvInvariant, PTL

\* What call() says about a write is true: a result means that it was carried out, an error
\* of the first attempt that it was not and never will be.
THEOREM OutcomesAreHonest == Spec => []OutcomeHonest
<1>1. IInv => OutcomeHonest
  BY DEF IInv, Fits, Untouched, OutcomeHonest, IsWrite
<1> QED BY <1>1, IInvInvariant, PTL

\* A connection leaves the cache only for the reconnect that holds the lock: no two first
\* calls connect over one another.
THEOREM ConnectionsAreKept == Spec => ReplacedOnlyByReconnect
<1>1. IInv /\ [Next]_vars =>
        [\A s \in Server :
           clients[s] # 0 /\ clients'[s] # clients[s] =>
             clients'[s] = 0 /\ lock' \in Call /\ call[lock'].step = "waitReconnect"]_vars
  BY InvStep DEF Replaced
<1> QED BY <1>1, IInvInvariant, PTL DEF Spec, ReplacedOnlyByReconnect
=============================================================================
