-------------------------- MODULE TaskStoreProofs --------------------------
(* Theorems about TaskStore, for every set of tasks, every limit and every pool. *)
EXTENDS TaskStore, FiniteSetTheorems, TLAPS

-----------------------------------------------------------------------------
(* The inductive invariant *)

Typed ==
  /\ status \in [Task -> {"none", "working", "completed", "failed", "cancelled", "gone"}]
  /\ old \subseteq Live
  /\ payload \in [Task -> {"none", "result", "error"}]
  /\ work \in [Task -> {"none", "waiting", "ready", "ended"}]
  /\ stage \in [Task -> 0..Stages]
  /\ job \in [Task -> {"none", "queued", "running", "done"}]
  /\ scope \subseteq Task
  /\ answer \in [Task -> {"none", "cancelled", "crashed"}]

Agrees == \A t \in Task : /\ payload[t] = "result" <=> status[t] = "completed"
                          /\ payload[t] = "error" <=> status[t] = "failed"

Within == Cardinality(Live) <= MaxLive /\ Cardinality(Busy) <= Workers

\* Nobody is left who could finish a finished task again.
Over == \A t \in Task : status[t] \in {"completed", "failed"} => work[t] = "ended"

IInv == Typed /\ Agrees /\ Within /\ Over

\* what FinishedIsFinal says of one step
KeepsFinished ==
  \A t \in Task :
    /\ status[t] \in {"completed", "failed"} =>
         status'[t] \in {status[t], "gone"} /\ (status'[t] # "gone" => payload'[t] = payload[t])
    /\ status[t] = "gone" => status'[t] = "gone"

LEMMA FewerFit ==
  ASSUME NEW T \in SUBSET Task, NEW S \in SUBSET T, NEW n \in Nat, Cardinality(T) <= n
  PROVE  Cardinality(S) <= n
<1>1. IsFiniteSet(T)
  BY ConstantsAssumption, FS_Subset DEF ConstantsAssumption
<1>2. IsFiniteSet(S) /\ Cardinality(S) <= Cardinality(T)
  BY <1>1, FS_Subset
<1>3. Cardinality(S) \in Nat /\ Cardinality(T) \in Nat
  BY <1>1, <1>2, FS_CardinalityType
<1> QED BY <1>2, <1>3

LEMMA OneMoreFits ==
  ASSUME NEW T \in SUBSET Task, NEW t \in Task, NEW S \in SUBSET (T \cup {t}),
         NEW n \in Nat, Cardinality(T) < n
  PROVE  Cardinality(S) <= n
<1>1. IsFiniteSet(T)
  BY ConstantsAssumption, FS_Subset DEF ConstantsAssumption
<1>2. Cardinality(T \cup {t}) \in {Cardinality(T), Cardinality(T) + 1}
  BY <1>1, FS_AddElement
<1>3. Cardinality(T) \in Nat
  BY <1>1, FS_CardinalityType
<1>4. Cardinality(T \cup {t}) <= n
  BY <1>2, <1>3
<1> QED BY <1>4, FewerFit

LEMMA Limits == MaxLive \in Nat /\ Stages \in Nat \ {0} /\ Workers \in Nat
BY ConstantsAssumption DEF ConstantsAssumption

LEMMA InitIInv == Init => IInv
<1> SUFFICES ASSUME Init PROVE IInv
  OBVIOUS
<1>1. Live = {} /\ Busy = {}
  BY DEF Init, Live, Busy
<1>2. Within
  BY <1>1, FS_EmptySet, Limits DEF Within
<1>3. Typed
  BY Limits DEF Init, Typed
<1>4. Agrees /\ Over
  BY DEF Init, Agrees, Over
<1> QED BY <1>2, <1>3, <1>4 DEF IInv

\* The store changes and the background does not, but that nothing new is kept.
LEMMA StoreStep ==
  ASSUME IInv, Typed', Agrees', Live' \subseteq Live, UNCHANGED job,
         \A t \in Task : status'[t] \in {"completed", "failed"} => work'[t] = "ended"
  PROVE  IInv'
<1>1. Cardinality(Live') <= MaxLive
  BY FewerFit, Limits DEF IInv, Within, Live
<1>2. Busy' = Busy
  BY DEF Busy
<1>3. Within'
  BY <1>1, <1>2 DEF IInv, Within
<1>4. Over'
  BY DEF Over
<1> QED BY <1>3, <1>4 DEF IInv

\* The background changes and the store does not, but that no more threads are busy.
LEMMA WorkStep ==
  ASSUME IInv, Typed', UNCHANGED <<status, payload>>, Busy' \subseteq Busy,
         \A t \in Task : work[t] = "ended" => work'[t] = "ended"
  PROVE  IInv' /\ KeepsFinished
<1>1. Cardinality(Busy') <= Workers
  BY FewerFit, Limits DEF IInv, Within, Busy
<1>2. Live' = Live
  BY DEF Live
<1>3. Within'
  BY <1>1, <1>2 DEF IInv, Within
<1>4. Agrees' /\ Over'
  BY DEF IInv, Agrees, Over
<1>5. KeepsFinished
  BY DEF KeepsFinished
<1> QED BY <1>3, <1>4, <1>5 DEF IInv

-----------------------------------------------------------------------------
(* The steps *)

LEMMA ExpireStep == ASSUME IInv, NEW t \in Task, Expire(t) PROVE IInv' /\ KeepsFinished
<1>1. Typed'
  BY DEF Expire, background, IInv, Typed, Live
<1>2. Busy' = Busy
  BY DEF Expire, background, Busy
<1> QED BY <1>1, <1>2, WorkStep DEF Expire, background

LEMMA SweepStep == ASSUME IInv, Sweep PROVE IInv' /\ KeepsFinished
<1>1. \A t \in Task : /\ status'[t] = IF t \in old THEN "gone" ELSE status[t]
                      /\ payload'[t] = IF t \in old THEN "none" ELSE payload[t]
  BY DEF Sweep, Cleaned
<1>2. Typed'
  BY DEF Sweep, Cleaned, background, IInv, Typed, Live
<1>3. Agrees' /\ KeepsFinished
  BY <1>1 DEF IInv, Agrees, KeepsFinished, Typed, Live
<1>4. Live' \subseteq Live
  BY <1>1 DEF Live
<1> QED BY <1>1, <1>2, <1>3, <1>4, StoreStep DEF Sweep, background, IInv, Over

LEMMA AcceptStep == ASSUME IInv, NEW t \in Task, Accept(t) PROVE IInv' /\ KeepsFinished
<1>1. PICK kept \in {"working", "gone"} : status' = [Cleaned(status) EXCEPT ![t] = kept]
  BY DEF Accept
<1>2. \A u \in Task : /\ status'[u] = IF u = t THEN kept ELSE IF u \in old THEN "gone" ELSE status[u]
                      /\ payload'[u] = IF u \in old THEN "none" ELSE payload[u]
                      /\ work'[u] = IF u = t THEN "waiting" ELSE work[u]
                      /\ job'[u] = IF u = t THEN "queued" ELSE job[u]
  BY <1>1 DEF Accept, Cleaned, IInv, Typed
<1>3. Typed'
  BY <1>1, Limits DEF Accept, Cleaned, IInv, Typed, Live
<1>4. Agrees' /\ KeepsFinished
  BY <1>2 DEF Accept, IInv, Agrees, KeepsFinished, Typed, Live
<1>5. Over'
  BY <1>2 DEF IInv, Over
<1>6. Cardinality(Live') <= MaxLive
  <2>1. Live' \subseteq (Live \ old) \cup {t}
    BY <1>2 DEF Live
  <2> QED BY <2>1, OneMoreFits, Limits DEF Accept, Room, Live
<1>7. Cardinality(Busy') <= Workers
  <2>1. Busy' \subseteq Busy
    BY <1>2 DEF Busy
  <2> QED BY <2>1, FewerFit, Limits DEF IInv, Within, Busy
<1> QED BY <1>3, <1>4, <1>5, <1>6, <1>7 DEF IInv, Within

LEMMA StartStep == ASSUME IInv, NEW t \in Task, StartJob(t) PROVE IInv' /\ KeepsFinished
<1>1. Typed'
  BY DEF StartJob, entry, IInv, Typed, Live
<1>2. Busy' \subseteq Busy \cup {t}
  BY DEF StartJob, Busy, IInv, Typed
<1>3. Cardinality(Busy') <= Workers
  BY <1>2, OneMoreFits, Limits DEF StartJob, Busy
<1>4. Live' = Live
  BY DEF StartJob, entry, Live
<1>5. Agrees' /\ Over' /\ KeepsFinished
  BY DEF StartJob, entry, IInv, Agrees, Over, KeepsFinished
<1> QED BY <1>1, <1>3, <1>4, <1>5 DEF IInv, Within

LEMMA EndStep == ASSUME IInv, NEW t \in Task, EndJob(t) PROVE IInv' /\ KeepsFinished
<1>1. Typed'
  BY DEF EndJob, entry, IInv, Typed, Live
<1>2. Busy' \subseteq Busy
  BY DEF EndJob, Busy, IInv, Typed
<1>3. \A u \in Task : work[u] = "ended" => work'[u] = "ended"
  BY DEF EndJob, IInv, Typed
<1> QED BY <1>1, <1>2, <1>3, WorkStep DEF EndJob, entry

LEMMA ResumeStep == ASSUME IInv, NEW t \in Task, Resume(t) PROVE IInv' /\ KeepsFinished
<1>1. Typed'
  BY Limits DEF Resume, entry, IInv, Typed, Live
<1>2. Busy' \subseteq Busy
  BY DEF Resume, Busy, IInv, Typed
<1>3. \A u \in Task : work[u] = "ended" => work'[u] = "ended"
  BY DEF Resume, IInv, Typed
<1> QED BY <1>1, <1>2, <1>3, WorkStep DEF Resume, entry

\* A coroutine that is still there finishes a task that is not finished.
LEMMA FinishStep ==
  ASSUME IInv, NEW t \in Task, NEW outcome, NEW result, Finish(t, outcome, result),
         \/ outcome = "completed" /\ result = "result"
         \/ outcome = "failed" /\ result = "error"
  PROVE  IInv' /\ KeepsFinished
<1>1. \A u \in Task : work'[u] = IF u = t THEN "ended" ELSE work[u]
  BY DEF Finish, IInv, Typed
<1>2. status[t] \notin {"completed", "failed"}
  BY DEF Finish, IInv, Over
<1>3. CASE t \in Live
  <2>1. \A u \in Task : /\ status'[u] = IF u = t THEN outcome ELSE status[u]
                        /\ payload'[u] = IF u = t THEN result ELSE payload[u]
    BY <1>3 DEF Finish, IInv, Typed
  <2>2. Live' = Live
    BY <1>3, <2>1 DEF Live
  <2>3. Typed'
    <3>1. status' \in [Task -> {"none", "working", "completed", "failed", "cancelled", "gone"}]
          /\ payload' \in [Task -> {"none", "result", "error"}]
      BY <1>3 DEF Finish, IInv, Typed
    <3>2. work' \in [Task -> {"none", "waiting", "ready", "ended"}]
      BY DEF Finish, IInv, Typed
    <3> QED BY <2>2, <3>1, <3>2 DEF Finish, IInv, Typed
  <2>4. Agrees' /\ KeepsFinished
    BY <1>2, <1>3, <2>1 DEF IInv, Agrees, KeepsFinished, Live
  <2> QED BY <1>1, <2>1, <2>2, <2>3, <2>4, StoreStep DEF Finish, IInv, Over
<1>4. CASE t \notin Live
  <2>1. Typed'
    BY <1>4 DEF Finish, IInv, Typed, Live
  <2>2. Busy' = Busy
    BY DEF Finish, Busy
  <2> QED BY <1>1, <1>4, <2>1, <2>2, WorkStep DEF Finish
<1> QED BY <1>3, <1>4

LEMMA LateStep == ASSUME IInv, NEW t \in Task, LateInterrupt(t) PROVE IInv' /\ KeepsFinished
<1>1. Typed'
  BY DEF LateInterrupt, Interrupt, entry, IInv, Typed, Live
<1>2. Busy' \subseteq Busy
  BY DEF LateInterrupt, Interrupt, Busy, IInv, Typed
<1>3. \A u \in Task : work[u] = "ended" => work'[u] = "ended"
  BY DEF LateInterrupt, Interrupt, IInv, Typed
<1> QED BY <1>1, <1>2, <1>3, WorkStep DEF LateInterrupt, entry

LEMMA CancelStep == ASSUME IInv, NEW t \in Task, Cancel(t) PROVE IInv' /\ KeepsFinished
<1>1. status[t] = "working"
  BY DEF Cancel, Cancellable
<1>2. \A u \in Task :
        /\ status'[u] = IF u \in old THEN "gone" ELSE IF u = t THEN "cancelled" ELSE status[u]
        /\ payload'[u] = IF u \in old THEN "none" ELSE payload[u]
  BY DEF Cancel, Cleaned, IInv, Typed
<1>3. \A u \in Task : work[u] = "ended" => work'[u] = "ended"
  BY DEF Cancel, Interrupt, IInv, Typed
<1>4. Busy' \subseteq Busy
  BY DEF Cancel, Interrupt, Busy, IInv, Typed
<1>5. Typed'
  <2>1. work' \in [Task -> {"none", "waiting", "ready", "ended"}]
        /\ job' \in [Task -> {"none", "queued", "running", "done"}]
    BY DEF Cancel, Interrupt, IInv, Typed
  <2>2. status' \in [Task -> {"none", "working", "completed", "failed", "cancelled", "gone"}]
        /\ payload' \in [Task -> {"none", "result", "error"}]
    BY DEF Cancel, Cleaned, IInv, Typed
  <2> QED BY <2>1, <2>2, ZenonT(30) DEF Cancel, IInv, Typed, Live
<1>6. Agrees' /\ KeepsFinished
  BY <1>1, <1>2 DEF IInv, Agrees, KeepsFinished, Typed, Live
<1>7. Over'
  BY <1>2, <1>3 DEF IInv, Over
<1>8. Cardinality(Live') <= MaxLive
  <2>1. Live' \subseteq Live
    BY <1>1, <1>2 DEF Live
  <2> QED BY <2>1, FewerFit, Limits DEF IInv, Within, Live
<1>9. Cardinality(Busy') <= Workers
  BY <1>4, FewerFit, Limits DEF IInv, Within, Busy
<1> QED BY <1>5, <1>6, <1>7, <1>8, <1>9 DEF IInv, Within

LEMMA InvStep == IInv /\ [Next]_vars => IInv' /\ KeepsFinished
<1> SUFFICES ASSUME IInv, [Next]_vars PROVE IInv' /\ KeepsFinished
  OBVIOUS
<1>1. CASE Sweep
  BY <1>1, SweepStep
<1>2. ASSUME NEW t \in Task, Accept(t) \/ Expire(t) \/ Run(t) \/ Cancel(t)
      PROVE  IInv' /\ KeepsFinished
  <2>1. CASE Run(t)
    BY <2>1, StartStep, EndStep, ResumeStep, FinishStep, LateStep DEF Run, Complete, Fail
  <2> QED BY <1>2, <2>1, AcceptStep, ExpireStep, CancelStep
<1>3. CASE UNCHANGED vars
  <2>1. Typed' /\ Busy' = Busy
    BY <1>3 DEF vars, IInv, Typed, Live, Busy
  <2> QED BY <1>3, <2>1, WorkStep DEF vars
<1> QED BY <1>1, <1>2, <1>3 DEF Next

LEMMA IInvInvariant == Spec => []IInv
BY InitIInv, InvStep, PTL DEF Spec

-----------------------------------------------------------------------------
(* The theorems *)

\* The store never holds more tasks than MAX_LIVE_TASKS, the pool never runs more jobs than
\* it has workers, and what tasks/result answers with agrees with what tasks/get says.
THEOREM StoreWithinLimits == Spec => []TypeOK
<1>1. IInv => TypeOK
  BY DEF IInv, Typed, Agrees, Within, TypeOK
<1> QED BY <1>1, IInvInvariant, PTL

\* A task reported completed or failed stays so, with its payload, until it is dropped, and
\* a dropped task does not come back: no coroutine is left that could end it a second time,
\* and a cancel looks at the status first.
THEOREM FinishedStays == Spec => FinishedIsFinal
<1>1. IInv /\ [Next]_vars => [KeepsFinished]_vars
  BY InvStep
<1> QED BY <1>1, IInvInvariant, PTL DEF Spec, FinishedIsFinal, KeepsFinished
=============================================================================
