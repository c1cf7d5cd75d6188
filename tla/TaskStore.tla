----------------------------- MODULE TaskStore -----------------------------
(***************************************************************************)
(* The tasks extension (task_store.py) and the background work of the       *)
(* tool it is for, report_generate (server.py): a tools/call with a task is *)
(* answered at once, the report is made by a coroutine of the event loop    *)
(* whose stages (read the zone, fetch, render, save, mail) each run in a    *)
(* worker thread of the shared pool, and the client polls or cancels.       *)
(*                                                                         *)
(* Handlers do not suspend while they touch the store, so each is one step. *)
(* The coroutine is "waiting" for the job of its stage or "ready", its      *)
(* wake-up scheduled but not run: other handlers come between.              *)
(*                                                                         *)
(* External: the pool of asyncio.to_thread, which starts queued jobs when a *)
(* worker is free and cannot stop one that runs, and anyio's cancel scope,  *)
(* which interrupts a coroutine only while what it waits for is not done.   *)
(***************************************************************************)
EXTENDS Naturals, FiniteSets

CONSTANTS Task,      \* task ids, each given to one call at most
          MaxLive,   \* MAX_LIVE_TASKS
          Stages,    \* how many jobs a report takes
          Workers    \* size of the thread pool

ASSUME ConstantsAssumption ==
  /\ IsFiniteSet(Task)
  /\ MaxLive \in Nat \ {0} /\ Stages \in Nat \ {0} /\ Workers \in Nat \ {0}

VARIABLES
  status,   \* of the entry in _tasks; "none" before it, "gone" once it was dropped
  old,      \* tasks past expires_at_monotonic
  payload,  \* what tasks/result answers with
  work,     \* the coroutine
  stage,    \* the stage it is in
  job,      \* its job in the pool
  scope,    \* tasks whose cancel scope is cancelled
  answer    \* history: how tasks/cancel was answered

entry == <<status, old, payload>>
background == <<work, stage, job, scope>>
vars == <<status, old, payload, work, stage, job, scope, answer>>

Live == {t \in Task : status[t] \notin {"none", "gone"}}
Busy == {t \in Task : job[t] = "running"}

TypeOK ==
  /\ status \in [Task -> {"none", "working", "completed", "failed", "cancelled", "gone"}]
  /\ old \subseteq Live
  /\ payload \in [Task -> {"none", "result", "error"}]
  /\ work \in [Task -> {"none", "waiting", "ready", "ended"}]
  /\ stage \in [Task -> 0..Stages]
  /\ job \in [Task -> {"none", "queued", "running", "done"}]
  /\ scope \subseteq Task
  /\ answer \in [Task -> {"none", "cancelled", "crashed"}]
  /\ Cardinality(Live) <= MaxLive /\ Cardinality(Busy) <= Workers
  \* tasks/result and tasks/get agree on what is finished and on what failed
  /\ \A t \in Task : /\ payload[t] = "result" <=> status[t] = "completed"
                    /\ payload[t] = "error" <=> status[t] = "failed"

Init ==
  /\ status = [t \in Task |-> "none"] /\ old = {}
  /\ payload = [t \in Task |-> "none"]
  /\ work = [t \in Task |-> "none"] /\ stage = [t \in Task |-> 0]
  /\ job = [t \in Task |-> "none"]
  /\ scope = {}
  /\ answer = [t \in Task |-> "none"]

-----------------------------------------------------------------------------
(* The store *)

\* the table of statuses after _cleanup_expired
Cleaned(table) == [t \in Task |-> IF t \in old THEN "gone" ELSE table[t]]

Expire(t) ==
  /\ t \in Live \ old
  /\ old' = old \cup {t}
  /\ UNCHANGED <<status, payload, background, answer>>

\* _cleanup_expired, as tasks/get, tasks/result and the periodic sweeper call it.
Sweep ==
  /\ old # {}
  /\ status' = Cleaned(status)
  /\ payload' = [t \in Task |-> IF t \in old THEN "none" ELSE payload[t]]
  /\ old' = {}
  /\ UNCHANGED <<background, answer>>

\* one task more than the limit
FaultyRoom == Cardinality(Live \ old) <= MaxLive

\* create_task counts after it cleaned up
Room == Cardinality(Live \ old) < MaxLive

\* intercept_tool_call: create_task, get_entry and the start of the coroutine up to its
\* first job.  (The loop starts it before the answer with the task id can reach the
\* client.)  A lifetime of zero has passed when get_entry looks.
Accept(t) ==
  /\ status[t] = "none"
  /\ Room
  /\ \E kept \in {"working", "gone"} : status' = [Cleaned(status) EXCEPT ![t] = kept]
  /\ payload' = [u \in Task |-> IF u \in old THEN "none" ELSE payload[u]]
  /\ old' = {}
  /\ work' = [work EXCEPT ![t] = "waiting"]
  /\ stage' = [stage EXCEPT ![t] = 1]
  /\ job' = [job EXCEPT ![t] = "queued"]
  /\ UNCHANGED <<scope, answer>>

-----------------------------------------------------------------------------
(* The worker threads *)

StartJob(t) ==
  /\ job[t] = "queued"
  /\ Cardinality(Busy) < Workers
  /\ job' = [job EXCEPT ![t] = "running"]
  /\ UNCHANGED <<entry, work, stage, scope, answer>>

\* The job is over, well or not.  Nobody may be waiting for it any more.
EndJob(t) ==
  /\ job[t] = "running"
  /\ job' = [job EXCEPT ![t] = "done"]
  /\ work' = [work EXCEPT ![t] = IF @ = "waiting" THEN "ready" ELSE @]
  /\ UNCHANGED <<entry, stage, scope, answer>>

-----------------------------------------------------------------------------
(* The coroutine *)

Resume(t) ==
  /\ work[t] = "ready"
  /\ stage[t] < Stages
  /\ stage' = [stage EXCEPT ![t] = @ + 1]
  /\ job' = [job EXCEPT ![t] = "queued"]
  /\ work' = [work EXCEPT ![t] = "waiting"]
  /\ UNCHANGED <<entry, scope, answer>>

\* complete() and fail(): whatever the status is; nothing if the entry was dropped.
Finish(t, outcome, result) ==
  /\ work[t] = "ready"
  /\ work' = [work EXCEPT ![t] = "ended"]
  /\ IF t \in Live
     THEN /\ status' = [status EXCEPT ![t] = outcome]
          /\ payload' = [payload EXCEPT ![t] = result]
     ELSE UNCHANGED <<status, payload>>
  /\ UNCHANGED <<old, stage, job, scope, answer>>

\* The call returned: its report, or the error result of the tool.
Complete(t) == Finish(t, "completed", "result")

\* the exception is logged and nothing else
FaultyFail(t) ==
  /\ work[t] = "ready"
  /\ work' = [work EXCEPT ![t] = "ended"]
  /\ UNCHANGED <<entry, stage, job, scope, answer>>

Fail(t) == Finish(t, "failed", "error")

\* The coroutines that a cancelled scope interrupts now: a job that has not begun is
\* dropped from the pool, one that has runs on.
Interrupt(t) ==
  IF work[t] = "waiting"
  THEN /\ work' = [work EXCEPT ![t] = "ended"]
       /\ job' = [job EXCEPT ![t] = IF @ = "queued" THEN "none" ELSE @]
  ELSE UNCHANGED <<work, job>>

\* The scope was cancelled while a wake-up was scheduled; it interrupts the next wait.
LateInterrupt(t) ==
  /\ t \in scope
  /\ work[t] = "waiting"
  /\ Interrupt(t)
  /\ UNCHANGED <<entry, stage, scope, answer>>

-----------------------------------------------------------------------------
(* tasks/cancel *)

\* any task in the table can be cancelled
FaultyCancellable(t) == t \in Live

Cancellable(t) == status[t] = "working"

\* cancel() does not look at the lifetime; get_entry after it does, and the answer is
\* built from what it returns.  The payload stays as it is.
Cancel(t) ==
  /\ Cancellable(t)
  /\ scope' = scope \cup {t}
  /\ Interrupt(t)
  /\ status' = Cleaned([status EXCEPT ![t] = "cancelled"])
  /\ payload' = [u \in Task |-> IF u \in old THEN "none" ELSE payload[u]]
  /\ old' = {}
  /\ answer' = [answer EXCEPT ![t] = IF t \in old THEN "crashed" ELSE "cancelled"]
  /\ UNCHANGED stage

-----------------------------------------------------------------------------

Run(t) == StartJob(t) \/ EndJob(t) \/ Resume(t) \/ Complete(t) \/ Fail(t) \/ LateInterrupt(t)

Next == Sweep \/ \E t \in Task : Accept(t) \/ Expire(t) \/ Run(t) \/ Cancel(t)

Spec == Init /\ [][Next]_vars

\* Workers take queued jobs, every job ends (Zabbix calls end at request_timeout, the
\* rest is computation and mail with a timeout) and the loop runs what is ready.  No
\* client is obliged to call, to poll or to cancel, and lifetimes need not pass.
Fairness ==
  \A t \in Task : /\ WF_vars(StartJob(t)) /\ WF_vars(EndJob(t))
                  /\ WF_vars(Resume(t) \/ Complete(t) \/ Fail(t))

FairSpec == Spec /\ Fairness

-----------------------------------------------------------------------------
(* Properties *)

\* What a client was told about a finished task stays true until the entry is dropped:
\* no late cancel, second result or sweep changes it, and a dropped entry never returns.
FinishedIsFinal ==
  [][\A t \in Task :
       /\ status[t] \in {"completed", "failed"} =>
            status'[t] \in {status[t], "gone"} /\ (status'[t] # "gone" => payload'[t] = payload[t])
       /\ status[t] = "gone" => status'[t] = "gone"]_vars

\* A client that polls is not left polling: an accepted task is finished, cancelled or
\* dropped in the end, though cancelled reports go on holding workers of the pool.
TaskEnds == \A t \in Task : status[t] = "working" ~> status[t] # "working"

-----------------------------------------------------------------------------
(* What a document says and the code does not do *)

\* README.md:864 (the client's polling loop stops at "completed", "failed" or
\* "cancelled"): a task reported as cancelled stays cancelled.
CancelledStaysCancelled ==
  \A t \in Task : answer[t] = "cancelled" => status[t] \in {"cancelled", "gone"}
=============================================================================
