------------------------------ MODULE PoolUser ------------------------------
(***************************************************************************)
(* The thread pool under the most general single client: one thread that   *)
(* submits tasks, waits as often as it likes, and destroys the pool, in    *)
(* any order.  JPEGenc's producer thread (Encoder) is one such client.     *)
(***************************************************************************)
EXTENDS ThreadPool

CONSTANT MaxTasks   \* bound on the tasks the client submits
ASSUME MaxTasksAssumption == MaxTasks \in Nat

VARIABLES upc,        \* the client's program counter
          submitted,  \* how many tasks it has submitted
          done        \* the tasks that have been executed

vars == <<poolVars, upc, submitted, done>>

Task == 1..MaxTasks

UserPC == {"free", "notify", "wait", "dtorWait", "dtorStop", "dtorNotify", "dtorJoin", "dead"}

TypeOK ==
  /\ PoolTypeOK(Task)
  /\ upc \in UserPC
  /\ submitted \in 0..MaxTasks
  /\ done \in SUBSET Task

Init ==
  /\ PoolInit
  /\ upc = "free"
  /\ submitted = 0
  /\ done = {}

-----------------------------------------------------------------------------
(* The client. *)

Detach ==
  /\ upc = "free"
  /\ submitted < MaxTasks
  /\ PushTask(submitted + 1)
  /\ submitted' = submitted + 1
  /\ upc' = "notify"
  /\ UNCHANGED done

DetachNotify ==
  /\ upc = "notify"
  /\ NotifyOneWorker
  /\ upc' = "free"
  /\ UNCHANGED <<submitted, done>>

CallWait ==
  /\ upc = "free"
  /\ upc' = "wait"
  /\ UNCHANGED <<poolVars, submitted, done>>

Wait ==
  /\ upc = "wait"
  /\ \/ WaitReturns /\ upc' = "free"
     \/ WaitBlocks /\ upc' = upc
  /\ UNCHANGED <<submitted, done>>

\* ~thread_pool(): wait(), then destroy_threads().
CallDestructor ==
  /\ upc = "free"
  /\ upc' = "dtorWait"
  /\ UNCHANGED <<poolVars, submitted, done>>

DestructorWait_skipped ==   \* mutant: the destructor does not wait()
  /\ upc = "dtorWait"
  /\ upc' = "dtorStop"
  /\ UNCHANGED <<poolVars, submitted, done>>

DestructorWait ==
  /\ upc = "dtorWait"
  /\ \/ WaitReturns /\ upc' = "dtorStop"
     \/ WaitBlocks /\ upc' = upc
  /\ UNCHANGED <<submitted, done>>

DestructorStop ==
  /\ upc = "dtorStop"
  /\ StopWorkers
  /\ upc' = "dtorNotify"
  /\ UNCHANGED <<submitted, done>>

DestructorNotify ==
  /\ upc = "dtorNotify"
  /\ NotifyAllWorkers
  /\ upc' = "dtorJoin"
  /\ UNCHANGED <<submitted, done>>

DestructorJoin ==
  /\ upc = "dtorJoin"
  /\ WorkersJoined
  /\ upc' = "dead"
  /\ UNCHANGED <<poolVars, submitted, done>>

Dead == upc = "dead" /\ UNCHANGED vars

User ==
  \/ Detach \/ DetachNotify \/ CallWait \/ Wait
  \/ CallDestructor \/ DestructorWait \/ DestructorStop \/ DestructorNotify \/ DestructorJoin

-----------------------------------------------------------------------------
(* The workers. *)

RunTask(w) ==
  /\ TaskEnds(w)
  /\ done' = done \cup {task[w]}
  /\ UNCHANGED <<tasks, tasks_running, waiting, workers_running, doneWait, upc, submitted>>

WorkerStep(w) ==
  \/ (LoopTop(w) \/ WokenWorker(w)) /\ UNCHANGED <<upc, submitted, done>>
  \/ RunTask(w)

Spurious ==
  /\ SpuriousWaitWakeup \/ \E w \in Worker : SpuriousWorkerWakeup(w)
  /\ UNCHANGED <<upc, submitted, done>>

Next == User \/ (\E w \in Worker : WorkerStep(w)) \/ Spurious \/ Dead

\* Every thread the operating system can run, it eventually runs.  The client is
\* only obliged to finish the calls it has begun; no wakeup is owed to anyone.
Fairness ==
  /\ \A w \in Worker : WF_vars(WorkerStep(w))
  /\ WF_vars(DetachNotify \/ Wait \/ DestructorWait \/ DestructorStop
             \/ DestructorNotify \/ DestructorJoin)

Spec == Init /\ [][Next]_vars /\ Fairness

-----------------------------------------------------------------------------
(* Properties. *)

\* Nobody sleeps through work: if a task is queued while some workers sleep,
\* a wakeup is on its way, either a worker that is up and will look at the
\* queue again or the notify_one the client is about to send; and a client
\* asleep in wait() has a worker left to wake it (notifications are sent
\* outside or inside tasks_mutex, and none may fall between test and sleep).
NoLostWakeup ==
  /\ tasks # <<>> => \/ upc = "notify"
                     \/ \E w \in Worker : wpc[w] \in {"top", "woken", "running"}
  /\ doneWait = "blocked" => waiting /\ ~TasksDone

\* The pool implements its promise, liveness included.
Promise == INSTANCE TaskPoolSpec WITH
  Threads <- Cardinality(Worker),
  queue <- tasks,
  active <- {task[w] : w \in {v \in Worker : wpc[v] = "running"}},
  finished <- done,
  phase <- CASE upc \in {"free", "notify"} -> "open"
             [] upc = "wait" -> "waiting"
             [] upc = "dead" -> "closed"
             [] OTHER -> "closing"

ImplementsPromise == Promise!Spec
=============================================================================
