----------------------------- MODULE ThreadPool -----------------------------
(***************************************************************************)
(* BS::thread_pool<> as JPEGenc builds it: C++17 (no std::jthread) and no  *)
(* option flags, so no pausing, no priorities.  The pool has no behaviour  *)
(* of its own beyond its workers' loop; this module gives one operator per *)
(* critical section of tasks_mutex or per notification, and the modules    *)
(* that EXTEND it (PoolUser, Encoder) are the programs that drive it.      *)
(*                                                                         *)
(* A condition variable is the set of the threads blocked on it: the       *)
(* workers with wpc = "blocked" for task_available_cv, the client with     *)
(* doneWait = "blocked" for tasks_done_cv.  A notification (or a spurious  *)
(* wakeup, which C++ allows at any time) moves a thread to "woken"; it     *)
(* then has to take the mutex again and re-evaluate its predicate.         *)
(***************************************************************************)
EXTENDS Naturals, Sequences, FiniteSets

CONSTANTS Worker,   \* the pool's threads
          NoTask    \* "this worker has no task"

\* jpegenc.cpp creates the pool only for num_workers > 1.
ASSUME WorkerAssumption == IsFiniteSet(Worker) /\ Worker # {}

VARIABLES tasks,            \* the queue of submitted tasks
          tasks_running,    \* the pool's count of busy workers
          waiting,          \* wait() asks to be told when all tasks are done
          workers_running,  \* FALSE once destroy_threads() has begun
          wpc,              \* where each worker stands in worker()
          task,             \* the task each worker has popped
          doneWait          \* the client in tasks_done_cv.wait()

poolVars == <<tasks, tasks_running, waiting, workers_running, wpc, task, doneWait>>

WorkerPC == {"top",      \* about to lock tasks_mutex at the head of the loop
             "blocked",  \* in task_available_cv's wait set
             "woken",    \* out of the wait set, about to lock and look again
             "running",  \* executing its task, the mutex released
             "exited"}   \* left the loop
WaitPC == {"out", "blocked", "woken"}

PoolTypeOK(Task) ==
  /\ tasks \in Seq(Task)
  /\ tasks_running \in Nat
  /\ waiting \in BOOLEAN
  /\ workers_running \in BOOLEAN
  /\ wpc \in [Worker -> WorkerPC]
  /\ task \in [Worker -> Task \cup {NoTask}]
  /\ doneWait \in WaitPC

\* create_threads: every worker counts as running until it first sleeps.
PoolInit ==
  /\ tasks = <<>>
  /\ tasks_running = Cardinality(Worker)
  /\ waiting = FALSE
  /\ workers_running = TRUE
  /\ wpc = [w \in Worker |-> "top"]
  /\ task = [w \in Worker |-> NoTask]
  /\ doneWait = "out"

-----------------------------------------------------------------------------
(* The workers. *)

\* The predicate of task_available_cv.wait and what follows it in the same
\* critical section; busy is tasks_running as the predicate is evaluated.
FetchOrSleep_keepCount(w, busy) ==   \* mutant: ++tasks_running forgotten
  \/ /\ workers_running /\ tasks # <<>>
     /\ task' = [task EXCEPT ![w] = Head(tasks)]
     /\ tasks' = Tail(tasks)
     /\ tasks_running' = busy
     /\ wpc' = [wpc EXCEPT ![w] = "running"]
  \/ /\ workers_running /\ tasks = <<>>
     /\ tasks_running' = busy
     /\ wpc' = [wpc EXCEPT ![w] = "blocked"]
     /\ UNCHANGED <<tasks, task>>
  \/ /\ ~workers_running
     /\ tasks_running' = busy
     /\ wpc' = [wpc EXCEPT ![w] = "exited"]
     /\ UNCHANGED <<tasks, task>>

FetchOrSleep_noPredicate(w, busy) ==   \* mutant: wakes without re-testing
  \/ /\ workers_running
     /\ IF tasks # <<>>
          THEN task' = [task EXCEPT ![w] = Head(tasks)] /\ tasks' = Tail(tasks)
          ELSE UNCHANGED <<tasks, task>>
     /\ tasks_running' = busy + 1
     /\ wpc' = [wpc EXCEPT ![w] = "running"]
  \/ /\ ~workers_running
     /\ tasks_running' = busy
     /\ wpc' = [wpc EXCEPT ![w] = "exited"]
     /\ UNCHANGED <<tasks, task>>

FetchOrSleep(w, busy) ==
  \/ /\ workers_running /\ tasks # <<>>
     /\ task' = [task EXCEPT ![w] = Head(tasks)]
     /\ tasks' = Tail(tasks)
     /\ tasks_running' = busy + 1
     /\ wpc' = [wpc EXCEPT ![w] = "running"]
  \/ /\ workers_running /\ tasks = <<>>
     /\ tasks_running' = busy
     /\ wpc' = [wpc EXCEPT ![w] = "blocked"]
     /\ UNCHANGED <<tasks, task>>
  \/ /\ ~workers_running
     /\ tasks_running' = busy
     /\ wpc' = [wpc EXCEPT ![w] = "exited"]
     /\ UNCHANGED <<tasks, task>>

\* The head of the loop: the finished task (or the start-up) is counted off,
\* a client blocked in wait() is notified if this was the last one, and the
\* worker takes a task, sleeps or leaves.
LoopTop(w) ==
  /\ wpc[w] = "top"
  /\ doneWait' = IF /\ waiting /\ tasks_running = 1 /\ tasks = <<>>
                    /\ doneWait = "blocked"
                 THEN "woken" ELSE doneWait
  /\ FetchOrSleep(w, tasks_running - 1)
  /\ UNCHANGED <<waiting, workers_running>>

\* A woken worker re-evaluates the predicate.
WokenWorker(w) ==
  /\ wpc[w] = "woken"
  /\ FetchOrSleep(w, tasks_running)
  /\ UNCHANGED <<waiting, workers_running, doneWait>>

\* The task returned, or threw and the worker's catch (...) swallowed it: both
\* lead back to the head of the loop.
TaskEnds(w) ==
  /\ wpc[w] = "running"
  /\ wpc' = [wpc EXCEPT ![w] = "top"]
  /\ task' = [task EXCEPT ![w] = NoTask]

\* A wakeup nobody sent.
SpuriousWorkerWakeup(w) ==
  /\ wpc[w] = "blocked"
  /\ wpc' = [wpc EXCEPT ![w] = "woken"]
  /\ UNCHANGED <<tasks, tasks_running, waiting, workers_running, task, doneWait>>

-----------------------------------------------------------------------------
(* The client: detach_task, wait, and the two halves of destroy_threads. *)

\* detach_task, inside the lock.
PushTask(t) ==
  /\ tasks' = Append(tasks, t)
  /\ UNCHANGED <<tasks_running, waiting, workers_running, wpc, task, doneWait>>

\* detach_task, after the lock: notify_one wakes some sleeper, if there is one.
NotifyOneWorker_lost == UNCHANGED poolVars   \* mutant: notify_one forgotten

NotifyOneWorker ==
  /\ \/ \E w \in Worker : wpc[w] = "blocked" /\ wpc' = [wpc EXCEPT ![w] = "woken"]
     \/ (\A w \in Worker : wpc[w] # "blocked") /\ wpc' = wpc
  /\ UNCHANGED <<tasks, tasks_running, waiting, workers_running, task, doneWait>>

TasksDone == tasks_running = 0 /\ tasks = <<>>

\* wait(), on entry or when woken: the predicate holds.
WaitReturns ==
  /\ doneWait # "blocked"
  /\ TasksDone
  /\ waiting' = FALSE
  /\ doneWait' = "out"
  /\ UNCHANGED <<tasks, tasks_running, workers_running, wpc, task>>

\* wait(), on entry or when woken: tasks are left, so the client sleeps.
WaitBlocks ==
  /\ doneWait # "blocked"
  /\ ~TasksDone
  /\ waiting' = TRUE
  /\ doneWait' = "blocked"
  /\ UNCHANGED <<tasks, tasks_running, workers_running, wpc, task>>

SpuriousWaitWakeup ==
  /\ doneWait = "blocked"
  /\ doneWait' = "woken"
  /\ UNCHANGED <<tasks, tasks_running, waiting, workers_running, wpc, task>>

\* destroy_threads, inside the lock.
StopWorkers ==
  /\ workers_running' = FALSE
  /\ UNCHANGED <<tasks, tasks_running, waiting, wpc, task, doneWait>>

\* destroy_threads, after the lock: notify_all.
NotifyAllWorkers ==
  /\ wpc' = [w \in Worker |-> IF wpc[w] = "blocked" THEN "woken" ELSE wpc[w]]
  /\ UNCHANGED <<tasks, tasks_running, waiting, workers_running, task, doneWait>>

\* The join loop of destroy_threads gets through.
WorkersJoined == \A w \in Worker : wpc[w] = "exited"

-----------------------------------------------------------------------------
(* Properties of the pool under any client. *)

Busy == {w \in Worker : wpc[w] \in {"top", "running"}}

\* tasks_running, the counter the whole pool turns on, is exactly the number of
\* workers that execute a task or have yet to come back to the lock, in every
\* interleaving of the loop, the notifications and the destructor
\* (BS_thread_pool.hpp worker(): one decrement for each increment, plus the
\* start-up count of create_threads).
RunningCount == tasks_running = Cardinality(Busy)
=============================================================================
