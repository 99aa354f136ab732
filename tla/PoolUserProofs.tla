--------------------------- MODULE PoolUserProofs ---------------------------
(***************************************************************************)
(* The pool under its most general client, for every number of workers and *)
(* of tasks: its counter is exact, and no wakeup is lost.                  *)
(***************************************************************************)
EXTENDS PoolUser, ThreadPoolProofs

\* A worker runs a task exactly while it has one to run.
RunningHasTask == \A w \in Worker : wpc[w] = "running" => task[w] \in Task

TypeInv == TypeOK /\ RunningCount /\ RunningHasTask

\* The pool and its user start type correct, with nothing running.
LEMMA InitTypeInv == Init => TypeInv
  <1> SUFFICES ASSUME Init PROVE TypeInv
    OBVIOUS
  <1>1. PoolTypeOK(Task) /\ RunningCount
    BY InitPool DEF Init
  <1> QED
    BY <1>1, MaxTasksAssumption
       DEF Init, PoolInit, TypeInv, TypeOK, UserPC, RunningHasTask, Task

\* Every step of the pool and of its user keeps their types and the count of
\* running tasks.
LEMMA NextTypeInv == TypeInv /\ [Next]_vars => TypeInv'
  <1> SUFFICES ASSUME TypeInv, [Next]_vars PROVE TypeInv'
    OBVIOUS
  <1> USE DEF TypeInv, TypeOK, UserPC
  <1>a. PoolTypeOK(Task) /\ RunningCount /\ MaxTasks \in Nat
    BY MaxTasksAssumption
  <1>b. ASSUME UNCHANGED poolVars \/ WaitReturns \/ WaitBlocks \/ StopWorkers
        PROVE  PoolTypeOK(Task)' /\ RunningCount' /\ RunningHasTask'
    <2>1. PoolTypeOK(Task)' /\ RunningCount'
      BY <1>a, <1>b, ClientPool
    <2>2. UNCHANGED <<wpc, task>>
      BY <1>b DEF poolVars, WaitReturns, WaitBlocks, StopWorkers
    <2> QED
      BY <2>1, <2>2 DEF RunningHasTask
  <1>c. ASSUME \/ NotifyOneWorker \/ NotifyAllWorkers \/ SpuriousWaitWakeup
               \/ \E w \in Worker : SpuriousWorkerWakeup(w)
        PROVE  PoolTypeOK(Task)' /\ RunningCount' /\ RunningHasTask'
    <2>1. PoolTypeOK(Task)' /\ RunningCount'
      BY <1>a, <1>c, WakeupPool
    <2>2. \A w \in Worker : task'[w] = task[w] /\ (wpc'[w] = "running" => wpc[w] = "running")
      BY <1>a, <1>c DEF NotifyOneWorker, NotifyAllWorkers, SpuriousWaitWakeup,
                        SpuriousWorkerWakeup, PoolTypeOK
    <2> QED
      BY <2>1, <2>2 DEF RunningHasTask
  <1>1. CASE Detach
    <2>1. submitted + 1 \in Task /\ submitted + 1 \in 0 .. MaxTasks
      BY <1>1, <1>a DEF Detach, Task
    <2>2. PoolTypeOK(Task)' /\ RunningCount'
      BY <1>1, <1>a, <2>1, ClientPool DEF Detach
    <2> QED
      BY <1>1, <2>1, <2>2 DEF Detach, PushTask, RunningHasTask
  <1>2. CASE DetachNotify
    BY <1>2, <1>c DEF DetachNotify
  <1>3. CASE CallWait \/ CallDestructor
    BY <1>3, <1>b DEF CallWait, CallDestructor
  <1>4. CASE Wait
    BY <1>4, <1>b DEF Wait
  <1>5. CASE DestructorWait
    BY <1>5, <1>b DEF DestructorWait
  <1>6. CASE DestructorStop \/ DestructorJoin
    BY <1>6, <1>b DEF DestructorStop, DestructorJoin
  <1>7. CASE DestructorNotify
    BY <1>7, <1>c DEF DestructorNotify
  <1>8. ASSUME NEW w \in Worker, WorkerStep(w)
        PROVE  TypeInv'
    <2>1. CASE (LoopTop(w) \/ WokenWorker(w)) /\ UNCHANGED <<upc, submitted, done>>
      <3>1. PoolTypeOK(Task)' /\ RunningCount'
        BY <1>a, <2>1, WorkerLoopPool
      <3>2. \A v \in Worker : wpc'[v] = "running" => task'[v] \in Task
        BY <1>a, <2>1 DEF LoopTop, WokenWorker, FetchOrSleep, PoolTypeOK, RunningHasTask
      <3> QED
        BY <2>1, <3>1, <3>2 DEF RunningHasTask
    <2>2. CASE RunTask(w)
      <3>1. PoolTypeOK(Task)' /\ RunningCount'
        BY <1>a, <2>2, TaskEndsPool DEF RunTask
      <3>2. task[w] \in Task
        BY <2>2 DEF RunTask, TaskEnds, RunningHasTask
      <3>3. RunningHasTask'
        BY <1>a, <2>2 DEF RunTask, TaskEnds, RunningHasTask, PoolTypeOK
      <3> QED
        BY <2>2, <3>1, <3>2, <3>3 DEF RunTask
    <2> QED
      BY <1>8, <2>1, <2>2 DEF WorkerStep
  <1>9. CASE Spurious
    BY <1>9, <1>c DEF Spurious
  <1>10. CASE UNCHANGED vars
    BY <1>10, <1>b DEF vars
  <1> QED
    BY <1>1, <1>2, <1>3, <1>4, <1>5, <1>6, <1>7, <1>8, <1>9, <1>10 DEF Next, User, Dead

\* In every reachable state the variables have their types.
THEOREM PoolTyped == Spec => []TypeOK
  <1>1. TypeInv => TypeOK
    BY DEF TypeInv
  <1> QED
    BY InitTypeInv, NextTypeInv, <1>1, PTL DEF Spec

\* In every reachable state tasks_running is the number of busy workers: what
\* detach_task, worker() and wait() do to it is right for every interleaving.
THEOREM PoolCounts == Spec => []RunningCount
  <1>1. TypeInv => RunningCount
    BY DEF TypeInv
  <1> QED
    BY InitTypeInv, NextTypeInv, <1>1, PTL DEF Spec

-----------------------------------------------------------------------------
(* No wakeup is lost. *)

\* A worker leaves only when the pool is being destroyed, and by then wait() has
\* returned with the queue empty.
Shutdown ==
  /\ upc \in {"free", "notify", "wait", "dtorWait", "dtorStop"} => workers_running
  /\ upc \notin {"free", "notify", "wait", "dtorWait"} => tasks = <<>>
  /\ workers_running => \A w \in Worker : wpc[w] # "exited"

WakeInv == TypeInv /\ Shutdown /\ NoLostWakeup

\* The client's steps.
LEMMA UserWakeInv ==
  ASSUME WakeInv, User \/ UNCHANGED vars
  PROVE  Shutdown' /\ NoLostWakeup'
  <1> USE DEF WakeInv, NoLostWakeup, Shutdown
  <1>w. wpc \in [Worker -> WorkerPC] /\ tasks_running \in Nat /\ upc \in UserPC
        /\ tasks \in Seq(Task)
    BY DEF TypeInv, TypeOK, PoolTypeOK
  <1>1. CASE Detach
    <2>1. tasks' # <<>>
      BY <1>1, <1>w DEF Detach, PushTask
    <2> QED
      BY <1>1, <2>1 DEF Detach, PushTask, TasksDone
  <1>2. CASE DetachNotify
    <2>1. \E w \in Worker : wpc'[w] \in {"top", "woken", "running"}
      <3>1. CASE \E w \in Worker : wpc[w] = "blocked" /\ wpc' = [wpc EXCEPT ![w] = "woken"]
        BY <1>w, <3>1
      <3>2. CASE (\A w \in Worker : wpc[w] # "blocked") /\ wpc' = wpc
        BY <1>2, <1>w, <3>2, WorkerAssumption DEF DetachNotify, WorkerPC
      <3> QED
        BY <1>2, <3>1, <3>2 DEF DetachNotify, NotifyOneWorker
    <2>2. \A w \in Worker : wpc'[w] # "exited"
      BY <1>2, <1>w DEF DetachNotify, NotifyOneWorker
    <2> QED
      BY <1>2, <2>1, <2>2 DEF DetachNotify, NotifyOneWorker, TasksDone
  <1>3. CASE CallWait \/ CallDestructor
    BY <1>3 DEF CallWait, CallDestructor, poolVars, TasksDone
  <1>4. CASE Wait
    BY <1>4 DEF Wait, WaitReturns, WaitBlocks, TasksDone
  <1>5. CASE DestructorWait
    BY <1>5 DEF DestructorWait, WaitReturns, WaitBlocks, TasksDone
  <1>6. CASE DestructorStop
    BY <1>6 DEF DestructorStop, StopWorkers, TasksDone
  <1>7. CASE DestructorNotify
    BY <1>7, <1>w DEF DestructorNotify, NotifyAllWorkers, TasksDone
  <1>8. CASE DestructorJoin
    BY <1>8 DEF DestructorJoin, poolVars, TasksDone
  <1>9. CASE UNCHANGED vars
    BY <1>9 DEF vars, poolVars, TasksDone
  <1> QED
    BY <1>1, <1>2, <1>3, <1>4, <1>5, <1>6, <1>7, <1>8, <1>9 DEF User

\* The workers' steps.
LEMMA WorkerWakeInv ==
  ASSUME WakeInv, NEW w \in Worker, WorkerStep(w)
  PROVE  Shutdown' /\ NoLostWakeup'
  <1> USE DEF WakeInv, NoLostWakeup, Shutdown
  <1>w. wpc \in [Worker -> WorkerPC] /\ tasks_running \in Nat /\ tasks \in Seq(Task)
    BY DEF TypeInv, TypeOK, PoolTypeOK
  <1>1. CASE RunTask(w)
    BY <1>1, <1>w DEF RunTask, TaskEnds, TasksDone
  <1>2. CASE (LoopTop(w) \/ WokenWorker(w)) /\ UNCHANGED <<upc, submitted, done>>
    <2>1. PICK busy \in Nat : /\ FetchOrSleep(w, busy)
                              /\ UNCHANGED <<waiting, workers_running, upc>>
                              /\ wpc[w] = "woken" => busy = tasks_running /\ doneWait' = doneWait
                              /\ wpc[w] # "woken" => LoopTop(w) /\ busy = tasks_running - 1
      <3>1. CASE WokenWorker(w)
        BY <1>2, <1>w, <3>1 DEF WokenWorker
      <3>2. CASE LoopTop(w)
        <4>1. w \in Busy
          BY <3>2 DEF LoopTop, Busy
        <4>2. tasks_running # 0
          BY <4>1, BusyFinite, FS_EmptySet DEF TypeInv, RunningCount
        <4> QED
          BY <1>2, <1>w, <3>2, <4>2 DEF LoopTop
      <3> QED
        BY <1>2, <3>1, <3>2
    <2>2. doneWait' = "blocked" => doneWait = "blocked"
      BY <2>1 DEF LoopTop
    <2>3. CASE workers_running /\ tasks # <<>>
      <3>1. wpc' = [wpc EXCEPT ![w] = "running"] /\ tasks_running' = busy + 1
        BY <2>1, <2>3 DEF FetchOrSleep
      <3>2. tasks_running' # 0
        BY <3>1
      <3>3. wpc'[w] = "running" /\ \A v \in Worker : wpc'[v] # "exited"
        BY <1>w, <2>3, <3>1
      <3>4. upc \in {"free", "notify", "wait", "dtorWait"}
        BY <2>3
      <3> QED
        BY <2>1, <2>2, <2>3, <3>2, <3>3, <3>4 DEF TasksDone
    <2>4. CASE workers_running /\ tasks = <<>>
      <3>1. wpc' = [wpc EXCEPT ![w] = "blocked"] /\ tasks' = tasks /\ tasks_running' = busy
        BY <2>1, <2>4 DEF FetchOrSleep
      <3>2. doneWait' = "blocked" => busy # 0
        BY <1>w, <2>1, <2>2, <2>4 DEF LoopTop, TasksDone
      <3>3. \A v \in Worker : wpc'[v] # "exited"
        BY <1>w, <2>4, <3>1
      <3> QED
        BY <2>1, <2>2, <2>4, <3>1, <3>2, <3>3 DEF TasksDone
    <2>5. CASE ~workers_running
      <3>1. tasks = <<>> /\ tasks' = tasks /\ tasks_running' = busy
        BY <2>1, <2>5, <1>w DEF FetchOrSleep, TypeInv, TypeOK, UserPC
      <3>2. doneWait' = "blocked" => busy # 0
        BY <1>w, <2>1, <2>2, <3>1 DEF LoopTop, TasksDone
      <3> QED
        BY <2>1, <2>2, <2>5, <3>1, <3>2 DEF TasksDone
    <2> QED
      BY <2>3, <2>4, <2>5
  <1> QED
    BY <1>1, <1>2 DEF WorkerStep

\* Every step keeps the shutdown order and loses no wake-up.
LEMMA NextWakeInv == WakeInv /\ [Next]_vars => WakeInv'
  <1> SUFFICES ASSUME WakeInv, [Next]_vars PROVE Shutdown' /\ NoLostWakeup'
    BY NextTypeInv DEF WakeInv
  <1>1. CASE User \/ UNCHANGED vars
    BY <1>1, UserWakeInv
  <1>2. CASE \E w \in Worker : WorkerStep(w)
    BY <1>2, WorkerWakeInv
  <1>3. CASE Spurious
    <2>1. \A w \in Worker : /\ wpc[w] \in {"top", "woken", "running"} =>
                                 wpc'[w] \in {"top", "woken", "running"}
                            /\ wpc'[w] = "exited" => wpc[w] = "exited"
      BY <1>3 DEF Spurious, SpuriousWaitWakeup, SpuriousWorkerWakeup, WakeInv, TypeInv, TypeOK,
                  PoolTypeOK
    <2>2. /\ UNCHANGED <<tasks, tasks_running, waiting, workers_running, upc>>
          /\ doneWait' = "blocked" => doneWait = "blocked"
      BY <1>3 DEF Spurious, SpuriousWaitWakeup, SpuriousWorkerWakeup
    <2> QED
      BY <2>1, <2>2 DEF WakeInv, Shutdown, NoLostWakeup, TasksDone
  <1> QED
    BY <1>1, <1>2, <1>3 DEF Next, Dead

\* No worker sleeps while a task is queued and no wakeup is due, and a client
\* asleep in wait() is still owed a notification.
THEOREM NoWakeupLost == Spec => []NoLostWakeup
  <1>1. Init => WakeInv
    <2> SUFFICES ASSUME Init PROVE Shutdown /\ NoLostWakeup
      BY InitTypeInv DEF WakeInv
    <2> QED
      BY DEF Init, PoolInit, Shutdown, NoLostWakeup
  <1>2. WakeInv => NoLostWakeup
    BY DEF WakeInv
  <1> QED
    BY <1>1, NextWakeInv, <1>2, PTL DEF Spec
-----------------------------------------------------------------------------
(* The pool keeps what it promises (TaskPoolSpec), step by step. *)

Running == {w \in Worker : wpc[w] = "running"}

\* The tasks are numbered as they are submitted, the queue holds the last ones, in
\* order, and each of the others is executed by one worker or has been.
Numbered ==
  /\ Len(tasks) <= submitted
  /\ \A i \in DOMAIN tasks : tasks[i] = submitted - Len(tasks) + i
  /\ \A w \in Running : task[w] <= submitted - Len(tasks) /\ task[w] \notin done
  /\ \A v, w \in Running : task[v] = task[w] => v = w
  /\ \A t \in done : t <= submitted - Len(tasks)

PromiseInv == WakeInv /\ Numbered

\* A step that neither starts nor ends a task, nor submits one.
LEMMA NumbersStay ==
  ASSUME Numbered, UNCHANGED <<tasks, submitted, done, task>>, Running' = Running
  PROVE  Numbered'
  BY DEF Numbered

\* What the worker's critical section does, in the promise's terms.
LEMMA FetchOrSleepPromise ==
  ASSUME wpc \in [Worker -> WorkerPC], NEW w \in Worker, wpc[w] # "running", NEW busy,
         FetchOrSleep(w, busy)
  PROVE  \/ /\ UNCHANGED <<tasks, task>>
            /\ Running' = Running
         \/ /\ tasks # <<>>
            /\ tasks' = Tail(tasks)
            /\ task' = [task EXCEPT ![w] = Head(tasks)]
            /\ Running' = Running \cup {w}
  BY DEF FetchOrSleep, Running

\* Every step keeps the submitted tasks apart: each is queued, running or done.
LEMMA NextNumbered ==
  ASSUME TypeInv, Numbered, [Next]_vars
  PROVE  Numbered'
  <1>w. /\ wpc \in [Worker -> WorkerPC] /\ tasks \in Seq(Task) /\ submitted \in 0 .. MaxTasks
        /\ task \in [Worker -> Task \cup {NoTask}] /\ done \subseteq Task
        /\ \A w \in Running : task[w] \in Task
        /\ MaxTasks \in Nat
    BY MaxTasksAssumption DEF TypeInv, TypeOK, PoolTypeOK, RunningHasTask, Running
  <1>1. CASE Detach
    <2>1. /\ tasks' = Append(tasks, submitted + 1) /\ submitted' = submitted + 1
          /\ UNCHANGED <<wpc, task, done>> /\ submitted + 1 \in Task
      BY <1>1, <1>w DEF Detach, PushTask, Task
    <2>2. /\ Len(tasks') = Len(tasks) + 1 /\ Len(tasks) \in Nat
          /\ submitted' - Len(tasks') = submitted - Len(tasks)
      BY <1>w, <2>1
    <2>3. \A i \in DOMAIN tasks' : tasks'[i] = submitted - Len(tasks) + i
      BY <1>w, <2>1 DEF Numbered, Task
    <2> QED
      BY <1>w, <2>1, <2>2, <2>3 DEF Numbered, Running
  <1>2. CASE \/ DetachNotify \/ CallWait \/ Wait \/ CallDestructor \/ DestructorWait \/ DestructorStop
             \/ DestructorNotify \/ DestructorJoin \/ Spurious \/ UNCHANGED vars
    <2>1. Running' = Running
      BY <1>2, <1>w DEF DetachNotify, NotifyOneWorker, CallWait, Wait, WaitReturns, WaitBlocks,
           CallDestructor, DestructorWait, DestructorStop, StopWorkers, DestructorNotify,
           NotifyAllWorkers, DestructorJoin, Spurious, SpuriousWaitWakeup, SpuriousWorkerWakeup,
           vars, poolVars, Running
    <2>2. UNCHANGED <<tasks, submitted, done, task>>
      BY <1>2 DEF DetachNotify, NotifyOneWorker, CallWait, Wait, WaitReturns, WaitBlocks,
           CallDestructor, DestructorWait, DestructorStop, StopWorkers, DestructorNotify,
           NotifyAllWorkers, DestructorJoin, Spurious, SpuriousWaitWakeup, SpuriousWorkerWakeup,
           vars, poolVars
    <2> QED
      BY <2>1, <2>2, NumbersStay
  <1>3. ASSUME NEW w \in Worker, LoopTop(w) \/ WokenWorker(w), UNCHANGED <<upc, submitted, done>>
        PROVE  Numbered'
    <2>1. wpc[w] # "running" /\ w \notin Running /\ \E busy : FetchOrSleep(w, busy)
      BY <1>3 DEF LoopTop, WokenWorker, Running
    <2>2. CASE UNCHANGED <<tasks, task>> /\ Running' = Running
      BY <1>3, <2>2, NumbersStay
    <2>3. CASE /\ tasks # <<>>
               /\ tasks' = Tail(tasks)
               /\ task' = [task EXCEPT ![w] = Head(tasks)]
               /\ Running' = Running \cup {w}
      <3>1. /\ Len(tasks) \in Nat \ {0} /\ 1 \in DOMAIN tasks /\ Head(tasks) = tasks[1]
            /\ Len(tasks') = Len(tasks) - 1
            /\ \A i \in DOMAIN tasks' : i + 1 \in DOMAIN tasks /\ tasks'[i] = tasks[i+1]
        BY <1>w, <2>3
      <3>2. Head(tasks) = submitted - Len(tasks) + 1
        BY <3>1 DEF Numbered
      <3>3. submitted' - Len(tasks') = submitted - Len(tasks) + 1
        BY <1>3, <1>w, <3>1
      <3>4. \A i \in DOMAIN tasks' : tasks'[i] = submitted - Len(tasks) + (i + 1)
        BY <3>1 DEF Numbered
      <3>5. \A i \in DOMAIN tasks' : tasks'[i] = submitted' - Len(tasks') + i
        BY <1>w, <3>1, <3>3, <3>4
      <3>6. /\ task'[w] = submitted - Len(tasks) + 1
            /\ \A v \in Running : v # w /\ task'[v] = task[v]
        BY <1>w, <2>1, <2>3, <3>2 DEF Running
      <3>7. \A v \in Running : task[v] \in Int /\ task[v] <= submitted - Len(tasks)
        BY <1>w DEF Numbered, Task
      <3>8. \A t \in done : t \in Int /\ t <= submitted - Len(tasks)
        BY <1>w DEF Numbered, Task
      <3>9. submitted - Len(tasks) \in Int
        BY <1>w, <3>1
      <3>10. \A v \in Running' : task'[v] <= submitted' - Len(tasks') /\ task'[v] \notin done
        BY <2>3, <3>3, <3>6, <3>7, <3>8, <3>9 DEF Numbered
      <3>11. \A u, v \in Running' : task'[u] = task'[v] => u = v
        BY <2>3, <3>6, <3>7, <3>9 DEF Numbered
      <3>12. Len(tasks') <= submitted'
        BY <1>3, <1>w, <3>1 DEF Numbered
      <3>13. \A t \in done : t <= submitted' - Len(tasks')
        BY <3>3, <3>8, <3>9
      <3> QED
        BY <1>3, <3>5, <3>10, <3>11, <3>12, <3>13 DEF Numbered
    <2> QED
      BY <1>w, <2>1, <2>2, <2>3, FetchOrSleepPromise
  <1>4. ASSUME NEW w \in Worker, RunTask(w)
        PROVE  Numbered'
    <2>1. /\ w \in Running /\ done' = done \cup {task[w]} /\ Running' = Running \ {w}
          /\ UNCHANGED <<tasks, submitted>> /\ \A v \in Running' : task'[v] = task[v]
      BY <1>4, <1>w DEF RunTask, TaskEnds, Running
    <2> QED
      BY <1>4, <2>1 DEF Numbered
  <1> QED
    BY <1>1, <1>2, <1>3, <1>4 DEF Next, User, WorkerStep, Dead

\* While a worker is not executing, fewer tasks than workers are being executed.
LEMMA RoomForOne ==
  ASSUME NEW w \in Worker, w \notin Running
  PROVE  Cardinality({task[v] : v \in Running}) < Cardinality(Worker)
  <1> DEFINE A == {task[v] : v \in Running}
             f == [v \in Running |-> task[v]]
  <1>1. Running \subseteq Worker \ {w} /\ IsFiniteSet(Worker)
    BY WorkerAssumption DEF Running
  <1>2. IsFiniteSet(Worker \ {w}) /\ Cardinality(Worker \ {w}) = Cardinality(Worker) - 1
    BY <1>1, FS_RemoveElement
  <1>3. IsFiniteSet(Running) /\ Cardinality(Running) <= Cardinality(Worker \ {w})
    BY <1>1, <1>2, FS_Subset
  <1>4. f \in Surjection(Running, A)
    BY DEF Surjection
  <1> HIDE DEF A, f
  <1>5. IsFiniteSet(A) /\ Cardinality(A) <= Cardinality(Running)
    BY <1>3, <1>4, FS_Surjection
  <1>6. Cardinality(A) \in Nat /\ Cardinality(Running) \in Nat /\ Cardinality(Worker) \in Nat
    BY <1>1, <1>3, <1>5, FS_CardinalityType
  <1> QED
    BY <1>2, <1>3, <1>5, <1>6 DEF A

\* When the counter says that the tasks are done, none is being executed.
LEMMA DoneMeansQuiet ==
  ASSUME TypeInv, TasksDone
  PROVE  tasks = <<>> /\ Running = {}
  <1>1. Busy = {}
    BY BusyFinite, FS_EmptySet DEF TypeInv, RunningCount, TasksDone
  <1> QED
    BY <1>1 DEF Busy, Running, TasksDone

\* Every step of the pool and of its user is a step of the promise, or a stutter.
LEMMA StepKeepsPromise ==
  ASSUME PromiseInv, [Next]_vars
  PROVE  [Promise!Next]_(Promise!specVars)
  <1> DEFINE active == {task[w] : w \in Running}
  <1>w. /\ wpc \in [Worker -> WorkerPC] /\ tasks \in Seq(Task) /\ submitted \in 0 .. MaxTasks
        /\ task \in [Worker -> Task \cup {NoTask}] /\ done \subseteq Task
        /\ upc \in UserPC
        /\ \A w \in Running : task[w] \in Task
        /\ MaxTasks \in Nat
    BY MaxTasksAssumption DEF PromiseInv, WakeInv, TypeInv, TypeOK, PoolTypeOK, RunningHasTask, Running
  <1>n. TypeInv /\ Numbered /\ Shutdown
    BY DEF PromiseInv, WakeInv
  <1> USE DEF Promise!Next, Promise!specVars, Running
  <1>1. CASE Detach
    <2>1. /\ upc = "free" /\ upc' = "notify" /\ tasks' = Append(tasks, submitted + 1)
          /\ UNCHANGED <<wpc, task, done>> /\ submitted + 1 \in Task
      BY <1>1, <1>w DEF Detach, PushTask, Task
    <2>2. submitted + 1 \notin Promise!Submitted
      <3>1. \A i \in DOMAIN tasks : tasks[i] # submitted + 1
        BY <1>n, <1>w DEF Numbered, Task
      <3>2. \A t \in active \cup done : t # submitted + 1
        BY <1>n, <1>w DEF Numbered, Task
      <3> QED
        BY <3>1, <3>2 DEF Promise!Submitted
    <2>3. Promise!Submit(submitted + 1)
      BY <2>1, <2>2 DEF Promise!Submit
    <2> QED
      BY <2>1, <2>3
  <1>2. CASE DetachNotify \/ DestructorStop \/ DestructorNotify \/ Spurious \/ UNCHANGED vars
    <2>1. active' = active
      <3>1. task' = task /\ Running' = Running
        BY <1>2, <1>w DEF DetachNotify, NotifyOneWorker, DestructorStop, StopWorkers, DestructorNotify,
           NotifyAllWorkers, Spurious, SpuriousWaitWakeup, SpuriousWorkerWakeup, vars, poolVars
      <3> QED
        BY <3>1
    <2>2. UNCHANGED <<tasks, done>>
      BY <1>2 DEF DetachNotify, NotifyOneWorker, DestructorStop, StopWorkers, DestructorNotify,
           NotifyAllWorkers, Spurious, SpuriousWaitWakeup, SpuriousWorkerWakeup, vars, poolVars
    <2>3. \/ upc' = upc
          \/ upc = "notify" /\ upc' = "free"
          \/ upc = "dtorStop" /\ upc' = "dtorNotify"
          \/ upc = "dtorNotify" /\ upc' = "dtorJoin"
      BY <1>2 DEF DetachNotify, DestructorStop, DestructorNotify, Spurious, vars
    <2> QED
      BY <2>1, <2>2, <2>3
  <1>3. CASE CallWait \/ CallDestructor
    <2>1. UNCHANGED <<tasks, done, task, wpc>> /\ upc = "free" /\ upc' \in {"wait", "dtorWait"}
      BY <1>3 DEF CallWait, CallDestructor, poolVars
    <2> QED
      BY <2>1 DEF Promise!BeginWait, Promise!BeginClose
  <1>4. CASE Wait \/ DestructorWait
    <2>1. UNCHANGED <<tasks, done, task, wpc>>
      BY <1>4 DEF Wait, DestructorWait, WaitReturns, WaitBlocks
    <2>2. CASE upc' = upc
      BY <2>1, <2>2
    <2>3. CASE upc = "wait" /\ upc' = "free"
      <3>1. TasksDone
        BY <1>4, <2>3 DEF Wait, DestructorWait, WaitReturns
      <3>2. Promise!Quiet
        BY <1>n, <3>1, DoneMeansQuiet DEF Promise!Quiet
      <3> QED
        BY <2>1, <2>3, <3>2 DEF Promise!EndWait
    <2>4. CASE upc = "dtorWait" /\ upc' = "dtorStop"
      BY <2>1, <2>4
    <2> QED
      BY <1>4, <2>2, <2>3, <2>4 DEF Wait, DestructorWait
  <1>5. CASE DestructorJoin
    <2>1. UNCHANGED <<tasks, done, task, wpc>> /\ upc = "dtorJoin" /\ upc' = "dead" /\ WorkersJoined
      BY <1>5 DEF DestructorJoin, poolVars
    <2>2. Promise!Quiet
      BY <1>n, <2>1 DEF Promise!Quiet, Shutdown, WorkersJoined
    <2> QED
      BY <2>1, <2>2 DEF Promise!EndClose
  <1>6. ASSUME NEW w \in Worker, LoopTop(w) \/ WokenWorker(w), UNCHANGED <<upc, submitted, done>>
        PROVE  [Promise!Next]_(Promise!specVars)
    <2>1. wpc[w] # "running" /\ w \notin Running /\ \E busy : FetchOrSleep(w, busy)
      BY <1>6 DEF LoopTop, WokenWorker
    <2>2. CASE UNCHANGED <<tasks, task>> /\ Running' = Running
      <3>1. active' = active
        BY <2>2
      <3> QED
        BY <1>6, <2>2, <3>1
    <2>3. CASE /\ tasks # <<>>
               /\ tasks' = Tail(tasks)
               /\ task' = [task EXCEPT ![w] = Head(tasks)]
               /\ Running' = Running \cup {w}
      <3>1. task'[w] = Head(tasks) /\ \A v \in Running : task'[v] = task[v]
        BY <1>w, <2>1, <2>3
      <3>2. active' = active \cup {Head(tasks)}
        BY <2>3, <3>1
      <3>3. Cardinality(active) < Cardinality(Worker)
        BY <2>1, RoomForOne
      <3>4. Promise!Cardinality(active) = Cardinality(active)
        BY Zenon DEF Promise!Cardinality, Cardinality
      <3> QED
        BY <1>6, <2>3, <3>2, <3>3, <3>4 DEF Promise!Start
    <2> QED
      BY <1>w, <2>1, <2>2, <2>3, FetchOrSleepPromise
  <1>7. ASSUME NEW w \in Worker, RunTask(w)
        PROVE  [Promise!Next]_(Promise!specVars)
    <2>1. /\ w \in Running /\ done' = done \cup {task[w]} /\ Running' = Running \ {w}
          /\ UNCHANGED <<tasks, upc>> /\ \A v \in Running' : task'[v] = task[v]
      BY <1>7, <1>w DEF RunTask, TaskEnds
    <2>2. active' = active \ {task[w]}
      BY <1>n, <2>1 DEF Numbered
    <2>3. task[w] \in Task /\ task[w] \in active
      BY <1>w, <2>1
    <2>4. \E t \in Task : Promise!Finish(t)
      <3>1. PICK t \in Task : t = task[w]
        BY <2>3
      <3>2. Promise!Finish(t)
        BY <2>1, <2>2, <2>3, <3>1 DEF Promise!Finish
      <3> QED
        BY <3>2
    <2> QED
      BY <2>4
  <1> QED
    BY <1>1, <1>2, <1>3, <1>4, <1>5, <1>6, <1>7 DEF Next, User, WorkerStep, Dead

\* Whatever its client does, the pool starts tasks in the order they were submitted,
\* each once and never more of them at a time than it has threads; wait() returns only
\* when every task submitted has finished, and the destructor only when the queue is
\* empty and no task runs.  (The liveness half of the promise is not proved here.)
THEOREM PoolKeepsPromise ==
  Spec => Promise!Init /\ [][Promise!Next]_(Promise!specVars)
  <1>1. Init => PromiseInv /\ Promise!Init
    <2> SUFFICES ASSUME Init PROVE PromiseInv /\ Promise!Init
      OBVIOUS
    <2>1. WakeInv
      BY InitTypeInv DEF Init, PoolInit, WakeInv, Shutdown, NoLostWakeup
    <2>2. Numbered
      BY DEF Init, PoolInit, Numbered, Running
    <2>3. Promise!Init
      BY DEF Init, PoolInit, Promise!Init
    <2> QED
      BY <2>1, <2>2, <2>3 DEF PromiseInv
  <1>2. PromiseInv /\ [Next]_vars => PromiseInv'
    BY NextWakeInv, NextNumbered DEF PromiseInv, WakeInv
  <1>3. PromiseInv /\ [Next]_vars => [Promise!Next]_(Promise!specVars)
    BY StepKeepsPromise
  <1> QED
    BY <1>1, <1>2, <1>3, PTL DEF Spec
=============================================================================
