-------------------------- MODULE ThreadPoolProofs --------------------------
(***************************************************************************)
(* What each operation of the pool does to its type and to RunningCount,   *)
(* for every set of workers and every kind of task.  The proofs about the  *)
(* pool's clients cite one of these lemmas for the pool's half of a step.  *)
(***************************************************************************)
EXTENDS ThreadPool, FiniteSetTheorems, TLAPS

\* The busy workers are finitely many, so that tasks_running is a number.
LEMMA BusyFinite ==
  IsFiniteSet(Busy) /\ Cardinality(Busy) \in Nat
  <1>1. Busy \subseteq Worker
    BY DEF Busy
  <1>2. IsFiniteSet(Busy)
    BY <1>1, WorkerAssumption, FS_Subset
  <1> QED
    BY <1>2, FS_CardinalityType

\* A worker's step changes the number of busy workers by what it does to that
\* worker alone.
LEMMA BusyStep ==
  ASSUME wpc \in [Worker -> WorkerPC],
         NEW w \in Worker, NEW pc \in WorkerPC,
         wpc' = [wpc EXCEPT ![w] = pc]
  PROVE  /\ wpc' \in [Worker -> WorkerPC]
         /\ w \in Busy /\ pc \in {"top", "running"} => Cardinality(Busy') = Cardinality(Busy)
         /\ w \in Busy /\ pc \notin {"top", "running"} =>
              Cardinality(Busy) >= 1 /\ Cardinality(Busy') = Cardinality(Busy) - 1
         /\ w \notin Busy /\ pc \in {"top", "running"} =>
              Cardinality(Busy') = Cardinality(Busy) + 1
         /\ w \notin Busy /\ pc \notin {"top", "running"} =>
              Cardinality(Busy') = Cardinality(Busy)
  <1>0. wpc' \in [Worker -> WorkerPC]
    OBVIOUS
  <1>1. CASE w \in Busy /\ pc \in {"top", "running"}
    <2>1. Busy' = Busy
      BY <1>1 DEF Busy
    <2> QED
      BY <1>0, <1>1, <2>1
  <1>2. CASE w \in Busy /\ pc \notin {"top", "running"}
    <2>1. Busy' = Busy \ {w}
      BY <1>2 DEF Busy
    <2>2. Cardinality(Busy \ {w}) = Cardinality(Busy) - 1
      BY <1>2, BusyFinite, FS_RemoveElement
    <2>3. Cardinality(Busy) # 0
      BY <1>2, BusyFinite, FS_EmptySet
    <2> QED
      BY <1>0, <1>2, <2>1, <2>2, <2>3, BusyFinite
  <1>3. CASE w \notin Busy /\ pc \in {"top", "running"}
    <2>1. Busy' = Busy \cup {w}
      BY <1>3 DEF Busy
    <2>2. Cardinality(Busy \cup {w}) = Cardinality(Busy) + 1
      BY <1>3, BusyFinite, FS_AddElement
    <2> QED
      BY <1>0, <1>3, <2>1, <2>2
  <1>4. CASE w \notin Busy /\ pc \notin {"top", "running"}
    <2>1. Busy' = Busy
      BY <1>4 DEF Busy
    <2> QED
      BY <1>0, <1>4, <2>1
  <1> QED
    BY <1>1, <1>2, <1>3, <1>4

\* The constructor establishes both.
LEMMA InitPool ==
  ASSUME NEW T, PoolInit
  PROVE  PoolTypeOK(T) /\ RunningCount
  <1>1. Busy = Worker
    BY DEF PoolInit, Busy
  <1>2. Cardinality(Worker) \in Nat
    BY WorkerAssumption, FS_CardinalityType
  <1>3. tasks \in Seq(T) /\ doneWait \in WaitPC
    BY DEF PoolInit, WaitPC
  <1>4. wpc \in [Worker -> WorkerPC]
    BY DEF PoolInit, WorkerPC
  <1>5. task \in [Worker -> T \cup {NoTask}]
    BY DEF PoolInit
  <1> QED
    BY <1>1, <1>2, <1>3, <1>4, <1>5 DEF PoolInit, PoolTypeOK, RunningCount

\* The end of either wait of a worker; busy is the count before it.
LEMMA FetchOrSleepPool ==
  ASSUME NEW T, PoolTypeOK(T),
         NEW w \in Worker, NEW STATE busy, busy \in Nat,
         w \in Busy => busy = Cardinality(Busy) - 1,
         w \notin Busy => busy = Cardinality(Busy),
         FetchOrSleep(w, busy)
  PROVE  /\ tasks' \in Seq(T)
         /\ tasks_running' \in Nat
         /\ tasks_running' = Cardinality(Busy')
         /\ wpc' \in [Worker -> WorkerPC]
         /\ task' \in [Worker -> T \cup {NoTask}]
  <1> USE DEF PoolTypeOK
  <1>1. CASE workers_running /\ tasks # <<>>
    <2>1. /\ tasks' = Tail(tasks) /\ tasks_running' = busy + 1
          /\ task' = [task EXCEPT ![w] = Head(tasks)]
          /\ wpc' = [wpc EXCEPT ![w] = "running"]
      BY <1>1 DEF FetchOrSleep
    <2>2. tasks' \in Seq(T) /\ Head(tasks) \in T
      BY <1>1, <2>1
    <2>3. "running" \in WorkerPC
      BY DEF WorkerPC
    <2>4. CASE w \in Busy
      <3>1. wpc' \in [Worker -> WorkerPC] /\ Cardinality(Busy') = Cardinality(Busy)
        BY <2>1, <2>3, <2>4, BusyStep
      <3> QED
        BY <2>1, <2>2, <2>4, <3>1, BusyFinite
    <2>5. CASE w \notin Busy
      <3>1. wpc' \in [Worker -> WorkerPC] /\ Cardinality(Busy') = Cardinality(Busy) + 1
        BY <2>1, <2>3, <2>5, BusyStep
      <3> QED
        BY <2>1, <2>2, <2>5, <3>1, BusyFinite
    <2> QED
      BY <2>4, <2>5
  <1>2. CASE workers_running /\ tasks = <<>>
    <2>1. /\ tasks' = tasks /\ task' = task /\ tasks_running' = busy
          /\ wpc' = [wpc EXCEPT ![w] = "blocked"]
      BY <1>2 DEF FetchOrSleep
    <2>2. wpc' \in [Worker -> WorkerPC] /\ Cardinality(Busy') = busy
      BY <2>1, BusyStep, BusyFinite DEF WorkerPC
    <2> QED
      BY <2>1, <2>2
  <1>3. CASE ~workers_running
    <2>1. /\ tasks' = tasks /\ task' = task /\ tasks_running' = busy
          /\ wpc' = [wpc EXCEPT ![w] = "exited"]
      BY <1>3 DEF FetchOrSleep
    <2>2. wpc' \in [Worker -> WorkerPC] /\ Cardinality(Busy') = busy
      BY <2>1, BusyStep, BusyFinite DEF WorkerPC
    <2> QED
      BY <2>1, <2>2
  <1> QED
    BY <1>1, <1>2, <1>3

\* The worker's two steps in the pool.
LEMMA WorkerLoopPool ==
  ASSUME NEW T, PoolTypeOK(T), RunningCount,
         NEW w \in Worker, LoopTop(w) \/ WokenWorker(w)
  PROVE  PoolTypeOK(T)' /\ RunningCount'
  <1>1. CASE LoopTop(w)
    <2>1. w \in Busy
      BY <1>1 DEF LoopTop, Busy
    <2>2. Cardinality(Busy) >= 1
      BY <2>1, BusyFinite, FS_EmptySet
    <2>3. tasks_running - 1 \in Nat
      BY <2>2, BusyFinite DEF RunningCount
    <2>4. FetchOrSleep(w, tasks_running - 1)
      BY <1>1 DEF LoopTop
    <2>5. /\ tasks' \in Seq(T)
          /\ tasks_running' \in Nat
          /\ tasks_running' = Cardinality(Busy')
          /\ wpc' \in [Worker -> WorkerPC]
          /\ task' \in [Worker -> T \cup {NoTask}]
      BY <2>1, <2>3, <2>4, FetchOrSleepPool DEF RunningCount
    <2> QED
      BY <1>1, <2>5 DEF LoopTop, PoolTypeOK, RunningCount, WaitPC
  <1>2. CASE WokenWorker(w)
    <2>1. w \notin Busy
      BY <1>2 DEF WokenWorker, Busy
    <2>2. tasks_running \in Nat
      BY DEF PoolTypeOK
    <2>3. FetchOrSleep(w, tasks_running)
      BY <1>2 DEF WokenWorker
    <2>4. /\ tasks' \in Seq(T)
          /\ tasks_running' \in Nat
          /\ tasks_running' = Cardinality(Busy')
          /\ wpc' \in [Worker -> WorkerPC]
          /\ task' \in [Worker -> T \cup {NoTask}]
      BY <2>1, <2>2, <2>3, FetchOrSleepPool DEF RunningCount
    <2> QED
      BY <1>2, <2>4 DEF WokenWorker, PoolTypeOK, RunningCount, WaitPC
  <1> QED
    BY <1>1, <1>2

\* A task that ends leaves its worker counted until the worker has the lock.
LEMMA TaskEndsPool ==
  ASSUME NEW T, PoolTypeOK(T), RunningCount,
         NEW w \in Worker, TaskEnds(w),
         UNCHANGED <<tasks, tasks_running, waiting, workers_running, doneWait>>
  PROVE  PoolTypeOK(T)' /\ RunningCount'
  <1>1. w \in Busy
    BY DEF TaskEnds, Busy
  <1>2. wpc' \in [Worker -> WorkerPC] /\ Cardinality(Busy') = Cardinality(Busy)
    BY <1>1, BusyStep DEF TaskEnds, PoolTypeOK, WorkerPC
  <1> QED
    BY <1>2 DEF TaskEnds, PoolTypeOK, RunningCount

\* Waking workers, rightly or spuriously, does not make them busy.
LEMMA WakeupPool ==
  ASSUME NEW T, PoolTypeOK(T), RunningCount,
         \/ NotifyOneWorker
         \/ NotifyAllWorkers
         \/ \E w \in Worker : SpuriousWorkerWakeup(w)
         \/ SpuriousWaitWakeup
  PROVE  PoolTypeOK(T)' /\ RunningCount'
  <1>1. /\ wpc' \in [Worker -> WorkerPC] /\ Busy' = Busy
        /\ UNCHANGED <<tasks, tasks_running, task>>
        /\ waiting' \in BOOLEAN /\ workers_running' \in BOOLEAN /\ doneWait' \in WaitPC
    <2> USE DEF PoolTypeOK, WorkerPC, WaitPC, Busy
    <2>1. CASE NotifyOneWorker
      BY <2>1 DEF NotifyOneWorker
    <2>2. CASE NotifyAllWorkers
      BY <2>2 DEF NotifyAllWorkers
    <2>3. CASE \E w \in Worker : SpuriousWorkerWakeup(w)
      BY <2>3 DEF SpuriousWorkerWakeup
    <2>4. CASE SpuriousWaitWakeup
      BY <2>4 DEF SpuriousWaitWakeup
    <2> QED
      BY <2>1, <2>2, <2>3, <2>4
  <1>2. PoolTypeOK(T)'
    BY <1>1 DEF PoolTypeOK
  <1>3. RunningCount'
    BY <1>1 DEF RunningCount
  <1> QED
    BY <1>2, <1>3

\* The client's critical sections leave the workers and the count alone.
LEMMA ClientPool ==
  ASSUME NEW T, PoolTypeOK(T), RunningCount,
         \/ \E t \in T : PushTask(t)
         \/ WaitReturns
         \/ WaitBlocks
         \/ StopWorkers
         \/ UNCHANGED poolVars
  PROVE  PoolTypeOK(T)' /\ RunningCount'
  <1>1. /\ UNCHANGED <<tasks_running, wpc, task>>
        /\ tasks' \in Seq(T)
        /\ waiting' \in BOOLEAN /\ workers_running' \in BOOLEAN /\ doneWait' \in WaitPC
    <2> USE DEF PoolTypeOK, WaitPC
    <2>1. CASE \E t \in T : PushTask(t)
      BY <2>1 DEF PushTask
    <2>2. CASE WaitReturns
      BY <2>2 DEF WaitReturns
    <2>3. CASE WaitBlocks
      BY <2>3 DEF WaitBlocks
    <2>4. CASE StopWorkers
      BY <2>4 DEF StopWorkers
    <2>5. CASE UNCHANGED poolVars
      BY <2>5 DEF poolVars
    <2> QED
      BY <2>1, <2>2, <2>3, <2>4, <2>5
  <1>2. Busy' = Busy
    BY <1>1 DEF Busy
  <1> QED
    BY <1>1, <1>2 DEF PoolTypeOK, RunningCount
=============================================================================
