--------------------------- MODULE EncoderProofs ----------------------------
(***************************************************************************)
(* The multi-threaded encoder is type correct, its pool counts its busy    *)
(* workers exactly, and no input buffer is ever in two places, for every   *)
(* number of workers, buffers and strips, every number of calls, and       *)
(* whatever is thrown at any of the places ThrowAt allows.  Then what      *)
(* pool->wait() is relied on for: no task outlives the encoder and no two  *)
(* threads meet on a strip's stream.  And no buffer is lost.  Last, what   *)
(* the encoder gives its caller: the streams the producer concatenates are *)
(* complete, their concatenation decodes, and every step keeps the promise *)
(* of EncoderSpec.                                                         *)
(***************************************************************************)
EXTENDS Encoder, ThreadPoolProofs, SequenceLemmas

\* The two ways the code changes a queue, by index.
LEMMA TailIndex ==
  ASSUME NEW S, NEW q \in Seq(S), q # <<>>
  PROVE  /\ Head(q) = q[1]
         /\ 1 \in DOMAIN q
         /\ \A i \in DOMAIN Tail(q) : i + 1 \in DOMAIN q /\ i + 1 # 1 /\ Tail(q)[i] = q[i+1]
         /\ \A i, j \in DOMAIN Tail(q) : i + 1 = j + 1 => i = j
  OBVIOUS

\* An element of an appended queue is an old one at its place, or the new one at
\* the end.
LEMMA AppendIndex ==
  ASSUME NEW S, NEW q \in Seq(S), NEW e \in S
  PROVE  \A i \in DOMAIN Append(q, e) :
           \/ i \in DOMAIN q /\ Append(q, e)[i] = q[i]
           \/ i = Len(q) + 1 /\ i \notin DOMAIN q /\ Append(q, e)[i] = e
  OBVIOUS

-----------------------------------------------------------------------------

\* Where the producer stands decides what it holds, and a worker has a task
\* exactly while it runs one.
Control ==
  /\ mpc \in {"acquire", "read", "submit", "notify"} => cur \in Strip
  /\ mpc \in {"read", "submit"} <=> held # NoBuffer
  /\ \A w \in Worker : wpc[w] = "running" => task[w] \in Task
  /\ \A w \in Worker : wpc[w] # "running" => tpc[w] = "encode"

TypeInv == TypeOK /\ RunningCount /\ Control

\* What a task puts in a codestream is items of one.
LEMMA ItemTypes ==
  ASSUME NEW t \in Task, input \in [Buffer -> Strip \cup {NoStrip}]
  PROVE  /\ EncodedStrip(t) \in Seq(Item) /\ Partial(t.s) \in Item
         /\ \A items \in CutShort(t) : items \in Seq(Item)
  <1>1. t.s \in Strip /\ t.b \in Buffer
    BY DEF Task
  <1>2. Scan(t.s, input[t.b], NoStrip) \in Item
    BY <1>1 DEF Scan, Item
  <1>3. t.s % 8 \in Nat
    BY <1>1, NumStripsAssumption DEF Strip
  <1>4. RST(t.s % 8) \in Item
    BY <1>3 DEF RST, Item
  <1>5. Partial(t.s) \in Item
    BY <1>1 DEF Partial, Item
  <1>6. EncodedStrip(t) \in Seq(Item)
    BY <1>2, <1>4 DEF EncodedStrip
  <1>7. \A items \in CutShort(t) : items \in Seq(Item)
    <2>1. /\ <<>> \in Seq(Item) /\ <<Partial(t.s)>> \in Seq(Item)
          /\ <<Scan(t.s, input[t.b], NoStrip)>> \in Seq(Item)
          /\ <<Scan(t.s, input[t.b], NoStrip), Partial(t.s)>> \in Seq(Item)
      BY <1>2, <1>5
    <2> QED
      BY <2>1, Zenon DEF CutShort
  <1> QED
    BY <1>5, <1>6, <1>7

\* The encoder starts type correct, with its counters and control points in
\* order.
LEMMA InitTypeInv == Init => TypeInv
  <1> SUFFICES ASSUME Init PROVE TypeInv
    OBVIOUS
  <1>1. PoolTypeOK(Task) /\ RunningCount
    BY InitPool DEF Init
  <1>2. free_idx \in Seq(Buffer)
    BY EncoderAssumption DEF Init, Buffer
  <1>3. 0 \in Strip /\ 0 \in 0 .. NumStrips
    BY NumStripsAssumption DEF Strip
  <1>4. TypeOK
    BY <1>1, <1>2, <1>3 DEF Init, TypeOK, MainPC, WaitPC, TaskPC, Outcome
  <1>5. Control
    BY <1>3 DEF Init, Control, PoolInit, NoBuffer
  <1> QED
    BY <1>1, <1>4, <1>5 DEF TypeInv

\* The producer's and the caller's steps.  In each, the pool's half comes from
\* ClientPool or WakeupPool.
LEMMA CallerTypeInv ==
  ASSUME TypeInv, Caller \/ Producer \/ SpuriousFreeWakeup \/ Dead
  PROVE  TypeInv'
  <1> USE DEF TypeInv, MainPC, WaitPC, Outcome
  <1>a. PoolTypeOK(Task) /\ RunningCount /\ NumStrips \in Nat
    BY NumStripsAssumption DEF TypeOK
  <1>b. ASSUME UNCHANGED poolVars
        PROVE  PoolTypeOK(Task)' /\ RunningCount' /\ UNCHANGED <<wpc, task>>
    BY <1>a, <1>b, ClientPool DEF poolVars
  <1>c. ASSUME WaitReturns \/ WaitBlocks \/ StopWorkers
        PROVE  PoolTypeOK(Task)' /\ RunningCount' /\ UNCHANGED <<wpc, task>>
    <2>1. PoolTypeOK(Task)' /\ RunningCount'
      BY <1>a, <1>c, ClientPool
    <2> QED
      BY <1>c, <2>1 DEF WaitReturns, WaitBlocks, StopWorkers
  <1>1. CASE Invoke
    BY <1>1, <1>a, <1>b, NumStripsAssumption DEF Invoke, TypeOK, Control, Strip
  <1>2. CASE GetCodestream
    BY <1>2, <1>b DEF GetCodestream, TypeOK, Control
  <1>3. CASE Destroy
    BY <1>3, <1>b DEF Destroy, TypeOK, Control
  <1>4. CASE AcquireBuffer
    <2>1. Head(free_idx) \in Buffer /\ Tail(free_idx) \in Seq(Buffer)
      BY <1>4 DEF AcquireBuffer, TypeOK
    <2>2. NoBuffer \notin Buffer
      BY EncoderAssumption DEF Buffer, NoBuffer
    <2> QED
      BY <1>4, <1>b, <2>1, <2>2 DEF AcquireBuffer, TypeOK, Control
  <1>5. CASE AwaitBuffer
    BY <1>5, <1>b DEF AwaitBuffer, TypeOK, Control
  <1>6. CASE ReadStrip
    <2>1. cur \in Strip /\ input' \in [Buffer -> Strip \cup {NoStrip}]
      BY <1>6 DEF ReadStrip, TypeOK, Control
    <2> QED
      BY <1>6, <1>b, <2>1 DEF ReadStrip, TypeOK, Control
  <1>7. CASE Submit
    <2>1. [s |-> cur, b |-> held] \in Task
      BY <1>7 DEF Submit, TypeOK, Control, Task
    <2>2. PoolTypeOK(Task)' /\ RunningCount'
      BY <1>7, <1>a, <2>1, ClientPool DEF Submit
    <2> QED
      BY <1>7, <2>2 DEF Submit, PushTask, TypeOK, Control
  <1>8. CASE SubmitThrows
    BY <1>8, <1>b DEF SubmitThrows, TypeOK, Control
  <1>9. CASE SubmitNotify
    <2>1. PoolTypeOK(Task)' /\ RunningCount'
      BY <1>9, <1>a, WakeupPool DEF SubmitNotify
    <2>2. /\ cur + 1 \in 0 .. NumStrips
          /\ cur + 1 < NumStrips => cur + 1 \in Strip
      BY <1>9, <1>a DEF SubmitNotify, Control, Strip
    <2>3. TypeOK'
      BY <1>9, <2>1, <2>2 DEF SubmitNotify, TypeOK
    <2>4. \A w \in Worker : /\ wpc'[w] = "running" <=> wpc[w] = "running"
                            /\ task'[w] = task[w]
      BY <1>9, <1>a DEF SubmitNotify, NotifyOneWorker, PoolTypeOK
    <2>5. Control'
      BY <1>9, <2>2, <2>4 DEF SubmitNotify, Control
    <2> QED
      BY <2>1, <2>3, <2>5
  <1>10. CASE AwaitTasks
    BY <1>10, <1>c DEF AwaitTasks, TypeOK, Control
  <1>11. CASE Concat
    BY <1>11, <1>b DEF Concat, TypeOK, Control
  <1>12. CASE ConcatThrows
    <2>1. NumStrips - 1 \in Strip
      BY NumStripsAssumption DEF Strip
    <2>2. Partial(NumStrips - 1) \in Item
      BY <2>1 DEF Partial, Item
    <2>3. Append(strip_cs[NumStrips - 1], Partial(NumStrips - 1)) \in Seq(Item)
      BY <2>1, <2>2 DEF TypeOK
    <2>4. strip_cs' \in [Strip -> Seq(Item)]
      BY <1>12, <2>1, <2>3 DEF ConcatThrows, TypeOK
    <2> QED
      BY <1>12, <1>b, <2>4 DEF ConcatThrows, TypeOK, Control
  <1>13. CASE DestructorStep
    <2>1. CASE NotifyAllWorkers
      <3>1. PoolTypeOK(Task)' /\ RunningCount'
        BY <2>1, <1>a, WakeupPool
      <3>2. \A w \in Worker : /\ wpc'[w] = "running" <=> wpc[w] = "running"
                              /\ task'[w] = task[w]
        BY <2>1, <1>a DEF NotifyAllWorkers, PoolTypeOK
      <3>3. mpc' \in MainPC /\ (mpc' \notin {"acquire", "read", "submit", "notify"})
            /\ mpc \notin {"read", "submit"}
        BY <1>13 DEF DestructorStep
      <3> QED
        BY <1>13, <3>1, <3>2, <3>3 DEF DestructorStep, TypeOK, Control
    <2>2. CASE WaitReturns \/ WaitBlocks \/ StopWorkers \/ UNCHANGED poolVars
      BY <1>13, <2>2, <1>b, <1>c DEF DestructorStep, TypeOK, Control
    <2> QED
      BY <1>13, <2>1, <2>2 DEF DestructorStep
  <1>14. CASE SpuriousFreeWakeup
    BY <1>14, <1>b DEF SpuriousFreeWakeup, TypeOK, Control
  <1>15. CASE Dead
    BY <1>15, <1>b DEF Dead, vars, clientVars, TypeOK, Control
  <1> QED
    BY <1>1, <1>2, <1>3, <1>4, <1>5, <1>6, <1>7, <1>8, <1>9, <1>10, <1>11, <1>12, <1>13,
       <1>14, <1>15 DEF Caller, Producer

\* The workers' steps and the pool's spurious wakeups.
LEMMA WorkerTypeInv ==
  ASSUME TypeInv, NEW w \in Worker, WorkerStep(w)
  PROVE  TypeInv'
  <1> USE DEF TypeInv
  <1>a. PoolTypeOK(Task) /\ RunningCount
    BY DEF TypeOK
  <1>1. CASE (LoopTop(w) \/ WokenWorker(w)) /\ UNCHANGED clientVars
    <2>1. PoolTypeOK(Task)' /\ RunningCount'
      BY <1>1, <1>a, WorkerLoopPool
    <2>2. \A v \in Worker \ {w} : wpc'[v] = wpc[v] /\ task'[v] = task[v]
      BY <1>1, <1>a DEF LoopTop, WokenWorker, FetchOrSleep, PoolTypeOK
    <2>3. wpc[w] # "running"
      BY <1>1 DEF LoopTop, WokenWorker
    <2>4. wpc'[w] = "running" => task'[w] \in Task
      BY <1>1, <1>a DEF LoopTop, WokenWorker, FetchOrSleep, PoolTypeOK
    <2>5. TypeOK'
      BY <1>1, <2>1 DEF TypeOK, clientVars
    <2>6. Control'
      BY <1>1, <2>2, <2>3, <2>4 DEF Control, clientVars
    <2> QED
      BY <2>1, <2>5, <2>6
  <1>2. CASE EncodeStrip(w)
    <2>1. PoolTypeOK(Task)' /\ RunningCount' /\ UNCHANGED <<wpc, task>>
      BY <1>2, <1>a, ClientPool DEF EncodeStrip, poolVars
    <2>2. task[w] \in Task
      BY <1>2 DEF EncodeStrip, Control
    <2>3. EncodedStrip(task[w]) \in Seq(Item) /\ <<Partial(task[w].s)>> \in Seq(Item)
          /\ <<>> \in Seq(Item) /\ task[w].s \in Strip
      BY <2>2, ItemTypes DEF TypeOK, Task
    <2>4. \A items \in Written(w) : items \in Seq(Item)
      BY <2>3 DEF Written
    <2>5. strip_cs' \in [Strip -> Seq(Item)]
      BY <1>2, <2>3, <2>4 DEF EncodeStrip, TypeOK
    <2>6. tpc' \in [Worker -> TaskPC]
      BY <1>2 DEF EncodeStrip, TypeOK, TaskPC
    <2>7. TypeOK'
      BY <1>2, <2>1, <2>5, <2>6 DEF EncodeStrip, TypeOK
    <2>8. Control'
      BY <1>2, <2>1 DEF EncodeStrip, Control, TypeOK
    <2> QED
      BY <2>1, <2>7, <2>8
  <1>3. CASE TaskThrows(w)
    <2>1. PoolTypeOK(Task)' /\ RunningCount'
      BY <1>3, <1>a, TaskEndsPool DEF TaskThrows
    <2>2. task[w] \in Task
      BY <1>3 DEF TaskThrows, Control
    <2>3. task[w].s \in Strip /\ \A items \in CutShort(task[w]) : items \in Seq(Item)
      BY <2>2, ItemTypes DEF TypeOK, Task
    <2>4. strip_cs' \in [Strip -> Seq(Item)]
      BY <1>3, <2>3 DEF TaskThrows, TypeOK
    <2>5. TypeOK'
      BY <1>3, <2>1, <2>4 DEF TaskThrows, TypeOK
    <2>6. Control'
      BY <1>3, <1>a DEF TaskThrows, TaskEnds, Control, PoolTypeOK
    <2> QED
      BY <2>1, <2>5, <2>6
  <1>4. CASE ReleaseBuffer(w)
    <2>1. PoolTypeOK(Task)' /\ RunningCount' /\ UNCHANGED <<wpc, task>>
      BY <1>4, <1>a, ClientPool DEF ReleaseBuffer, poolVars
    <2>2. task[w].b \in Buffer
      BY <1>4 DEF ReleaseBuffer, Control, Task
    <2>3. free_idx' \in Seq(Buffer) /\ tpc' \in [Worker -> TaskPC]
      BY <1>4, <2>2 DEF ReleaseBuffer, TypeOK, TaskPC
    <2>4. TypeOK'
      BY <1>4, <2>1, <2>3 DEF ReleaseBuffer, TypeOK
    <2>5. Control'
      BY <1>4, <2>1 DEF ReleaseBuffer, Control, TypeOK
    <2> QED
      BY <2>1, <2>4, <2>5
  <1>5. CASE NotifyFree(w)
    <2>1. PoolTypeOK(Task)' /\ RunningCount'
      BY <1>5, <1>a, TaskEndsPool DEF NotifyFree
    <2>2. freeWait' \in WaitPC /\ tpc' \in [Worker -> TaskPC]
      BY <1>5 DEF NotifyFree, TypeOK, TaskPC, WaitPC
    <2>3. TypeOK'
      BY <1>5, <2>1, <2>2 DEF NotifyFree, TypeOK
    <2>4. Control'
      BY <1>5, <1>a DEF NotifyFree, TaskEnds, Control, PoolTypeOK, TypeOK
    <2> QED
      BY <2>1, <2>3, <2>4
  <1>6. CASE ReleaseThrows(w)
    <2>1. PoolTypeOK(Task)' /\ RunningCount'
      BY <1>6, <1>a, TaskEndsPool DEF ReleaseThrows
    <2>2. tpc' \in [Worker -> TaskPC]
      BY <1>6 DEF ReleaseThrows, TypeOK, TaskPC
    <2>3. TypeOK'
      BY <1>6, <2>1, <2>2 DEF ReleaseThrows, TypeOK
    <2>4. Control'
      BY <1>6, <1>a DEF ReleaseThrows, TaskEnds, Control, PoolTypeOK, TypeOK
    <2> QED
      BY <2>1, <2>3, <2>4
  <1> QED
    BY <1>1, <1>2, <1>3, <1>4, <1>5, <1>6 DEF WorkerStep

\* Every step of the encoder keeps its types, its count and its control points.
LEMMA NextTypeInv == TypeInv /\ [Next]_vars => TypeInv'
  <1> SUFFICES ASSUME TypeInv, [Next]_vars PROVE TypeInv'
    OBVIOUS
  <1>a. PoolTypeOK(Task) /\ RunningCount
    BY DEF TypeInv, TypeOK
  <1>1. CASE Producer \/ Caller \/ SpuriousFreeWakeup \/ Dead
    BY <1>1, CallerTypeInv
  <1>2. CASE \E w \in Worker : WorkerStep(w)
    BY <1>2, WorkerTypeInv
  <1>3. CASE /\ SpuriousWaitWakeup \/ \E w \in Worker : SpuriousWorkerWakeup(w)
             /\ UNCHANGED clientVars
    <2>1. PoolTypeOK(Task)' /\ RunningCount'
      BY <1>3, <1>a, WakeupPool
    <2>2. \A w \in Worker : /\ wpc'[w] = "running" <=> wpc[w] = "running"
                            /\ task'[w] = task[w]
      BY <1>3, <1>a DEF SpuriousWaitWakeup, SpuriousWorkerWakeup, PoolTypeOK
    <2> QED
      BY <1>3, <2>1, <2>2 DEF clientVars, TypeInv, TypeOK, Control
  <1>4. CASE UNCHANGED vars
    <2>1. PoolTypeOK(Task)' /\ RunningCount'
      BY <1>4, <1>a, ClientPool DEF vars
    <2> QED
      BY <1>4, <2>1 DEF vars, poolVars, clientVars, TypeInv, TypeOK, Control
  <1> QED
    BY <1>1, <1>2, <1>3, <1>4 DEF Next, Spurious

\* In every reachable state the variables have their types, tasks_running is the
\* number of busy workers, and Control holds.
THEOREM TypeCorrect == Spec => [](TypeOK /\ RunningCount /\ Control)
  <1>1. TypeInv => TypeOK /\ RunningCount /\ Control
    BY DEF TypeInv
  <1> QED
    BY InitTypeInv, NextTypeInv, <1>1, PTL DEF Spec

-----------------------------------------------------------------------------
(* The discipline of the input buffers. *)

BufferInv == TypeInv /\ BufferExclusive

\* A step that moves no buffer, no task and no producer into "submit".
LEMMA NoBufferMoves ==
  ASSUME BufferExclusive,
         UNCHANGED <<free_idx, tasks, task, held, input, tpc>>,
         \A w \in Worker : wpc'[w] = "running" <=> wpc[w] = "running",
         mpc' = "submit" => mpc = "submit" /\ cur' = cur
  PROVE  BufferExclusive'
  BY DEF BufferExclusive, FreeUnshared, QueuedUnshared, RunningUnshared, HeldUnshared,
         RightRows, OwnsBuffer, Encoding

\* free_idx to the producer.
LEMMA AcquireExclusive ==
  ASSUME TypeInv, BufferExclusive, AcquireBuffer
  PROVE  BufferExclusive'
  <1> USE DEF AcquireBuffer, poolVars
  <1>1. free_idx \in Seq(Buffer) /\ free_idx # <<>>
    BY DEF TypeInv, TypeOK
  <1>2. /\ held' = free_idx[1] /\ 1 \in DOMAIN free_idx
        /\ \A i \in DOMAIN free_idx' :
             i + 1 \in DOMAIN free_idx /\ i + 1 # 1 /\ free_idx'[i] = free_idx[i+1]
        /\ \A i, j \in DOMAIN free_idx' : i + 1 = j + 1 => i = j
    BY <1>1, TailIndex
  <1>3. FreeUnshared'
    BY <1>2 DEF BufferExclusive, FreeUnshared
  <1>4. QueuedUnshared'
    BY <1>2 DEF BufferExclusive, QueuedUnshared
  <1>5. RunningUnshared'
    BY <1>2 DEF BufferExclusive, RunningUnshared, OwnsBuffer
  <1>6. HeldUnshared'
    <2>1. \A i \in DOMAIN free_idx' : held' # free_idx'[i]
      BY <1>2 DEF BufferExclusive, FreeUnshared
    <2>2. \A i \in DOMAIN tasks : held' # tasks[i].b
      BY <1>2 DEF BufferExclusive, QueuedUnshared
    <2>3. \A w \in Worker : OwnsBuffer(w) => held' # task[w].b
      BY <1>2 DEF BufferExclusive, RunningUnshared
    <2> QED
      BY <2>1, <2>2, <2>3 DEF HeldUnshared, OwnsBuffer
  <1>7. RightRows'
    BY DEF BufferExclusive, RightRows, Encoding
  <1> QED
    BY <1>3, <1>4, <1>5, <1>6, <1>7 DEF BufferExclusive

\* The producer writes into the buffer it holds, which no task has.
LEMMA ReadExclusive ==
  ASSUME TypeInv, BufferExclusive, ReadStrip
  PROVE  BufferExclusive'
  <1> USE DEF ReadStrip, poolVars
  <1>1. held # NoBuffer /\ held \in Buffer
    BY DEF TypeInv, TypeOK, Control
  <1>2. input' = [input EXCEPT ![held] = cur] /\ input \in [Buffer -> Strip \cup {NoStrip}]
    BY DEF TypeInv, TypeOK
  <1>3. \A i \in DOMAIN tasks : tasks[i].b \in Buffer
    <2>1. tasks \in Seq(Task)
      BY DEF TypeInv, TypeOK, PoolTypeOK
    <2>2. \A i \in DOMAIN tasks : tasks[i] \in Task
      BY ONLY <2>1
    <2> QED
      BY <2>2 DEF Task
  <1>4. \A w \in Worker : Encoding(w) => task[w].b \in Buffer /\ OwnsBuffer(w)
    BY DEF TypeInv, Control, Task, Encoding, OwnsBuffer
  <1>5. RightRows'
    <2>1. input'[held] = cur
      BY <1>1, <1>2
    <2>2. \A i \in DOMAIN tasks : input'[tasks[i].b] = tasks[i].s
      BY <1>1, <1>2, <1>3 DEF BufferExclusive, HeldUnshared, RightRows
    <2>3. \A w \in Worker : Encoding(w) => input'[task[w].b] = task[w].s
      BY <1>1, <1>2, <1>4 DEF BufferExclusive, HeldUnshared, RightRows
    <2> QED
      BY <2>1, <2>2, <2>3 DEF RightRows, Encoding
  <1>6. FreeUnshared' /\ QueuedUnshared' /\ RunningUnshared' /\ HeldUnshared'
    BY DEF BufferExclusive, FreeUnshared, QueuedUnshared, RunningUnshared, HeldUnshared, OwnsBuffer
  <1> QED
    BY <1>5, <1>6 DEF BufferExclusive

\* The producer to the queue of tasks.
LEMMA SubmitExclusive ==
  ASSUME TypeInv, BufferExclusive, Submit
  PROVE  BufferExclusive'
  <1> USE DEF Submit, PushTask
  <1> DEFINE t == [s |-> cur, b |-> held]
  <1>1. held # NoBuffer /\ t \in Task /\ tasks \in Seq(Task)
    BY DEF TypeInv, TypeOK, PoolTypeOK, Control, Task
  <1>2. \A i \in DOMAIN tasks' :
          \/ i \in DOMAIN tasks /\ tasks'[i] = tasks[i]
          \/ i = Len(tasks) + 1 /\ i \notin DOMAIN tasks /\ tasks'[i] = t
    BY <1>1, AppendIndex
  <1>3. t.s = cur /\ t.b = held
    OBVIOUS
  <1> HIDE DEF t
  <1>4. FreeUnshared'
    BY DEF BufferExclusive, FreeUnshared
  <1>5. QueuedUnshared'
    BY <1>1, <1>2, <1>3 DEF BufferExclusive, QueuedUnshared, HeldUnshared
  <1>6. RunningUnshared'
    BY <1>1, <1>2, <1>3 DEF BufferExclusive, RunningUnshared, HeldUnshared, OwnsBuffer
  <1>7. HeldUnshared'
    BY DEF HeldUnshared
  <1>8. RightRows'
    BY <1>2, <1>3 DEF BufferExclusive, RightRows, Encoding
  <1> QED
    BY <1>4, <1>5, <1>6, <1>7, <1>8 DEF BufferExclusive

\* The queue of tasks to a worker.
LEMMA FetchExclusive ==
  ASSUME TypeInv, BufferExclusive, NEW w \in Worker,
         LoopTop(w) \/ WokenWorker(w), UNCHANGED clientVars
  PROVE  BufferExclusive'
  <1> USE DEF clientVars
  <1>1. wpc[w] # "running" /\ tpc[w] = "encode" /\ wpc \in [Worker -> WorkerPC]
        /\ task \in [Worker -> Task \cup {NoTask}] /\ tasks \in Seq(Task)
    BY DEF TypeInv, TypeOK, PoolTypeOK, Control, LoopTop, WokenWorker
  <1>2. CASE /\ UNCHANGED <<tasks, task>>
             /\ \A v \in Worker : wpc'[v] = "running" <=> wpc[v] = "running"
    BY <1>2, NoBufferMoves
  <1>3. CASE /\ tasks # <<>> /\ tasks' = Tail(tasks)
             /\ task' = [task EXCEPT ![w] = Head(tasks)]
             /\ wpc' = [wpc EXCEPT ![w] = "running"]
    <2>1. /\ task'[w] = tasks[1] /\ 1 \in DOMAIN tasks
          /\ \A i \in DOMAIN tasks' :
               i + 1 \in DOMAIN tasks /\ i + 1 # 1 /\ tasks'[i] = tasks[i+1]
          /\ \A i, j \in DOMAIN tasks' : i + 1 = j + 1 => i = j
      BY <1>1, <1>3, TailIndex
    <2>2. \A v \in Worker : \/ v = w
                            \/ /\ task'[v] = task[v]
                               /\ OwnsBuffer(v)' = OwnsBuffer(v)
                               /\ Encoding(v)' = Encoding(v)
      BY <1>1, <1>3 DEF OwnsBuffer, Encoding
    <2>3. FreeUnshared'
      BY DEF BufferExclusive, FreeUnshared
    <2>4. QueuedUnshared'
      BY <2>1 DEF BufferExclusive, QueuedUnshared
    <2>5. RunningUnshared'
      BY <2>1, <2>2 DEF BufferExclusive, RunningUnshared, QueuedUnshared
    <2>6. HeldUnshared'
      BY <2>1, <2>2 DEF BufferExclusive, HeldUnshared
    <2>7. RightRows'
      BY <2>1, <2>2 DEF BufferExclusive, RightRows
    <2> QED
      BY <2>3, <2>4, <2>5, <2>6, <2>7 DEF BufferExclusive
  <1>4. \/ /\ tasks # <<>> /\ tasks' = Tail(tasks)
           /\ task' = [task EXCEPT ![w] = Head(tasks)]
           /\ wpc' = [wpc EXCEPT ![w] = "running"]
        \/ /\ UNCHANGED <<tasks, task>>
           /\ \/ wpc' = [wpc EXCEPT ![w] = "blocked"]
              \/ wpc' = [wpc EXCEPT ![w] = "exited"]
    BY DEF LoopTop, WokenWorker, FetchOrSleep
  <1> QED
    BY <1>1, <1>2, <1>3, <1>4

\* A worker back to free_idx.
LEMMA ReleaseExclusive ==
  ASSUME TypeInv, BufferExclusive, NEW w \in Worker, ReleaseBuffer(w)
  PROVE  BufferExclusive'
  <1> USE DEF ReleaseBuffer, poolVars
  <1> DEFINE b == task[w].b
  <1>1. b \in Buffer /\ free_idx \in Seq(Buffer) /\ tpc \in [Worker -> TaskPC]
    BY DEF TypeInv, TypeOK, Control, Task
  <1>2. \A i \in DOMAIN free_idx' :
          \/ i \in DOMAIN free_idx /\ free_idx'[i] = free_idx[i]
          \/ i = Len(free_idx) + 1 /\ i \notin DOMAIN free_idx /\ free_idx'[i] = b
    BY <1>1, AppendIndex
  <1>3. OwnsBuffer(w) /\ ~OwnsBuffer(w)' /\ ~Encoding(w)'
    BY <1>1 DEF OwnsBuffer, Encoding
  <1>4. \A v \in Worker : v # w => OwnsBuffer(v)' = OwnsBuffer(v) /\ Encoding(v)' = Encoding(v)
    BY <1>1 DEF OwnsBuffer, Encoding
  <1>5. FreeUnshared'
    BY <1>2, <1>3 DEF BufferExclusive, FreeUnshared, RunningUnshared
  <1>6. QueuedUnshared'
    BY <1>2, <1>3 DEF BufferExclusive, QueuedUnshared, RunningUnshared
  <1>7. RunningUnshared'
    BY <1>2, <1>3, <1>4 DEF BufferExclusive, RunningUnshared
  <1>8. HeldUnshared'
    BY <1>2, <1>3, <1>4 DEF BufferExclusive, HeldUnshared
  <1>9. RightRows'
    BY <1>3, <1>4 DEF BufferExclusive, RightRows
  <1> QED
    BY <1>5, <1>6, <1>7, <1>8, <1>9 DEF BufferExclusive

\* A task that has given its buffer back, still has it, or loses it by throwing.
LEMMA TaskStepExclusive ==
  ASSUME TypeInv, BufferExclusive, NEW w \in Worker,
         EncodeStrip(w) \/ TaskThrows(w) \/ ReleaseThrows(w) \/ NotifyFree(w)
  PROVE  BufferExclusive'
  <1>1. /\ UNCHANGED <<free_idx, tasks, held, input, mpc, cur>>
        /\ \A v \in Worker : OwnsBuffer(v)' => OwnsBuffer(v) /\ task'[v] = task[v]
        /\ \A v \in Worker : Encoding(v)' => Encoding(v) /\ task'[v] = task[v]
    <2> USE DEF TypeInv, TypeOK, PoolTypeOK, OwnsBuffer, Encoding, TaskPC
    <2>1. CASE EncodeStrip(w)
      BY <2>1 DEF EncodeStrip, poolVars
    <2>2. CASE TaskThrows(w)
      BY <2>2 DEF TaskThrows, TaskEnds
    <2>3. CASE ReleaseThrows(w) \/ NotifyFree(w)
      BY <2>3 DEF ReleaseThrows, NotifyFree, TaskEnds
    <2> QED
      BY <2>1, <2>2, <2>3
  <1> QED
    BY <1>1 DEF BufferExclusive, FreeUnshared, QueuedUnshared, RunningUnshared, HeldUnshared, RightRows

\* At the start every buffer is free, so none is shared.
LEMMA InitBufferInv == Init => BufferInv
  <1> SUFFICES ASSUME Init PROVE BufferExclusive
    BY InitTypeInv DEF BufferInv
  <1> QED
    BY DEF Init, PoolInit, BufferExclusive, FreeUnshared, QueuedUnshared, RunningUnshared,
           HeldUnshared, RightRows, OwnsBuffer, Encoding, NoBuffer

\* No step gives a buffer two owners.
LEMMA NextBufferInv == BufferInv /\ [Next]_vars => BufferExclusive'
  <1> SUFFICES ASSUME TypeInv, BufferExclusive, [Next]_vars PROVE BufferExclusive'
    BY DEF BufferInv
  <1>w. wpc \in [Worker -> WorkerPC]
    BY DEF TypeInv, TypeOK, PoolTypeOK
  <1>1. CASE Invoke
    BY <1>1, NoBufferMoves DEF Invoke, poolVars
  <1>2. CASE GetCodestream \/ Destroy
    BY <1>2, NoBufferMoves DEF GetCodestream, Destroy, poolVars
  <1>3. CASE AcquireBuffer
    BY <1>3, AcquireExclusive
  <1>4. CASE AwaitBuffer \/ SpuriousFreeWakeup
    BY <1>4, NoBufferMoves DEF AwaitBuffer, SpuriousFreeWakeup, poolVars
  <1>5. CASE ReadStrip
    BY <1>5, ReadExclusive
  <1>6. CASE Submit
    BY <1>6, SubmitExclusive
  <1>7. CASE SubmitThrows
    BY <1>7 DEF SubmitThrows, poolVars, BufferExclusive, FreeUnshared, QueuedUnshared,
                RunningUnshared, HeldUnshared, RightRows, OwnsBuffer, Encoding
  <1>8. CASE SubmitNotify
    <2>1. \A w \in Worker : wpc'[w] = "running" <=> wpc[w] = "running"
      BY <1>8, <1>w DEF SubmitNotify, NotifyOneWorker
    <2> QED
      BY <1>8, <2>1, NoBufferMoves DEF SubmitNotify, NotifyOneWorker
  <1>9. CASE AwaitTasks
    BY <1>9, NoBufferMoves DEF AwaitTasks, WaitReturns, WaitBlocks
  <1>10. CASE Concat \/ ConcatThrows
    BY <1>10, NoBufferMoves DEF Concat, ConcatThrows, poolVars
  <1>11. CASE DestructorStep
    <2>1. /\ \A w \in Worker : wpc'[w] = "running" <=> wpc[w] = "running"
          /\ UNCHANGED <<tasks, task>>
      BY <1>11, <1>w DEF DestructorStep, WaitReturns, WaitBlocks, StopWorkers, NotifyAllWorkers, poolVars
    <2> QED
      BY <1>11, <2>1, NoBufferMoves DEF DestructorStep
  <1>12. CASE \E w \in Worker : WorkerStep(w)
    BY <1>12, FetchExclusive, ReleaseExclusive, TaskStepExclusive DEF WorkerStep
  <1>13. CASE /\ SpuriousWaitWakeup \/ \E w \in Worker : SpuriousWorkerWakeup(w)
              /\ UNCHANGED clientVars
    <2>1. /\ \A w \in Worker : wpc'[w] = "running" <=> wpc[w] = "running"
          /\ UNCHANGED <<tasks, task>>
      BY <1>13, <1>w DEF SpuriousWaitWakeup, SpuriousWorkerWakeup
    <2> QED
      BY <1>13, <2>1, NoBufferMoves DEF clientVars
  <1>14. CASE UNCHANGED vars
    BY <1>14, NoBufferMoves DEF vars, poolVars, clientVars
  <1> QED
    BY <1>1, <1>2, <1>3, <1>4, <1>5, <1>6, <1>7, <1>8, <1>9, <1>10, <1>11, <1>12, <1>13, <1>14
       DEF Next, Producer, Caller, Spurious, Dead

\* At every moment each input buffer is in one place, the free queue, the
\* producer's hands, a queued task or a running one, and a task finds in its buffer
\* the rows that were read for it, whatever has been thrown.
THEOREM BuffersExclusive == Spec => []BufferExclusive
  <1>1. Init => BufferInv
    BY InitBufferInv
  <1>2. BufferInv /\ [Next]_vars => BufferInv'
    BY NextTypeInv, NextBufferInv DEF BufferInv
  <1>3. BufferInv => BufferExclusive
    BY DEF BufferInv
  <1> QED
    BY <1>1, <1>2, <1>3, PTL DEF Spec

-----------------------------------------------------------------------------
(* Nothing is left of a call once pool->wait() has returned. *)

Quiet == tasks = <<>> /\ \A w \in Worker : wpc[w] # "running"

\* TasksDone, which wait() tests, means what its name says because the count of
\* busy workers is exact.
LEMMA DoneIsQuiet ==
  ASSUME TypeInv, TasksDone
  PROVE  Quiet
  <1>1. Busy = {}
    BY BusyFinite, FS_EmptySet DEF TypeInv, TasksDone, RunningCount
  <1> QED
    BY <1>1 DEF TasksDone, Quiet, Busy

\* Only Submit ends a quiet time.
LEMMA QuietStays ==
  ASSUME TypeInv, Quiet, [Next]_vars, ~Submit
  PROVE  Quiet'
  <1>w. wpc \in [Worker -> WorkerPC]
    BY DEF TypeInv, TypeOK, PoolTypeOK
  <1>1. ASSUME UNCHANGED poolVars \/ WaitReturns \/ WaitBlocks \/ StopWorkers
        PROVE  Quiet'
    BY <1>1 DEF Quiet, poolVars, WaitReturns, WaitBlocks, StopWorkers
  <1>2. ASSUME \/ NotifyOneWorker \/ NotifyAllWorkers \/ SpuriousWaitWakeup
               \/ \E w \in Worker : SpuriousWorkerWakeup(w)
        PROVE  Quiet'
    BY <1>w, <1>2 DEF Quiet, NotifyOneWorker, NotifyAllWorkers, SpuriousWaitWakeup,
                      SpuriousWorkerWakeup
  <1>3. CASE Caller \/ SpuriousFreeWakeup \/ Dead \/ UNCHANGED vars
    BY <1>1, <1>3 DEF Caller, Invoke, GetCodestream, Destroy, SpuriousFreeWakeup, Dead, vars
  <1>4. CASE Producer
    <2>1. CASE SubmitNotify
      BY <1>2, <2>1 DEF SubmitNotify
    <2>2. CASE AwaitTasks
      BY <1>1, <2>2 DEF AwaitTasks
    <2>3. CASE DestructorStep
      BY <1>1, <1>2, <2>3 DEF DestructorStep
    <2>4. CASE \/ AcquireBuffer \/ AwaitBuffer \/ ReadStrip \/ SubmitThrows
               \/ Concat \/ ConcatThrows
      BY <1>1, <2>4 DEF AcquireBuffer, AwaitBuffer, ReadStrip, SubmitThrows, Concat, ConcatThrows
    <2> QED
      BY <1>4, <2>1, <2>2, <2>3, <2>4 DEF Producer
  <1>5. ASSUME NEW w \in Worker, WorkerStep(w)
        PROVE  Quiet'
    <2>1. (LoopTop(w) \/ WokenWorker(w))
      BY <1>5 DEF WorkerStep, Quiet, EncodeStrip, TaskThrows, ReleaseThrows, ReleaseBuffer, NotifyFree
    <2>2. /\ tasks' = <<>>
          /\ \/ wpc' = [wpc EXCEPT ![w] = "blocked"]
             \/ wpc' = [wpc EXCEPT ![w] = "exited"]
      BY <2>1 DEF LoopTop, WokenWorker, FetchOrSleep, Quiet
    <2> QED
      BY <1>w, <2>2 DEF Quiet
  <1>6. CASE (SpuriousWaitWakeup \/ \E w \in Worker : SpuriousWorkerWakeup(w)) /\ UNCHANGED clientVars
    BY <1>2, <1>6
  <1> QED
    BY <1>3, <1>4, <1>5, <1>6 DEF Next, Spurious

QuietAfterWait ==
  mpc \in {"concat", "dtorStop", "dtorNotify", "dtorJoin", "dead"} => Quiet

\* Once wait_for_tasks() has returned, the pool stays quiet until a new task.
LEMMA NextQuietAfterWait ==
  ASSUME TypeInv, QuietAfterWait, [Next]_vars
  PROVE  QuietAfterWait'
  <1> SUFFICES ASSUME mpc' \in {"concat", "dtorStop", "dtorNotify", "dtorJoin", "dead"}
               PROVE  Quiet'
    BY DEF QuietAfterWait
  <1>1. ~Submit
    BY DEF Submit
  <1>2. CASE mpc' = mpc
    BY <1>1, <1>2, QuietStays DEF QuietAfterWait
  <1>3. CASE mpc' # mpc
    <2>1. \/ AwaitTasks \/ DestructorStep \/ Caller
          \/ AcquireBuffer \/ ReadStrip \/ SubmitThrows \/ SubmitNotify \/ Concat \/ ConcatThrows
      BY <1>1, <1>3 DEF Next, Producer, WorkerStep, EncodeStrip, TaskThrows, ReleaseThrows, ReleaseBuffer,
                        NotifyFree, Spurious, SpuriousFreeWakeup, AwaitBuffer, Dead, vars, clientVars
    <2>2. AwaitTasks \/ DestructorStep
      BY <2>1 DEF Caller, Invoke, GetCodestream, Destroy, AcquireBuffer, ReadStrip, SubmitThrows,
                  SubmitNotify, Concat, ConcatThrows
    <2>3. WaitReturns \/ mpc \in {"dtorStop", "dtorNotify", "dtorJoin"}
      BY <1>3, <2>2 DEF AwaitTasks, DestructorStep
    <2>4. Quiet
      BY <2>3, DoneIsQuiet DEF WaitReturns, QuietAfterWait
    <2> QED
      BY <1>1, <2>4, QuietStays
  <1> QED
    BY <1>2, <1>3

\* Whatever has been thrown, no task is queued or running once the destructor has
\* stopped the workers, or destroyed anything that a task may use.
THEOREM NoTaskOutlives == Spec => []NoTaskOutlivesEncoder
  <1>1. Init => TypeInv /\ QuietAfterWait
    BY InitTypeInv DEF Init, QuietAfterWait
  <1>2. TypeInv /\ QuietAfterWait /\ [Next]_vars => TypeInv' /\ QuietAfterWait'
    BY NextTypeInv, NextQuietAfterWait
  <1>3. Gone # {} => mpc = "dead"
    <2> SUFFICES ASSUME Gone # {}, mpc # "dead"  PROVE FALSE
      OBVIOUS
    <2>1. PICK k \in DOMAIN Members : \E i \in DOMAIN Members : i < k /\ Members[i] = "pool"
      BY DEF Gone
    <2> QED  BY <2>1 DEF Members
  <1>4. QuietAfterWait => NoTaskOutlivesEncoder
    BY <1>3 DEF QuietAfterWait, NoTaskOutlivesEncoder, Quiet
  <1> QED
    BY <1>1, <1>2, <1>4, PTL DEF Spec

-----------------------------------------------------------------------------
(* Each strip is in at most one task. *)

Submitted(s) == s < cur \/ (mpc = "notify" /\ s = cur)

StripInv ==
  /\ mpc \in {"idle", "concat", "dtorWait", "dtorStop", "dtorNotify", "dtorJoin", "dead"} => Quiet
  /\ mpc \in {"wait", "concat"} => cur = NumStrips
  /\ \A i, j \in DOMAIN tasks : tasks[i].s = tasks[j].s => i = j
  /\ \A v, w \in Worker : Encoding(v) /\ Encoding(w) /\ task[v].s = task[w].s => v = w
  /\ \A w \in Worker, i \in DOMAIN tasks : Encoding(w) => task[w].s # tasks[i].s
  /\ \A i \in DOMAIN tasks : Submitted(tasks[i].s)
  /\ \A w \in Worker : Encoding(w) => Submitted(task[w].s)

\* What is queued is tasks.
LEMMA QueuedAreTasks ==
  ASSUME TypeInv
  PROVE  \A i \in DOMAIN tasks : tasks[i] \in Task
  <1>1. tasks \in Seq(Task)
    BY DEF TypeInv, TypeOK, PoolTypeOK
  <1> QED
    BY ONLY <1>1

\* The tasks and what is being encoded do not change, or shrink, and no strip
\* that was submitted becomes unsubmitted.
LEMMA NoTaskMoves ==
  ASSUME TypeInv, StripInv,
         UNCHANGED tasks,
         \A w \in Worker : Encoding(w)' => Encoding(w) /\ task'[w] = task[w],
         \A s \in Strip : Submitted(s) => Submitted(s)',
         mpc' \in {"idle", "concat", "dtorWait", "dtorStop", "dtorNotify", "dtorJoin", "dead"}
           => Quiet',
         mpc' \in {"wait", "concat"} => cur' = NumStrips
  PROVE  StripInv'
  <1>1. \A w \in Worker : Encoding(w) => task[w].s \in Strip
    BY DEF TypeInv, Control, Encoding, Task
  <1>2. \A i \in DOMAIN tasks : tasks[i].s \in Strip
    BY QueuedAreTasks DEF Task
  <1> QED
    BY <1>1, <1>2 DEF StripInv

\* The producer submits a strip it has not submitted before.
LEMMA ProducerStripInv ==
  ASSUME TypeInv, QuietAfterWait, StripInv, "submit" \notin ThrowAt,
         Producer \/ Caller \/ SpuriousFreeWakeup \/ UNCHANGED vars
  PROVE  StripInv'
  <1>w. wpc \in [Worker -> WorkerPC] /\ tasks \in Seq(Task) /\ NumStrips \in Nat
        /\ cur \in 0 .. NumStrips
    BY NumStripsAssumption DEF TypeInv, TypeOK, PoolTypeOK
  <1>q. ASSUME Quiet, ~Submit
        PROVE  Quiet'
    BY <1>q, QuietStays DEF Next, Spurious
  <1>1. CASE Submit
    <2> DEFINE t == [s |-> cur, b |-> held]
    <2>1. t \in Task /\ t.s = cur
      BY <1>1 DEF Submit, TypeInv, TypeOK, Control, Task
    <2>2. \A i \in DOMAIN tasks' :
            \/ i \in DOMAIN tasks /\ tasks'[i] = tasks[i]
            \/ i = Len(tasks) + 1 /\ i \notin DOMAIN tasks /\ tasks'[i] = t
      BY <1>w, <1>1, <2>1, AppendIndex DEF Submit, PushTask
    <2> HIDE DEF t
    <2>3. \A i \in DOMAIN tasks : tasks[i].s # cur
      BY <1>1, <1>w DEF Submit, StripInv, Submitted
    <2>4. \A w \in Worker : Encoding(w) => task[w].s # cur
      BY <1>1, <1>w DEF Submit, StripInv, Submitted
    <2>5. UNCHANGED <<cur, wpc, task, tpc>> /\ mpc' = "notify" /\ mpc = "submit"
      BY <1>1 DEF Submit, PushTask
    <2>6. \A s : Submitted(s)' <=> Submitted(s) \/ s = cur
      BY <2>5 DEF Submitted
    <2>7. \A w \in Worker : Encoding(w)' = Encoding(w)
      BY <2>5 DEF Encoding
    <2> QED
      BY <2>1, <2>2, <2>3, <2>4, <2>5, <2>6, <2>7 DEF StripInv
  <1>2. CASE SubmitNotify
    <2>1. \A w \in Worker : Encoding(w)' => Encoding(w) /\ task'[w] = task[w]
      BY <1>2, <1>w DEF SubmitNotify, NotifyOneWorker, Encoding
    <2>2. cur' = cur + 1 /\ mpc = "notify" /\ cur \in Strip
      BY <1>2 DEF SubmitNotify, TypeInv, Control
    <2>3. \A s \in Strip : Submitted(s) => Submitted(s)'
      BY <2>2, <1>w DEF Submitted, Strip
    <2>4. mpc' = "acquire" \/ (mpc' = "wait" /\ cur' = NumStrips)
      BY <1>2, <2>2, <1>w DEF SubmitNotify, Strip
    <2> QED
      BY <1>2, <2>1, <2>3, <2>4, NoTaskMoves DEF SubmitNotify, NotifyOneWorker
  <1>3. CASE Invoke
    <2>1. Quiet'
      BY <1>3, <1>q DEF Invoke, Submit, StripInv
    <2> QED
      BY <1>3, <2>1 DEF Invoke, StripInv, Quiet, Encoding
  <1>4. CASE AwaitTasks \/ DestructorStep
    <2>1. \A w \in Worker : Encoding(w)' => Encoding(w) /\ task'[w] = task[w]
      BY <1>4, <1>w DEF AwaitTasks, DestructorStep, WaitReturns, WaitBlocks, StopWorkers,
                        NotifyAllWorkers, poolVars, Encoding
    <2>2. UNCHANGED <<tasks, cur>> /\ ~Submit /\ mpc # "notify"
      BY <1>4 DEF AwaitTasks, DestructorStep, WaitReturns, WaitBlocks, StopWorkers,
                  NotifyAllWorkers, poolVars, Submit
    <2>3. QuietAfterWait'
      BY <1>4, NextQuietAfterWait DEF Producer, Next
    <2>4. mpc' = "dtorWait" => mpc = "dtorWait"
      BY <1>4 DEF AwaitTasks, DestructorStep
    <2>5. mpc' # "idle" /\ (mpc' \in {"wait", "concat"} => mpc = "wait")
      BY <1>4 DEF AwaitTasks, DestructorStep
    <2>6. mpc' = "dtorWait" => Quiet'
      BY <1>q, <2>2, <2>4 DEF StripInv
    <2> QED
      BY <2>1, <2>2, <2>3, <2>5, <2>6, NoTaskMoves DEF QuietAfterWait, StripInv, Submitted
  <1>5. CASE \/ GetCodestream \/ Destroy \/ AcquireBuffer \/ AwaitBuffer \/ ReadStrip
             \/ Concat \/ ConcatThrows \/ SpuriousFreeWakeup \/ UNCHANGED vars
    <2>1. UNCHANGED <<tasks, cur>> /\ ~Submit /\ (mpc' = "notify" <=> mpc = "notify")
      BY <1>5 DEF GetCodestream, Destroy, AcquireBuffer, AwaitBuffer, ReadStrip, Concat,
                  ConcatThrows, SpuriousFreeWakeup, poolVars, vars, clientVars, Submit
    <2>2. \A w \in Worker : Encoding(w)' => Encoding(w) /\ task'[w] = task[w]
      BY <1>5 DEF GetCodestream, Destroy, AcquireBuffer, AwaitBuffer, ReadStrip, Concat,
                  ConcatThrows, SpuriousFreeWakeup, poolVars, vars, clientVars, Encoding
    <2>3. mpc' = mpc \/ mpc' \in {"read", "submit"} \/ (mpc' = "idle" /\ mpc = "concat")
          \/ (mpc' = "dtorWait" /\ mpc = "idle")
      BY <1>5 DEF GetCodestream, Destroy, AcquireBuffer, AwaitBuffer, ReadStrip, Concat,
                  ConcatThrows, SpuriousFreeWakeup, vars, clientVars
    <2>4. mpc' \in {"idle", "concat", "dtorWait", "dtorStop", "dtorNotify", "dtorJoin", "dead"}
            => Quiet'
      BY <1>q, <2>1, <2>3 DEF StripInv
    <2>5. mpc' \in {"wait", "concat"} => cur' = NumStrips
      BY <2>1, <2>3 DEF StripInv
    <2> QED
      BY <2>1, <2>2, <2>4, <2>5, NoTaskMoves DEF Submitted
  <1> QED
    BY <1>1, <1>2, <1>3, <1>4, <1>5 DEF Producer, Caller, SubmitThrows

\* A worker moves a strip from the queue to itself, and never copies it.
LEMMA WorkerStripInv ==
  ASSUME TypeInv, StripInv, NEW w \in Worker, WorkerStep(w)
  PROVE  StripInv'
  <1>w. /\ wpc \in [Worker -> WorkerPC] /\ task \in [Worker -> Task \cup {NoTask}]
        /\ tasks \in Seq(Task) /\ tpc \in [Worker -> TaskPC]
    BY DEF TypeInv, TypeOK, PoolTypeOK
  <1>1. UNCHANGED <<mpc, cur>>
    BY DEF WorkerStep, clientVars, EncodeStrip, TaskThrows, ReleaseThrows, ReleaseBuffer, NotifyFree
  <1>2. Quiet => Quiet'
    BY QuietStays DEF Next, WorkerStep, clientVars, EncodeStrip, TaskThrows, ReleaseThrows, ReleaseBuffer,
                      NotifyFree, Submit
  <1>3. CASE \/ EncodeStrip(w) \/ TaskThrows(w)
             \/ ReleaseBuffer(w) \/ ReleaseThrows(w) \/ NotifyFree(w)
    <2>1. UNCHANGED tasks /\ \A v \in Worker : Encoding(v)' => Encoding(v) /\ task'[v] = task[v]
      BY <1>3, <1>w DEF EncodeStrip, TaskThrows, ReleaseThrows, ReleaseBuffer, NotifyFree, TaskEnds, Encoding,
                        poolVars, TaskPC
    <2> QED
      BY <1>1, <1>2, <2>1, NoTaskMoves DEF StripInv, Submitted
  <1>4. CASE (LoopTop(w) \/ WokenWorker(w)) /\ UNCHANGED clientVars
    <2>1. CASE /\ tasks # <<>> /\ tasks' = Tail(tasks)
               /\ task' = [task EXCEPT ![w] = Head(tasks)]
               /\ wpc' = [wpc EXCEPT ![w] = "running"]
      <3>1. /\ task'[w] = tasks[1] /\ 1 \in DOMAIN tasks
            /\ \A i \in DOMAIN tasks' :
                 i + 1 \in DOMAIN tasks /\ i + 1 # 1 /\ tasks'[i] = tasks[i+1]
            /\ \A i, j \in DOMAIN tasks' : i + 1 = j + 1 => i = j
        BY <1>w, <2>1, TailIndex
      <3>2. \A v \in Worker : \/ v = w
                              \/ task'[v] = task[v] /\ Encoding(v)' = Encoding(v)
        BY <1>w, <1>4, <2>1 DEF Encoding, clientVars
      <3>3. \A s : Submitted(s)' = Submitted(s)
        BY <1>1 DEF Submitted
      <3> QED
        BY <1>1, <1>2, <3>1, <3>2, <3>3 DEF StripInv
    <2>2. CASE /\ UNCHANGED <<tasks, task>>
               /\ \/ wpc' = [wpc EXCEPT ![w] = "blocked"]
                  \/ wpc' = [wpc EXCEPT ![w] = "exited"]
      <3>1. \A v \in Worker : Encoding(v)' => Encoding(v)
        BY <1>w, <1>4, <2>2 DEF Encoding, clientVars
      <3> QED
        BY <1>1, <1>2, <2>2, <3>1, NoTaskMoves DEF StripInv, Submitted
    <2> QED
      BY <1>4, <2>1, <2>2 DEF LoopTop, WokenWorker, FetchOrSleep
  <1> QED
    BY <1>3, <1>4 DEF WorkerStep

\* No step leaves a strip outstanding twice.
LEMMA NextStripInv ==
  ASSUME "submit" \notin ThrowAt, TypeInv, QuietAfterWait, StripInv, [Next]_vars
  PROVE  StripInv'
  <1>1. CASE Producer \/ Caller \/ SpuriousFreeWakeup \/ Dead \/ UNCHANGED vars
    BY <1>1, ProducerStripInv DEF Dead
  <1>2. CASE \E w \in Worker : WorkerStep(w)
    BY <1>2, WorkerStripInv
  <1>3. CASE (SpuriousWaitWakeup \/ \E w \in Worker : SpuriousWorkerWakeup(w)) /\ UNCHANGED clientVars
    <2>1. UNCHANGED <<tasks, mpc, cur>> /\ ~Submit
      BY <1>3 DEF SpuriousWaitWakeup, SpuriousWorkerWakeup, clientVars, Submit
    <2>2. \A v \in Worker : Encoding(v)' => Encoding(v) /\ task'[v] = task[v]
      BY <1>3 DEF SpuriousWaitWakeup, SpuriousWorkerWakeup, clientVars, Encoding, TypeInv, TypeOK,
                  PoolTypeOK
    <2>3. Quiet => Quiet'
      BY <2>1, QuietStays
    <2> QED
      BY <2>1, <2>2, <2>3, NoTaskMoves DEF StripInv, Submitted
  <1> QED
    BY <1>1, <1>2, <1>3 DEF Next, Spurious

\* As long as detach_task does not throw, no two tasks are for one strip, and
\* none is left when the producer is between calls or concatenates.
THEOREM StripsExclusive ==
  ASSUME "submit" \notin ThrowAt
  PROVE  Spec => []StripExclusive
  <1> DEFINE Inv == TypeInv /\ QuietAfterWait /\ StripInv
  <1>1. Init => Inv
    <2> SUFFICES ASSUME Init PROVE Inv
      OBVIOUS
    <2>1. TypeInv
      BY InitTypeInv
    <2> QED
      BY <2>1 DEF Init, PoolInit, QuietAfterWait, StripInv, Quiet, Encoding
  <1>2. Inv /\ [Next]_vars => Inv'
    BY NextTypeInv, NextQuietAfterWait, NextStripInv
  <1>3. Inv => StripExclusive
    BY DEF StripInv, StripExclusive, Quiet
  <1> QED
    BY <1>1, <1>2, <1>3, PTL DEF Spec

-----------------------------------------------------------------------------
(* No buffer is lost. *)

\* The four places of a buffer.
Placed(b) ==
  \/ \E i \in DOMAIN free_idx : free_idx[i] = b
  \/ held = b
  \/ \E i \in DOMAIN tasks : tasks[i].b = b
  \/ \E w \in Worker : OwnsBuffer(w) /\ task[w].b = b

NoneLost == \A b \in Buffer : Placed(b)

\* A step that moves no buffer.
LEMMA PlacesStay ==
  ASSUME NoneLost, UNCHANGED <<free_idx, held, tasks, task>>,
         \A w \in Worker : OwnsBuffer(w) => OwnsBuffer(w)'
  PROVE  NoneLost'
  BY DEF NoneLost, Placed

\* A buffer the producer takes it holds, and hands over with its task.
LEMMA ProducerKeepsAll ==
  ASSUME TypeInv, NoneLost, AcquireBuffer \/ Submit
  PROVE  NoneLost'
  <1> SUFFICES ASSUME NEW b \in Buffer  PROVE Placed(b)'
    BY DEF NoneLost
  <1>1. Placed(b) /\ b # NoBuffer
    BY EncoderAssumption DEF NoneLost, Buffer, NoBuffer
  <1>2. CASE AcquireBuffer
    <2>1. /\ free_idx \in Seq(Buffer) /\ free_idx # <<>> /\ held = NoBuffer
          /\ free_idx' = Tail(free_idx) /\ held' = Head(free_idx)
          /\ UNCHANGED <<tasks, task, wpc, tpc>>
      BY <1>2 DEF TypeInv, TypeOK, Control, AcquireBuffer, poolVars
    <2>2. CASE \E i \in DOMAIN free_idx : free_idx[i] = b
      <3>1. PICK i \in DOMAIN free_idx : free_idx[i] = b
        BY <2>2
      <3>2. CASE i = 1
        BY <2>1, <3>1, <3>2 DEF Placed
      <3>3. CASE i # 1
        <4>1. i - 1 \in DOMAIN free_idx' /\ free_idx'[i-1] = b
          BY <2>1, <3>1, <3>3
        <4> QED
          BY <4>1 DEF Placed
      <3> QED
        BY <3>2, <3>3
    <2>3. CASE ~ \E i \in DOMAIN free_idx : free_idx[i] = b
      BY <1>1, <2>1, <2>3 DEF Placed, OwnsBuffer
    <2> QED
      BY <2>2, <2>3
  <1>3. CASE Submit
    <2> DEFINE t == [s |-> cur, b |-> held]
    <2>1. /\ tasks \in Seq(Task) /\ t \in Task /\ tasks' = Append(tasks, t)
          /\ UNCHANGED <<free_idx, task, wpc, tpc>>
      BY <1>3 DEF TypeInv, TypeOK, PoolTypeOK, Control, Task, Submit, PushTask
    <2>2. t.b = held
      OBVIOUS
    <2> HIDE DEF t
    <2>3. CASE held = b
      <3>1. Len(tasks) + 1 \in DOMAIN tasks' /\ tasks'[Len(tasks) + 1] = t
        BY <2>1
      <3> QED
        BY <2>2, <2>3, <3>1 DEF Placed
    <2>4. \A i \in DOMAIN tasks : i \in DOMAIN tasks' /\ tasks'[i] = tasks[i]
      BY <2>1
    <2> QED
      BY <1>1, <2>1, <2>3, <2>4 DEF Placed, OwnsBuffer
  <1> QED
    BY <1>2, <1>3

\* A task that does not throw gives its buffer back.
LEMMA WorkerKeepsAll ==
  ASSUME TypeInv, NoneLost, ThrowAt \cap {"task", "release"} = {}, NEW w \in Worker, WorkerStep(w)
  PROVE  NoneLost'
  <1>w. /\ wpc \in [Worker -> WorkerPC] /\ tpc \in [Worker -> TaskPC]
        /\ task \in [Worker -> Task \cup {NoTask}] /\ tasks \in Seq(Task) /\ free_idx \in Seq(Buffer)
    BY DEF TypeInv, TypeOK, PoolTypeOK
  <1>1. CASE (LoopTop(w) \/ WokenWorker(w)) /\ UNCHANGED clientVars
    <2>1. wpc[w] # "running" /\ tpc[w] = "encode" /\ UNCHANGED <<free_idx, held, tpc>>
      BY <1>1 DEF TypeInv, Control, LoopTop, WokenWorker, clientVars
    <2>2. CASE /\ UNCHANGED <<tasks, task>>
               /\ \/ wpc' = [wpc EXCEPT ![w] = "blocked"]
                  \/ wpc' = [wpc EXCEPT ![w] = "exited"]
      <3>1. \A v \in Worker : OwnsBuffer(v) => OwnsBuffer(v)'
        BY <1>w, <2>1, <2>2 DEF OwnsBuffer
      <3> QED
        BY <2>1, <2>2, <3>1, PlacesStay
    <2>3. CASE /\ tasks # <<>> /\ tasks' = Tail(tasks)
               /\ task' = [task EXCEPT ![w] = Head(tasks)]
               /\ wpc' = [wpc EXCEPT ![w] = "running"]
      <3> SUFFICES ASSUME NEW b \in Buffer  PROVE Placed(b)'
        BY DEF NoneLost
      <3>1. OwnsBuffer(w)' /\ task'[w] = tasks[1]
        BY <1>w, <2>1, <2>3 DEF OwnsBuffer
      <3>2. \A v \in Worker : OwnsBuffer(v) => OwnsBuffer(v)' /\ task'[v] = task[v]
        BY <1>w, <2>1, <2>3 DEF OwnsBuffer
      <3>3. CASE \E i \in DOMAIN tasks : tasks[i].b = b
        <4>1. PICK i \in DOMAIN tasks : tasks[i].b = b
          BY <3>3
        <4>2. CASE i = 1
          BY <3>1, <4>1, <4>2 DEF Placed
        <4>3. CASE i # 1
          <5>1. i - 1 \in DOMAIN tasks' /\ tasks'[i-1] = tasks[i]
            BY <1>w, <2>3, <4>1, <4>3
          <5> QED
            BY <4>1, <5>1 DEF Placed
        <4> QED
          BY <4>2, <4>3
      <3>4. CASE ~ \E i \in DOMAIN tasks : tasks[i].b = b
        BY <2>1, <3>2, <3>4 DEF NoneLost, Placed
      <3> QED
        BY <3>3, <3>4
    <2> QED
      BY <1>1, <2>2, <2>3 DEF LoopTop, WokenWorker, FetchOrSleep
  <1>2. CASE EncodeStrip(w)
    <2>1. /\ UNCHANGED <<free_idx, held, tasks, task>>
          /\ \A v \in Worker : OwnsBuffer(v) => OwnsBuffer(v)'
      BY <1>w, <1>2 DEF EncodeStrip, poolVars, OwnsBuffer
    <2> QED
      BY <2>1, PlacesStay
  <1>3. CASE ReleaseBuffer(w)
    <2> SUFFICES ASSUME NEW b \in Buffer  PROVE Placed(b)'
      BY DEF NoneLost
    <2>1. /\ free_idx' = Append(free_idx, task[w].b) /\ task[w].b \in Buffer
          /\ UNCHANGED <<held, tasks, task>>
          /\ \A v \in Worker : OwnsBuffer(v) /\ v # w => OwnsBuffer(v)'
      BY <1>w, <1>3 DEF ReleaseBuffer, poolVars, OwnsBuffer, TypeInv, Control, Task
    <2>2. /\ \A i \in DOMAIN free_idx : i \in DOMAIN free_idx' /\ free_idx'[i] = free_idx[i]
          /\ Len(free_idx) + 1 \in DOMAIN free_idx' /\ free_idx'[Len(free_idx) + 1] = task[w].b
      BY <1>w, <2>1
    <2> QED
      BY <2>1, <2>2 DEF NoneLost, Placed
  <1>4. CASE NotifyFree(w)
    <2>1. ~ OwnsBuffer(w) /\ UNCHANGED <<free_idx, held, tasks>>
      BY <1>4 DEF NotifyFree, OwnsBuffer
    <2>2. \A v \in Worker : OwnsBuffer(v) => OwnsBuffer(v)' /\ task'[v] = task[v]
      BY <1>w, <1>4, <2>1 DEF NotifyFree, TaskEnds, OwnsBuffer
    <2> QED
      BY <2>1, <2>2 DEF NoneLost, Placed
  <1> QED
    BY <1>1, <1>2, <1>3, <1>4 DEF WorkerStep, TaskThrows, ReleaseThrows

\* As long as no task or submission throws, no step loses a buffer.
LEMMA NextNoneLost ==
  ASSUME TypeInv, NoneLost, ThrowAt \subseteq {"concat"}, [Next]_vars
  PROVE  NoneLost'
  <1>w. wpc \in [Worker -> WorkerPC]
    BY DEF TypeInv, TypeOK, PoolTypeOK
  <1> USE DEF poolVars, OwnsBuffer
  <1>1. CASE Caller \/ SpuriousFreeWakeup \/ Dead \/ UNCHANGED vars
    BY <1>1, PlacesStay DEF Caller, Invoke, GetCodestream, Destroy, SpuriousFreeWakeup, Dead,
                            vars, clientVars
  <1>2. CASE AcquireBuffer \/ Submit
    BY <1>2, ProducerKeepsAll
  <1>3. CASE AwaitBuffer \/ ReadStrip \/ Concat \/ ConcatThrows
    BY <1>3, PlacesStay DEF AwaitBuffer, ReadStrip, Concat, ConcatThrows
  <1>4. CASE SubmitNotify
    <2>1. /\ UNCHANGED <<free_idx, held, tasks, task>>
          /\ \A w \in Worker : OwnsBuffer(w) => OwnsBuffer(w)'
      BY <1>w, <1>4 DEF SubmitNotify, NotifyOneWorker
    <2> QED
      BY <2>1, PlacesStay
  <1>5. CASE AwaitTasks
    BY <1>5, PlacesStay DEF AwaitTasks, WaitReturns, WaitBlocks
  <1>6. CASE DestructorStep
    <2>1. /\ UNCHANGED <<free_idx, held, tasks, task>>
          /\ \A w \in Worker : OwnsBuffer(w) => OwnsBuffer(w)'
      BY <1>w, <1>6 DEF DestructorStep, WaitReturns, WaitBlocks, StopWorkers, NotifyAllWorkers
    <2> QED
      BY <2>1, PlacesStay
  <1>7. CASE \E w \in Worker : WorkerStep(w)
    BY <1>7, WorkerKeepsAll
  <1>8. CASE (SpuriousWaitWakeup \/ \E w \in Worker : SpuriousWorkerWakeup(w)) /\ UNCHANGED clientVars
    <2>1. /\ UNCHANGED <<free_idx, held, tasks, task>>
          /\ \A w \in Worker : OwnsBuffer(w) => OwnsBuffer(w)'
      BY <1>w, <1>8 DEF SpuriousWaitWakeup, SpuriousWorkerWakeup, clientVars
    <2> QED
      BY <2>1, PlacesStay
  <1>9. ~ SubmitThrows
    BY DEF SubmitThrows
  <1> QED
    BY <1>1, <1>2, <1>3, <1>4, <1>5, <1>6, <1>7, <1>8, <1>9 DEF Next, Producer, Spurious

\* As long as neither a task nor detach_task throws, every buffer is back in the free
\* queue between calls, after any number of strips and calls and for any number of
\* workers ("Recycled across strips and across invoke() calls", jpegenc.cpp:43-44).
THEOREM AllRecycled ==
  ASSUME ThrowAt \subseteq {"concat"}
  PROVE  Spec => []BuffersRecycled
  <1> DEFINE Inv == TypeInv /\ QuietAfterWait /\ StripInv /\ NoneLost
  <1>1. Init => Inv
    <2> SUFFICES ASSUME Init PROVE Inv
      OBVIOUS
    <2>1. TypeInv
      BY InitTypeInv
    <2>2. NoneLost
      <3>1. \A b \in Buffer : b + 1 \in DOMAIN free_idx /\ free_idx[b+1] = b
        BY EncoderAssumption DEF Init, Buffer
      <3> QED
        BY <3>1 DEF NoneLost, Placed
    <2> QED
      BY <2>1, <2>2 DEF Init, PoolInit, QuietAfterWait, StripInv, Quiet, Encoding
  <1>2. Inv /\ [Next]_vars => Inv'
    BY NextTypeInv, NextQuietAfterWait, NextStripInv, NextNoneLost
  <1>3. Inv => BuffersRecycled
    <2> SUFFICES ASSUME Inv, mpc = "idle", NEW b \in Buffer
                 PROVE  \E i \in DOMAIN free_idx : free_idx[i] = b
      BY DEF BuffersRecycled
    <2>1. Quiet /\ held = NoBuffer
      BY DEF StripInv, TypeInv, Control
    <2>2. b # NoBuffer
      BY EncoderAssumption DEF Buffer, NoBuffer
    <2> QED
      BY <2>1, <2>2 DEF NoneLost, Placed, Quiet, OwnsBuffer
  <1> QED
    BY <1>1, <1>2, <1>3, PTL DEF Spec

-----------------------------------------------------------------------------
(* Each strip is encoded exactly once. *)

Outstanding(s) ==
  \/ \E i \in DOMAIN tasks : tasks[i].s = s
  \/ \E w \in Worker : Encoding(w) /\ task[w].s = s

InCall == mpc \in {"acquire", "read", "submit", "notify", "wait", "concat"}

Encoded(s) == InCall /\ Submitted(s) /\ ~Outstanding(s)

Complete(s) ==
  <<Scan(s, s, NoStrip)>> \o IF s = NumStrips - 1 THEN <<>> ELSE <<RST(s % 8)>>

ContentInv ==
  throws = 0 => \A s \in Strip : strip_cs[s] = IF Encoded(s) THEN Complete(s) ELSE <<>>

StreamInv == BufferInv /\ QuietAfterWait /\ StripInv /\ ContentInv

\* A step that encodes nothing and submits nothing.
LEMMA NothingEncoded ==
  ASSUME ContentInv, UNCHANGED <<throws, strip_cs>>,
         \A s \in Strip : Encoded(s)' = Encoded(s)
  PROVE  ContentInv'
  BY DEF ContentInv, Complete

\* The task that encodes a strip completes the stream of that strip alone.
LEMMA EncodeContent ==
  ASSUME BufferInv, StripInv, ContentInv, NEW w \in Worker, EncodeStrip(w)
  PROVE  ContentInv'
  <1> SUFFICES ASSUME throws = 0, NEW s \in Strip
               PROVE  strip_cs'[s] = IF Encoded(s)' THEN Complete(s) ELSE <<>>
    BY DEF ContentInv, Complete, EncodeStrip
  <1> DEFINE t == task[w]
  <1>1. /\ Encoding(w) /\ t \in Task /\ t.s \in Strip /\ input[t.b] = t.s
        /\ strip_cs \in [Strip -> Seq(Item)] /\ tpc \in [Worker -> TaskPC]
    BY DEF EncodeStrip, Encoding, BufferInv, TypeInv, TypeOK, Control, Task, BufferExclusive, RightRows
  <1>0. Outstanding(t.s) /\ Submitted(t.s) /\ InCall
    <2>1. ~Quiet
      BY <1>1 DEF Quiet, Encoding
    <2> QED
      BY <1>1, <2>1 DEF Outstanding, StripInv, InCall, BufferInv, TypeInv, TypeOK, MainPC
  <1>e. strip_cs[t.s] = <<>>
    BY <1>0, <1>1 DEF ContentInv, Encoded
  <1>2. Written(w) = {EncodedStrip(t)}
    BY <1>1, <1>e DEF Written, StripInv, Encoding
  <1>3. EncodedStrip(t) = Complete(t.s)
    <2> DEFINE k == t.s
    <2>0. k \in 0 .. NumStrips - 1 /\ NumStrips \in Nat
      BY <1>1, NumStripsAssumption DEF Strip
    <2> HIDE DEF k
    <2>1. k + 1 < NumStrips <=> k # NumStrips - 1
      BY ONLY <2>0
    <2>2. CASE k = NumStrips - 1
      BY <1>1, <2>1, <2>2, Zenon DEF EncodedStrip, Complete, k
    <2>3. CASE k # NumStrips - 1
      BY <1>1, <2>1, <2>3, Zenon DEF EncodedStrip, Complete, k
    <2> QED
      BY <2>2, <2>3
  <1>4. strip_cs' = [strip_cs EXCEPT ![t.s] = @ \o Complete(t.s)]
    BY <1>2, <1>3 DEF EncodeStrip
  <1>5. /\ UNCHANGED <<tasks, task, wpc, mpc, cur, throws>>
        /\ ~Encoding(w)'
        /\ \A v \in Worker : v # w => Encoding(v)' = Encoding(v)
    BY <1>1 DEF EncodeStrip, poolVars, Encoding
  <1>6. CASE s = t.s
    <2>1. Outstanding(s) /\ Submitted(s) /\ InCall
      BY <1>0, <1>6
    <2>2. strip_cs[s] = <<>>
      BY <1>e, <1>6
    <2>3. Complete(s) \in Seq(Item)
      BY <1>1, <1>3, <1>6, ItemTypes DEF BufferInv, TypeInv, TypeOK
    <2>4. strip_cs'[s] = Complete(s)
      BY <1>1, <1>4, <1>6, <2>2, <2>3, ConcatEmptySeq
    <2>5. ~Outstanding(s)'
      BY <1>1, <1>5, <1>6 DEF Outstanding, StripInv
    <2> QED
      BY <1>5, <2>1, <2>4, <2>5 DEF Encoded, Submitted, InCall
  <1>7. CASE s # t.s
    <2>1. strip_cs'[s] = strip_cs[s]
      BY <1>1, <1>4, <1>7
    <2>2. Outstanding(s)' = Outstanding(s)
      BY <1>1, <1>5, <1>7 DEF Outstanding
    <2>3. Encoded(s)' = Encoded(s)
      BY <1>5, <2>2 DEF Encoded, Submitted, InCall
    <2> QED
      BY <2>1, <2>3 DEF ContentInv
  <1> QED
    BY <1>6, <1>7

\* Every step of a worker keeps a stream complete exactly where a strip is encoded.
LEMMA WorkerContent ==
  ASSUME BufferInv, StripInv, ContentInv, NEW w \in Worker, WorkerStep(w)
  PROVE  ContentInv'
  <1>w. /\ wpc \in [Worker -> WorkerPC] /\ task \in [Worker -> Task \cup {NoTask}]
        /\ tasks \in Seq(Task) /\ tpc \in [Worker -> TaskPC] /\ throws \in Nat
        /\ wpc[w] # "running" => tpc[w] = "encode"
    BY DEF BufferInv, TypeInv, TypeOK, PoolTypeOK, Control
  <1>1. CASE EncodeStrip(w)
    BY <1>1, EncodeContent
  <1>2. CASE TaskThrows(w) \/ ReleaseThrows(w)
    BY <1>2, <1>w DEF TaskThrows, ReleaseThrows, ContentInv
  <1>3. CASE ReleaseBuffer(w) \/ NotifyFree(w)
    <2>1. /\ UNCHANGED <<tasks, throws, strip_cs, mpc, cur>>
          /\ \A v \in Worker : Encoding(v)' = Encoding(v) /\ (Encoding(v) => task'[v] = task[v])
      BY <1>3, <1>w DEF ReleaseBuffer, NotifyFree, TaskEnds, Encoding, poolVars, TaskPC
    <2>2. \A s \in Strip : Encoded(s)' = Encoded(s)
      BY <2>1 DEF Encoded, Outstanding, Submitted, InCall
    <2> QED
      BY <2>1, <2>2, NothingEncoded
  <1>4. CASE (LoopTop(w) \/ WokenWorker(w)) /\ UNCHANGED clientVars
    <2>1. UNCHANGED <<throws, strip_cs, mpc, cur, tpc>> /\ wpc[w] # "running"
      BY <1>4 DEF clientVars, LoopTop, WokenWorker
    <2>2. \A s \in Strip : Outstanding(s)' = Outstanding(s)
      <3>1. CASE /\ tasks # <<>> /\ tasks' = Tail(tasks)
                 /\ task' = [task EXCEPT ![w] = Head(tasks)]
                 /\ wpc' = [wpc EXCEPT ![w] = "running"]
        <4>1. /\ task'[w] = tasks[1]
              /\ DOMAIN tasks = 1 .. Len(tasks) /\ Len(tasks) \in Nat \ {0}
              /\ DOMAIN tasks' = 1 .. Len(tasks) - 1
              /\ \A i \in DOMAIN tasks' : tasks'[i] = tasks[i+1]
          BY <1>w, <3>1
        <4>2. \A i \in DOMAIN tasks : i = 1 \/ (i - 1 \in DOMAIN tasks' /\ tasks'[i-1] = tasks[i])
          BY <4>1
        <4>3. \A i \in DOMAIN tasks' : i + 1 \in DOMAIN tasks
          BY <4>1
        <4>4. Encoding(w)' /\ ~Encoding(w)
          BY <1>w, <2>1, <3>1 DEF Encoding
        <4>5. \A v \in Worker : v = w \/ (task'[v] = task[v] /\ Encoding(v)' = Encoding(v))
          BY <1>w, <2>1, <3>1 DEF Encoding
        <4>6. \A s \in Strip : Outstanding(s) => Outstanding(s)'
          BY <4>1, <4>2, <4>4, <4>5 DEF Outstanding
        <4>7. 1 \in DOMAIN tasks
          BY <4>1
        <4>8. \A s \in Strip : Outstanding(s)' => Outstanding(s)
          BY <4>1, <4>3, <4>4, <4>5, <4>7 DEF Outstanding
        <4> QED
          BY <4>6, <4>8 DEF Outstanding
      <3>2. CASE /\ UNCHANGED <<tasks, task>>
                 /\ \/ wpc' = [wpc EXCEPT ![w] = "blocked"]
                    \/ wpc' = [wpc EXCEPT ![w] = "exited"]
        <4>1. \A v \in Worker : Encoding(v)' = Encoding(v)
          BY <1>w, <2>1, <3>2 DEF Encoding
        <4> QED
          BY <3>2, <4>1 DEF Outstanding
      <3> QED
        BY <1>4, <3>1, <3>2 DEF LoopTop, WokenWorker, FetchOrSleep
    <2>3. \A s \in Strip : Encoded(s)' = Encoded(s)
      BY <2>1, <2>2 DEF Encoded, Submitted, InCall
    <2> QED
      BY <2>1, <2>3, NothingEncoded
  <1> QED
    BY <1>1, <1>2, <1>3, <1>4 DEF WorkerStep

\* Every step of the producer keeps a stream complete exactly where a strip is
\* encoded.
LEMMA ProducerContent ==
  ASSUME BufferInv, StripInv, ContentInv,
         Producer \/ Caller \/ SpuriousFreeWakeup \/ UNCHANGED vars
  PROVE  ContentInv'
  <1>w. /\ wpc \in [Worker -> WorkerPC] /\ tasks \in Seq(Task) /\ throws \in Nat
        /\ NumStrips \in Nat
    BY NumStripsAssumption DEF BufferInv, TypeInv, TypeOK, PoolTypeOK
  <1>1. CASE SubmitThrows \/ ConcatThrows
    BY <1>1, <1>w DEF SubmitThrows, ConcatThrows, ContentInv
  <1>2. CASE Submit
    <2> DEFINE t == [s |-> cur, b |-> held]
    <2>1. t \in Task /\ t.s = cur /\ cur \in Strip
      BY <1>2 DEF Submit, BufferInv, TypeInv, TypeOK, Control, Task
    <2>2. /\ \A i \in DOMAIN tasks' :
               \/ i \in DOMAIN tasks /\ tasks'[i] = tasks[i]
               \/ i = Len(tasks) + 1 /\ i \notin DOMAIN tasks /\ tasks'[i] = t
          /\ \A i \in DOMAIN tasks : i \in DOMAIN tasks' /\ tasks'[i] = tasks[i]
          /\ Len(tasks) + 1 \in DOMAIN tasks' /\ tasks'[Len(tasks) + 1] = t
      BY <1>w, <1>2, <2>1, AppendIndex, AppendProperties DEF Submit, PushTask
    <2> HIDE DEF t
    <2>3. UNCHANGED <<cur, wpc, task, tpc, throws, strip_cs>> /\ mpc' = "notify" /\ mpc = "submit"
      BY <1>2 DEF Submit, PushTask
    <2>4. \A s \in Strip : Outstanding(s)' <=> Outstanding(s) \/ s = cur
      BY <2>1, <2>2, <2>3 DEF Outstanding, Encoding
    <2>5. \A s \in Strip : Submitted(s)' <=> Submitted(s) \/ s = cur
      BY <2>3 DEF Submitted
    <2>6. ~Submitted(cur)
      BY <2>1, <2>3 DEF Submitted, Strip
    <2>7. \A s \in Strip : Encoded(s)' = Encoded(s)
      BY <2>3, <2>4, <2>5, <2>6 DEF Encoded, InCall, Submitted, Outstanding
    <2> QED
      BY <2>3, <2>7, NothingEncoded
  <1>3. CASE SubmitNotify
    <2>1. \A w \in Worker : Encoding(w)' = Encoding(w)
      BY <1>3, <1>w DEF SubmitNotify, NotifyOneWorker, Encoding
    <2>2. cur' = cur + 1 /\ mpc = "notify" /\ cur \in Strip /\ mpc' \in {"acquire", "wait"}
      BY <1>3 DEF SubmitNotify, BufferInv, TypeInv, Control
    <2>3. \A s \in Strip : Submitted(s)' <=> Submitted(s)
      BY <2>2 DEF Submitted, Strip
    <2>4. UNCHANGED <<tasks, task, throws, strip_cs>>
      BY <1>3 DEF SubmitNotify, NotifyOneWorker
    <2>5. \A s \in Strip : Encoded(s)' = Encoded(s)
      BY <2>1, <2>2, <2>3, <2>4 DEF Encoded, InCall, Outstanding, Submitted
    <2> QED
      BY <2>4, <2>5, NothingEncoded
  <1>4. CASE Invoke
    <2>1. \A s \in Strip : ~Encoded(s) /\ ~Encoded(s)'
      BY <1>4 DEF Invoke, Encoded, InCall, Submitted, Strip
    <2>2. \A s \in Strip : Encoded(s)' = Encoded(s)
      BY <2>1 DEF Encoded
    <2>3. UNCHANGED <<throws, strip_cs>>
      BY <1>4 DEF Invoke
    <2> QED
      BY <2>2, <2>3, NothingEncoded
  <1>5. CASE Concat
    BY <1>5 DEF Concat, ContentInv, Encoded, InCall
  <1>6. CASE DestructorStep \/ GetCodestream \/ Destroy
    <2>1. ~InCall /\ ~InCall' /\ UNCHANGED <<throws, strip_cs>>
      BY <1>6 DEF DestructorStep, GetCodestream, Destroy, InCall
    <2> QED
      BY <2>1, NothingEncoded DEF Encoded
  <1>7. CASE \/ AcquireBuffer \/ AwaitBuffer \/ ReadStrip \/ AwaitTasks \/ SpuriousFreeWakeup
             \/ UNCHANGED vars
    <2>1. UNCHANGED <<tasks, wpc, task, tpc, cur, throws, strip_cs>>
      BY <1>7 DEF AcquireBuffer, AwaitBuffer, ReadStrip, AwaitTasks, WaitReturns, WaitBlocks,
                  SpuriousFreeWakeup, poolVars, vars, clientVars
    <2>2. (InCall' <=> InCall) /\ (mpc' = "notify" <=> mpc = "notify")
      BY <1>7 DEF AcquireBuffer, AwaitBuffer, ReadStrip, AwaitTasks, SpuriousFreeWakeup, vars,
                  clientVars, InCall
    <2>3. \A s \in Strip : Encoded(s)' = Encoded(s)
      BY <2>1, <2>2 DEF Encoded, Outstanding, Submitted, Encoding
    <2> QED
      BY <2>1, <2>3, NothingEncoded
  <1> QED
    BY <1>1, <1>2, <1>3, <1>4, <1>5, <1>6, <1>7 DEF Producer, Caller

\* In every step a strip has its complete stream once it is encoded, and none
\* before.
LEMMA NextContentInv ==
  ASSUME BufferInv, StripInv, ContentInv, [Next]_vars
  PROVE  ContentInv'
  <1>1. CASE Producer \/ Caller \/ SpuriousFreeWakeup \/ Dead \/ UNCHANGED vars
    BY <1>1, ProducerContent DEF Dead
  <1>2. CASE \E w \in Worker : WorkerStep(w)
    BY <1>2, WorkerContent
  <1>3. CASE (SpuriousWaitWakeup \/ \E w \in Worker : SpuriousWorkerWakeup(w)) /\ UNCHANGED clientVars
    <2>1. /\ UNCHANGED <<tasks, task, mpc, cur, throws, strip_cs>>
          /\ \A v \in Worker : Encoding(v)' = Encoding(v)
      BY <1>3 DEF SpuriousWaitWakeup, SpuriousWorkerWakeup, clientVars, Encoding, BufferInv, TypeInv,
                  TypeOK, PoolTypeOK
    <2>2. \A s \in Strip : Encoded(s)' = Encoded(s)
      BY <2>1 DEF Encoded, Outstanding, Submitted, InCall
    <2> QED
      BY <2>1, <2>2, NothingEncoded
  <1> QED
    BY <1>1, <1>2, <1>3 DEF Next, Spurious

\* When the producer concatenates and nothing was thrown, every stream is
\* complete.
LEMMA ConcatIsComplete ==
  ASSUME StreamInv, mpc = "concat", throws = 0
  PROVE  /\ strip_cs \in [Strip -> Seq(Item)]
         /\ \A s \in Strip : strip_cs[s] = Complete(s)
  <1>1. Quiet /\ cur = NumStrips
    BY DEF StreamInv, StripInv
  <1>2. \A s \in Strip : Encoded(s)
    BY <1>1, NumStripsAssumption DEF Encoded, InCall, Submitted, Outstanding, Quiet, Encoding, Strip
  <1>3. strip_cs \in [Strip -> Seq(Item)]
    BY DEF StreamInv, BufferInv, TypeInv, TypeOK
  <1> QED
    BY <1>2, <1>3 DEF StreamInv, ContentInv

\* The invariant of the strips and their streams holds at the start.
LEMMA InitStreamInv == Init => StreamInv
  <1> SUFFICES ASSUME Init PROVE StreamInv
    OBVIOUS
  <1>1. BufferInv
    BY InitBufferInv
  <1> QED
    BY <1>1 DEF Init, PoolInit, StreamInv, QuietAfterWait, StripInv, Quiet, Encoding,
                ContentInv, Encoded, InCall

\* Every step keeps the invariant of the strips and their streams.
LEMMA NextStreamInv ==
  ASSUME "submit" \notin ThrowAt, StreamInv, [Next]_vars
  PROVE  StreamInv'
  BY NextTypeInv, NextBufferInv, NextQuietAfterWait, NextStripInv, NextContentInv
     DEF StreamInv, BufferInv

\* As long as nothing is thrown, the streams the producer concatenates hold every
\* strip once, coded from its own rows, with the restart marker it is due.
THEOREM StripsAreComplete ==
  ASSUME "submit" \notin ThrowAt
  PROVE  Spec => []StripsComplete
  <1>1. StreamInv => StripsComplete
    BY ConcatIsComplete DEF StripsComplete, Complete
  <1>2. StreamInv /\ [Next]_vars => StreamInv'
    BY NextStreamInv
  <1> QED
    BY InitStreamInv, <1>1, <1>2, PTL DEF Spec

-----------------------------------------------------------------------------
(* What the producer concatenates decodes. *)

\* The p-th item after the header: strips at the odd places, each between them the
\* restart marker the strip before it is due.
Symbol(p) == IF p % 2 = 1 THEN Scan((p - 1) \div 2, (p - 1) \div 2, NoStrip)
                          ELSE RST((p \div 2 - 1) % 8)
Body(m) == [p \in 1 .. m |-> Symbol(p)]
AllSymbols == {Symbol(p) : p \in Nat}

\* The two items of strip s: its scan, and the marker it is due.
LEMMA SymbolAt ==
  ASSUME NEW s \in Nat
  PROVE  Symbol(2 * s + 1) = Scan(s, s, NoStrip) /\ Symbol(2 * s + 2) = RST(s % 8)
  <1>1. /\ (2 * s + 1) % 2 = 1 /\ ((2 * s + 1) - 1) \div 2 = s
        /\ (2 * s + 2) % 2 # 1 /\ (2 * s + 2) \div 2 - 1 = s
    OBVIOUS
  <1>2. Symbol(2 * s + 1) = Scan(s, s, NoStrip)
    BY <1>1, Zenon DEF Symbol
  <1>3. Symbol(2 * s + 2) = RST(s % 8)
    BY <1>1, Zenon DEF Symbol
  <1> QED
    BY <1>2, <1>3

\* The body of m items is a sequence of m items.
LEMMA BodyTyped ==
  ASSUME NEW m \in Nat
  PROVE  /\ Body(m) \in [1 .. m -> AllSymbols]
         /\ Body(m) \in Seq(AllSymbols)
         /\ Len(Body(m)) = m
  <1>1. Body(m) \in [1 .. m -> AllSymbols]
    BY DEF Body, AllSymbols
  <1> QED
    BY <1>1, FunctionIsSeq

\* The next item makes the body one longer.
LEMMA BodyGrows ==
  ASSUME NEW m \in Nat
  PROVE  Body(m) \o <<Symbol(m + 1)>> = Body(m + 1)
  <1>0. m + 1 \in Nat
    OBVIOUS
  <1>1. Body(m + 1) \in [1 .. m + 1 -> AllSymbols] /\ Body(m) \in Seq(AllSymbols)
    BY <1>0, BodyTyped
  <1>2. Body(m) = [p \in 1 .. m |-> Body(m + 1)[p]] /\ Body(m + 1)[m + 1] = Symbol(m + 1)
    BY DEF Body
  <1>3. Append(Body(m), Symbol(m + 1)) = Body(m + 1)
    BY <1>1, <1>2, PrefixAndLast
  <1>4. Symbol(m + 1) \in AllSymbols
    BY DEF AllSymbols
  <1> QED
    BY <1>1, <1>3, <1>4, AppendIsConcat

\* The two items of the next strip make the body two longer.
LEMMA BodyGrowsTwice ==
  ASSUME NEW m \in Nat
  PROVE  Body(m) \o <<Symbol(m + 1), Symbol(m + 2)>> = Body(m + 2)
  <1> DEFINE a == <<Symbol(m + 1)>>
             b == <<Symbol(m + 2)>>
  <1>1. m + 1 \in Nat /\ (m + 1) + 1 = m + 2
    OBVIOUS
  <1>2. Body(m) \o a = Body(m + 1) /\ Body(m + 1) \o b = Body(m + 2)
    BY <1>1, BodyGrows
  <1>3. Symbol(m + 1) \in AllSymbols /\ Symbol(m + 2) \in AllSymbols
    BY DEF AllSymbols
  <1>4. a \in Seq(AllSymbols) /\ b \in Seq(AllSymbols) /\ Body(m) \in Seq(AllSymbols)
    BY <1>3, BodyTyped
  <1>5. a \o b = <<Symbol(m + 1), Symbol(m + 2)>>
    BY PairIsConcat
  <1> HIDE DEF a, b
  <1>6. (Body(m) \o a) \o b = Body(m) \o (a \o b)
    BY <1>4, ConcatAssociative
  <1> QED
    BY <1>2, <1>5, <1>6

\* Concatenated in order, complete streams are the body of a whole codestream.
LEMMA CompleteFlattens ==
  ASSUME NEW cs \in [Strip -> Seq(Item)], \A s \in Strip : cs[s] = Complete(s)
  PROVE  FlattenSeq([i \in 1 .. NumStrips |-> cs[i-1]]) = Body(2 * NumStrips - 1)
  <1> DEFINE n == NumStrips
             seqs == [i \in 1 .. n |-> cs[i-1]]
             g == [i \in 1 .. n |-> Body(IF i = n THEN 2 * n - 1 ELSE 2 * i)]
  <1>1. n \in Nat \ {0}
    BY NumStripsAssumption
  <1>2. ASSUME NEW i \in 1 .. n
        PROVE  seqs[i] = IF i = n THEN <<Symbol(2 * i - 1)>>
                                  ELSE <<Symbol(2 * i - 1), Symbol(2 * i)>>
    <2>1. i - 1 \in Strip /\ i - 1 \in Nat /\ seqs[i] = Complete(i - 1)
      BY <1>1 DEF Strip
    <2>2. 2 * (i - 1) + 1 = 2 * i - 1 /\ 2 * (i - 1) + 2 = 2 * i
      OBVIOUS
    <2>3. Symbol(2 * i - 1) = Scan(i - 1, i - 1, NoStrip) /\ Symbol(2 * i) = RST((i - 1) % 8)
      BY <2>1, <2>2, SymbolAt
    <2>4. i = n <=> i - 1 = NumStrips - 1
      BY <1>1
    <2>5. CASE i = n
      <3>1. Complete(i - 1) = <<Scan(i - 1, i - 1, NoStrip)>>
        BY <2>4, <2>5 DEF Complete
      <3> QED
        BY <2>1, <2>3, <2>5, <3>1
    <2>6. CASE i # n
      <3>1. Complete(i - 1) = <<Scan(i - 1, i - 1, NoStrip)>> \o <<RST((i - 1) % 8)>>
        BY <2>4, <2>6 DEF Complete
      <3>2. Complete(i - 1) = <<Scan(i - 1, i - 1, NoStrip), RST((i - 1) % 8)>>
        BY <3>1, PairIsConcat, Zenon
      <3> QED
        BY <2>1, <2>3, <2>6, <3>2
    <2> QED
      BY <2>5, <2>6
  <1>3. seqs \in [1 .. n -> Seq(Item)] /\ Len(seqs) = n
    <2>1. seqs \in [1 .. n -> Seq(Item)]
      BY <1>1 DEF Strip
    <2> QED
      BY <1>1, <2>1, FunctionIsSeq
  <1> HIDE DEF n, seqs
  <1>4. g \in [1 .. n -> Seq(AllSymbols)]
    <2>1. \A i \in 1 .. n : (IF i = n THEN 2 * n - 1 ELSE 2 * i) \in Nat
      BY <1>1
    <2>2. \A i \in 1 .. n : Body(IF i = n THEN 2 * n - 1 ELSE 2 * i) \in Seq(AllSymbols)
      BY <2>1, BodyTyped
    <2> QED
      BY <2>2
  <1>5. g[1] = seqs[1]
    <2>0. 1 \in 1 .. n /\ 2 * 1 - 1 = 1 /\ 2 * 1 = 2
      BY <1>1
    <2>1. CASE n = 1
      <3>1. g[1] = Body(1)
        BY <2>0, <2>1
      <3>2. Body(1) = <<Symbol(1)>>
        BY DEF Body
      <3> QED
        BY <1>2, <2>0, <2>1, <3>1, <3>2
    <2>2. CASE n # 1
      <3>1. g[1] = Body(2)
        BY <2>0, <2>2
      <3>2. Body(2) = <<Symbol(1), Symbol(2)>>
        BY DEF Body
      <3> QED
        BY <1>2, <2>0, <2>2, <3>1, <3>2
    <2> QED
      BY <2>1, <2>2
  <1>6. ASSUME NEW i \in 2 .. n
        PROVE  g[i] = g[i-1] \o seqs[i]
    <2> DEFINE m == 2 * (i - 1)
    <2>1. i \in 1 .. n /\ i - 1 \in 1 .. n /\ i - 1 # n /\ m \in Nat
      BY <1>1
    <2>2. g[i-1] = Body(m)
      BY <2>1
    <2>3. m + 1 = 2 * i - 1 /\ m + 2 = 2 * i
      BY <1>1
    <2>4. CASE i = n
      <3>1. g[i] = Body(m + 1) /\ seqs[i] = <<Symbol(m + 1)>>
        BY <1>2, <2>1, <2>3, <2>4
      <3> HIDE DEF m, g
      <3> QED
        BY <2>1, <2>2, <3>1, BodyGrows
    <2>5. CASE i # n
      <3>1. g[i] = Body(m + 2) /\ seqs[i] = <<Symbol(m + 1), Symbol(m + 2)>>
        BY <1>2, <2>1, <2>3, <2>5
      <3> HIDE DEF m, g
      <3> QED
        BY <2>1, <2>2, <3>1, BodyGrowsTwice
    <2> QED
      BY <2>4, <2>5
  <1>7. g[n] = Body(2 * n - 1)
    BY <1>1
  <1> HIDE DEF g
  <1>8. Len(seqs) = n /\ g = [i \in 1 .. n |-> g[i]]
    BY <1>3, <1>4
  <1>9. FlattenSeq(seqs) = g[n]
    BY <1>1, <1>5, <1>6, <1>8, FlattenByPrefixes
  <1> QED
    BY <1>7, <1>9 DEF n, seqs

\* Header(TRUE), then every strip, a restart marker between each two, then EOI, is a
\* codestream a decoder recovers the image from.
LEMMA WholeBodyDecodes ==
  LET cs == <<Header(TRUE)>> \o Body(2 * NumStrips - 1) \o <<EOI>>
  IN  Decodes(cs) /\ cs # <<>>
  <1> DEFINE n == NumStrips
             b == Body(2 * n - 1)
             h == Header(TRUE)
             cs == <<h>> \o b \o <<EOI>>
             S == AllSymbols \cup {h, EOI}
  <1>0. n \in Nat \ {0} /\ 2 * n - 1 \in Nat
    BY NumStripsAssumption
  <1>a. b \in Seq(S) /\ Len(b) = 2 * n - 1
    <2> HIDE DEF n, S
    <2>1. b \in [1 .. 2 * n - 1 -> AllSymbols]
      BY <1>0, BodyTyped
    <2>2. b \in [1 .. 2 * n - 1 -> S]
      BY <2>1 DEF S
    <2> QED
      BY <1>0, <2>2, FunctionIsSeq
  <1>b. h \in S /\ EOI \in S
    BY Zenon
  <1>c. \A p \in 1 .. 2 * n - 1 : b[p] = Symbol(p)
    BY DEF Body
  <1> HIDE DEF n, b, h, S
  <1>d. /\ cs \in Seq(S)
        /\ Len(cs) = Len(b) + 2
        /\ cs[1] = h
        /\ \A p \in 1 .. Len(b) : cs[p+1] = b[p]
        /\ cs[Len(b)+2] = EOI
    BY <1>a, <1>b, Between
  <1> HIDE DEF cs
  <1>e. (2 * n - 1) + 2 = 2 * n + 1
    BY <1>0
  <1>1. /\ Len(cs) = 2 * n + 1
        /\ \A p \in 1 .. 2 * n - 1 : cs[p+1] = Symbol(p)
        /\ cs[2*n+1] = EOI
    BY <1>a, <1>c, <1>d, <1>e, Zenon
  <1>f. cs # <<>>
    <2>1. Len(<<>>) = 0 /\ 2 * n + 1 # 0
      BY <1>0
    <2> QED
      BY <1>1, <2>1, Zenon
  <1>2. cs[1].kind = "header"
    <2>1. Header(TRUE).kind = "header"
      BY DEF Header
    <2> QED
      BY <1>d, <2>1, Zenon DEF h
  <1>g. cs[1].dri
    <2>1. Header(TRUE).dri = TRUE
      BY DEF Header
    <2> QED
      BY <1>d, <2>1, Zenon DEF h
  <1>3. \A i, s : i \in 2 .. 2 * n /\ s \in Nat /\ i = 2 * s + 2 =>
           cs[i].kind = "scan" /\ cs[i].strip = s /\ cs[i].rows = s /\ cs[i].pred = NoStrip
    <2> TAKE i, s
    <2> HAVE i \in 2 .. 2 * n /\ s \in Nat /\ i = 2 * s + 2
    <2>1. 2 * s + 1 \in 1 .. 2 * n - 1 /\ (2 * s + 1) + 1 = i
      BY <1>0
    <2>2. cs[i] = Scan(s, s, NoStrip)
      BY <1>1, <2>1, SymbolAt
    <2>3. /\ Scan(s, s, NoStrip).kind = "scan" /\ Scan(s, s, NoStrip).strip = s
          /\ Scan(s, s, NoStrip).rows = s /\ Scan(s, s, NoStrip).pred = NoStrip
      BY DEF Scan
    <2> QED
      BY <2>2, <2>3, Zenon
  <1>4. \A i, s : i \in 2 .. 2 * n /\ s \in Nat /\ i = 2 * s + 3 => cs[i].kind = "rst" /\ cs[i].n = s % 8
    <2> TAKE i, s
    <2> HAVE i \in 2 .. 2 * n /\ s \in Nat /\ i = 2 * s + 3
    <2>1. 2 * s + 2 \in 1 .. 2 * n - 1 /\ (2 * s + 2) + 1 = i
      BY <1>0
    <2>2. cs[i] = RST(s % 8)
      BY <1>1, <2>1, SymbolAt
    <2>3. RST(s % 8).kind = "rst" /\ RST(s % 8).n = s % 8
      BY DEF RST
    <2> QED
      BY <2>2, <2>3, Zenon
  <1>5. \A i \in 2 .. 2 * n : \E s \in Nat : i = 2 * s + 2 \/ i = 2 * s + 3
    <2> TAKE i \in 2 .. 2 * n
    <2>1. (i - 2) \div 2 \in Nat /\ (i = 2 * ((i - 2) \div 2) + 2 \/ i = 2 * ((i - 2) \div 2) + 3)
      BY <1>0
    <2> QED
      BY <2>1
  <1>6. ASSUME NEW i \in 2 .. 2 * n + 1, NEW s \in Nat, i = 2 * s + 2 \/ i = 2 * s + 1
        PROVE  Cardinality(ScansBefore(cs, i)) = s
    <2>1. ASSUME NEW j \in 1 .. i - 1
          PROVE  cs[j].kind = "scan" <=> \E m \in 1 .. s : j = 2 * m + 0
      <3>1. CASE j = 1
        BY <1>2, <3>1
      <3>2. CASE j # 1
        <4>1. j \in 2 .. 2 * n
          BY <1>0, <3>2
        <4>2. PICK t \in Nat : j = 2 * t + 2 \/ j = 2 * t + 3
          BY <1>5, <4>1
        <4>3. CASE j = 2 * t + 2
          <5>1. t + 1 \in 1 .. s /\ j = 2 * (t + 1) + 0
            BY <1>6, <4>3
          <5>2. cs[j].kind = "scan"
            BY <1>3, <4>1, <4>3
          <5> QED
            BY <5>1, <5>2
        <4>4. CASE j = 2 * t + 3
          <5>1. \A m \in 1 .. s : j # 2 * m + 0
            BY <4>4
          <5>2. cs[j].kind # "scan"
            BY <1>4, <4>1, <4>4
          <5> QED
            BY <5>1, <5>2
        <4> QED
          BY <4>2, <4>3, <4>4
      <3> QED
        BY <3>1, <3>2
    <2>2. \A m \in 1 .. s : 2 * m + 0 \in 1 .. i - 1
      BY <1>6
    <2>3. ScansBefore(cs, i) = {2 * m + 0 : m \in 1 .. s}
      BY <2>1, <2>2 DEF ScansBefore
    <2>4. s \in Nat /\ 0 \in Nat
      OBVIOUS
    <2> QED
      BY <2>3, <2>4, EverySecond
  <1>7. ASSUME NEW i \in 2 .. 2 * n, NEW s \in Nat, i = 2 * s + 3
        PROVE  Cardinality(RestartsBefore(cs, i)) = s
    <2>1. ASSUME NEW j \in 1 .. i - 1
          PROVE  cs[j].kind = "rst" <=> \E m \in 1 .. s : j = 2 * m + 1
      <3>1. CASE j = 1
        BY <1>2, <3>1
      <3>2. CASE j # 1
        <4>1. j \in 2 .. 2 * n
          BY <1>0, <3>2
        <4>2. PICK t \in Nat : j = 2 * t + 2 \/ j = 2 * t + 3
          BY <1>5, <4>1
        <4>3. CASE j = 2 * t + 3
          <5>1. t + 1 \in 1 .. s /\ j = 2 * (t + 1) + 1
            BY <1>7, <4>3
          <5>2. cs[j].kind = "rst"
            BY <1>4, <4>1, <4>3
          <5> QED
            BY <5>1, <5>2
        <4>4. CASE j = 2 * t + 2
          <5>1. \A m \in 1 .. s : j # 2 * m + 1
            BY <4>4
          <5>2. cs[j].kind # "rst"
            BY <1>3, <4>1, <4>4
          <5> QED
            BY <5>1, <5>2
        <4> QED
          BY <4>2, <4>3, <4>4
      <3> QED
        BY <3>1, <3>2
    <2>2. \A m \in 1 .. s : 2 * m + 1 \in 1 .. i - 1
      BY <1>7
    <2>3. RestartsBefore(cs, i) = {2 * m + 1 : m \in 1 .. s}
      BY <2>1, <2>2 DEF RestartsBefore
    <2>4. s \in Nat /\ 1 \in Nat
      OBVIOUS
    <2> QED
      BY <2>3, <2>4, EverySecond
  <1>8. ASSUME NEW i \in 2 .. 2 * n
        PROVE  \/ /\ cs[i].kind = "scan"
                  /\ cs[i].strip = cs[i].rows
                  /\ cs[i].rows = Cardinality(ScansBefore(cs, i))
                  /\ cs[i].pred = PredictorAt(cs, i)
               \/ /\ cs[i].kind = "rst"
                  /\ cs[i].n = Cardinality(RestartsBefore(cs, i)) % 8
                  /\ cs[i-1].kind = "scan" /\ cs[i+1].kind = "scan"
    <2>1. PICK s \in Nat : i = 2 * s + 2 \/ i = 2 * s + 3
      BY <1>5
    <2>2. CASE i = 2 * s + 2
      <3>1. cs[i].kind = "scan" /\ cs[i].strip = s /\ cs[i].rows = s /\ cs[i].pred = NoStrip
        BY <1>3, <2>2
      <3>2. Cardinality(ScansBefore(cs, i)) = s
        BY <1>0, <1>6, <2>2
      <3>3. cs[i-1].kind # "scan"
        <4>1. CASE s = 0
          BY <1>2, <2>2, <4>1
        <4>2. CASE s # 0
          <5>1. s - 1 \in Nat /\ i - 1 = 2 * (s - 1) + 3 /\ i - 1 \in 2 .. 2 * n
            BY <1>0, <2>2, <4>2
          <5>2. cs[i-1].kind = "rst"
            BY <1>4, <5>1
          <5> QED
            BY <5>2
        <4> QED
          BY <4>1, <4>2
      <3> QED
        BY <3>1, <3>2, <3>3, Zenon DEF PredictorAt
    <2>3. CASE i = 2 * s + 3
      <3>1. cs[i].kind = "rst" /\ cs[i].n = s % 8
        BY <1>4, <2>3
      <3>2. Cardinality(RestartsBefore(cs, i)) = s
        BY <1>7, <2>3
      <3>3. /\ i - 1 = 2 * s + 2 /\ i - 1 \in 2 .. 2 * n
            /\ i + 1 = 2 * (s + 1) + 2 /\ i + 1 \in 2 .. 2 * n /\ s + 1 \in Nat
        BY <1>0, <2>3
      <3>4. cs[i-1].kind = "scan" /\ cs[i+1].kind = "scan"
        BY <1>3, <3>3
      <3> QED
        BY <3>1, <3>2, <3>4, Zenon
    <2> QED
      BY <2>1, <2>2, <2>3
  <1>9. ASSUME NEW i \in 2 .. 2 * n - 1
        PROVE  ~ (cs[i].kind = "scan" /\ cs[i+1].kind = "scan")
    <2>1. i \in 2 .. 2 * n /\ i + 1 \in 2 .. 2 * n
      BY <1>0
    <2>2. PICK s \in Nat : i = 2 * s + 2 \/ i = 2 * s + 3
      BY <1>5, <2>1
    <2>3. CASE i = 2 * s + 2
      <3>1. i + 1 = 2 * s + 3
        BY <2>3
      <3>2. cs[i+1].kind = "rst"
        BY <1>4, <2>1, <3>1
      <3> QED
        BY <3>2
    <2>4. CASE i = 2 * s + 3
      <3>1. cs[i].kind = "rst"
        BY <1>4, <2>1, <2>4
      <3> QED
        BY <3>1
    <2> QED
      BY <2>2, <2>3, <2>4
  <1>10. Cardinality(ScansBefore(cs, Len(cs))) = n
    BY <1>0, <1>1, <1>6
  <1>11. /\ Len(cs) >= 3 /\ cs[Len(cs)] = EOI
         /\ 2 .. Len(cs) - 1 = 2 .. 2 * n
         /\ 2 .. Len(cs) - 2 = 2 .. 2 * n - 1
    BY <1>0, <1>1
  <1> QED
    BY <1>2, <1>8, <1>9, <1>10, <1>11, <1>f, <1>g, Zenon DEF Decodes, n, cs, b, h

\* The producer's concatenation of complete streams.
LEMMA CompleteDecodes ==
  ASSUME NEW cs \in [Strip -> Seq(Item)], \A s \in Strip : cs[s] = Complete(s)
  PROVE  LET out == <<Header(TRUE)>>
                      \o FlattenSeq([i \in 1 .. NumStrips |-> cs[i-1]]) \o <<EOI>>
         IN  Decodes(out) /\ out # <<>>
  BY CompleteFlattens, WholeBodyDecodes, Zenon

-----------------------------------------------------------------------------
(* What the caller is given. *)

ReturnedInv == throws = 0 => ReturnedDecodes

\* What the producer concatenates, when nothing was thrown, decodes.
LEMMA ConcatDecodes ==
  ASSUME StreamInv, throws = 0, Concat
  PROVE  Decodes(codestream') /\ codestream' # <<>>
  <1>1. mpc = "concat"
    BY DEF Concat
  <1>2. codestream' = <<Header(TRUE)>>
                        \o FlattenSeq([i \in 1 .. NumStrips |-> strip_cs[i-1]]) \o <<EOI>>
    BY DEF Concat
  <1> QED
    BY <1>1, <1>2, ConcatIsComplete, CompleteDecodes, Zenon

\* The counter of exceptions only grows, and grows with each.
LEMMA ThrowsCounted ==
  ASSUME TypeInv, [Next]_vars
  PROVE  \/ throws' = throws
         \/ /\ throws' # 0
            /\ SubmitThrows \/ ConcatThrows \/ \E w \in Worker : TaskThrows(w) \/ ReleaseThrows(w)
  <1>1. throws \in Nat
    BY DEF TypeInv, TypeOK
  <1>2. CASE SubmitThrows \/ ConcatThrows
    BY <1>1, <1>2 DEF SubmitThrows, ConcatThrows
  <1>3. ASSUME NEW w \in Worker, TaskThrows(w) \/ ReleaseThrows(w) PROVE throws' = throws + 1
    BY <1>3 DEF TaskThrows, ReleaseThrows
  <1>4. CASE \/ AcquireBuffer \/ AwaitBuffer \/ ReadStrip \/ Submit \/ SubmitNotify
             \/ AwaitTasks \/ Concat \/ DestructorStep
    BY <1>4 DEF AcquireBuffer, AwaitBuffer, ReadStrip, Submit, SubmitNotify, AwaitTasks, Concat,
                DestructorStep
  <1>5. CASE Caller \/ Spurious \/ Dead \/ UNCHANGED vars
    BY <1>5 DEF Caller, Invoke, GetCodestream, Destroy, Spurious, SpuriousFreeWakeup, Dead, vars,
                clientVars
  <1>6. ASSUME NEW w \in Worker, WorkerStep(w), ~ TaskThrows(w), ~ ReleaseThrows(w)
        PROVE  throws' = throws
    BY <1>6 DEF WorkerStep, EncodeStrip, ReleaseBuffer, NotifyFree, clientVars
  <1>7. throws + 1 # 0
    BY <1>1
  <1> QED
    BY <1>2, <1>3, <1>4, <1>5, <1>6, <1>7 DEF Next, Producer

\* Only these steps write the codestream or the outcome of a call.
LEMMA CodestreamWritten ==
  ASSUME [Next]_vars
  PROVE  \/ UNCHANGED <<codestream, outcome>>
         \/ Concat
         \/ outcome' # "returned"
  <1>1. CASE Producer
    BY <1>1 DEF Producer, AcquireBuffer, AwaitBuffer, ReadStrip, Submit, SubmitThrows, SubmitNotify,
                AwaitTasks, ConcatThrows, DestructorStep
  <1>2. CASE Caller \/ Spurious \/ Dead \/ UNCHANGED vars
    BY <1>2 DEF Caller, Invoke, GetCodestream, Destroy, Spurious, SpuriousFreeWakeup, Dead, vars,
                clientVars
  <1>3. ASSUME NEW w \in Worker, WorkerStep(w) PROVE UNCHANGED <<codestream, outcome>>
    BY <1>3 DEF WorkerStep, EncodeStrip, TaskThrows, ReleaseThrows, ReleaseBuffer, NotifyFree, clientVars
  <1> QED
    BY <1>1, <1>2, <1>3 DEF Next

\* What a call that returned has given its caller keeps decoding.
LEMMA NextReturnedInv ==
  ASSUME StreamInv, ReturnedInv, [Next]_vars
  PROVE  ReturnedInv'
  <1> SUFFICES ASSUME throws' = 0, outcome' = "returned"
               PROVE  Decodes(codestream')
    BY DEF ReturnedInv, ReturnedDecodes
  <1>1. throws = 0
    BY ThrowsCounted DEF StreamInv, BufferInv
  <1>2. CASE UNCHANGED <<codestream, outcome>>
    BY <1>1, <1>2 DEF ReturnedInv, ReturnedDecodes
  <1>3. CASE Concat
    BY <1>1, <1>3, ConcatDecodes
  <1> QED
    BY <1>2, <1>3, CodestreamWritten

\* No call has returned at the start.
LEMMA InitReturnedInv == Init => ReturnedInv
  BY DEF Init, ReturnedInv, ReturnedDecodes

\* As long as nothing is thrown, whenever invoke() has returned the caller holds a
\* codestream that decodes to the image, for every number of workers, buffers,
\* strips and calls.
THEOREM ReturnsDecode ==
  ASSUME "submit" \notin ThrowAt
  PROVE  Spec => [](throws = 0 => ReturnedDecodes)
  <1>1. StreamInv /\ ReturnedInv /\ [Next]_vars => (StreamInv /\ ReturnedInv)'
    BY NextStreamInv, NextReturnedInv
  <1>2. ReturnedInv => (throws = 0 => ReturnedDecodes)
    BY DEF ReturnedInv
  <1> QED
    BY InitStreamInv, InitReturnedInv, <1>1, <1>2, PTL DEF Spec

\* Where nothing throws, nothing is ever counted as thrown.
LEMMA NothingThrown ==
  ASSUME ThrowAt = {}, StreamInv, throws = 0, [Next]_vars
  PROVE  throws' = 0
  <1>1. ~ SubmitThrows /\ ~ ConcatThrows /\ \A w \in Worker : ~ TaskThrows(w) /\ ~ ReleaseThrows(w)
    BY DEF SubmitThrows, ConcatThrows, TaskThrows, ReleaseThrows
  <1> QED
    BY <1>1, ThrowsCounted DEF StreamInv, BufferInv

\* In an environment where nothing is thrown, that is all there is to say.
THEOREM AlwaysReturnsDecode ==
  ASSUME ThrowAt = {}
  PROVE  Spec => []ReturnedDecodes
  <1> DEFINE Inv == StreamInv /\ ReturnedInv /\ throws = 0
  <1>1. Init => Inv
    BY InitStreamInv, InitReturnedInv DEF Init
  <1>2. Inv /\ [Next]_vars => Inv'
    BY NextStreamInv, NextReturnedInv, NothingThrown
  <1>3. Inv => ReturnedDecodes
    BY DEF ReturnedInv
  <1> QED
    BY <1>1, <1>2, <1>3, PTL DEF Spec

-----------------------------------------------------------------------------
(* The promise. *)

\* The specification's Decodes is this module's.
LEMMA SameDecodes == \A cs : Promise!Decodes(cs) <=> Decodes(cs)
  BY Zenon DEF Promise!Decodes, Promise!ScansBefore, Promise!RestartsBefore, Promise!PredictorAt,
      Promise!EOI, Promise!NoStrip, Promise!Cardinality, Cardinality,
      Decodes, ScansBefore, RestartsBefore, PredictorAt, EOI, NoStrip

\* Every step of the encoder is a step of the promise, or a stutter.
LEMMA StepKeepsPromise ==
  ASSUME StreamInv, ThrowAt = {}, throws = 0, [Next]_vars
  PROVE  [Promise!Next]_(Promise!specVars)
  <1> USE DEF Promise!Next, Promise!specVars, Dying
  <1>1. CASE Invoke
    BY <1>1 DEF Invoke, Promise!Invoke
  <1>2. CASE UNCHANGED <<mpc, codestream>>
    BY <1>2
  <1>3. CASE AcquireBuffer \/ ReadStrip \/ Submit \/ SubmitNotify
    BY <1>3 DEF AcquireBuffer, ReadStrip, Submit, SubmitNotify
  <1>4. CASE AwaitTasks
    BY <1>4 DEF AwaitTasks
  <1>5. CASE Concat
    <2>1. Decodes(codestream') /\ codestream' # <<>>
      BY <1>5, ConcatDecodes
    <2> QED
      BY <1>5, <2>1, SameDecodes DEF Concat, Promise!Return
  <1>6. CASE GetCodestream
    BY <1>6 DEF GetCodestream, Promise!GetCodestream
  <1>7. CASE Destroy
    BY <1>7 DEF Destroy, Promise!Destroy
  <1>8. CASE DestructorStep
    BY <1>8 DEF DestructorStep, Promise!Destroyed
  <1>9. ~ SubmitThrows /\ ~ ConcatThrows
    BY DEF SubmitThrows, ConcatThrows
  <1>10. CASE AwaitBuffer \/ Spurious \/ Dead \/ UNCHANGED vars
    <2>1. UNCHANGED <<mpc, codestream>>
      BY <1>10 DEF AwaitBuffer, Spurious, SpuriousFreeWakeup, Dead, vars, clientVars
    <2> QED
      BY <1>2, <2>1
  <1>11. ASSUME NEW w \in Worker, WorkerStep(w) PROVE UNCHANGED <<mpc, codestream>>
    BY <1>11 DEF WorkerStep, EncodeStrip, TaskThrows, ReleaseThrows, ReleaseBuffer, NotifyFree, clientVars
  <1> QED
    BY <1>1, <1>2, <1>3, <1>4, <1>5, <1>6, <1>7, <1>8, <1>9, <1>10, <1>11 DEF Next, Producer, Caller

\* Where nothing is thrown, every step of the threads is a step, or none, of what the
\* caller is promised: each invoke() that returns leaves a codestream that decodes, and
\* the encoder can be invoked again or destroyed.  (That every call returns is not
\* proved here.)
THEOREM EncoderKeepsPromise ==
  ASSUME ThrowAt = {}
  PROVE  Spec => Promise!Init /\ [][Promise!Next]_(Promise!specVars)
  <1> DEFINE Inv == StreamInv /\ throws = 0
  <1>1. Init => Inv /\ Promise!Init
    BY InitStreamInv DEF Init, Promise!Init, Dying
  <1>2. Inv /\ [Next]_vars => Inv'
    BY NextStreamInv, NothingThrown
  <1>3. Inv /\ [Next]_vars => [Promise!Next]_(Promise!specVars)
    BY StepKeepsPromise
  <1> QED
    BY <1>1, <1>2, <1>3, PTL DEF Spec
=============================================================================
