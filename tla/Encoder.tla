------------------------------ MODULE Encoder -------------------------------
(***************************************************************************)
(* The multi-threaded encoder (num_workers > 1).  The thread that calls    *)
(* invoke() is the producer: for each strip it takes a free input buffer,  *)
(* reads the strip's rows into it and submits a task; the pool's workers   *)
(* encode the strips into strip_cs and give the buffers back; when         *)
(* pool->wait() returns, the producer concatenates.                        *)
(*                                                                         *)
(* The steps are the critical sections of free_mu and tasks_mutex, the     *)
(* notifications between them, and the accesses to the data the threads    *)
(* share: the input buffers and strip_cs.                                  *)
(***************************************************************************)
EXTENDS ThreadPool, Codestream, SequencesExt

CONSTANTS NumBuffers,   \* entries of wbufs; the code makes it num_workers
          MaxInvokes,   \* bound on the calls of invoke()
          MaxThrows,    \* bound on the std::bad_alloc met
          ThrowAt       \* the places where one may be met

ASSUME EncoderAssumption ==
  /\ NumBuffers \in Nat \ {0}
  /\ MaxInvokes \in Nat
  /\ MaxThrows \in Nat
  /\ ThrowAt \subseteq {"task", "release", "submit", "concat"}

VARIABLES mpc,         \* where the caller's thread stands
          cur,         \* s, the strip of the producer's loop
          held,        \* b, while the producer owns buffer b
          free_idx,    \* the queue of free buffers
          freeWait,    \* the producer in free_cv.wait()
          input,       \* wbufs[b].input: the strip whose rows it holds
          tpc,         \* how far each worker's task has got
          strip_cs,    \* the items of each strip's output stream
          codestream,  \* the caller's vector
          outcome,     \* how the caller's last call ended
          invokes, throws   \* counters, for the bounds

clientVars == <<mpc, cur, held, free_idx, freeWait, input, tpc, strip_cs,
                codestream, outcome, invokes, throws>>
vars == <<poolVars, clientVars>>

Buffer == 0 .. NumBuffers - 1
NoBuffer == -1
Task == [s : Strip, b : Buffer]   \* what the lambda of detach_task captures

MainPC == {"idle", "acquire", "read", "submit", "notify", "wait", "concat",
           "dtorWait", "dtorStop", "dtorNotify", "dtorJoin", "dead"}
TaskPC == {"encode", "release", "notify"}
Outcome == {"none", "running", "returned", "threw", "taken"}

\* codestream is missing: ReturnedDecodes says what it holds.
TypeOK ==
  /\ PoolTypeOK(Task)
  /\ mpc \in MainPC
  /\ cur \in 0 .. NumStrips
  /\ held \in Buffer \cup {NoBuffer}
  /\ free_idx \in Seq(Buffer)
  /\ freeWait \in WaitPC
  /\ input \in [Buffer -> Strip \cup {NoStrip}]
  /\ tpc \in [Worker -> TaskPC]
  /\ strip_cs \in [Strip -> Seq(Item)]
  /\ outcome \in Outcome
  /\ invokes \in Nat
  /\ throws \in Nat

\* The constructor, for num_workers > 1.
Init ==
  /\ PoolInit
  /\ mpc = "idle"
  /\ cur = 0
  /\ held = NoBuffer
  /\ free_idx = [i \in 1 .. NumBuffers |-> i - 1]
  /\ freeWait = "out"
  /\ input = [b \in Buffer |-> NoStrip]
  /\ tpc = [w \in Worker |-> "encode"]
  /\ strip_cs = [s \in Strip |-> <<>>]
  /\ codestream = <<>>
  /\ outcome = "none"
  /\ invokes = 0
  /\ throws = 0

-----------------------------------------------------------------------------
(* The producer: invoke_mt(). *)

Invoke_noRestart ==   \* mutant: the strip counter keeps its old value
  /\ mpc = "idle"
  /\ invokes < MaxInvokes
  /\ invokes' = invokes + 1
  /\ mpc' = "acquire"
  /\ outcome' = "running"
  /\ UNCHANGED <<poolVars, cur, held, free_idx, freeWait, input, tpc, strip_cs, codestream, throws>>

Invoke ==
  /\ mpc = "idle"
  /\ invokes < MaxInvokes
  /\ invokes' = invokes + 1
  /\ mpc' = "acquire"
  /\ cur' = 0
  /\ outcome' = "running"
  /\ UNCHANGED <<poolVars, held, free_idx, freeWait, input, tpc, strip_cs, codestream, throws>>

\* free_cv.wait, on entry or when woken: there is a free buffer.
AcquireBuffer_noPop ==   \* mutant: free_idx.pop() forgotten
  /\ mpc = "acquire"
  /\ freeWait # "blocked"
  /\ free_idx # <<>>
  /\ held' = Head(free_idx)
  /\ freeWait' = "out"
  /\ mpc' = "read"
  /\ UNCHANGED <<poolVars, cur, free_idx, input, tpc, strip_cs, codestream, outcome, invokes, throws>>

AcquireBuffer ==
  /\ mpc = "acquire"
  /\ freeWait # "blocked"
  /\ free_idx # <<>>
  /\ held' = Head(free_idx)
  /\ free_idx' = Tail(free_idx)
  /\ freeWait' = "out"
  /\ mpc' = "read"
  /\ UNCHANGED <<poolVars, cur, input, tpc, strip_cs, codestream, outcome, invokes, throws>>

\* free_cv.wait, on entry or when woken: there is none.
AwaitBuffer ==
  /\ mpc = "acquire"
  /\ freeWait # "blocked"
  /\ free_idx = <<>>
  /\ freeWait' = "blocked"
  /\ UNCHANGED <<poolVars, mpc, cur, held, free_idx, input, tpc, strip_cs, codestream,
                 outcome, invokes, throws>>

SpuriousFreeWakeup ==
  /\ freeWait = "blocked"
  /\ freeWait' = "woken"
  /\ UNCHANGED <<poolVars, mpc, cur, held, free_idx, input, tpc, strip_cs, codestream,
                 outcome, invokes, throws>>

\* image.get_lines_from(s * BUFLINES, wbufs[b].input.get()), outside the lock.
ReadStrip ==
  /\ mpc = "read"
  /\ input' = [input EXCEPT ![held] = cur]
  /\ mpc' = "submit"
  /\ UNCHANGED <<poolVars, cur, held, free_idx, freeWait, tpc, strip_cs, codestream,
                 outcome, invokes, throws>>

\* detach_task: the task now owns the buffer.
Submit ==
  /\ mpc = "submit"
  /\ PushTask([s |-> cur, b |-> held])
  /\ held' = NoBuffer
  /\ mpc' = "notify"
  /\ UNCHANGED <<cur, free_idx, freeWait, input, tpc, strip_cs, codestream, outcome,
                 invokes, throws>>

\* detach_task throws before it has queued the task: invoke() unwinds, the
\* buffer's index is gone with its stack frame and earlier tasks stay where they are.
SubmitThrows ==
  /\ mpc = "submit"
  /\ "submit" \in ThrowAt /\ throws < MaxThrows
  /\ throws' = throws + 1
  /\ held' = NoBuffer
  /\ mpc' = "idle"
  /\ outcome' = "threw"
  /\ UNCHANGED <<poolVars, cur, free_idx, freeWait, input, tpc, strip_cs, codestream, invokes>>

SubmitNotify ==
  /\ mpc = "notify"
  /\ NotifyOneWorker
  /\ cur' = cur + 1
  /\ mpc' = IF cur + 1 < NumStrips THEN "acquire" ELSE "wait"
  /\ UNCHANGED <<held, free_idx, freeWait, input, tpc, strip_cs, codestream, outcome,
                 invokes, throws>>

\* pool->wait().
AwaitTasks_skipped ==   \* mutant: concatenates without waiting
  /\ mpc = "wait"
  /\ mpc' = "concat"
  /\ UNCHANGED <<poolVars, cur, held, free_idx, freeWait, input, tpc, strip_cs, codestream,
                 outcome, invokes, throws>>

AwaitTasks ==
  /\ mpc = "wait"
  /\ \/ WaitReturns /\ mpc' = "concat"
     \/ WaitBlocks /\ mpc' = mpc
  /\ UNCHANGED <<cur, held, free_idx, freeWait, input, tpc, strip_cs, codestream, outcome,
                 invokes, throws>>

\* Header, every strip's stream, EOI; the streams are reset for the next call.
Concat ==
  /\ mpc = "concat"
  /\ codestream' = <<Header(TRUE)>>
                     \o FlattenSeq([i \in 1 .. NumStrips |-> strip_cs[i-1]]) \o <<EOI>>
  /\ strip_cs' = [s \in Strip |-> <<>>]
  /\ mpc' = "idle"
  /\ outcome' = "returned"
  /\ UNCHANGED <<poolVars, cur, held, free_idx, freeWait, input, tpc, invokes, throws>>

\* strip_lens or codestream.resize() cannot be allocated, or the last strip's
\* stream cannot grow when get_len() flushes it: invoke() unwinds before any stream
\* is reset.
ConcatThrows ==
  /\ mpc = "concat"
  /\ "concat" \in ThrowAt /\ throws < MaxThrows
  /\ throws' = throws + 1
  /\ \/ strip_cs' = strip_cs
     \/ strip_cs' = [strip_cs EXCEPT ![NumStrips - 1] = Append(@, Partial(NumStrips - 1))]
  /\ mpc' = "idle"
  /\ outcome' = "threw"
  /\ UNCHANGED <<poolVars, cur, held, free_idx, freeWait, input, tpc, codestream, invokes>>

-----------------------------------------------------------------------------
(* The caller's other calls. *)

\* get_codestream() moves the vector out, whether or not a call has filled it.
GetCodestream ==
  /\ mpc = "idle"
  /\ codestream' = <<>>
  /\ outcome' = IF outcome = "returned" THEN "taken" ELSE outcome
  /\ UNCHANGED <<poolVars, mpc, cur, held, free_idx, freeWait, input, tpc, strip_cs,
                 invokes, throws>>

\* The members that tasks use, and the pool, as they are declared:
\* ~jpeg_encoder_impl destroys the last one first.
Members_poolFirst ==   \* mutant: the pool is declared before what its tasks use
  <<"pool", "wbufs", "strip_cs", "free_idx", "free_mu", "free_cv">>

Members == <<"wbufs", "strip_cs", "free_idx", "free_mu", "free_cv", "pool">>

Dying == {"dtorWait", "dtorStop", "dtorNotify", "dtorJoin"}   \* the pool is being destroyed

\* The members that are destroyed already.
Gone ==
  {Members[j] : j \in {k \in DOMAIN Members :
                          \/ mpc = "dead"
                          \/ mpc \in Dying /\ \E i \in DOMAIN Members : i < k /\ Members[i] = "pool"}}

\* ~jpeg_encoder_impl, up to the pool's destructor.
Destroy ==
  /\ mpc = "idle"
  /\ mpc' = "dtorWait"
  /\ UNCHANGED <<poolVars, cur, held, free_idx, freeWait, input, tpc, strip_cs, codestream,
                 outcome, invokes, throws>>

DestructorStep_noNotify ==   \* mutant: the sleeping workers are not told to stop
  /\ \/ mpc = "dtorWait" /\ WaitReturns /\ mpc' = "dtorStop"
     \/ mpc = "dtorWait" /\ WaitBlocks /\ mpc' = mpc
     \/ mpc = "dtorStop" /\ StopWorkers /\ mpc' = "dtorJoin"
     \/ mpc = "dtorJoin" /\ WorkersJoined /\ mpc' = "dead" /\ UNCHANGED poolVars
  /\ UNCHANGED <<cur, held, free_idx, freeWait, input, tpc, strip_cs, codestream, outcome,
                 invokes, throws>>

DestructorStep_noWait ==   \* mutant: the pool stops without waiting for its tasks
  /\ \/ mpc = "dtorWait" /\ mpc' = "dtorStop" /\ UNCHANGED poolVars
     \/ mpc = "dtorStop" /\ StopWorkers /\ mpc' = "dtorNotify"
     \/ mpc = "dtorNotify" /\ NotifyAllWorkers /\ mpc' = "dtorJoin"
     \/ mpc = "dtorJoin" /\ WorkersJoined /\ mpc' = "dead" /\ UNCHANGED poolVars
  /\ UNCHANGED <<cur, held, free_idx, freeWait, input, tpc, strip_cs, codestream, outcome,
                 invokes, throws>>

DestructorStep ==
  /\ \/ mpc = "dtorWait" /\ WaitReturns /\ mpc' = "dtorStop"
     \/ mpc = "dtorWait" /\ WaitBlocks /\ mpc' = mpc
     \/ mpc = "dtorStop" /\ StopWorkers /\ mpc' = "dtorNotify"
     \/ mpc = "dtorNotify" /\ NotifyAllWorkers /\ mpc' = "dtorJoin"
     \/ mpc = "dtorJoin" /\ WorkersJoined /\ mpc' = "dead" /\ UNCHANGED poolVars
  /\ UNCHANGED <<cur, held, free_idx, freeWait, input, tpc, strip_cs, codestream, outcome,
                 invokes, throws>>

Dead == mpc = "dead" /\ UNCHANGED vars

-----------------------------------------------------------------------------
(* The task, on a worker: tpc is "encode" until the strip is in strip_cs. *)

\* encode_strip with fresh DC predictors, then the restart marker unless the
\* strip is the last one.
EncodedStrip_rst9(t) ==   \* mutant: restart markers counted modulo 9
  <<Scan(t.s, input[t.b], NoStrip)>> \o
    IF t.s + 1 < NumStrips THEN <<RST(t.s % 9)>> ELSE <<>>

EncodedStrip_rstLast(t) ==   \* mutant: a restart marker after every strip
  <<Scan(t.s, input[t.b], NoStrip), RST(t.s % 8)>>

EncodedStrip(t) ==
  <<Scan(t.s, input[t.b], NoStrip)>> \o
    IF t.s + 1 < NumStrips THEN <<RST(t.s % 8)>> ELSE <<>>

\* What reaches the stream: after a call that threw, two tasks may write one stream
\* at once, or the stream may begin with the bits of the earlier call, and then the
\* items are not sure to be there.
Written(w) ==
  {EncodedStrip(task[w])} \cup
    IF \/ strip_cs[task[w].s] # <<>>
       \/ \E v \in Worker \ {w} : wpc[v] = "running" /\ tpc[v] = "encode" /\ task[v].s = task[w].s
    THEN {<<>>, <<Partial(task[w].s)>>} ELSE {}

EncodeStrip(w) ==
  /\ wpc[w] = "running" /\ tpc[w] = "encode"
  /\ \E items \in Written(w) : strip_cs' = [strip_cs EXCEPT ![task[w].s] = @ \o items]
  /\ tpc' = [tpc EXCEPT ![w] = "release"]
  /\ UNCHANGED <<poolVars, mpc, cur, held, free_idx, freeWait, input, codestream, outcome,
                 invokes, throws>>

\* What is in the stream when it cannot grow: nothing of the strip, some of it, or
\* all of it with no marker or half a marker.
CutShort(t) ==
  {<<>>, <<Partial(t.s)>>} \cup
    IF t.s + 1 < NumStrips
    THEN {<<Scan(t.s, input[t.b], NoStrip)>>, <<Scan(t.s, input[t.b], NoStrip), Partial(t.s)>>}
    ELSE {}

\* An allocation fails, for prev_dc or when encode_strip() or put_RST() grows the
\* strip's stream: the worker's catch (...) drops the exception, and with it the
\* index of the buffer.
TaskThrows(w) ==
  /\ wpc[w] = "running" /\ tpc[w] = "encode"
  /\ "task" \in ThrowAt /\ throws < MaxThrows
  /\ throws' = throws + 1
  /\ TaskEnds(w)
  /\ \E items \in CutShort(task[w]) : strip_cs' = [strip_cs EXCEPT ![task[w].s] = @ \o items]
  /\ UNCHANGED <<tasks, tasks_running, waiting, workers_running, doneWait,
                 mpc, cur, held, free_idx, freeWait, input, tpc, codestream, outcome, invokes>>

\* free_idx.push(b) under free_mu.
ReleaseBuffer_notLast(w) ==   \* mutant: the last strip keeps its buffer
  /\ wpc[w] = "running" /\ tpc[w] = "release"
  /\ free_idx' = IF task[w].s + 1 < NumStrips THEN Append(free_idx, task[w].b) ELSE free_idx
  /\ tpc' = [tpc EXCEPT ![w] = "notify"]
  /\ UNCHANGED <<poolVars, mpc, cur, held, freeWait, input, strip_cs, codestream, outcome,
                 invokes, throws>>

ReleaseBuffer(w) ==
  /\ wpc[w] = "running" /\ tpc[w] = "release"
  /\ free_idx' = Append(free_idx, task[w].b)
  /\ tpc' = [tpc EXCEPT ![w] = "notify"]
  /\ UNCHANGED <<poolVars, mpc, cur, held, freeWait, input, strip_cs, codestream, outcome,
                 invokes, throws>>

\* The queue cannot grow: the lock is released and the index lost, with the strip
\* encoded.
ReleaseThrows(w) ==
  /\ wpc[w] = "running" /\ tpc[w] = "release"
  /\ "release" \in ThrowAt /\ throws < MaxThrows
  /\ throws' = throws + 1
  /\ TaskEnds(w)
  /\ tpc' = [tpc EXCEPT ![w] = "encode"]
  /\ UNCHANGED <<tasks, tasks_running, waiting, workers_running, doneWait,
                 mpc, cur, held, free_idx, freeWait, input, strip_cs, codestream, outcome, invokes>>

\* free_cv.notify_one(), after which the task is over.
NotifyFree_lost(w) ==   \* mutant: the producer is not notified
  /\ wpc[w] = "running" /\ tpc[w] = "notify"
  /\ TaskEnds(w)
  /\ tpc' = [tpc EXCEPT ![w] = "encode"]
  /\ UNCHANGED <<tasks, tasks_running, waiting, workers_running, doneWait, freeWait,
                 mpc, cur, held, free_idx, input, strip_cs, codestream, outcome, invokes, throws>>

NotifyFree(w) ==
  /\ wpc[w] = "running" /\ tpc[w] = "notify"
  /\ freeWait' = IF freeWait = "blocked" THEN "woken" ELSE freeWait
  /\ TaskEnds(w)
  /\ tpc' = [tpc EXCEPT ![w] = "encode"]
  /\ UNCHANGED <<tasks, tasks_running, waiting, workers_running, doneWait,
                 mpc, cur, held, free_idx, input, strip_cs, codestream, outcome, invokes, throws>>

-----------------------------------------------------------------------------

Producer ==
  \/ AcquireBuffer \/ AwaitBuffer \/ ReadStrip \/ Submit \/ SubmitThrows \/ SubmitNotify
  \/ AwaitTasks \/ Concat \/ ConcatThrows \/ DestructorStep

Caller == Invoke \/ GetCodestream \/ Destroy

WorkerStep(w) ==
  \/ (LoopTop(w) \/ WokenWorker(w)) /\ UNCHANGED clientVars
  \/ EncodeStrip(w) \/ TaskThrows(w)
  \/ ReleaseBuffer(w) \/ ReleaseThrows(w) \/ NotifyFree(w)

Spurious ==
  \/ SpuriousFreeWakeup
  \/ (SpuriousWaitWakeup \/ \E w \in Worker : SpuriousWorkerWakeup(w)) /\ UNCHANGED clientVars

Next == Producer \/ Caller \/ (\E w \in Worker : WorkerStep(w)) \/ Spurious \/ Dead

\* Every thread that can run eventually runs: the workers, and the caller's
\* thread while it is inside a call.
Fairness ==
  /\ \A w \in Worker : WF_vars(WorkerStep(w))
  /\ WF_vars(Producer)

Spec == Init /\ [][Next]_vars /\ Fairness

-----------------------------------------------------------------------------
(* Properties. *)

\* The workers whose task still owns its buffer, and those whose strip is yet
\* to be encoded.
OwnsBuffer(w) == wpc[w] = "running" /\ tpc[w] \in {"encode", "release"}
Encoding(w) == wpc[w] = "running" /\ tpc[w] = "encode"

FreeUnshared ==
  \A i, j \in DOMAIN free_idx : free_idx[i] = free_idx[j] => i = j

QueuedUnshared ==
  /\ \A i, j \in DOMAIN tasks : tasks[i].b = tasks[j].b => i = j
  /\ \A i \in DOMAIN tasks, j \in DOMAIN free_idx : tasks[i].b # free_idx[j]

RunningUnshared ==
  /\ \A v, w \in Worker : OwnsBuffer(v) /\ OwnsBuffer(w) /\ task[v].b = task[w].b => v = w
  /\ \A w \in Worker : OwnsBuffer(w) =>
       /\ \A i \in DOMAIN free_idx : task[w].b # free_idx[i]
       /\ \A i \in DOMAIN tasks : task[w].b # tasks[i].b

HeldUnshared ==
  held # NoBuffer =>
    /\ \A i \in DOMAIN free_idx : held # free_idx[i]
    /\ \A i \in DOMAIN tasks : held # tasks[i].b
    /\ \A w \in Worker : OwnsBuffer(w) => held # task[w].b

RightRows ==
  /\ mpc = "submit" => input[held] = cur
  /\ \A i \in DOMAIN tasks : input[tasks[i].b] = tasks[i].s
  /\ \A w \in Worker : Encoding(w) => input[task[w].b] = task[w].s

\* An input buffer is in one place at a time: the free queue, the producer's
\* hands, a queued task or a running one (jpegenc.cpp invoke_mt passes the bare
\* index around; only this discipline keeps the producer's fread and a worker's
\* encode_strip off the same memory).  And the rows read into it are still
\* there when the task that was given it encodes them.
BufferExclusive ==
  FreeUnshared /\ QueuedUnshared /\ RunningUnshared /\ HeldUnshared /\ RightRows

\* No two tasks that are queued or encoding are for the same strip, so that no
\* two threads write one strip_cs entry, and none is left when the producer reads
\* and resets them all without a lock (jpegenc.cpp: strip_cs has no mutex, the
\* only protection is that each s is submitted once between two pool->wait()).
StripExclusive ==
  /\ \A i, j \in DOMAIN tasks : tasks[i].s = tasks[j].s => i = j
  /\ \A v, w \in Worker : Encoding(v) /\ Encoding(w) /\ task[v].s = task[w].s => v = w
  /\ \A w \in Worker, i \in DOMAIN tasks : Encoding(w) => task[w].s # tasks[i].s
  /\ mpc \in {"idle", "concat"} => tasks = <<>> /\ \A w \in Worker : wpc[w] # "running"

\* When the producer concatenates, and nothing has been thrown, every strip's
\* stream holds that strip once, coded from its own rows with fresh predictors,
\* and the restart marker it is due, whichever workers encoded the strips and in
\* whatever order they finished (jpegenc.cpp invoke_mt).
StripsComplete ==
  mpc = "concat" /\ throws = 0 =>
    \A s \in Strip : strip_cs[s] =
      <<Scan(s, s, NoStrip)>> \o IF s = NumStrips - 1 THEN <<>> ELSE <<RST(s % 8)>>

\* Between calls every buffer is back in the free queue ("Recycled across strips
\* and across invoke() calls", jpegenc.cpp:43-44).
BuffersRecycled ==
  mpc = "idle" => \A b \in Buffer : \E i \in DOMAIN free_idx : free_idx[i] = b

\* Whenever invoke() has returned, the caller holds a codestream a decoder
\* recovers the image from, on every call and not only the first.
ReturnedDecodes == outcome = "returned" => Decodes(codestream)

\* No task is queued or running once a member it may use is destroyed, or the workers
\* have been told to stop, whatever was thrown before (jpegenc.cpp: nothing but the
\* order of the members keeps wbufs, strip_cs, free_mu and free_cv alive for the tasks
\* an unwound invoke() left behind).
NoTaskOutlivesEncoder ==
  mpc = "dtorJoin" \/ Gone # {} => tasks = <<>> /\ \A w \in Worker : wpc[w] # "running"

\* The destructor returns, even after tasks or calls have thrown and buffers
\* have been lost.
DestructorReturns == mpc = "dtorWait" ~> mpc = "dead"

\* Without exceptions the encoder keeps its promise, liveness included: a call
\* returns although the producer sleeps whenever no buffer is free.
Promise == INSTANCE EncoderSpec WITH
  phase <- CASE mpc = "idle" -> "idle"
             [] mpc = "dead" -> "dead"
             [] mpc \in Dying -> "dying"
             [] OTHER -> "encoding",
  spoilt <- FALSE

ImplementsPromise == Promise!Spec
=============================================================================
