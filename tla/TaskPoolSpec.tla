---------------------------- MODULE TaskPoolSpec ----------------------------
(***************************************************************************)
(* What the thread pool promises its client, with nothing said of mutexes, *)
(* condition variables or counters: tasks start in the order they were     *)
(* submitted, each runs once, at most Threads of them at a time; wait()    *)
(* returns only when every submitted task has finished, and the destructor *)
(* lets no task outlive the pool.                                          *)
(***************************************************************************)
EXTENDS Naturals, Sequences, FiniteSets

CONSTANTS Task, Threads

VARIABLES queue,     \* submitted, not yet started
          active,    \* being executed
          finished,  \* executed
          phase      \* the client: "open", "waiting", "closing" or "closed"

specVars == <<queue, active, finished, phase>>

Init ==
  /\ queue = <<>>
  /\ active = {}
  /\ finished = {}
  /\ phase = "open"

Submitted == {queue[i] : i \in DOMAIN queue} \cup active \cup finished

Submit(t) ==
  /\ phase = "open"
  /\ t \notin Submitted
  /\ queue' = Append(queue, t)
  /\ UNCHANGED <<active, finished, phase>>

Start ==
  /\ queue # <<>>
  /\ Cardinality(active) < Threads
  /\ active' = active \cup {Head(queue)}
  /\ queue' = Tail(queue)
  /\ UNCHANGED <<finished, phase>>

Finish(t) ==
  /\ t \in active
  /\ active' = active \ {t}
  /\ finished' = finished \cup {t}
  /\ UNCHANGED <<queue, phase>>

Quiet == queue = <<>> /\ active = {}

BeginWait == phase = "open" /\ phase' = "waiting" /\ UNCHANGED <<queue, active, finished>>

EndWait == phase = "waiting" /\ Quiet /\ phase' = "open" /\ UNCHANGED <<queue, active, finished>>

BeginClose == phase = "open" /\ phase' = "closing" /\ UNCHANGED <<queue, active, finished>>

EndClose == phase = "closing" /\ Quiet /\ phase' = "closed" /\ UNCHANGED <<queue, active, finished>>

Next ==
  \/ \E t \in Task : Submit(t) \/ Finish(t)
  \/ Start
  \/ BeginWait \/ EndWait \/ BeginClose \/ EndClose

\* The tasks themselves terminate, so everything submitted is executed and
\* every wait() and the destructor return.
Liveness ==
  /\ WF_specVars(Start)
  /\ \A t \in Task : WF_specVars(Finish(t))
  /\ WF_specVars(EndWait)
  /\ WF_specVars(EndClose)

Spec == Init /\ [][Next]_specVars /\ Liveness
=============================================================================
