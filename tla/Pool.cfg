SPECIFICATION Spec
CONSTANTS
  Worker = {w1, w2, w3}
  NoTask = NoTask
  MaxTasks = 4
INVARIANTS TypeOK RunningCount NoLostWakeup
PROPERTIES ImplementsPromise
