CONSTANTS
  Cpus = {c1, c2}
  Timed = {c1}
  N = 2
  Quantum = 1
  Wrap = 2
  Spawns = 3
  StaleCalls = 1
SPECIFICATION FairSpec
INVARIANTS TypeOK RunnableIsWhole LiveCounted
PROPERTY RunnableScheduled
