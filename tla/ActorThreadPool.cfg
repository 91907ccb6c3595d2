\* Two handlers with three tasks each, on two workers.
CONSTANTS
  h0 = h0  h1 = h1  w0 = w0  w1 = w1
  Selector = Selector  NoThread = NoThread  NoActor = NoActor
  Actors = {h0, h1}
  Workers = {w0, w1}
  MaxTasks = 3
SPECIFICATION FairSpec
INVARIANTS
  TypeOK
PROPERTIES
  ImplementsExecutor
  EveryTaskRuns
