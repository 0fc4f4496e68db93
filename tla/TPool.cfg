SPECIFICATION Spec
CONSTANTS
  Workers = {w1, w2, w3}
  Callers = {c1, c2}
  Jobs = {j1, j2, j3}
  NoJob = NoJob
INVARIANTS
  TypeOK
  CountIsWorking
  WorkConserving
  StopWakesAll
  NoWaiterStranded
PROPERTIES
  WaitIsBarrier
  ImplementsWorkPool
  StopEnds
  AcceptedEnds
