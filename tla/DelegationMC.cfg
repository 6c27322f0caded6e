SPECIFICATION FairSpec
CONSTANTS
  a = a  b = b  c = c
  d1 = d1  d2 = d2  d3 = d3  d4 = d4  d5 = d5
  NoAgent = NoAgent  NoLock = NoLock
  Agents <- MCAgents
  Tasks <- MCTasks
  From <- MCFrom
  MaxAgents = 1
  MaxEdges = 3
INVARIANTS Acyclic
PROPERTIES DrainWaits LineEmpties
CHECK_DEADLOCK FALSE
