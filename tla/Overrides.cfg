SPECIFICATION FrontEndSpec
CONSTANTS
  None = None
  Programs <- NoTasks
  PureFunctionBodies <- NoTasks
  GhostPrograms <- NoTasks
  ClassHierarchies <- HierarchyGaps
  TypeTasks <- NoTasks
  FieldContracts <- NoTasks
  IONets <- NoTasks
  AdtTasks <- NoTasks
  Numbers = {i0, i1}
  AdtObjects = {o0, o1}
  AdtElements = {e1, e2}
  Refs = {r1, r2, r3}
  EvaluatedExpressions <- NoTasks
INVARIANT SubclassesKeepContracts
CHECK_DEADLOCK FALSE
