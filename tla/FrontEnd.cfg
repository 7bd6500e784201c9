SPECIFICATION FrontEndSpec
CONSTANTS
  None = None
  Programs <- ModulePasses
  PureFunctionBodies <- PurePasses
  GhostPrograms <- GhostPasses
  ClassHierarchies <- HierarchyPasses
  TypeTasks <- TypePasses
  FieldContracts <- FieldPasses
  IONets <- IOPasses
  AdtTasks <- AdtPasses
  Numbers = {i0, i1}
  AdtObjects = {o0, o1}
  AdtElements = {e1, e2}
  Refs = {r1, r2, r3}
  EvaluatedExpressions <- ExpressionPasses
INVARIANTS
  NamesAreThere
  ModulesRunInPythonsOrder
  ExpressionsRunLikePython
  PureFunctionsReturnPythonsValue
  ExtractionIsComplete
  ErasureKeepsTheRegularRun
  SubclassesKeepContracts
  TypesAreDecidedLikePython
  FieldsAreThere
  OperationsKeepTheirWord
  AlgebraicTypesAreDecidedLikePython
CHECK_DEADLOCK FALSE
