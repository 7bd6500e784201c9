SPECIFICATION StatementsSpec
CONSTANTS
  None = None
  Depth = 2
  Bodies <- Encodables
  MatchStatements <- MatchPasses
  NamedPrograms <- NamePasses
  AssignmentPrograms <- AssignmentPasses
  Exceptions = {"E1", "E2"}
  Junk = {"E2"}
  MaxOutcomes = 3
  MaxEvents = 40
  ExitSwallows = FALSE
INVARIANTS
  RunsLikePython
  MatchesLikePython
  AssignmentsRunLikePython
  NamesMeanPythonsVariables
PROPERTY
  AlwaysLeaves
