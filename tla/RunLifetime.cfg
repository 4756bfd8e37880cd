SPECIFICATION Spec
CONSTANTS
  Ports = {p1, p2}
  CallsOfBody = 2
INVARIANTS RestartIsReal ServersAreKeptApart SurvivorsHaveAReason
PROPERTIES RunEnds
