SPECIFICATION Spec
CONSTANTS
  MaxCalls = 3
  MaxStarts = 2
  MaxNoise = 1
INVARIANTS OwnAnswer InitializedFirst ClosedStopsChild
PROPERTIES KeepsContract 
CHECK_DEADLOCK FALSE
