SPECIFICATION Spec
CONSTANTS
    MaxPriority = 2
    MaxBound = 2
    MaxCapacity = 5
INVARIANTS FitsCapacity BoundsKept WorkConserving PriorityRespected SolutionBest
CHECK_DEADLOCK FALSE
