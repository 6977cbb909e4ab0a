SPECIFICATION Spec
CONSTANT THREAD_COUNT = 4
INVARIANT SearchExact
INVARIANT StructuresHold
INVARIANT ResultsRight
CHECK_DEADLOCK FALSE
