\* A call that follows a NULL pointer, or leaves a reference, is the last one.
CHECK_DEADLOCK FALSE
SPECIFICATION GetSbSpec
CONSTANT Requests <- MCRequests
INVARIANTS MediumRight Balanced
