SPECIFICATION Spec
CONSTANTS
    MaxValues = 2
    MaxText = 1
INVARIANT ProperlyFormatted
CHECK_DEADLOCK FALSE
