SPECIFICATION Spec
CONSTANTS
    MaxValues = 3
    MaxText = 2
INVARIANTS TypeOK ReadBackWhenFirstIsTyped TextStaysQuoted ReadingInv
CHECK_DEADLOCK FALSE
