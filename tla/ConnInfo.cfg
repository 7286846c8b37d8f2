SPECIFICATION Spec
CONSTANT MaxText = 5
INVARIANTS TypeOK AsGivenIfPlain EmptyTakesNext RefusedOnlyForBlankOrQuote
CHECK_DEADLOCK FALSE
