SPECIFICATION FairSpec
CONSTANT MaxAttempts = 2
CHECK_DEADLOCK FALSE
INVARIANTS TypeOK AcceptedIsPassed OneSession OnlyBadStartTerminates
PROPERTY AttemptsEnd
