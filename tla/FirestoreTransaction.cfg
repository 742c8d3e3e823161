SPECIFICATION FairSpec
CONSTANT MaxAttempts = 3
PROPERTY TransactionEnds
CHECK_DEADLOCK FALSE
