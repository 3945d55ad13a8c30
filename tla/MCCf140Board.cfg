SPECIFICATION FairSpec
CONSTANTS
  RetryLimit = 1
  Requested <- MCRequested
  SequenceModulus = 2
  MaxArms = 2
INVARIANTS
  GuardTypeOK
  AttemptsWithinBudget
  ResetBeforeResume
  CommitConfirmed
PROPERTIES
  WaitingEnds
