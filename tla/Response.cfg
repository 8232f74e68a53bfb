SPECIFICATION FairSpec
CONSTANTS
  Lengths = {0, 2, 3}
  MaxData = 2
  MaxTries = 1
INVARIANTS AnswerIsAsMeant FailureIsAnswered HeaderIsSentOnce KeptAsTold NothingLeaks
PROPERTY RequestEnds
CHECK_DEADLOCK FALSE
