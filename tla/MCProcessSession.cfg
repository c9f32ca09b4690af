\* Run with or without a text, two calls of Continue, a pipe or a terminal.
SPECIFICATION FairSession
CONSTANTS
  Run = Run
  First = first
  Second = w1
  Third = w2
  Writers = {first, w1, w2}
  MaxWaiters = 1
  Nobody = Nobody
CHECK_DEADLOCK FALSE
CONSTRAINT InOrder
INVARIANTS
  SessionInv
  TextsNotInterleaved
  AnswersMatchInput
PROPERTIES
  CloseEnds
  ProcessEnds
  CallsReturn
