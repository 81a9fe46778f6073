\* Supersteps of two processes: batches of two messages, handlers that answer.
SPECIFICATION FairProcessGroupSpec
CONSTANTS
  Proc <- Two
  batch_header_number = 2
  Routes <- Answers
  MaxSends = 2
  MaxStep = 2
INVARIANTS
  ProcessGroupTypeOK
  StagesInStep
  CountsMatch
PROPERTIES
  KeepsPromise
  StepsEnd
