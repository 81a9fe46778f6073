\* Handlers that fill a batch while their process tells the others that it has
\* nothing new.
SPECIFICATION ProcessGroupSpec
CONSTANTS
  Proc <- Three
  batch_header_number = 2
  Routes <- Relays
  MaxSends = 1
  MaxStep = 1
INVARIANTS
  CountsMatch
