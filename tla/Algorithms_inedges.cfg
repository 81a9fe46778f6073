CONSTANTS
  Proc <- Three
  MaxDist = 31
  Inputs <- TwoInEdges
SPECIFICATION FairAlgorithmsSpec
INVARIANT EndsAgree
