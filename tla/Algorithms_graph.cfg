CONSTANTS
  Proc <- Three
  MaxDist = 31
  Inputs <- All
SPECIFICATION FairAlgorithmsSpec
INVARIANTS NoFalseConnection SearchesInOrder ShortestPathsFound RanksExact ProperlyColored Biconnected MinimumForest EndsAgree EverythingPlaced
PROPERTY AlgorithmsEnd
