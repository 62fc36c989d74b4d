CONSTANTS
  Configs <- MC_Configs
  Contracts <- MC_Contracts
  None = None
  Corrupt = Corrupt
SPECIFICATION FairSpec
\* Nothing happens after the last round.
CHECK_DEADLOCK FALSE
INVARIANTS
  ShrinksRight
  VerdictRight
PROPERTIES
  FoundAgain
  RoundEnds
