SPECIFICATION FairSpec
CONSTANTS
  N = 8
  IndexChunk = 3
  RpmChunk = 5
  Nameless <- MCNameless
  MaxFaults = 2
INVARIANTS ListInOrder NothingElseOmitted RejectedOnce PiecesSuffice
PROPERTIES LoadEnds
CHECK_DEADLOCK FALSE
