CONSTANTS
  Urls <- MCUrls
  Answers <- MCAnswers
  MaxBytes = 2
  Chunks = {1, 3}
  MaxNow = 4
  Retention = 3
  MaxRecords = 3
  PageSize = 1
  Window = 2
  Overlap = FALSE
SPECIFICATION FairSpec
CHECK_DEADLOCK FALSE
INVARIANTS
  TypeOK
  ConnectsToPermitted
  FreshAnswer
  WalkMissesNothing
  NoFalseDowntime
PROPERTIES
  CountedProbesEnd
