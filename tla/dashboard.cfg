CONSTANTS
  e1 = e1
  e2 = e2
  l1 = l1
  l2 = l2
  None = None
  Ids <- MCIds
  Loads <- MCLoads
  MaxPage = 2
  MaxClicks = 3
  MaxFailures = 1
SPECIFICATION FairSpec
INVARIANTS
  TypeOK
PROPERTIES
  PanelSettles
  DeletionSettles
