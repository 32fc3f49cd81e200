CONSTANTS
  b1 = b1
  b2 = b2
  t1 = t1
  t2 = t2
  t3 = t3
  ann = ann
  bob = bob
  Names <- MCNames
  Browsers <- MCBrowsers
  Tabs <- MCTabs
  BrowserOf <- MCBrowserOf
  Lifetime = 2
  MaxTokens = 2
  MaxNow = 2
SPECIFICATION Spec
SYMMETRY Symmetry
INVARIANTS
  TypeOK
PROPERTIES
  SessionsLast
  LogoutIsFinal
