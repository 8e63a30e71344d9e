SPECIFICATION Spec
CONSTANTS
  Tabs = {t1, t2}
  Users = {ann, ben}
  MaxTokens = 2
  MaxLoads = 1
  Choices = {TRUE, FALSE}
  None = None
INVARIANTS
  TypeOK
  BuyerIsOwner
PROPERTIES
  OnlyOtherTabsDisagree
  SessionsAreChecked
CHECK_DEADLOCK FALSE
