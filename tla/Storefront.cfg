SPECIFICATION Spec
CONSTANTS
  Skus = {guide, pack}
  Orders = {o1, o2}
  Elsewhere = {o2}
  Drafts = {d1}
  NoSku = NoSku
  NoOrder = NoOrder
  Waiting = Waiting
  Failed = Failed
  Limit = 2
  MaxCalls = 1
INVARIANTS
  TypeOK
  FiledUnderItsProduct
  PatientBuyerSeesItsOwn
PROPERTIES
  NeverTurnsBack
SYMMETRY Symmetry
CHECK_DEADLOCK FALSE
