CONSTANTS
  b1 = b1
  b2 = b2
  i1 = i1
  i2 = i2
  Bundles = {b1, b2}
  Items = {i1, i2}
  Handlers = {h1}
  Home <- OneAndOne
  NoBundle = NoBundle
  SaleDoc = SaleDoc
  EnabledOps <- SerialOps
  MayFail = FALSE
  MaxSoldTx = 2
SPECIFICATION FairSpec
INVARIANTS RollsUpAutomatically LedgerComplete
PROPERTIES LastCopyKept SaleSoldCompletes
