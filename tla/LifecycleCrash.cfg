CONSTANTS
  b1 = b1
  b2 = b2
  i1 = i1
  i2 = i2
  Bundles = {b1}
  Items = {i1, i2}
  Handlers = {h1}
  Home <- Nowhere
  NoBundle = NoBundle
  SaleDoc = SaleDoc
  EnabledOps <- CrashOps
  MayFail = TRUE
  MaxSoldTx = 2
SPECIFICATION Spec
INVARIANTS TypeOK NoDoubleSale LedgerTruthful
PROPERTIES ImplementsItemLedger
