CONSTANTS
  b1 = b1
  b2 = b2
  i1 = i1
  i2 = i2
  Bundles = {b1, b2}
  Items = {i1, i2}
  Handlers = {h1, h2}
  Home <- OneAndOne
  NoBundle = NoBundle
  SaleDoc = SaleDoc
  EnabledOps <- CrossingOps
  MayFail = TRUE
  MaxSoldTx = 1
SPECIFICATION Spec
SYMMETRY Symmetric
INVARIANTS SaleSynced BundleSynced
