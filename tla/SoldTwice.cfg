CONSTANTS
  b1 = b1
  b2 = b2
  i1 = i1
  i2 = i2
  Bundles = {b1}
  Items = {i1}
  Handlers = {h1, h2}
  Home <- Single
  NoBundle = NoBundle
  SaleDoc = SaleDoc
  EnabledOps <- SellingOps
  MayFail = FALSE
  MaxSoldTx = 2
SPECIFICATION Spec
INVARIANTS NoDoubleSale
