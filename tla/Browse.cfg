CONSTANTS
  b1 = b1
  b2 = b2
  i1 = i1
  i2 = i2
  Bundles = {b1, b2}
  Items = {i1, i2}
  Handlers = {h1}
  Home <- OneAndOne
  NoBundle = NoBundle
  SaleDoc = SaleDoc
  EnabledOps <- MarketOps
  MayFail = FALSE
  MaxSoldTx = 1
  Visitors = {v}
  Pages = {"search", "landing", "item"}
  Priced = {i1}
SPECIFICATION MarketSpec
INVARIANTS AnswerIsRight
