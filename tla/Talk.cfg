CONSTANTS
  Users = {u1, u2}
  Nobody = Nobody
  Handlers = {h1, h2}
  EnabledOps <- TalkOps
  MaxOffers = 2
  MaxTexts = 1
  Started = TRUE
  MayFail = FALSE
SPECIFICATION FairSpec
INVARIANTS TypeOK NewsIsCounted
PROPERTIES AcceptReachesDeal
