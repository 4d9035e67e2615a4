CONSTANTS
  Users = {u1, u2}
  Nobody = Nobody
  Handlers = {h1}
  EnabledOps <- HaggleOps
  MaxOffers = 3
  MaxTexts = 0
  Started = FALSE
  MayFail = TRUE
SPECIFICATION Spec
VIEW ButTheCounters
INVARIANTS ActiveIsPending CardsFollowAnswers DealIsAccepted
PROPERTIES SettledOnce PhoneNeedsDeal
SYMMETRY Symmetric
