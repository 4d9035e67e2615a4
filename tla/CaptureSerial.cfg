CONSTANTS
  p1 = p1
  p2 = p2
  p3 = p3
  k1 = k1
  k2 = k2
  NoKey = NoKey
  Photos = {p1, p2, p3}
  Unclear = {p3}
  Handlers = {h1}
  EnabledOps = {"finalize", "retry", "delete_sale"}
  Keys = {k1, k2}
  MaxGroups = 2
  MaxAttempts = 2
  MaxRuns = 2
  Fallible <- Steps
  MayCrash = TRUE
SYMMETRY Alike
SPECIFICATION Spec
INVARIANTS TypeOK CapturedOnce NothingLost DeletedMeansGone FailedIsRetryable
PROPERTIES FollowsDiagram
CHECK_DEADLOCK FALSE
