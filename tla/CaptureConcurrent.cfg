CONSTANTS
  p1 = p1
  p2 = p2
  p3 = p3
  k1 = k1
  k2 = k2
  NoKey = NoKey
  Photos = {p1}
  Unclear = {}
  Handlers = {h1, h2}
  EnabledOps = {"finalize", "retry", "delete_sale",
                "publish_sale", "archive_sale"}
  Keys = {NoKey}
  MaxGroups = 1
  MaxAttempts = 1
  MaxRuns = 2
  Fallible = {}
  MayCrash = FALSE
SPECIFICATION FairSpec
INVARIANTS NoOrphanedStatus
PROPERTIES ProcessingEnds
CHECK_DEADLOCK FALSE
