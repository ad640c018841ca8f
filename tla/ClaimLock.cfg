SPECIFICATION FairSpec
CONSTANTS
  s1 = s1
  s2 = s2
  s3 = s3
  v1 = v1
  v2 = v2
  None = None
  Solve = {s1, s2}
  Review = {v1}
  TTL = 1
  MaxUnits = 1
  MaxPush = 2
  MaxCrash = 1
CHECK_DEADLOCK FALSE
INVARIANTS TypeOK Exclusive OneClaimComment MergedHeadReviewed DoneWasMerged
PROPERTY NeverDeadlocked
