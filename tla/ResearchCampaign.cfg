SPECIFICATION Spec
CONSTANTS
  w1 = w1
  w2 = w2
  t1 = t1
  t2 = t2
  c1 = c1
  Workers = {w1, w2}
  Trials <- TwoTrials
  NoItem = NoItem
  NoOwner = NoOwner
  Others = {}
  LeaseTime = 2
  MaxItems = 1
  TotalLimit = 2
  MaxAge = 2
  MaxFaults = 1
INVARIANT CompletedIsQualified
