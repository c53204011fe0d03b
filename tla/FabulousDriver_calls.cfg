SPECIFICATION FairSpec
CONSTANTS
  t1 = t1
  t2 = t2
  Threads = {t1, t2}
  Free = Free
  IoValues = {0, 1}
  IoZero = 0
  PadValues = {0}
  PadZero = 0
  Versions <- Probed
  CountMod = 4
  Images <- UnevenImage
  MaxPolls = 2
  MaxFaults = 1
INVARIANTS TypeOK RegisterMatchesRequests LoadOkMeansStream ErrorsAreReal ShieldConfirmed ActiveNeedsLoad
PROPERTY EveryCallReturns
