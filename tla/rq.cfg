CONSTANTS
  j1 = j1
  j2 = j2
  c1 = c1
  c2 = c2
  w1 = w1
  w2 = w2
  r1 = r1
  None = None
  Jobs = {j1}
  Clients = {c1, c2}
  Workers = {w1, w2}
  Runners = {r1}
  MaxQueued = 3
  MaxCrashes = 2
SPECIFICATION FairSpec
INVARIANTS TypeOK   OneTask
PROPERTIES ClaimedOnce 
