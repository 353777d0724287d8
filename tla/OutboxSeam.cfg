SPECIFICATION FairSpec
CONSTANTS
  r1 = r1
  r2 = r2
  x = x
  y = y
  Rows = {r1, r2}
  Servers = {x, y}
  BatchLimit = 2
  MaxPostAttempts = 2
  MaxFaults = 1
  Hazards = {"post_refused", "answer_lost", "dispatch_fails", "store_fault", "crash"}
INVARIANTS
  ToldAtMostOnce
  NothingForgotten
PROPERTIES
  EveryRowSettles
