SPECIFICATION FairSpec
CONSTANTS
  m1 = m1
  m2 = m2
  m3 = m3
  Msgs = {m1, m2, m3}
  MaxEnds = 2
  Hazards = {"dispose", "crash", "rejects", "no_session", "store_fault"}
INVARIANTS
  OneTurnAtATime
  ArrivalOrder
  NothingForgotten
PROPERTIES
  QueueMovesOn
CHECK_DEADLOCK FALSE
