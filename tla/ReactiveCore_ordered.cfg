SPECIFICATION FairSpec
CONSTANTS
  delivery = delivery
  other = other
  Events = {delivery}
  OtherEvent = other
  MaxRows = 3
  MaxInFlight = 1
  MaxAttempts = 2
  MaxFaults = 2
  Hazards = {"foreign", "react_fails", "crash", "store_fault"}
PROPERTIES
  LedgerSpec
  EveryRowSettles
