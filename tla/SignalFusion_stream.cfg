\* One symbol, both sides; an entry waits one cycle before it can be claimed.
SPECIFICATION FairSpec
CHECK_DEADLOCK FALSE
CONSTANTS
  Symbols = {"BTC"}
  Hold = 2
  Ttl = 2
  Idle = 1
  ReadCount = 2
  ClaimBatch = 1
  MaxTime = 3
  MaxSignals = 3
  MaxFaults = 1
INVARIANTS UnstoredStaysPending DoublesRaced HeldSideWasEarned
PROPERTIES PublishedIsStored
