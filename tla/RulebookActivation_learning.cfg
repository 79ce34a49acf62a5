\* Two requests of the operator beside the learning job; the index is empty
\* between changes, so nothing but the bounds stops the system.
SPECIFICATION FairSpec
CHECK_DEADLOCK FALSE
CONSTANTS
  Requests = {"q1", "q2"}
  MaxProposals = 4
  MaxChanges = 4
INVARIANTS ChangesChain AdoptedOverParent RevertUndoesAdoption
PROPERTIES RequestsEnd
