SPECIFICATION FairSpec
CONSTANTS
  Senders = {r1, r2, r3}
  Keys = {k1}
  Bodies = {b1, b2}
  Faults = {"fail", "crash", "unsettled", "sweep"}
  MaxEffects = 2
INVARIANTS OneOwner AnswersAreFaithful OwnersActOnce
PROPERTY StuckKeysAreFreed
CHECK_DEADLOCK FALSE
