SPECIFICATION Spec
CONSTANTS
  Wrappers = {w1, w2, w3}
  MaxUses = 1
INVARIANTS HandlesInv ReachesItsEngine NoneMissed NoneLeaks OneEngineUnlessAsked
PROPERTIES EveryCallAnswered
CHECK_DEADLOCK FALSE
