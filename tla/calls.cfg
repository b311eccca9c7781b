CONSTANTS
  Plans <- AllPlans
  Firsts <- AllFirsts
  MaxSteps = 4
SPECIFICATION Spec
CHECK_DEADLOCK FALSE
PROPERTIES CallsKeep
