SPECIFICATION Spec
CONSTANTS
  Groups = {g1}
  Speeds = {s1}
  MaxFailures = 1
INVARIANTS
  Programmed
  FlowControl
  QuietWhenStopped
CHECK_DEADLOCK FALSE
