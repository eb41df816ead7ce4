SPECIFICATION Spec
CONSTANTS
  Queue <- MCQueue
  Optional <- MCOptional
  MaxLacking = 1
INVARIANTS Balanced Asserted Undone LocksOrdered
