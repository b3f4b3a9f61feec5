SPECIFICATION AddressedSpec
CONSTANTS
  NoState = NoState
  WindowBits = 2
  Budgets <- MCBudgets
PROPERTIES
  EverySenderServed
CHECK_DEADLOCK FALSE
