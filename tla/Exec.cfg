SPECIFICATION Spec
CONSTANT
  MaxCalls <- MCMaxCalls
CHECK_DEADLOCK FALSE
INVARIANTS
  TypeOK
  TerminalReady
  CommandInForeground
PROPERTY
  ComesBack
