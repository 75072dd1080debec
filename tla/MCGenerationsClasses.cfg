CONSTANTS
  Script <- MCScript
  MaxScripts = 3
SPECIFICATION Spec
CHECK_DEADLOCK FALSE
INVARIANT CleanStart
