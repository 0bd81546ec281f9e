SPECIFICATION Spec
CONSTANTS
  FileSettings <- InFile
  EnvSettings <- InEnv
  SetterSettings <- WithSetters
  Values <- Sizes
  MaxCalls = 2
INVARIANT ConfigIsUsed
CHECK_DEADLOCK FALSE
