SPECIFICATION Spec
CONSTANTS
  FileSettings <- InFile
  EnvSettings <- InEnv
  SetterSettings <- WithSetters
  Values <- Sizes
  MaxCalls = 2
INVARIANTS TypeOK StrongestSourceWins RequiredIsAskedFor AdaptiveWindowOverrides OptionsArrive
CHECK_DEADLOCK FALSE
