CONSTANTS
  Scripts = {s1, s2}
  MaxRuns = 3
SPECIFICATION Spec
INVARIANTS
  TypeOK
  CurrentIsComplete
  LoneBackupIsCold
PROPERTY ServiceComesBack
\* Only MaxRuns scripts are started.
CHECK_DEADLOCK FALSE
