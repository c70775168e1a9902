CONSTANTS
  Scripts = {s1, s2}
  MaxRuns = 2
SPECIFICATION Spec
INVARIANT BackupIsCold
\* Only MaxRuns scripts are started.
CHECK_DEADLOCK FALSE
