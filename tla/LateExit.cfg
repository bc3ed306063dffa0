SPECIFICATION Spec
CONSTANTS
  Offset = 2
  Sanity = 4
  MaxGap = 1
  Window = 2
  Trusted = 1
  Rewrite = 1
  Drift = 0
  MaxTime = 4
  ExitAge = 1
  Cooldown = 2
  Failures = {"calendar_unavailable", "error"}
PROPERTY
  ExitNeverLate
