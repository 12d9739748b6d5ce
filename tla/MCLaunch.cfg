SPECIFICATION Spec
CONSTANTS
  Launches = {s, d}
  Systemd = {s}
  HelperModes = {"direct"}
  MaxEntries = 5
  MaxFaults = 2
INVARIANTS
  GenerationStaysLeased
  EveryCrashIsReconcilable
PROPERTIES
  LeaseReleasedOnlyWhenEmpty
  LaunchesAreCollected
CHECK_DEADLOCK FALSE
