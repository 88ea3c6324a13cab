SPECIFICATION FairSpec
CONSTANTS
  User = {u1}
  Plan <- Limited
  BackupUsage = {1}
  Chunk = {1}
  MaxBytes = 2
  MaxRestarts = 1
  MaxFaults = 0
  MaxEdits = 1
  MaxDay = 2
PROPERTIES
  NoEarlyCutoff
  DuePurged
  OverrunPurged
