\* Seven events of one or two bytes in files of three, two backups, three kills.
CONSTANTS
  None = None
  MaxBytes = 3
  MaxBackups = 2
  Sizes = {1, 2}
  MaxEvents = 7
  MaxKills = 3
SPECIFICATION Spec
INVARIANTS TypeOK OldestGoFirst SizeBounded
PROPERTY ImplementsEventLog
