CONSTANTS
  small = small
  big = big
  Kinds = {small, big}
  Cut = {big}
  Size <- MCSize
  MaxBytes = 5
  BackupCount = 2
  Filters <- MCFilters
  Limits = {2, 9}
  MaxRecords = 6
  MaxTorn = 1
SPECIFICATION ASpec
INVARIANTS
  ATypeOK
  SizeBounded
  EndOfHistory
  NewestKept
  NothingSkipped
CHECK_DEADLOCK FALSE
