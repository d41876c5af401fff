CONSTANTS
  r1 = r1
  r2 = r2
  manager = manager
  supervisor = supervisor
  Runs = {r1}
  First = First
  Partial = Partial
  NoRun = NoRun
  Stopped = Stopped
  NoBackup = NoBackup
  Manager = manager
  StopOrder <- MCStopOrder
  SchemaOf <- MCSchemaOf
  MaxEdits = 1
  Faults = {"step"}
SPECIFICATION DSpec
PROPERTIES
  EditsKept
