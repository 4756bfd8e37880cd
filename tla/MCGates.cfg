SPECIFICATION Spec
CONSTANTS
  MaxCount = 5
  MaxChanges = 1
  MaxEdits = 4
  Name = {a, b}
  MaxLength = 4
  LastPath = 2
  ScanEdits = 1
  BuildChanges = 2
INVARIANTS
  ReturnedCanBeWritten VersionsDoNotMix ChangesAreNoticed
  AcceptedIsWritten GuardsLeaveOneName EveryPathAccounted ArchivesAgree
