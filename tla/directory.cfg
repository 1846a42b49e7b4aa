SPECIFICATION DirectorySpec
CONSTANTS
  Names = {n1, n2}
  Handlers = {r1}
  Importer = importer
  MaxRows = 3
  FileRows = 2
  Nothing = Nothing
SYMMETRY Symmetry
INVARIANTS
  NamesClashOnlyByRaceOrEdit
  SyncedLoginIdFollows
  ImportIsWhole
CHECK_DEADLOCK FALSE
