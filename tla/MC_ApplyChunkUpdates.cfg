\* Three runs of the patcher, each started at least a second after the
\* previous one, killed or not at any write.
CONSTANTS
  Hole = Hole
  Originals <- MCOriginals
  ToolNames <- MCToolNames
  MaxRuns = 3
  Gaps = {10, 13}

SPECIFICATION Spec

INVARIANTS
  TypeOK
  OriginalRecoverable

PROPERTIES
  BackupBeforeWrite
