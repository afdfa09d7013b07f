\* Two runs of the patcher that may start within the same second.
CONSTANTS
  Hole = Hole
  Originals <- MCOriginals
  ToolNames <- MCToolNames
  MaxRuns = 2
  Gaps = {3, 12}

SPECIFICATION Spec

INVARIANT OriginalRecoverable
