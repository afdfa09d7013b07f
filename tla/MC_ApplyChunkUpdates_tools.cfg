\* One run of the patcher over the index.js it was written for.
CONSTANTS
  Hole = Hole
  Originals <- MCOriginals
  ToolNames <- MCToolNames
  MaxRuns = 1
  Gaps = {10}

SPECIFICATION Spec

INVARIANT ToolsArrayValid
