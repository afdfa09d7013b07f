\* One invocation over every kind of input, with and without --thumbnail,
\* with and without a file already at the thumbnail path.
CONSTANTS
  Files <- MCFiles
  LoadFails = LoadFails
  NoMesh = NoMesh

SPECIFICATION Spec

INVARIANT
  ThumbnailAccounted
