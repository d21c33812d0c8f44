\* A copy into the directory the source is in.
SPECIFICATION FilesSpec
CONSTANTS
  Names = {"a", "b"}
  MaxDepth = 3
  SourceLists <- MCSourceLists
  DestDirs <- MCDestDirs
  InitialTrees <- MCTrees
  FileCalls = {f1}
  MaxChanges = 2
PROPERTIES
  CopyKeepsSources
\* The requests are bounded in number, and end.
CHECK_DEADLOCK FALSE
