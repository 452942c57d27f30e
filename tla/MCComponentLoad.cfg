CONSTANTS
  Dirs = {"user", "system"}
  Disk <- MCDisk
  Requests <- MCRequests
  FirstPaths <- MCFirstPaths
  NoFile = NoFile
  Default = Default
  NoInclude = NoInclude
  Missing = Missing
  MaxDepth = 2
  MaxChanges = 2
SPECIFICATION Spec
INVARIANTS
  TypeOK
  LoadsWhatIsThere
  SameFileAgain
  GroupsAsAsked
PROPERTY LoadEnds
CHECK_DEADLOCK FALSE
