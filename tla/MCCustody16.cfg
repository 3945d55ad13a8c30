SPECIFICATION Spec
CONSTANTS
  Root = "/"
  Children <- MCChildren
  Links = {"l"}
  Absent = Absent
  BaseLane <- MCBaseLane
  LaneBytes = 2
  Lanes = 2
  IoBytes = 4
  MaxDepth = 2
  MaxEntries = 2
  FileLengths <- MCFileLengths
  MaxChanges = 2
  MaxRuns = 2
INVARIANTS
  SealedIsTreeBetween
  NoFalseAlarm
  VerifiedFilesAreOneRun
\* Nothing happens once the last run has ended.
CHECK_DEADLOCK FALSE
