SPECIFICATION FairSpec
CONSTANTS
  r1 = r1
  r2 = r2
  None = None
  MaxFaults = 2
  Runs <- MCRuns
  Worlds <- MCWorlds
INVARIANTS
  FilesAreClean
  ExitStatusIsRight
  DebugFileOfOutput
  OneLinkAtATime
PROPERTIES
  EveryRunEnds
