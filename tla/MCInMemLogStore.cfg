\* The window, the readers and the refinement, without the disk emulation.
SPECIFICATION Spec
CONSTANTS
  Entry = {e1, e2}
  Dummy = dummy
  Readers = {r1}
  Delays = {}
  MaxIndex = 3
  MaxPack = 2
  MaxTime = 0
INVARIANTS TypeOK Contiguous ReadsAreSlices CrashOnlyIfOvertaken
PROPERTY ImplementsRaftLog
