\* Three runs of the process that rotate after every second line.
SPECIFICATION Spec
CONSTANTS
  Limits = {0, 1, 2}
  MaxFileSize = 1
  MaxLines = 8
  MaxRuns = 3
INVARIANTS TypeOK NewestReadable OrderKept CurrentNotArchived NoneBelowMin
