\* Three servers, two starts each, with the seeds that the scripts give them or
\* with none, so that requests go round in a cycle, too.
SPECIFICATION FairSpec
CONSTANTS
  Servers = {1, 2, 3}
  NoServer = 0
  Seeds <- Scripts
  Retries = 1
  MaxStarts = 2
INVARIANTS TypeOK AmnesiacNotAdmitted
PROPERTY StartUpEnds
