SPECIFICATION Spec
CONSTANTS
  MaxCommits = 3
  MaxStreams = 3
  MaxRestarts = 2
INVARIANTS
  EnvoyFollows
  ClustersFirst
PROPERTIES
  ListenersNeverOlder
CHECK_DEADLOCK FALSE
