\* By hand: a configuration that the envoy service refuses is never shown.
SPECIFICATION Spec
CONSTANTS
  MaxCommits = 2
  MaxStreams = 1
  MaxRestarts = 0
INVARIANTS
  LastCommitShown
CHECK_DEADLOCK FALSE
