CONSTANTS
  Page = {1, 2}
  Flags = {{}, {"NOSYNC"}, {"ASYNC"}, {"NOSYNC", "ASYNC"}}
  MaxLevel = 2
SPECIFICATION Spec
INVARIANT WaitedSyncIsDurable
