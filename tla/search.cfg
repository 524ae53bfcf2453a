\* Bounds and exclusions in pools of one to eight addresses; preferred addresses,
\* pick lists and exclusions that do not parse.
SPECIFICATION FairSpec
CHECK_DEADLOCK FALSE
CONSTANTS
  MaxIP = 7
  Nil = Nil
  Unparsed = Unparsed
  CIDRs <- Blocks
  Pools <- AnySize
  Confs <- Calls
INVARIANTS FirstFree FailsOnlyWhenFull
PROPERTIES EntriesKept AssignReturns
