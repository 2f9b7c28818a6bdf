SPECIFICATION FairSpec
CONSTANTS
  Tabs <- OneTab
  Cap = 1
  MaxLogs = 2
  MaxCmds = 1
  MaxConns = 3
  MaxDrops = 1
INVARIANTS TypeOK HistoryThenLive ToldEverything DoneHasOutcome
PROPERTIES EventuallyTold
CHECK_DEADLOCK FALSE
