SPECIFICATION FairSpec
CONSTANTS
  t0 = t0
  t1 = t1
  Texts <- MCTexts
  Contents <- MCTexts
  Blank = t0
  InitialContent = t1
  NoText = NoText
  MaxEdits = 2
  MaxSaves = 3
  MaxQueue = 2
  MaxCommands = 2
  MaxFaults = 2
INVARIANTS NoWaiterLost LeaveKeepsText BlockFollowsRecord
PROPERTIES SavedIsNewest OnlyManualPublishes LeaveEnds
CHECK_DEADLOCK FALSE
