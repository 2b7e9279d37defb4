SPECIFICATION FairSpec
CONSTANTS
  Default = f1
  Pro = pro
  Blank = Blank
  NONE = NONE
  ApiKeys = {a1, a2}
  FlagKeys = {f1, f2}
  Plans = {pro, free}
  MaxClicks = 5
  MaxChanges = 2
  MaxFaults = 2
INVARIANTS
  OldFlagAtMostOnce
PROPERTIES
  NeverOlder
  ShowsTheFlag
CHECK_DEADLOCK FALSE
