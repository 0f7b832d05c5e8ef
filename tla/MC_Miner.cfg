SPECIFICATION FairSpec
CONSTANTS
  Workers = {"w1", "w2"}
  Stoppers = {"console", "rpc"}
  MaxBlocks = 2
PROPERTIES
  StopEnds
  MinesOnTop
