SPECIFICATION BatchSpec
CONSTANTS
  Workers = {"w1", "w2"}
  Stoppers = {"console"}
  MaxBlocks = 3
PROPERTIES
  MinesOnTop
