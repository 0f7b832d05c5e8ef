SPECIFICATION ThrowingSpec
CONSTANTS
  Blocks = {"g", "a", "b", "c", "d", "e"}
  Genesis = "g"
  Atoms <- MCAtoms
  Addendum <- MCAddendum
  Names = {"n1", "n2"}
  Addresses = {"x", "y"}
  NullSig = "none"
  AliasOf <- MCAliasOf
  MaxElements = 3
  MaxHeight = 4
  MaxKills = 1
INVARIANTS
  BackFound
