SPECIFICATION Spec
CONSTANTS
  Names = {"localhost", "db"}
  Garbage = "garbage"
  Localhost = "localhost"
  Needs <- MCNeeds
  Selected = {"localhost", "db"}
  FirstFile <- MCFile
  Requests = {r1, r2}
  MaxEdits = 2
  Spare = 0
SYMMETRY Symmetry
INVARIANTS StartsAgain EveryServerPolled
PROPERTIES ImplementsConfigStore
