SPECIFICATION Spec
CONSTANTS
  Car = {1, 2, 3}
  Model = {"m1", "m2"}
  Brand = {"b1"}
  Sheets <- MCSheets
  Sizes = {2}
  None = "none"
  MAX_VALUE = 3
  Size = {2}
  Chains <- MCChains
INVARIANTS ShowroomInv ResentChangesNothing SeenTwiceOnlyIfGained MissedOnlyIfLost DeletedAreHidden
PROPERTY SecondCarOnlyByRename
