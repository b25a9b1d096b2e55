SPECIFICATION Spec
CONSTANTS
  Tasks = {t1, t2}
  MaxEdits = 2
  MaxRuns = 1
  MaxPuts = 2
  MaxCheckpoints = 1
  MaxSwitches = 2
  HabitSets <- MCHabitSets
  Nothing = Nothing
  Asked = Asked
INVARIANTS TypeOK SavesStayApart SavedIsStored CheckpointHoldsPage SavingIsPending
PROPERTIES OwnEditsKept
CHECK_DEADLOCK FALSE
SYMMETRY MCSymmetry
