---------------------------- MODULE MCDraftEditor ----------------------------
EXTENDS DraftEditor, TLC

\* A user who hurries from task to task, and a patient one.
MCHabitSets == {Habits \ {"awaits_save"}, Habits}
MCHasty     == {{}}
MCSymmetry  == Permutations(Tasks)
=============================================================================
