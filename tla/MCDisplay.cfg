SPECIFICATION DisplaySpec
CONSTANTS
  Levels = {"low", "high"}
  Unset = Unset
  Nothing = Nothing
  Panels = {"WhichKey"}
  Sizes = {1, 2}
  Keymaps = {1, 2}
  MaxChanges = 2
INVARIANT RedrawIsDue
PROPERTY BarShowsLatest
CHECK_DEADLOCK FALSE
