SPECIFICATION WatchSpec
CONSTANTS
  Links = {1, 2, 3}
  Names = {"eth", "wl"}
  AdminSets = {"wl"}
  Replugs = FALSE
  MaxChanges = 5
INVARIANTS
  WatchTypeOK
  ViewFollows
  RoutedTracked
PROPERTIES
  OnlyTransitions
  CatchesUp
  RoutesFollow
  RulesManaged
