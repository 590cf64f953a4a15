\* One draft, two draft commands, two click handlers, three clicks.
SPECIFICATION Spec
CONSTANTS
  NoPolicy = NoPolicy
  NoFile = NoFile
  Texts <- MCTexts
  Requests <- MCRequests
  Places <- MCPlaces
  EditStatus = {}
  EditFlags = {"requires_confirmation"}
  Command = {c1, c2}
  Handler = {h1, h2}
  MaxDrafts = 1
  MaxTasks = 2
  MaxClicks = 3
  MaxIncidents = 1
SYMMETRY Symmetry
INVARIANTS
  TypeOK
  DraftBecomesTask
  RiskyTasksAsk
  SettledViewIsCurrent
  BridgeFollowsPlanner
CHECK_DEADLOCK FALSE
