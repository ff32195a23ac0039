SPECIFICATION MCSpec
CONSTANTS
  Days = {1, 2, 3}
  Replay = 1
  PreviewScenes <- MCServerScenes
  PageSize = 1
  Visits <- MCPageVisits
INVARIANTS JournalTypeOK BlankListIsLoading PagesLineUp
PROPERTIES PreviewsConverge ModalStaysAsked PendingDayFills
CHECK_DEADLOCK FALSE
