CONSTANTS
  Urls = {"a", "b", "c", "d"}
  Home = "a"
  Parts <- Pages
  Landings <- Redirects
  Target <- LinksTo
  Take = 2
  WireSize = 5
  HistorySize = 2
  Sessions <- AllSessions
  Width = 1024
  Height = 768
  normal_map <- Normal
  shifted_map <- Shifted
  Swapped <- OtherCase
  NoteSize = 2
  TerminalRows = 4
  CommandSize = 2
  BodyRows = 16
SPECIFICATION DesktopSpec
INVARIANTS WholeUnlessDropped HistoryCurrent InputExact PointerClean ScreenCurrent PressMatches NoteSafe NoDivideTrap
PROPERTY PageLoads
CHECK_DEADLOCK FALSE
