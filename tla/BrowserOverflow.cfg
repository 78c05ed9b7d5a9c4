CONSTANTS
  Urls = {"a", "b", "c"}
  Home = "a"
  Parts <- Pages
  Landings <- Redirects
  Target <- LinksTo
  Take = 2
  WireSize = 5
  HistorySize = 2
  Sessions <- Streaming
SPECIFICATION Spec
INVARIANT VisibleWhole
CHECK_DEADLOCK FALSE
