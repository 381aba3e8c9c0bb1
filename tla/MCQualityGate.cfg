SPECIFICATION Spec
CONSTANTS
  Paths <- MCPaths
  TopOf <- MCTopOf
  Mentions <- MCMentions
  Above <- MCAbove
  Within <- MCWithin
  SymbolOf <- MCSymbolOf
  ApiFiles = {"a.yaml", "b.yaml", "c.yml"}
  Cases = {"g", "h"}
  Rows <- MCRows
  Trees <- MCTrees
  Docs <- MCDocs
  Lists <- MCLists
  Goldens <- MCGoldens
  Pins <- MCPins
  MaxRows = 3
  MaxEdits = 3
  Limits <- MCLimits
  Initial <- MCInitial
INVARIANTS TypeOK  SurfaceIsMapped CountsAgree NothingIsTolerated
CHECK_DEADLOCK FALSE
