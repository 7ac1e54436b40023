SPECIFICATION MCSpec
CONSTANTS
  nopage = nopage
  NoPage <- nopage
  Page <- MCPage
  Missing <- MCMissing
  Lines <- MCLines
  MaxFiles = 2
  MaxPages = 3
INVARIANTS
  TemplateTypeOK
  RendersPage
  NilOnlyForNothing
  EachOnce
  LeftoverOnlyAfterRaise
CHECK_DEADLOCK FALSE
