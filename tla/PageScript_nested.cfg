SPECIFICATION Spec
CONSTANTS
  Templates = {t1}
  Conds = {c}
  Slack = {"nested"}
  MaxSegs = 7
  MaxDepth = 2
  MaxRequests = 1
  Page = Page
  NoObj = NoObj
CHECK_DEADLOCK FALSE
INVARIANT HiddenStaysHidden
