SPECIFICATION Spec
CONSTANTS
  Templates = {t1}
  Conds = {c}
  Slack = {"recursive"}
  MaxSegs = 7
  MaxDepth = 3
  MaxRequests = 1
  Page = Page
  NoObj = NoObj
CHECK_DEADLOCK FALSE
INVARIANT AjaxEscaped
