SPECIFICATION Spec
CONSTANTS
  Templates = {t1, t2}
  Conds = {c}
  Slack = {}
  MaxSegs = 7
  MaxDepth = 2
  MaxRequests = 2
  Page = Page
  NoObj = NoObj
SYMMETRY Perms
CHECK_DEADLOCK FALSE
INVARIANT LockReleased
PROPERTY ShowsItsMeaning
