SPECIFICATION FairSpec
CONSTANTS
  c1 = c1  h1 = h1  e1 = e1  m1 = m1  s1 = s1  a = a  None = None
  Settings = {s1}
  Credentials = {a}
  Cred <- MCCred
  Interactive = {a}
  Managers = {m1}
  Frozen = {}
  Callers = {c1}
  Handlers = {h1}
  Editors = {e1}
  MaxIssues = 2
INVARIANTS CodeSentOnce NewestTokenKept
PROPERTIES RotatedTokenIsRetired EveryCallEnds
CHECK_DEADLOCK FALSE
