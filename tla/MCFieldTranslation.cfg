SPECIFICATION FairFieldSpec
CONSTANTS
  c1 = c1  c2 = c2  c3 = c3  k1 = k1  t1 = t1  None = None
  Callers = {c1, c2, c3}
  Keys = {k1}
  Tokens = {t1}
  Pool <- MCPool
  Fits <- MCFits
  Limit <- MCLimit
  Interval <- MCInterval
  MaxAge = 1
  Plan <- MCPlan
  Data <- MCData
INVARIANTS NoStampede ReportIsTrue
PROPERTIES GrantedWithinLimit EveryObjectEnds
CHECK_DEADLOCK FALSE
