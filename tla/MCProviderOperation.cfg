SPECIFICATION FairSpec
CONSTANTS
  Units = {u1}
  Revisions = {v1, v2}
  Bindings = {b1}
  Results = {x1, x2}
  Runners = {r1, r2}
  Reviewers = {w1}
  MaxAttempts = 2
  None = None
INVARIANTS AtMostOneSubmit AnswersAreSaved
PROPERTIES KeepsPromise PollingResolves
