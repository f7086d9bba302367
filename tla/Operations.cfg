SPECIFICATION OperationsSpec
CONSTANTS
  r1 = r1 r2 = r2 r3 = r3 k1 = k1 k2 = k2
  operator = operator reader = reader agent = agent s1 = s1 s2 = s2 t1 = t1 t2 = t2
  Request = {r1, r2, r3}
  Key = {k1, k2}
  Op <- MCOp
  Scenarios <- MCScenarios
  Open = Open
  User = {operator, reader, agent}
  Operators = {operator, agent}
  Seeds = {s1, s2}
  MaxEdits = 1
  MaxAged = 1
  Team = {t1, t2}
  MaxUses = 1
  MaxValues = 2
INVARIANTS CalledAgainOnlyAfterLoss SuccessIsReal AppliedAgainOnlyAfterLoss ReplaysAgree RevokedRunsEnd RetryReplays DeliveriesBounded
SYMMETRY MCSymmetry
CHECK_DEADLOCK FALSE
