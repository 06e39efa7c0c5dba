SPECIFICATION Spec
CONSTANTS
  Phone = {p1, p2}
  Token = {t1, t2}
  Device = {d1, d2}
  Nobody = Nobody
  Asked = {"health", "decisions", "DELETE decisions", "devices"}
  Thread = {h1, h2}
  Identity = {i1}
  Credential = {c1, c2}
  Nothing = Nothing
  Called = {"record-decision", "predict-choice", "preference-summary", "model-summary", "find-similar-decisions", "record-outcome", "delegation-requests"}
  ScopeSet = {{"decision:record"}, {"decision:predict", "preference:summary:read"}, {"model:summary:read", "outcome:record", "agent:delegate"}}
SYMMETRY Symmetry
INVARIANTS
  TokenPairsOnce
  VisitWasAllowed
  CallWasAllowed
CHECK_DEADLOCK FALSE
