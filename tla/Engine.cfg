SPECIFICATION SceneSpec
CHECK_DEADLOCK FALSE
CONSTANTS
  Questions <- AllQuestions
  Scores <- AllScores
  MaxInfo = 1
  MaxFaults = 1
  MaxStops = 2
  Siblings = {TRUE}
  Plies = 2
  Special = {}
  Inaccurate <- Losing
  Threshold = 1
  MaxDeep = 2
  Top = 1
  MaxEntries = 4
  MaxReviews = 1
  Callers = {c1, c2}
  Workers = {w1, w2}
  MaxPending = 2
  RetryLimit = 1
  Asked = {0, 2}
INVARIANTS CacheIsExact MistakesAreWorst AnsweredOnce NoLostWakeup
PROPERTIES ReviewsEnd InteractiveReturns DestructorReturns
