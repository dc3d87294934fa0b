SPECIFICATION SceneSpec
CONSTANTS
  Subjects = {s1, s2}
  AccountIds = {a1, a2, a3, a4}
  Guests = {g}
  Games = {x, y, z}
  Keys = {k1, k2}
  Identities = {i1, i2}
  Repositories = {r1, r2}
  StorageLimit = 2
  MaxCalls = 5
  None = None
  Kids = {d1, d2}
  Requests = {q1, q2}
  Documents <- MCDocuments
  Cooldown = 2
  Lifetime = 2
  MaxMissing = 1
  MaxTime = 5
SYMMETRY Symmetry
INVARIANTS OldBearersStayDead ClaimedOnce OneFreeAnalysis WithinLimit LoadsAreSpaced
PROPERTY AnswersAreBacked
