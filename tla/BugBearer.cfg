SPECIFICATION Spec
CONSTANTS
  Subjects = {s}
  AccountIds = {a, b}
  Guests = {}
  Games = {}
  Keys = {k}
  Identities = {i, j}
  Repositories = {}
  StorageLimit = 1
  MaxCalls = 4
  None = None
PROPERTY RowRevivesNoBearer
