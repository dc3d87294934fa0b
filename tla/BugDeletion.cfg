SPECIFICATION Spec
CONSTANTS
  Managers <- MCManagers
  Notifiers <- MCNotifiers
  Server = Server
  Owners = {a, g}
  Accounts = {a}
  Scopes <- MCScopes
  Threads <- MCThreads
  MaxOwnerResources = 1
  MaxRequests = 2
  None = None
INVARIANT WorkersSurvive
