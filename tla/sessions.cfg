SPECIFICATION GuardedSpec
CONSTANTS
  Requests = {t1, a1, p1}
  Trips = {t1}
  Shortlists = {a1}
  Posts = {p1}
  Logins = {l1}
  NoSearch = NoSearch
  Environments <- Deployments
  Unset = "unset"
  NoText = ""
  NoToken = NoToken
  OpenAccess = "open-access"
  MaxAge = 1
  MaxNow = 2
  MaxProcess = 2
INVARIANTS
  TypesOK
  LoggedIsKept
  RowsAreEarned
PROPERTY SessionsSurvive
CHECK_DEADLOCK FALSE
