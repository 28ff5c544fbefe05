CONSTANTS
  Clients = {c1, c2}
  Ids = {s1, s2, s3}
  MaxSessions = 2
  TTL = 1
  MaxTime = 2
  NoOne = NoOne
SPECIFICATION Spec
INVARIANTS
  TypeOK
  LimitRespected
  OpenIsOwned
PROPERTIES
  NoExpiredServed
  RequestsAnswered
  RemovedIsReleased
