CONSTANTS
  NoResult = NoResult
  NoId = NoId
  Threads = {t1, t2, t3}
  Results = {r1, r2}
  Ids = {i1}
SPECIFICATION FairSpec
INVARIANTS NoResultRace ReadyHasResult
PROPERTIES ResultIsFinal GetReturns
