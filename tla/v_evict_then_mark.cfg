SPECIFICATION Spec
CONSTANTS
  c1 = c1
  c2 = c2
  o1 = o1
  o2 = o2
  x1 = x1
  x2 = x2
  x3 = x3
  Client = {c1}
  Batch = {}
  Settings = Settings
  Obj = {o1}
  Txn = {x1, x2}
  ObjOf <- PairObjOf
  EndOf <- PairEnd
  Windows <- ShortWin
  PageCount = 2
  SealMs = 2
  EvictStep = 1
  Limits = {1}
  Lag = 0
  Span = 1
  MaxNow = 4
  CanClear = FALSE
  CanFail = FALSE
  CanCrash = FALSE
INVARIANTS
  CoverSound
