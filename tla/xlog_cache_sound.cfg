SPECIFICATION Spec
CONSTANTS
  c1 = c1
  c2 = c2
  o1 = o1
  o2 = o2
  x1 = x1
  x2 = x2
  x3 = x3
  Client = {c1, c2}
  Batch = {c2}
  Settings = Settings
  Obj = {o1}
  Txn = {x1, x2, x3}
  ObjOf <- OneObjOf
  EndOf <- ApartEnd
  Windows <- NestedWins
  PageCount = 2
  SealMs = 3
  EvictStep = 1
  Limits = {9}
  Lag = 1
  Span = 1
  MaxNow = 6
  CanClear = FALSE
  CanFail = FALSE
  CanCrash = FALSE
INVARIANTS
  CoverSealed
  CoverSound
  AnswerComplete

  
