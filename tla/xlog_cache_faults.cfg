SPECIFICATION Spec
SYMMETRY ClientSymmetry
CONSTANTS
  c1 = c1
  c2 = c2
  o1 = o1
  o2 = o2
  x1 = x1
  x2 = x2
  x3 = x3
  Client = {c1, c2}
  Batch = {}
  Settings = Settings
  Obj = {o1}
  Txn = {x1, x2}
  ObjOf <- PairObjOf
  EndOf <- PairEnd
  Windows <- ShortWin
  PageCount = 2
  SealMs = 1
  EvictStep = 1
  Limits = {1, 9}
  Lag = 0
  Span = 0
  MaxNow = 3
  CanClear = TRUE
  CanFail = TRUE
  CanCrash = TRUE
INVARIANTS
  TypeOK
  CoverSoundAboveHole
  AnswerCompleteAboveHole
