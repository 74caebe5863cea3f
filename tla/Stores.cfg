SPECIFICATION MCSpec
CONSTANTS
  Block <- SmallBlock
  Genesis = "g"
  Chain <- SmallChain
  FileCap = 2
  MaxFile = 3
  MaxCrash = 2
  Vecs = {"aocl"}
  Val = {1, 2}
  MapVal = {1}
  SingleVal = {1}
  MapKey = {1, 2}
  Default = 0
  Absent = Absent
  Unset = Unset
  Gone = Gone
  MaxLen = 2
  MaxQueue = 6
  MaxVecQueue = 4
  MaxCount = 2
INVARIANTS IndexIsSound MmrIsAChain 
PROPERTIES TipUpdateRepairs ImplementsTables
