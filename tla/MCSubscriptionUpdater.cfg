SPECIFICATION Spec
CONSTANTS
  Keys = {k1, k2}
  Groups = {g1, g2}
  Objs = {1, 2, 3}
  MaxId = 2
  MaxJobs = 2
  MaxOps = 2
  MaxRestarts = 1
  NoId = NoId
  Nil = Nil
  NoRecord = NoRecord
  SubClear = {FALSE, TRUE}
  RmInvalid = {FALSE, TRUE}
SYMMETRY Interchangeable
INVARIANTS ListedExists  DeletedStays ReplacedStays 
CHECK_DEADLOCK FALSE
