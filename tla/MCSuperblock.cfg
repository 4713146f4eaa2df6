SPECIFICATION Spec
CONSTANTS
  N = 3
  Threads = {t1, t2}
  IntBits = 3
  LongBits = 5
  Objs <- MCObjs
  Values <- MCValues
  Texts <- MCTexts
  Blank <- MCBlank
  NoValue <- MCUnknown
  Thrown <- MCThrow
  TextOf <- MCDumps
  ParseOf <- MCLoads
  Equal <- MCSame
  Fits <- MCFits
  Kept <- MCStorable
  TornWrites <- MCTorn
  MaxSaves = 2
  MaxLoads = 2
  MaxCrashes = 1
SYMMETRY Symmetry
INVARIANTS
  TypeOK
  ReadSound
  SavedReadsBack
CHECK_DEADLOCK FALSE
