SPECIFICATION FairSpec
CONSTANTS
  Threads = {t1, t2, t3}
  Seconds = 2
  MaxWait = 3
  MaxLate = 2
INVARIANTS TypeOK DestructorCovered SilenceBounded
PROPERTY DogRests
