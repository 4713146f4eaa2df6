CONSTANTS
  w1 = w1
  w2 = w2
  r1 = r1
  Threads = {t1, t2}
  Writes = {w1, w2}
  Reads = {r1}
SPECIFICATION MixSpec
INVARIANTS TypeOK OneSocketOp ReadsServedWhileUp ErrorMeansDown
PROPERTY SndAnswered
CHECK_DEADLOCK FALSE
