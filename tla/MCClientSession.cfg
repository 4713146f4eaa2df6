CONSTANTS
  Threads = {t1, d}
  Writes = {w1, w2}
  Reads = {}
  Deleter = d
  Nobody = Nobody
SPECIFICATION ClientSpec
INVARIANT HeldIsAlive
CHECK_DEADLOCK FALSE
