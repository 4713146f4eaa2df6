SPECIFICATION FairSpec
CONSTANTS
  Threads = {t1, t2}
  Seconds = 2
  MaxWait = 3
  MaxLate = 1
PROPERTY HandlerSeesAlive
