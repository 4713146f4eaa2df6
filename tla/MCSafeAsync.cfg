CONSTANTS
  Threads = {t1, t2, t3}
  Ops = {a, b, c, d}
  NoOp = NoOp
SPECIFICATION FairSpec
INVARIANT TypeOK
INVARIANT OneInFlight
INVARIANT QueueIsSuffix
INVARIANT OwedOnce
PROPERTY SerialSpec
PROPERTY EveryOpSettles
