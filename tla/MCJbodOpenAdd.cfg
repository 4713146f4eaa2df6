CONSTANTS
  b1 = b1
  b2 = b2
  Blocks = {b1, b2, b3}
  InitBlocks <- TwoBlocks
  SuperUsers = {u1, u2}
  NoBlock = NoBlock
  AddWhileOpen = TRUE
SPECIFICATION Spec
INVARIANT RefNonNegative
