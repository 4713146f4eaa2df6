CONSTANTS
  Vols = {v1, v2, v3}
  Sizes = {1, 2, 3}
  InitLen = 4
  MaxLen = 6
SYMMETRY Symmetry
SPECIFICATION RangesSpec
INVARIANT Canonical
INVARIANT SectionExact
INVARIANT NeverAborts
PROPERTY PoolSpec
