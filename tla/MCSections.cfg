SPECIFICATION Spec
CONSTANT N = 6
INVARIANT Canonical
PROPERTY PointSpec
