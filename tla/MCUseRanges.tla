----------------------------- MODULE MCUseRanges ------------------------------
(* Volumes are interchangeable.                                                *)
EXTENDS UseRanges

Symmetry == Permutations(Vols)

\* What a restart reads is what json_obj's recursions make of the value saved.
Recursive == INSTANCE JsonObj WITH IntBits <- 32, LongBits <- 64

SampleVecs == {<<>>} \cup {<<algo_range(0, a, b)>> : a, b \in 0 .. 2}
                \cup {<<algo_range(0, a, 1), algo_range(1, b, 1)>> : a, b \in 0 .. 2}

ASSUME DepthAssumption ==
  \A vec \in SampleVecs, n \in 0 .. 2 :
    LET o == ranges_to_json([vec |-> vec, len |-> n, ok |-> TRUE])
    IN  Reloaded(o) = Recursive!Loads(Recursive!Dumps(o))
===============================================================================
