------------------------------ MODULE SpacePool ------------------------------
(***************************************************************************)
(* What algo_use_ranges promises: a pool of addresses 0 .. len-1 from      *)
(* which volumes are cut.  A volume is a sequence of pool addresses, its   *)
(* address i being kept at the i-th of them.  The pool gives out its       *)
(* lowest free addresses in ascending order; expanding a volume leaves the *)
(* addresses it already has where they are.  No range, list, search or     *)
(* merge appears at this level.                                            *)
(***************************************************************************)
EXTENDS Naturals, Sequences, Functions

CONSTANTS
  Vols,
  Sizes,          \* sizes asked for
  InitLen,        \* length of a new pool
  MaxLen          \* bound on the length of the pool

VARIABLES
  len,            \* length of the pool
  free,           \* the free addresses
  place           \* per volume: where each of its addresses is

vars == <<len, free, place>>

Init ==
  /\ len = InitLen
  /\ free = 0 .. (InitLen - 1)
  /\ place = [v \in Vols |-> <<>>]

\* Appends the n lowest free addresses to the volume, in ascending order.
Grow(v, n) ==
  \E new \in [1 .. n -> free] :
    /\ \A i, j \in 1 .. n : i < j => new[i] < new[j]
    /\ \A i \in 1 .. n, b \in free \ Range(new) : new[i] < b
    /\ free' = free \ Range(new)
    /\ place' = [place EXCEPT ![v] = @ \o new]
    /\ UNCHANGED len

Release(v) ==
  /\ free' = free \cup Range(place[v])
  /\ place' = [place EXCEPT ![v] = <<>>]
  /\ UNCHANGED len

Increase(n) ==
  /\ len + n <= MaxLen
  /\ len' = len + n
  /\ free' = free \cup len .. (len + n - 1)
  /\ UNCHANGED place

Next ==
  \/ \E v \in Vols : Release(v) \/ \E n \in Sizes : Grow(v, n)
  \/ \E n \in Sizes : Increase(n)

Spec == Init /\ [][Next]_vars
===============================================================================
