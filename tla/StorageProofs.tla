----------------------------- MODULE StorageProofs -----------------------------
(***************************************************************************)
(* The space of the disks and the requests to them.                        *)
(*                                                                         *)
(* First the request path (JbodIo), for any number of requests, of blocks  *)
(* a request spans, and of error codes: request_ref counts exactly the     *)
(* handlers that will still use it, one handler is elected to complete the *)
(* request, and the error latched when it is elected tells whether a block *)
(* failed.                                                                 *)
(*                                                                         *)
(* Then the allocator (UseRanges), for any volumes, sizes and pool: what   *)
(* its searches, its merge pass and its loops compute; the invariant that  *)
(* no address is free and in use or used twice; that no assertion fails,   *)
(* that requests are cut exactly, and that the ranges implement a pool of  *)
(* addresses (SpacePool).                                                  *)
(*                                                                         *)
(* Last the JBOD with its blocks and their data (JbodDisk), for any blocks *)
(* and requests: every part of a request is where the request says, and    *)
(* the blocks implement one disk (Disk).                                   *)
(***************************************************************************)
EXTENDS JbodDisk, UseRanges, SequenceTheorems, FunctionTheorems, FiniteSetTheorems,
        WellFoundedInduction, TLAPS

-------------------------------------------------------------------------------
(* The request path.                                                       *)

\* What holds of one request in every state.
RInv(r) ==
  /\ heap[r] = "live" => ref[r] = Cardinality(Holding(r))
  /\ Holding(r) # {} => heap[r] = "live" /\ completions[r].n = 0 /\ Electing(r) = {}
  /\ heap[r] = "new" => \A k \in Slots : step[r][k] = "none"
  /\ \A k \in Slots : /\ step[r][k] = "last" => heap[r] = "live"
                      /\ step[r][k] = "deleted" => heap[r] = "deleted"
  /\ Electing(r) # {} => completions[r].n = 0
  /\ \A j, k \in Electing(r) : j = k
  /\ completions[r].n <= 1
  /\ \A k \in Slots : step[r][k] \in {"none", "mapped", "issued"} => result[r][k] = Ok
  /\ heap[r] # "new" =>
       (err[r] # Ok <=> \E k \in Slots : result[r][k] # Ok /\ step[r][k] # "reported")

IInv == TypeOK /\ \A r \in Requests : RInv(r)

-------------------------------------------------------------------------------
LEMMA HoldingFinite ==
  ASSUME NEW r
  PROVE  /\ IsFiniteSet(Holding(r)) /\ Cardinality(Holding(r)) \in Nat
         /\ Cardinality(Holding(r)) <= MaxParts
  <1>1. IsFiniteSet(Slots) /\ Cardinality(Slots) = MaxParts
    BY PartsAssumption, FS_Interval DEF Slots
  <1>2. Holding(r) \in SUBSET Slots
    BY DEF Holding
  <1> QED
    BY <1>1, <1>2, FS_Subset, FS_CardinalityType

\* A step that touches another request leaves what holds of this one.
LEMMA Frame ==
  ASSUME NEW q \in Requests, RInv(q),
         ref'[q] = ref[q], err'[q] = err[q], heap'[q] = heap[q],
         step'[q] = step[q], result'[q] = result[q], completions'[q] = completions[q]
  PROVE  RInv(q)'
  <1>1. Holding(q)' = Holding(q) /\ Electing(q)' = Electing(q)
    BY DEF Holding, Electing
  <1> QED
    BY <1>1 DEF RInv

LEMMA InitIInv == Init => IInv
  <1> SUFFICES ASSUME Init PROVE IInv
    OBVIOUS
  <1>1. TypeOK
    BY PartsAssumption DEF Init, TypeOK, Statuses, Steps
  <1>2. ASSUME NEW r \in Requests
        PROVE  RInv(r)
    BY DEF Init, RInv, Holding, Electing
  <1> QED
    BY <1>1, <1>2 DEF IInv

LEMMA FailMapIInv ==
  ASSUME IInv, NEW r \in Requests, FailMap(r)
  PROVE  IInv'
  <1>1. PICK e \in Errors : complete_request(r, e)
    BY DEF FailMap
  <1>2. TypeOK'
    BY <1>1 DEF IInv, TypeOK, FailMap, complete_request, Statuses
  <1>3. RInv(r)'
    <2>1. Holding(r) = {} /\ Holding(r)' = {} /\ Electing(r)' = {}
      BY DEF IInv, RInv, FailMap, Holding, Electing
    <2>2. completions'[r].n = 1
      BY <1>1 DEF IInv, TypeOK, FailMap, complete_request
    <2> QED
      BY <2>1, <2>2 DEF IInv, RInv, FailMap
  <1>4. ASSUME NEW q \in Requests \ {r}
        PROVE  RInv(q)'
    BY <1>1, Frame DEF IInv, TypeOK, FailMap, complete_request
  <1> QED
    BY <1>2, <1>3, <1>4 DEF IInv

\* All references are taken, one per sub-request, before the first is issued.
LEMMA MapRequestIInv ==
  ASSUME IInv, NEW r \in Requests, NEW n \in Slots, MapRequest(r, n)
  PROVE  IInv'
  <1>1. n \in Nat \ {0} /\ n <= MaxParts
    BY PartsAssumption DEF Slots
  <1>2. TypeOK'
    BY <1>1, PartsAssumption DEF IInv, TypeOK, MapRequest, Statuses, Steps
  <1>3. RInv(r)'
    <2>1. step'[r] = [k \in Slots |-> IF k <= n THEN "mapped" ELSE "none"]
      BY DEF IInv, TypeOK, MapRequest
    <2>2. Holding(r)' = 1 .. n /\ Electing(r)' = {}
      BY <2>1, <1>1, PartsAssumption DEF Holding, Electing, Slots
    <2>3. Cardinality(Holding(r)') = n
      BY <2>2, <1>1, FS_Interval
    <2>4. heap'[r] = "live" /\ ref'[r] = n /\ completions'[r].n = 0 /\ err'[r] = Ok
      BY DEF IInv, TypeOK, MapRequest, Statuses
    <2>5. \A k \in Slots : result'[r][k] = Ok
      BY DEF IInv, RInv, MapRequest
    <2> QED
      BY <2>1, <2>2, <2>3, <2>4, <2>5 DEF RInv
  <1>4. ASSUME NEW q \in Requests \ {r}
        PROVE  RInv(q)'
    BY Frame DEF IInv, TypeOK, MapRequest
  <1> QED
    BY <1>2, <1>3, <1>4 DEF IInv

LEMMA IssueIInv ==
  ASSUME IInv, NEW r \in Requests, NEW k \in Slots, Issue(r, k)
  PROVE  IInv'
  <1>1. TypeOK'
    BY DEF IInv, TypeOK, Issue, Steps
  <1>2. RInv(r)'
    <2>1. step[r][k] = "mapped" /\ step'[r] = [step[r] EXCEPT ![k] = "issued"]
          /\ step[r] \in [Slots -> Steps]
      BY DEF IInv, TypeOK, Issue
    <2>2. Holding(r)' = Holding(r) /\ Electing(r)' = Electing(r)
      BY <2>1 DEF Holding, Electing
    <2> QED
      BY <2>1, <2>2 DEF IInv, RInv, Issue, Holding
  <1>3. ASSUME NEW q \in Requests \ {r}
        PROVE  RInv(q)'
    BY Frame DEF IInv, TypeOK, Issue
  <1> QED
    BY <1>1, <1>2, <1>3 DEF IInv

LEMMA ReportIInv ==
  ASSUME IInv, NEW r \in Requests, NEW k \in Slots, NEW s \in Statuses, Report(r, k, s)
  PROVE  IInv'
  <1>1. TypeOK'
    BY DEF IInv, TypeOK, Report, Steps
  <1>2. RInv(r)'
    <2>1. /\ step[r][k] = "issued" /\ step'[r] = [step[r] EXCEPT ![k] = "reported"]
          /\ step[r] \in [Slots -> Steps]
          /\ result'[r] = [result[r] EXCEPT ![k] = s] /\ result[r] \in [Slots -> Statuses]
      BY DEF IInv, TypeOK, Report
    <2>2. Holding(r)' = Holding(r) /\ Electing(r)' = Electing(r)
      BY <2>1 DEF Holding, Electing
    <2> QED
      <3>1. /\ ref' = ref /\ err' = err /\ heap' = heap /\ completions' = completions
            /\ RInv(r) /\ k \in Holding(r)
        BY <2>1 DEF IInv, Report, Holding
      <3>2. \A j \in Slots :
              (result'[r][j] # Ok /\ step'[r][j] # "reported") <=>
              (result[r][j] # Ok /\ step[r][j] # "reported")
        BY <2>1, <3>1 DEF RInv
      <3>3. \A j \in Slots : step'[r][j] \in {"none", "mapped", "issued"} => result'[r][j] = Ok
        BY <2>1, <3>1 DEF RInv
      <3> QED
        BY <2>1, <2>2, <3>1, <3>2, <3>3 DEF RInv
  <1>3. ASSUME NEW q \in Requests \ {r}
        PROVE  RInv(q)'
    BY Frame DEF IInv, TypeOK, Report
  <1> QED
    BY <1>1, <1>2, <1>3 DEF IInv

\* The store moves the block's error, if any, into the latched one.
LEMMA StoreErrIInv ==
  ASSUME IInv, NEW r \in Requests, NEW k \in Slots, StoreErr(r, k)
  PROVE  IInv'
  <1>1. TypeOK'
    BY DEF IInv, TypeOK, StoreErr, Steps
  <1>2. RInv(r)'
    <2>1. /\ step[r][k] = "reported" /\ step'[r] = [step[r] EXCEPT ![k] = "stored"]
          /\ step[r] \in [Slots -> Steps]
          /\ err'[r] = IF result[r][k] # Ok THEN result[r][k] ELSE err[r]
          /\ result' = result /\ heap' = heap /\ ref' = ref /\ completions' = completions
      BY DEF IInv, TypeOK, StoreErr
    <2>2. Holding(r)' = Holding(r) /\ Electing(r)' = Electing(r)
      BY <2>1 DEF Holding, Electing
    <2>3. err'[r] # Ok <=> \E j \in Slots : result[r][j] # Ok /\ step'[r][j] # "reported"
      BY <2>1 DEF IInv, RInv
    <2> QED
      BY <2>1, <2>2, <2>3 DEF IInv, RInv, Holding
  <1>3. ASSUME NEW q \in Requests \ {r}
        PROVE  RInv(q)'
    BY Frame DEF IInv, TypeOK, StoreErr
  <1> QED
    BY <1>1, <1>2, <1>3 DEF IInv

\* The decrement that finds one reference leaves none: its handler is elected,
\* and no other has been or can be.
LEMMA PutIInv ==
  ASSUME IInv, NEW r \in Requests, NEW k \in Slots, Put(r, k)
  PROVE  IInv'
  <1>1. /\ step[r][k] = "stored" /\ step[r] \in [Slots -> Steps]
        /\ step'[r] = [step[r] EXCEPT ![k] = IF ref[r] = 1 THEN "last" ELSE "gone"]
        /\ ref'[r] = ref[r] - 1
        /\ err' = err /\ heap' = heap /\ result' = result /\ completions' = completions
    BY DEF IInv, TypeOK, Put
  <1>2. k \in Holding(r)
    BY <1>1 DEF Holding
  <1>3. heap[r] = "live" /\ completions[r].n = 0 /\ Electing(r) = {}
        /\ ref[r] = Cardinality(Holding(r))
    BY <1>2 DEF IInv, RInv
  <1>4. Holding(r)' = Holding(r) \ {k}
    BY <1>1 DEF Holding
  <1>5. /\ ref[r] \in 1 .. MaxParts
        /\ Cardinality(Holding(r)') = ref[r] - 1
        /\ ref[r] = 1 <=> Holding(r)' = {}
    <2>1. /\ IsFiniteSet(Holding(r)') 
          /\ Cardinality(Holding(r)') = Cardinality(Holding(r)) - 1
      BY <1>2, <1>4, HoldingFinite, FS_RemoveElement
    <2>2. Cardinality(Holding(r)') \in Nat
      BY <2>1, FS_CardinalityType
    <2>3. Cardinality(Holding(r)') = 0 <=> Holding(r)' = {}
      BY <2>1, FS_EmptySet
    <2> QED
      BY <2>1, <2>2, <2>3, <1>3, HoldingFinite, PartsAssumption
  <1>6. TypeOK'
    <2>1. ref' \in [Requests -> 0 .. MaxParts]
      BY <1>5, PartsAssumption DEF IInv, TypeOK, Put
    <2>2. step' \in [Requests -> [Slots -> Steps]]
      BY DEF IInv, TypeOK, Put, Steps
    <2> QED
      BY <2>1, <2>2 DEF IInv, TypeOK, Put
  <1>7. RInv(r)'
    <2>1. Electing(r)' = IF ref[r] = 1 THEN {k} ELSE {}
      BY <1>1, <1>3 DEF Electing
    <2>2. \A j \in Slots : step[r][j] \notin {"last", "deleted"}
      BY <1>3 DEF Electing
    <2>3. err'[r] # Ok <=> \E j \in Slots : result'[r][j] # Ok /\ step'[r][j] # "reported"
      BY <1>1, <1>3 DEF IInv, RInv
    <2> QED
      BY <1>1, <1>3, <1>5, <2>1, <2>2, <2>3 DEF IInv, RInv
  <1>8. ASSUME NEW q \in Requests \ {r}
        PROVE  RInv(q)'
    BY Frame DEF IInv, TypeOK, Put
  <1> QED
    BY <1>6, <1>7, <1>8 DEF IInv

LEMMA DeleteRefIInv ==
  ASSUME IInv, NEW r \in Requests, NEW k \in Slots, DeleteRef(r, k)
  PROVE  IInv'
  <1>1. TypeOK'
    BY DEF IInv, TypeOK, DeleteRef, Steps
  <1>2. RInv(r)'
    <2>1. /\ step[r][k] = "last" /\ step'[r] = [step[r] EXCEPT ![k] = "deleted"]
          /\ step[r] \in [Slots -> Steps] /\ heap'[r] = "deleted"
          /\ ref' = ref /\ err' = err /\ result' = result /\ completions' = completions
      BY DEF IInv, TypeOK, DeleteRef
    <2>2. Holding(r)' = Holding(r) /\ Electing(r)' = Electing(r) /\ k \in Electing(r)
      BY <2>1 DEF Holding, Electing
    <2>3. Holding(r) = {} /\ heap[r] = "live"
      BY <2>1, <2>2 DEF IInv, RInv
    <2>4. \A j \in Slots : step'[r][j] # "last"
      BY <2>1, <2>2 DEF IInv, RInv, Electing
    <2> QED
      BY <2>1, <2>2, <2>3, <2>4 DEF IInv, RInv
  <1>3. ASSUME NEW q \in Requests \ {r}
        PROVE  RInv(q)'
    BY Frame DEF IInv, TypeOK, DeleteRef
  <1> QED
    BY <1>1, <1>2, <1>3 DEF IInv

LEMMA CompleteIInv ==
  ASSUME IInv, NEW r \in Requests, NEW k \in Slots, Complete(r, k)
  PROVE  IInv'
  <1>1. PICK s \in Statuses : complete_request(r, s)
    BY DEF Complete
  <1>2. /\ step[r][k] = "deleted" /\ step'[r] = [step[r] EXCEPT ![k] = "gone"]
        /\ step[r] \in [Slots -> Steps]
        /\ completions'[r].n = completions[r].n + 1
        /\ ref' = ref /\ err' = err /\ result' = result /\ heap' = heap
    BY <1>1 DEF IInv, TypeOK, Complete, complete_request
  <1>3. TypeOK'
    <2>1. completions' \in [Requests -> [n : Nat, status : Statuses]]
      BY <1>1 DEF IInv, TypeOK, Complete, complete_request
    <2>2. step' \in [Requests -> [Slots -> Steps]]
      BY DEF IInv, TypeOK, Complete, Steps
    <2> QED
      BY <2>1, <2>2 DEF IInv, TypeOK, Complete
  <1>4. RInv(r)'
    <2>1. k \in Electing(r)
      BY <1>2 DEF Electing
    <2>2. Holding(r) = {} /\ completions[r].n = 0 /\ heap[r] = "deleted"
      BY <2>1, <1>2 DEF IInv, RInv
    <2>3. Holding(r)' = {} /\ Electing(r)' = {}
      <3>1. Holding(r)' = Holding(r) /\ Electing(r)' = Electing(r) \ {k}
        BY <1>2 DEF Holding, Electing
      <3>2. \A j \in Electing(r) : j = k
        BY <2>1 DEF IInv, RInv
      <3> QED
        BY <3>1, <3>2, <2>2
    <2>4. \A j \in Slots : step'[r][j] \notin {"last", "deleted"}
      BY <2>3 DEF Electing
    <2> QED
      BY <1>2, <2>2, <2>3, <2>4 DEF IInv, RInv
  <1>5. ASSUME NEW q \in Requests \ {r}
        PROVE  RInv(q)'
    BY <1>1, Frame DEF IInv, TypeOK, Complete, complete_request
  <1> QED
    BY <1>3, <1>4, <1>5 DEF IInv

LEMMA NextIInv == IInv /\ [Next]_vars => IInv'
  <1> SUFFICES ASSUME IInv, [Next]_vars PROVE IInv'
    OBVIOUS
  <1>1. ASSUME NEW r \in Requests, FailMap(r) PROVE IInv'
    BY <1>1, FailMapIInv
  <1>2. ASSUME NEW r \in Requests, NEW n \in Slots, MapRequest(r, n) PROVE IInv'
    BY <1>2, MapRequestIInv
  <1>3. ASSUME NEW r \in Requests, NEW k \in Slots, Issue(r, k) PROVE IInv'
    BY <1>3, IssueIInv
  <1>4. ASSUME NEW r \in Requests, NEW k \in Slots, NEW s \in Statuses, Report(r, k, s)
        PROVE IInv'
    BY <1>4, ReportIInv
  <1>5. ASSUME NEW r \in Requests, NEW k \in Slots, StoreErr(r, k) PROVE IInv'
    BY <1>5, StoreErrIInv
  <1>6. ASSUME NEW r \in Requests, NEW k \in Slots, Put(r, k) PROVE IInv'
    BY <1>6, PutIInv
  <1>7. ASSUME NEW r \in Requests, NEW k \in Slots, DeleteRef(r, k) PROVE IInv'
    BY <1>7, DeleteRefIInv
  <1>8. ASSUME NEW r \in Requests, NEW k \in Slots, Complete(r, k) PROVE IInv'
    BY <1>8, CompleteIInv
  <1>9. CASE UNCHANGED vars
    <2>1. TypeOK'
      BY <1>9 DEF vars, IInv, TypeOK
    <2>2. ASSUME NEW q \in Requests PROVE RInv(q)'
      BY <1>9, Frame DEF vars, IInv
    <2> QED
      BY <2>1, <2>2 DEF IInv
  <1> QED
    BY <1>1, <1>2, <1>3, <1>4, <1>5, <1>6, <1>7, <1>8, <1>9 DEF Next

\* The inductive invariant holds in every reachable state of the JBOD.
THEOREM Invariance == Spec => []IInv
  BY InitIInv, NextIInv, PTL DEF Spec

\* Type correctness; ref never leaves 0 .. MaxParts.
THEOREM TypeCorrect == Spec => []TypeOK
  <1>1. IInv => TypeOK
    BY DEF IInv
  <1> QED
    BY Invariance, <1>1, PTL

\* request_ref's count is exact, and it is alive as long as a handler needs it.
THEOREM CountIsExact == Spec => []CountExact
  <1>1. IInv => CountExact
    BY DEF IInv, RInv, CountExact
  <1> QED
    BY Invariance, <1>1, PTL

\* A request is completed at most once, by its last handler.
THEOREM LastCompletes == Spec => []CompletedByLast
  <1>1. IInv => CompletedByLast
    BY DEF IInv, RInv, CompletedByLast
  <1> QED
    BY Invariance, <1>1, PTL

\* The error latched when the last handler is elected is that of a failed block,
\* and there is one whenever a block failed.
THEOREM FailureIsLatched == Spec => []FailureLatched
  <1>1. IInv => FailureLatched
    <2> SUFFICES ASSUME IInv, NEW r \in Requests, Electing(r) # {}
                 PROVE  err[r] # Ok <=> \E k \in Slots : result[r][k] # Ok
      BY DEF FailureLatched
    <2>1. Holding(r) = {} /\ heap[r] # "new"
      BY DEF IInv, RInv, Electing
    <2>2. \A k \in Slots : step[r][k] # "reported"
      BY <2>1 DEF Holding
    <2> QED
      BY <2>1, <2>2 DEF IInv, RInv
  <1> QED
    BY Invariance, <1>1, PTL

\* A non-empty set of natural numbers has a least one.
LEMMA Least ==
  ASSUME NEW T \in SUBSET Nat, T # {}
  PROVE  \E x \in T : \A y \in T : x <= y
  <1> DEFINE R == {ss \in Nat \X Nat : ss[1] < ss[2]}
  <1>1. IsWellFoundedOn(R, Nat)
    BY NatLessThanWellFounded, Zenon DEF OpToRel
  <1>2. \E x \in T : \A y \in T : <<y, x>> \notin R
    <2> HIDE DEF R
    <2> QED
      BY <1>1, WFMin, Zenon
  <1>3. PICK x \in T : \A y \in T : <<y, x>> \notin R
    BY <1>2
  <1>4. ASSUME NEW y \in T PROVE x <= y
    <2>1. x \in Nat /\ y \in Nat /\ <<y, x>> \notin R
      BY <1>3
    <2> QED
      BY <2>1
  <1> QED
    BY <1>4

\* A set with 0 and, with each number, the next one has them all.
LEMMA Induct ==
  ASSUME NEW S, 0 \in S, \A n \in Nat : n \in S => n + 1 \in S
  PROVE  \A n \in Nat : n \in S
  <1> SUFFICES ASSUME Nat \ S # {} PROVE FALSE
    OBVIOUS
  <1>1. PICK x \in Nat \ S : \A y \in Nat \ S : x <= y
    BY Least
  <1>2. x - 1 \in Nat
    BY <1>1
  <1> QED
    BY <1>1, <1>2

\* The loop of alloc_ranges: what it starts with, and one turn unless it has left.
Start(free, size) ==
  [need |-> size, done |-> FALSE, ok |-> TRUE, free |-> free, vol |-> NoRanges]

Turn(a) == IF a.done THEN a ELSE Take(a)

\* The loop of a sum of lengths.
LEMMA SumLoop ==
  ASSUME NEW vec, Len(vec) \in Nat
  PROVE  \E loop : /\ SumLen(vec) = loop[Len(vec)]
                   /\ loop[0] = 0
                   /\ \A i \in 1 .. Len(vec) : loop[i] = loop[i - 1] + vec[i].len
  <1> DEFINE n == Len(vec)
             Upto(f, m) == /\ f[0] = 0
                           /\ \A i \in 1 .. m : f[i] = f[i - 1] + vec[i].len
             Exists(m) == \E f : Upto(f, m)
             T == {m \in Nat : Exists(m)}
  <1>1. 0 \in T
    <2>1. Upto([i \in {0} |-> 0], 0)
      OBVIOUS
    <2> QED
      BY <2>1
  <1>2. ASSUME NEW m \in Nat, m \in T PROVE m + 1 \in T
    <2> PICK f : Upto(f, m)
      BY <1>2
    <2> DEFINE g == [i \in 0 .. m + 1 |->
                       IF i <= m THEN f[i] ELSE f[m] + vec[m + 1].len]
    <2>1. /\ \A i \in 0 .. m : g[i] = f[i]
          /\ g[m + 1] = f[m] + vec[m + 1].len
      OBVIOUS
    <2> HIDE DEF g
    <2>2. \A i \in 1 .. m + 1 : i - 1 \in 0 .. m /\ (i \in 1 .. m \/ i = m + 1)
      OBVIOUS
    <2>3. 0 \in 0 .. m /\ \A i \in 1 .. m : i \in 0 .. m
      OBVIOUS
    <2>4. m + 1 - 1 = m /\ m \in 0 .. m
      OBVIOUS
    <2>5. Upto(g, m + 1)
      BY <2>1, <2>2, <2>3, <2>4
    <2>6. Exists(m + 1)
      BY <2>5
    <2> HIDE DEF Exists
    <2> QED
      BY <2>6
  <1>3. n \in T
    <2> HIDE DEF T
    <2> QED
      BY <1>1, <1>2, Induct
  <1>4. PICK f : Upto(f, n)
    BY <1>3
  <1> DEFINE h == [i \in 0 .. n |->
                     IF i = 0 THEN 0 ELSE f[i - 1] + vec[i].len]
  <1>5. \A i \in 0 .. n : h[i] = f[i]
    BY <1>4
  <1>6. h = [i \in 0 .. n |->
               IF i = 0 THEN 0 ELSE h[i - 1] + vec[i].len]
    <2>1. \A i \in 0 .. n : i # 0 => i - 1 \in 0 .. n
      OBVIOUS
    <2>2. \A i \in 0 .. n : i # 0 => h[i - 1] = f[i - 1]
      BY <1>5, <2>1
    <2> QED
      BY <2>2
  <1> HIDE DEF h
  <1>7. \E loop : loop = [i \in 0 .. Len(vec) |->
                    IF i = 0 THEN 0 ELSE loop[i - 1] + vec[i].len]
    BY <1>6
  <1> DEFINE found == CHOOSE loop : loop = [i \in 0 .. Len(vec) |->
                        IF i = 0 THEN 0 ELSE loop[i - 1] + vec[i].len]
  <1>8. found = [i \in 0 .. Len(vec) |->
                   IF i = 0 THEN 0 ELSE found[i - 1] + vec[i].len]
    BY <1>7
  <1>9. SumLen(vec) = found[Len(vec)]
    BY DEF SumLen
  <1> HIDE DEF found
  <1>10. /\ found[0] = 0
         /\ \A i \in 1 .. Len(vec) : found[i] = found[i - 1] + vec[i].len
    <2>1. 0 \in 0 .. Len(vec)
      OBVIOUS
    <2>2. \A i \in 1 .. Len(vec) : i \in 0 .. Len(vec) /\ i # 0
      OBVIOUS
    <2> QED
      BY <1>8, <2>1, <2>2, Zenon
  <1> QED
    BY <1>9, <1>10

\* The merge pass.
LEMMA MergeLoop ==
  ASSUME NEW vec, NEW key, Len(vec) \in Nat
  PROVE  \E loop : /\ merge(vec, key) = loop[Len(vec)]
                   /\ loop[0] = <<>>
                   /\ \A i \in 1 .. Len(vec) : loop[i] = MergeNext(loop[i - 1], vec[i], key)
  <1> DEFINE n == Len(vec)
             Upto(f, m) == /\ f[0] = <<>>
                           /\ \A i \in 1 .. m : f[i] = MergeNext(f[i - 1], vec[i], key)
             Exists(m) == \E f : Upto(f, m)
             T == {m \in Nat : Exists(m)}
  <1>1. 0 \in T
    <2>1. Upto([i \in {0} |-> <<>>], 0)
      OBVIOUS
    <2> QED
      BY <2>1
  <1>2. ASSUME NEW m \in Nat, m \in T PROVE m + 1 \in T
    <2> PICK f : Upto(f, m)
      BY <1>2
    <2> DEFINE g == [i \in 0 .. m + 1 |->
                       IF i <= m THEN f[i] ELSE MergeNext(f[m], vec[m + 1], key)]
    <2>1. /\ \A i \in 0 .. m : g[i] = f[i]
          /\ g[m + 1] = MergeNext(f[m], vec[m + 1], key)
      OBVIOUS
    <2> HIDE DEF g
    <2>2. \A i \in 1 .. m + 1 : i - 1 \in 0 .. m /\ (i \in 1 .. m \/ i = m + 1)
      OBVIOUS
    <2>3. 0 \in 0 .. m /\ \A i \in 1 .. m : i \in 0 .. m
      OBVIOUS
    <2>4. m + 1 - 1 = m /\ m \in 0 .. m
      OBVIOUS
    <2>5. Upto(g, m + 1)
      BY SMTT(30), <2>1, <2>2, <2>3, <2>4
    <2>6. Exists(m + 1)
      BY <2>5
    <2> HIDE DEF Exists
    <2> QED
      BY <2>6
  <1>3. n \in T
    <2> HIDE DEF T
    <2> QED
      BY <1>1, <1>2, Induct
  <1>4. PICK f : Upto(f, n)
    BY <1>3
  <1> DEFINE h == [i \in 0 .. n |->
                     IF i = 0 THEN <<>> ELSE MergeNext(f[i - 1], vec[i], key)]
  <1>5. \A i \in 0 .. n : h[i] = f[i]
    BY <1>4
  <1>6. h = [i \in 0 .. n |->
               IF i = 0 THEN <<>> ELSE MergeNext(h[i - 1], vec[i], key)]
    <2>1. \A i \in 0 .. n : i # 0 => i - 1 \in 0 .. n
      OBVIOUS
    <2>2. \A i \in 0 .. n : i # 0 => h[i - 1] = f[i - 1]
      BY <1>5, <2>1
    <2> QED
      BY <2>2
  <1> HIDE DEF h
  <1>7. \E loop : loop = [i \in 0 .. Len(vec) |->
                    IF i = 0 THEN <<>> ELSE MergeNext(loop[i - 1], vec[i], key)]
    BY <1>6
  <1> DEFINE found == CHOOSE loop : loop = [i \in 0 .. Len(vec) |->
                        IF i = 0 THEN <<>> ELSE MergeNext(loop[i - 1], vec[i], key)]
  <1>8. found = [i \in 0 .. Len(vec) |->
                   IF i = 0 THEN <<>> ELSE MergeNext(found[i - 1], vec[i], key)]
    BY <1>7
  <1>9. merge(vec, key) = found[Len(vec)]
    BY DEF merge
  <1> HIDE DEF found
  <1>10. /\ found[0] = <<>>
         /\ \A i \in 1 .. Len(vec) : found[i] = MergeNext(found[i - 1], vec[i], key)
    <2>1. 0 \in 0 .. Len(vec)
      OBVIOUS
    <2>2. \A i \in 1 .. Len(vec) : i \in 0 .. Len(vec) /\ i # 0
      OBVIOUS
    <2> QED
      BY <1>8, <2>1, <2>2, Zenon
  <1> QED
    BY <1>9, <1>10

\* The loop of operator+=.
LEMMA AddLoop ==
  ASSUME NEW vol, NEW vec, Len(vec) \in Nat
  PROVE  \E loop : /\ AddRanges(vol, vec) = loop[Len(vec)]
                   /\ loop[0] = vol
                   /\ \A i \in 1 .. Len(vec) : loop[i] = AddRange(loop[i - 1], vec[i])
  <1> DEFINE n == Len(vec)
             Upto(f, m) == /\ f[0] = vol
                           /\ \A i \in 1 .. m : f[i] = AddRange(f[i - 1], vec[i])
             Exists(m) == \E f : Upto(f, m)
             T == {m \in Nat : Exists(m)}
  <1>1. 0 \in T
    <2>1. Upto([i \in {0} |-> vol], 0)
      OBVIOUS
    <2> QED
      BY <2>1
  <1>2. ASSUME NEW m \in Nat, m \in T PROVE m + 1 \in T
    <2> PICK f : Upto(f, m)
      BY <1>2
    <2> DEFINE g == [i \in 0 .. m + 1 |->
                       IF i <= m THEN f[i] ELSE AddRange(f[m], vec[m + 1])]
    <2>1. /\ \A i \in 0 .. m : g[i] = f[i]
          /\ g[m + 1] = AddRange(f[m], vec[m + 1])
      OBVIOUS
    <2> HIDE DEF g
    <2>2. \A i \in 1 .. m + 1 : i - 1 \in 0 .. m /\ (i \in 1 .. m \/ i = m + 1)
      OBVIOUS
    <2>3. 0 \in 0 .. m /\ \A i \in 1 .. m : i \in 0 .. m
      OBVIOUS
    <2>4. m + 1 - 1 = m /\ m \in 0 .. m
      OBVIOUS
    <2>5. Upto(g, m + 1)
      BY <2>1, <2>2, <2>3, <2>4
    <2>6. Exists(m + 1)
      BY <2>5
    <2> HIDE DEF Exists
    <2> QED
      BY <2>6
  <1>3. n \in T
    <2> HIDE DEF T
    <2> QED
      BY <1>1, <1>2, Induct
  <1>4. PICK f : Upto(f, n)
    BY <1>3
  <1> DEFINE h == [i \in 0 .. n |->
                     IF i = 0 THEN vol ELSE AddRange(f[i - 1], vec[i])]
  <1>5. \A i \in 0 .. n : h[i] = f[i]
    BY <1>4
  <1>6. h = [i \in 0 .. n |->
               IF i = 0 THEN vol ELSE AddRange(h[i - 1], vec[i])]
    <2>1. \A i \in 0 .. n : i # 0 => i - 1 \in 0 .. n
      OBVIOUS
    <2>2. \A i \in 0 .. n : i # 0 => h[i - 1] = f[i - 1]
      BY <1>5, <2>1
    <2> QED
      BY <2>2
  <1> HIDE DEF h
  <1>7. \E loop : loop = [i \in 0 .. Len(vec) |->
                    IF i = 0 THEN vol ELSE AddRange(loop[i - 1], vec[i])]
    BY <1>6
  <1> DEFINE found == CHOOSE loop : loop = [i \in 0 .. Len(vec) |->
                        IF i = 0 THEN vol ELSE AddRange(loop[i - 1], vec[i])]
  <1>8. found = [i \in 0 .. Len(vec) |->
                   IF i = 0 THEN vol ELSE AddRange(found[i - 1], vec[i])]
    BY <1>7
  <1>9. AddRanges(vol, vec) = found[Len(vec)]
    BY DEF AddRanges
  <1> HIDE DEF found
  <1>10. /\ found[0] = vol
         /\ \A i \in 1 .. Len(vec) : found[i] = AddRange(found[i - 1], vec[i])
    <2>1. 0 \in 0 .. Len(vec)
      OBVIOUS
    <2>2. \A i \in 1 .. Len(vec) : i \in 0 .. Len(vec) /\ i # 0
      OBVIOUS
    <2> QED
      BY <1>8, <2>1, <2>2, Zenon
  <1> QED
    BY <1>9, <1>10

\* The loop of free_ranges.
LEMMA InsertLoop ==
  ASSUME NEW free, NEW vec, Len(vec) \in Nat
  PROVE  \E loop : /\ InsertAll(free, vec) = loop[Len(vec)]
                   /\ loop[0] = [vec |-> free, ok |-> TRUE]
                   /\ \A i \in 1 .. Len(vec) : loop[i] = Insert(loop[i - 1], algo_range(0, vec[i].start, vec[i].len), "start")
  <1> DEFINE n == Len(vec)
             Upto(f, m) == /\ f[0] = [vec |-> free, ok |-> TRUE]
                           /\ \A i \in 1 .. m : f[i] = Insert(f[i - 1], algo_range(0, vec[i].start, vec[i].len), "start")
             Exists(m) == \E f : Upto(f, m)
             T == {m \in Nat : Exists(m)}
  <1>1. 0 \in T
    <2>1. Upto([i \in {0} |-> [vec |-> free, ok |-> TRUE]], 0)
      OBVIOUS
    <2> QED
      BY <2>1
  <1>2. ASSUME NEW m \in Nat, m \in T PROVE m + 1 \in T
    <2> PICK f : Upto(f, m)
      BY <1>2
    <2> DEFINE g == [i \in 0 .. m + 1 |->
                       IF i <= m THEN f[i] ELSE Insert(f[m], algo_range(0, vec[m + 1].start, vec[m + 1].len), "start")]
    <2>1. /\ \A i \in 0 .. m : g[i] = f[i]
          /\ g[m + 1] = Insert(f[m], algo_range(0, vec[m + 1].start, vec[m + 1].len), "start")
      OBVIOUS
    <2> HIDE DEF g
    <2>2. \A i \in 1 .. m + 1 : i - 1 \in 0 .. m /\ (i \in 1 .. m \/ i = m + 1)
      OBVIOUS
    <2>3. 0 \in 0 .. m /\ \A i \in 1 .. m : i \in 0 .. m
      OBVIOUS
    <2>4. m + 1 - 1 = m /\ m \in 0 .. m
      OBVIOUS
    <2>5. Upto(g, m + 1)
      BY <2>1, <2>2, <2>3, <2>4
    <2>6. Exists(m + 1)
      BY <2>5
    <2> HIDE DEF Exists
    <2> QED
      BY <2>6
  <1>3. n \in T
    <2> HIDE DEF T
    <2> QED
      BY <1>1, <1>2, Induct
  <1>4. PICK f : Upto(f, n)
    BY <1>3
  <1> DEFINE h == [i \in 0 .. n |->
                     IF i = 0 THEN [vec |-> free, ok |-> TRUE] ELSE Insert(f[i - 1], algo_range(0, vec[i].start, vec[i].len), "start")]
  <1>5. \A i \in 0 .. n : h[i] = f[i]
    BY <1>4
  <1>6. h = [i \in 0 .. n |->
               IF i = 0 THEN [vec |-> free, ok |-> TRUE] ELSE Insert(h[i - 1], algo_range(0, vec[i].start, vec[i].len), "start")]
    <2>1. \A i \in 0 .. n : i # 0 => i - 1 \in 0 .. n
      OBVIOUS
    <2>2. \A i \in 0 .. n : i # 0 => h[i - 1] = f[i - 1]
      BY <1>5, <2>1
    <2> QED
      BY <2>2
  <1> HIDE DEF h
  <1>7. \E loop : loop = [i \in 0 .. Len(vec) |->
                    IF i = 0 THEN [vec |-> free, ok |-> TRUE] ELSE Insert(loop[i - 1], algo_range(0, vec[i].start, vec[i].len), "start")]
    BY <1>6
  <1> DEFINE found == CHOOSE loop : loop = [i \in 0 .. Len(vec) |->
                        IF i = 0 THEN [vec |-> free, ok |-> TRUE] ELSE Insert(loop[i - 1], algo_range(0, vec[i].start, vec[i].len), "start")]
  <1>8. found = [i \in 0 .. Len(vec) |->
                   IF i = 0 THEN [vec |-> free, ok |-> TRUE] ELSE Insert(found[i - 1], algo_range(0, vec[i].start, vec[i].len), "start")]
    BY <1>7
  <1>9. InsertAll(free, vec) = found[Len(vec)]
    BY DEF InsertAll
  <1> HIDE DEF found
  <1>10. /\ found[0] = [vec |-> free, ok |-> TRUE]
         /\ \A i \in 1 .. Len(vec) : found[i] = Insert(found[i - 1], algo_range(0, vec[i].start, vec[i].len), "start")
    <2>1. 0 \in 0 .. Len(vec)
      OBVIOUS
    <2>2. \A i \in 1 .. Len(vec) : i \in 0 .. Len(vec) /\ i # 0
      OBVIOUS
    <2> QED
      BY <1>8, <2>1, <2>2, Zenon
  <1> QED
    BY <1>9, <1>10

\* The loop of to_json_obj.
LEMMA SaveLoop ==
  ASSUME NEW vec, Len(vec) \in Nat
  PROVE  \E loop : /\ vec_to_json(vec) = loop[Len(vec)]
                   /\ loop[0] = J!Array(<<>>)
                   /\ \A i \in 1 .. Len(vec) : loop[i] = J!append(loop[i - 1], range_to_json(vec[i]))
  <1> DEFINE n == Len(vec)
             Upto(f, m) == /\ f[0] = J!Array(<<>>)
                           /\ \A i \in 1 .. m : f[i] = J!append(f[i - 1], range_to_json(vec[i]))
             Exists(m) == \E f : Upto(f, m)
             T == {m \in Nat : Exists(m)}
  <1>1. 0 \in T
    <2>1. Upto([i \in {0} |-> J!Array(<<>>)], 0)
      OBVIOUS
    <2> QED
      BY <2>1
  <1>2. ASSUME NEW m \in Nat, m \in T PROVE m + 1 \in T
    <2> PICK f : Upto(f, m)
      BY <1>2
    <2> DEFINE g == [i \in 0 .. m + 1 |->
                       IF i <= m THEN f[i] ELSE J!append(f[m], range_to_json(vec[m + 1]))]
    <2>1. /\ \A i \in 0 .. m : g[i] = f[i]
          /\ g[m + 1] = J!append(f[m], range_to_json(vec[m + 1]))
      OBVIOUS
    <2> HIDE DEF g
    <2>2. \A i \in 1 .. m + 1 : i - 1 \in 0 .. m /\ (i \in 1 .. m \/ i = m + 1)
      OBVIOUS
    <2>3. 0 \in 0 .. m /\ \A i \in 1 .. m : i \in 0 .. m
      OBVIOUS
    <2>4. m + 1 - 1 = m /\ m \in 0 .. m
      OBVIOUS
    <2>5. Upto(g, m + 1)
      BY <2>1, <2>2, <2>3, <2>4
    <2>6. Exists(m + 1)
      BY <2>5
    <2> HIDE DEF Exists
    <2> QED
      BY <2>6
  <1>3. n \in T
    <2> HIDE DEF T
    <2> QED
      BY <1>1, <1>2, Induct
  <1>4. PICK f : Upto(f, n)
    BY <1>3
  <1> DEFINE h == [i \in 0 .. n |->
                     IF i = 0 THEN J!Array(<<>>) ELSE J!append(f[i - 1], range_to_json(vec[i]))]
  <1>5. \A i \in 0 .. n : h[i] = f[i]
    BY <1>4
  <1>6. h = [i \in 0 .. n |->
               IF i = 0 THEN J!Array(<<>>) ELSE J!append(h[i - 1], range_to_json(vec[i]))]
    <2>1. \A i \in 0 .. n : i # 0 => i - 1 \in 0 .. n
      OBVIOUS
    <2>2. \A i \in 0 .. n : i # 0 => h[i - 1] = f[i - 1]
      BY <1>5, <2>1
    <2> QED
      BY <2>2
  <1> HIDE DEF h
  <1>7. \E loop : loop = [i \in 0 .. Len(vec) |->
                    IF i = 0 THEN J!Array(<<>>) ELSE J!append(loop[i - 1], range_to_json(vec[i]))]
    BY <1>6
  <1> DEFINE found == CHOOSE loop : loop = [i \in 0 .. Len(vec) |->
                        IF i = 0 THEN J!Array(<<>>) ELSE J!append(loop[i - 1], range_to_json(vec[i]))]
  <1>8. found = [i \in 0 .. Len(vec) |->
                   IF i = 0 THEN J!Array(<<>>) ELSE J!append(found[i - 1], range_to_json(vec[i]))]
    BY <1>7
  <1>9. vec_to_json(vec) = found[Len(vec)]
    BY DEF vec_to_json
  <1> HIDE DEF found
  <1>10. /\ found[0] = J!Array(<<>>)
         /\ \A i \in 1 .. Len(vec) : found[i] = J!append(found[i - 1], range_to_json(vec[i]))
    <2>1. 0 \in 0 .. Len(vec)
      OBVIOUS
    <2>2. \A i \in 1 .. Len(vec) : i \in 0 .. Len(vec) /\ i # 0
      OBVIOUS
    <2> QED
      BY <1>8, <2>1, <2>2, Zenon
  <1> QED
    BY <1>9, <1>10

\* The loop of alloc_ranges.
LEMMA AllocLoop ==
  ASSUME NEW free, NEW size, Len(free) \in Nat
  PROVE  \E loop : /\ Alloc(free, size) = loop[Len(free)]
                   /\ loop[0] = Start(free, size)
                   /\ \A k \in 1 .. Len(free) : loop[k] = Turn(loop[k - 1])
  <1> DEFINE n == Len(free)
             Upto(f, m) == /\ f[0] = Start(free, size)
                           /\ \A k \in 1 .. m : f[k] = Turn(f[k - 1])
             Exists(m) == \E f : Upto(f, m)
             T == {m \in Nat : Exists(m)}
  <1>1. 0 \in T
    <2>1. Upto([k \in {0} |-> Start(free, size)], 0)
      OBVIOUS
    <2> QED
      BY <2>1
  <1>2. ASSUME NEW m \in Nat, m \in T PROVE m + 1 \in T
    <2> PICK f : Upto(f, m)
      BY <1>2
    <2> DEFINE g == [k \in 0 .. m + 1 |->
                       IF k <= m THEN f[k] ELSE Turn(f[m])]
    <2>1. /\ \A k \in 0 .. m : g[k] = f[k]
          /\ g[m + 1] = Turn(f[m])
      OBVIOUS
    <2> HIDE DEF g
    <2>2. \A k \in 1 .. m + 1 : k - 1 \in 0 .. m /\ (k \in 1 .. m \/ k = m + 1)
      OBVIOUS
    <2>3. 0 \in 0 .. m /\ \A k \in 1 .. m : k \in 0 .. m
      OBVIOUS
    <2>4. m + 1 - 1 = m /\ m \in 0 .. m
      OBVIOUS
    <2>5. Upto(g, m + 1)
      BY <2>1, <2>2, <2>3, <2>4
    <2>6. Exists(m + 1)
      BY <2>5
    <2> HIDE DEF Exists
    <2> QED
      BY <2>6
  <1>3. n \in T
    <2> HIDE DEF T
    <2> QED
      BY <1>1, <1>2, Induct
  <1>4. PICK f : Upto(f, n)
    BY <1>3
  <1> DEFINE h == [k \in 0 .. n |->
                     IF k = 0 THEN Start(free, size) ELSE Turn(f[k - 1])]
  <1>5. \A k \in 0 .. n : h[k] = f[k]
    BY <1>4
  <1>6. h = [k \in 0 .. n |->
               IF k = 0 THEN Start(free, size) ELSE Turn(h[k - 1])]
    <2>1. \A k \in 0 .. n : k # 0 => k - 1 \in 0 .. n
      OBVIOUS
    <2>2. \A k \in 0 .. n : k # 0 => h[k - 1] = f[k - 1]
      BY <1>5, <2>1
    <2> QED
      BY <2>2
  <1> HIDE DEF h
  <1>7. \E loop : loop = [k \in 0 .. Len(free) |->
                    IF k = 0 THEN Start(free, size) ELSE Turn(loop[k - 1])]
    BY <1>6
  <1> DEFINE found == CHOOSE loop : loop = [k \in 0 .. Len(free) |->
                        IF k = 0 THEN Start(free, size) ELSE Turn(loop[k - 1])]
  <1>8. found = [k \in 0 .. Len(free) |->
                   IF k = 0 THEN Start(free, size) ELSE Turn(found[k - 1])]
    BY <1>7
  <1>9. Alloc(free, size) = found[Len(free)]
    BY DEF Alloc, Start, Turn
  <1> HIDE DEF found
  <1>10. /\ found[0] = Start(free, size)
         /\ \A k \in 1 .. Len(free) : found[k] = Turn(found[k - 1])
    <2>1. 0 \in 0 .. Len(free)
      OBVIOUS
    <2>2. \A k \in 1 .. Len(free) : k \in 0 .. Len(free) /\ k # 0
      OBVIOUS
    <2> QED
      BY <1>8, <2>1, <2>2, Zenon
  <1> QED
    BY <1>9, <1>10

-------------------------------------------------------------------------------
(* Sequences.                                                              *)

\* The elements of a sequence.
LEMMA ElementFacts ==
  ASSUME NEW S, NEW vec \in Seq(S)
  PROVE  /\ Len(vec) \in Nat /\ DOMAIN vec = 1 .. Len(vec)
         /\ \A i \in 1 .. Len(vec) : vec[i] \in S
  BY LenProperties, ElementOfSeq

\* A sequence but for its last element, and the last one.
LEMMA FrontFacts ==
  ASSUME NEW S, NEW vec \in Seq(S), Len(vec) # 0
  PROVE  /\ Front(vec) \in Seq(S) /\ Len(Front(vec)) = Len(vec) - 1
         /\ \A i \in 1 .. Len(vec) - 1 : Front(vec)[i] = vec[i]
         /\ Last(vec) \in S /\ Last(vec) = vec[Len(vec)]
         /\ vec = Append(Front(vec), Last(vec))
  <1>1. Len(vec) \in Nat \ {0} /\ \A i \in 1 .. Len(vec) : vec[i] \in S
    BY ElementFacts
  <1>2. /\ Front(vec) \in Seq(S) /\ Len(Front(vec)) = Len(vec) - 1
        /\ \A i \in 1 .. Len(vec) - 1 : Front(vec)[i] = vec[i]
    <2> DEFINE n == Len(vec) - 1
    <2>1. n \in Int /\ 1 \in Int /\ \A i \in 1 .. n : vec[i] \in S
      BY <1>1
    <2>2. /\ SubSeq(vec, 1, n) \in Seq(S)
          /\ Len(SubSeq(vec, 1, n)) = IF 1 <= n THEN n - 1 + 1 ELSE 0
          /\ \A i \in 1 .. n - 1 + 1 : SubSeq(vec, 1, n)[i] = vec[1 + i - 1]
      <3> HIDE DEF n
      <3> QED
        BY <2>1, SubSeqProperties
    <2>3. Front(vec) = SubSeq(vec, 1, n)
      BY DEF Front
    <2> HIDE DEF n
    <2>4. n \in Nat /\ n = Len(vec) - 1
      BY <1>1 DEF n
    <2> QED
      BY <2>2, <2>3, <2>4
  <1>3. Last(vec) \in S /\ Last(vec) = vec[Len(vec)]
    BY <1>1 DEF Last
  <1>4. /\ Append(Front(vec), Last(vec)) \in Seq(S)
        /\ Len(Append(Front(vec), Last(vec))) = Len(vec)
        /\ \A i \in 1 .. Len(vec) : Append(Front(vec), Last(vec))[i] = vec[i]
    <2>1. /\ Append(Front(vec), Last(vec)) \in Seq(S)
          /\ Len(Append(Front(vec), Last(vec))) = Len(Front(vec)) + 1
          /\ \A i \in 1 .. Len(Front(vec)) : Append(Front(vec), Last(vec))[i] = Front(vec)[i]
          /\ Append(Front(vec), Last(vec))[Len(Front(vec)) + 1] = Last(vec)
      BY <1>2, <1>3, AppendProperties
    <2> QED
      BY <1>1, <1>2, <1>3, <2>1
  <1>5. vec = Append(Front(vec), Last(vec))
    BY <1>4, SeqEqual
  <1> QED
    BY <1>2, <1>3, <1>5

\* InsertAt, element by element.
LEMMA InsertAtIs ==
  ASSUME NEW vec, NEW r, NEW n \in Nat, NEW at, at = n + 1
  PROVE  InsertAt(vec, at, r) = (SubSeq(vec, 1, n) \o <<r>>) \o SubSeq(vec, at, Len(vec))
  <1>1. at - 1 = n
    OBVIOUS
  <1> QED
    BY <1>1 DEF InsertAt

\* new is vec with r after its first n elements.
With(new, vec, n, r) ==
  /\ Len(new) = Len(vec) + 1
  /\ \A k \in 1 .. n : new[k] = vec[k]
  /\ new[n + 1] = r
  /\ \A k \in n + 2 .. Len(vec) + 1 : new[k] = vec[k - 1]

\* A sequence with an element inserted.
LEMMA InsertAtFacts ==
  ASSUME NEW S, NEW vec \in Seq(S), NEW r \in S, NEW n \in 0 .. Len(vec),
         NEW at, at = n + 1, NEW new, new = InsertAt(vec, at, r)
  PROVE  new \in Seq(S) /\ With(new, vec, n, r)
  <1> DEFINE low == SubSeq(vec, 1, n)
             high == SubSeq(vec, at, Len(vec))
             mid == <<r>>
             lm == low \o mid
             all == lm \o high
  <1>1. Len(vec) \in Nat /\ n \in Nat /\ n <= Len(vec) /\ \A i \in 1 .. Len(vec) : vec[i] \in S
    BY ElementFacts
  <1>2. /\ low \in Seq(S) /\ Len(low) = n
        /\ \A i \in 1 .. n : low[i] = vec[i]
    <2>1. \A i \in 1 .. n : vec[i] \in S
      BY <1>1
    <2>2. /\ low \in Seq(S) /\ Len(low) = IF 1 <= n THEN n - 1 + 1 ELSE 0
          /\ \A i \in 1 .. n - 1 + 1 : low[i] = vec[1 + i - 1]
      BY <1>1, <2>1, SubSeqProperties
    <2> HIDE DEF low
    <2> QED
      BY <1>1, <2>2
  <1>3. /\ high \in Seq(S) /\ Len(high) = Len(vec) - n
        /\ \A i \in 1 .. Len(vec) - n : high[i] = vec[n + i]
    <2>1. at \in Int /\ \A i \in at .. Len(vec) : vec[i] \in S
      BY <1>1
    <2>2. /\ high \in Seq(S)
          /\ Len(high) = IF at <= Len(vec) THEN Len(vec) - at + 1 ELSE 0
          /\ \A i \in 1 .. Len(vec) - at + 1 : high[i] = vec[at + i - 1]
      BY <1>1, <2>1, SubSeqProperties
    <2> HIDE DEF high
    <2> QED
      BY <1>1, <2>2
  <1>4. mid \in Seq(S) /\ Len(mid) = 1 /\ mid[1] = r
    OBVIOUS
  <1> HIDE DEF low, high, mid
  <1>5. /\ lm \in Seq(S) /\ Len(lm) = n + 1
        /\ \A i \in 1 .. n + 1 : lm[i] = IF i <= n THEN low[i] ELSE mid[i - n]
    <2>1. /\ lm \in Seq(S) /\ Len(lm) = Len(low) + Len(mid)
          /\ \A i \in 1 .. Len(low) + Len(mid) :
               lm[i] = IF i <= Len(low) THEN low[i] ELSE mid[i - Len(low)]
      BY <1>2, <1>4, ConcatProperties
    <2> HIDE DEF lm
    <2> QED
      BY <1>2, <1>4, <2>1
  <1> HIDE DEF lm
  <1>6. /\ all \in Seq(S) /\ Len(all) = n + 1 + (Len(vec) - n)
        /\ \A i \in 1 .. n + 1 + (Len(vec) - n) :
             all[i] = IF i <= n + 1 THEN lm[i] ELSE high[i - (n + 1)]
    <2>1. /\ all \in Seq(S) /\ Len(all) = Len(lm) + Len(high)
          /\ \A i \in 1 .. Len(lm) + Len(high) :
               all[i] = IF i <= Len(lm) THEN lm[i] ELSE high[i - Len(lm)]
      BY <1>3, <1>5, ConcatProperties
    <2> HIDE DEF all
    <2> QED
      BY <1>3, <1>5, <2>1
  <1>7. all = new
    BY <1>1, InsertAtIs DEF lm, low, mid, high
  <1> HIDE DEF all
  <1>8. \A i \in 1 .. n : all[i] = vec[i]
    <2> TAKE i \in 1 .. n
    <2>1. i \in 1 .. n + 1 /\ i \in 1 .. n + 1 + (Len(vec) - n) /\ i <= n /\ i <= n + 1
      BY <1>1
    <2> QED
      BY <1>2, <1>5, <1>6, <2>1
  <1>9. all[n + 1] = r
    BY <1>1, <1>4, <1>5, <1>6
  <1>10. \A i \in n + 2 .. Len(vec) + 1 : all[i] = vec[i - 1]
    <2> TAKE i \in n + 2 .. Len(vec) + 1
    <2>1. i - (n + 1) \in 1 .. Len(vec) - n /\ n + (i - (n + 1)) = i - 1
      BY <1>1
    <2>2. all[i] = high[i - (n + 1)]
      BY <1>1, <1>6
    <2>3. high[i - (n + 1)] = vec[n + (i - (n + 1))]
      BY <1>3, <2>1
    <2> QED
      BY <2>1, <2>2, <2>3
  <1>11. Len(all) = Len(vec) + 1
    BY <1>1, <1>6
  <1> QED
    BY <1>6, <1>7, <1>8, <1>9, <1>10, <1>11 DEF With

-------------------------------------------------------------------------------
(* Sums of lengths.                                                        *)

\* SumLen of sequences that grow, join or lose an element.
LEMMA SumEmpty == SumLen(<<>>) = 0
  <1>1. Len(<<>>) = 0
    OBVIOUS
  <1>2. PICK f : SumLen(<<>>) = f[Len(<<>>)] /\ f[0] = 0
    BY <1>1, SumLoop
  <1> QED
    BY <1>1, <1>2

LEMMA SumAppend ==
  ASSUME NEW S, \A x \in S : x.len \in Nat, NEW vec \in Seq(S), NEW r \in S
  PROVE  SumLen(Append(vec, r)) = SumLen(vec) + r.len
  <1> DEFINE all == Append(vec, r)
             n == Len(vec)
  <1>1. /\ n \in Nat /\ Len(all) = n + 1 /\ all[n + 1] = r
        /\ \A i \in 1 .. n : all[i] = vec[i]
    BY ElementFacts, AppendProperties
  <1> HIDE DEF all
  <1>2. PICK f : /\ SumLen(vec) = f[n] /\ f[0] = 0
                 /\ \A i \in 1 .. n : f[i] = f[i - 1] + vec[i].len
    BY <1>1, SumLoop
  <1>3. PICK g : /\ SumLen(all) = g[n + 1] /\ g[0] = 0
                 /\ \A i \in 1 .. n + 1 : g[i] = g[i - 1] + all[i].len
    BY SMTT(30), <1>1, SumLoop
  <1> DEFINE T == {m \in Nat : m <= n => f[m] = g[m]}
  <1>4. 0 \in T
    BY <1>2, <1>3
  <1>5. \A m \in Nat : m \in T => m + 1 \in T
    <2> SUFFICES ASSUME NEW m \in Nat, m \in T, m + 1 <= n PROVE f[m + 1] = g[m + 1]
      OBVIOUS
    <2>1. m + 1 \in 1 .. n /\ m + 1 \in 1 .. n + 1 /\ m + 1 - 1 = m /\ f[m] = g[m]
      BY <1>1
    <2>2. f[m + 1] = f[m] + vec[m + 1].len /\ g[m + 1] = g[m] + all[m + 1].len
      BY <1>2, <1>3, <2>1
    <2> QED
      BY <1>1, <2>1, <2>2
  <1>6. n \in T
    <2> HIDE DEF T
    <2> QED
      BY <1>1, <1>4, <1>5, Induct
  <1>7. n + 1 \in 1 .. n + 1 /\ n + 1 - 1 = n
    BY <1>1
  <1>8. g[n + 1] = g[n] + r.len
    BY <1>1, <1>3, <1>7
  <1> QED
    BY <1>1, <1>2, <1>3, <1>6, <1>8 DEF all

LEMMA SumNat ==
  ASSUME NEW S, \A x \in S : x.len \in Nat, NEW vec \in Seq(S)
  PROVE  SumLen(vec) \in Nat
  <1> DEFINE T == {m \in Nat : \A w \in Seq(S) : Len(w) = m => SumLen(w) \in Nat}
  <1>1. 0 \in T
    BY SumEmpty, EmptySeq
  <1>2. \A m \in Nat : m \in T => m + 1 \in T
    <2> SUFFICES ASSUME NEW m \in Nat, m \in T, NEW w \in Seq(S), Len(w) = m + 1
                 PROVE  SumLen(w) \in Nat
      OBVIOUS
    <2>1. /\ Front(w) \in Seq(S) /\ Len(Front(w)) = m /\ Last(w) \in S
          /\ w = Append(Front(w), Last(w))
      <3>1. Len(w) # 0 /\ Len(w) - 1 = m
        OBVIOUS
      <3> QED
        BY <3>1, FrontFacts
    <2>2. SumLen(w) = SumLen(Front(w)) + Last(w).len
      BY <2>1, SumAppend
    <2> QED
      BY <2>1, <2>2
  <1>3. Len(vec) \in T
    <2> HIDE DEF T
    <2> QED
      BY <1>1, <1>2, Induct, ElementFacts
  <1> QED
    BY <1>3

LEMMA SumConcat ==
  ASSUME NEW S, \A x \in S : x.len \in Nat, NEW v \in Seq(S), NEW vec \in Seq(S)
  PROVE  SumLen(v \o vec) = SumLen(v) + SumLen(vec)
  <1> DEFINE T == {m \in Nat : \A w \in Seq(S) :
                     Len(w) = m => SumLen(v \o w) = SumLen(v) + SumLen(w)}
  <1>1. 0 \in T
    <2> SUFFICES ASSUME NEW w \in Seq(S), Len(w) = 0
                 PROVE  SumLen(v \o w) = SumLen(v) + SumLen(w)
      OBVIOUS
    <2>1. w = <<>> /\ v \o w = v /\ SumLen(v) \in Nat
      BY EmptySeq, ConcatEmptySeq, SumNat
    <2> QED
      BY <2>1, SumEmpty
  <1>2. \A m \in Nat : m \in T => m + 1 \in T
    <2> SUFFICES ASSUME NEW m \in Nat, m \in T, NEW w \in Seq(S), Len(w) = m + 1
                 PROVE  SumLen(v \o w) = SumLen(v) + SumLen(w)
      OBVIOUS
    <2> DEFINE u == Front(w)
               x == Last(w)
    <2>1. u \in Seq(S) /\ Len(u) = m /\ x \in S /\ w = Append(u, x)
      <3>1. Len(w) # 0 /\ Len(w) - 1 = m
        OBVIOUS
      <3> QED
        BY <3>1, FrontFacts
    <2> HIDE DEF u, x
    <2>2. v \o w = Append(v \o u, x) /\ v \o u \in Seq(S)
      BY SMTT(30), <2>1, AppendIsConcat, ConcatAssociative, ConcatProperties
    <2>3. SumLen(v \o w) = SumLen(v \o u) + x.len /\ SumLen(w) = SumLen(u) + x.len
      BY <2>1, <2>2, SumAppend
    <2>4. SumLen(v \o u) = SumLen(v) + SumLen(u)
      BY <2>1
    <2>5. SumLen(v) \in Nat /\ SumLen(u) \in Nat /\ x.len \in Nat
      BY <2>1, SumNat
    <2> QED
      BY <2>3, <2>4, <2>5
  <1>3. Len(vec) \in T
    <2> HIDE DEF T
    <2> QED
      BY <1>1, <1>2, Induct, ElementFacts
  <1> QED
    BY <1>3

LEMMA SumOne ==
  ASSUME NEW S, \A x \in S : x.len \in Nat, NEW r \in S
  PROVE  SumLen(<<r>>) = r.len
  <1>1. <<r>> = Append(<<>>, r) /\ <<>> \in Seq(S)
    BY AppendIsConcat, EmptySeq
  <1>2. SumLen(<<r>>) = SumLen(<<>>) + r.len
    BY <1>1, SumAppend
  <1> QED
    BY <1>2, SumEmpty

\* Without its first element.
LEMMA SumTail ==
  ASSUME NEW S, \A x \in S : x.len \in Nat, NEW vec \in Seq(S), vec # <<>>
  PROVE  SumLen(vec) = Head(vec).len + SumLen(Tail(vec))
  <1> DEFINE r == Head(vec)
             rest == Tail(vec)
             one == <<r>>
  <1>1. r \in S /\ rest \in Seq(S) /\ one \in Seq(S)
    BY HeadTailProperties
  <1>2. vec = one \o rest
    BY HeadTailProperties, EmptySeq
  <1>3. SumLen(one) = r.len
    BY <1>1, SumOne
  <1> HIDE DEF one, rest, r
  <1>4. SumLen(one \o rest) = SumLen(one) + SumLen(rest)
    BY <1>1, SumConcat
  <1> QED
    BY <1>2, <1>3, <1>4 DEF rest, r

LEMMA SumInsertAt ==
  ASSUME NEW S, \A x \in S : x.len \in Nat, NEW vec \in Seq(S), NEW r \in S,
         NEW n \in 0 .. Len(vec), NEW at, at = n + 1
  PROVE  SumLen(InsertAt(vec, at, r)) = SumLen(vec) + r.len
  <1> DEFINE low == SubSeq(vec, 1, n)
             high == SubSeq(vec, at, Len(vec))
             mid == <<r>>
  <1>1. Len(vec) \in Nat /\ n \in Nat /\ n <= Len(vec) /\ \A i \in 1 .. Len(vec) : vec[i] \in S
    BY ElementFacts
  <1>2. low \in Seq(S) /\ high \in Seq(S) /\ mid \in Seq(S)
    BY <1>1, SubSeqProperties
  <1>3. SumLen(mid) = r.len
    BY SumOne
  <1>4. low \o high = vec
    <2>1. /\ 1 \in 1 .. Len(vec) + 1 /\ n \in 1 - 1 .. Len(vec)
          /\ Len(vec) \in n .. Len(vec)
      BY <1>1
    <2>2. SubSeq(vec, 1, n) \o SubSeq(vec, n + 1, Len(vec)) = SubSeq(vec, 1, Len(vec))
      BY <2>1, ConcatAdjacentSubSeq
    <2> QED
      BY <2>2, SubSeqFull
  <1>5. InsertAt(vec, at, r) = (low \o mid) \o high
    BY <1>1, InsertAtIs
  <1> HIDE DEF low, high, mid
  <1>7. low \o mid \in Seq(S)
    BY <1>2, ConcatProperties
  <1>8. /\ SumLen((low \o mid) \o high) = SumLen(low \o mid) + SumLen(high)
        /\ SumLen(low \o mid) = SumLen(low) + SumLen(mid)
        /\ SumLen(low \o high) = SumLen(low) + SumLen(high)
    BY <1>2, <1>7, SumConcat
  <1>9. SumLen(low) \in Nat /\ SumLen(high) \in Nat /\ r.len \in Nat
    BY <1>2, SumNat
  <1>10. SumLen((low \o mid) \o high) = SumLen(vec) + r.len
    BY <1>3, <1>4, <1>8, <1>9
  <1> QED
    BY <1>5, <1>10, Zenon

-------------------------------------------------------------------------------
(* The binary searches.                                                    *)

\* A search answers V[w] in the windows of D and goes on in the window N[w] in the
\* others.
Searches(f, W, D, V, N) ==
  /\ f = [w \in W |-> f[w]]
  /\ \A w \in W : f[w] = IF w \in D THEN V[w] ELSE f[N[w]]

Shrinks(W, D, N, size, top) ==
  /\ \A w \in W : size[w] \in Nat /\ size[w] < top
  /\ \A w \in W : w \notin D => N[w] \in W /\ size[N[w]] < size[w]

\* Where the windows shrink the search ends: its function exists.
LEMMA TailRecursion ==
  ASSUME NEW W, NEW D, NEW V, NEW N, NEW size, NEW top \in Nat, Shrinks(W, D, N, size, top)
  PROVE  \E f : Searches(f, W, D, V, N)
  <1> DEFINE Upto(f, n) == \A w \in W : size[w] < n =>
                             f[w] = IF w \in D THEN V[w] ELSE f[N[w]]
             Exists(n) == \E f : Upto(f, n)
             T == {n \in Nat : Exists(n)}
  <1> USE DEF Shrinks
  <1>1. 0 \in T
    BY DEF Upto
  <1>2. ASSUME NEW n \in Nat, n \in T PROVE n + 1 \in T
    <2> PICK f : Upto(f, n)
      BY <1>2
    <2> DEFINE g == [w \in W |-> IF w \in D THEN V[w] ELSE f[N[w]]]
    <2>1. \A w \in W : g[w] = IF w \in D THEN V[w] ELSE f[N[w]]
      OBVIOUS
    <2> HIDE DEF g
    <2>2. \A w \in W : size[w] < n => g[w] = f[w]
      BY <2>1
    <2>3. \A w \in W : size[w] < n + 1 /\ w \notin D => g[N[w]] = f[N[w]]
      <3> TAKE w \in W
      <3> SUFFICES ASSUME size[w] < n + 1, w \notin D PROVE g[N[w]] = f[N[w]]
        OBVIOUS
      <3>1. N[w] \in W /\ size[N[w]] < size[w] /\ size[N[w]] \in Nat /\ size[w] \in Nat
        OBVIOUS
      <3>2. size[N[w]] < n
        BY <3>1
      <3> QED
        BY <2>2, <3>1, <3>2
    <2>4. Upto(g, n + 1)
      BY <2>1, <2>3
    <2>5. Exists(n + 1)
      BY <2>4
    <2> HIDE DEF Exists
    <2> QED
      BY <2>5
  <1>3. top \in T
    <2> HIDE DEF T
    <2> QED
      BY <1>1, <1>2, Induct
  <1>4. PICK f : Upto(f, top)
    BY <1>3
  <1> DEFINE g == [w \in W |-> f[w]]
  <1>5. \A w \in W : g[w] = f[w]
    OBVIOUS
  <1>6. g = [w \in W |-> g[w]]
    OBVIOUS
  <1> HIDE DEF g
  <1>7. \A w \in W : g[w] = IF w \in D THEN V[w] ELSE g[N[w]]
    BY <1>4, <1>5
  <1> QED
    BY <1>6, <1>7 DEF Searches

Windows(n) == {w \in (0 .. n) \X (0 .. n) : w[1] < w[2]}

\* One probe of insert among the keys between w[1] and w[2].
Probe(keys, key, pos, w) ==
  LET mid == (w[1] + w[2]) \div 2
  IN  IF keys[mid + 1] = key THEN -1
      ELSE IF w[1] = mid THEN (IF keys[mid + 1] > key THEN mid ELSE mid + 1)
      ELSE pos[IF keys[mid + 1] > key THEN <<w[1], mid>> ELSE <<mid, w[2]>>]

\* The middle of a window lies in it.
LEMMA MiddleFacts ==
  ASSUME NEW n \in Nat, NEW w \in Windows(n)
  PROVE  LET mid == (w[1] + w[2]) \div 2 IN
         /\ w[1] \in Nat /\ w[2] \in Nat /\ w[1] < w[2] /\ w[2] <= n
         /\ mid \in Nat /\ w[1] <= mid /\ mid < w[2] /\ mid + 1 \in 1 .. n
         /\ w[1] # mid => /\ <<w[1], mid>> \in Windows(n) /\ <<mid, w[2]>> \in Windows(n)
         /\ w[1] = mid => w[2] = mid + 1
  BY SMTT(30) DEF Windows

\* The search of InsertPos, as a tail recursion.
LEMMA InsertSearch ==
  ASSUME NEW keys, Len(keys) \in Nat \ {0}, NEW key
  PROVE  \E pos : /\ InsertPos(keys, key) = pos[<<0, Len(keys)>>]
                  /\ \A w \in Windows(Len(keys)) : pos[w] = Probe(keys, key, pos, w)
  <1> DEFINE n == Len(keys)
             W == Windows(n)
             Mid(w) == (w[1] + w[2]) \div 2
             Ends(w) == keys[Mid(w) + 1] = key \/ w[1] = Mid(w)
             D == {w \in W : Ends(w)}
             V == [w \in W |-> IF keys[Mid(w) + 1] = key THEN -1
                               ELSE IF keys[Mid(w) + 1] > key THEN Mid(w) ELSE Mid(w) + 1]
             N == [w \in W |-> IF keys[Mid(w) + 1] > key THEN <<w[1], Mid(w)>> ELSE <<Mid(w), w[2]>>]
             size == [w \in W |-> w[2] - w[1]]
             top == n + 1
  <1>1. /\ top \in Nat
        /\ \A w \in W : size[w] \in Nat /\ size[w] < top
    <2>1. \A w \in W : w[1] \in Nat /\ w[2] \in Nat /\ w[1] < w[2] /\ w[2] <= n
      BY MiddleFacts
    <2>2. \A w \in W : size[w] = w[2] - w[1]
      OBVIOUS
    <2> HIDE DEF W, size
    <2> QED
      BY <2>1, <2>2
  <1>2. \A w \in W : w \notin D => N[w] \in W /\ size[N[w]] < size[w]
    <2> SUFFICES ASSUME NEW w \in W, w \notin D PROVE N[w] \in W /\ size[N[w]] < size[w]
      OBVIOUS
    <2>1. w[1] # Mid(w)
      OBVIOUS
    <2>2. /\ w[1] \in Nat /\ w[2] \in Nat /\ Mid(w) \in Nat /\ w[1] < Mid(w) /\ Mid(w) < w[2]
          /\ <<w[1], Mid(w)>> \in W /\ <<Mid(w), w[2]>> \in W
      BY <2>1, MiddleFacts
    <2> HIDE DEF W, Mid
    <2> QED
      BY <2>2
  <1>3. PICK f : Searches(f, W, D, V, N)
    <2> HIDE DEF W, D, V, N, size, top
    <2>1. Shrinks(W, D, N, size, top)
      BY <1>1, <1>2 DEF Shrinks
    <2> QED
      BY <1>1, <2>1, TailRecursion
  <1>4. /\ f = [w \in W |-> f[w]]
        /\ \A w \in W : f[w] = IF w \in D THEN V[w] ELSE f[N[w]]
    <2> HIDE DEF W, D, V, N
    <2> QED
      BY <1>3 DEF Searches
  <1>5. \A w \in W : (IF w \in D THEN V[w] ELSE f[N[w]]) = Probe(keys, key, f, w)
    <2> TAKE w \in W
    <2>1. w \in D <=> Ends(w)
      OBVIOUS
    <2>2. /\ V[w] = IF keys[Mid(w) + 1] = key THEN -1
                    ELSE IF keys[Mid(w) + 1] > key THEN Mid(w) ELSE Mid(w) + 1
          /\ N[w] = IF keys[Mid(w) + 1] > key THEN <<w[1], Mid(w)>> ELSE <<Mid(w), w[2]>>
      OBVIOUS
    <2> HIDE DEF W, D, V, N
    <2> QED
      BY <2>1, <2>2 DEF Probe
  <1>6. f = [w \in W |-> Probe(keys, key, f, w)]
    BY <1>4, <1>5
  <1>7. \E pos : pos = [w \in W |-> Probe(keys, key, pos, w)]
    BY <1>6
  <1> DEFINE found == CHOOSE pos : pos = [w \in W |-> Probe(keys, key, pos, w)]
  <1>8. found = [w \in W |-> Probe(keys, key, found, w)]
    BY <1>7
  <1>9. InsertPos(keys, key) = found[<<0, Len(keys)>>]
    BY DEF InsertPos, Probe, Windows
  <1> HIDE DEF found
  <1>10. \A w \in W : found[w] = Probe(keys, key, found, w)
    BY <1>8, Zenon
  <1> QED
    BY <1>9, <1>10

\* What insert needs to know of the place n it found for key.
Splits(keys, key, n) ==
  /\ n \in 0 .. Len(keys)
  /\ \A i \in 1 .. n : keys[i] < key
  /\ \A i \in n + 1 .. Len(keys) : keys[i] > key

\* The search finds where a new key belongs in an ascending vector.
LEMMA InsertPosSplits ==
  ASSUME NEW keys \in Seq(Nat), NEW key \in Nat,
         \A i, j \in 1 .. Len(keys) : i < j => keys[i] < keys[j],
         \A i \in 1 .. Len(keys) : keys[i] # key
  PROVE  Splits(keys, key, InsertPos(keys, key))
  <1> DEFINE n == Len(keys)
  <1>0. n \in Nat /\ \A i \in 1 .. n : keys[i] \in Nat
    BY ElementFacts
  <1>1. CASE n = 0
    <2>1. InsertPos(keys, key) = 0
      BY <1>1 DEF InsertPos
    <2> QED
      BY <1>1, <2>1 DEF Splits
  <1>2. CASE n # 0
    <2>1. PICK pos : /\ InsertPos(keys, key) = pos[<<0, n>>]
                     /\ \A w \in Windows(n) : pos[w] = Probe(keys, key, pos, w)
      BY <1>0, <1>2, InsertSearch
    <2> DEFINE Between(w) == /\ \A i \in 1 .. w[1] : keys[i] < key
                             /\ \A i \in w[2] + 1 .. n : keys[i] > key
               T == {m \in Nat : \A w \in Windows(n) :
                       w[2] - w[1] <= m /\ Between(w) => Splits(keys, key, pos[w])}
    <2>2. 0 \in T
      <3>1. \A w \in Windows(n) : w[1] \in Nat /\ w[2] \in Nat /\ w[1] < w[2]
        BY <1>0, MiddleFacts
      <3>2. \A w \in Windows(n) : ~(w[2] - w[1] <= 0)
        BY <3>1
      <3> QED
        BY <3>2
    <2>3. ASSUME NEW m \in Nat, m \in T PROVE m + 1 \in T
      <3> SUFFICES ASSUME NEW w \in Windows(n), w[2] - w[1] <= m + 1, Between(w)
                   PROVE  Splits(keys, key, pos[w])
        OBVIOUS
      <3> DEFINE mid == (w[1] + w[2]) \div 2
                 up == <<mid, w[2]>>
                 down == <<w[1], mid>>
      <3>1. /\ w[1] \in Nat /\ w[2] \in Nat /\ w[1] < w[2] /\ w[2] <= n
            /\ mid \in Nat /\ w[1] <= mid /\ mid < w[2] /\ mid + 1 \in 1 .. n
            /\ w[1] # mid => down \in Windows(n) /\ up \in Windows(n)
            /\ w[1] = mid => w[2] = mid + 1
        BY <1>0, MiddleFacts
      <3>1a. mid \in Nat /\ mid + 1 \in 1 .. n /\ w[1] \in Nat /\ w[2] \in Nat /\ w[1] <= mid
             /\ mid < w[2]
        BY <3>1
      <3>2. pos[w] = IF w[1] = mid THEN (IF keys[mid + 1] > key THEN mid ELSE mid + 1)
                     ELSE pos[IF keys[mid + 1] > key THEN down ELSE up]
        BY <2>1, <3>1 DEF Probe
      <3> HIDE DEF mid
      <3>3. CASE keys[mid + 1] > key
        <4>1. \A i \in mid + 1 .. n : keys[i] > key
          <5> TAKE i \in mid + 1 .. n
          <5>1. i \in 1 .. n /\ (i = mid + 1 \/ mid + 1 < i)
            <6> HIDE DEF n
            <6> QED
              BY <1>0, <3>1a
          <5> QED
            BY SMTT(30), <1>0, <3>1a, <3>3, <5>1
        <4>2. CASE w[1] = mid
          BY <3>1, <3>2, <3>3, <4>1, <4>2, <1>0 DEF Splits
        <4>3. CASE w[1] # mid
          <5>1. down \in Windows(n) /\ down[2] - down[1] <= m /\ Between(down)
            <6>1. down \in Windows(n) /\ down[1] = w[1] /\ down[2] = mid
              BY <3>1, <4>3
            <6> HIDE DEF down
            <6>2. down[2] - down[1] <= m
              <7>1. mid - w[1] <= m
                BY SMTT(30), <3>1a
              <7> QED
                BY <6>1, <7>1
            <6>3. \A i \in 1 .. w[1] : keys[i] < key
              OBVIOUS
            <6> QED
              BY <4>1, <6>1, <6>2, <6>3
          <5> QED
            BY <2>3, <3>2, <3>3, <4>3, <5>1
        <4> QED
          BY <4>2, <4>3
      <3>4. CASE ~(keys[mid + 1] > key)
        <4>0. keys[mid + 1] < key
          BY SMTT(30), <1>0, <3>1, <3>4
        <4>1. \A i \in 1 .. mid + 1 : keys[i] < key
          <5> TAKE i \in 1 .. mid + 1
          <5>1. i \in 1 .. n /\ (i = mid + 1 \/ i < mid + 1)
            <6> HIDE DEF n
            <6> QED
              BY <1>0, <3>1a
          <5>2. CASE i = mid + 1
            BY <4>0, <5>2
          <5>3. CASE i < mid + 1
            <6> DEFINE c == mid + 1
            <6>1. c \in 1 .. n
              BY <3>1a
            <6> HIDE DEF c, n
            <6>2. i < c /\ keys[c] < key
              BY <4>0, <5>3 DEF c
            <6>3. i \in 1 .. Len(keys) /\ c \in 1 .. Len(keys) /\ i < c
              BY <5>1, <6>1, <6>2 DEF n
            <6>4. keys[i] < keys[c]
              BY <6>3
            <6>5. keys[i] \in Nat /\ keys[c] \in Nat
              BY <6>3
            <6> QED
              BY <6>2, <6>4, <6>5
          <5> QED
            BY <5>1, <5>2, <5>3
        <4>2. CASE w[1] = mid
          <5>1. pos[w] = mid + 1 /\ w[2] = mid + 1
            BY <3>1, <3>2, <3>4, <4>2
          <5>2. mid + 1 \in 0 .. n
            BY <1>0, <3>1a
          <5>3. \A i \in mid + 2 .. n : keys[i] > key
            <6>1. w[2] + 1 = mid + 2
              BY <3>1a, <5>1
            <6> QED
              BY <6>1
          <5> QED
            BY <3>1a, <4>1, <5>1, <5>2, <5>3 DEF Splits
        <4>3. CASE w[1] # mid
          <5>1. up \in Windows(n) /\ up[2] - up[1] <= m /\ Between(up)
            <6>1. up \in Windows(n) /\ up[1] = mid /\ up[2] = w[2] /\ w[1] # mid
              BY <3>1, <4>3
            <6> HIDE DEF up
            <6>2. up[2] - up[1] <= m
              <7>1. w[2] - mid <= m
                BY <3>1a, <6>1
              <7> QED
                BY <6>1, <7>1
            <6>3. \A i \in w[2] + 1 .. n : keys[i] > key
              OBVIOUS
            <6>4. \A i \in 1 .. mid : keys[i] < key
              <7>1. \A i \in 1 .. mid : i \in 1 .. mid + 1
                BY <3>1a
              <7> QED
                BY <4>1, <7>1
            <6> QED
              BY <6>1, <6>2, <6>3, <6>4
          <5> QED
            BY <2>3, <3>2, <3>4, <4>3, <5>1
        <4> QED
          BY <4>2, <4>3
      <3> QED
        BY <3>3, <3>4
    <2>4. n \in T
      <3> HIDE DEF T
      <3> QED
        BY <1>0, <2>2, <2>3, Induct
    <2>5. <<0, n>> \in Windows(n) /\ Between(<<0, n>>) /\ n - 0 <= n
      BY <1>0, <1>2 DEF Windows
    <2>6. Splits(keys, key, pos[<<0, n>>])
      BY <2>4, <2>5
    <2> QED
      BY <2>1, <2>6
  <1> QED
    BY <1>1, <1>2

-------------------------------------------------------------------------------
(* Ranges and vectors of them.                                             *)

RS == [org_start : Nat, start : Nat, len : Nat \ {0}]

\* The fields of a range.
LEMMA RangeFacts ==
  /\ \A r \in RS : r.org_start \in Nat /\ r.start \in Nat /\ r.len \in Nat \ {0} /\ r.len \in Nat
  /\ \A o, s, l : LET r == algo_range(o, s, l) IN
       /\ r.org_start = o /\ r.start = s /\ r.len = l
       /\ r["org_start"] = o /\ r["start"] = s
  /\ \A o, s \in Nat, l \in Nat \ {0} : algo_range(o, s, l) \in RS
  /\ \A r \in RS : r["start"] = r.start /\ r["org_start"] = r.org_start
  BY DEF RS, algo_range

\* The ranges of a vector.
LEMMA VecFacts ==
  ASSUME NEW vec \in Seq(RS)
  PROVE  /\ Len(vec) \in Nat
         /\ \A i \in 1 .. Len(vec) :
              /\ vec[i] \in RS /\ vec[i].org_start \in Nat
              /\ vec[i].start \in Nat /\ vec[i].len \in Nat \ {0}
  BY ElementFacts, RangeFacts

\* Address a of the pool lies in range r.
Lies(r, a) == r.start <= a /\ a < r.start + r.len

\* What a vector covers lies in one of its ranges.
LEMMA CoveredFacts ==
  ASSUME NEW vec \in Seq(RS)
  PROVE  /\ Covered(vec) \subseteq Nat
         /\ \A a \in Nat : a \in Covered(vec) <=> \E k \in 1 .. Len(vec) : Lies(vec[k], a)
  <1>1. ToSet(vec) = {vec[k] : k \in 1 .. Len(vec)}
    BY ElementFacts DEF ToSet
  <1>2. \A a : a \in Covered(vec) <=>
                 \E k \in 1 .. Len(vec) : a \in vec[k].start .. (vec[k].start + vec[k].len - 1)
    BY <1>1 DEF Covered
  <1>3. \A k \in 1 .. Len(vec) : \A a :
          a \in vec[k].start .. (vec[k].start + vec[k].len - 1) <=> a \in Nat /\ Lies(vec[k], a)
    BY SMTT(30), VecFacts DEF Lies
  <1> QED
    BY <1>2, <1>3

LEMMA CoveredEmpty == Covered(<<>>) = {} /\ <<>> \in Seq(RS)
  <1>1. <<>> \in Seq(RS) /\ Len(<<>>) = 0
    BY EmptySeq
  <1>2. 1 .. 0 = {}
    OBVIOUS
  <1> QED
    BY <1>1, <1>2, CoveredFacts

\* A vector of ranges with one inserted.
LEMMA Inserted ==
  ASSUME NEW vec \in Seq(RS), NEW r \in RS, NEW n \in 0 .. Len(vec), NEW at, at = n + 1,
         NEW new, new = InsertAt(vec, at, r)
  PROVE  new \in Seq(RS) /\ With(new, vec, n, r) /\ SumLen(new) = SumLen(vec) + r.len
  <1>1. \A x \in RS : x.len \in Nat
    BY RangeFacts
  <1>2. SumLen(InsertAt(vec, at, r)) = SumLen(vec) + r.len
    BY <1>1, SumInsertAt
  <1>3. new \in Seq(RS) /\ With(new, vec, n, r)
    BY InsertAtFacts
  <1> QED
    BY <1>2, <1>3

-------------------------------------------------------------------------------
(* Free lists: ordered by start, before and after the merge pass.          *)

Apart(vec) ==
  \A i, j \in 1 .. Len(vec) : i < j => vec[i].start + vec[i].len <= vec[j].start

Gapped(vec) ==
  \A i, j \in 1 .. Len(vec) : i < j => vec[i].start + vec[i].len < vec[j].start

Bare(vec) == \A i \in 1 .. Len(vec) : vec[i].org_start = 0

Ordered(vec) == vec \in Seq(RS) /\ Apart(vec) /\ Bare(vec)

FreeList(vec) == vec \in Seq(RS) /\ Gapped(vec) /\ Bare(vec)

LEMMA FreeListOrdered == \A vec : FreeList(vec) => Ordered(vec)
  <1> SUFFICES ASSUME NEW vec, FreeList(vec) PROVE Apart(vec)
    BY DEF FreeList, Ordered
  <1> QED
    BY VecFacts DEF FreeList, Gapped, Apart

\* A range that is not covered yet finds its place.
LEMMA InsertFree ==
  ASSUME NEW vec, Ordered(vec), NEW r \in RS, r.org_start = 0,
         \A a \in Nat : Lies(r, a) => a \notin Covered(vec)
  PROVE  LET res == Insert([vec |-> vec, ok |-> TRUE], r, "start") IN
         /\ res = [vec |-> res.vec, ok |-> TRUE]
         /\ Ordered(res.vec)
         /\ SumLen(res.vec) = SumLen(vec) + r.len
         /\ \A a \in Nat : a \in Covered(res.vec) <=> a \in Covered(vec) \/ Lies(r, a)
  <1> DEFINE acc == [vec |-> vec, ok |-> TRUE]
             keys == [i \in 1 .. Len(vec) |-> vec[i]["start"]]
             n == InsertPos(keys, r["start"])
             at == n + 1
             new == InsertAt(vec, at, r)
  <1>0. /\ vec \in Seq(RS) /\ Len(vec) \in Nat /\ r.start \in Nat /\ r.len \in Nat \ {0}
        /\ \A i \in 1 .. Len(vec) :
             /\ vec[i] \in RS /\ vec[i].start \in Nat /\ vec[i].len \in Nat \ {0}
        /\ \A i, j \in 1 .. Len(vec) : i < j => vec[i].start + vec[i].len <= vec[j].start
        /\ \A i \in 1 .. Len(vec) : vec[i].org_start = 0
    BY VecFacts, RangeFacts DEF Ordered, Apart, Bare
  <1>1. /\ keys \in Seq(Nat) /\ Len(keys) = Len(vec)
        /\ \A i \in 1 .. Len(vec) : keys[i] = vec[i].start
    <2>1. \A i \in 1 .. Len(vec) : vec[i]["start"] = vec[i].start /\ vec[i].start \in Nat
      BY <1>0, RangeFacts
    <2>2. keys \in [1 .. Len(vec) -> Nat]
      BY <2>1
    <2>3. keys \in Seq(Nat) /\ Len(keys) = Len(vec)
      BY <1>0, <2>2
    <2> QED
      BY <2>1, <2>3
  <1> HIDE DEF keys
  <1>2. \A i \in 1 .. Len(vec), a \in Nat : Lies(vec[i], a) => ~Lies(r, a)
    BY <1>0, CoveredFacts
  <1>3. Splits(keys, r.start, n)
    <2>1. \A i, j \in 1 .. Len(vec) : i < j => vec[i].start < vec[j].start
      <3> TAKE i, j \in 1 .. Len(vec)
      <3>1. vec[i].start \in Nat /\ vec[i].len \in Nat \ {0} /\ vec[j].start \in Nat
        BY <1>0
      <3>2. i < j => vec[i].start + vec[i].len <= vec[j].start
        BY <1>0
      <3> QED
        BY <3>1, <3>2
    <2>2. \A i \in 1 .. Len(vec) : vec[i].start # r.start
      <3> TAKE i \in 1 .. Len(vec)
      <3>1. vec[i].start \in Nat /\ vec[i].len \in Nat \ {0} /\ ~(Lies(vec[i], r.start) /\ Lies(r, r.start))
        BY <1>0, <1>2
      <3> QED
        BY <1>0, <3>1 DEF Lies
    <2>3. r["start"] = r.start
      BY RangeFacts
    <2>4. Splits(keys, r.start, InsertPos(keys, r.start))
      <3>1. \A i, j \in 1 .. Len(keys) : i < j => keys[i] < keys[j]
        BY <1>1, <2>1
      <3>2. \A i \in 1 .. Len(keys) : keys[i] # r.start
        BY <1>1, <2>2
      <3> QED
        BY <1>0, <1>1, <3>1, <3>2, InsertPosSplits
    <2> QED
      BY <2>3, <2>4
  <1>4. n \in 0 .. Len(vec) /\ n >= 0
    BY <1>1, <1>3 DEF Splits
  <1>5. Insert(acc, r, "start") = [vec |-> new, ok |-> TRUE]
    BY <1>4 DEF Insert, keys
  <1>6a. new \in Seq(RS) /\ With(new, vec, n, r) /\ SumLen(new) = SumLen(vec) + r.len
    <2>1. at = n + 1
      OBVIOUS
    <2>2. new = InsertAt(vec, at, r)
      OBVIOUS
    <2> HIDE DEF n, at, new
    <2> QED
      BY <1>0, <1>4, <2>1, <2>2, Inserted
  <1> HIDE DEF n, at, new
  <1>6. /\ new \in Seq(RS) /\ Len(new) = Len(vec) + 1
        /\ \A k \in 1 .. n : new[k] = vec[k]
        /\ new[n + 1] = r
        /\ \A k \in n + 2 .. Len(vec) + 1 : new[k] = vec[k - 1]
    BY <1>6a DEF With
  <1>7. SumLen(new) = SumLen(vec) + r.len
    BY <1>6a
  <1>8. \A k \in 1 .. Len(new) : \/ k \in 1 .. n
                                 \/ k = n + 1
                                 \/ k \in n + 2 .. Len(vec) + 1 /\ k - 1 \in n + 1 .. Len(vec)
    BY <1>0, <1>4, <1>6
  <1>9. \A i \in 1 .. n : vec[i].start + vec[i].len <= r.start
    <2> TAKE i \in 1 .. n
    <2>1. i \in 1 .. Len(vec) /\ vec[i].start < r.start
      BY <1>1, <1>3, <1>4 DEF Splits
    <2>2. ~Lies(vec[i], r.start)
      <3>1. r.start \in Nat /\ Lies(r, r.start)
        BY <1>0 DEF Lies
      <3>2. i \in 1 .. Len(vec)
        BY <2>1
      <3> QED
        BY <1>2, <3>1, <3>2
    <2> QED
      BY <1>0, <2>1, <2>2 DEF Lies
  <1>10. \A i \in n + 1 .. Len(vec) : r.start + r.len <= vec[i].start
    <2> TAKE i \in n + 1 .. Len(vec)
    <2>1. i \in 1 .. Len(vec) /\ vec[i].start > r.start
      BY <1>0, <1>1, <1>3, <1>4 DEF Splits
    <2>2. ~Lies(r, vec[i].start)
      <3>1. vec[i].start \in Nat /\ vec[i].len \in Nat \ {0}
        BY <1>0, <2>1
      <3>2. Lies(vec[i], vec[i].start)
        BY <3>1 DEF Lies
      <3> QED
        BY <1>2, <2>1, <3>1, <3>2
    <2> QED
      BY <1>0, <2>1, <2>2 DEF Lies
  <1>11. Apart(new)
    <2> SUFFICES ASSUME NEW i \in 1 .. Len(new), NEW j \in 1 .. Len(new), i < j
                 PROVE  new[i].start + new[i].len <= new[j].start
      BY DEF Apart
    <2>1. CASE j \in 1 .. n
      <3>1. i \in 1 .. n /\ i \in 1 .. Len(vec) /\ j \in 1 .. Len(vec)
        BY <1>0, <1>4, <2>1
      <3> QED
        BY <1>0, <1>6, <2>1, <3>1
    <2>2. CASE j = n + 1
      <3>1. i \in 1 .. n
        BY <1>4, <2>2
      <3> QED
        BY <1>6, <1>9, <2>2, <3>1
    <2>3. CASE j \in n + 2 .. Len(vec) + 1 /\ j - 1 \in n + 1 .. Len(vec)
      <3>1. CASE i \in 1 .. n
        <4>1. i \in 1 .. Len(vec) /\ j - 1 \in 1 .. Len(vec) /\ i < j - 1
          BY <1>0, <1>4, <2>3, <3>1
        <4> QED
          BY <1>0, <1>6, <2>3, <3>1, <4>1
      <3>2. CASE i = n + 1
        BY <1>6, <1>10, <2>3, <3>2
      <3>3. CASE i \in n + 2 .. Len(vec) + 1 /\ i - 1 \in n + 1 .. Len(vec)
        <4>1. i - 1 \in 1 .. Len(vec) /\ j - 1 \in 1 .. Len(vec) /\ i - 1 < j - 1
          BY <1>0, <1>4, <2>3, <3>3
        <4> QED
          BY <1>0, <1>6, <2>3, <3>3, <4>1
      <3> QED
        BY <1>8, <3>1, <3>2, <3>3
    <2> QED
      BY <1>8, <2>1, <2>2, <2>3
  <1>12. Bare(new)
    <2> SUFFICES ASSUME NEW k \in 1 .. Len(new) PROVE new[k].org_start = 0
      BY DEF Bare
    <2>1. \A i \in 1 .. n : i \in 1 .. Len(vec)
      BY <1>0, <1>4
    <2>2. \A i \in n + 1 .. Len(vec) : i \in 1 .. Len(vec)
      BY <1>0, <1>4
    <2>3. CASE k \in 1 .. n
      BY <1>0, <1>6, <2>1, <2>3
    <2>4. CASE k = n + 1
      BY <1>6, <2>4
    <2>5. CASE k \in n + 2 .. Len(vec) + 1 /\ k - 1 \in n + 1 .. Len(vec)
      BY <1>0, <1>6, <2>2, <2>5
    <2> QED
      BY <1>8, <2>3, <2>4, <2>5
  <1>13. \A a \in Nat : a \in Covered(new) <=> a \in Covered(vec) \/ Lies(r, a)
    <2> TAKE a \in Nat
    <2>1. a \in Covered(new) <=> \E k \in 1 .. Len(new) : Lies(new[k], a)
      BY <1>6, CoveredFacts
    <2>2. a \in Covered(vec) <=> \E k \in 1 .. Len(vec) : Lies(vec[k], a)
      BY <1>0, CoveredFacts
    <2>3. ASSUME NEW k \in 1 .. Len(new), Lies(new[k], a)
          PROVE  Lies(r, a) \/ \E i \in 1 .. Len(vec) : Lies(vec[i], a)
      <3>1. \A i \in n + 1 .. Len(vec) : i \in 1 .. Len(vec)
        BY <1>0, <1>4
      <3>2. \A i \in 1 .. n : i \in 1 .. Len(vec)
        BY <1>0, <1>4
      <3> QED
        BY <1>6, <1>8, <2>3, <3>1, <3>2
    <2>4. ASSUME NEW i \in 1 .. Len(vec), Lies(vec[i], a)
          PROVE  \E k \in 1 .. Len(new) : Lies(new[k], a)
      <3>1. CASE i \in 1 .. n
        <4>1. i \in 1 .. Len(new) /\ new[i] = vec[i]
          BY <1>0, <1>4, <1>6, <3>1
        <4> QED
          BY <2>4, <4>1
      <3>2. CASE i \notin 1 .. n
        <4>1. i + 1 \in n + 2 .. Len(vec) + 1 /\ i + 1 \in 1 .. Len(new) /\ i + 1 - 1 = i
          BY <1>0, <1>4, <1>6, <3>2
        <4>2. new[i + 1] = vec[i]
          BY <1>6, <4>1
        <4> QED
          BY <2>4, <4>1, <4>2
      <3> QED
        BY <3>1, <3>2
    <2>5. n + 1 \in 1 .. Len(new)
      BY <1>0, <1>4, <1>6
    <2> QED
      BY <1>6, <2>1, <2>2, <2>3, <2>4, <2>5
  <1>14. Ordered(new)
    BY <1>6, <1>11, <1>12 DEF Ordered
  <1> DEFINE res == Insert([vec |-> vec, ok |-> TRUE], r, "start")
  <1>15. res = [vec |-> new, ok |-> TRUE]
    BY <1>5
  <1> HIDE DEF res
  <1>16. res.vec = new /\ res = [vec |-> res.vec, ok |-> TRUE]
    BY <1>15
  <1>17. /\ res = [vec |-> res.vec, ok |-> TRUE]
         /\ Ordered(res.vec)
         /\ SumLen(res.vec) = SumLen(vec) + r.len
         /\ \A a \in Nat : a \in Covered(res.vec) <=> a \in Covered(vec) \/ Lies(r, a)
    BY <1>7, <1>13, <1>14, <1>16
  <1> QED
    BY <1>17 DEF res

-------------------------------------------------------------------------------
\* All the ranges of a volume find their places.
Inserts(free, vec, res) ==
  /\ res = [vec |-> res.vec, ok |-> TRUE]
  /\ Ordered(res.vec)
  /\ SumLen(res.vec) = SumLen(free) + SumLen(vec)
  /\ \A a \in Nat : a \in Covered(res.vec) <=> a \in Covered(free) \/ a \in Covered(vec)

\* InsertAll asserts nothing when the ranges overlap neither the list nor each other.
LEMMA InsertAllFacts ==
  ASSUME NEW free, Ordered(free), NEW vec \in Seq(RS),
         \A k \in 1 .. Len(vec), a \in Nat : Lies(vec[k], a) => a \notin Covered(free),
         \A i, j \in 1 .. Len(vec), a \in Nat : Lies(vec[i], a) /\ Lies(vec[j], a) => i = j
  PROVE  Inserts(free, vec, InsertAll(free, vec))
  <1> DEFINE n == Len(vec)
             bare(i) == algo_range(0, vec[i].start, vec[i].len)
  <1>0. n \in Nat /\ \A i \in 1 .. n : vec[i] \in RS /\ vec[i].start \in Nat /\ vec[i].len \in Nat \ {0}
    BY VecFacts
  <1>1. PICK f : /\ SumLen(vec) = f[n] /\ f[0] = 0
                 /\ \A i \in 1 .. n : f[i] = f[i - 1] + vec[i].len
    BY <1>0, SumLoop
  <1>2. PICK g : /\ InsertAll(free, vec) = g[n]
                 /\ g[0] = [vec |-> free, ok |-> TRUE]
                 /\ \A i \in 1 .. n : g[i] = Insert(g[i - 1], bare(i), "start")
    BY SMTT(30), <1>0, InsertLoop
  <1>3. SumLen(free) \in Nat /\ free \in Seq(RS)
    BY SumNat, RangeFacts DEF Ordered
  <1> DEFINE Some(m, a) == \E k \in 1 .. m : Lies(vec[k], a)
             Good(m) == /\ g[m] = [vec |-> g[m].vec, ok |-> TRUE]
                        /\ Ordered(g[m].vec)
                        /\ SumLen(g[m].vec) = SumLen(free) + f[m] /\ f[m] \in Nat
                        /\ \A a \in Nat : a \in Covered(g[m].vec) <=>
                                            a \in Covered(free) \/ Some(m, a)
             T == {m \in Nat : m <= n => Good(m)}
  <1>4. 0 \in T
    <2>1. g[0].vec = free /\ g[0] = [vec |-> g[0].vec, ok |-> TRUE]
      BY <1>2
    <2>2. \A a \in Nat : ~Some(0, a)
      OBVIOUS
    <2>3. SumLen(free) = SumLen(free) + f[0] /\ f[0] \in Nat
      BY <1>1, <1>3
    <2> HIDE DEF Some
    <2>4. Good(0)
      BY <2>1, <2>2, <2>3
    <2> QED
      BY <2>4
  <1>5. ASSUME NEW m \in Nat, m \in T PROVE m + 1 \in T
    <2> SUFFICES ASSUME m + 1 <= n PROVE Good(m + 1)
      OBVIOUS
    <2> DEFINE now == g[m].vec
               r == bare(m + 1)
               res == Insert([vec |-> now, ok |-> TRUE], r, "start")
    <2>1. m + 1 \in 1 .. n /\ m + 1 - 1 = m /\ m <= n
      BY <1>0
    <2>2. Good(m)
      BY <1>5, <2>1
    <2>3. /\ r \in RS /\ r.org_start = 0 /\ r.start = vec[m + 1].start /\ r.len = vec[m + 1].len
          /\ r.len \in Nat
      BY SMTT(30), <1>0, <2>1, RangeFacts
    <2>4. \A a \in Nat : Lies(r, a) <=> Lies(vec[m + 1], a)
      BY <2>3 DEF Lies
    <2>5. g[m + 1] = res /\ f[m + 1] = f[m] + r.len
      <3> DEFINE next == m + 1
      <3>1. next \in 1 .. n /\ next - 1 = m /\ r = bare(next) /\ r.len = vec[next].len
        BY <2>1, <2>3
      <3>2. g[m] = [vec |-> now, ok |-> TRUE]
        BY <2>2
      <3> HIDE DEF next, now, r, bare, Good
      <3>3. g[next] = Insert(g[m], bare(next), "start")
        <4>1. g[next] = Insert(g[next - 1], bare(next), "start")
          BY <1>2, <3>1
        <4> QED
          BY <3>1, <4>1
      <3>4. f[next] = f[m] + vec[next].len
        <4>1. f[next] = f[next - 1] + vec[next].len
          BY <1>1, <3>1
        <4> QED
          BY <3>1, <4>1
      <3>5. g[next] = res
        BY <3>1, <3>2, <3>3
      <3> QED
        BY <3>1, <3>4, <3>5 DEF next
    <2>6. \A a \in Nat : Lies(r, a) => a \notin Covered(now)
      <3> SUFFICES ASSUME NEW a \in Nat, Lies(vec[m + 1], a), a \in Covered(now) PROVE FALSE
        BY <2>4
      <3>1. a \notin Covered(free)
        BY <2>1
      <3>2. PICK k \in 1 .. m : Lies(vec[k], a)
        BY <2>2, <3>1
      <3>3. k \in 1 .. n /\ k # m + 1
        BY <1>0, <2>1
      <3> QED
        BY <2>1, <3>2, <3>3
    <2> HIDE DEF r
    <2>7. /\ res = [vec |-> res.vec, ok |-> TRUE]
          /\ Ordered(res.vec)
          /\ SumLen(res.vec) = SumLen(now) + r.len
          /\ \A a \in Nat : a \in Covered(res.vec) <=> a \in Covered(now) \/ Lies(r, a)
      BY <2>2, <2>3, <2>6, InsertFree
    <2> HIDE DEF res
    <2>8. \A a \in Nat : Some(m + 1, a) <=> Some(m, a) \/ Lies(vec[m + 1], a)
      <3>1. \A k : k \in 1 .. m + 1 <=> k \in 1 .. m \/ k = m + 1
        OBVIOUS
      <3> QED
        BY <3>1
    <2>9. SumLen(res.vec) = SumLen(free) + f[m + 1] /\ f[m + 1] \in Nat
      BY SMTT(30), <1>3, <2>2, <2>3, <2>5, <2>7
    <2>10. \A a \in Nat : a \in Covered(res.vec) <=> a \in Covered(free) \/ Some(m + 1, a)
      BY <2>2, <2>4, <2>7, <2>8
    <2> QED
      BY <2>5, <2>7, <2>9, <2>10
  <1>6. Good(n)
    <2> HIDE DEF T
    <2>1. n \in T
      BY <1>0, <1>4, <1>5, Induct
    <2> QED
      BY <2>1 DEF T
  <1>7. \A a \in Nat : Some(n, a) <=> a \in Covered(vec)
    BY CoveredFacts
  <1> QED
    BY <1>1, <1>2, <1>6, <1>7 DEF Inserts

\* all is vec and then r.
Then(all, vec, r) ==
  /\ all \in Seq(RS) /\ Len(all) = Len(vec) + 1
  /\ \A i \in 1 .. Len(vec) : all[i] = vec[i]
  /\ all[Len(vec) + 1] = r /\ Last(all) = r
  /\ SumLen(all) = SumLen(vec) + r.len
  /\ \A i : i \in 1 .. Len(all) <=> i \in 1 .. Len(vec) \/ i = Len(vec) + 1
  /\ \A a \in Nat : a \in Covered(all) <=> a \in Covered(vec) \/ Lies(r, a)

\* A vector with one range behind it.
LEMMA OneMore ==
  ASSUME NEW vec \in Seq(RS), NEW r \in RS, NEW all, all = Append(vec, r)
  PROVE  Then(all, vec, r)
  <1>1. /\ all \in Seq(RS) /\ Len(all) = Len(vec) + 1
        /\ \A i \in 1 .. Len(vec) : all[i] = vec[i]
        /\ all[Len(vec) + 1] = r
    BY AppendProperties
  <1>2. Len(vec) \in Nat
    BY ElementFacts
  <1>3. \A i : i \in 1 .. Len(all) <=> i \in 1 .. Len(vec) \/ i = Len(vec) + 1
    BY <1>1, <1>2
  <1>4. SumLen(all) = SumLen(vec) + r.len
    BY SumAppend, RangeFacts
  <1>5. Last(all) = r
    BY <1>1 DEF Last
  <1>6. \A a \in Nat : a \in Covered(all) <=> a \in Covered(vec) \/ Lies(r, a)
    <2> TAKE a \in Nat
    <2>1. a \in Covered(all) <=> \E k \in 1 .. Len(all) : Lies(all[k], a)
      BY <1>1, CoveredFacts
    <2>2. a \in Covered(vec) <=> \E k \in 1 .. Len(vec) : Lies(vec[k], a)
      BY CoveredFacts
    <2>3. (\E k \in 1 .. Len(all) : Lies(all[k], a)) <=>
            (\E k \in 1 .. Len(vec) : Lies(all[k], a)) \/ Lies(all[Len(vec) + 1], a)
      BY <1>3
    <2> QED
      BY <1>1, <2>1, <2>2, <2>3
  <1> QED
    BY <1>1, <1>3, <1>4, <1>5, <1>6 DEF Then

\* A vector that is not empty is one with a last range.
LEMMA LastOne ==
  ASSUME NEW vec \in Seq(RS), Len(vec) # 0
  PROVE  /\ Front(vec) \in Seq(RS) /\ Last(vec) \in RS /\ vec = Append(Front(vec), Last(vec))
         /\ Len(vec) \in Nat \ {0} /\ Len(Front(vec)) = Len(vec) - 1
         /\ \A i \in 1 .. Len(vec) - 1 : Front(vec)[i] = vec[i]
         /\ Last(vec) = vec[Len(vec)]
         /\ SumLen(vec) = SumLen(Front(vec)) + Last(vec).len
         /\ \A a \in Nat : a \in Covered(vec) <=> a \in Covered(Front(vec)) \/ Lies(Last(vec), a)
  <1>1. /\ Front(vec) \in Seq(RS) /\ Len(Front(vec)) = Len(vec) - 1
        /\ \A i \in 1 .. Len(vec) - 1 : Front(vec)[i] = vec[i]
        /\ Last(vec) \in RS /\ Last(vec) = vec[Len(vec)]
        /\ vec = Append(Front(vec), Last(vec))
    BY FrontFacts
  <1>2. /\ SumLen(vec) = SumLen(Front(vec)) + Last(vec).len
        /\ \A a \in Nat : a \in Covered(vec) <=> a \in Covered(Front(vec)) \/ Lies(Last(vec), a)
    BY <1>1, OneMore DEF Then
  <1> QED
    BY <1>1, <1>2, ElementFacts

-------------------------------------------------------------------------------
(* The merge pass of the free list.                                        *)

EndOf(r) == r.start + r.len

\* The list done becomes next when r, which starts behind it, is merged.
MergesFree(done, r, next) ==
  /\ FreeList(next)
  /\ SumLen(next) = SumLen(done) + r.len
  /\ \A a \in Nat : a \in Covered(next) <=> a \in Covered(done) \/ Lies(r, a)
  /\ Len(next) # 0 /\ EndOf(Last(next)) = EndOf(r)

\* Behind a list whose ranges end before r starts.
LEMMA AppendFree ==
  ASSUME NEW done, FreeList(done), NEW r \in RS, r.org_start = 0,
         \A i \in 1 .. Len(done) : EndOf(done[i]) < r.start,
         NEW next, next = Append(done, r)
  PROVE  MergesFree(done, r, next)
  <1>1. done \in Seq(RS) /\ Len(done) \in Nat
    BY ElementFacts DEF FreeList
  <1>2. /\ next \in Seq(RS) /\ Len(next) = Len(done) + 1
        /\ \A i \in 1 .. Len(done) : next[i] = done[i]
        /\ next[Len(done) + 1] = r /\ Last(next) = r
        /\ SumLen(next) = SumLen(done) + r.len
        /\ \A i : i \in 1 .. Len(next) <=> i \in 1 .. Len(done) \/ i = Len(done) + 1
        /\ \A a \in Nat : a \in Covered(next) <=> a \in Covered(done) \/ Lies(r, a)
    <2>1. Then(next, done, r)
      BY <1>1, OneMore
    <2> QED
      BY <2>1 DEF Then
  <1>3. Gapped(next)
    <2> SUFFICES ASSUME NEW i \in 1 .. Len(next), NEW j \in 1 .. Len(next), i < j
                 PROVE  EndOf(next[i]) < next[j].start
      BY DEF Gapped, EndOf
    <2>1. i \in 1 .. Len(done)
      BY <1>1, <1>2
    <2>2. CASE j \in 1 .. Len(done)
      BY <1>2, <2>1, <2>2 DEF FreeList, Gapped, EndOf
    <2>3. CASE j = Len(done) + 1
      BY <1>2, <2>1, <2>3
    <2> QED
      BY <1>2, <2>2, <2>3
  <1>4. Bare(next)
    BY <1>2 DEF Bare, FreeList
  <1>5. Len(next) # 0
    BY <1>1, <1>2
  <1> QED
    BY <1>2, <1>3, <1>4, <1>5 DEF MergesFree, FreeList

\* One step of merge on a free list.
LEMMA MergeFreeStep ==
  ASSUME NEW done, FreeList(done), NEW r \in RS, r.org_start = 0,
         Len(done) # 0 => EndOf(Last(done)) <= r.start
  PROVE  MergesFree(done, r, MergeNext(done, r, "start"))
  <1> DEFINE last == Last(done)
             front == Front(done)
             n == Len(done)
             next == MergeNext(done, r, "start")
  <1>0. /\ done \in Seq(RS) /\ n \in Nat /\ r.start \in Nat /\ r.len \in Nat \ {0}
        /\ \A i \in 1 .. n : done[i].start \in Nat /\ done[i].len \in Nat \ {0}
    BY VecFacts, RangeFacts DEF FreeList
  <1>1. CASE n = 0
    <2>1. next = Append(done, r)
      BY <1>1 DEF MergeNext
    <2>2. \A i \in 1 .. Len(done) : EndOf(done[i]) < r.start
      BY <1>1
    <2> QED
      BY <2>1, <2>2, AppendFree
  <1>2. CASE n # 0
    <2>1. /\ front \in Seq(RS) /\ last \in RS /\ done = Append(front, last)
          /\ n \in Nat \ {0} /\ Len(front) = n - 1
          /\ \A i \in 1 .. n - 1 : front[i] = done[i]
          /\ last = done[n]
          /\ SumLen(done) = SumLen(front) + last.len
          /\ \A a \in Nat : a \in Covered(done) <=> a \in Covered(front) \/ Lies(last, a)
      BY <1>0, <1>2, LastOne
    <2>2. /\ last.start \in Nat /\ last.len \in Nat \ {0} /\ last.org_start = 0
          /\ EndOf(last) <= r.start
      <3>1. last.start \in Nat /\ last.len \in Nat \ {0}
        BY <2>1, RangeFacts
      <3>2. n \in 1 .. n
        BY <2>1
      <3>3. last.org_start = 0
        BY <1>0, <2>1, <3>2 DEF FreeList, Bare
      <3>4. EndOf(last) <= r.start
        BY <1>0, <1>2, <2>1, <3>2
      <3> QED
        BY <3>1, <3>3, <3>4
    <2>3. \A i \in 1 .. n - 1 : EndOf(done[i]) < last.start
      <3> TAKE i \in 1 .. n - 1
      <3>1. i \in 1 .. n /\ n \in 1 .. n /\ i < n
        BY <2>1
      <3> QED
        BY <2>1, <3>1 DEF FreeList, Gapped, EndOf
    <2>4. FreeList(front)
      <3>1. \A i \in 1 .. Len(front) : i \in 1 .. n /\ front[i] = done[i]
        BY <2>1
      <3> QED
        BY <2>1, <3>1 DEF FreeList, Gapped, Bare
    <2>5. Touch(last, r, "start") <=> EndOf(last) = r.start
      BY <1>0, <2>2 DEF Touch, is_map_neighbour, EndOf
    <2>6. CASE EndOf(last) = r.start
      <3> DEFINE joined == JoinRange(last, r)
      <3>1. /\ joined = algo_range(0, last.start, last.len + r.len)
        BY <1>0, <2>2, <2>6 DEF JoinRange, EndOf
      <3>2. /\ joined \in RS /\ joined.org_start = 0 /\ joined.start = last.start
            /\ joined.len = last.len + r.len
        <4>1. last.len + r.len \in Nat \ {0}
          BY <1>0, <2>2
        <4> QED
          BY <2>2, <3>1, <4>1, RangeFacts
      <3>3. next = Append(front, joined)
        BY <1>2, <2>5, <2>6 DEF MergeNext
      <3> HIDE DEF joined, next, front, last
      <3>4. \A i \in 1 .. Len(front) : EndOf(front[i]) < joined.start
        BY <2>1, <2>3, <3>2
      <3>5. MergesFree(front, joined, next)
        BY <2>4, <3>2, <3>3, <3>4, AppendFree
      <3>6. SumLen(next) = SumLen(done) + r.len
        <4>1. SumLen(front) \in Nat
          BY <2>1, SumNat, RangeFacts
        <4> QED
          BY <1>0, <2>1, <2>2, <3>2, <3>5, <4>1 DEF MergesFree
      <3>7. \A a \in Nat : Lies(joined, a) <=> Lies(last, a) \/ Lies(r, a)
        BY SMTT(30), <1>0, <2>2, <2>6, <3>2 DEF Lies, EndOf
      <3>8. EndOf(joined) = EndOf(r)
        BY <1>0, <2>2, <2>6, <3>2 DEF EndOf
      <3>9. \A a \in Nat : a \in Covered(next) <=> a \in Covered(done) \/ Lies(r, a)
        BY <2>1, <3>5, <3>7 DEF MergesFree
      <3>10. FreeList(next) /\ Len(next) # 0 /\ EndOf(Last(next)) = EndOf(r)
        BY <3>5, <3>8 DEF MergesFree
      <3>11. MergesFree(done, r, next)
        BY <3>6, <3>9, <3>10 DEF MergesFree
      <3> QED
        BY <3>11 DEF next
    <2>7. CASE EndOf(last) # r.start
      <3>1. next = Append(done, r)
        BY <1>2, <2>5, <2>7 DEF MergeNext
      <3>2. \A i \in 1 .. n : i \in 1 .. n - 1 \/ i = n
        BY <2>1
      <3>3. EndOf(last) < r.start /\ EndOf(last) \in Nat /\ last.start < EndOf(last)
        BY <1>0, <2>2, <2>7 DEF EndOf
      <3>4. \A i \in 1 .. n : EndOf(done[i]) < r.start
        <4> TAKE i \in 1 .. n
        <4>1. EndOf(done[i]) \in Nat
          BY <1>0 DEF EndOf
        <4> QED
          BY SMTT(30), <1>0, <2>1, <2>2, <2>3, <3>2, <3>3, <4>1
      <3> QED
        BY <3>1, <3>4, AppendFree
    <2> QED
      BY <2>6, <2>7
  <1> QED
    BY <1>1, <1>2

\* merge closes the gaps an ordered list has none of, and keeps what it covers.
LEMMA MergeFree ==
  ASSUME NEW vec, Ordered(vec)
  PROVE  /\ FreeList(merge(vec, "start"))
         /\ SumLen(merge(vec, "start")) = SumLen(vec)
         /\ \A a \in Nat : a \in Covered(merge(vec, "start")) <=> a \in Covered(vec)
  <1> DEFINE n == Len(vec)
  <1>0. /\ vec \in Seq(RS) /\ n \in Nat
        /\ \A i \in 1 .. n : /\ vec[i] \in RS /\ vec[i].start \in Nat /\ vec[i].len \in Nat \ {0}
                             /\ vec[i].org_start = 0
        /\ \A i, j \in 1 .. n : i < j => EndOf(vec[i]) <= vec[j].start
    BY VecFacts DEF Ordered, Apart, Bare, EndOf
  <1>1. PICK f : /\ SumLen(vec) = f[n] /\ f[0] = 0
                 /\ \A i \in 1 .. n : f[i] = f[i - 1] + vec[i].len
    BY <1>0, SumLoop
  <1>2. PICK g : /\ merge(vec, "start") = g[n]
                 /\ g[0] = <<>>
                 /\ \A i \in 1 .. n : g[i] = MergeNext(g[i - 1], vec[i], "start")
    BY <1>0, MergeLoop
  <1> DEFINE Some(m, a) == \E k \in 1 .. m : Lies(vec[k], a)
             Good(m) == /\ FreeList(g[m])
                        /\ SumLen(g[m]) = f[m]
                        /\ \A a \in Nat : a \in Covered(g[m]) <=> Some(m, a)
                        /\ Len(g[m]) # 0 => m # 0 /\ EndOf(Last(g[m])) = EndOf(vec[m])
             T == {m \in Nat : m <= n => Good(m)}
  <1>3. 0 \in T
    <2>1. \A a \in Nat : ~Some(0, a)
      OBVIOUS
    <2>2. Len(<<>>) = 0 /\ <<>> \in Seq(RS)
      BY EmptySeq
    <2>3. FreeList(<<>>)
      BY <2>2 DEF FreeList, Gapped, Bare
    <2> HIDE DEF Some
    <2>4. Good(0)
      BY <1>1, <1>2, <2>1, <2>2, <2>3, SumEmpty, CoveredEmpty
    <2> QED
      BY <2>4
  <1>4. ASSUME NEW m \in Nat, m \in T PROVE m + 1 \in T
    <2> SUFFICES ASSUME m + 1 <= n PROVE Good(m + 1)
      OBVIOUS
    <2>1. m + 1 \in 1 .. n /\ m + 1 - 1 = m /\ m <= n
      BY <1>0
    <2>2. Good(m)
      BY <1>4, <2>1
    <2> DEFINE r == vec[m + 1]
    <2>3. g[m + 1] = MergeNext(g[m], r, "start") /\ f[m + 1] = f[m] + r.len
      BY <1>1, <1>2, <2>1
    <2>4. Len(g[m]) # 0 => EndOf(Last(g[m])) <= r.start
      <3> SUFFICES ASSUME Len(g[m]) # 0 PROVE EndOf(vec[m]) <= vec[m + 1].start
        BY <2>2
      <3>1. m \in 1 .. n /\ m < m + 1
        BY <1>0, <2>1, <2>2
      <3> QED
        BY <1>0, <2>1, <3>1
    <2>5. MergesFree(g[m], r, g[m + 1])
      BY <1>0, <2>1, <2>2, <2>3, <2>4, MergeFreeStep
    <2>6. \A a \in Nat : Some(m + 1, a) <=> Some(m, a) \/ Lies(vec[m + 1], a)
      <3>1. \A k : k \in 1 .. m + 1 <=> k \in 1 .. m \/ k = m + 1
        OBVIOUS
      <3> QED
        BY <3>1
    <2> HIDE DEF Some
    <2> QED
      BY <2>2, <2>3, <2>5, <2>6 DEF MergesFree
  <1>5. Good(n)
    <2> HIDE DEF T
    <2>1. n \in T
      BY <1>0, <1>3, <1>4, Induct
    <2> QED
      BY <2>1 DEF T
  <1>6. \A a \in Nat : Some(n, a) <=> a \in Covered(vec)
    BY <1>0, CoveredFacts
  <1> QED
    BY <1>1, <1>2, <1>5, <1>6

-------------------------------------------------------------------------------
(* The ranges of a volume.                                                 *)

\* Range r keeps address i of the volume at address a of the pool.
On(r, i, a) == Holds(r, i) /\ a + r.org_start = r.start + i

At(vec, i, a) == \E k \in 1 .. Len(vec) : On(vec[k], i, a)

\* The ranges follow each other from address 0 of the volume to their sum.
Chain(vec) ==
  /\ vec \in Seq(RS)
  /\ Len(vec) # 0 => /\ vec[1].org_start = 0
                     /\ Last(vec).org_start + Last(vec).len = SumLen(vec)
  /\ \A i \in 1 .. Len(vec) : vec[i].org_start + vec[i].len <= SumLen(vec)
  /\ \A i, j \in 1 .. Len(vec) : i < j => vec[i].org_start + vec[i].len <= vec[j].org_start
  /\ \A i, j \in 1 .. Len(vec) : j = i + 1 => vec[i].org_start + vec[i].len = vec[j].org_start
  /\ \A a \in Nat : a < SumLen(vec) => \E k \in 1 .. Len(vec) : Holds(vec[k], a)

NoTouch(vec) ==
  \A i, j \in 1 .. Len(vec) : j = i + 1 => vec[i].start + vec[i].len # vec[j].start

Adds(vec, r, next) ==
  /\ Chain(next)
  /\ SumLen(next) = SumLen(vec) + r.len
  /\ \A i, a \in Nat : At(next, i, a) <=> At(vec, i, a) \/ On(r, i, a)

LEMMA ChainEmpty == Chain(<<>>) /\ NoTouch(<<>>) /\ \A i, a : ~At(<<>>, i, a)
  <1>1. <<>> \in Seq(RS) /\ Len(<<>>) = 0
    BY EmptySeq
  <1>2. 1 .. 0 = {}
    OBVIOUS
  <1> QED
    BY <1>1, <1>2, SumEmpty DEF Chain, NoTouch, At

\* What is known of the ranges of a chain.
LEMMA ChainFacts ==
  ASSUME NEW vec, Chain(vec)
  PROVE  /\ vec \in Seq(RS) /\ Len(vec) \in Nat /\ SumLen(vec) \in Nat
         /\ \A i \in 1 .. Len(vec) :
              /\ vec[i] \in RS /\ vec[i].org_start \in Nat
              /\ vec[i].start \in Nat /\ vec[i].len \in Nat \ {0}
  BY SumNat, VecFacts, RangeFacts DEF Chain

\* A range behind a chain.
LEMMA AppendVol ==
  ASSUME NEW vec, Chain(vec), NEW r \in RS, r.org_start = SumLen(vec),
         NEW next, next = Append(vec, r)
  PROVE  Adds(vec, r, next)
  <1> DEFINE n == Len(vec)
  <1>0. /\ vec \in Seq(RS) /\ n \in Nat /\ SumLen(vec) \in Nat
        /\ \A i \in 1 .. n : /\ vec[i].org_start \in Nat
                             /\ vec[i].start \in Nat /\ vec[i].len \in Nat \ {0}
    BY ChainFacts
  <1>1. r.len \in Nat \ {0} /\ r.start \in Nat /\ r.org_start \in Nat
    BY RangeFacts
  <1>2. Then(next, vec, r)
    BY <1>0, OneMore
  <1>3. /\ next \in Seq(RS) /\ Len(next) = n + 1
        /\ \A i \in 1 .. n : next[i] = vec[i]
        /\ next[n + 1] = r /\ Last(next) = r
        /\ SumLen(next) = SumLen(vec) + r.len
        /\ \A i : i \in 1 .. Len(next) <=> i \in 1 .. n \/ i = n + 1
    BY <1>2 DEF Then
  <1>4. next[1].org_start = 0
    <2>1. CASE n = 0
      <3>1. SumLen(vec) = 0
        <4>1. vec = <<>>
          BY <1>0, <2>1, EmptySeq
        <4> QED
          BY <4>1, SumEmpty
      <3> QED
        BY <1>3, <2>1, <3>1
    <2>2. CASE n # 0
      <3>1. 1 \in 1 .. n
        BY <1>0, <2>2
      <3> QED
        BY <1>3, <2>2, <3>1 DEF Chain
    <2> QED
      BY <2>1, <2>2
  <1>5. \A i \in 1 .. Len(next) : next[i].org_start + next[i].len <= SumLen(next)
    <2> SUFFICES ASSUME NEW i \in 1 .. Len(next)
                 PROVE  next[i].org_start + next[i].len <= SumLen(next)
      OBVIOUS
    <2>1. CASE i \in 1 .. n
      <3>1. vec[i].org_start + vec[i].len <= SumLen(vec)
        BY <2>1 DEF Chain
      <3> QED
        BY SMTT(30), <1>0, <1>1, <1>3, <2>1, <3>1
    <2>2. CASE i = n + 1
      BY <1>0, <1>1, <1>3, <2>2
    <2> QED
      BY <1>3, <2>1, <2>2
  <1>6. ASSUME NEW i \in 1 .. Len(next), NEW j \in 1 .. Len(next), i < j
        PROVE  next[i].org_start + next[i].len <= next[j].org_start
    <2>1. i \in 1 .. n
      BY <1>0, <1>3, <1>6
    <2>2. CASE j \in 1 .. n
      BY <1>3, <1>6, <2>1, <2>2 DEF Chain
    <2>3. CASE j = n + 1
      BY <1>3, <2>1, <2>3 DEF Chain
    <2> QED
      BY <1>3, <2>2, <2>3
  <1>7. ASSUME NEW i \in 1 .. Len(next), NEW j \in 1 .. Len(next), j = i + 1
        PROVE  next[i].org_start + next[i].len = next[j].org_start
    <2>1. i \in 1 .. n
      BY <1>0, <1>3, <1>7
    <2>2. CASE j \in 1 .. n
      BY <1>3, <1>7, <2>1, <2>2 DEF Chain
    <2>3. CASE j = n + 1
      <3>1. i = n /\ n # 0 /\ Last(vec) = vec[n]
        BY <1>0, <1>7, <2>1, <2>3 DEF Last
      <3> QED
        BY <1>3, <2>1, <2>3, <3>1 DEF Chain
    <2> QED
      BY <1>3, <2>2, <2>3
  <1>8. ASSUME NEW a \in Nat, a < SumLen(next)
        PROVE  \E k \in 1 .. Len(next) : Holds(next[k], a)
    <2>1. CASE a < SumLen(vec)
      <3>1. PICK k \in 1 .. n : Holds(vec[k], a)
        BY <2>1 DEF Chain
      <3>2. k \in 1 .. Len(next) /\ next[k] = vec[k]
        BY <1>3
      <3> QED
        BY <3>1, <3>2
    <2>2. CASE ~(a < SumLen(vec))
      <3>1. Holds(r, a)
        BY <1>0, <1>1, <1>3, <1>8, <2>2 DEF Holds
      <3> QED
        BY <1>3, <3>1
    <2> QED
      BY <2>1, <2>2
  <1>9. Chain(next)
    BY <1>3, <1>4, <1>5, <1>6, <1>7, <1>8 DEF Chain
  <1>10. \A i, a \in Nat : At(next, i, a) <=> At(vec, i, a) \/ On(r, i, a)
    BY <1>3 DEF At
  <1> QED
    BY <1>3, <1>9, <1>10 DEF Adds

\* A chain without its last range.
LEMMA FrontVol ==
  ASSUME NEW vec, Chain(vec), Len(vec) # 0
  PROVE  /\ Chain(Front(vec)) /\ Last(vec) \in RS
         /\ SumLen(Front(vec)) = Last(vec).org_start
         /\ SumLen(vec) = Last(vec).org_start + Last(vec).len
         /\ Len(Front(vec)) = Len(vec) - 1
         /\ \A i \in 1 .. Len(Front(vec)) : Front(vec)[i] = vec[i]
         /\ Last(vec) = vec[Len(vec)]
         /\ \A i, a \in Nat : At(vec, i, a) <=> At(Front(vec), i, a) \/ On(Last(vec), i, a)
  <1> DEFINE n == Len(vec)
             front == Front(vec)
             last == Last(vec)
  <1>0. /\ vec \in Seq(RS) /\ n \in Nat /\ SumLen(vec) \in Nat
        /\ \A i \in 1 .. n : /\ vec[i].org_start \in Nat
                             /\ vec[i].start \in Nat /\ vec[i].len \in Nat \ {0}
    BY ChainFacts
  <1>1. /\ front \in Seq(RS) /\ last \in RS
        /\ n \in Nat \ {0} /\ Len(front) = n - 1
        /\ \A i \in 1 .. n - 1 : front[i] = vec[i]
        /\ last = vec[n]
        /\ SumLen(vec) = SumLen(front) + last.len
    BY <1>0, LastOne
  <1>2. /\ last.org_start + last.len = SumLen(vec) /\ last.org_start \in Nat /\ last.len \in Nat \ {0}
    BY <1>1, RangeFacts DEF Chain
  <1>3. SumLen(front) = last.org_start
    <2>1. SumLen(front) \in Nat
      BY <1>1, SumNat, RangeFacts
    <2> QED
      BY SMTT(30), <1>1, <1>2, <2>1
  <1> HIDE DEF front, last
  <1>4. \A i \in 1 .. n - 1 : i \in 1 .. n /\ i < n /\ n \in 1 .. n
    BY <1>1
  <1>5. \A i : i \in 1 .. n <=> i \in 1 .. n - 1 \/ i = n
    BY <1>1
  <1>6. \A i \in 1 .. n - 1 : front[i].org_start + front[i].len <= SumLen(front)
    BY <1>1, <1>3, <1>4 DEF Chain
  <1>7. \A i, j \in 1 .. n - 1 : i < j => front[i].org_start + front[i].len <= front[j].org_start
    BY <1>1, <1>4 DEF Chain
  <1>8. \A i, j \in 1 .. n - 1 : j = i + 1 => front[i].org_start + front[i].len = front[j].org_start
    BY <1>1, <1>4 DEF Chain
  <1>9. n - 1 # 0 => /\ front[1].org_start = 0
                     /\ Last(front).org_start + Last(front).len = SumLen(front)
    <2> SUFFICES ASSUME n - 1 # 0
                 PROVE  /\ front[1].org_start = 0
                        /\ Last(front).org_start + Last(front).len = SumLen(front)
      OBVIOUS
    <2>1. 1 \in 1 .. n - 1 /\ n - 1 \in 1 .. n - 1 /\ n - 1 \in 1 .. n /\ n \in 1 .. n
          /\ n = n - 1 + 1
      BY <1>1
    <2>2. Last(front) = vec[n - 1]
      BY <1>1, <2>1 DEF Last
    <2>3. vec[n - 1].org_start + vec[n - 1].len = vec[n].org_start
      BY <2>1 DEF Chain
    <2>4. vec[1].org_start = 0
      BY <1>1 DEF Chain
    <2> QED
      BY <1>1, <1>3, <2>1, <2>2, <2>3, <2>4
  <1>10. ASSUME NEW a \in Nat, a < SumLen(front)
         PROVE  \E k \in 1 .. n - 1 : Holds(front[k], a)
    <2>1. a < SumLen(vec)
      BY <1>1, <1>2, <1>3, <1>10
    <2>2. PICK k \in 1 .. n : Holds(vec[k], a)
      BY <2>1 DEF Chain
    <2>3. k # n
      BY <1>1, <1>2, <1>3, <1>10, <2>2 DEF Holds
    <2> QED
      BY <1>1, <1>5, <2>2, <2>3
  <1>11. Chain(front)
    BY <1>1, <1>6, <1>7, <1>8, <1>9, <1>10 DEF Chain
  <1>12. \A i, a \in Nat : At(vec, i, a) <=> At(front, i, a) \/ On(last, i, a)
    BY <1>1, <1>5 DEF At
  <1>13. SumLen(vec) = last.org_start + last.len
    BY <1>2
  <1>14. \A i \in 1 .. Len(front) : front[i] = vec[i]
    BY <1>1
  <1> QED
    BY <1>1, <1>3, <1>11, <1>12, <1>13, <1>14 DEF front, last

-------------------------------------------------------------------------------
(* The merge pass of a volume.                                             *)

Merges(done, r, next) == Adds(done, r, next) /\ NoTouch(next)

\* Behind a chain r does not touch.
LEMMA AppendApart ==
  ASSUME NEW done, Chain(done), NoTouch(done), NEW r \in RS, r.org_start = SumLen(done),
         Len(done) # 0 => Last(done).start + Last(done).len # r.start,
         NEW next, next = Append(done, r)
  PROVE  Merges(done, r, next)
  <1> DEFINE n == Len(done)
  <1>1. done \in Seq(RS) /\ n \in Nat
    BY ChainFacts
  <1>2. Adds(done, r, next)
    BY AppendVol
  <1>3. Then(next, done, r)
    BY <1>1, OneMore
  <1>4. /\ Len(next) = n + 1
        /\ \A i \in 1 .. n : next[i] = done[i]
        /\ next[n + 1] = r
        /\ \A i : i \in 1 .. Len(next) <=> i \in 1 .. n \/ i = n + 1
    BY <1>3 DEF Then
  <1>5. ASSUME NEW i \in 1 .. Len(next), NEW j \in 1 .. Len(next), j = i + 1
        PROVE  next[i].start + next[i].len # next[j].start
    <2>1. i \in 1 .. n
      BY <1>1, <1>4, <1>5
    <2>2. CASE j \in 1 .. n
      BY <1>4, <1>5, <2>1, <2>2 DEF NoTouch
    <2>3. CASE j = n + 1
      <3>1. i = n /\ n # 0 /\ Last(done) = done[n]
        BY <1>1, <1>5, <2>1, <2>3 DEF Last
      <3> QED
        BY <1>4, <2>1, <2>3, <3>1
    <2> QED
      BY <1>4, <2>2, <2>3
  <1> QED
    BY <1>2, <1>5 DEF Merges, NoTouch

\* One step of merge on a chain.
LEMMA MergeVolStep ==
  ASSUME NEW done, Chain(done), NoTouch(done), NEW r \in RS, r.org_start = SumLen(done)
  PROVE  Merges(done, r, MergeNext(done, r, "org_start"))
  <1> DEFINE next == MergeNext(done, r, "org_start")
             n == Len(done)
             last == Last(done)
             front == Front(done)
  <1>0. /\ done \in Seq(RS) /\ n \in Nat /\ SumLen(done) \in Nat
        /\ r.len \in Nat \ {0} /\ r.start \in Nat /\ r.org_start \in Nat
    BY ChainFacts, RangeFacts
  <1>1. CASE n = 0
    <2>1. next = Append(done, r)
      BY <1>1 DEF MergeNext
    <2> QED
      BY <1>1, <2>1, AppendApart
  <1>2. CASE n # 0
    <2>1. /\ Chain(front) /\ last \in RS
          /\ SumLen(front) = last.org_start
          /\ SumLen(done) = last.org_start + last.len
          /\ Len(front) = n - 1
          /\ \A i \in 1 .. Len(front) : front[i] = done[i]
          /\ last = done[n]
          /\ \A i, a \in Nat : At(done, i, a) <=> At(front, i, a) \/ On(last, i, a)
      BY <1>2, FrontVol
    <2>2. last.org_start \in Nat /\ last.start \in Nat /\ last.len \in Nat \ {0}
      BY <2>1, RangeFacts
    <2>3. Touch(last, r, "org_start") <=> last.start + last.len = r.start
      BY SMTT(30), <1>0, <2>1, <2>2 DEF Touch, is_neighbour
    <2>4. CASE last.start + last.len # r.start
      <3>1. next = Append(done, r)
        BY <2>3, <2>4 DEF MergeNext
      <3> QED
        BY <2>4, <3>1, AppendApart
    <2>5. CASE last.start + last.len = r.start
      <3> DEFINE joined == JoinRange(last, r)
      <3>1. next = Append(front, joined)
        BY <1>2, <2>3, <2>5 DEF MergeNext
      <3>2. joined = algo_range(last.org_start, last.start, last.len + r.len)
        BY SMTT(30), <1>0, <2>1, <2>2, <2>5 DEF JoinRange
      <3>3. /\ joined \in RS /\ joined.org_start = last.org_start
            /\ joined.start = last.start /\ joined.len = last.len + r.len
        <4>1. last.len + r.len \in Nat \ {0}
          BY <1>0, <2>2
        <4> QED
          BY <2>2, <3>2, <4>1, RangeFacts
      <3> HIDE DEF next, joined, last, front
      <3>4. NoTouch(front)
        <4>1. \A i \in 1 .. Len(front) : i \in 1 .. n
          BY <1>0, <1>2, <2>1
        <4> QED
          BY <2>1, <4>1 DEF NoTouch
      <3>5. Len(front) # 0 => Last(front).start + Last(front).len # joined.start
        <4> SUFFICES ASSUME Len(front) # 0
                     PROVE  Last(front).start + Last(front).len # joined.start
          OBVIOUS
        <4>1. n - 1 \in 1 .. Len(front) /\ n - 1 \in 1 .. n /\ n \in 1 .. n /\ n = n - 1 + 1
          BY <1>0, <1>2, <2>1
        <4>2. Last(front) = done[n - 1]
          BY <2>1, <4>1 DEF Last
        <4>3. done[n - 1].start + done[n - 1].len # done[n].start
          BY <4>1 DEF NoTouch
        <4> QED
          BY <2>1, <3>3, <4>2, <4>3
      <3>6. Merges(front, joined, next)
        BY <2>1, <3>1, <3>3, <3>4, <3>5, AppendApart
      <3>7. \A i, a \in Nat : On(joined, i, a) <=> On(last, i, a) \/ On(r, i, a)
        <4> SUFFICES ASSUME NEW i \in Nat, NEW a \in Nat
                     PROVE  On(joined, i, a) <=> On(last, i, a) \/ On(r, i, a)
          OBVIOUS
        <4>1. r.org_start = last.org_start + last.len
          BY <2>1
        <4>2. On(joined, i, a) <=>
                /\ last.org_start <= i /\ i < last.org_start + (last.len + r.len)
                /\ a + last.org_start = last.start + i
          BY <3>3 DEF On, Holds
        <4>3. On(last, i, a) <=>
                /\ last.org_start <= i /\ i < last.org_start + last.len
                /\ a + last.org_start = last.start + i
          BY DEF On, Holds
        <4>4. On(r, i, a) <=>
                /\ last.org_start + last.len <= i /\ i < (last.org_start + last.len) + r.len
                /\ a + (last.org_start + last.len) = (last.start + last.len) + i
          BY <2>5, <4>1 DEF On, Holds
        <4>6. last.org_start \in Nat /\ last.start \in Nat /\ last.len \in Nat /\ r.len \in Nat
          BY <1>0, <2>2
        <4> DEFINE o == last.org_start
                   s == last.start
                   l == last.len
                   m == r.len
        <4>7. (o <= i /\ i < o + (l + m) /\ a + o = s + i) <=>
                       \/ o <= i /\ i < o + l /\ a + o = s + i
                       \/ o + l <= i /\ i < (o + l) + m /\ a + (o + l) = (s + l) + i
          <5> HIDE DEF o, s, l, m
          <5>1. o \in Nat /\ s \in Nat /\ l \in Nat /\ m \in Nat
            BY <4>6 DEF o, s, l, m
          <5> QED
            BY <5>1
        <4> QED
          BY <4>2, <4>3, <4>4, <4>7, Zenon
      <3>8. SumLen(next) = SumLen(done) + r.len
        <4>1. SumLen(next) = SumLen(front) + joined.len
          BY <3>6 DEF Merges, Adds
        <4> QED
          BY SMTT(30), <1>0, <2>1, <2>2, <3>3, <4>1
      <3>9. \A i, a \in Nat : At(next, i, a) <=> At(done, i, a) \/ On(r, i, a)
        BY <2>1, <3>6, <3>7 DEF Merges, Adds
      <3>10. Chain(next) /\ NoTouch(next)
        BY <3>6 DEF Merges, Adds
      <3>11. Merges(done, r, next)
        BY <3>8, <3>9, <3>10 DEF Merges, Adds
      <3> QED
        BY <3>11 DEF next
    <2> QED
      BY <2>4, <2>5
  <1> QED
    BY <1>1, <1>2

\* merge leaves a chain that has the same addresses, no two neighbours touching.
LEMMA MergeVol ==
  ASSUME NEW vec, Chain(vec)
  PROVE  /\ Chain(merge(vec, "org_start")) /\ NoTouch(merge(vec, "org_start"))
         /\ SumLen(merge(vec, "org_start")) = SumLen(vec)
         /\ \A i, a \in Nat : At(merge(vec, "org_start"), i, a) <=> At(vec, i, a)
  <1> DEFINE n == Len(vec)
  <1>0. /\ vec \in Seq(RS) /\ n \in Nat
        /\ \A i \in 1 .. n : /\ vec[i] \in RS /\ vec[i].org_start \in Nat
                             /\ vec[i].len \in Nat \ {0}
    BY ChainFacts
  <1>1. PICK f : /\ SumLen(vec) = f[n] /\ f[0] = 0
                 /\ \A i \in 1 .. n : f[i] = f[i - 1] + vec[i].len
    BY <1>0, SumLoop
  <1>2. PICK g : /\ merge(vec, "org_start") = g[n]
                 /\ g[0] = <<>>
                 /\ \A i \in 1 .. n : g[i] = MergeNext(g[i - 1], vec[i], "org_start")
    BY <1>0, MergeLoop
  <1> DEFINE Some(m, i, a) == \E k \in 1 .. m : On(vec[k], i, a)
             Fine(m) == /\ Chain(g[m]) /\ NoTouch(g[m])
                        /\ SumLen(g[m]) = f[m]
                        /\ m + 1 \in 1 .. n => vec[m + 1].org_start = f[m]
                        /\ \A i, a \in Nat : At(g[m], i, a) <=> Some(m, i, a)
             T == {m \in Nat : m <= n => Fine(m)}
  <1>3. 0 \in T
    <2>1. \A i, a \in Nat : ~Some(0, i, a)
      OBVIOUS
    <2>2. 0 + 1 \in 1 .. n => vec[0 + 1].org_start = f[0]
      BY <1>0, <1>1 DEF Chain
    <2> HIDE DEF Some
    <2>3. Fine(0)
      BY <1>1, <1>2, <2>1, <2>2, ChainEmpty, SumEmpty
    <2> QED
      BY <2>3
  <1>4. ASSUME NEW m \in Nat, m \in T PROVE m + 1 \in T
    <2> SUFFICES ASSUME m + 1 <= n PROVE Fine(m + 1)
      <3> HIDE DEF Fine, n
      <3> QED
        OBVIOUS
    <2>1. m + 1 \in 1 .. n /\ m + 1 - 1 = m /\ m <= n
      BY <1>0
    <2>2. Fine(m)
      BY <1>4, <2>1
    <2> DEFINE r == vec[m + 1]
    <2>3. g[m + 1] = MergeNext(g[m], r, "org_start") /\ f[m + 1] = f[m] + r.len
      BY <1>1, <1>2, <2>1
    <2>4. Merges(g[m], r, g[m + 1])
      BY <1>0, <2>1, <2>2, <2>3, MergeVolStep
    <2>5. \A i, a \in Nat : Some(m + 1, i, a) <=> Some(m, i, a) \/ On(vec[m + 1], i, a)
      <3>1. \A k : k \in 1 .. m + 1 <=> k \in 1 .. m \/ k = m + 1
        OBVIOUS
      <3> QED
        BY <3>1
    <2>6. m + 1 + 1 \in 1 .. n => vec[m + 1 + 1].org_start = f[m + 1]
      <3>1. m + 1 + 1 \in 1 .. n =>
              vec[m + 1].org_start + vec[m + 1].len = vec[m + 1 + 1].org_start
        BY <2>1 DEF Chain
      <3> QED
        BY <2>1, <2>2, <2>3, <3>1
    <2> HIDE DEF Some
    <2> QED
      BY <2>2, <2>3, <2>4, <2>5, <2>6 DEF Merges, Adds
  <1>5. Fine(n)
    <2> HIDE DEF T
    <2>1. n \in T
      BY <1>0, <1>3, <1>4, Induct
    <2> QED
      BY <2>1 DEF T
  <1>6. \A i, a : Some(n, i, a) <=> At(vec, i, a)
    BY DEF At
  <1> QED
    BY <1>1, <1>2, <1>5, <1>6

-------------------------------------------------------------------------------
(* operator+= of a volume.                                                 *)

\* A volume, before and after the merge pass.
Vol(vol) == vol = [vec |-> vol.vec, len |-> SumLen(vol.vec), ok |-> TRUE] /\ Chain(vol.vec)

Good(vol) == Vol(vol) /\ NoTouch(vol.vec)

\* At the end of a chain the search finds the end.
LEMMA InsertEnd ==
  ASSUME NEW vec, Chain(vec), NEW r \in RS, r.org_start = SumLen(vec), NEW L
  PROVE  Insert([vec |-> vec, len |-> L, ok |-> TRUE], r, "org_start")
           = [vec |-> Append(vec, r), len |-> L, ok |-> TRUE]
  <1> DEFINE acc == [vec |-> vec, len |-> L, ok |-> TRUE]
             keys == [i \in 1 .. Len(vec) |-> vec[i]["org_start"]]
             n == InsertPos(keys, r["org_start"])
             at == n + 1
             new == InsertAt(vec, at, r)
  <1>0. /\ vec \in Seq(RS) /\ Len(vec) \in Nat /\ SumLen(vec) \in Nat
        /\ \A i \in 1 .. Len(vec) :
             /\ vec[i] \in RS /\ vec[i].org_start \in Nat /\ vec[i].len \in Nat \ {0}
    BY ChainFacts
  <1>1. /\ keys \in Seq(Nat) /\ Len(keys) = Len(vec)
        /\ \A i \in 1 .. Len(vec) : keys[i] = vec[i].org_start
    <2>1. \A i \in 1 .. Len(vec) : vec[i]["org_start"] = vec[i].org_start /\ vec[i].org_start \in Nat
      BY <1>0, RangeFacts
    <2>2. keys \in [1 .. Len(vec) -> Nat]
      BY <2>1
    <2>3. keys \in Seq(Nat) /\ Len(keys) = Len(vec)
      BY <1>0, <2>2
    <2> QED
      BY <2>1, <2>3
  <1> HIDE DEF keys
  <1>2. \A i \in 1 .. Len(vec) : keys[i] < r.org_start
    <2> TAKE i \in 1 .. Len(vec)
    <2>1. vec[i].org_start + vec[i].len <= SumLen(vec)
      BY DEF Chain
    <2> QED
      BY SMTT(30), <1>0, <1>1, <2>1
  <1>3. Splits(keys, r.org_start, n)
    <2>1. \A i, j \in 1 .. Len(keys) : i < j => keys[i] < keys[j]
      <3> TAKE i, j \in 1 .. Len(keys)
      <3>1. i < j => vec[i].org_start + vec[i].len <= vec[j].org_start
        BY <1>1 DEF Chain
      <3> DEFINE oi == vec[i].org_start
                 li == vec[i].len
                 oj == vec[j].org_start
      <3>2. /\ oi \in Nat /\ li \in Nat \ {0} /\ oj \in Nat /\ keys[i] = oi /\ keys[j] = oj
            /\ i < j => oi + li <= oj
        BY <1>0, <1>1, <3>1
      <3> HIDE DEF oi, li, oj
      <3> QED
        BY <3>2
    <2>2. \A i \in 1 .. Len(keys) : keys[i] # r.org_start
      <3> TAKE i \in 1 .. Len(keys)
      <3> QED
        BY <1>0, <1>1, <1>2
    <2>3. r.org_start \in Nat /\ r["org_start"] = r.org_start
      BY RangeFacts
    <2>4. Splits(keys, r.org_start, InsertPos(keys, r.org_start))
      BY <1>1, <2>1, <2>2, <2>3, InsertPosSplits
    <2> QED
      BY <2>3, <2>4
  <1>4. n = Len(vec)
    <2> HIDE DEF n
    <2>1. n \in 0 .. Len(vec) /\ \A i \in n + 1 .. Len(vec) : keys[i] > r.org_start
      BY <1>1, <1>3 DEF Splits
    <2>2. CASE n # Len(vec)
      <3>1. n + 1 \in n + 1 .. Len(vec) /\ n + 1 \in 1 .. Len(vec)
        BY <1>0, <2>1, <2>2
      <3>2. keys[n + 1] > r.org_start /\ keys[n + 1] < r.org_start
        BY <1>2, <2>1, <3>1
      <3>3. keys[n + 1] \in Nat /\ r.org_start \in Nat
        BY <1>0, <1>1, <3>1
      <3> QED
        BY <3>2, <3>3
    <2> QED
      BY <2>2
  <1>5. Insert(acc, r, "org_start") = [vec |-> new, len |-> L, ok |-> TRUE]
    <2>1. n >= 0
      BY <1>0, <1>4
    <2> QED
      BY <2>1 DEF Insert, keys
  <1>6. new = Append(vec, r)
    <2>1. at = n + 1
      OBVIOUS
    <2>2. new = InsertAt(vec, at, r)
      OBVIOUS
    <2> HIDE DEF n, at, new
    <2>3. n \in 0 .. Len(vec)
      BY <1>0, <1>4
    <2>4. new \in Seq(RS) /\ With(new, vec, n, r)
      BY <1>0, <2>1, <2>2, <2>3, Inserted
    <2>5. /\ Len(new) = Len(vec) + 1
          /\ \A k \in 1 .. Len(vec) : new[k] = vec[k]
          /\ new[Len(vec) + 1] = r
      BY <1>4, <2>4 DEF With
    <2> DEFINE app == Append(vec, r)
    <2>6. /\ app \in Seq(RS) /\ Len(app) = Len(vec) + 1
          /\ \A k \in 1 .. Len(vec) : app[k] = vec[k]
          /\ app[Len(vec) + 1] = r
      BY <1>0, AppendProperties
    <2> HIDE DEF app
    <2>7. \A k \in 1 .. Len(new) : new[k] = app[k]
      <3>1. \A k \in 1 .. Len(new) : k \in 1 .. Len(vec) \/ k = Len(vec) + 1
        BY <1>0, <2>5
      <3> QED
        BY <2>5, <2>6, <3>1
    <2>8. new = app
      BY <2>4, <2>5, <2>6, <2>7, SeqEqual
    <2> QED
      BY <2>8 DEF app
  <1> QED
    BY <1>5, <1>6

\* One turn of the loop of operator+=.
LEMMA AddRangeVol ==
  ASSUME NEW vol, Vol(vol), NEW r \in RS
  PROVE  LET res == AddRange(vol, r) IN
         /\ Vol(res)
         /\ Adds(vol.vec, algo_range(vol.len, r.start, r.len), res.vec)
  <1> DEFINE x == algo_range(vol.len, r.start, r.len)
             app == Append(vol.vec, x)
             res == AddRange(vol, r)
  <1>1. /\ vol = [vec |-> vol.vec, len |-> vol.len, ok |-> TRUE]
        /\ vol.len = SumLen(vol.vec) /\ Chain(vol.vec) /\ vol.len \in Nat
    BY ChainFacts DEF Vol
  <1>2. x \in RS /\ x.org_start = SumLen(vol.vec) /\ x.len = r.len
    BY <1>1, RangeFacts
  <1>3. [vol EXCEPT !.len = @ + r.len] = [vec |-> vol.vec, len |-> vol.len + r.len, ok |-> TRUE]
    <2>2. [vol EXCEPT !.len = vol.len + r.len]
            = [vec |-> vol.vec, len |-> vol.len + r.len, ok |-> TRUE]
      <3> DEFINE v == vol.vec
                 n == vol.len
                 z == n + r.len
                 b == TRUE
      <3>1. vol = [vec |-> v, len |-> n, ok |-> b]
        BY <1>1
      <3> HIDE DEF v, n, z, b
      <3>2. [vol EXCEPT !.len = z] = [vec |-> v, len |-> z, ok |-> b]
        BY <3>1
      <3> QED
        BY <3>2 DEF v, n, z, b
    <2> QED
      BY <2>2
  <1> HIDE DEF x
  <1>4. res = [vec |-> app, len |-> vol.len + r.len, ok |-> TRUE]
    BY <1>1, <1>2, <1>3, InsertEnd DEF AddRange, x
  <1>5. Adds(vol.vec, x, app)
    BY <1>1, <1>2, AppendVol
  <1>6. SumLen(app) = vol.len + r.len /\ Chain(app)
    BY <1>1, <1>2, <1>5 DEF Adds
  <1> HIDE DEF app, res
  <1>7. res.vec = app
    BY <1>4
  <1>8. Vol(res)
    BY <1>4, <1>6 DEF Vol
  <1> QED
    BY <1>5, <1>7, <1>8 DEF res, x

\* Range x, L addresses further.
LEMMA Shifted ==
  ASSUME NEW x \in RS, NEW L \in Nat, NEW y, y = algo_range(L + x.org_start, x.start, x.len)
  PROVE  \A i, a \in Nat : On(y, i, a) <=> \E j \in Nat : i = L + j /\ On(x, j, a)
  <1> SUFFICES ASSUME NEW i \in Nat, NEW a \in Nat
               PROVE  On(y, i, a) <=> \E j \in Nat : i = L + j /\ On(x, j, a)
    OBVIOUS
  <1>1. /\ y.org_start = L + x.org_start /\ y.start = x.start /\ y.len = x.len
        /\ x.org_start \in Nat /\ x.start \in Nat /\ x.len \in Nat \ {0}
    BY RangeFacts
  <1>2. ASSUME On(y, i, a) PROVE \E j \in Nat : i = L + j /\ On(x, j, a)
    <2>1. /\ L + x.org_start <= i /\ i < (L + x.org_start) + x.len
          /\ a + (L + x.org_start) = x.start + i
      BY <1>1, <1>2 DEF On, Holds
    <2>2. i - L \in Nat /\ i = L + (i - L)
      BY <1>1, <2>1
    <2>3. /\ x.org_start <= i - L /\ i - L < x.org_start + x.len
          /\ a + x.org_start = x.start + (i - L)
      BY <1>1, <2>1
    <2> QED
      BY <2>2, <2>3 DEF On, Holds
  <1>3. ASSUME NEW j \in Nat, i = L + j, On(x, j, a) PROVE On(y, i, a)
    <2>1. x.org_start <= j /\ j < x.org_start + x.len /\ a + x.org_start = x.start + j
      BY <1>3 DEF On, Holds
    <2>2. /\ L + x.org_start <= i /\ i < (L + x.org_start) + x.len
          /\ a + (L + x.org_start) = x.start + i
      BY <1>1, <1>3, <2>1
    <2> QED
      BY <1>1, <2>2 DEF On, Holds
  <1> QED
    BY <1>2, <1>3

Joins(vol, vec, res) ==
  /\ Vol(res)
  /\ res.len = vol.len + SumLen(vec)
  /\ \A i, a \in Nat : At(res.vec, i, a) <=>
       At(vol.vec, i, a) \/ \E j \in Nat : i = vol.len + j /\ At(vec, j, a)

\* The loop of operator+= appends the addresses of vec to those of the volume.
LEMMA AddRangesVol ==
  ASSUME NEW vol, Vol(vol), NEW vec, Chain(vec)
  PROVE  Joins(vol, vec, AddRanges(vol, vec))
  <1> DEFINE n == Len(vec)
             L == vol.len
  <1>0. /\ vec \in Seq(RS) /\ n \in Nat
        /\ \A i \in 1 .. n : /\ vec[i] \in RS /\ vec[i].org_start \in Nat
                             /\ vec[i].len \in Nat \ {0} /\ vec[i].len \in Nat
    BY ChainFacts
  <1>1. PICK f : /\ SumLen(vec) = f[n] /\ f[0] = 0
                 /\ \A i \in 1 .. n : f[i] = f[i - 1] + vec[i].len
    BY <1>0, SumLoop
  <1>2. PICK g : /\ AddRanges(vol, vec) = g[n]
                 /\ g[0] = vol
                 /\ \A i \in 1 .. n : g[i] = AddRange(g[i - 1], vec[i])
    BY <1>0, AddLoop
  <1>3. L \in Nat
    BY ChainFacts DEF Vol
  <1> DEFINE Some(m, j, a) == \E k \in 1 .. m : On(vec[k], j, a)
             Behind(m, i, a) == \E j \in Nat : i = L + j /\ Some(m, j, a)
             Fine(m) == /\ Vol(g[m])
                        /\ f[m] \in Nat /\ g[m].len = L + f[m]
                        /\ m + 1 \in 1 .. n => vec[m + 1].org_start = f[m]
                        /\ \A i, a \in Nat : At(g[m].vec, i, a) <=>
                                               At(vol.vec, i, a) \/ Behind(m, i, a)
             T == {m \in Nat : m <= n => Fine(m)}
  <1>4. 0 \in T
    <2>1. \A i, a \in Nat : ~Behind(0, i, a)
      OBVIOUS
    <2>2. 0 + 1 \in 1 .. n => vec[0 + 1].org_start = f[0]
      BY <1>0, <1>1 DEF Chain
    <2>3. f[0] \in Nat /\ L = L + f[0]
      BY <1>1, <1>3
    <2> HIDE DEF Behind
    <2>4. Fine(0)
      BY <1>2, <2>1, <2>2, <2>3
    <2> QED
      BY <2>4
  <1>5. ASSUME NEW m \in Nat, m \in T PROVE m + 1 \in T
    <2> SUFFICES ASSUME m + 1 <= n PROVE Fine(m + 1)
      <3> HIDE DEF Fine, n
      <3> QED
        OBVIOUS
    <2>1. m + 1 \in 1 .. n /\ m + 1 - 1 = m /\ m <= n
      BY <1>0
    <2>2. Fine(m)
      BY <1>5, <2>1
    <2> DEFINE r == vec[m + 1]
               y == algo_range(g[m].len, r.start, r.len)
    <2>3. g[m + 1] = AddRange(g[m], r) /\ f[m + 1] = f[m] + r.len
      BY <1>1, <1>2, <2>1
    <2>4. r \in RS /\ r.org_start = f[m] /\ r.len \in Nat
      BY <1>0, <2>1, <2>2
    <2>5. Vol(g[m + 1]) /\ Adds(g[m].vec, y, g[m + 1].vec)
      BY <2>2, <2>3, <2>4, AddRangeVol
    <2>6. y = algo_range(L + r.org_start, r.start, r.len)
      BY <2>2, <2>4
    <2> HIDE DEF y
    <2>7. \A i, a \in Nat : On(y, i, a) <=> \E j \in Nat : i = L + j /\ On(r, j, a)
      <3>1. r \in RS /\ L \in Nat
        BY <1>3, <2>4
      <3> HIDE DEF r, L
      <3> QED
        BY <2>6, <3>1, Shifted
    <2>8. y.len = r.len
      BY <2>6, RangeFacts
    <2>9. g[m + 1].len = L + f[m + 1] /\ f[m + 1] \in Nat
      <3>1. g[m + 1].len = SumLen(g[m + 1].vec) /\ g[m].len = SumLen(g[m].vec)
        BY <2>2, <2>5 DEF Vol
      <3>2. SumLen(g[m + 1].vec) = SumLen(g[m].vec) + r.len
        BY <2>5, <2>8 DEF Adds
      <3> QED
        BY SMTT(30), <1>3, <2>2, <2>3, <2>4, <3>1, <3>2
    <2>10. \A j, a \in Nat : Some(m + 1, j, a) <=> Some(m, j, a) \/ On(r, j, a)
      <3>1. \A k : k \in 1 .. m + 1 <=> k \in 1 .. m \/ k = m + 1
        OBVIOUS
      <3> QED
        BY <3>1
    <2>11. m + 1 + 1 \in 1 .. n => vec[m + 1 + 1].org_start = f[m + 1]
      <3>1. m + 1 + 1 \in 1 .. n =>
              vec[m + 1].org_start + vec[m + 1].len = vec[m + 1 + 1].org_start
        BY <2>1 DEF Chain
      <3> QED
        BY <2>3, <2>4, <3>1
    <2> HIDE DEF Some
    <2>12. \A i, a \in Nat : Behind(m + 1, i, a) <=> Behind(m, i, a) \/ On(y, i, a)
      BY <2>7, <2>10
    <2> HIDE DEF Behind
    <2>13. \A i, a \in Nat : At(g[m + 1].vec, i, a) <=> At(vol.vec, i, a) \/ Behind(m + 1, i, a)
      BY <2>2, <2>5, <2>12 DEF Adds
    <2> QED
      BY <2>5, <2>9, <2>11, <2>13
  <1>6. Fine(n)
    <2> HIDE DEF T
    <2>1. n \in T
      BY <1>0, <1>4, <1>5, Induct
    <2> QED
      BY <2>1 DEF T
  <1>7. \A i, a : Behind(n, i, a) <=> \E j \in Nat : i = vol.len + j /\ At(vec, j, a)
    BY DEF At
  <1> HIDE DEF Behind
  <1> QED
    BY <1>1, <1>2, <1>6, <1>7 DEF Joins

\* operator+= as a whole: it asserts nothing, and the merge pass has left its mark.
LEMMA PlusAssignVol ==
  ASSUME NEW vol, Vol(vol), NEW vec, Chain(vec)
  PROVE  /\ Joins(vol, vec, PlusAssign(vol, vec))
         /\ Good(PlusAssign(vol, vec))
  <1> DEFINE all == AddRanges(vol, vec)
             res == PlusAssign(vol, vec)
             new == merge(all.vec, "org_start")
  <1>1. Joins(vol, vec, all)
    BY AddRangesVol
  <1>2. all = [vec |-> all.vec, len |-> all.len, ok |-> TRUE] /\ all.len = SumLen(all.vec)
        /\ Chain(all.vec)
    BY <1>1 DEF Joins, Vol
  <1>3. res = [all EXCEPT !.vec = new]
    BY DEF PlusAssign
  <1>4. /\ Chain(new) /\ NoTouch(new)
        /\ SumLen(new) = SumLen(all.vec)
        /\ \A i, a \in Nat : At(new, i, a) <=> At(all.vec, i, a)
    BY <1>2, MergeVol
  <1> HIDE DEF all, new, res
  <1>5. res = [vec |-> new, len |-> all.len, ok |-> TRUE]
    <2> DEFINE v == all.vec
               n == all.len
               b == TRUE
    <2>1. all = [vec |-> v, len |-> n, ok |-> b]
      BY <1>2
    <2> HIDE DEF v, n, b
    <2>2. [all EXCEPT !.vec = new] = [vec |-> new, len |-> n, ok |-> b]
      BY <2>1
    <2> QED
      BY <1>3, <2>2 DEF n, b
  <1>6. res.vec = new /\ res.len = all.len
    BY <1>5
  <1>7. res = [vec |-> res.vec, len |-> SumLen(res.vec), ok |-> TRUE]
    BY <1>2, <1>4, <1>5, <1>6
  <1>8. Good(res)
    BY <1>4, <1>6, <1>7 DEF Good, Vol
  <1>9. Joins(vol, vec, res)
    BY <1>1, <1>4, <1>6, <1>8 DEF Joins, Good
  <1> QED
    BY <1>8, <1>9 DEF res

-------------------------------------------------------------------------------
(* alloc_ranges.                                                           *)

\* A volume has no address beyond its length.
LEMMA AtBound ==
  ASSUME NEW vec, Chain(vec), NEW i \in Nat, NEW a, At(vec, i, a)
  PROVE  i < SumLen(vec)
  <1>1. PICK k \in 1 .. Len(vec) : On(vec[k], i, a)
    BY DEF At
  <1>2. vec[k].org_start + vec[k].len <= SumLen(vec) /\ i < vec[k].org_start + vec[k].len
    BY <1>1 DEF Chain, On, Holds
  <1> QED
    BY <1>2, ChainFacts

\* A chain of one range.
LEMMA OneChain ==
  ASSUME NEW x \in RS, x.org_start = 0
  PROVE  /\ Chain(<<x>>) /\ SumLen(<<x>>) = x.len
         /\ \A i, a \in Nat : At(<<x>>, i, a) <=> On(x, i, a)
  <1>1. <<x>> = Append(<<>>, x)
    OBVIOUS
  <1>2. Adds(<<>>, x, <<x>>)
    BY <1>1, ChainEmpty, SumEmpty, AppendVol
  <1>3. SumLen(<<x>>) = x.len
    BY SumOne, RangeFacts
  <1> QED
    BY <1>2, <1>3, ChainEmpty DEF Adds

\* Where a range from address 0 of the volume keeps it.
LEMMA OnBare ==
  ASSUME NEW x \in RS, x.org_start = 0
  PROVE  /\ \A i, a \in Nat : On(x, i, a) <=> i < x.len /\ a = x.start + i
         /\ \A a \in Nat : Lies(x, a) <=> \E i \in Nat : On(x, i, a)
  <1>1. x.start \in Nat /\ x.len \in Nat \ {0}
    BY RangeFacts
  <1>2. \A i, a \in Nat : On(x, i, a) <=> i < x.len /\ a = x.start + i
    BY <1>1 DEF On, Holds
  <1>3. ASSUME NEW a \in Nat, Lies(x, a) PROVE \E i \in Nat : On(x, i, a)
    <2>1. a - x.start \in Nat /\ a - x.start < x.len /\ a = x.start + (a - x.start)
      BY <1>1, <1>3 DEF Lies
    <2> QED
      BY <1>2, <2>1
  <1>4. ASSUME NEW a \in Nat, NEW i \in Nat, On(x, i, a) PROVE Lies(x, a)
    BY <1>1, <1>2, <1>4 DEF Lies
  <1> QED
    BY <1>2, <1>3, <1>4

\* A free list without its first range.
LEMMA HeadFree ==
  ASSUME NEW free, FreeList(free), free # <<>>
  PROVE  /\ Head(free) \in RS /\ Head(free).org_start = 0
         /\ FreeList(Tail(free))
         /\ Len(free) \in Nat \ {0} /\ Len(Tail(free)) = Len(free) - 1
         /\ SumLen(free) = Head(free).len + SumLen(Tail(free))
         /\ \A a \in Nat : a \in Covered(free) <=> Lies(Head(free), a) \/ a \in Covered(Tail(free))
         /\ \A i \in 1 .. Len(Tail(free)) : EndOf(Head(free)) < Tail(free)[i].start
  <1> DEFINE r == Head(free)
             rest == Tail(free)
             n == Len(free)
  <1>1. /\ free \in Seq(RS) /\ r \in RS /\ rest \in Seq(RS)
        /\ n \in Nat \ {0} /\ Len(rest) = n - 1
        /\ \A i \in 1 .. n - 1 : rest[i] = free[i + 1]
        /\ r = free[1]
    BY HeadTailProperties, EmptySeq DEF FreeList
  <1>2. SumLen(free) = r.len + SumLen(rest)
    BY <1>1, SumTail, RangeFacts
  <1> HIDE DEF r, rest
  <1>3. \A i \in 1 .. n - 1 : i + 1 \in 1 .. n /\ 1 < i + 1 /\ 1 \in 1 .. n
    BY <1>1
  <1>4. \A i \in 1 .. n - 1 : EndOf(r) < rest[i].start
    BY <1>1, <1>3 DEF FreeList, Gapped, EndOf
  <1>5. Gapped(rest)
    <2> SUFFICES ASSUME NEW i \in 1 .. n - 1, NEW j \in 1 .. n - 1, i < j
                 PROVE  rest[i].start + rest[i].len < rest[j].start
      BY <1>1 DEF Gapped
    <2>1. i + 1 < j + 1
      OBVIOUS
    <2> QED
      BY <1>1, <1>3, <2>1 DEF FreeList, Gapped
  <1>6. Bare(rest) /\ r.org_start = 0
    BY <1>1, <1>3 DEF FreeList, Bare
  <1>7. \A a \in Nat : a \in Covered(free) <=> Lies(r, a) \/ a \in Covered(rest)
    <2> TAKE a \in Nat
    <2>1. a \in Covered(free) <=> \E k \in 1 .. n : Lies(free[k], a)
      BY <1>1, CoveredFacts
    <2>2. a \in Covered(rest) <=> \E k \in 1 .. n - 1 : Lies(rest[k], a)
      BY <1>1, CoveredFacts
    <2>3. ASSUME NEW k \in 1 .. n, Lies(free[k], a)
          PROVE  Lies(r, a) \/ \E i \in 1 .. n - 1 : Lies(rest[i], a)
      <3>1. CASE k = 1
        BY <1>1, <2>3, <3>1
      <3>2. CASE k # 1
        <4>1. k - 1 \in 1 .. n - 1 /\ k - 1 + 1 = k
          BY <1>1, <3>2
        <4>2. rest[k - 1] = free[k]
          BY <1>1, <4>1
        <4> QED
          BY <2>3, <4>1, <4>2
      <3> QED
        BY <3>1, <3>2
    <2>4. 1 \in 1 .. n
      BY <1>1
    <2> QED
      BY <1>1, <1>3, <2>1, <2>2, <2>3, <2>4
  <1>8. FreeList(rest)
    BY <1>1, <1>5, <1>6 DEF FreeList
  <1> QED
    BY <1>1, <1>2, <1>4, <1>6, <1>7, <1>8 DEF r, rest

\* A free list with a range put back in front.
LEMMA PutFree ==
  ASSUME NEW rest, FreeList(rest), NEW x \in RS, x.org_start = 0,
         \A i \in 1 .. Len(rest) : EndOf(x) < rest[i].start,
         NEW new, new = <<x>> \o rest
  PROVE  /\ FreeList(new)
         /\ SumLen(new) = x.len + SumLen(rest)
         /\ \A a \in Nat : a \in Covered(new) <=> Lies(x, a) \/ a \in Covered(rest)
  <1> DEFINE n == Len(rest)
  <1>1. rest \in Seq(RS) /\ n \in Nat
    BY ElementFacts DEF FreeList
  <1>2. <<x>> \in Seq(RS) /\ Len(<<x>>) = 1 /\ <<x>>[1] = x
    OBVIOUS
  <1>3. /\ new \in Seq(RS) /\ Len(new) = 1 + n
        /\ new[1] = x /\ \A i \in 2 .. n + 1 : new[i] = rest[i - 1]
    <2>1. /\ new \in Seq(RS) /\ Len(new) = Len(<<x>>) + Len(rest)
          /\ \A i \in 1 .. Len(<<x>>) + Len(rest) :
               new[i] = IF i <= Len(<<x>>) THEN <<x>>[i] ELSE rest[i - Len(<<x>>)]
      BY <1>1, <1>2, ConcatProperties
    <2> QED
      BY <1>1, <1>2, <2>1
  <1>4. SumLen(new) = x.len + SumLen(rest)
    <2>1. \A y \in RS : y.len \in Nat
      BY RangeFacts
    <2>2. SumLen(<<x>> \o rest) = SumLen(<<x>>) + SumLen(rest)
      BY <1>1, <1>2, <2>1, SumConcat
    <2>3. SumLen(<<x>>) = x.len
      BY <2>1, SumOne
    <2> QED
      BY <2>2, <2>3
  <1>5. \A i \in 1 .. Len(new) : i = 1 \/ (i \in 2 .. n + 1 /\ i - 1 \in 1 .. n)
    BY <1>1, <1>3
  <1>6. Gapped(new)
    <2> SUFFICES ASSUME NEW i \in 1 .. Len(new), NEW j \in 1 .. Len(new), i < j
                 PROVE  new[i].start + new[i].len < new[j].start
      BY DEF Gapped
    <2>1. j \in 2 .. n + 1 /\ j - 1 \in 1 .. n /\ new[j] = rest[j - 1]
      BY <1>1, <1>3, <1>5
    <2>2. CASE i = 1
      BY <1>3, <2>1, <2>2 DEF EndOf
    <2>3. CASE i \in 2 .. n + 1 /\ i - 1 \in 1 .. n
      <3>1. i - 1 < j - 1
        BY <2>1, <2>3
      <3> QED
        BY <1>3, <2>1, <2>3, <3>1 DEF FreeList, Gapped
    <2> QED
      BY <1>5, <2>2, <2>3
  <1>7. Bare(new)
    BY <1>3, <1>5 DEF Bare, FreeList
  <1>8. FreeList(new)
    BY <1>3, <1>6, <1>7 DEF FreeList
  <1>9. \A a \in Nat : a \in Covered(new) <=> Lies(x, a) \/ a \in Covered(rest)
    <2> TAKE a \in Nat
    <2>1. a \in Covered(new) <=> \E k \in 1 .. Len(new) : Lies(new[k], a)
      BY <1>3, CoveredFacts
    <2>2. a \in Covered(rest) <=> \E k \in 1 .. n : Lies(rest[k], a)
      BY <1>1, CoveredFacts
    <2>3. \A k \in 1 .. n : k + 1 \in 1 .. Len(new) /\ k + 1 \in 2 .. n + 1 /\ k + 1 - 1 = k
      BY <1>1, <1>3
    <2>4. 1 \in 1 .. Len(new)
      BY <1>1, <1>3
    <2>5. \A k \in 1 .. n : new[k + 1] = rest[k]
      BY <1>3, <2>3
    <2> QED
      BY <1>3, <1>5, <2>1, <2>2, <2>3, <2>4, <2>5
  <1> QED
    BY <1>4, <1>8, <1>9

-------------------------------------------------------------------------------
Has(vec, b) == \E i \in Nat : At(vec, i, b)

\* The loop of alloc_ranges has come to a.
Allocating(free, size, a) ==
  /\ Good(a.vol) /\ FreeList(a.free) /\ a.ok = TRUE
  /\ a.need \in Nat /\ a.done \in BOOLEAN /\ (a.done <=> a.need = 0)
  /\ a.vol.len + a.need = size
  /\ SumLen(a.free) + size = SumLen(free) + a.need
  /\ \A b \in Nat : b \in Covered(free) <=> b \in Covered(a.free) \/ Has(a.vol.vec, b)
  /\ \A b, c \in Nat : Has(a.vol.vec, b) /\ c \in Covered(a.free) => b < c
  /\ \A i, j, b, c \in Nat : At(a.vol.vec, i, b) /\ At(a.vol.vec, j, c) /\ i < j => b < c

\* Range x goes from the front of the free list to the volume.
LEMMA Give ==
  ASSUME NEW free, NEW size \in Nat, SumLen(free) \in Nat,
         NEW a, Allocating(free, size, a),
         NEW x \in RS, x.org_start = 0, x.len <= a.need,
         NEW rest, FreeList(rest), SumLen(a.free) = x.len + SumLen(rest),
         \A b \in Nat : b \in Covered(a.free) <=> Lies(x, b) \/ b \in Covered(rest),
         \A b, c \in Nat : Lies(x, b) /\ c \in Covered(rest) => b < c,
         NEW new,
         new.ok = TRUE, new.need = a.need - x.len,
         new.done \in BOOLEAN, new.done <=> new.need = 0,
         new.free = rest, new.vol = PlusAssign(a.vol, <<x>>)
  PROVE  Allocating(free, size, new)
  <1> DEFINE vec == a.vol.vec
             res == new.vol.vec
             L == a.vol.len
  <1>1. /\ Vol(a.vol) /\ Chain(vec) /\ L = SumLen(vec) /\ L \in Nat
        /\ a.need \in Nat /\ L + a.need = size
        /\ SumLen(a.free) + size = SumLen(free) + a.need
    <2>1. Vol(a.vol) /\ Chain(vec) /\ L = SumLen(vec)
      BY DEF Allocating, Good, Vol
    <2>2. L \in Nat
      BY <2>1, ChainFacts
    <2> QED
      BY <2>1, <2>2 DEF Allocating
  <1>2. x.len \in Nat \ {0} /\ x.start \in Nat
    BY RangeFacts
  <1>3. Joins(a.vol, <<x>>, new.vol) /\ Good(new.vol)
    BY <1>1, OneChain, PlusAssignVol
  <1>4. /\ new.vol.len = L + x.len
        /\ \A i, b \in Nat : At(res, i, b) <=>
             At(vec, i, b) \/ \E j \in Nat : i = L + j /\ On(x, j, b)
    BY <1>3, OneChain DEF Joins
  <1>5. \A j, b \in Nat : On(x, j, b) <=> j < x.len /\ b = x.start + j
    BY OnBare
  <1>6. \A b \in Nat : Lies(x, b) <=> \E j \in Nat : On(x, j, b)
    BY OnBare
  <1>7. new.need \in Nat /\ new.vol.len + new.need = size
    BY <1>1, <1>2, <1>4
  <1>8. SumLen(rest) + size = SumLen(free) + new.need
    <2>1. SumLen(rest) \in Nat
      BY SumNat, RangeFacts DEF FreeList
    <2> QED
      BY <1>1, <1>2, <2>1
  <1>9. \A b \in Nat : Has(res, b) <=> Has(vec, b) \/ Lies(x, b)
    <2> TAKE b \in Nat
    <2>1. ASSUME NEW i \in Nat, At(res, i, b) PROVE Has(vec, b) \/ Lies(x, b)
      BY <1>4, <1>6, <2>1 DEF Has
    <2>2. ASSUME NEW i \in Nat, At(vec, i, b) PROVE Has(res, b)
      BY <1>4, <2>2 DEF Has
    <2>3. ASSUME NEW j \in Nat, On(x, j, b) PROVE Has(res, b)
      <3>1. L + j \in Nat
        BY <1>1
      <3> QED
        BY <1>4, <2>3, <3>1 DEF Has
    <2> QED
      BY <1>6, <2>1, <2>2, <2>3 DEF Has
  <1>10. \A b \in Nat : b \in Covered(free) <=> b \in Covered(rest) \/ Has(res, b)
    BY <1>9 DEF Allocating
  <1>11. \A b, c \in Nat : Has(res, b) /\ c \in Covered(rest) => b < c
    BY <1>9 DEF Allocating
  <1>12. ASSUME NEW i \in Nat, NEW j \in Nat, NEW b \in Nat, NEW c \in Nat,
                At(res, i, b), At(res, j, c), i < j
         PROVE  b < c
    <2>1. CASE At(vec, i, b) /\ At(vec, j, c)
      BY <1>12, <2>1 DEF Allocating
    <2>2. ASSUME At(vec, i, b), NEW m \in Nat, j = L + m, On(x, m, c) PROVE b < c
      <3>1. Has(vec, b) /\ Lies(x, c)
        BY <1>6, <2>2 DEF Has
      <3>2. c \in Covered(a.free)
        BY <3>1
      <3> QED
        BY <3>1, <3>2 DEF Allocating
    <2>3. ASSUME NEW k \in Nat, i = L + k, At(vec, j, c) PROVE b < c
      <3>1. j < L
        BY <1>1, <2>3, AtBound
      <3> QED
        BY <1>1, <1>12, <2>3, <3>1
    <2>4. ASSUME NEW k \in Nat, i = L + k, On(x, k, b), NEW m \in Nat, j = L + m, On(x, m, c)
          PROVE  b < c
      <3>1. b = x.start + k /\ c = x.start + m
        BY <1>5, <2>4
      <3> QED
        BY <1>1, <1>2, <1>12, <2>4, <3>1
    <2>5. At(vec, i, b) \/ \E k \in Nat : i = L + k /\ On(x, k, b)
      BY <1>4, <1>12
    <2>6. At(vec, j, c) \/ \E m \in Nat : j = L + m /\ On(x, m, c)
      BY <1>4, <1>12
    <2> QED
      BY <2>1, <2>2, <2>3, <2>4, <2>5, <2>6
  <1> QED
    BY <1>3, <1>7, <1>8, <1>10, <1>11, <1>12 DEF Allocating

\* A range as a free list has it.
LEMMA BareRange ==
  ASSUME NEW s \in Nat, NEW l \in Nat \ {0}, NEW x, x = algo_range(0, s, l)
  PROVE  x \in RS /\ x.org_start = 0 /\ x.start = s /\ x.len = l
  BY DEF RS, algo_range

\* One turn of the loop of alloc_ranges.
LEMMA TakeStep ==
  ASSUME NEW free, NEW size \in Nat, SumLen(free) \in Nat, size <= SumLen(free),
         NEW a, Allocating(free, size, a), ~a.done
  PROVE  /\ Allocating(free, size, Take(a))
         /\ Take(a).done \/ Len(Take(a).free) = Len(a.free) - 1
  <1> DEFINE r == Head(a.free)
             rest == Tail(a.free)
             new == Take(a)
  <1>1. /\ FreeList(a.free) /\ a.ok = TRUE /\ a.need \in Nat \ {0}
        /\ SumLen(a.free) + size = SumLen(free) + a.need
    BY DEF Allocating
  <1>2. a.free # <<>>
    <2>1. SumLen(a.free) \in Nat
      BY <1>1, SumNat, RangeFacts DEF FreeList
    <2>2. SumLen(a.free) # 0
      BY <1>1, <2>1
    <2> QED
      BY <2>2, SumEmpty
  <1>3. /\ r \in RS /\ r.org_start = 0
        /\ FreeList(rest)
        /\ Len(rest) = Len(a.free) - 1
        /\ SumLen(a.free) = r.len + SumLen(rest)
        /\ \A b \in Nat : b \in Covered(a.free) <=> Lies(r, b) \/ b \in Covered(rest)
        /\ \A i \in 1 .. Len(rest) : EndOf(r) < rest[i].start
    BY <1>1, <1>2, HeadFree
  <1>4. r.start \in Nat /\ r.len \in Nat \ {0} /\ SumLen(rest) \in Nat
    BY <1>3, SumNat, RangeFacts DEF FreeList
  <1>5. \A b, c \in Nat : Lies(r, b) /\ c \in Covered(rest) => b < c
    <2> SUFFICES ASSUME NEW b \in Nat, NEW c \in Nat, Lies(r, b), c \in Covered(rest) PROVE b < c
      OBVIOUS
    <2>1. rest \in Seq(RS)
      BY <1>3 DEF FreeList
    <2>2. PICK k \in 1 .. Len(rest) : Lies(rest[k], c)
      BY <2>1, CoveredFacts
    <2>3. rest[k].start \in Nat /\ rest[k].len \in Nat \ {0} /\ EndOf(r) < rest[k].start
      BY <1>3, <2>1, VecFacts
    <2> DEFINE e == EndOf(r)
               o == rest[k].start
    <2>4. b < e /\ e \in Nat
      BY SMTT(30), <1>4 DEF Lies, EndOf
    <2>5. o <= c /\ e < o /\ o \in Nat
      BY <2>2, <2>3 DEF Lies
    <2> HIDE DEF e, o
    <2> QED
      BY <2>4, <2>5
  <1>6. CASE r.len > a.need
    <2> DEFINE x == algo_range(0, r.start, a.need)
               cut == algo_range(0, r.start + a.need, r.len - a.need)
               put == <<cut>> \o rest
    <2>1. new = [need |-> 0, done |-> TRUE, ok |-> a.ok /\ a.need > 0,
                 free |-> put, vol |-> PlusAssign(a.vol, <<x>>)]
      BY <1>6 DEF Take
    <2>2. /\ x \in RS /\ x.org_start = 0 /\ x.start = r.start /\ x.len = a.need
          /\ cut \in RS /\ cut.org_start = 0 /\ cut.start = r.start + a.need
          /\ cut.len = r.len - a.need
      <3>1. r.len - a.need \in Nat \ {0} /\ r.start + a.need \in Nat
        BY <1>1, <1>4, <1>6
      <3>2. x \in RS /\ x.org_start = 0 /\ x.start = r.start /\ x.len = a.need
        BY <1>1, <1>4, BareRange
      <3>3. /\ cut \in RS /\ cut.org_start = 0 /\ cut.start = r.start + a.need
            /\ cut.len = r.len - a.need
        BY <3>1, BareRange
      <3> QED
        BY <3>2, <3>3
    <2>3. new.ok = TRUE /\ new.need = 0 /\ new.done = TRUE /\ new.free = put
          /\ new.vol = PlusAssign(a.vol, <<x>>)
      <3> DEFINE ok == a.ok /\ a.need > 0
                 vol == PlusAssign(a.vol, <<x>>)
      <3>1. a.need > 0
        BY <1>1
      <3>2. ok = TRUE
        BY <1>1, <3>1, Zenon
      <3>3. new = [need |-> 0, done |-> TRUE, ok |-> ok, free |-> put, vol |-> vol]
        BY <2>1, Zenon
      <3> HIDE DEF new, put, ok, vol
      <3>4. new.ok = ok /\ new.need = 0 /\ new.done = TRUE /\ new.free = put /\ new.vol = vol
        BY <3>3
      <3> QED
        BY <3>2, <3>4, Zenon DEF vol
    <2> HIDE DEF new, x, cut, rest, r
    <2>4. EndOf(cut) = EndOf(r)
      BY <1>1, <1>4, <2>2 DEF EndOf
    <2>5. /\ FreeList(put) /\ SumLen(put) = cut.len + SumLen(rest)
          /\ \A b \in Nat : b \in Covered(put) <=> Lies(cut, b) \/ b \in Covered(rest)
      BY <1>3, <2>2, <2>4, PutFree
    <2> HIDE DEF put
    <2>6. \A b \in Nat : Lies(r, b) <=> Lies(x, b) \/ Lies(cut, b)
      BY <1>1, <1>4, <1>6, <2>2 DEF Lies
    <2>7. \A b \in Nat : b \in Covered(a.free) <=> Lies(x, b) \/ b \in Covered(put)
      BY <1>3, <2>5, <2>6
    <2>8. \A b, c \in Nat : Lies(x, b) /\ c \in Covered(put) => b < c
      <3>1. \A b, c \in Nat : Lies(x, b) /\ Lies(cut, c) => b < c
        BY <1>1, <1>4, <2>2 DEF Lies
      <3> QED
        BY <1>5, <2>5, <2>6, <3>1
    <2>9. SumLen(a.free) = x.len + SumLen(put) /\ x.len <= a.need /\ 0 = a.need - x.len
      BY SMTT(30), <1>1, <1>3, <1>4, <2>2, <2>5
    <2>10. new.need = a.need - x.len /\ new.done \in BOOLEAN /\ (new.done <=> new.need = 0)
      BY <2>3, <2>9
    <2>11. Allocating(free, size, new)
      BY <2>2, <2>3, <2>5, <2>7, <2>8, <2>9, <2>10, Give
    <2> QED
      BY <2>3, <2>11 DEF new
  <1>7. CASE ~(r.len > a.need)
    <2>1. new = [need |-> a.need - r.len, done |-> r.len = a.need, ok |-> a.ok,
                 free |-> rest, vol |-> PlusAssign(a.vol, <<r>>)]
      BY <1>7 DEF Take
    <2>2. new.ok = TRUE /\ new.need = a.need - r.len /\ new.done = (r.len = a.need)
          /\ new.free = rest /\ new.vol = PlusAssign(a.vol, <<r>>)
      BY <1>1, <2>1
    <2> HIDE DEF new, rest, r
    <2>3. new.done \in BOOLEAN /\ (new.done <=> new.need = 0) /\ r.len <= a.need
      <3>1. r.len <= a.need /\ (new.need = 0 <=> r.len = a.need)
        BY <1>1, <1>4, <1>7, <2>2
      <3>2. new.done \in BOOLEAN /\ (new.done <=> r.len = a.need)
        BY <2>2, Zenon
      <3> QED
        BY <3>1, <3>2, Zenon
    <2>4. Allocating(free, size, new)
      BY <1>3, <1>5, <2>2, <2>3, Give
    <2> QED
      BY <1>3, <2>2, <2>4 DEF new
  <1> QED
    BY <1>6, <1>7

Allocated(free, size, a) == Allocating(free, size, a) /\ a.need = 0

\* alloc_ranges gives what it was asked for, from the lowest free addresses.
LEMMA AllocFacts ==
  ASSUME NEW free, FreeList(free), NEW size \in Nat \ {0}, size <= SumLen(free)
  PROVE  Allocated(free, size, Alloc(free, size))
  <1> DEFINE n == Len(free)
  <1>1. free \in Seq(RS) /\ n \in Nat /\ SumLen(free) \in Nat
    BY ElementFacts, SumNat, RangeFacts DEF FreeList
  <1>2. PICK g : /\ Alloc(free, size) = g[n]
                 /\ g[0] = Start(free, size)
                 /\ \A k \in 1 .. n : g[k] = Turn(g[k - 1])
    BY <1>1, AllocLoop
  <1> DEFINE Fine(k) == /\ Allocating(free, size, g[k])
                        /\ g[k].done \/ Len(g[k].free) = n - k
             T == {k \in Nat : k <= n => Fine(k)}
  <1>3. 0 \in T
    <2> DEFINE s == Start(free, size)
    <2>1. /\ s.need = size /\ s.done = FALSE /\ s.ok = TRUE /\ s.free = free
          /\ s.vol = NoRanges
      BY DEF Start
    <2>2. /\ s.vol.vec = <<>> /\ s.vol.len = 0
          /\ s.vol = [vec |-> s.vol.vec, len |-> SumLen(s.vol.vec), ok |-> TRUE]
      <3> HIDE DEF s
      <3>1. s.vol = [vec |-> <<>>, len |-> 0, ok |-> TRUE]
        BY <2>1 DEF NoRanges
      <3>2. s.vol.vec = <<>> /\ s.vol.len = 0
        BY <3>1
      <3> QED
        BY <3>1, <3>2, SumEmpty, Zenon
    <2> HIDE DEF s
    <2>3. Good(s.vol)
      BY <2>2, ChainEmpty DEF Good, Vol
    <2>4. \A b : ~Has(s.vol.vec, b)
      BY <2>2, ChainEmpty DEF Has
    <2>5. Allocating(free, size, s)
      <3>1. s.done \in BOOLEAN /\ (s.done <=> s.need = 0)
        <4>1. s.need # 0
          BY <2>1
        <4> QED
          BY <2>1, <4>1, Zenon
      <3>2. s.need \in Nat /\ s.vol.len + s.need = size /\ SumLen(s.free) + size = SumLen(free) + s.need
        BY <1>1, <2>1, <2>2
      <3>3. \A i, b \in Nat : ~At(s.vol.vec, i, b)
        BY <2>2, ChainEmpty
      <3> QED
        BY <2>1, <2>3, <2>4, <3>1, <3>2, <3>3, Zenon DEF Allocating
    <2>6. Fine(0)
      BY <1>1, <1>2, <2>1, <2>5 DEF s
    <2> QED
      BY <2>6
  <1>4. ASSUME NEW k \in Nat, k \in T PROVE k + 1 \in T
    <2> SUFFICES ASSUME k + 1 <= n PROVE Fine(k + 1)
      OBVIOUS
    <2>1. k + 1 \in 1 .. n /\ k + 1 - 1 = k /\ k <= n
      BY <1>1
    <2>2. Fine(k)
      BY <1>4, <2>1
    <2>3. g[k + 1] = Turn(g[k])
      BY <1>2, <2>1
    <2>4. CASE g[k].done
      <3>1. g[k + 1] = g[k]
        <4> DEFINE u == g[k]
        <4>1. g[k + 1] = Turn(u) /\ u.done
          BY <2>3, <2>4
        <4> HIDE DEF u
        <4>2. Turn(u) = u
          BY SMTT(30), <4>1 DEF Turn
        <4> QED
          BY <4>1, <4>2 DEF u
      <3> QED
        BY <2>2, <2>4, <3>1
    <2>5. CASE ~g[k].done
      <3>1. g[k + 1] = Take(g[k])
        BY <2>3, <2>5 DEF Turn
      <3>2. /\ Allocating(free, size, g[k + 1])
            /\ g[k + 1].done \/ Len(g[k + 1].free) = Len(g[k].free) - 1
        BY <1>1, <2>2, <2>5, <3>1, TakeStep
      <3>3. n - k - 1 = n - (k + 1)
        BY <1>1
      <3> QED
        BY <2>2, <2>5, <3>2, <3>3
    <2> QED
      BY <2>4, <2>5
  <1>5. Fine(n)
    <2> HIDE DEF T
    <2>1. n \in T
      BY <1>1, <1>3, <1>4, Induct
    <2> QED
      BY <2>1 DEF T
  <1> DEFINE a == g[n]
  <1>6. a.need = 0
    <2>1. /\ a.need \in Nat /\ a.vol.len + a.need = size /\ (a.done <=> a.need = 0)
          /\ SumLen(a.free) + size = SumLen(free) + a.need /\ FreeList(a.free)
      BY <1>5 DEF Allocating
    <2>2. CASE a.done
      BY <2>1, <2>2
    <2>3. CASE ~a.done
      <3>1. Len(a.free) = 0
        BY <1>1, <1>5, <2>3
      <3>2. a.free = <<>>
        BY <2>1, <3>1, EmptySeq DEF FreeList
      <3>3. a.vol.len \in Nat
        BY <1>5, ChainFacts DEF Allocating, Good, Vol
      <3>4. 0 + size = SumLen(free) + a.need
        BY <2>1, <3>2, SumEmpty
      <3> QED
        BY <1>1, <2>1, <3>3, <3>4
    <2> QED
      BY <2>2, <2>3
  <1> QED
    BY <1>2, <1>5, <1>6 DEF Allocated

-------------------------------------------------------------------------------
(* rangepos_by_orgaddr and map_address.                                    *)

Spans(n) == {w \in (0 .. n) \X (0 .. n) : w[1] <= w[2]}

\* One probe among the ranges between w[1] and w[2].
RangeProbe(vec, a, pos, w) ==
  LET mid == (w[1] + w[2]) \div 2
      r == vec[mid + 1]
  IN  IF mid = Len(vec) THEN 0
      ELSE IF Holds(r, a) THEN mid + 1
      ELSE IF w[1] = mid THEN 0
      ELSE pos[IF a < r.org_start THEN <<w[1], mid>> ELSE <<mid + 1, w[2]>>]

\* The middle of a span lies in it.
LEMMA SpanFacts ==
  ASSUME NEW n \in Nat, NEW w \in Spans(n)
  PROVE  LET mid == (w[1] + w[2]) \div 2 IN
         /\ w[1] \in Nat /\ w[2] \in Nat /\ w[1] <= w[2] /\ w[2] <= n
         /\ mid \in Nat /\ w[1] <= mid /\ mid <= w[2]
         /\ w[1] < w[2] => mid < w[2]
         /\ w[1] # mid => /\ mid < w[2] /\ w[1] < mid
                          /\ <<w[1], mid>> \in Spans(n) /\ <<mid + 1, w[2]>> \in Spans(n)
         /\ w[1] = mid => w[2] <= mid + 1
  BY SMTT(30) DEF Spans

\* The search of rangepos_by_orgaddr, as a tail recursion.
LEMMA RangeSearch ==
  ASSUME NEW vec, Len(vec) \in Nat, NEW a
  PROVE  \E pos : /\ rangepos_by_orgaddr(vec, a) = pos[<<0, Len(vec)>>]
                  /\ \A w \in Spans(Len(vec)) : pos[w] = RangeProbe(vec, a, pos, w)
  <1> DEFINE n == Len(vec)
             W == Spans(n)
             Mid(w) == (w[1] + w[2]) \div 2
             Ends(w) == Mid(w) = n \/ Holds(vec[Mid(w) + 1], a) \/ w[1] = Mid(w)
             D == {w \in W : Ends(w)}
             V == [w \in W |-> IF Mid(w) = n THEN 0
                               ELSE IF Holds(vec[Mid(w) + 1], a) THEN Mid(w) + 1 ELSE 0]
             N == [w \in W |-> IF a < vec[Mid(w) + 1].org_start THEN <<w[1], Mid(w)>>
                               ELSE <<Mid(w) + 1, w[2]>>]
             size == [w \in W |-> w[2] - w[1]]
             top == n + 1
  <1>1. /\ top \in Nat
        /\ \A w \in W : size[w] \in Nat /\ size[w] < top
    <2>1. \A w \in W : w[1] \in Nat /\ w[2] \in Nat /\ w[1] <= w[2] /\ w[2] <= n
      BY SpanFacts
    <2>2. \A w \in W : size[w] = w[2] - w[1]
      OBVIOUS
    <2> HIDE DEF W, size
    <2> QED
      BY <2>1, <2>2
  <1>2. \A w \in W : w \notin D => N[w] \in W /\ size[N[w]] < size[w]
    <2> SUFFICES ASSUME NEW w \in W, w \notin D PROVE N[w] \in W /\ size[N[w]] < size[w]
      OBVIOUS
    <2>1. w[1] # Mid(w)
      OBVIOUS
    <2>2. /\ w[1] \in Nat /\ w[2] \in Nat /\ Mid(w) \in Nat /\ w[1] < Mid(w) /\ Mid(w) < w[2]
          /\ <<w[1], Mid(w)>> \in W /\ <<Mid(w) + 1, w[2]>> \in W
      BY <2>1, SpanFacts
    <2> HIDE DEF W, Mid
    <2> QED
      BY SMTT(30), <2>2
  <1>3. PICK f : Searches(f, W, D, V, N)
    <2> HIDE DEF W, D, V, N, size, top
    <2>1. Shrinks(W, D, N, size, top)
      BY <1>1, <1>2 DEF Shrinks
    <2> QED
      BY SMTT(30), <1>1, <2>1, TailRecursion
  <1>4. /\ f = [w \in W |-> f[w]]
        /\ \A w \in W : f[w] = IF w \in D THEN V[w] ELSE f[N[w]]
    <2> HIDE DEF W, D, V, N
    <2> QED
      BY <1>3 DEF Searches
  <1>5. \A w \in W : (IF w \in D THEN V[w] ELSE f[N[w]]) = RangeProbe(vec, a, f, w)
    <2> TAKE w \in W
    <2>1. w \in D <=> Ends(w)
      OBVIOUS
    <2>2. /\ V[w] = IF Mid(w) = n THEN 0
                    ELSE IF Holds(vec[Mid(w) + 1], a) THEN Mid(w) + 1 ELSE 0
          /\ N[w] = IF a < vec[Mid(w) + 1].org_start THEN <<w[1], Mid(w)>>
                    ELSE <<Mid(w) + 1, w[2]>>
      OBVIOUS
    <2> HIDE DEF W, D, V, N
    <2> QED
      BY <2>1, <2>2 DEF RangeProbe
  <1>6. f = [w \in W |-> RangeProbe(vec, a, f, w)]
    <2> HIDE DEF W, D, V, N
    <2>1. \A w \in W : f[w] = RangeProbe(vec, a, f, w)
      BY <1>4, <1>5, Zenon
    <2>2. [w \in W |-> f[w]] = [w \in W |-> RangeProbe(vec, a, f, w)]
      BY <2>1
    <2> QED
      BY <1>4, <2>2, Zenon
  <1>7. \E pos : pos = [w \in W |-> RangeProbe(vec, a, pos, w)]
    BY <1>6
  <1> DEFINE found == CHOOSE pos : pos = [w \in W |-> RangeProbe(vec, a, pos, w)]
  <1>8. found = [w \in W |-> RangeProbe(vec, a, found, w)]
    BY <1>7
  <1>9. rangepos_by_orgaddr(vec, a) = found[<<0, Len(vec)>>]
    BY DEF rangepos_by_orgaddr, RangeProbe, Spans
  <1> HIDE DEF found
  <1>10. \A w \in W : found[w] = RangeProbe(vec, a, found, w)
    BY <1>8, Zenon
  <1> QED
    BY <1>9, <1>10

\* The ranges of a chain hold disjoint addresses, in their order.
LEMMA HoldersOrder ==
  ASSUME NEW vec, Chain(vec), NEW k \in 1 .. Len(vec), NEW a \in Nat, Holds(vec[k], a),
         NEW i \in 1 .. Len(vec)
  PROVE  /\ i < k => a >= vec[i].org_start + vec[i].len
         /\ k < i => a < vec[i].org_start
         /\ Holds(vec[i], a) => i = k
  <1>1. /\ Len(vec) \in Nat
        /\ vec[i].org_start \in Nat /\ vec[i].len \in Nat \ {0}
        /\ vec[k].org_start \in Nat /\ vec[k].len \in Nat \ {0}
    BY ChainFacts
  <1>2. vec[k].org_start <= a /\ a < vec[k].org_start + vec[k].len
    BY DEF Holds
  <1>3. /\ i < k => vec[i].org_start + vec[i].len <= vec[k].org_start
        /\ k < i => vec[k].org_start + vec[k].len <= vec[i].org_start
    BY DEF Chain
  <1>4. i < k => a >= vec[i].org_start + vec[i].len
    BY SMTT(30), <1>1, <1>2, <1>3
  <1>5. k < i => a < vec[i].org_start
    BY SMTT(30), <1>1, <1>2, <1>3
  <1>6. i < k \/ k < i \/ i = k
    BY <1>1
  <1> QED
    BY SMTT(30), <1>1, <1>4, <1>5, <1>6 DEF Holds

\* The search finds the range that holds an address of the volume.
LEMMA RangeposIs ==
  ASSUME NEW vec, Chain(vec), NEW k \in 1 .. Len(vec), NEW a \in Nat, Holds(vec[k], a)
  PROVE  rangepos_by_orgaddr(vec, a) = k
  <1> DEFINE n == Len(vec)
  <1>0. /\ n \in Nat /\ k \in Nat \ {0} /\ k <= n
        /\ \A i \in 1 .. n : vec[i].org_start \in Nat /\ vec[i].len \in Nat \ {0}
    BY ChainFacts
  <1>1. PICK pos : /\ rangepos_by_orgaddr(vec, a) = pos[<<0, n>>]
                   /\ \A w \in Spans(n) : pos[w] = RangeProbe(vec, a, pos, w)
    BY <1>0, RangeSearch
  <1> DEFINE T == {m \in Nat : \A w \in Spans(n) :
                     w[2] - w[1] <= m /\ w[1] < k /\ k <= w[2] => pos[w] = k}
  <1>2. 0 \in T
    <2>1. \A w \in Spans(n) : w[1] \in Nat /\ w[2] \in Nat
      BY <1>0, SpanFacts
    <2>2. \A w \in Spans(n) : ~(w[2] - w[1] <= 0 /\ w[1] < k /\ k <= w[2])
      BY <1>0, <2>1
    <2> QED
      BY <2>2
  <1>3. ASSUME NEW m \in Nat, m \in T PROVE m + 1 \in T
    <2> SUFFICES ASSUME NEW w \in Spans(n), w[2] - w[1] <= m + 1, w[1] < k, k <= w[2]
                 PROVE  pos[w] = k
      OBVIOUS
    <2> DEFINE mid == (w[1] + w[2]) \div 2
               r == vec[mid + 1]
               down == <<w[1], mid>>
               up == <<mid + 1, w[2]>>
    <2>1. /\ w[1] \in Nat /\ w[2] \in Nat /\ w[1] < w[2] /\ w[2] <= n
          /\ mid \in Nat /\ w[1] <= mid /\ mid < w[2]
          /\ w[1] # mid => w[1] < mid /\ down \in Spans(n) /\ up \in Spans(n)
          /\ w[1] = mid => w[2] = mid + 1
      <3>1. w[1] \in Nat /\ w[2] \in Nat /\ w[1] < w[2]
        BY <1>0 DEF Spans
      <3>2. /\ w[2] <= n
            /\ mid \in Nat /\ w[1] <= mid /\ mid < w[2]
            /\ w[1] # mid => w[1] < mid /\ down \in Spans(n) /\ up \in Spans(n)
            /\ w[1] = mid => w[2] <= mid + 1
        BY <1>0, <3>1, SpanFacts
      <3> HIDE DEF mid, up, down
      <3> QED
        BY <3>1, <3>2
    <2>2. pos[w] = IF mid = n THEN 0
                   ELSE IF Holds(r, a) THEN mid + 1
                   ELSE IF w[1] = mid THEN 0
                   ELSE pos[IF a < r.org_start THEN down ELSE up]
      BY <1>1 DEF RangeProbe
    <2> HIDE DEF mid
    <2>3. mid # n /\ mid + 1 \in 1 .. n
      BY SMTT(30), <1>0, <2>1
    <2>4. /\ mid + 1 < k => a >= r.org_start + r.len
          /\ k < mid + 1 => a < r.org_start
          /\ Holds(r, a) => mid + 1 = k
      BY <2>3, HoldersOrder
    <2>5. r.org_start \in Nat /\ r.len \in Nat \ {0}
      BY <1>0, <2>3
    <2>6. CASE Holds(r, a)
      BY <2>2, <2>3, <2>4, <2>6
    <2>7. CASE ~Holds(r, a)
      <3>1. mid + 1 # k
        BY <2>7
      <3>2. w[1] # mid
        BY <1>0, <2>1, <3>1
      <3>3. CASE a < r.org_start
        <4>1. k <= mid
          BY SMTT(30), <1>0, <2>1, <2>4, <2>5, <3>1, <3>3
        <4>2. pos[w] = pos[down]
          BY <2>2, <2>3, <2>7, <3>2, <3>3
        <4>3. down \in Spans(n) /\ down[1] = w[1] /\ down[2] = mid /\ mid - w[1] <= m
          BY SMTT(30), <2>1, <3>2
        <4>4. pos[down] = k
          BY <1>3, <4>1, <4>3
        <4> QED
          BY <4>2, <4>4
      <3>4. CASE ~(a < r.org_start)
        <4>1. mid + 1 < k
          BY SMTT(30), <1>0, <2>1, <2>4, <2>5, <3>1, <3>4
        <4>2. pos[w] = pos[up]
          BY <2>2, <2>3, <2>7, <3>2, <3>4
        <4>3. up \in Spans(n) /\ up[1] = mid + 1 /\ up[2] = w[2] /\ w[2] - (mid + 1) <= m
          BY SMTT(30), <2>1, <3>2
        <4>4. pos[up] = k
          BY <1>3, <4>1, <4>3
        <4> QED
          BY <4>2, <4>4
      <3> QED
        BY <3>3, <3>4
    <2> QED
      BY <2>6, <2>7
  <1>4. n \in T
    <2> HIDE DEF T
    <2> QED
      BY <1>0, <1>2, <1>3, Induct
  <1>5. <<0, n>> \in Spans(n) /\ n - 0 <= n
    BY <1>0 DEF Spans
  <1>6. pos[<<0, n>>] = k
    BY SMTT(30), <1>0, <1>4, <1>5
  <1> QED
    BY <1>1, <1>6

\* The address is found where the volume has it.
LEMMA AddressIs ==
  ASSUME NEW vec, Chain(vec), NEW i \in Nat, i < SumLen(vec)
  PROVE  /\ rangepos_by_orgaddr(vec, i) \in 1 .. Len(vec)
         /\ Holds(vec[rangepos_by_orgaddr(vec, i)], i)
         /\ map_address(vec, i) \in Nat
         /\ \A a \in Nat : At(vec, i, a) <=> a = map_address(vec, i)
  <1>1. PICK k \in 1 .. Len(vec) : Holds(vec[k], i)
    BY DEF Chain
  <1>2. rangepos_by_orgaddr(vec, i) = k
    BY <1>1, RangeposIs
  <1> DEFINE r == vec[k]
             b == map_address(vec, i)
  <1>3. r.org_start \in Nat /\ r.start \in Nat /\ r.len \in Nat \ {0}
    BY ChainFacts
  <1>4. b = i + r.start - r.org_start
    BY <1>2 DEF map_address
  <1>5. r.org_start <= i
    BY <1>1 DEF Holds
  <1> HIDE DEF b
  <1>6. b \in Nat /\ \A a \in Nat : a + r.org_start = r.start + i <=> a = b
    <2> DEFINE o == r.org_start
               s == r.start
    <2>1. o \in Nat /\ s \in Nat /\ o <= i /\ b = i + s - o
      BY <1>3, <1>4, <1>5
    <2> HIDE DEF o, s
    <2>2. b \in Nat /\ \A a \in Nat : a + o = s + i <=> a = b
      BY <2>1
    <2> QED
      BY <2>2 DEF o, s
  <1>7. \A a \in Nat : At(vec, i, a) <=> On(r, i, a)
    <2>1. \A j \in 1 .. Len(vec), a \in Nat : On(vec[j], i, a) => j = k
      BY <1>1, HoldersOrder DEF On
    <2> QED
      BY <2>1 DEF At
  <1>8. \A a \in Nat : At(vec, i, a) <=> a = b
    BY <1>1, <1>6, <1>7 DEF On
  <1> QED
    BY <1>1, <1>2, <1>6, <1>8 DEF b

-------------------------------------------------------------------------------
(* map_section.                                                            *)

\* A list that ends in the windows of D and is C[w] and the list of the window N[w]
\* in the others.
Lists(f, W, D, C, N) ==
  /\ f = [w \in W |-> f[w]]
  /\ \A w \in W : f[w] = IF w \in D THEN <<>> ELSE C[w] \o f[N[w]]

\* A recursion that lists one element in every turn.
LEMMA ListRecursion ==
  ASSUME NEW W, NEW D, NEW C, NEW N, NEW size, NEW top \in Nat, Shrinks(W, D, N, size, top)
  PROVE  \E f : Lists(f, W, D, C, N)
  <1> DEFINE Upto(f, n) == \A w \in W : size[w] < n =>
                             f[w] = IF w \in D THEN <<>> ELSE C[w] \o f[N[w]]
             Exists(n) == \E f : Upto(f, n)
             T == {n \in Nat : Exists(n)}
  <1> USE DEF Shrinks
  <1>1. 0 \in T
    BY DEF Upto
  <1>2. ASSUME NEW n \in Nat, n \in T PROVE n + 1 \in T
    <2> PICK f : Upto(f, n)
      BY <1>2
    <2> DEFINE g == [w \in W |-> IF w \in D THEN <<>> ELSE C[w] \o f[N[w]]]
    <2>1. \A w \in W : g[w] = IF w \in D THEN <<>> ELSE C[w] \o f[N[w]]
      OBVIOUS
    <2> HIDE DEF g
    <2>2. \A w \in W : size[w] < n => g[w] = f[w]
      BY <2>1
    <2>3. \A w \in W : size[w] < n + 1 /\ w \notin D => g[N[w]] = f[N[w]]
      <3> TAKE w \in W
      <3> SUFFICES ASSUME size[w] < n + 1, w \notin D PROVE g[N[w]] = f[N[w]]
        OBVIOUS
      <3>1. N[w] \in W /\ size[N[w]] < size[w] /\ size[N[w]] \in Nat /\ size[w] \in Nat
        OBVIOUS
      <3>2. size[N[w]] < n
        BY <3>1
      <3> QED
        BY <2>2, <3>1, <3>2
    <2>4. Upto(g, n + 1)
      BY <2>1, <2>3
    <2>5. Exists(n + 1)
      BY <2>4
    <2> HIDE DEF Exists
    <2> QED
      BY <2>5
  <1>3. top \in T
    <2> HIDE DEF T
    <2> QED
      BY <1>1, <1>2, Induct
  <1>4. PICK f : Upto(f, top)
    BY <1>3
  <1> DEFINE g == [w \in W |-> f[w]]
  <1>5. \A w \in W : g[w] = f[w]
    OBVIOUS
  <1>6. g = [w \in W |-> g[w]]
    OBVIOUS
  <1> HIDE DEF g
  <1>7. \A w \in W : g[w] = IF w \in D THEN <<>> ELSE C[w] \o g[N[w]]
    BY <1>4, <1>5
  <1> QED
    BY <1>6, <1>7 DEF Lists

\* Where the part of the section in range r starts and ends, in the volume.
Lo(r, s) == IF s > r.org_start THEN s ELSE r.org_start
Hi(r, s, l) == IF s + l < r.org_start + r.len THEN s + l ELSE r.org_start + r.len

\* A piece, by its ends.
LEMMA PieceIs ==
  ASSUME NEW r, NEW s, NEW l
  PROVE  /\ Piece(r, s, l).start = Lo(r, s) + r.start - r.org_start
         /\ Piece(r, s, l).len = Hi(r, s, l) - Lo(r, s)
  BY DEF Piece, Lo, Hi

\* The list of map_section, from range p[1] on, p[2] addresses being covered.
Rest(vec, s, l, from, p) ==
  IF p[2] = l \/ p[1] > Len(vec) THEN <<>>
  ELSE <<Piece(vec[p[1]], s, l)>> \o from[<<p[1] + 1, p[2] + Piece(vec[p[1]], s, l).len>>]

\* The loop of map_section, as such a recursion.
LEMMA SectionLoop ==
  ASSUME NEW vec \in Seq(RS), NEW s \in Nat, NEW l \in Nat
  PROVE  \E from : /\ map_section(vec, s, l) = from[<<rangepos_by_orgaddr(vec, s), 0>>]
                   /\ \A p \in (1 .. Len(vec) + 1) \X Int : from[p] = Rest(vec, s, l, from, p)
  <1> DEFINE n == Len(vec)
             W == (1 .. n + 1) \X Int
             Ends(p) == p[2] = l \/ p[1] > n
             D == {p \in W : Ends(p)}
             C == [p \in W |-> <<Piece(vec[p[1]], s, l)>>]
             N == [p \in W |-> <<p[1] + 1, p[2] + Piece(vec[p[1]], s, l).len>>]
             size == [p \in W |-> (n + 1) - p[1]]
             top == n + 2
  <1>0. n \in Nat
    BY ElementFacts
  <1>1. /\ top \in Nat
        /\ \A p \in W : size[p] \in Nat /\ size[p] < top
    BY <1>0
  <1>2. \A p \in W : p \notin D => N[p] \in W /\ size[N[p]] < size[p]
    <2> SUFFICES ASSUME NEW p \in W, p \notin D PROVE N[p] \in W /\ size[N[p]] < size[p]
      OBVIOUS
    <2>1. p[1] \in 1 .. n /\ p[2] \in Int /\ p[1] + 1 \in 1 .. n + 1
      BY <1>0
    <2> DEFINE r == vec[p[1]]
               plen == Piece(r, s, l).len
    <2>2. r.org_start \in Nat /\ r.len \in Nat
      BY <2>1, VecFacts
    <2>3. plen \in Int
      <3> HIDE DEF r
      <3>1. Lo(r, s) \in Int /\ Hi(r, s, l) \in Int
        BY <2>2 DEF Lo, Hi
      <3> QED
        BY <3>1, PieceIs
    <2>4. N[p] = <<p[1] + 1, p[2] + plen>>
      OBVIOUS
    <2> HIDE DEF plen, N
    <2>5. N[p] \in W /\ N[p][1] = p[1] + 1
      BY <2>1, <2>3, <2>4
    <2>6. size[N[p]] = (n + 1) - (p[1] + 1) /\ size[p] = (n + 1) - p[1]
      <3>1. \A q \in W : size[q] = (n + 1) - q[1]
        OBVIOUS
      <3> HIDE DEF size, W
      <3> QED
        BY <2>5, <3>1
    <2> HIDE DEF size, W
    <2> QED
      BY <1>0, <2>1, <2>5, <2>6
  <1>3. PICK f : Lists(f, W, D, C, N)
    <2> HIDE DEF W, D, C, N, size, top
    <2>1. Shrinks(W, D, N, size, top)
      BY <1>1, <1>2 DEF Shrinks
    <2> QED
      BY <1>1, <2>1, ListRecursion
  <1>4. /\ f = [p \in W |-> f[p]]
        /\ \A p \in W : f[p] = IF p \in D THEN <<>> ELSE C[p] \o f[N[p]]
    <2> HIDE DEF W, D, C, N
    <2> QED
      BY <1>3 DEF Lists
  <1>5. \A p \in W : (IF p \in D THEN <<>> ELSE C[p] \o f[N[p]]) = Rest(vec, s, l, f, p)
    <2> TAKE p \in W
    <2>1. p \in D <=> Ends(p)
      OBVIOUS
    <2>2. /\ C[p] = <<Piece(vec[p[1]], s, l)>>
          /\ N[p] = <<p[1] + 1, p[2] + Piece(vec[p[1]], s, l).len>>
      OBVIOUS
    <2> HIDE DEF W, D, C, N
    <2> QED
      BY <2>1, <2>2 DEF Rest
  <1>6. f = [p \in W |-> Rest(vec, s, l, f, p)]
    <2> HIDE DEF W, D, C, N
    <2>1. \A p \in W : f[p] = Rest(vec, s, l, f, p)
      BY <1>4, <1>5, Zenon
    <2>2. [p \in W |-> f[p]] = [p \in W |-> Rest(vec, s, l, f, p)]
      BY <2>1
    <2> QED
      BY <1>4, <2>2, Zenon
  <1>7. \E from : from = [p \in W |-> Rest(vec, s, l, from, p)]
    BY <1>6
  <1> DEFINE found == CHOOSE from : from = [p \in W |-> Rest(vec, s, l, from, p)]
  <1>8. found = [p \in W |-> Rest(vec, s, l, found, p)]
    BY <1>7
  <1>9. map_section(vec, s, l) = found[<<rangepos_by_orgaddr(vec, s), 0>>]
    BY DEF map_section, Rest
  <1> HIDE DEF found
  <1>10. \A p \in W : found[p] = Rest(vec, s, l, found, p)
    BY <1>8, Zenon
  <1> QED
    BY <1>9, <1>10

\* The ranges from j to k hold the section of l addresses from s.
Spanned(vec, s, l, j, k) ==
  /\ j \in 1 .. Len(vec) /\ k \in 1 .. Len(vec) /\ j <= k
  /\ Holds(vec[j], s) /\ Holds(vec[k], s + l - 1)
  /\ \A p \in j .. k :
       /\ p \in 1 .. Len(vec)
       /\ Lo(vec[p], s) \in Nat /\ Hi(vec[p], s, l) \in Nat
       /\ s <= Lo(vec[p], s) /\ Lo(vec[p], s) < Hi(vec[p], s, l) /\ Hi(vec[p], s, l) <= s + l
       /\ vec[p].org_start <= Lo(vec[p], s)
       /\ p # k => Hi(vec[p], s, l) = Lo(vec[p + 1], s)
  /\ Lo(vec[j], s) = s /\ Hi(vec[k], s, l) = s + l

\* The section within a chain lies on the ranges from j to k.
LEMMA SpanExists ==
  ASSUME NEW vec, Chain(vec), NEW s \in Nat, NEW l \in Nat \ {0}, s + l <= SumLen(vec)
  PROVE  \E j, k : Spanned(vec, s, l, j, k)
  <1> DEFINE n == Len(vec)
             e == s + l - 1
  <1>0. /\ n \in Nat /\ SumLen(vec) \in Nat
        /\ \A i \in 1 .. n : vec[i].org_start \in Nat /\ vec[i].len \in Nat \ {0}
    BY ChainFacts
  <1>1. PICK j \in 1 .. n : Holds(vec[j], s)
    <2>1. s < SumLen(vec)
      BY <1>0
    <2> QED
      BY <2>1 DEF Chain
  <1>2. e \in Nat /\ e < SumLen(vec) /\ s <= e /\ s + l = e + 1
    BY <1>0
  <1>3. PICK k \in 1 .. n : Holds(vec[k], e)
    BY <1>2 DEF Chain
  <1> HIDE DEF e
  <1>4. vec[j].org_start <= s /\ s < vec[j].org_start + vec[j].len
        /\ vec[k].org_start <= e /\ e < vec[k].org_start + vec[k].len
    BY <1>1, <1>3 DEF Holds
  <1>5. j <= k
    <2>1. k < j => s >= vec[k].org_start + vec[k].len
      BY <1>1, HoldersOrder
    <2> QED
      BY SMTT(30), <1>0, <1>2, <1>4, <2>1
  <1>6. \A p \in 1 .. n : /\ Lo(vec[p], s) = IF s > vec[p].org_start THEN s ELSE vec[p].org_start
                          /\ Hi(vec[p], s, l) = IF e + 1 < vec[p].org_start + vec[p].len THEN e + 1
                                                ELSE vec[p].org_start + vec[p].len
    BY <1>2 DEF Lo, Hi
  <1>7. Lo(vec[j], s) = s /\ Hi(vec[k], s, l) = s + l
    <2>1. Lo(vec[j], s) = IF s > vec[j].org_start THEN s ELSE vec[j].org_start
      BY <1>6
    <2>2. Hi(vec[k], s, l) = IF e + 1 < vec[k].org_start + vec[k].len THEN e + 1
                             ELSE vec[k].org_start + vec[k].len
      BY <1>6
    <2>3. /\ vec[j].org_start \in Nat
          /\ vec[k].org_start \in Nat /\ vec[k].len \in Nat \ {0}
      BY <1>0
    <2>4. Lo(vec[j], s) = s
      BY <1>4, <2>1, <2>3
    <2>5. Hi(vec[k], s, l) = e + 1
      <3> DEFINE z == vec[k].org_start + vec[k].len
      <3>1. z \in Nat /\ e < z
        BY <1>4, <2>3
      <3>2. Hi(vec[k], s, l) = IF e + 1 < z THEN e + 1 ELSE z
        BY <2>2
      <3> HIDE DEF z
      <3> QED
        BY <1>2, <3>1, <3>2
    <2> QED
      BY <1>2, <2>4, <2>5
  <1>8. ASSUME NEW p \in j .. k
        PROVE  /\ p \in 1 .. Len(vec)
               /\ Lo(vec[p], s) \in Nat /\ Hi(vec[p], s, l) \in Nat
               /\ s <= Lo(vec[p], s) /\ Lo(vec[p], s) < Hi(vec[p], s, l)
               /\ Hi(vec[p], s, l) <= s + l
               /\ vec[p].org_start <= Lo(vec[p], s)
               /\ p # k => Hi(vec[p], s, l) = Lo(vec[p + 1], s)
    <2>1. p \in 1 .. n
      BY <1>0
    <2> DEFINE o == vec[p].org_start
               m == vec[p].len
    <2>2. o \in Nat /\ m \in Nat \ {0}
      BY <1>0, <2>1
    <2>3. s < o + m
      <3>1. CASE j < p
        <4>1. s < o
          BY <1>1, <2>1, <3>1, HoldersOrder
        <4> QED
          BY SMTT(30), <2>2, <4>1
      <3>2. CASE j = p
        BY <1>4, <3>2
      <3> QED
        BY <3>1, <3>2
    <2>4. o <= e
      <3>1. CASE p < k
        <4>1. e >= o + m
          BY <1>2, <1>3, <2>1, <3>1, HoldersOrder
        <4> QED
          BY <1>2, <2>2, <4>1
      <3>2. CASE p = k
        BY <1>4, <3>2
      <3> QED
        BY <1>0, <3>1, <3>2
    <2>5. /\ Lo(vec[p], s) = IF s > o THEN s ELSE o
          /\ Hi(vec[p], s, l) = IF e + 1 < o + m THEN e + 1 ELSE o + m
      BY <1>6, <2>1
    <2>6. p # k => Hi(vec[p], s, l) = Lo(vec[p + 1], s)
      <3> SUFFICES ASSUME p # k PROVE Hi(vec[p], s, l) = Lo(vec[p + 1], s)
        OBVIOUS
      <3>1. p + 1 \in 1 .. n /\ p < k /\ j < p + 1
        BY <1>0
      <3>2. e >= o + m
        BY <1>2, <1>3, <2>1, <3>1, HoldersOrder
      <3>3. s < vec[p + 1].org_start /\ vec[p + 1].org_start \in Nat
        BY <1>0, <1>1, <3>1, HoldersOrder
      <3>4. o + m = vec[p + 1].org_start
        BY <2>1, <3>1 DEF Chain
      <3>5. Lo(vec[p + 1], s) = vec[p + 1].org_start
        BY SMTT(30), <1>6, <3>1, <3>3
      <3> HIDE DEF o, m
      <3>6. Hi(vec[p], s, l) = o + m
        BY <1>2, <2>2, <2>5, <3>2
      <3> QED
        BY <3>4, <3>5, <3>6
    <2> HIDE DEF o, m
    <2>7. /\ Lo(vec[p], s) \in Nat /\ Hi(vec[p], s, l) \in Nat
          /\ s <= Lo(vec[p], s) /\ Lo(vec[p], s) < Hi(vec[p], s, l)
          /\ Hi(vec[p], s, l) <= s + l
          /\ o <= Lo(vec[p], s)
      BY <1>2, <2>2, <2>3, <2>4, <2>5
    <2> QED
      BY <2>1, <2>6, <2>7 DEF o
  <1>9. Spanned(vec, s, l, j, k)
    BY <1>1, <1>3, <1>5, <1>7, <1>8 DEF Spanned, e
  <1> QED
    BY <1>9

Sections == [start : Nat, len : Nat \ {0}]

\* The list is the pieces of the ranges from p to k.
Pieces(vec, s, l, p, k, list) ==
  /\ list \in Seq(Sections)
  /\ Len(list) = k - p + 1
  /\ \A i \in 1 .. Len(list) : list[i] = Piece(vec[p + i - 1], s, l)

\* The pieces are sections of the pool, and what they hold together.
LEMMA PieceFacts ==
  ASSUME NEW vec, Chain(vec), NEW s \in Nat, NEW l \in Nat, NEW j, NEW k,
         Spanned(vec, s, l, j, k), NEW p \in j .. k
  PROVE  /\ Piece(vec[p], s, l) \in Sections
         /\ Piece(vec[p], s, l).len = Hi(vec[p], s, l) - Lo(vec[p], s)
         /\ Piece(vec[p], s, l).start = Lo(vec[p], s) + vec[p].start - vec[p].org_start
         /\ vec[p].start \in Nat /\ vec[p].org_start \in Nat
  <1> DEFINE r == vec[p]
             piece == Piece(r, s, l)
             lo == Lo(r, s)
             hi == Hi(r, s, l)
  <1>1. /\ p \in 1 .. Len(vec) /\ lo \in Nat /\ hi \in Nat /\ lo < hi /\ r.org_start <= lo
    BY DEF Spanned
  <1>2. r.start \in Nat /\ r.org_start \in Nat
    BY <1>1, ChainFacts
  <1> HIDE DEF r, lo, hi
  <1>3. /\ piece = [start |-> lo + r.start - r.org_start, len |-> hi - lo]
        /\ piece.start = lo + r.start - r.org_start /\ piece.len = hi - lo
    BY DEF Piece, Lo, Hi, lo, hi
  <1>4. lo + r.start - r.org_start \in Nat /\ hi - lo \in Nat \ {0}
    BY SMTT(30), <1>1, <1>2
  <1> HIDE DEF piece
  <1>5. piece \in Sections
    BY <1>3, <1>4 DEF Sections
  <1> QED
    BY <1>2, <1>3, <1>5 DEF piece, lo, hi, r

\* map_section returns them all.
LEMMA MapSectionIs ==
  ASSUME NEW vec, Chain(vec), NEW s \in Nat, NEW l \in Nat \ {0}, NEW j, NEW k,
         Spanned(vec, s, l, j, k)
  PROVE  Pieces(vec, s, l, j, k, map_section(vec, s, l))
  <1> DEFINE n == Len(vec)
             W == (1 .. n + 1) \X Int
  <1>0. /\ n \in Nat /\ vec \in Seq(RS) /\ j \in 1 .. n /\ k \in 1 .. n /\ j <= k
        /\ l \in Nat /\ l # 0
    BY ChainFacts DEF Spanned
  <1>1. PICK from : /\ map_section(vec, s, l) = from[<<rangepos_by_orgaddr(vec, s), 0>>]
                    /\ \A p \in W : from[p] = Rest(vec, s, l, from, p)
    BY SMTT(30), <1>0, SectionLoop
  <1>2. rangepos_by_orgaddr(vec, s) = j
    BY RangeposIs DEF Spanned
  <1> DEFINE lo(p) == Lo(vec[p], s)
             hi(p) == Hi(vec[p], s, l)
             T == {m \in Nat : m <= k - j =>
                     Pieces(vec, s, l, k - m, k, from[<<k - m, lo(k - m) - s>>])}
  <1>3. ASSUME NEW p \in j .. k
        PROVE  LET piece == Piece(vec[p], s, l) IN
               /\ p \in 1 .. n /\ p + 1 \in 1 .. n + 1
               /\ piece \in Sections /\ piece.len = hi(p) - lo(p)
               /\ lo(p) \in Nat /\ hi(p) \in Nat /\ s <= lo(p) /\ lo(p) < hi(p) /\ hi(p) <= s + l
               /\ <<p, lo(p) - s>> \in W /\ <<p + 1, hi(p) - s>> \in W
               /\ from[<<p, lo(p) - s>>] = <<piece>> \o from[<<p + 1, hi(p) - s>>]
    <2> DEFINE piece == Piece(vec[p], s, l)
               x == lo(p)
               y == hi(p)
    <2>1. p \in 1 .. n /\ p + 1 \in 1 .. n + 1
      BY <1>0
    <2>2. /\ x \in Nat /\ y \in Nat /\ s <= x /\ x < y /\ y <= s + l
      BY DEF Spanned
    <2>3. piece \in Sections /\ piece.len = y - x
      <3>1. /\ Piece(vec[p], s, l) \in Sections
            /\ Piece(vec[p], s, l).len = Hi(vec[p], s, l) - Lo(vec[p], s)
        <4> HIDE DEF piece, x, y
        <4> QED
          BY <1>0, PieceFacts
      <3> QED
        BY <3>1
    <2> HIDE DEF x, y, piece
    <2>4. /\ <<p, x - s>> \in W /\ <<p + 1, y - s>> \in W
          /\ x - s # l /\ ~(p > n) /\ x - s + piece.len = y - s
      BY SMTT(30), <1>0, <2>1, <2>2, <2>3
    <2>5. from[<<p, x - s>>] = Rest(vec, s, l, from, <<p, x - s>>)
      BY <1>1, <2>4
    <2>6. Rest(vec, s, l, from, <<p, x - s>>)
            = <<piece>> \o from[<<p + 1, x - s + piece.len>>]
      BY <2>4 DEF Rest, piece
    <2>7. from[<<p, x - s>>] = <<piece>> \o from[<<p + 1, y - s>>]
      BY <2>4, <2>5, <2>6
    <2> QED
      BY <2>1, <2>2, <2>3, <2>4, <2>7 DEF x, y, piece
  <1> HIDE DEF lo, hi
  <1>4. ASSUME NEW p \in j .. k, NEW tail, Pieces(vec, s, l, p + 1, k, tail)
        PROVE  Pieces(vec, s, l, p, k, <<Piece(vec[p], s, l)>> \o tail)
    <2> DEFINE piece == Piece(vec[p], s, l)
               list == <<piece>> \o tail
    <2>1. piece \in Sections /\ p \in Nat /\ k \in Nat
      <3>1. piece \in Sections
        BY <1>3
      <3> QED
        BY <1>0, <3>1
    <2>2. /\ tail \in Seq(Sections) /\ Len(tail) = k - p
          /\ \A i \in 1 .. Len(tail) : tail[i] = Piece(vec[p + 1 + i - 1], s, l)
      <3>1. /\ tail \in Seq(Sections) /\ Len(tail) = k - (p + 1) + 1
            /\ \A i \in 1 .. Len(tail) : tail[i] = Piece(vec[p + 1 + i - 1], s, l)
        BY <1>4, Zenon DEF Pieces
      <3>2. k - (p + 1) + 1 = k - p
        BY <2>1
      <3> QED
        BY <3>1, <3>2, Zenon
    <2> HIDE DEF piece
    <2>3. <<piece>> \in Seq(Sections) /\ Len(<<piece>>) = 1 /\ <<piece>>[1] = piece
      BY <2>1
    <2>4. /\ list \in Seq(Sections) /\ Len(list) = Len(<<piece>>) + Len(tail)
          /\ \A i \in 1 .. Len(<<piece>>) + Len(tail) :
               list[i] = IF i <= Len(<<piece>>) THEN <<piece>>[i] ELSE tail[i - Len(<<piece>>)]
      BY <2>2, <2>3, ConcatProperties
    <2>5. Len(list) = k - p + 1
      BY <1>0, <2>1, <2>2, <2>3, <2>4
    <2>6. ASSUME NEW i \in 1 .. Len(list) PROVE list[i] = Piece(vec[p + i - 1], s, l)
      <3>1. CASE i = 1
        <4>1. p + i - 1 = p /\ list[i] = piece
          BY <2>1, <2>2, <2>3, <2>4, <3>1
        <4> QED
          BY <4>1 DEF piece
      <3>2. CASE i # 1
        <4>1. i - 1 \in 1 .. Len(tail) /\ p + 1 + (i - 1) - 1 = p + i - 1
          BY <1>0, <2>1, <2>2, <2>5, <3>2
        <4>2. list[i] = tail[i - 1]
          BY <2>2, <2>3, <2>4, <3>2, <1>0, <2>1
        <4> QED
          BY <2>2, <4>1, <4>2
      <3> QED
        BY <3>1, <3>2
    <2> QED
      BY <2>4, <2>5, <2>6 DEF Pieces, piece
  <1>5. 0 \in T
    <2>1. k - 0 = k /\ k \in j .. k
      BY <1>0
    <2>2. hi(k) - s = l
      <3>1. hi(k) = s + l
        BY DEF Spanned, hi
      <3> QED
        BY <1>0, <3>1
    <2>3. from[<<k + 1, l>>] = <<>>
      <3>1. <<k + 1, l>> \in W
        BY <1>0
      <3> QED
        BY <1>1, <3>1 DEF Rest
    <2>4. from[<<k, lo(k) - s>>] = <<Piece(vec[k], s, l)>> \o <<>>
      BY <1>3, <2>1, <2>2, <2>3
    <2>5. Pieces(vec, s, l, k + 1, k, <<>>)
      <3>1. <<>> \in Seq(Sections) /\ Len(<<>>) = 0 /\ k - (k + 1) + 1 = 0
        BY <1>0, EmptySeq
      <3> QED
        BY <3>1 DEF Pieces
    <2>6. Pieces(vec, s, l, k, k, from[<<k, lo(k) - s>>])
      BY <1>4, <2>1, <2>4, <2>5
    <2> QED
      BY <2>1, <2>6
  <1>6. ASSUME NEW m \in Nat, m \in T PROVE m + 1 \in T
    <2> SUFFICES ASSUME m + 1 <= k - j
                 PROVE  Pieces(vec, s, l, k - (m + 1), k, from[<<k - (m + 1), lo(k - (m + 1)) - s>>])
      OBVIOUS
    <2> DEFINE p == k - (m + 1)
    <2>1. p \in j .. k /\ p + 1 = k - m /\ m <= k - j /\ p # k
      BY <1>0
    <2>2. Pieces(vec, s, l, k - m, k, from[<<k - m, lo(k - m) - s>>])
      BY <1>6, <2>1
    <2> HIDE DEF p
    <2>3. Pieces(vec, s, l, p + 1, k, from[<<p + 1, lo(p + 1) - s>>])
      BY <2>1, <2>2
    <2>4. hi(p) = lo(p + 1)
      BY <2>1 DEF Spanned, hi, lo
    <2>5. from[<<p, lo(p) - s>>] = <<Piece(vec[p], s, l)>> \o from[<<p + 1, lo(p + 1) - s>>]
      BY <1>3, <2>1, <2>4
    <2>6. Pieces(vec, s, l, p, k, from[<<p, lo(p) - s>>])
      BY <1>4, <2>1, <2>3, <2>5
    <2> QED
      BY <2>6 DEF p
  <1>7. k - j \in Nat /\ k - (k - j) = j
    BY <1>0
  <1>8. k - j \in T
    <2> HIDE DEF T
    <2> QED
      BY <1>5, <1>6, <1>7, Induct
  <1>9. Pieces(vec, s, l, j, k, from[<<j, lo(j) - s>>])
    BY <1>7, <1>8
  <1>10. lo(j) - s = 0
    BY DEF Spanned, lo
  <1> QED
    BY <1>1, <1>2, <1>9, <1>10

\* The sum before an element.
LEMMA PrefixStep ==
  ASSUME NEW S, \A x \in S : x.len \in Nat, NEW list \in Seq(S), NEW m \in 1 .. Len(list),
         NEW before, before = m - 1
  PROVE  SumLen(SubSeq(list, 1, m)) = SumLen(SubSeq(list, 1, before)) + list[m].len
  <1>1. Len(list) \in Nat /\ list[m] \in S /\ before \in Nat
        /\ \A i \in 1 .. Len(list) : list[i] \in S
    BY ElementFacts
  <1>2. SubSeq(list, 1, m) = SubSeq(list, 1, before) \o <<list[m]>>
    <2>1. 1 \in 1 .. Len(list) /\ m \in 1 .. Len(list)
      BY <1>1
    <2>2. SubSeq(list, 1, m) = SubSeq(list, 1, m - 1) \o <<list[m]>>
      BY <2>1, SubSeqRecursiveSecond
    <2> QED
      BY <2>2
  <1>3. SubSeq(list, 1, before) \in Seq(S)
    <2>1. \A i \in 1 .. before : list[i] \in S
      BY <1>1
    <2>2. 1 \in Int /\ before \in Int
      BY <1>1
    <2> QED
      BY <2>1, <2>2, SubSeqProperties
  <1>4. <<list[m]>> \in Seq(S)
    BY <1>1
  <1>5. SumLen(SubSeq(list, 1, before) \o <<list[m]>>)
          = SumLen(SubSeq(list, 1, before)) + SumLen(<<list[m]>>)
    BY <1>3, <1>4, SumConcat
  <1>6. SumLen(<<list[m]>>) = list[m].len
    BY <1>1, SumOne
  <1> QED
    BY <1>2, <1>5, <1>6

\* Sums of equal lengths are equal.
LEMMA SumSame ==
  ASSUME NEW v, NEW w, Len(v) \in Nat, Len(w) = Len(v),
         \A i \in 1 .. Len(v) : v[i].len = w[i].len
  PROVE  SumLen(v) = SumLen(w)
  <1> DEFINE n == Len(v)
  <1>1. PICK f : /\ SumLen(v) = f[n] /\ f[0] = 0
                 /\ \A i \in 1 .. n : f[i] = f[i - 1] + v[i].len
    BY SumLoop
  <1>2. PICK g : /\ SumLen(w) = g[n] /\ g[0] = 0
                 /\ \A i \in 1 .. n : g[i] = g[i - 1] + w[i].len
    BY SumLoop
  <1> DEFINE T == {m \in Nat : m <= n => f[m] = g[m]}
  <1>3. 0 \in T
    BY <1>1, <1>2
  <1>4. ASSUME NEW m \in Nat, m \in T PROVE m + 1 \in T
    <2> SUFFICES ASSUME m + 1 <= n PROVE f[m + 1] = g[m + 1]
      OBVIOUS
    <2>1. m + 1 \in 1 .. n /\ m + 1 - 1 = m /\ m <= n
      OBVIOUS
    <2> QED
      BY <1>1, <1>2, <1>4, <2>1
  <1>5. n \in T
    <2> HIDE DEF T
    <2> QED
      BY <1>3, <1>4, Induct
  <1> QED
    BY <1>1, <1>2, <1>5

\* What was cut before a piece is what lies before it.
Summed(vec, s, l, j, secs) ==
  /\ \A i \in 1 .. Len(secs) : SumLen(SubSeq(secs, 1, i - 1)) = Lo(vec[j + i - 1], s) - s
  /\ SumLen(secs) = l

LEMMA PieceSums ==
  ASSUME NEW vec, Chain(vec), NEW s \in Nat, NEW l \in Nat \ {0}, NEW j, NEW k,
         Spanned(vec, s, l, j, k), NEW secs, Pieces(vec, s, l, j, k, secs)
  PROVE  Summed(vec, s, l, j, secs)
  <1> DEFINE n == Len(secs)
             Sum(m) == SumLen(SubSeq(secs, 1, m))
             lo(p) == Lo(vec[p], s)
             hi(p) == Hi(vec[p], s, l)
             T == {m \in Nat : m < n => Sum(m) = lo(j + m) - s}
  <1>0. /\ j \in Nat /\ k \in Nat /\ j <= k /\ n = k - j + 1 /\ n \in Nat \ {0}
        /\ secs \in Seq(Sections) /\ \A x \in Sections : x.len \in Nat
        /\ l \in Nat
    BY DEF Spanned, Pieces, Sections
  <1>1. ASSUME NEW m \in Nat, m < n
        PROVE  /\ secs[m + 1].len = hi(j + m) - lo(j + m)
               /\ lo(j + m) \in Nat /\ hi(j + m) \in Nat
               /\ j + m # k => hi(j + m) = lo(j + m + 1)
    <2>1. m + 1 \in 1 .. n /\ j + (m + 1) - 1 = j + m /\ j + m \in j .. k
      BY <1>0, <1>1
    <2>2. secs[m + 1] = Piece(vec[j + m], s, l)
      BY <2>1 DEF Pieces
    <2>3. secs[m + 1].len = hi(j + m) - lo(j + m)
      BY <1>0, <2>1, <2>2, PieceIs
    <2>4. /\ lo(j + m) \in Nat /\ hi(j + m) \in Nat
          /\ j + m # k => hi(j + m) = lo(j + m + 1)
      BY <2>1 DEF Spanned
    <2> QED
      BY <2>3, <2>4
  <1>2. ASSUME NEW m \in Nat, m < n PROVE Sum(m + 1) = Sum(m) + secs[m + 1].len
    <2>1. m + 1 \in 1 .. Len(secs) /\ m = m + 1 - 1
      BY <1>0, <1>2
    <2> DEFINE at == m + 1
    <2> HIDE DEF at
    <2>2. at \in 1 .. Len(secs) /\ m = at - 1
      BY <2>1 DEF at
    <2>3. SumLen(SubSeq(secs, 1, at)) = SumLen(SubSeq(secs, 1, m)) + secs[at].len
      BY <1>0, <2>2, PrefixStep
    <2> QED
      BY <2>3 DEF at
  <1>3. 0 \in T
    <2>1. SubSeq(secs, 1, 0) = <<>>
      BY SubSeqEmpty
    <2>2. lo(j + 0) - s = 0
      <3>1. j + 0 = j
        BY <1>0
      <3> QED
        BY <3>1 DEF Spanned
    <2> QED
      BY <2>1, <2>2, SumEmpty
  <1> HIDE DEF lo, hi, Sum
  <1>4. ASSUME NEW m \in Nat, m \in T PROVE m + 1 \in T
    <2> SUFFICES ASSUME m + 1 < n PROVE Sum(m + 1) = lo(j + (m + 1)) - s
      OBVIOUS
    <2>1. m < n /\ j + m # k /\ j + (m + 1) = j + m + 1
      BY <1>0
    <2>2. Sum(m) = lo(j + m) - s
      BY <1>4, <2>1
    <2>3. hi(j + m) = lo(j + (m + 1))
      BY <1>1, <2>1
    <2>4. Sum(m + 1) = Sum(m) + (hi(j + m) - lo(j + m)) /\ lo(j + m) \in Nat /\ hi(j + m) \in Nat
      BY <1>1, <1>2, <2>1
    <2> QED
      BY <2>2, <2>3, <2>4
  <1>5. \A m \in Nat : m < n => Sum(m) = lo(j + m) - s
    <2> HIDE DEF T
    <2>1. \A m \in Nat : m \in T
      BY <1>3, <1>4, Induct
    <2> QED
      BY <2>1 DEF T
  <1>6. \A i \in 1 .. n : Sum(i - 1) = lo(j + i - 1) - s
    <2> TAKE i \in 1 .. n
    <2>1. i - 1 \in Nat /\ i - 1 < n /\ j + (i - 1) = j + i - 1
      BY <1>0
    <2>2. Sum(i - 1) = lo(j + (i - 1)) - s
      BY <1>5, <2>1
    <2> QED
      BY <2>1, <2>2
  <1>7. SumLen(secs) = l
    <2> DEFINE m == n - 1
    <2>1. m \in Nat /\ m < n /\ m + 1 = n /\ j + m = k
      BY <1>0
    <2>2. Sum(m) = lo(k) - s
      BY <1>5, <2>1
    <2>3. Sum(n) = Sum(m) + (hi(k) - lo(k)) /\ lo(k) \in Nat /\ hi(k) \in Nat
      BY <1>1, <1>2, <2>1
    <2>4. hi(k) = s + l
      BY DEF Spanned, hi
    <2>5. Sum(n) = l
      BY <1>0, <2>2, <2>3, <2>4
    <2>6. SubSeq(secs, 1, n) = secs
      BY <1>0, SubSeqFull
    <2> QED
      BY <2>5, <2>6 DEF Sum
  <1> QED
    BY <1>6, <1>7 DEF Sum, lo, Summed

\* Every sector of a request goes to its place, once.
Exact(vol, v, s, l) ==
  LET cut == map_request(set_ranges_block(vol, v), s, l) IN
  /\ SumLen(cut) = l
  /\ \A i \in 0 .. l - 1 : \E p \in ToSet(cut) :
       /\ p.block = v /\ p.buf <= i /\ i < p.buf + p.len
       /\ p.start + i - p.buf = map_address(vol.vec, s + i)

\* map_request sends every sector of a request to its place, once.
LEMMA RequestExact ==
  ASSUME NEW vol, Chain(vol.vec), NEW v, NEW s \in Nat, NEW l \in Nat \ {0},
         s + l <= SumLen(vol.vec)
  PROVE  Exact(vol, v, s, l)
  <1> DEFINE vec == vol.vec
             m == set_ranges_block(vol, v)
             secs == map_section(vec, s, l)
             cut == map_request(m, s, l)
  <1> HIDE DEF m, secs, cut
  <1>1. PICK j, k : Spanned(vec, s, l, j, k)
    BY SpanExists
  <1>2. /\ j \in 1 .. Len(vec) /\ k \in 1 .. Len(vec) /\ j <= k /\ Len(vec) \in Nat
        /\ vec \in Seq(RS) /\ l \in Nat /\ DOMAIN vec = 1 .. Len(vec)
    BY <1>1, ChainFacts, ElementFacts DEF Spanned
  <1>3. Pieces(vec, s, l, j, k, secs)
    BY <1>1, MapSectionIs DEF secs
  <1>4. /\ secs \in Seq(Sections) /\ Len(secs) = k - j + 1 /\ DOMAIN secs = 1 .. Len(secs)
        /\ \A i \in 1 .. Len(secs) : secs[i] = Piece(vec[j + i - 1], s, l)
    BY <1>3, ElementFacts DEF Pieces
  <1>5. /\ \A i \in 1 .. Len(secs) : SumLen(SubSeq(secs, 1, i - 1)) = Lo(vec[j + i - 1], s) - s
        /\ SumLen(secs) = l
    <2>1. Summed(vec, s, l, j, secs)
      BY <1>1, <1>3, PieceSums
    <2> QED
      BY <2>1 DEF Summed
  <1>6. rangepos_by_orgaddr(vec, s) = j
    BY <1>1, RangeposIs DEF Spanned
  <1>7. /\ m.ranges = vol /\ m.blocks = [i \in DOMAIN vec |-> v]
    BY DEF m, set_ranges_block
  <1>8. cut = [i \in 1 .. Len(secs) |->
                   [block |-> m.blocks[j + i - 1], start |-> secs[i].start,
                    len |-> secs[i].len, buf |-> SumLen(SubSeq(secs, 1, i - 1))]]
    <2>1. cut = [i \in DOMAIN secs |->
                   [block |-> m.blocks[j + i - 1], start |-> secs[i].start,
                    len |-> secs[i].len, buf |-> SumLen(SubSeq(secs, 1, i - 1))]]
      BY <1>6, <1>7 DEF cut, map_request, secs
    <2> QED
      BY <1>4, <2>1
  <1>9. Len(secs) \in Nat
    BY <1>4, ElementFacts
  <1>10. /\ DOMAIN cut = 1 .. Len(secs) /\ Len(cut) = Len(secs)
         /\ \A i \in 1 .. Len(secs) :
              /\ cut[i].block = v
              /\ cut[i].start = secs[i].start /\ cut[i].len = secs[i].len
              /\ cut[i].buf = Lo(vec[j + i - 1], s) - s
    <2>1. DOMAIN cut = 1 .. Len(secs)
      BY <1>8
    <2>2. Len(cut) = Len(secs)
      BY <1>9, <2>1
    <2>3. ASSUME NEW i \in 1 .. Len(secs)
          PROVE  /\ cut[i].block = v
                 /\ cut[i].start = secs[i].start /\ cut[i].len = secs[i].len
                 /\ cut[i].buf = Lo(vec[j + i - 1], s) - s
      <3>1. j + i - 1 \in 1 .. Len(vec)
        BY SMTT(30), <1>2, <1>4
      <3>2. m.blocks[j + i - 1] = v
        BY <1>2, <1>7, <3>1
      <3>3. cut[i] = [block |-> m.blocks[j + i - 1], start |-> secs[i].start,
                        len |-> secs[i].len, buf |-> SumLen(SubSeq(secs, 1, i - 1))]
        BY <1>8
      <3> QED
        BY <1>5, <3>2, <3>3
    <2> QED
      BY <2>1, <2>2, <2>3
  <1>11. SumLen(cut) = l
    <2>1. SumLen(cut) = SumLen(secs)
      BY <1>9, <1>10, SumSame
    <2> QED
      BY <1>5, <2>1
  <1>12. ASSUME NEW i \in 0 .. l - 1
         PROVE  \E p \in ToSet(cut) :
                  /\ p.block = v /\ p.buf <= i /\ i < p.buf + p.len
                  /\ p.start + i - p.buf = map_address(vec, s + i)
    <2> DEFINE a == s + i
    <2>1. a \in Nat /\ i \in Nat /\ a < SumLen(vec) /\ s <= a /\ a <= s + l - 1 /\ s + l - 1 \in Nat
      BY <1>2, ChainFacts
    <2> HIDE DEF a
    <2>2. PICK q \in 1 .. Len(vec) : Holds(vec[q], a)
      BY <2>1 DEF Chain
    <2>3. rangepos_by_orgaddr(vec, a) = q
      BY <2>1, <2>2, RangeposIs
    <2> DEFINE r == vec[q]
    <2>4. /\ r.org_start \in Nat /\ r.start \in Nat /\ r.len \in Nat \ {0}
          /\ r.org_start <= a /\ a < r.org_start + r.len
      BY <2>2, ChainFacts DEF Holds
    <2>5. map_address(vec, a) = a + r.start - r.org_start
      BY <2>3 DEF map_address
    <2>6. q \in j .. k
      <3>1. ~(q < j)
        <4>1. Holds(vec[j], s)
          BY <1>1 DEF Spanned
        <4>2. q < j => s >= r.org_start + r.len
          BY <1>2, <4>1, HoldersOrder
        <4> QED
          BY SMTT(30), <1>2, <2>1, <2>4, <4>2
      <3>2. ~(k < q)
        <4>1. Holds(vec[k], s + l - 1)
          BY <1>1 DEF Spanned
        <4>2. k < q => s + l - 1 < r.org_start
          <5> DEFINE e == s + l - 1
          <5>1. e \in Nat /\ Holds(vec[k], e)
            BY <2>1, <4>1
          <5> HIDE DEF e
          <5>2. k < q => e < r.org_start
            BY <1>2, <5>1, HoldersOrder
          <5> QED
            BY <5>2 DEF e
        <4> QED
          BY SMTT(30), <1>2, <2>1, <2>4, <4>2
      <3> QED
        BY <1>2, <3>1, <3>2
    <2> DEFINE n == q - j + 1
               p == cut[n]
               lo == Lo(r, s)
               hi == Hi(r, s, l)
    <2>7. n \in 1 .. Len(secs) /\ j + n - 1 = q
      BY <1>2, <1>4, <2>6
    <2>8. secs[n] = Piece(r, s, l)
      BY <1>4, <2>7
    <2>9. /\ p.block = v /\ p.buf = lo - s
          /\ p.start = lo + r.start - r.org_start /\ p.len = hi - lo
      <3>1. /\ p.block = v /\ p.start = secs[n].start /\ p.len = secs[n].len
            /\ p.buf = Lo(vec[j + n - 1], s) - s
        BY <1>10, <2>7
      <3> HIDE DEF n, p, r
      <3> QED
        BY <2>7, <2>8, <3>1, PieceIs DEF r
    <2>10. lo \in Nat /\ hi \in Nat /\ lo <= a /\ a < hi
      <3>1. lo \in Nat /\ hi \in Nat
        BY <1>1, <2>6 DEF Spanned
      <3>2. lo <= a
        BY <2>1, <2>4 DEF Lo
      <3>3. a < hi
        <4>1. a < s + l
          BY <1>2, <2>1
        <4> QED
          BY <2>4, <4>1 DEF Hi
      <3> QED
        BY <3>1, <3>2, <3>3
    <2>11. i = a - s
      BY <1>2 DEF a
    <2> HIDE DEF p, lo, hi, r, n
    <2>12. p.buf <= i /\ i < p.buf + p.len
      BY <2>1, <2>9, <2>10, <2>11
    <2>13. p.start + i - p.buf = map_address(vec, a)
      BY SMTT(30), <2>1, <2>4, <2>5, <2>9, <2>10, <2>11
    <2>14. p \in ToSet(cut)
      BY <1>10, <2>7 DEF ToSet, p
    <2> QED
      BY <2>9, <2>12, <2>13, <2>14 DEF a
  <1> QED
    BY <1>11, <1>12 DEF Exact, cut, m

-------------------------------------------------------------------------------
(* A restart reads what was saved.                                         *)

\* A range as JSON, its text and back.
LEMMA RangeToJson ==
  ASSUME NEW r
  PROVE  range_to_json(r) = J!Array(<<J!Str(r.org_start), J!Str(r.start), J!Str(r.len)>>)
  BY DEF range_to_json, J!append, J!Emptied, J!is_empty, J!type, J!val, J!Unknown, J!Array, J!Str

LEMMA NumberText ==
  ASSUME NEW n
  PROVE  DumpNumber(J!Str(n)) = J!Str(n) /\ LoadNumber(J!Str(n)) = J!Str(n)
  BY DEF LoadNumber, DumpNumber, J!LoadNode, J!DumpNode, J!Str, J!type

LEMMA RangeText ==
  ASSUME NEW r
  PROVE  LoadRange(DumpRange(range_to_json(r))) = range_to_json(r)
  <1> DEFINE s == <<J!Str(r.org_start), J!Str(r.start), J!Str(r.len)>>
             t == <<"list", s>>
  <1>1. DumpRange(J!Array(s)) = <<"list", [i \in DOMAIN s |-> DumpNumber(s[i])]>>
    <2> HIDE DEF s
    <2> QED
      BY DEF DumpRange, J!DumpNode, J!Array, J!type, J!val
  <1>2. DOMAIN s = 1 .. 3 /\ \A i \in 1 .. 3 : DumpNumber(s[i]) = s[i] /\ LoadNumber(s[i]) = s[i]
    BY NumberText
  <1>3. s = [i \in DOMAIN s |-> s[i]]
    OBVIOUS
  <1> HIDE DEF s
  <1>4. DumpRange(J!Array(s)) = t
    BY <1>1, <1>2, <1>3
  <1>5. \A i \in 1 .. 3 : LoadNumber(s[i]) # J!Throw
    <2>1. \A i \in 1 .. 3 : s[i][1] = "string"
      BY DEF s, J!Str
    <2> QED
      BY <1>2, <2>1 DEF J!Throw
  <1>6. [k \in DOMAIN s |-> LoadNumber(s[k])] = s
    BY <1>2, <1>3
  <1>7. LoadRange(t) = J!Array([k \in DOMAIN s |-> LoadNumber(s[k])])
    <2>1. t[1] = "list" /\ t[2] = s
      OBVIOUS
    <2> HIDE DEF t
    <2> QED
      BY <1>2, <1>5, <2>1 DEF LoadRange, J!LoadNode
  <1> QED
    BY <1>4, <1>6, <1>7, RangeToJson DEF s
LEMMA RangeBack ==
  ASSUME NEW r \in RS
  PROVE  range_from_json(range_to_json(r)) = r
  <1> DEFINE s == <<J!Str(r.org_start), J!Str(r.start), J!Str(r.len)>>
  <1>1. range_to_json(r) = J!Array(s)
    BY RangeToJson
  <1>2. \A n : atoll(J!Str(n)) = n
    BY DEF atoll, J!Str, J!type, J!val
  <1>3. J!val(J!Array(s)) = s
    BY DEF J!val, J!Array
  <1>4. s[1] = J!Str(r.org_start) /\ s[2] = J!Str(r.start) /\ s[3] = J!Str(r.len)
    OBVIOUS
  <1> HIDE DEF s
  <1>5. range_from_json(J!Array(s)) = algo_range(r.org_start, r.start, r.len)
    BY <1>2, <1>3, <1>4 DEF range_from_json
  <1>6. algo_range(r.org_start, r.start, r.len) = r
    BY DEF RS, algo_range
  <1> QED
    BY <1>1, <1>5, <1>6

\* The value of a vector.
VecJson(vec) == J!Array([i \in 1 .. Len(vec) |-> range_to_json(vec[i])])

\* A vector as JSON, its text and back.
LEMMA VecToJson ==
  ASSUME NEW vec \in Seq(RS)
  PROVE  vec_to_json(vec) = VecJson(vec)
  <1> DEFINE n == Len(vec)
             e(i) == range_to_json(vec[i])
             Upto(m) == [i \in 1 .. m |-> e(i)]
  <1>0. n \in Nat
    BY ElementFacts
  <1>1. PICK g : /\ vec_to_json(vec) = g[n]
                 /\ g[0] = J!Array(<<>>)
                 /\ \A i \in 1 .. n : g[i] = J!append(g[i - 1], e(i))
    BY <1>0, SaveLoop
  <1> DEFINE T == {m \in Nat : m <= n => g[m] = J!Array(Upto(m))}
  <1> HIDE DEF e
  <1>2. 0 \in T
    <2>1. Upto(0) = <<>>
      OBVIOUS
    <2> QED
      BY <1>1, <2>1
  <1>3. \A w, x : J!append(J!Array(w), x) = J!Array(Append(w, x))
    BY DEF J!append, J!Emptied, J!is_empty, J!type, J!val, J!Array
  <1>4. ASSUME NEW m \in Nat, m \in T PROVE m + 1 \in T
    <2> SUFFICES ASSUME m + 1 <= n PROVE g[m + 1] = J!Array(Upto(m + 1))
      OBVIOUS
    <2>1. m + 1 \in 1 .. n /\ m + 1 - 1 = m /\ m <= n
      BY <1>0
    <2>2. g[m] = J!Array(Upto(m)) /\ g[m + 1] = J!append(g[m], e(m + 1))
      BY <1>1, <1>4, <2>1
    <2>3. Append(Upto(m), e(m + 1)) = Upto(m + 1)
      OBVIOUS
    <2> HIDE DEF Upto
    <2> QED
      BY <1>3, <2>2, <2>3
  <1>5. n \in T
    <2> HIDE DEF T
    <2> QED
      BY <1>0, <1>2, <1>4, Induct
  <1> QED
    BY <1>1, <1>5 DEF VecJson, e

\* A member of an object that comes back as it was.
Kept(o) == LoadMember(DumpMember(o)) = o /\ o # J!Throw

\* Numbers and vectors are kept by a save and a load.
LEMMA NumberKept ==
  ASSUME NEW n
  PROVE  Kept(J!Str(n)) /\ atoll(J!Str(n)) = n
  <1>1. DumpMember(J!Str(n)) = J!Str(n)
    BY DEF DumpMember, J!DumpNode, J!Str, J!type
  <1>2. LoadMember(J!Str(n)) = J!Str(n)
    BY DEF LoadMember, J!LoadNode, J!Str
  <1>3. J!Str(n) # J!Throw
    BY DEF J!Str, J!Throw
  <1>4. atoll(J!Str(n)) = n
    BY DEF atoll, J!Str, J!type, J!val
  <1> QED
    BY <1>1, <1>2, <1>3, <1>4 DEF Kept

LEMMA VecKept ==
  ASSUME NEW vec \in Seq(RS)
  PROVE  Kept(VecJson(vec)) /\ vec_from_json(VecJson(vec)) = vec
  <1> DEFINE n == Len(vec)
             w == [i \in 1 .. n |-> range_to_json(vec[i])]
             d == [i \in 1 .. n |-> DumpRange(w[i])]
             t == <<"list", d>>
  <1>0. VecJson(vec) = J!Array(w)
    BY DEF VecJson
  <1>1. \A i \in 1 .. n : LoadRange(DumpRange(w[i])) = w[i] /\ w[i] # J!Throw
    <2> TAKE i \in 1 .. n
    <2>1. w[i] = range_to_json(vec[i])
      OBVIOUS
    <2>2. range_to_json(vec[i]) # J!Throw
      <3>1. range_to_json(vec[i]) = J!Array(<<J!Str(vec[i].org_start), J!Str(vec[i].start), J!Str(vec[i].len)>>)
        BY RangeToJson
      <3>2. \A s : J!Array(s) # J!Throw
        BY DEF J!Array, J!Throw
      <3> QED
        BY <3>1, <3>2
    <2> HIDE DEF w
    <2> QED
      BY <2>1, <2>2, RangeText
  <1>2. \A i \in 1 .. n : range_from_json(w[i]) = vec[i]
    <2> TAKE i \in 1 .. n
    <2>1. w[i] = range_to_json(vec[i]) /\ vec[i] \in RS
      BY ElementFacts
    <2> HIDE DEF w
    <2> QED
      BY <2>1, RangeBack
  <1>3. DOMAIN w = 1 .. n /\ w = [i \in 1 .. n |-> w[i]]
    OBVIOUS
  <1> HIDE DEF w
  <1>4. DumpMember(J!Array(w)) = t
    <2>1. DumpMember(J!Array(w)) = <<"list", [i \in DOMAIN w |-> DumpRange(w[i])]>>
      BY DEF DumpMember, J!DumpNode, J!Array, J!type, J!val
    <2> QED
      BY <1>3, <2>1
  <1>5. LoadMember(t) = J!Array([i \in DOMAIN d |-> LoadRange(d[i])])
    <2>1. t[1] = "list" /\ t[2] = d
      OBVIOUS
    <2>2. DOMAIN d = 1 .. n /\ \A i \in 1 .. n : LoadRange(d[i]) # J!Throw
      BY <1>1
    <2> HIDE DEF t, d
    <2> QED
      BY <2>1, <2>2 DEF LoadMember, J!LoadNode
  <1>6. [i \in DOMAIN d |-> LoadRange(d[i])] = w
    <2>1. [i \in DOMAIN d |-> LoadRange(d[i])] = [i \in 1 .. n |-> w[i]]
      BY <1>1
    <2> QED
      BY <1>3, <2>1
  <1>7. J!Array(w) # J!Throw
    BY DEF J!Array, J!Throw
  <1>8. Kept(J!Array(w))
    BY <1>4, <1>5, <1>6, <1>7 DEF Kept
  <1>9. vec_from_json(J!Array(w)) = [i \in 1 .. n |-> vec[i]]
    <2>1. J!val(J!Array(w)) = w
      BY DEF J!val, J!Array
    <2>2. vec_from_json(J!Array(w)) = [i \in DOMAIN w |-> range_from_json(w[i])]
      BY <2>1 DEF vec_from_json
    <2> QED
      BY <1>2, <1>3, <2>2
  <1>10. vec = [i \in 1 .. n |-> vec[i]]
    BY LenProperties
  <1> QED
    BY <1>0, <1>8, <1>9, <1>10

Merged(f, g) == [k \in DOMAIN f \cup DOMAIN g |-> IF k \in DOMAIN f THEN f[k] ELSE g[k]]

\* Objects of several members.
LEMMA MergeDic ==
  ASSUME NEW f, NEW g, NEW a, NEW b, a = J!Dic(f), b = J!Dic(g)
  PROVE  J!merge(a, b) = J!Dic(Merged(f, g))
  BY DEF Merged, J!merge, J!Emptied, J!is_empty, J!type, J!val, J!Dic

LEMMA ReloadDic ==
  ASSUME NEW f, f = [k \in DOMAIN f |-> f[k]], \A k \in DOMAIN f : Kept(f[k])
  PROVE  Reloaded(J!Dic(f)) = J!Dic(f)
  <1> DEFINE d == [k \in DOMAIN f |-> DumpMember(f[k])]
             t == <<"object", d>>
  <1>1. \A k \in DOMAIN f : LoadMember(d[k]) = f[k] /\ f[k] # J!Throw
    BY DEF Kept
  <1>2. J!DumpsWith(J!Dic(f), DumpMember) = t
    BY DEF J!DumpsWith, J!DumpNode, J!is_empty, J!Dic, J!type, J!val
  <1>3. J!LoadsWith(t, LoadMember) = J!LoadNode(t, LoadMember)
    <2>1. t[1] = "object" /\ t # J!NoText /\ t # J!Garbage
      BY DEF J!NoText, J!Garbage
    <2> HIDE DEF t
    <2> QED
      BY <2>1 DEF J!LoadsWith
  <1>4. J!LoadNode(t, LoadMember) = J!Dic([k \in DOMAIN d |-> LoadMember(d[k])])
    <2>1. t[1] = "object" /\ t[2] = d
      OBVIOUS
    <2>2. DOMAIN d = DOMAIN f /\ \A k \in DOMAIN f : LoadMember(d[k]) # J!Throw
      BY <1>1
    <2> HIDE DEF t, d
    <2> QED
      BY <2>1, <2>2 DEF J!LoadNode
  <1>5. [k \in DOMAIN d |-> LoadMember(d[k])] = [k \in DOMAIN f |-> f[k]]
    BY <1>1
  <1> HIDE DEF t, d
  <1>6. Reloaded(J!Dic(f)) = J!LoadNode(t, LoadMember)
    BY <1>2, <1>3 DEF Reloaded
  <1> QED
    BY <1>4, <1>5, <1>6

LEMMA PairIs ==
  ASSUME NEW k, NEW o
  PROVE  \E f : J!Pair(k, o) = J!Dic(f) /\ DOMAIN f = {k} /\ f[k] = o
  BY DEF J!Pair

\* A volume is reloaded as it was saved.
LEMMA RestartVol ==
  ASSUME NEW vol, Vol(vol)
  PROVE  ranges_from_json(Reloaded(ranges_to_json(vol))) = vol
  <1>1. vol.vec \in Seq(RS) /\ vol = [vec |-> vol.vec, len |-> vol.len, ok |-> TRUE]
    BY DEF Vol, Chain
  <1>2. PICK f : J!Pair("len", J!Str(vol.len)) = J!Dic(f) /\ DOMAIN f = {"len"} /\ f["len"] = J!Str(vol.len)
    BY PairIs
  <1>3. PICK g : J!Pair("vec", vec_to_json(vol.vec)) = J!Dic(g) /\ DOMAIN g = {"vec"}
                 /\ g["vec"] = vec_to_json(vol.vec)
    BY PairIs
  <1> DEFINE h == Merged(f, g)
  <1>4. ranges_to_json(vol) = J!Dic(h)
    <2> DEFINE a == J!Pair("len", J!Str(vol.len))
               b == J!Pair("vec", vec_to_json(vol.vec))
    <2>1. a = J!Dic(f) /\ b = J!Dic(g)
      BY <1>2, <1>3
    <2> HIDE DEF a, b
    <2>2. J!merge(a, b) = J!Dic(h)
      BY <2>1, MergeDic, Zenon
    <2> QED
      BY <2>2 DEF ranges_to_json, a, b
  <1>5. /\ DOMAIN h = {"len", "vec"} /\ h["len"] = J!Str(vol.len) /\ h["vec"] = VecJson(vol.vec)
        /\ h = [k \in DOMAIN h |-> h[k]]
    BY <1>1, <1>2, <1>3, VecToJson DEF Merged
  <1> HIDE DEF h
  <1>6. Reloaded(J!Dic(h)) = J!Dic(h)
    BY <1>1, <1>5, NumberKept, VecKept, ReloadDic
  <1>7. J!val(J!Dic(h)) = h
    BY DEF J!val, J!Dic
  <1>8. ranges_from_json(J!Dic(h)) = [vec |-> vol.vec, len |-> vol.len, ok |-> TRUE]
    BY <1>1, <1>5, <1>7, NumberKept, VecKept DEF ranges_from_json
  <1> QED
    BY <1>1, <1>4, <1>6, <1>8

\* So is the pool.
LEMMA RestartPool ==
  ASSUME map_addr_vec \in Seq(RS)
  PROVE  LET pool == J!val(Reloaded(pool_to_json)) IN
         /\ atoll(pool["len"]) = len
         /\ atoll(pool["left"]) = left
         /\ vec_from_json(pool["vec"]) = map_addr_vec
  <1>1. PICK f : J!Pair("len", J!Str(len)) = J!Dic(f) /\ DOMAIN f = {"len"} /\ f["len"] = J!Str(len)
    BY PairIs
  <1>2. PICK g : J!Pair("left", J!Str(left)) = J!Dic(g) /\ DOMAIN g = {"left"} /\ g["left"] = J!Str(left)
    BY PairIs
  <1>3. PICK v : J!Pair("vec", vec_to_json(map_addr_vec)) = J!Dic(v) /\ DOMAIN v = {"vec"}
                 /\ v["vec"] = vec_to_json(map_addr_vec)
    BY PairIs
  <1> DEFINE h == Merged(f, g)
             p == Merged(h, v)
  <1>4. J!merge(J!Pair("len", J!Str(len)), J!Pair("left", J!Str(left))) = J!Dic(h)
    <2> DEFINE a == J!Pair("len", J!Str(len))
               b == J!Pair("left", J!Str(left))
    <2>1. a = J!Dic(f) /\ b = J!Dic(g)
      BY <1>1, <1>2
    <2> HIDE DEF a, b
    <2>2. J!merge(a, b) = J!Dic(h)
      BY <2>1, MergeDic, Zenon
    <2> QED
      BY <2>2 DEF a, b
  <1>5. DOMAIN h = {"len", "left"} /\ h["len"] = J!Str(len) /\ h["left"] = J!Str(left)
    BY <1>1, <1>2 DEF Merged
  <1> HIDE DEF h
  <1>6. pool_to_json = J!Dic(p)
    <2> DEFINE a == J!merge(J!Pair("len", J!Str(len)), J!Pair("left", J!Str(left)))
               b == J!Pair("vec", vec_to_json(map_addr_vec))
    <2>1. a = J!Dic(h) /\ b = J!Dic(v)
      BY <1>3, <1>4
    <2> HIDE DEF a, b
    <2>2. J!merge(a, b) = J!Dic(p)
      BY <2>1, MergeDic, Zenon
    <2> QED
      BY <2>2 DEF pool_to_json, a, b
  <1>7. /\ DOMAIN p = {"len", "left", "vec"}
        /\ p["len"] = J!Str(len) /\ p["left"] = J!Str(left) /\ p["vec"] = VecJson(map_addr_vec)
        /\ p = [k \in DOMAIN p |-> p[k]]
    BY <1>3, <1>5, VecToJson DEF Merged
  <1> HIDE DEF p
  <1>8. Reloaded(J!Dic(p)) = J!Dic(p)
    BY <1>7, NumberKept, VecKept, ReloadDic
  <1>9. J!val(J!Dic(p)) = p
    BY DEF J!val, J!Dic
  <1>10. J!val(Reloaded(pool_to_json)) = p
    BY <1>6, <1>8, <1>9
  <1> QED
    BY <1>7, <1>10, NumberKept, VecKept

\* What the pool is after every operation.
PoolIn(ab, L, lft, free) ==
  /\ ab = FALSE
  /\ L \in Nat /\ L <= MaxLen
  /\ FreeList(free) /\ lft = SumLen(free)
  /\ \A a \in Nat : a \in Covered(free) => a < L

\* What every volume is.
VolsIn(rs) ==
  /\ rs = [v \in Vols |-> rs[v]]
  /\ \A v \in Vols : Good(rs[v])

\* What relates them: no address of the pool is both free and in use, or used twice.
PlacesIn(rs, free, L) ==
  /\ \A v \in Vols, i, a \in Nat :
       At(rs[v].vec, i, a) => a < L /\ a \notin Covered(free)
  /\ \A v, w \in Vols, i, j, a \in Nat :
       At(rs[v].vec, i, a) /\ At(rs[w].vec, j, a) => v = w /\ i = j

RangesInv ==
  /\ PoolIn(aborted, len, left, map_addr_vec)
  /\ VolsIn(ranges)
  /\ PlacesIn(ranges, map_addr_vec, len)

-------------------------------------------------------------------------------
\* The addresses a chain of ranges has are those it covers.
LEMMA HasCovered ==
  ASSUME NEW vec, Chain(vec)
  PROVE  /\ \A i \in Nat, k \in 1 .. Len(vec), a \in Nat : On(vec[k], i, a) => Lies(vec[k], a)
         /\ \A k \in 1 .. Len(vec), a \in Nat : Lies(vec[k], a) => \E i \in Nat : On(vec[k], i, a)
         /\ \A a \in Nat : a \in Covered(vec) <=> Has(vec, a)
  <1>1. ASSUME NEW i \in Nat, NEW k \in 1 .. Len(vec), NEW a \in Nat, On(vec[k], i, a)
        PROVE  Lies(vec[k], a)
    <2> DEFINE r == vec[k]
    <2>1. r.org_start \in Nat /\ r.start \in Nat /\ r.len \in Nat
      BY ChainFacts
    <2>2. r.org_start <= i /\ i < r.org_start + r.len /\ a + r.org_start = r.start + i
      BY <1>1 DEF On, Holds
    <2> HIDE DEF r
    <2>3. r.start <= a /\ a < r.start + r.len
      BY SMTT(30), <2>1, <2>2
    <2> QED
      BY <2>3 DEF Lies, r
  <1>2. ASSUME NEW k \in 1 .. Len(vec), NEW a \in Nat, Lies(vec[k], a)
        PROVE  \E i \in Nat : On(vec[k], i, a)
    <2> DEFINE r == vec[k]
               i == a - r.start + r.org_start
    <2>1. r.org_start \in Nat /\ r.start \in Nat /\ r.len \in Nat
      BY ChainFacts
    <2>2. r.start <= a /\ a < r.start + r.len
      BY <1>2 DEF Lies
    <2> HIDE DEF r
    <2>3. i \in Nat /\ r.org_start <= i /\ i < r.org_start + r.len
          /\ a + r.org_start = r.start + i
      <3> DEFINE o == r.org_start
                 b == r.start
                 c == r.len
      <3>1. o \in Nat /\ b \in Nat /\ c \in Nat /\ b <= a /\ a < b + c /\ i = a - b + o
        BY <2>1, <2>2
      <3> HIDE DEF o, b, c, i
      <3>2. i \in Nat /\ o <= i /\ i < o + c /\ a + o = b + i
        BY <3>1
      <3> QED
        BY <3>2 DEF o, b, c
    <2> HIDE DEF i
    <2>4. On(r, i, a)
      BY <2>3 DEF On, Holds
    <2> QED
      BY <2>3, <2>4 DEF r
  <1>3. \A a \in Nat : a \in Covered(vec) <=> \E k \in 1 .. Len(vec) : Lies(vec[k], a)
    BY ChainFacts, CoveredFacts
  <1>4. ASSUME NEW a \in Nat, a \in Covered(vec) PROVE Has(vec, a)
    BY <1>2, <1>3, <1>4 DEF Has, At
  <1>5. ASSUME NEW a \in Nat, Has(vec, a) PROVE a \in Covered(vec)
    BY <1>1, <1>3, <1>5 DEF Has, At
  <1> QED
    BY <1>1, <1>2, <1>4, <1>5

\* The volume new has what old has, and behind it what the ranges of add have.
Grown(old, add, new) ==
  \A i, b \in Nat :
    At(new.vec, i, b) <=> At(old.vec, i, b) \/ \E j \in Nat : i = old.len + j /\ At(add, j, b)

\* Volume v gets what an allocation took from the free list.
LEMMA GrowIn ==
  ASSUME NEW rs, VolsIn(rs), NEW free, NEW L, PlacesIn(rs, free, L),
         \A c \in Nat : c \in Covered(free) => c < L,
         NEW v \in Vols, NEW size, NEW a, Allocated(free, size, a),
         NEW new, Good(new), Grown(rs[v], a.vol.vec, new),
         NEW next, next = [rs EXCEPT ![v] = new]
  PROVE  VolsIn(next) /\ PlacesIn(next, a.free, L)
  <1> DEFINE old == rs[v]
             add == a.vol.vec
             rest == a.free
  <1>1. /\ \A w \in Vols : next[w] = IF w = v THEN new ELSE rs[w]
        /\ next = [w \in Vols |-> next[w]]
    BY DEF VolsIn
  <1>2. VolsIn(next)
    BY <1>1 DEF VolsIn
  <1>3. /\ \A b \in Nat : b \in Covered(free) <=> b \in Covered(rest) \/ Has(add, b)
        /\ \A b, c \in Nat : Has(add, b) /\ c \in Covered(rest) => b < c
        /\ \A i, j, b, c \in Nat : At(add, i, b) /\ At(add, j, c) /\ i < j => b < c
    BY DEF Allocated, Allocating
  <1>4. \A i, j, b \in Nat : At(add, i, b) /\ At(add, j, b) => i = j
    BY <1>3
  <1>5. old.len \in Nat
    BY ChainFacts DEF VolsIn, Good, Vol
  <1>6. \A w \in Vols, i, b \in Nat : At(rs[w].vec, i, b) => b < L /\ b \notin Covered(free)
    BY DEF PlacesIn
  <1>7. \A w, x \in Vols, i, j, b \in Nat :
          At(rs[w].vec, i, b) /\ At(rs[x].vec, j, b) => w = x /\ i = j
    BY DEF PlacesIn
  <1>8. \A i, b \in Nat : At(new.vec, i, b) <=>
          At(old.vec, i, b) \/ \E j \in Nat : i = old.len + j /\ At(add, j, b)
    BY DEF Grown
  <1>9. \A j, b \in Nat : At(add, j, b) => b \in Covered(free) /\ b \notin Covered(rest) /\ b < L
    BY <1>3 DEF Has
  <1>10. \A b \in Nat : b \in Covered(rest) => b \in Covered(free)
    BY <1>3
  \* What a volume has now it had before, or it is v and was given it.
  <1>11. \A w \in Vols, i, b \in Nat : At(next[w].vec, i, b) =>
           \/ At(rs[w].vec, i, b)
           \/ w = v /\ \E j \in Nat : i = old.len + j /\ At(add, j, b)
    BY <1>1, <1>8
  <1> HIDE DEF old, add, rest
  <1>12. ASSUME NEW w \in Vols, NEW i \in Nat, NEW b \in Nat, At(next[w].vec, i, b)
         PROVE  b < L /\ b \notin Covered(rest)
    BY <1>12, <1>11, <1>6, <1>9, <1>10
  <1>13. ASSUME NEW w \in Vols, NEW x \in Vols, NEW i \in Nat, NEW j \in Nat, NEW b \in Nat,
                At(next[w].vec, i, b), At(next[x].vec, j, b)
         PROVE  w = x /\ i = j
    <2>1. CASE At(rs[w].vec, i, b) /\ At(rs[x].vec, j, b)
      BY <2>1, <1>7
    <2>2. CASE At(rs[w].vec, i, b) /\ ~At(rs[x].vec, j, b)
      BY <2>2, <1>13, <1>11, <1>6, <1>9
    <2>3. CASE ~At(rs[w].vec, i, b) /\ At(rs[x].vec, j, b)
      BY <2>3, <1>13, <1>11, <1>6, <1>9
    <2>4. CASE ~At(rs[w].vec, i, b) /\ ~At(rs[x].vec, j, b)
      <3>1. PICK k \in Nat : w = v /\ i = old.len + k /\ At(add, k, b)
        BY <2>4, <1>13, <1>11
      <3>2. PICK m \in Nat : x = v /\ j = old.len + m /\ At(add, m, b)
        BY <2>4, <1>13, <1>11
      <3> QED
        BY <3>1, <3>2, <1>4
    <2> QED
      BY <2>1, <2>2, <2>3, <2>4
  <1>14. PlacesIn(next, rest, L)
    BY SMTT(30), <1>12, <1>13 DEF PlacesIn
  <1> QED
    BY <1>2, <1>14 DEF rest

\* The volume v of rs is given back: all, then rest, is the free list.
Released(rs, free, L, v, all, rest, next) ==
  /\ all.ok = TRUE
  /\ FreeList(rest) /\ SumLen(rest) = SumLen(free) + rs[v].len
  /\ \A b \in Nat : b \in Covered(rest) <=> b \in Covered(free) \/ Has(rs[v].vec, b)
  /\ \A b \in Nat : b \in Covered(rest) => b < L
  /\ VolsIn(next) /\ PlacesIn(next, rest, L)

\* A volume that is given back: its ranges can all be inserted into the free list.
LEMMA ReleaseIn ==
  ASSUME NEW rs, VolsIn(rs), NEW free, FreeList(free), NEW L, PlacesIn(rs, free, L),
         \A c \in Nat : c \in Covered(free) => c < L,
         NEW v \in Vols, NEW all, all = InsertAll(free, rs[v].vec),
         NEW rest, rest = merge(all.vec, "start"),
         NEW next, next = [rs EXCEPT ![v] = NoRanges]
  PROVE  Released(rs, free, L, v, all, rest, next)
  <1> DEFINE vec == rs[v].vec
  <1>0. Chain(vec) /\ rs[v].len = SumLen(vec)
    BY DEF VolsIn, Good, Vol
  <1>1. vec \in Seq(RS)
    BY <1>0, ChainFacts
  <1>2. \A w \in Vols, i, b \in Nat : At(rs[w].vec, i, b) => b < L /\ b \notin Covered(free)
    BY DEF PlacesIn
  <1>3. \A w, x \in Vols, i, j, b \in Nat :
          At(rs[w].vec, i, b) /\ At(rs[x].vec, j, b) => w = x /\ i = j
    BY DEF PlacesIn
  <1>4. \A k \in 1 .. Len(vec), b \in Nat : Lies(vec[k], b) => b \notin Covered(free)
    <2> SUFFICES ASSUME NEW k \in 1 .. Len(vec), NEW b \in Nat, Lies(vec[k], b)
                 PROVE  b \notin Covered(free)
      OBVIOUS
    <2>1. \E i \in Nat : At(vec, i, b)
      BY <1>0, HasCovered DEF At
    <2> QED
      BY <2>1, <1>2
  <1>5. \A i, j \in 1 .. Len(vec), b \in Nat : Lies(vec[i], b) /\ Lies(vec[j], b) => i = j
    <2> SUFFICES ASSUME NEW i \in 1 .. Len(vec), NEW j \in 1 .. Len(vec), NEW b \in Nat,
                        Lies(vec[i], b), Lies(vec[j], b)
                 PROVE  i = j
      OBVIOUS
    <2>1. PICK m \in Nat : On(vec[i], m, b)
      BY <1>0, HasCovered
    <2>2. PICK n \in Nat : On(vec[j], n, b)
      BY <1>0, HasCovered
    <2>3. m = n
      BY <2>1, <2>2, <1>3 DEF At
    <2>4. Holds(vec[i], m) /\ Holds(vec[j], m)
      BY <2>1, <2>2, <2>3 DEF On
    <2> QED
      BY SMTT(30), <2>4, <1>0, HoldersOrder
  <1>6. Ordered(free)
    BY FreeListOrdered
  <1>7. Inserts(free, vec, all)
    BY <1>1, <1>4, <1>5, <1>6, InsertAllFacts
  <1>8. /\ all.ok = TRUE /\ Ordered(all.vec) /\ SumLen(all.vec) = SumLen(free) + SumLen(vec)
        /\ \A b \in Nat : b \in Covered(all.vec) <=> b \in Covered(free) \/ b \in Covered(vec)
    <2>1. all = [vec |-> all.vec, ok |-> TRUE]
      BY <1>7, Zenon DEF Inserts
    <2>2. [vec |-> all.vec, ok |-> TRUE].ok = TRUE
      OBVIOUS
    <2>3. all.ok = TRUE
      BY <2>1, <2>2, Zenon
    <2> QED
      BY <1>7, <2>3 DEF Inserts
  <1>9. /\ FreeList(rest) /\ SumLen(rest) = SumLen(all.vec)
        /\ \A b \in Nat : b \in Covered(rest) <=> b \in Covered(all.vec)
    BY <1>8, MergeFree
  <1>10. \A b \in Nat : b \in Covered(rest) <=> b \in Covered(free) \/ Has(vec, b)
    BY <1>0, <1>8, <1>9, HasCovered
  <1>11. \A b \in Nat : b \in Covered(rest) => b < L
    BY <1>2, <1>10 DEF Has
  <1>12. \A w \in Vols : next[w] = IF w = v THEN NoRanges ELSE rs[w]
    BY DEF VolsIn
  <1>13. VolsIn(next)
    <2>1. Good(NoRanges)
      BY ChainEmpty, SumEmpty DEF Good, Vol, NoRanges
    <2>2. next = [w \in Vols |-> next[w]]
      BY DEF VolsIn
    <2> QED
      BY <2>1, <2>2, <1>12 DEF VolsIn
  <1>14. ASSUME NEW w \in Vols, NEW i \in Nat, NEW b \in Nat, At(next[w].vec, i, b)
         PROVE  w # v /\ At(rs[w].vec, i, b)
    <2>1. w # v
      BY <1>12, <1>14, ChainEmpty DEF NoRanges
    <2> QED
      BY <2>1, <1>12, <1>14
  <1>15. PlacesIn(next, rest, L)
    <2>1. ASSUME NEW w \in Vols, NEW i \in Nat, NEW b \in Nat, At(next[w].vec, i, b)
          PROVE  b < L /\ b \notin Covered(rest)
      BY <2>1, <1>14, <1>2, <1>3, <1>10 DEF Has
    <2>2. ASSUME NEW w \in Vols, NEW x \in Vols, NEW i \in Nat, NEW j \in Nat, NEW b \in Nat,
                 At(next[w].vec, i, b), At(next[x].vec, j, b)
          PROVE  w = x /\ i = j
      BY <2>2, <1>14, <1>3
    <2> QED
      BY <2>1, <2>2 DEF PlacesIn
  <1> QED
    BY <1>0, <1>8, <1>9, <1>10, <1>11, <1>13, <1>15 DEF Released

\* The fields of a volume.
LEMMA OkVol ==
  ASSUME NEW vol, Vol(vol)
  PROVE  vol.ok = TRUE /\ vol.len = SumLen(vol.vec) /\ Chain(vol.vec) /\ vol.len \in Nat
  <1>1. vol = [vec |-> vol.vec, len |-> SumLen(vol.vec), ok |-> TRUE] /\ Chain(vol.vec)
    BY DEF Vol
  <1>2. [vec |-> vol.vec, len |-> SumLen(vol.vec), ok |-> TRUE].ok = TRUE
    OBVIOUS
  <1>3. vol.ok = TRUE
    BY <1>1, <1>2, Zenon
  <1>4. vol.len = SumLen(vol.vec)
    BY <1>1
  <1> QED
    BY <1>1, <1>3, <1>4, ChainFacts

\* The pool of length L gets the addresses up to M: all, then rest, is the free list.
Increased(rs, free, L, size, M, all, rest) ==
  /\ all.ok = TRUE
  /\ FreeList(rest) /\ SumLen(rest) = SumLen(free) + size
  /\ \A b \in Nat : b \in Covered(rest) <=> b \in Covered(free) \/ b \in L .. (M - 1)
  /\ \A b \in Nat : b \in Covered(rest) => b < M
  /\ PlacesIn(rs, rest, M)

\* The space an increase adds lies behind all there is.
LEMMA IncreaseIn ==
  ASSUME NEW rs, NEW free, FreeList(free), NEW L \in Nat, PlacesIn(rs, free, L),
         \A c \in Nat : c \in Covered(free) => c < L,
         NEW size \in Nat \ {0}, NEW M, M = L + size,
         NEW all, all = InsertAll(free, <<algo_range(L, L, size)>>),
         NEW rest, rest = merge(all.vec, "start")
  PROVE  Increased(rs, free, L, size, M, all, rest)
  <1> DEFINE x == algo_range(L, L, size)
             vec == <<x>>
  <1>1. x \in RS /\ x.start = L /\ x.len = size
    BY RangeFacts
  <1> HIDE DEF x
  <1>2. vec \in Seq(RS) /\ Len(vec) = 1 /\ vec[1] = x
    BY <1>1
  <1>3. SumLen(vec) = size
    BY <1>1, RangeFacts, SumOne
  <1>4. 1 .. 1 = {1}
    OBVIOUS
  <1> HIDE DEF vec
  <1>5. \A b \in Nat : Lies(x, b) <=> b \in L .. (M - 1)
    BY <1>1 DEF Lies
  <1>6. \A b \in Nat : b \in Covered(vec) <=> b \in L .. (M - 1)
    <2>1. \A b \in Nat : b \in Covered(vec) <=> \E k \in 1 .. Len(vec) : Lies(vec[k], b)
      BY <1>2, CoveredFacts
    <2> QED
      BY <2>1, <1>2, <1>4, <1>5
  <1>7. Inserts(free, vec, all)
    <2>1. \A k \in 1 .. Len(vec), b \in Nat : Lies(vec[k], b) => b \notin Covered(free)
      BY <1>2, <1>4, <1>5
    <2>2. \A i, j \in 1 .. Len(vec), b \in Nat : Lies(vec[i], b) /\ Lies(vec[j], b) => i = j
      BY <1>2, <1>4
    <2>3. all = InsertAll(free, vec)
      BY DEF x, vec
    <2>4. Ordered(free)
      BY FreeListOrdered
    <2> QED
      BY <2>1, <2>2, <2>3, <2>4, <1>2, InsertAllFacts
  <1>8. /\ all.ok = TRUE /\ Ordered(all.vec) /\ SumLen(all.vec) = SumLen(free) + SumLen(vec)
        /\ \A b \in Nat : b \in Covered(all.vec) <=> b \in Covered(free) \/ b \in Covered(vec)
    <2>1. all = [vec |-> all.vec, ok |-> TRUE]
      BY <1>7, Zenon DEF Inserts
    <2>2. [vec |-> all.vec, ok |-> TRUE].ok = TRUE
      OBVIOUS
    <2>3. all.ok = TRUE
      BY <2>1, <2>2, Zenon
    <2> QED
      BY <1>7, <2>3 DEF Inserts
  <1>9. /\ FreeList(rest) /\ SumLen(rest) = SumLen(all.vec)
        /\ \A b \in Nat : b \in Covered(rest) <=> b \in Covered(all.vec)
    BY <1>8, MergeFree
  <1>10. \A b \in Nat : b \in Covered(rest) <=> b \in Covered(free) \/ b \in L .. (M - 1)
    BY <1>6, <1>8, <1>9
  <1>11. \A b \in Nat : b \in Covered(rest) => b < M
    BY <1>10
  <1>12. PlacesIn(rs, rest, M)
    BY <1>10 DEF PlacesIn
  <1> QED
    BY <1>3, <1>8, <1>9, <1>10, <1>11, <1>12 DEF Increased

-------------------------------------------------------------------------------
\* The pool as it is constructed.
LEMMA RangesInitInv == RangesInit => RangesInv
  <1> SUFFICES ASSUME RangesInit PROVE RangesInv
    OBVIOUS
  <1> DEFINE x == algo_range(0, 0, InitLen)
  <1>0. InitLen \in Nat \ {0} /\ InitLen <= MaxLen
    BY SizesAssumption
  <1>1. x \in RS /\ x.start = 0 /\ x.len = InitLen /\ x.org_start = 0
    BY <1>0, RangeFacts
  <1>2. map_addr_vec = <<x>> /\ len = InitLen /\ left = InitLen /\ aborted = FALSE
    BY DEF RangesInit
  <1> HIDE DEF x
  <1>3. <<x>> \in Seq(RS) /\ Len(<<x>>) = 1 /\ <<x>>[1] = x /\ 1 .. 1 = {1}
    BY <1>1
  <1>4. SumLen(<<x>>) = InitLen
    BY <1>0, <1>1, RangeFacts, SumOne
  <1>5. FreeList(<<x>>)
    BY <1>1, <1>3 DEF FreeList, Gapped, Bare
  <1>6. \A b \in Nat : b \in Covered(<<x>>) <=> b < InitLen
    <2>1. \A b \in Nat : b \in Covered(<<x>>) <=> \E k \in 1 .. Len(<<x>>) : Lies(<<x>>[k], b)
      BY <1>3, CoveredFacts
    <2>2. \A b \in Nat : Lies(x, b) <=> b < InitLen
      BY <1>0, <1>1 DEF Lies
    <2> QED
      BY <2>1, <2>2, <1>3
  <1>7. PoolIn(aborted, len, left, map_addr_vec)
    BY <1>0, <1>2, <1>4, <1>5, <1>6 DEF PoolIn
  <1>8. ranges = [v \in Vols |-> NoRanges]
    BY DEF RangesInit
  <1>9. VolsIn(ranges)
    <2>1. Good(NoRanges)
      BY ChainEmpty, SumEmpty DEF Good, Vol, NoRanges
    <2> QED
      BY <1>8, <2>1 DEF VolsIn
  <1>10. PlacesIn(ranges, map_addr_vec, len)
    <2>1. \A v \in Vols, i, a \in Nat : ~At(ranges[v].vec, i, a)
      BY <1>8, ChainEmpty DEF NoRanges
    <2> QED
      BY <2>1 DEF PlacesIn
  <1> QED
    BY <1>7, <1>9, <1>10 DEF RangesInv

\* A restart reads back what was saved.
LEMMA RestartSame ==
  ASSUME RangesInv, Restart
  PROVE  UNCHANGED rangesVars
  <1>1. map_addr_vec \in Seq(RS)
    BY DEF RangesInv, PoolIn, FreeList
  <1>2. len' = len /\ left' = left /\ map_addr_vec' = map_addr_vec
    BY <1>1, RestartPool DEF Restart
  <1>3. \A v \in Vols : ranges_from_json(Reloaded(ranges_to_json(ranges[v]))) = ranges[v]
    BY RestartVol DEF RangesInv, VolsIn, Good
  <1>4. ranges' = [v \in Vols |-> ranges[v]]
    BY <1>3 DEF Restart
  <1>5. ranges' = ranges
    BY <1>4 DEF RangesInv, VolsIn
  <1>6. aborted' = aborted
    BY DEF Restart
  <1> QED
    BY <1>2, <1>5, <1>6 DEF rangesVars

\* What an allocation for a volume does: a is what the loop comes to, new the volume
\* afterwards.
Grows(v, size, a, new) ==
  /\ Allocated(map_addr_vec, size, a)
  /\ Good(new) /\ Grown(ranges[v], a.vol.vec, new)
  /\ new.len = ranges[v].len + size
  /\ map_addr_vec' = a.free /\ ranges' = [ranges EXCEPT ![v] = new]
  /\ left' = left - size /\ len' = len /\ aborted' = aborted

\* An allocation or an expansion asserts nothing, and this is what it does.
LEMMA AllocGrows ==
  ASSUME RangesInv, NEW v \in Vols, NEW size \in Sizes,
         AllocRanges(v, size) \/ ExpandRanges(v, size)
  PROVE  \E a, new : Grows(v, size, a, new)
  <1> DEFINE free == map_addr_vec
             old == ranges[v]
             a == Alloc(free, size)
             joined == PlusAssign(old, a.vol.vec)
  <1>0. size \in Nat \ {0} /\ FreeList(free) /\ left = SumLen(free)
    BY SizesAssumption DEF RangesInv, PoolIn
  <1>1. size <= SumLen(free)
    BY <1>0 DEF AllocRanges, ExpandRanges
  <1>2. Allocated(free, size, a)
    BY <1>0, <1>1, AllocFacts
  <1>3. Good(a.vol) /\ a.ok = TRUE /\ a.vol.len + a.need = size /\ a.need = 0
    BY <1>2 DEF Allocated, Allocating
  <1>4. Vol(old) /\ Vol(a.vol)
    BY <1>3 DEF RangesInv, VolsIn, Good
  <1>5. /\ a.vol.ok = TRUE /\ a.vol.len = SumLen(a.vol.vec) /\ Chain(a.vol.vec) /\ a.vol.len \in Nat
        /\ old.len = SumLen(old.vec) /\ Chain(old.vec) /\ old.len \in Nat
    BY <1>4, OkVol
  <1>6. a.vol.len = size
    BY <1>3, <1>5
  <1> HIDE DEF a, free
  <1>7. CASE AllocRanges(v, size)
    <2>1. old.len = 0
      BY <1>7 DEF AllocRanges
    <2>2. \A i, b \in Nat : ~At(old.vec, i, b)
      <3> SUFFICES ASSUME NEW i \in Nat, NEW b \in Nat, At(old.vec, i, b) PROVE FALSE
        OBVIOUS
      <3>1. i < SumLen(old.vec)
        BY <1>5, AtBound
      <3> QED
        BY <3>1, <2>1, <1>5
    <2>3. Grown(old, a.vol.vec, a.vol)
      BY <2>1, <2>2 DEF Grown
    <2>4. Commit(a.ok /\ a.vol.ok, a.free, [ranges EXCEPT ![v] = a.vol], left - size)
      BY <1>7 DEF AllocRanges, a, free
    <2>5. /\ map_addr_vec' = a.free /\ ranges' = [ranges EXCEPT ![v] = a.vol]
          /\ left' = left - size /\ len' = len /\ aborted' = aborted
      BY <2>4, <1>3, <1>5 DEF Commit
    <2>6. a.vol.len = old.len + size
      BY <1>0, <1>6, <2>1
    <2> QED
      BY <1>2, <1>3, <2>3, <2>5, <2>6 DEF Grows, free
  <1>8. CASE ExpandRanges(v, size)
    <2>1. Joins(old, a.vol.vec, joined) /\ Good(joined)
      BY <1>4, <1>5, PlusAssignVol
    <2>2. joined.ok = TRUE
      BY <2>1, OkVol DEF Good
    <2>3. joined.len = old.len + size /\ Grown(old, a.vol.vec, joined)
      BY <2>1, <1>5, <1>6 DEF Joins, Grown
    <2>4. Commit(a.ok /\ a.vol.ok /\ joined.ok, a.free, [ranges EXCEPT ![v] = joined], left - size)
      BY <1>8 DEF ExpandRanges, a, free
    <2> HIDE DEF joined
    <2>5. /\ map_addr_vec' = a.free /\ ranges' = [ranges EXCEPT ![v] = joined]
          /\ left' = left - size /\ len' = len /\ aborted' = aborted
      BY <2>2, <2>4, <1>3, <1>5 DEF Commit
    <2> QED
      BY <1>2, <2>1, <2>3, <2>5 DEF Grows, free
  <1> QED
    BY <1>7, <1>8

\* The inductive invariant survives it.
LEMMA GrowsInv ==
  ASSUME RangesInv, NEW v \in Vols, NEW size \in Sizes, NEW a, NEW new, Grows(v, size, a, new)
  PROVE  RangesInv'
  <1>0. size \in Nat \ {0}
    BY SizesAssumption
  <1>1. /\ aborted = FALSE /\ len \in Nat /\ len <= MaxLen
        /\ FreeList(map_addr_vec) /\ left = SumLen(map_addr_vec)
        /\ \A c \in Nat : c \in Covered(map_addr_vec) => c < len
    BY DEF RangesInv, PoolIn
  <1>2. VolsIn(ranges) /\ PlacesIn(ranges, map_addr_vec, len)
    BY DEF RangesInv
  <1>3. /\ Allocated(map_addr_vec, size, a)
        /\ Good(new) /\ Grown(ranges[v], a.vol.vec, new)
        /\ map_addr_vec' = a.free /\ ranges' = [ranges EXCEPT ![v] = new]
        /\ left' = left - size /\ len' = len /\ aborted' = aborted
    BY DEF Grows
  <1>4. VolsIn(ranges') /\ PlacesIn(ranges', a.free, len)
    BY <1>1, <1>2, <1>3, GrowIn
  <1>5. /\ FreeList(a.free) /\ a.need = 0
        /\ SumLen(a.free) + size = SumLen(map_addr_vec) + a.need
        /\ \A b \in Nat : b \in Covered(map_addr_vec) <=> b \in Covered(a.free) \/ Has(a.vol.vec, b)
    BY <1>3 DEF Allocated, Allocating
  <1>6. SumLen(a.free) \in Nat /\ SumLen(map_addr_vec) \in Nat
    BY <1>1, <1>5, SumNat, RangeFacts DEF FreeList
  <1>7. left' = SumLen(a.free)
    BY <1>0, <1>1, <1>3, <1>5, <1>6
  <1>8. PoolIn(aborted', len', left', map_addr_vec')
    BY <1>1, <1>3, <1>5, <1>7 DEF PoolIn
  <1> QED
    BY <1>3, <1>4, <1>8 DEF RangesInv

\* What free_ranges does.
Releases(v) ==
  /\ ranges' = [ranges EXCEPT ![v] = NoRanges] /\ len' = len
  /\ \A b \in Nat : b \in Covered(map_addr_vec') <=> b \in Covered(map_addr_vec) \/ Has(ranges[v].vec, b)
  /\ RangesInv'

\* free_ranges asserts nothing either.
LEMMA FreeReleases ==
  ASSUME RangesInv, NEW v \in Vols, FreeRanges(v)
  PROVE  Releases(v)
  <1> DEFINE all == InsertAll(map_addr_vec, ranges[v].vec)
             rest == merge(all.vec, "start")
             next == [ranges EXCEPT ![v] = NoRanges]
  <1>1. /\ aborted = FALSE /\ len \in Nat /\ len <= MaxLen
        /\ FreeList(map_addr_vec) /\ left = SumLen(map_addr_vec)
        /\ \A c \in Nat : c \in Covered(map_addr_vec) => c < len
    BY DEF RangesInv, PoolIn
  <1>2. VolsIn(ranges) /\ PlacesIn(ranges, map_addr_vec, len)
    BY DEF RangesInv
  <1>3. Commit(all.ok, rest, next, left + ranges[v].len)
    BY DEF FreeRanges
  <1>4. all = InsertAll(map_addr_vec, ranges[v].vec) /\ rest = merge(all.vec, "start")
        /\ next = [ranges EXCEPT ![v] = NoRanges]
    OBVIOUS
  <1> HIDE DEF all, rest, next
  <1>5. /\ all.ok = TRUE
        /\ FreeList(rest) /\ SumLen(rest) = SumLen(map_addr_vec) + ranges[v].len
        /\ \A b \in Nat : b \in Covered(rest) <=> b \in Covered(map_addr_vec) \/ Has(ranges[v].vec, b)
        /\ \A b \in Nat : b \in Covered(rest) => b < len
        /\ VolsIn(next) /\ PlacesIn(next, rest, len)
    <2>1. Released(ranges, map_addr_vec, len, v, all, rest, next)
      BY <1>1, <1>2, <1>4, ReleaseIn
    <2> QED
      BY <2>1 DEF Released
  <1>6. /\ map_addr_vec' = rest /\ ranges' = next /\ left' = left + ranges[v].len
        /\ len' = len /\ aborted' = aborted
    BY <1>3, <1>5 DEF Commit
  <1>7. PoolIn(aborted', len', left', map_addr_vec')
    BY <1>1, <1>5, <1>6 DEF PoolIn
  <1>8. RangesInv'
    BY <1>5, <1>6, <1>7 DEF RangesInv
  <1> QED
    BY <1>4, <1>5, <1>6, <1>8 DEF Releases

\* What increase does.
Extends(size) ==
  /\ len' = len + size /\ len + size <= MaxLen /\ ranges' = ranges
  /\ \A b \in Nat : b \in Covered(map_addr_vec') <=>
       b \in Covered(map_addr_vec) \/ b \in len .. (len + size - 1)
  /\ RangesInv'

\* Nor does increase.
LEMMA IncreaseAdds ==
  ASSUME RangesInv, NEW size \in Sizes, increase(size)
  PROVE  Extends(size)
  <1> DEFINE M == len + size
             all == InsertAll(map_addr_vec, <<algo_range(len, len, size)>>)
             rest == merge(all.vec, "start")
  <1>0. size \in Nat \ {0} /\ MaxLen \in Nat
    BY SizesAssumption
  <1>1. /\ aborted = FALSE /\ len \in Nat /\ len <= MaxLen
        /\ FreeList(map_addr_vec) /\ left = SumLen(map_addr_vec)
        /\ \A c \in Nat : c \in Covered(map_addr_vec) => c < len
    BY DEF RangesInv, PoolIn
  <1>2. VolsIn(ranges) /\ PlacesIn(ranges, map_addr_vec, len)
    BY DEF RangesInv
  <1>3. /\ M <= MaxLen
        /\ \/ ~all.ok
           \/ /\ map_addr_vec' = rest /\ len' = M /\ left' = left + size
              /\ ranges' = ranges /\ aborted' = aborted
    BY DEF increase
  <1>4. all = InsertAll(map_addr_vec, <<algo_range(len, len, size)>>) /\ rest = merge(all.vec, "start")
        /\ M = len + size
    OBVIOUS
  <1> HIDE DEF all, rest, M
  <1>5. /\ all.ok = TRUE
        /\ FreeList(rest) /\ SumLen(rest) = SumLen(map_addr_vec) + size
        /\ \A b \in Nat : b \in Covered(rest) <=> b \in Covered(map_addr_vec) \/ b \in len .. (M - 1)
        /\ \A b \in Nat : b \in Covered(rest) => b < M
        /\ PlacesIn(ranges, rest, M)
    <2>1. Increased(ranges, map_addr_vec, len, size, M, all, rest)
      BY <1>0, <1>1, <1>2, <1>4, IncreaseIn
    <2> QED
      BY <2>1 DEF Increased
  <1>6. /\ map_addr_vec' = rest /\ len' = M /\ left' = left + size
        /\ ranges' = ranges /\ aborted' = aborted
    BY <1>3, <1>5
  <1>7. PoolIn(aborted', len', left', map_addr_vec')
    BY <1>0, <1>1, <1>3, <1>4, <1>5, <1>6 DEF PoolIn
  <1>8. RangesInv'
    BY <1>2, <1>5, <1>6, <1>7 DEF RangesInv
  <1> QED
    <2>1. \A b \in Nat : b \in Covered(map_addr_vec') <=>
            b \in Covered(map_addr_vec) \/ b \in len .. (len + size - 1)
      <3>1. len .. (M - 1) = len .. (len + size - 1)
        BY <1>0, <1>1, <1>4
      <3>2. Covered(map_addr_vec') = Covered(rest)
        BY <1>6
      <3>3. \A b \in Nat : b \in Covered(rest) <=> b \in Covered(map_addr_vec) \/ b \in len .. (M - 1)
        BY <1>5
      <3> QED
        BY <3>1, <3>2, <3>3, Zenon
    <2>2. len' = len + size /\ len + size <= MaxLen /\ ranges' = ranges
      BY <1>3, <1>4, <1>6
    <2> QED
      BY <2>1, <2>2, <1>8 DEF Extends

\* Every operation keeps the inductive invariant.
LEMMA RangesNextInv == RangesInv /\ [RangesNext]_rangesVars => RangesInv'
  <1> SUFFICES ASSUME RangesInv, [RangesNext]_rangesVars PROVE RangesInv'
    OBVIOUS
  <1>1. ASSUME UNCHANGED rangesVars PROVE RangesInv'
    BY <1>1 DEF rangesVars, RangesInv
  <1>2. CASE Restart
    BY <1>1, <1>2, RestartSame
  <1>3. ASSUME NEW v \in Vols, FreeRanges(v) PROVE RangesInv'
    BY <1>3, FreeReleases DEF Releases
  <1>4. ASSUME NEW v \in Vols, NEW n \in Sizes, AllocRanges(v, n) \/ ExpandRanges(v, n)
        PROVE  RangesInv'
    BY <1>4, AllocGrows, GrowsInv
  <1>5. ASSUME NEW n \in Sizes, increase(n) PROVE RangesInv'
    BY <1>5, IncreaseAdds DEF Extends
  <1> QED
    BY <1>1, <1>2, <1>3, <1>4, <1>5 DEF RangesNext

\* The invariant of the allocator holds after every operation: the free list is ordered
\* and without touching ranges, every volume is a chain of ranges, and no address of the
\* pool is both free and in use, or used twice.
THEOREM RangesInvariance == RangesSpec => []RangesInv
  BY RangesInitInv, RangesNextInv, PTL DEF RangesSpec

\* No assertion of the allocator fails, whatever is allocated, expanded, freed and
\* increased in whatever order (algo_range.cpp, lines 73, 302 and 444).
THEOREM NeverAbortsHolds == RangesSpec => []NeverAborts
  <1>1. RangesInv => NeverAborts
    BY DEF RangesInv, PoolIn, NeverAborts
  <1> QED
    BY <1>1, RangesInvariance, PTL

\* Every section of every volume is cut so that each of its sectors goes to the place
\* map_address gives it, once (map_section, map_request).
THEOREM SectionExactHolds == RangesSpec => []SectionExact
  <1>1. RangesInv => SectionExact
    <2> SUFFICES ASSUME RangesInv, NEW v \in Vols, NEW s \in 0 .. ranges[v].len - 1,
                        NEW l \in 1 .. ranges[v].len - s
                 PROVE  Exact(ranges[v], v, s, l)
      BY DEF SectionExact, Exact
    <2> DEFINE vol == ranges[v]
    <2>1. /\ vol.len = SumLen(vol.vec) /\ vol.len \in Nat /\ Chain(vol.vec)
      BY OkVol DEF RangesInv, VolsIn, Good
    <2> HIDE DEF vol
    <2>2. s \in Nat /\ l \in Nat \ {0} /\ s + l <= SumLen(vol.vec)
      BY <2>1 DEF vol
    <2>3. Exact(vol, v, s, l)
      BY <2>1, <2>2, RequestExact
    <2> QED
      BY <2>3 DEF vol
  <1> QED
    BY <1>1, RangesInvariance, PTL

-------------------------------------------------------------------------------
\* A sequence whose elements lie in a smaller set.
LEMMA Narrow ==
  ASSUME NEW S, NEW T, NEW vec \in Seq(S), \A k \in 1 .. Len(vec) : vec[k] \in T
  PROVE  vec \in Seq(T)
  <1>1. Len(vec) \in Nat /\ vec = [k \in 1 .. Len(vec) |-> vec[k]]
    BY LenProperties
  <1>2. vec \in [1 .. Len(vec) -> T]
    BY <1>1
  <1> QED
    BY <1>1, <1>2, SeqDef

\* A volume is no longer than the pool: it has its addresses once each.
LEMMA ChainBound ==
  ASSUME NEW vec, Chain(vec), NEW L \in Nat,
         \A i, a \in Nat : At(vec, i, a) => a < L,
         \A i, j, a \in Nat : At(vec, i, a) /\ At(vec, j, a) => i = j
  PROVE  SumLen(vec) <= L
  <1> DEFINE n == SumLen(vec)
             f == [i \in 0 .. (n - 1) |-> map_address(vec, i)]
  <1>0. n \in Nat
    BY ChainFacts
  <1>1. \A i \in 0 .. (n - 1) : map_address(vec, i) \in Nat /\ At(vec, i, map_address(vec, i))
    <2> SUFFICES ASSUME NEW i \in 0 .. (n - 1)
                 PROVE  map_address(vec, i) \in Nat /\ At(vec, i, map_address(vec, i))
      OBVIOUS
    <2>1. i \in Nat /\ i < SumLen(vec)
      BY <1>0
    <2> QED
      BY <2>1, AddressIs
  <1> HIDE DEF n
  <1>2. \A i \in 0 .. (n - 1) : f[i] \in 0 .. (L - 1) /\ At(vec, i, f[i]) /\ f[i] \in Nat
    <2> SUFFICES ASSUME NEW i \in 0 .. (n - 1)
                 PROVE  f[i] \in 0 .. (L - 1) /\ At(vec, i, f[i]) /\ f[i] \in Nat
      OBVIOUS
    <2>1. i \in Nat /\ f[i] \in Nat /\ At(vec, i, f[i])
      BY <1>0, <1>1
    <2>2. f[i] < L
      BY <2>1
    <2> QED
      BY <2>1, <2>2
  <1>3. f \in [0 .. (n - 1) -> 0 .. (L - 1)]
    BY <1>2
  <1>4. \A i, j \in 0 .. (n - 1) : f[i] = f[j] => i = j
    <2> SUFFICES ASSUME NEW i \in 0 .. (n - 1), NEW j \in 0 .. (n - 1), f[i] = f[j] PROVE i = j
      OBVIOUS
    <2> DEFINE b == f[i]
    <2>1. i \in Nat /\ j \in Nat /\ b \in Nat /\ At(vec, i, b) /\ At(vec, j, b)
      BY <1>0, <1>2
    <2> HIDE DEF b
    <2> QED
      BY <2>1
  <1>5. f \in Injection(0 .. (n - 1), 0 .. (L - 1))
    BY <1>3, <1>4 DEF Injection, IsInjective
  <1>6. /\ IsFiniteSet(0 .. (L - 1)) /\ Cardinality(0 .. (L - 1)) = L
        /\ Cardinality(0 .. (n - 1)) = n
    <2> DEFINE c == L - 1
               d == n - 1
    <2>1. 0 \in Int /\ c \in Int /\ d \in Int /\ (0 > c => L = 0) /\ (0 > d => n = 0)
          /\ (~(0 > c) => c - 0 + 1 = L) /\ (~(0 > d) => d - 0 + 1 = n)
      BY <1>0
    <2> HIDE DEF c, d
    <2>2. IsFiniteSet(0 .. c) /\ Cardinality(0 .. c) = L
      <3>1. IsFiniteSet(0 .. c) /\ Cardinality(0 .. c) = IF 0 > c THEN 0 ELSE c - 0 + 1
        BY <2>1, FS_Interval
      <3> QED
        BY <3>1, <2>1
    <2>3. Cardinality(0 .. d) = n
      <3>1. Cardinality(0 .. d) = IF 0 > d THEN 0 ELSE d - 0 + 1
        BY <2>1, FS_Interval
      <3> QED
        BY <3>1, <2>1
    <2> QED
      BY <2>2, <2>3 DEF c, d
  <1>7. Cardinality(0 .. (n - 1)) <= Cardinality(0 .. (L - 1))
    BY <1>5, <1>6, FS_Injection
  <1> QED
    BY <1>6, <1>7 DEF n

\* The lengths kept are the sums of the ranges, both kinds of vector are ordered, and the
\* merge pass has joined all it should, after every operation (algo_range.cpp).
THEOREM CanonicalHolds == RangesSpec => []Canonical
  <1>1. RangesInv => Canonical
    <2> SUFFICES ASSUME RangesInv PROVE Canonical
      OBVIOUS
    <2>0. /\ aborted = FALSE /\ len \in Nat /\ len <= MaxLen /\ MaxLen \in Nat
          /\ map_addr_vec \in Seq(RS) /\ Gapped(map_addr_vec) /\ Bare(map_addr_vec)
          /\ left = SumLen(map_addr_vec)
          /\ \A a \in Nat : a \in Covered(map_addr_vec) => a < len
      BY SizesAssumption DEF RangesInv, PoolIn, FreeList
    <2>1. \A r \in RS : r.org_start <= MaxLen /\ r.start <= MaxLen /\ r.len <= MaxLen
                        => r \in RangeRecords
      BY <2>0 DEF RS, RangeRecords
    \* A range that lies below len.
    <2>2. \A r \in RS : (\A a \in Nat : Lies(r, a) => a < len) => r.start <= MaxLen /\ r.len <= MaxLen
      <3> SUFFICES ASSUME NEW r \in RS, \A a \in Nat : Lies(r, a) => a < len
                   PROVE  r.start <= MaxLen /\ r.len <= MaxLen
        OBVIOUS
      <3>1. r.start \in Nat /\ r.len \in Nat \ {0}
        BY RangeFacts
      <3> DEFINE e == r.start + r.len - 1
      <3>2. e \in Nat /\ Lies(r, e) /\ Lies(r, r.start)
        BY <3>1 DEF Lies
      <3>3. e < len /\ r.start < len
        BY <3>1, <3>2
      <3> QED
        BY <3>1, <3>3, <2>0
    <2>3. map_addr_vec \in Seq(RangeRecords)
      <3> SUFFICES ASSUME NEW k \in 1 .. Len(map_addr_vec) PROVE map_addr_vec[k] \in RangeRecords
        BY <2>0, Narrow
      <3>1. \A a \in Nat : Lies(map_addr_vec[k], a) => a < len
        BY <2>0, CoveredFacts
      <3>2. map_addr_vec[k] \in RS /\ map_addr_vec[k].org_start = 0
        BY <2>0, VecFacts DEF Bare
      <3> QED
        BY <3>1, <3>2, <2>0, <2>1, <2>2
    <2>4. \A i \in 1 .. Len(map_addr_vec) - 1 :
            map_addr_vec[i].start + map_addr_vec[i].len < map_addr_vec[i + 1].start
      <3> SUFFICES ASSUME NEW i \in 1 .. Len(map_addr_vec) - 1
                   PROVE  map_addr_vec[i].start + map_addr_vec[i].len < map_addr_vec[i + 1].start
        OBVIOUS
      <3> DEFINE j == i + 1
      <3>1. i \in 1 .. Len(map_addr_vec) /\ j \in 1 .. Len(map_addr_vec) /\ i < j
        BY <2>0, VecFacts
      <3> HIDE DEF j
      <3>2. map_addr_vec[i].start + map_addr_vec[i].len < map_addr_vec[j].start
        BY <3>1, <2>0 DEF Gapped
      <3> QED
        BY <3>2 DEF j
    <2>5. ASSUME NEW v \in Vols
          PROVE  /\ Good(ranges[v]) /\ Chain(ranges[v].vec) /\ ranges[v].vec \in Seq(RS)
                 /\ ranges[v].ok = TRUE /\ ranges[v].len = SumLen(ranges[v].vec)
                 /\ Len(ranges[v].vec) \in Nat
      BY OkVol, ChainFacts DEF RangesInv, VolsIn, Good
    <2>6. ASSUME NEW v \in Vols PROVE ranges[v].vec \in Seq(RangeRecords)
      <3> DEFINE vec == ranges[v].vec
      <3>1. \A i, a \in Nat : At(vec, i, a) => a < len
        BY DEF RangesInv, PlacesIn
      <3>2. \A i, j, a \in Nat : At(vec, i, a) /\ At(vec, j, a) => i = j
        BY DEF RangesInv, PlacesIn
      <3>3. Chain(vec) /\ vec \in Seq(RS)
        BY <2>5
      <3> HIDE DEF vec
      <3>4. SumLen(vec) <= len /\ SumLen(vec) \in Nat
        BY <3>1, <3>2, <3>3, <2>0, ChainBound, ChainFacts
      <3>5. ASSUME NEW k \in 1 .. Len(vec) PROVE vec[k] \in RangeRecords
        <4>1. vec[k] \in RS /\ vec[k].org_start \in Nat /\ vec[k].len \in Nat \ {0}
          BY <3>3, ChainFacts
        <4>2. vec[k].org_start + vec[k].len <= SumLen(vec)
          BY <3>3 DEF Chain
        <4>3. vec[k].org_start <= MaxLen
          BY <4>1, <4>2, <3>4, <2>0
        <4>4. \A a \in Nat : Lies(vec[k], a) => a < len
          <5> SUFFICES ASSUME NEW a \in Nat, Lies(vec[k], a) PROVE a < len
            OBVIOUS
          <5>1. PICK i \in Nat : On(vec[k], i, a)
            BY <3>3, HasCovered
          <5> QED
            BY <5>1, <3>1 DEF At
        <4> QED
          BY <4>1, <4>3, <4>4, <2>1, <2>2
      <3>6. vec \in Seq(RangeRecords)
        BY <3>3, <3>5, Narrow
      <3> QED
        BY <3>6 DEF vec
    <2>7. ASSUME NEW v \in Vols, NEW i \in 1 .. Len(ranges[v].vec) - 1
          PROVE  LET vec == ranges[v].vec IN
                 /\ vec[i].org_start + vec[i].len = vec[i + 1].org_start
                 /\ vec[i].start + vec[i].len # vec[i + 1].start
      <3> DEFINE vec == ranges[v].vec
                 j == i + 1
      <3>1. Chain(vec) /\ NoTouch(vec) /\ i \in 1 .. Len(vec) /\ j \in 1 .. Len(vec) /\ j = i + 1
        <4>1. Chain(vec) /\ NoTouch(vec) /\ Len(vec) \in Nat
          BY <2>5 DEF Good
        <4>2. i \in 1 .. Len(vec) - 1
          OBVIOUS
        <4> HIDE DEF vec
        <4> QED
          BY <4>1, <4>2
      <3> HIDE DEF vec, j
      <3>2. vec[i].org_start + vec[i].len = vec[j].org_start /\ vec[i].start + vec[i].len # vec[j].start
        BY <3>1 DEF Chain, NoTouch
      <3> QED
        BY <3>2 DEF vec, j
    <2> QED
      <3>1. len \in 0 .. MaxLen /\ aborted \in BOOLEAN
        <4>1. len \in 0 .. MaxLen
          BY <2>0
        <4>2. aborted \in BOOLEAN
          BY <2>0, Zenon
        <4> QED
          BY <4>1, <4>2
      <3>2. \A v \in Vols : /\ ranges[v].vec \in Seq(RangeRecords) /\ ranges[v].ok
                           /\ ranges[v].len = SumLen(ranges[v].vec)
        BY <2>5, <2>6
      <3> QED
        BY <2>0, <2>3, <2>4, <2>7, <3>1, <3>2, Zenon DEF Canonical
  <1> QED
    BY <1>1, RangesInvariance, PTL

\* Where every address of a volume is.
PlaceOf(vol) == [i \in 1 .. vol.len |-> map_address(vol.vec, i - 1)]

\* s places the addresses of a volume of n addresses as its ranges do.
Placed(vol, s) ==
  /\ vol.len \in Nat
  /\ s \in Seq(Nat) /\ Len(s) = vol.len /\ DOMAIN s = 1 .. vol.len
  /\ \A i, m, a \in Nat : i = m + 1 /\ i <= vol.len => (At(vol.vec, m, a) <=> a = s[i])
  /\ \A m, a \in Nat : At(vol.vec, m, a) => m < vol.len
  /\ Pool!Range(s) \subseteq Nat
  /\ \A a \in Nat : a \in Pool!Range(s) <=> Has(vol.vec, a)

\* A volume and the sequence of its addresses.
LEMMA PlaceIs ==
  ASSUME NEW vol, Vol(vol)
  PROVE  Placed(vol, PlaceOf(vol))
  <1> DEFINE vec == vol.vec
             n == vol.len
             s == PlaceOf(vol)
  <1>0. n = SumLen(vec) /\ n \in Nat /\ Chain(vec)
    BY OkVol
  <1>1. /\ s = [i \in 1 .. n |-> map_address(vec, i - 1)]
    BY DEF PlaceOf
  <1> HIDE DEF s, n, vec
  <1>2. ASSUME NEW i \in 1 .. n, NEW m \in Nat, i = m + 1
        PROVE  s[i] \in Nat /\ \A a \in Nat : At(vec, m, a) <=> a = s[i]
    <2>1. m < SumLen(vec)
      BY <1>0, <1>2
    <2>2. i - 1 = m
      BY <1>2
    <2>3. s[i] = map_address(vec, m)
      BY <1>1, <2>2
    <2>4. map_address(vec, m) \in Nat /\ \A a \in Nat : At(vec, m, a) <=> a = map_address(vec, m)
      BY <1>0, <2>1, AddressIs
    <2> QED
      BY <2>3, <2>4
  <1>3. \A i \in 1 .. n : s[i] \in Nat
    <2> SUFFICES ASSUME NEW i \in 1 .. n PROVE s[i] \in Nat
      OBVIOUS
    <2>1. \E m \in Nat : i = m + 1
      <3>1. i - 1 \in Nat /\ i = (i - 1) + 1
        BY <1>0
      <3> QED
        BY <3>1
    <2> QED
      BY <2>1, <1>2
  <1>4. s \in [1 .. n -> Nat] /\ DOMAIN s = 1 .. n
    BY <1>1, <1>3
  <1>5. s \in Seq(Nat)
    BY <1>0, <1>4, SeqDef
  <1>6. Len(s) = n
    BY <1>0, <1>4, <1>5, LenProperties
  <1>7. \A i, m, a \in Nat : i = m + 1 /\ i <= n => (At(vec, m, a) <=> a = s[i])
    BY <1>0, <1>2
  <1>8. \A m, a \in Nat : At(vec, m, a) => m < n
    BY <1>0, AtBound
  <1>9. Pool!Range(s) = {s[i] : i \in 1 .. n}
    BY <1>4 DEF Pool!Range
  <1>10. Pool!Range(s) \subseteq Nat
    BY <1>3, <1>9
  <1>11. ASSUME NEW a \in Nat PROVE a \in Pool!Range(s) <=> Has(vec, a)
    <2>1. ASSUME NEW i \in 1 .. n, a = s[i] PROVE Has(vec, a)
      <3>1. i - 1 \in Nat /\ i = (i - 1) + 1
        BY <1>0
      <3>2. \E m \in Nat : i = m + 1
        BY <3>1
      <3> QED
        BY <3>2, <2>1, <1>2 DEF Has
    <2>2. ASSUME NEW m \in Nat, At(vec, m, a) PROVE \E i \in 1 .. n : a = s[i]
      <3> DEFINE i == m + 1
      <3>1. i \in 1 .. n /\ i \in Nat /\ i = m + 1 /\ i <= n
        BY <2>2, <1>0, <1>8
      <3> HIDE DEF i
      <3>2. a = s[i]
        BY <2>2, <3>1, <1>7
      <3> QED
        BY <3>1, <3>2
    <2> QED
      BY <2>1, <2>2, <1>9 DEF Has
  <1> QED
    BY <1>0, <1>4, <1>5, <1>6, <1>7, <1>8, <1>10, <1>11 DEF Placed, s, n, vec

\* A volume that has grown has its old addresses where they were, and the new behind.
LEMMA PlaceGrown ==
  ASSUME NEW old, Vol(old), NEW add, Vol(add), NEW new, Vol(new),
         Grown(old, add.vec, new), new.len = old.len + add.len
  PROVE  PlaceOf(new) = PlaceOf(old) \o PlaceOf(add)
  <1> DEFINE p == PlaceOf(old)
             q == PlaceOf(add)
             s == PlaceOf(new)
             l == old.len
             k == add.len
             n == new.len
             t == p \o q
  <1>1. Placed(old, p) /\ Placed(add, q) /\ Placed(new, s)
    BY PlaceIs
  <1> HIDE DEF p, q, s
  <1>2. /\ l \in Nat /\ k \in Nat /\ n \in Nat /\ n = l + k
        /\ p \in Seq(Nat) /\ q \in Seq(Nat) /\ s \in Seq(Nat)
        /\ Len(p) = l /\ Len(q) = k /\ Len(s) = n
        /\ \A i \in 1 .. l : p[i] \in Nat
        /\ \A i \in 1 .. k : q[i] \in Nat
        /\ \A i \in 1 .. n : s[i] \in Nat
    <2>1. /\ l \in Nat /\ k \in Nat /\ n \in Nat /\ n = l + k
          /\ p \in Seq(Nat) /\ q \in Seq(Nat) /\ s \in Seq(Nat)
          /\ Len(p) = l /\ Len(q) = k /\ Len(s) = n
      BY <1>1 DEF Placed
    <2> QED
      BY <2>1, ElementFacts
  <1>3. /\ t \in Seq(Nat) /\ Len(t) = n
        /\ \A i \in 1 .. n : t[i] = IF i <= l THEN p[i] ELSE q[i - l]
    <2>1. /\ t \in Seq(Nat) /\ Len(t) = Len(p) + Len(q)
          /\ \A i \in 1 .. Len(p) + Len(q) : t[i] = IF i <= Len(p) THEN p[i] ELSE q[i - Len(p)]
      BY <1>2, ConcatProperties
    <2> HIDE DEF t, l, k, n
    <2> QED
      BY <2>1, <1>2
  <1>4. /\ \A i, m, a \in Nat : i = m + 1 /\ i <= l => (At(old.vec, m, a) <=> a = p[i])
        /\ \A i, m, a \in Nat : i = m + 1 /\ i <= k => (At(add.vec, m, a) <=> a = q[i])
        /\ \A i, m, a \in Nat : i = m + 1 /\ i <= n => (At(new.vec, m, a) <=> a = s[i])
    BY <1>1 DEF Placed
  <1>5. \A i, b \in Nat : At(new.vec, i, b) <=>
          At(old.vec, i, b) \/ \E j \in Nat : i = l + j /\ At(add.vec, j, b)
    BY DEF Grown
  <1> HIDE DEF t, l, k, n
  <1>6. ASSUME NEW i \in 1 .. n PROVE s[i] = t[i]
    <2> DEFINE m == i - 1
               a == t[i]
    <2>1. m \in Nat /\ i \in Nat /\ i = m + 1 /\ i <= n
      BY <1>2
    <2>2. a \in Nat
      BY <1>3, ElementFacts
    <2> HIDE DEF m, a
    <2>3. CASE i <= l
      <3>1. a = p[i]
        BY <2>3, <1>3 DEF a
      <3>2. At(old.vec, m, a)
        BY <3>1, <2>1, <2>2, <2>3, <1>4
      <3>3. At(new.vec, m, a)
        BY <3>2, <2>1, <2>2, <1>5
      <3> QED
        BY <3>3, <2>1, <2>2, <1>4 DEF a
    <2>4. CASE ~(i <= l)
      <3> DEFINE h == i - l
                 j == m - l
      <3>1. h \in Nat /\ j \in Nat /\ h = j + 1 /\ h <= k /\ m = l + j
        BY <2>1, <2>4, <1>2
      <3>2. a = q[h]
        BY <2>4, <1>3 DEF a
      <3> HIDE DEF h, j
      <3>3. At(add.vec, j, a)
        BY <3>1, <3>2, <2>2, <1>4
      <3>4. At(new.vec, m, a)
        BY <3>1, <3>3, <2>1, <2>2, <1>5
      <3> QED
        BY <3>4, <2>1, <2>2, <1>4 DEF a
    <2> QED
      BY <2>3, <2>4
  <1>7. s = t
    BY <1>2, <1>3, <1>6, SeqEqual
  <1> QED
    BY <1>7 DEF s, t, p, q

-------------------------------------------------------------------------------
place == [v \in Vols |-> [i \in 1 .. ranges[v].len |-> map_address(ranges[v].vec, i - 1)]]

\* place, volume by volume.
LEMMA PlaceEach == \A v \in Vols : place[v] = PlaceOf(ranges[v])
  BY DEF place, PlaceOf

LEMMA PlaceNext ==
  /\ place' = [v \in Vols |-> PlaceOf(ranges'[v])]
  /\ place = [v \in Vols |-> PlaceOf(ranges[v])]
  BY DEF place, PlaceOf

\* No ranges, no addresses.
LEMMA PlaceNone == PlaceOf(NoRanges) = <<>>
  BY DEF PlaceOf, NoRanges

\* A new pool.
LEMMA PoolInit == RangesInit => Pool!Init
  <1> SUFFICES ASSUME RangesInit PROVE Pool!Init
    OBVIOUS
  <1>1. InitLen \in Nat \ {0}
    BY SizesAssumption
  <1> DEFINE x == algo_range(0, 0, InitLen)
  <1>2. x \in RS /\ x.start = 0 /\ x.len = InitLen
    BY <1>1, RangeFacts
  <1>3. map_addr_vec = <<x>> /\ len = InitLen /\ ranges = [v \in Vols |-> NoRanges]
    BY DEF RangesInit
  <1> HIDE DEF x
  <1>4. <<x>> \in Seq(RS) /\ Len(<<x>>) = 1 /\ <<x>>[1] = x /\ 1 .. 1 = {1}
    BY <1>2
  <1>5. Covered(<<x>>) = 0 .. (InitLen - 1)
    <2>1. Covered(<<x>>) \subseteq Nat
          /\ \A b \in Nat : b \in Covered(<<x>>) <=> \E k \in 1 .. Len(<<x>>) : Lies(<<x>>[k], b)
      BY <1>4, CoveredFacts
    <2>2. \A b \in Nat : Lies(x, b) <=> b \in 0 .. (InitLen - 1)
      BY <1>1, <1>2 DEF Lies
    <2>3. \A b \in 0 .. (InitLen - 1) : b \in Nat
      BY <1>1
    <2>4. \A b \in Nat : b \in Covered(<<x>>) <=> b \in 0 .. (InitLen - 1)
      BY <2>1, <2>2, <1>4
    <2> DEFINE S == Covered(<<x>>)
               T == 0 .. (InitLen - 1)
    <2> HIDE DEF S, T
    <2>5. S \subseteq Nat /\ T \subseteq Nat /\ \A b \in Nat : b \in S <=> b \in T
      BY <2>1, <2>3, <2>4 DEF S, T
    <2>6. S = T
      BY <2>5
    <2> QED
      BY <2>6 DEF S, T
  <1>6. place = [v \in Vols |-> <<>>]
    BY <1>3, PlaceNext, PlaceNone
  <1> QED
    BY <1>3, <1>5, <1>6 DEF Pool!Init, place

\* An allocation or an expansion is a Grow of the pool of addresses.
LEMMA GrowsPool ==
  ASSUME RangesInv, NEW v \in Vols, NEW size \in Sizes, NEW a, NEW new, Grows(v, size, a, new)
  PROVE  Pool!Grow(v, size)
  <1> DEFINE free == Covered(map_addr_vec)
             rest == Covered(a.free)
             old == ranges[v]
             given == PlaceOf(a.vol)
  <1>0. size \in Nat \ {0}
    BY SizesAssumption
  <1>1. /\ Allocated(map_addr_vec, size, a)
        /\ Good(new) /\ Grown(old, a.vol.vec, new)
        /\ new.len = old.len + size
        /\ map_addr_vec' = a.free /\ ranges' = [ranges EXCEPT ![v] = new]
        /\ len' = len
    BY DEF Grows
  <1>2. /\ Vol(a.vol) /\ FreeList(a.free) /\ a.vol.len + a.need = size /\ a.need = 0
        /\ \A b \in Nat : b \in free <=> b \in rest \/ Has(a.vol.vec, b)
        /\ \A b, c \in Nat : Has(a.vol.vec, b) /\ c \in rest => b < c
        /\ \A i, j, b, c \in Nat : At(a.vol.vec, i, b) /\ At(a.vol.vec, j, c) /\ i < j => b < c
    BY <1>1 DEF Allocated, Allocating, Good
  <1>3. Vol(old) /\ Vol(new) /\ map_addr_vec \in Seq(RS) /\ a.free \in Seq(RS)
    BY <1>1, <1>2 DEF RangesInv, VolsIn, Good, PoolIn, FreeList
  <1>4. free \subseteq Nat /\ rest \subseteq Nat
    BY <1>3, CoveredFacts
  <1>5. a.vol.len = size
    <2>1. a.vol.len \in Nat
      BY <1>2, OkVol
    <2> QED
      BY <2>1, <1>2
  <1>6. Placed(a.vol, given)
    BY <1>2, PlaceIs
  <1>7. /\ given \in Seq(Nat) /\ Len(given) = size /\ DOMAIN given = 1 .. size
        /\ \A i, m, b \in Nat : i = m + 1 /\ i <= size => (At(a.vol.vec, m, b) <=> b = given[i])
        /\ Pool!Range(given) \subseteq Nat
        /\ \A b \in Nat : b \in Pool!Range(given) <=> Has(a.vol.vec, b)
    BY <1>5, <1>6 DEF Placed
  <1>8. PlaceOf(new) = PlaceOf(old) \o given
    BY <1>1, <1>2, <1>3, <1>5, PlaceGrown
  <1> HIDE DEF free, rest, given
  <1>9. \A i \in 1 .. size : given[i] \in Nat /\ given[i] \in Pool!Range(given)
    BY <1>7, ElementFacts DEF Pool!Range
  <1>10. given \in [1 .. size -> free]
    <2>1. \A i \in 1 .. size : given[i] \in free
      BY <1>2, <1>7, <1>9
    <2>2. given \in [1 .. size -> Nat]
      BY <1>7, LenProperties
    <2> QED
      BY <2>1, <2>2
  <1>11. \A i, j \in 1 .. size : i < j => given[i] < given[j]
    <2> SUFFICES ASSUME NEW i \in 1 .. size, NEW j \in 1 .. size, i < j PROVE given[i] < given[j]
      OBVIOUS
    <2> DEFINE m == i - 1
               n == j - 1
               b == given[i]
               c == given[j]
    <2>1. /\ i \in Nat /\ j \in Nat /\ m \in Nat /\ n \in Nat /\ i = m + 1 /\ j = n + 1 /\ m < n
          /\ i <= size /\ j <= size
      BY <1>0
    <2>2. b \in Nat /\ c \in Nat
      BY <1>9
    <2> HIDE DEF m, n
    <2>3. At(a.vol.vec, m, b) /\ At(a.vol.vec, n, c)
      BY <2>1, <2>2, <1>7
    <2> HIDE DEF b, c
    <2>4. b < c
      BY <2>1, <2>2, <2>3, <1>2
    <2> QED
      BY <2>4 DEF b, c
  <1>12. \A b \in Nat : b \in rest <=> b \in free /\ b \notin Pool!Range(given)
    <2> SUFFICES ASSUME NEW b \in Nat
                 PROVE  b \in rest <=> b \in free /\ b \notin Pool!Range(given)
      OBVIOUS
    <2>1. ~(b \in rest /\ Has(a.vol.vec, b))
      <3>1. ~(b < b)
        OBVIOUS
      <3> QED
        BY <3>1, <1>2
    <2> QED
      BY <2>1, <1>2, <1>7
  <1>13. rest = free \ Pool!Range(given)
    BY <1>4, <1>12
  <1>14. \A i \in 1 .. size, b \in free \ Pool!Range(given) : given[i] < b
    BY <1>2, <1>4, <1>7, <1>9, <1>13
  <1>15. place' = [place EXCEPT ![v] = @ \o given]
    <2>1. \A w \in Vols : ranges'[w] = IF w = v THEN new ELSE ranges[w]
      BY <1>1 DEF RangesInv, VolsIn
    <2>2. place' = [w \in Vols |-> PlaceOf(ranges'[w])] /\ place = [w \in Vols |-> PlaceOf(ranges[w])]
      BY PlaceNext
    <2> QED
      BY <2>1, <2>2, <1>8
  <1> QED
    BY <1>1, <1>10, <1>11, <1>13, <1>14, <1>15 DEF Pool!Grow, free, rest, place

\* free_ranges is a Release.
LEMMA FreePool ==
  ASSUME RangesInv, NEW v \in Vols, FreeRanges(v)
  PROVE  Pool!Release(v)
  <1> DEFINE free == Covered(map_addr_vec)
             next == Covered(map_addr_vec')
             gone == Pool!Range(place[v])
  <1>1. /\ ranges' = [ranges EXCEPT ![v] = NoRanges] /\ len' = len
        /\ \A b \in Nat : b \in next <=> b \in free \/ Has(ranges[v].vec, b)
        /\ RangesInv'
    BY FreeReleases DEF Releases
  <1>2. map_addr_vec \in Seq(RS) /\ map_addr_vec' \in Seq(RS)
    BY <1>1 DEF RangesInv, PoolIn, FreeList
  <1>3. free \subseteq Nat /\ next \subseteq Nat
    BY <1>2, CoveredFacts
  <1>4. gone \subseteq Nat /\ \A b \in Nat : b \in gone <=> Has(ranges[v].vec, b)
    <2>1. Placed(ranges[v], place[v])
      BY PlaceEach, PlaceIs DEF RangesInv, VolsIn, Good
    <2> QED
      BY <2>1 DEF Placed
  <1> HIDE DEF free, next, gone
  <1>5. next = free \cup gone
    BY <1>1, <1>3, <1>4
  <1>6. place' = [place EXCEPT ![v] = <<>>]
    <2>1. \A w \in Vols : ranges'[w] = IF w = v THEN NoRanges ELSE ranges[w]
      BY <1>1 DEF RangesInv, VolsIn
    <2>2. place' = [w \in Vols |-> PlaceOf(ranges'[w])] /\ place = [w \in Vols |-> PlaceOf(ranges[w])]
      BY PlaceNext
    <2> QED
      BY <2>1, <2>2, PlaceNone
  <1> QED
    BY <1>1, <1>5, <1>6 DEF Pool!Release, free, next, gone, place

\* increase is an Increase.
LEMMA IncreasePool ==
  ASSUME RangesInv, NEW n \in Sizes, increase(n)
  PROVE  Pool!Increase(n)
  <1> DEFINE free == Covered(map_addr_vec)
             next == Covered(map_addr_vec')
             more == len .. (len + n - 1)
  <1>1. /\ len' = len + n /\ len + n <= MaxLen /\ ranges' = ranges
        /\ \A b \in Nat : b \in next <=> b \in free \/ b \in more
        /\ RangesInv'
    BY IncreaseAdds DEF Extends
  <1>2. map_addr_vec \in Seq(RS) /\ map_addr_vec' \in Seq(RS) /\ len \in Nat
    BY <1>1 DEF RangesInv, PoolIn, FreeList
  <1>3. free \subseteq Nat /\ next \subseteq Nat
    BY <1>2, CoveredFacts
  <1>4. more \subseteq Nat
    BY <1>2
  <1> HIDE DEF free, next, more
  <1>5. next = free \cup more
    BY <1>1, <1>3, <1>4
  <1>6. place' = place
    BY <1>1, PlaceNext
  <1> QED
    BY <1>1, <1>5, <1>6 DEF Pool!Increase, free, next, more, place

\* Every operation is a step of the pool of addresses, or a stutter.
LEMMA PoolStep == RangesInv /\ [RangesNext]_rangesVars => [Pool!Next]_(Pool!vars)
  <1> SUFFICES ASSUME RangesInv, [RangesNext]_rangesVars PROVE [Pool!Next]_(Pool!vars)
    OBVIOUS
  <1>1. ASSUME UNCHANGED rangesVars PROVE UNCHANGED Pool!vars
    BY <1>1 DEF rangesVars, Pool!vars, Covered
  <1>2. CASE Restart
    BY <1>1, <1>2, RestartSame
  <1>3. ASSUME NEW v \in Vols, FreeRanges(v) PROVE Pool!Next
    BY <1>3, FreePool DEF Pool!Next
  <1>4. ASSUME NEW v \in Vols, NEW n \in Sizes, AllocRanges(v, n) \/ ExpandRanges(v, n)
        PROVE  Pool!Next
    BY <1>4, AllocGrows, GrowsPool DEF Pool!Next
  <1>5. ASSUME NEW n \in Sizes, increase(n) PROVE Pool!Next
    BY <1>5, IncreasePool DEF Pool!Next
  <1> QED
    BY <1>1, <1>2, <1>3, <1>4, <1>5 DEF RangesNext

\* algo_use_ranges implements the pool of addresses: the lowest free addresses are given
\* out, nobody's data are moved, and what is freed is free again.
THEOREM ImplementsPool == RangesSpec => PoolSpec
  BY PoolInit, PoolStep, RangesInvariance, PTL DEF RangesSpec, PoolSpec, Pool!Spec

-------------------------------------------------------------------------------
(* The blocks of a JBOD: each starts at 0 of its own, so their ranges are  *)
(* never joined.                                                           *)

Based(vec) == \A i \in 1 .. Len(vec) : vec[i].start = 0

\* The merge pass leaves such ranges alone.
LEMMA MergeStill ==
  ASSUME NEW vec \in Seq(RS), Based(vec)
  PROVE  merge(vec, "org_start") = vec
  <1> DEFINE n == Len(vec)
             low(m) == SubSeq(vec, 1, m)
  <1>0. /\ n \in Nat
        /\ \A i \in 1 .. n : vec[i] \in RS /\ vec[i].len \in Nat \ {0} /\ vec[i].start = 0
    BY ElementFacts, RangeFacts DEF Based
  <1>1. PICK g : /\ merge(vec, "org_start") = g[n]
                 /\ g[0] = <<>>
                 /\ \A i \in 1 .. n : g[i] = MergeNext(g[i - 1], vec[i], "org_start")
    BY <1>0, MergeLoop
  <1> DEFINE T == {m \in Nat : m <= n => g[m] = low(m)}
  <1>2. 0 \in T
    <2>1. SubSeq(vec, 1, 0) = <<>>
      BY SubSeqEmpty
    <2> QED
      BY <1>1, <2>1
  <1>3. ASSUME NEW m \in Nat, m \in T PROVE m + 1 \in T
    <2> SUFFICES ASSUME m + 1 <= n PROVE g[m + 1] = low(m + 1)
      OBVIOUS
    <2>1. /\ m + 1 \in 1 .. n /\ m + 1 - 1 = m /\ m <= n /\ g[m] = low(m)
          /\ (m # 0 => m \in 1 .. n)
      BY <1>0, <1>3
    <2> DEFINE next == m + 1
               r == vec[next]
    <2>2. g[next] = MergeNext(low(m), r, "org_start")
      <3>1. next \in 1 .. n /\ g[next - 1] = low(m)
        BY <2>1
      <3> HIDE DEF next, low
      <3> QED
        BY <1>1, <3>1
    <2>3. /\ low(m) \in Seq(RS) /\ Len(low(m)) = m
          /\ m # 0 => Last(low(m)) = vec[m]
      <3>1. /\ SubSeq(vec, 1, m) \in Seq(RS)
            /\ Len(SubSeq(vec, 1, m)) = IF 1 <= m THEN m - 1 + 1 ELSE 0
            /\ \A i \in 1 .. m - 1 + 1 : SubSeq(vec, 1, m)[i] = vec[1 + i - 1]
        <4>1. 1 \in Int /\ m \in Int /\ \A i \in 1 .. m : vec[i] \in RS
          BY <1>0, <2>1
        <4> QED
          BY <4>1, SubSeqProperties
      <3>2. Len(low(m)) = m
        BY <3>1
      <3>3. m # 0 => low(m)[m] = vec[m]
        BY <3>1
      <3> QED
        BY <3>1, <3>2, <3>3 DEF Last
    <2>4. m # 0 => ~Touch(Last(low(m)), r, "org_start")
      <3>1. /\ m # 0 => vec[m].start = 0 /\ vec[m].len \in Nat \ {0}
            /\ r.start = 0 /\ r.len \in Nat \ {0}
        BY <1>0, <2>1
      <3> HIDE DEF r
      <3> QED
        BY <2>3, <3>1 DEF Touch, is_neighbour
    <2>5. MergeNext(low(m), r, "org_start") = Append(low(m), r)
      <3> HIDE DEF r, low
      <3> QED
        BY <2>3, <2>4 DEF MergeNext
    <2>6. low(next) = low(m) \o <<r>>
      <3>1. 1 \in 1 .. next /\ next \in 1 .. n /\ next - 1 = m
        BY <1>0, <2>1
      <3> HIDE DEF next
      <3>2. SubSeq(vec, 1, next) = SubSeq(vec, 1, next - 1) \o <<vec[next]>>
        BY <3>1, SubSeqRecursiveSecond
      <3> QED
        BY <3>1, <3>2
    <2>7. Append(low(m), r) = low(m) \o <<r>>
      <3>1. r \in RS
        BY <1>0, <2>1
      <3> HIDE DEF r, low
      <3> QED
        BY <2>3, <3>1, AppendIsConcat
    <2> QED
      BY <2>2, <2>5, <2>6, <2>7
  <1>4. n \in T
    <2> HIDE DEF T
    <2> QED
      BY <1>0, <1>2, <1>3, Induct
  <1> QED
    BY <1>1, <1>4, SubSeqFull

\* One turn of the loop of operator+=, at the end of a chain.
LEMMA AddRangeIs ==
  ASSUME NEW vol, Vol(vol), NEW r \in RS
  PROVE  LET x == algo_range(vol.len, r.start, r.len)
             app == Append(vol.vec, x) IN
         /\ AddRange(vol, r) = [vec |-> app, len |-> vol.len + r.len, ok |-> TRUE]
         /\ x \in RS
         /\ Adds(vol.vec, x, app)
         /\ Vol(AddRange(vol, r))
  <1> DEFINE x == algo_range(vol.len, r.start, r.len)
             app == Append(vol.vec, x)
             res == AddRange(vol, r)
  <1>1. /\ vol = [vec |-> vol.vec, len |-> vol.len, ok |-> TRUE]
        /\ vol.len = SumLen(vol.vec) /\ Chain(vol.vec) /\ vol.len \in Nat
    BY ChainFacts DEF Vol
  <1>2. x \in RS /\ x.org_start = SumLen(vol.vec) /\ x.len = r.len
    BY <1>1, RangeFacts
  <1>3. [vol EXCEPT !.len = @ + r.len] = [vec |-> vol.vec, len |-> vol.len + r.len, ok |-> TRUE]
    <2>2. [vol EXCEPT !.len = vol.len + r.len]
            = [vec |-> vol.vec, len |-> vol.len + r.len, ok |-> TRUE]
      <3> DEFINE v == vol.vec
                 n == vol.len
                 z == n + r.len
                 b == TRUE
      <3>1. vol = [vec |-> v, len |-> n, ok |-> b]
        BY <1>1
      <3> HIDE DEF v, n, z, b
      <3>2. [vol EXCEPT !.len = z] = [vec |-> v, len |-> z, ok |-> b]
        BY <3>1
      <3> QED
        BY <3>2 DEF v, n, z, b
    <2> QED
      BY <2>2
  <1> HIDE DEF x
  <1>4. res = [vec |-> app, len |-> vol.len + r.len, ok |-> TRUE]
    BY <1>1, <1>2, <1>3, InsertEnd DEF AddRange, x
  <1>5. Adds(vol.vec, x, app)
    BY <1>1, <1>2, AppendVol
  <1>6. SumLen(app) = vol.len + r.len /\ Chain(app)
    BY <1>1, <1>2, <1>5 DEF Adds
  <1> HIDE DEF app, res
  <1>8. Vol(res)
    BY <1>4, <1>6 DEF Vol
  <1> QED
    BY <1>2, <1>4, <1>5, <1>8 DEF res, x, app

-------------------------------------------------------------------------------
(* The sectors of the blocks, one block after the other.                   *)

LEMMA FlattenEmpty == FlattenSeq(<<>>) = <<>>
  <1>1. Len(<<>>) = 0
    OBVIOUS
  <1> QED
    BY <1>1 DEF FlattenSeq

LEMMA FlattenLoop ==
  ASSUME NEW seqs, Len(seqs) \in Nat \ {0}
  PROVE  \E loop : /\ FlattenSeq(seqs) = loop[Len(seqs)]
                   /\ loop[1] = seqs[1]
                   /\ \A i \in 2 .. Len(seqs) : loop[i] = loop[i - 1] \o seqs[i]
  <1> DEFINE n == Len(seqs)
             Upto(f, m) == /\ f[1] = seqs[1]
                           /\ \A i \in 2 .. m : f[i] = f[i - 1] \o seqs[i]
             Exists(m) == \E f : Upto(f, m)
             T == {m \in Nat : Exists(m)}
  <1>1. 0 \in T
    <2>1. Upto([i \in {1} |-> seqs[1]], 0)
      OBVIOUS
    <2> QED
      BY <2>1
  <1>2. ASSUME NEW m \in Nat, m \in T PROVE m + 1 \in T
    <2> PICK f : Upto(f, m)
      BY <1>2
    <2> DEFINE next == m + 1
               g == [i \in 1 .. next |->
                       IF i = 1 THEN seqs[1] ELSE IF i <= m THEN f[i] ELSE f[m] \o seqs[next]]
    <2>1. /\ \A i \in 1 .. m : g[i] = f[i]
          /\ g[1] = seqs[1]
          /\ next # 1 => g[next] = f[m] \o seqs[next]
      <3>1. /\ \A i \in 1 .. m : i \in 1 .. next /\ i <= m
            /\ 1 \in 1 .. next /\ next \in 1 .. next /\ ~(next <= m)
        OBVIOUS
      <3> HIDE DEF next
      <3> QED
        BY <3>1
    <2> HIDE DEF g
    <2>2. ASSUME NEW i \in 2 .. next PROVE g[i] = g[i - 1] \o seqs[i]
      <3>1. CASE i <= m
        <4>1. i \in 2 .. m /\ i \in 1 .. m /\ i - 1 \in 1 .. m
          BY <3>1
        <4> QED
          BY <2>1, <4>1
      <3>2. CASE i = next
        <4>1. next # 1 /\ next - 1 = m /\ m \in 1 .. m
          BY <3>2
        <4> HIDE DEF next
        <4>2. g[next] = f[m] \o seqs[next] /\ g[m] = f[m]
          BY <2>1, <4>1
        <4> QED
          BY <3>2, <4>1, <4>2
      <3>3. i <= m \/ i = next
        OBVIOUS
      <3> QED
        BY <3>1, <3>2, <3>3
    <2>3. Upto(g, next)
      BY <2>1, <2>2
    <2>4. Exists(next)
      BY <2>3
    <2> HIDE DEF Exists
    <2> QED
      BY <2>4
  <1>3. n \in T
    <2> HIDE DEF T
    <2> QED
      BY <1>1, <1>2, Induct
  <1>4. PICK f : Upto(f, n)
    BY <1>3
  <1> DEFINE h == [i \in 1 .. n |->
                     IF i = 1 THEN seqs[i] ELSE f[i - 1] \o seqs[i]]
  <1>5. \A i \in 1 .. n : h[i] = f[i]
    <2>1. \A i \in 1 .. n : i # 1 => i \in 2 .. n
      OBVIOUS
    <2> QED
      BY <1>4, <2>1
  <1>6. h = [i \in 1 .. n |-> IF i = 1 THEN seqs[i] ELSE h[i - 1] \o seqs[i]]
    <2>1. \A i \in 1 .. n : i # 1 => i - 1 \in 1 .. n
      OBVIOUS
    <2>2. \A i \in 1 .. n : i # 1 => h[i - 1] = f[i - 1]
      BY <1>5, <2>1
    <2> QED
      BY <2>2
  <1> HIDE DEF h
  <1>7. \E loop : loop = [i \in 1 .. Len(seqs) |->
                    IF i = 1 THEN seqs[i] ELSE loop[i - 1] \o seqs[i]]
    BY <1>6
  <1> DEFINE found == CHOOSE loop : loop = [i \in 1 .. Len(seqs) |->
                        IF i = 1 THEN seqs[i] ELSE loop[i - 1] \o seqs[i]]
  <1>8. found = [i \in 1 .. Len(seqs) |->
                   IF i = 1 THEN seqs[i] ELSE found[i - 1] \o seqs[i]]
    BY <1>7
  <1>9. FlattenSeq(seqs) = found[Len(seqs)]
    <2>1. Len(seqs) # 0
      OBVIOUS
    <2> QED
      BY <2>1 DEF FlattenSeq
  <1> HIDE DEF found
  <1>10. /\ found[1] = seqs[1]
         /\ \A i \in 2 .. Len(seqs) : found[i] = found[i - 1] \o seqs[i]
    <2>1. 1 \in 1 .. Len(seqs)
      OBVIOUS
    <2>2. \A i \in 2 .. Len(seqs) : i \in 1 .. Len(seqs) /\ i # 1
      OBVIOUS
    <2> QED
      BY <1>8, <2>1, <2>2, Zenon
  <1> QED
    BY <1>9, <1>10

\* Another block at the end.
LEMMA FlattenAppend ==
  ASSUME NEW S, NEW seqs \in Seq(Seq(S)), NEW x \in Seq(S)
  PROVE  FlattenSeq(Append(seqs, x)) = FlattenSeq(seqs) \o x
  <1> DEFINE n == Len(seqs)
             k == n + 1
             all == Append(seqs, x)
  <1>1. /\ n \in Nat /\ k = n + 1 /\ Len(all) = k /\ all[k] = x
        /\ \A i \in 1 .. n : all[i] = seqs[i]
    BY ElementFacts, AppendProperties
  <1> HIDE DEF all, k
  <1>2. PICK g : /\ FlattenSeq(all) = g[k]
                 /\ g[1] = all[1]
                 /\ \A i \in 2 .. k : g[i] = g[i - 1] \o all[i]
    <2>1. Len(all) \in Nat \ {0}
      BY <1>1
    <2>2. \E g : /\ FlattenSeq(all) = g[Len(all)]
                 /\ g[1] = all[1]
                 /\ \A i \in 2 .. Len(all) : g[i] = g[i - 1] \o all[i]
      BY <2>1, FlattenLoop
    <2>3. Len(all) = k
      BY <1>1
    <2> QED
      BY <2>2, <2>3
  <1>3. CASE n = 0
    <2>1. seqs = <<>>
      BY <1>3, EmptySeq
    <2>2. FlattenSeq(seqs) = <<>>
      BY <2>1, FlattenEmpty
    <2>3. FlattenSeq(all) = x
      BY <1>1, <1>2, <1>3
    <2> QED
      BY <2>2, <2>3, ConcatEmptySeq DEF all
  <1>4. CASE n # 0
    <2>1. PICK f : /\ FlattenSeq(seqs) = f[n]
                   /\ f[1] = seqs[1]
                   /\ \A i \in 2 .. n : f[i] = f[i - 1] \o seqs[i]
      <3>1. Len(seqs) \in Nat \ {0}
        BY <1>1, <1>4
      <3> QED
        BY <3>1, FlattenLoop
    <2> DEFINE T == {m \in Nat : m # 0 /\ m <= n => f[m] = g[m]}
    <2>2. 0 \in T
      OBVIOUS
    <2>3. \A m \in Nat : m \in T => m + 1 \in T
      <3> SUFFICES ASSUME NEW m \in Nat, m \in T, m + 1 <= n PROVE f[m + 1] = g[m + 1]
        OBVIOUS
      <3>1. CASE m = 0
        <4>1. 1 \in 1 .. n /\ m + 1 = 1
          BY <1>1, <3>1
        <4> QED
          BY <1>1, <1>2, <2>1, <4>1
      <3>2. CASE m # 0
        <4> DEFINE i == m + 1
        <4>1. /\ i \in 2 .. n /\ i \in 2 .. k /\ i \in 1 .. n
              /\ i - 1 = m /\ f[m] = g[m]
          BY <1>1, <3>2
        <4> HIDE DEF i
        <4>2. f[i] = f[m] \o seqs[i] /\ g[i] = g[m] \o all[i]
          BY <1>2, <2>1, <4>1
        <4>3. f[i] = g[i]
          BY <1>1, <4>1, <4>2
        <4> QED
          BY <4>3 DEF i
      <3> QED
        BY <3>1, <3>2
    <2>4. n \in T
      <3> HIDE DEF T
      <3> QED
        BY <1>1, <2>2, <2>3, Induct
    <2>5. k \in 2 .. k /\ k - 1 = n
      BY <1>1, <1>4
    <2>6. f[n] = g[n]
      BY <1>4, <2>4
    <2>7. g[k] = g[n] \o x
      BY <1>1, <1>2, <2>5
    <2> QED
      BY <1>2, <2>1, <2>6, <2>7 DEF all
  <1> QED
    BY <1>3, <1>4

\* Range b is where the sectors of block b are.
Laid(vec, blocks) ==
  /\ Len(vec) = Len(blocks)
  /\ \A b \in 1 .. Len(blocks) : vec[b].start = 0 /\ vec[b].len = Len(blocks[b])

\* Sector a of block b, from 1, is behind those of the blocks before it.
Flat(S, blocks, vec) ==
  /\ FlattenSeq(blocks) \in Seq(S)
  /\ Len(FlattenSeq(blocks)) = SumLen(vec)
  /\ \A b \in 1 .. Len(blocks) : \A a \in 1 .. Len(blocks[b]) :
       FlattenSeq(blocks)[vec[b].org_start + a] = blocks[b][a]

LEMMA FlattenAt ==
  ASSUME NEW S, NEW blocks \in Seq(Seq(S)), NEW vec, Chain(vec), Laid(vec, blocks)
  PROVE  Flat(S, blocks, vec)
  <1> DEFINE n == Len(blocks)
  <1>0. /\ n \in Nat /\ Len(vec) = n /\ vec \in Seq(RS) /\ SumLen(vec) \in Nat
        /\ \A b \in 1 .. n : /\ blocks[b] \in Seq(S) /\ vec[b].org_start \in Nat
                             /\ vec[b].len = Len(blocks[b]) /\ Len(blocks[b]) \in Nat
    BY ElementFacts, ChainFacts DEF Laid
  <1>1. CASE n = 0
    <2>1. blocks = <<>> /\ vec = <<>>
      BY <1>0, <1>1, EmptySeq
    <2>2. FlattenSeq(blocks) = <<>> /\ SumLen(vec) = 0
      BY <2>1, FlattenEmpty, SumEmpty
    <2>3. <<>> \in Seq(S) /\ Len(<<>>) = 0
      BY EmptySeq
    <2>4. \A b \in 1 .. Len(blocks) : FALSE
      BY <1>0, <1>1
    <2> QED
      BY <2>2, <2>3, <2>4 DEF Flat
  <1>2. CASE n # 0
    <2>1. PICK f : /\ FlattenSeq(blocks) = f[n]
                   /\ f[1] = blocks[1]
                   /\ \A i \in 2 .. n : f[i] = f[i - 1] \o blocks[i]
      <3>1. Len(blocks) \in Nat \ {0}
        BY <1>0, <1>2
      <3> QED
        BY <3>1, FlattenLoop
    <2> DEFINE Fine(m) == /\ f[m] \in Seq(S)
                          /\ Len(f[m]) = vec[m].org_start + vec[m].len
                          /\ \A b \in 1 .. m : \A a \in 1 .. Len(blocks[b]) :
                               f[m][vec[b].org_start + a] = blocks[b][a]
               T == {m \in Nat : m # 0 /\ m <= n => Fine(m)}
    <2>2. 0 \in T
      OBVIOUS
    <2>3. ASSUME NEW m \in Nat, m \in T PROVE m + 1 \in T
      <3> DEFINE next == m + 1
      <3> SUFFICES ASSUME next <= n PROVE Fine(next)
        OBVIOUS
      <3>1. CASE m = 0
        <4>1. next = 1 /\ 1 \in 1 .. n /\ vec[1].org_start = 0
          BY <1>0, <1>2, <3>1 DEF Chain
        <4>2. \A b \in 1 .. 1 : b = 1
          OBVIOUS
        <4>3. \A a \in 1 .. Len(blocks[1]) : vec[1].org_start + a = a
          BY <1>0, <4>1
        <4>4. Len(blocks[1]) = vec[1].org_start + vec[1].len
          BY <1>0, <4>1
        <4>5. Fine(1)
          BY <1>0, <2>1, <4>1, <4>2, <4>3, <4>4
        <4> HIDE DEF Fine
        <4> QED
          BY <4>1, <4>5
      <3>2. CASE m # 0
        <4>1. /\ next \in 2 .. n /\ next \in 1 .. n /\ m \in 1 .. n
              /\ next - 1 = m /\ next = m + 1 /\ Fine(m)
          BY <1>0, <2>3, <3>2
        <4> HIDE DEF next
        <4> DEFINE low == f[m]
                   x == blocks[next]
        <4>2. f[next] = low \o x
          BY <2>1, <4>1
        <4>3. low \in Seq(S) /\ x \in Seq(S) /\ Len(low) \in Nat /\ Len(x) \in Nat
          BY <1>0, <4>1, ElementFacts
        <4>4. vec[m].org_start + vec[m].len = vec[next].org_start
          BY <1>0, <4>1 DEF Chain
        <4>5. Len(low) = vec[next].org_start /\ Len(x) = vec[next].len
          BY <1>0, <4>1, <4>4
        <4>6. \A b \in 1 .. m : \A a \in 1 .. Len(blocks[b]) :
                /\ vec[b].org_start + a \in 1 .. Len(low)
                /\ low[vec[b].org_start + a] = blocks[b][a]
          <5> TAKE b \in 1 .. m
          <5> TAKE a \in 1 .. Len(blocks[b])
          <5>1. b \in 1 .. n /\ (b < next)
            BY <1>0, <4>1
          <5>2. vec[b].org_start + vec[b].len <= vec[next].org_start
            BY <1>0, <4>1, <5>1 DEF Chain
          <5>3. /\ vec[b].org_start \in Nat /\ vec[b].len = Len(blocks[b])
                /\ Len(blocks[b]) \in Nat /\ vec[next].org_start \in Nat
            BY <1>0, <4>1, <5>1
          <5>4. vec[b].org_start + a \in 1 .. Len(low)
            <6> DEFINE ob == vec[b].org_start
                       lb == vec[b].len
                       z == vec[next].org_start
            <6>1. /\ ob \in Nat /\ lb \in Nat /\ z \in Nat /\ ob + lb <= z /\ Len(low) = z
                  /\ a \in 1 .. lb
              BY <4>5, <5>2, <5>3
            <6> HIDE DEF ob, lb, z
            <6>2. ob + a \in 1 .. z
              BY <6>1
            <6> QED
              BY <6>1, <6>2 DEF ob
          <5> QED
            BY <4>1, <5>4
        <4>7. /\ low \o x \in Seq(S) /\ Len(low \o x) = Len(low) + Len(x)
              /\ \A i \in 1 .. Len(low) : (low \o x)[i] = low[i]
              /\ \A a \in 1 .. Len(x) : (low \o x)[Len(low) + a] = x[a]
          <5> HIDE DEF low, x
          <5>1. /\ low \o x \in Seq(S) /\ Len(low \o x) = Len(low) + Len(x)
                /\ \A i \in 1 .. Len(low) + Len(x) :
                     (low \o x)[i] = IF i <= Len(low) THEN low[i] ELSE x[i - Len(low)]
            BY <4>3, ConcatProperties
          <5>2. \A i \in 1 .. Len(low) : i \in 1 .. Len(low) + Len(x) /\ i <= Len(low)
            BY <4>3
          <5>3. \A a \in 1 .. Len(x) : /\ Len(low) + a \in 1 .. Len(low) + Len(x)
                                       /\ ~(Len(low) + a <= Len(low))
                                       /\ Len(low) + a - Len(low) = a
            BY <4>3
          <5> QED
            BY <5>1, <5>2, <5>3
        <4>8. \A b \in 1 .. next : b \in 1 .. m \/ b = next
          BY <4>1
        <4>9. \A b \in 1 .. next : \A a \in 1 .. Len(blocks[b]) :
                (low \o x)[vec[b].org_start + a] = blocks[b][a]
          <5> HIDE DEF low
          <5> QED
            BY <4>5, <4>6, <4>7, <4>8
        <4> HIDE DEF low, x
        <4> QED
          BY <4>2, <4>5, <4>7, <4>9
      <3> QED
        BY <3>1, <3>2
    <2>4. n \in T
      <3> HIDE DEF T
      <3> QED
        BY <1>0, <2>2, <2>3, Induct
    <2>5. Last(vec) = vec[n] /\ vec[n].org_start + vec[n].len = SumLen(vec)
      BY SMTT(30), <1>0, <1>2 DEF Chain, Last
    <2> QED
      BY <1>2, <2>1, <2>4, <2>5 DEF Flat
  <1> QED
    BY <1>1, <1>2

\* What a sector can hold.
Sectors == ({"old"} \X Nat) \cup (Requests \X Nat)

\* What holds of the blocks of the JBOD d: range i of the mapper is block i.
BlocksIn(d) ==
  /\ d.mapper.blocks = [b \in 1 .. Len(d.store) |-> b]
  /\ Vol(d.mapper.ranges)
  /\ Laid(d.mapper.ranges.vec, d.store)
  /\ d.count = SumLen(d.mapper.ranges.vec)
  /\ d.store \in Seq(Seq(Sectors))

\* What follows for them.
BlocksAre(d) ==
  LET vec == d.mapper.ranges.vec IN
  /\ Chain(vec) /\ Based(vec) /\ Len(vec) = Len(d.store) /\ Len(vec) \in Nat
  /\ d.count \in Nat /\ Len(FlattenSeq(d.store)) = d.count
  /\ FlattenSeq(d.store) \in Seq(Sectors)
  /\ \A b \in 1 .. Len(vec) :
       /\ vec[b].org_start \in Nat /\ vec[b].start = 0 /\ vec[b].len \in Nat \ {0}
       /\ vec[b].len = Len(d.store[b]) /\ d.store[b] \in Seq(Sectors)
  /\ \A b \in 1 .. Len(vec) : \A a \in 1 .. vec[b].len :
       FlattenSeq(d.store)[vec[b].org_start + a] = d.store[b][a]

LEMMA BlocksFacts ==
  ASSUME NEW d, BlocksIn(d)
  PROVE  BlocksAre(d)
  <1> DEFINE vec == d.mapper.ranges.vec
  <1>1. Chain(vec) /\ Laid(vec, d.store) /\ d.store \in Seq(Seq(Sectors))
        /\ d.count = SumLen(vec)
    BY DEF BlocksIn, Vol
  <1> HIDE DEF vec
  <1>2. /\ FlattenSeq(d.store) \in Seq(Sectors)
        /\ Len(FlattenSeq(d.store)) = SumLen(vec)
        /\ \A b \in 1 .. Len(d.store) : \A a \in 1 .. Len(d.store[b]) :
             FlattenSeq(d.store)[vec[b].org_start + a] = d.store[b][a]
    <2>1. Flat(Sectors, d.store, vec)
      BY <1>1, FlattenAt
    <2> QED
      BY <2>1 DEF Flat
  <1>3. Len(vec) = Len(d.store) /\ Len(vec) \in Nat /\ SumLen(vec) \in Nat
        /\ \A b \in 1 .. Len(vec) :
              /\ vec[b].org_start \in Nat /\ vec[b].start = 0 /\ vec[b].len \in Nat \ {0}
              /\ vec[b].len = Len(d.store[b]) /\ d.store[b] \in Seq(Sectors)
    BY <1>1, ChainFacts, ElementFacts DEF Laid
  <1>4. Based(vec)
    BY <1>3 DEF Based
  <1> QED
    BY <1>1, <1>2, <1>3, <1>4 DEF vec, BlocksAre

\* operator+= of a volume and one range.
LEMMA AddOne ==
  ASSUME NEW vol, NEW r
  PROVE  AddRanges(vol, <<r>>) = AddRange(vol, r)
  <1> DEFINE vec == <<r>>
  <1>1. Len(vec) = 1 /\ vec[1] = r
    OBVIOUS
  <1> HIDE DEF vec
  <1>2. PICK g : /\ AddRanges(vol, vec) = g[1]
                 /\ g[0] = vol
                 /\ \A i \in 1 .. 1 : g[i] = AddRange(g[i - 1], vec[i])
    BY <1>1, AddLoop
  <1>3. 1 \in 1 .. 1 /\ 1 - 1 = 0
    OBVIOUS
  <1> QED
    BY <1>1, <1>2, <1>3 DEF vec

\* add_block of the mapper.
LEMMA AddBlockIs ==
  ASSUME NEW m, Vol(m.ranges), Based(m.ranges.vec), NEW n \in Nat \ {0}, NEW b
  PROVE  LET x == algo_range(m.ranges.len, 0, n)
             next == add_block(m, n, b) IN
         /\ next.blocks = Append(m.blocks, b)
         /\ next.ranges.vec = Append(m.ranges.vec, x)
         /\ Vol(next.ranges)
         /\ next.ranges.len = m.ranges.len + n
         /\ x \in RS /\ x.start = 0 /\ x.len = n /\ x.org_start = m.ranges.len
  <1> DEFINE vol == m.ranges
             r == algo_range(0, 0, n)
             x == algo_range(vol.len, 0, n)
             app == Append(vol.vec, x)
             all == AddRanges(vol, <<r>>)
             sum == PlusAssign(vol, <<r>>)
             next == add_block(m, n, b)
  <1>1. next = [ranges |-> sum, blocks |-> Append(m.blocks, b)]
    BY DEF add_block
  <1>2. r \in RS /\ r.start = 0 /\ r.len = n
    BY DEF RS, algo_range
  <1>3. /\ all = [vec |-> app, len |-> vol.len + n, ok |-> TRUE]
        /\ x \in RS /\ Vol(all)
    <2>1. all = AddRange(vol, r)
      BY AddOne
    <2>2. algo_range(vol.len, r.start, r.len) = x
      BY <1>2
    <2> HIDE DEF r, x, all
    <2>3. /\ AddRange(vol, r) = [vec |-> Append(vol.vec, algo_range(vol.len, r.start, r.len)),
                                 len |-> vol.len + r.len, ok |-> TRUE]
          /\ algo_range(vol.len, r.start, r.len) \in RS
          /\ Vol(AddRange(vol, r))
      BY <1>2, AddRangeIs
    <2> QED
      BY <1>2, <2>1, <2>2, <2>3
  <1>4. x.start = 0 /\ x.len = n /\ x.org_start = vol.len
    BY DEF algo_range
  <1>5. app \in Seq(RS) /\ Based(app)
    <2>1. vol.vec \in Seq(RS)
      BY DEF Vol, Chain
    <2> HIDE DEF vol, x
    <2>2. /\ app \in Seq(RS) /\ Len(app) = Len(vol.vec) + 1 /\ Len(vol.vec) \in Nat
          /\ app[Len(vol.vec) + 1] = x
          /\ \A i \in 1 .. Len(vol.vec) : app[i] = vol.vec[i]
      BY <1>3, <2>1, AppendProperties, ElementFacts
    <2>3. \A i \in 1 .. Len(app) : i \in 1 .. Len(vol.vec) \/ i = Len(vol.vec) + 1
      BY <2>2
    <2>4. \A i \in 1 .. Len(vol.vec) : vol.vec[i].start = 0
      BY DEF Based, vol
    <2> HIDE DEF app
    <2> QED
      BY <1>4, <2>2, <2>3, <2>4 DEF Based
  <1>6. merge(app, "org_start") = app
    BY <1>5, MergeStill
  <1>7. sum = [all EXCEPT !.vec = merge(all.vec, "org_start")]
    BY DEF PlusAssign
  <1> HIDE DEF vol, x, r, app, sum, all
  <1>8. sum = all
    <2> DEFINE z == vol.len + n
               t == TRUE
    <2>1. all = [vec |-> app, len |-> z, ok |-> t]
      BY <1>3
    <2> HIDE DEF z, t
    <2>2. all.vec = app /\ [all EXCEPT !.vec = app] = [vec |-> app, len |-> z, ok |-> t]
      BY <2>1
    <2> QED
      BY <1>6, <1>7, <2>1, <2>2
  <1>9. next.ranges = all /\ next.blocks = Append(m.blocks, b)
    BY <1>1, <1>8
  <1>10. all.vec = app /\ all.len = vol.len + n
    BY <1>3
  <1> QED
    BY <1>3, <1>4, <1>9, <1>10 DEF next, x, app, vol

\* A block behind the others.
LEMMA AddedIn ==
  ASSUME NEW d, BlocksIn(d), NEW n \in Nat \ {0}
  PROVE  LET e == Added(d, n) IN
         /\ BlocksIn(e)
         /\ e.count = d.count + n
         /\ e.mapper.ranges.vec = Append(d.mapper.ranges.vec, algo_range(d.count, 0, n))
         /\ Len(e.store) = Len(d.store) + 1
         /\ FlattenSeq(e.store) = FlattenSeq(d.store) \o Old(d.count, n)
  <1> DEFINE vec == d.mapper.ranges.vec
             k == Len(d.store) + 1
             x == algo_range(d.count, 0, n)
             new == Old(d.count, n)
             m == add_block(d.mapper, n, k)
             st == Append(d.store, new)
             e == Added(d, n)
  <1>1. /\ Chain(vec) /\ Based(vec) /\ Len(vec) = Len(d.store) /\ Len(vec) \in Nat
        /\ d.count \in Nat
        /\ vec \in Seq(RS) /\ d.store \in Seq(Seq(Sectors))
        /\ Vol(d.mapper.ranges) /\ Laid(vec, d.store) /\ d.count = d.mapper.ranges.len
        /\ d.mapper.blocks = [b \in 1 .. Len(d.store) |-> b]
    <2>1. /\ Vol(d.mapper.ranges) /\ Laid(vec, d.store) /\ d.count = SumLen(vec)
          /\ d.store \in Seq(Seq(Sectors))
          /\ d.mapper.blocks = [b \in 1 .. Len(d.store) |-> b]
      BY DEF BlocksIn
    <2>2. d.mapper.ranges = [vec |-> vec, len |-> SumLen(vec), ok |-> TRUE] /\ Chain(vec)
      BY <2>1 DEF Vol
    <2>3. d.mapper.ranges.len = SumLen(vec)
      BY <2>2
    <2>4. Based(vec) /\ Len(vec) = Len(d.store) /\ Len(vec) \in Nat /\ d.count \in Nat
      BY BlocksFacts DEF BlocksAre
    <2> QED
      BY <2>1, <2>2, <2>3, <2>4, ChainFacts
  <1>2. e.mapper = m /\ e.count = d.count + n /\ e.store = st
    BY DEF Added
  <1>3. /\ m.blocks = Append(d.mapper.blocks, k)
        /\ m.ranges.vec = Append(vec, x)
        /\ Vol(m.ranges)
        /\ m.ranges.len = d.count + n
        /\ x \in RS /\ x.start = 0 /\ x.len = n /\ x.org_start = d.count
    <2> DEFINE base == d.mapper
               y == algo_range(base.ranges.len, 0, n)
               next == add_block(base, n, k)
    <2>1. Vol(base.ranges) /\ Based(base.ranges.vec) /\ base.ranges.len = d.count
          /\ base.ranges.vec = vec
      BY <1>1
    <2>2. y = x /\ next = m
      BY <2>1
    <2> HIDE DEF k, base
    <2>3. /\ next.blocks = Append(base.blocks, k)
          /\ next.ranges.vec = Append(base.ranges.vec, y)
          /\ Vol(next.ranges)
          /\ next.ranges.len = base.ranges.len + n
          /\ y \in RS /\ y.start = 0 /\ y.len = n /\ y.org_start = base.ranges.len
      BY <2>1, AddBlockIs
    <2> HIDE DEF next, y, m, x
    <2> QED
      BY <2>1, <2>2, <2>3 DEF base
  <1>4. new \in Seq(Sectors) /\ Len(new) = n
    <2>1. \A a \in 1 .. n : <<"old", d.count + a>> \in Sectors
      <3> TAKE a \in 1 .. n
      <3>1. d.count + a \in Nat
        BY <1>1
      <3> QED
        BY <3>1 DEF Sectors
    <2>2. new \in [1 .. n -> Sectors]
      BY <2>1 DEF Old
    <2> QED
      BY <2>2
  <1>5. FlattenSeq(st) = FlattenSeq(d.store) \o new
    <2> HIDE DEF new
    <2> QED
      BY <1>1, <1>4, FlattenAppend
  <1> HIDE DEF vec, x, new, m, e
  <1>6. /\ st \in Seq(Seq(Sectors)) /\ Len(st) = k
        /\ \A b \in 1 .. k - 1 : st[b] = d.store[b]
        /\ st[k] = new
    BY <1>1, <1>4, AppendProperties
  <1>7. /\ Len(m.ranges.vec) = k
        /\ \A b \in 1 .. k - 1 : m.ranges.vec[b] = vec[b]
        /\ m.ranges.vec[k] = x
    BY <1>1, <1>3, AppendProperties
  <1>8. m.blocks = [b \in 1 .. Len(st) |-> b]
    <2> DEFINE old == d.mapper.blocks
               z == Len(d.store)
    <2>0. z \in Nat /\ k = z + 1 /\ k \in Nat
      BY <1>1
    <2>1. old = [b \in 1 .. z |-> b]
      BY <1>1
    <2> HIDE DEF old, k, z
    <2>2. old \in Seq(Nat) /\ Len(old) = z /\ \A b \in 1 .. z : old[b] = b
      <3>1. old \in [1 .. z -> Nat]
        BY <2>0, <2>1
      <3> QED
        BY <2>0, <2>1, <3>1
    <2>3. /\ Append(old, k) \in Seq(Nat) /\ Len(Append(old, k)) = k
          /\ \A b \in 1 .. k : Append(old, k)[b] = b
      <3>1. /\ Append(old, k) \in Seq(Nat) /\ Len(Append(old, k)) = z + 1
            /\ \A b \in 1 .. z : Append(old, k)[b] = old[b]
            /\ Append(old, k)[z + 1] = k
        BY <2>0, <2>2, AppendProperties
      <3>2. \A b \in 1 .. k : b \in 1 .. z \/ b = k
        BY <2>0
      <3> QED
        BY <2>0, <2>2, <3>1, <3>2
    <2>4. DOMAIN Append(old, k) = 1 .. k /\ Append(old, k) = [b \in DOMAIN Append(old, k) |-> Append(old, k)[b]]
      BY <2>3, LenProperties
    <2>5. Append(old, k) = [b \in 1 .. k |-> b]
      BY <2>3, <2>4
    <2>6. Len(st) = k
      BY <1>6
    <2> QED
      BY <1>3, <2>5, <2>6 DEF old
  <1>9. Laid(m.ranges.vec, st)
    <2>1. \A b \in 1 .. Len(st) : b \in 1 .. k - 1 \/ b = k
      BY <1>1, <1>6
    <2>2. \A b \in 1 .. k - 1 : b \in 1 .. Len(d.store)
      BY <1>1
    <2> QED
      BY <1>1, <1>3, <1>4, <1>6, <1>7, <2>1, <2>2 DEF Laid
  <1>10. BlocksIn(e)
    <2>1. d.count + n = SumLen(m.ranges.vec)
      BY <1>3 DEF Vol
    <2> QED
      BY <1>2, <1>3, <1>6, <1>8, <1>9, <2>1 DEF BlocksIn
  <1> QED
    BY <1>2, <1>3, <1>5, <1>6, <1>10 DEF e, new, vec, x

\* The loop of the constructor.
NoDisk == [mapper |-> NoBlocks, count |-> 0, store |-> <<>>]

LEMMA ConstructedLoop ==
  \E loop : /\ Constructed = loop[Len(InitLens)]
            /\ loop[0] = NoDisk
            /\ \A i \in 1 .. Len(InitLens) : loop[i] = Added(loop[i - 1], InitLens[i])
  <1> DEFINE n == Len(InitLens)
             Upto(f, m) == /\ f[0] = NoDisk
                           /\ \A i \in 1 .. m : f[i] = Added(f[i - 1], InitLens[i])
             Exists(m) == \E f : Upto(f, m)
             T == {m \in Nat : Exists(m)}
  <1>0. n \in Nat
    BY BlocksAssumption, ElementFacts
  <1>1. 0 \in T
    <2>1. Upto([i \in {0} |-> NoDisk], 0)
      OBVIOUS
    <2> QED
      BY <2>1
  <1>2. ASSUME NEW m \in Nat, m \in T PROVE m + 1 \in T
    <2> PICK f : Upto(f, m)
      BY <1>2
    <2> DEFINE g == [i \in 0 .. m + 1 |->
                       IF i <= m THEN f[i] ELSE Added(f[m], InitLens[m + 1])]
    <2>1. /\ \A i \in 0 .. m : g[i] = f[i]
          /\ g[m + 1] = Added(f[m], InitLens[m + 1])
      OBVIOUS
    <2> HIDE DEF g
    <2>2. \A i \in 1 .. m + 1 : i - 1 \in 0 .. m /\ (i \in 1 .. m \/ i = m + 1)
      OBVIOUS
    <2>3. 0 \in 0 .. m /\ \A i \in 1 .. m : i \in 0 .. m
      OBVIOUS
    <2>4. m + 1 - 1 = m /\ m \in 0 .. m
      OBVIOUS
    <2>5. Upto(g, m + 1)
      BY <2>1, <2>2, <2>3, <2>4
    <2>6. Exists(m + 1)
      BY <2>5
    <2> HIDE DEF Exists
    <2> QED
      BY <2>6
  <1>3. n \in T
    <2> HIDE DEF T
    <2> QED
      BY <1>0, <1>1, <1>2, Induct
  <1>4. PICK f : Upto(f, n)
    BY <1>3
  <1> DEFINE h == [i \in 0 .. n |->
                     IF i = 0 THEN NoDisk ELSE Added(f[i - 1], InitLens[i])]
  <1>5. \A i \in 0 .. n : h[i] = f[i]
    BY <1>0, <1>4
  <1>6. h = [i \in 0 .. n |->
               IF i = 0 THEN NoDisk ELSE Added(h[i - 1], InitLens[i])]
    <2>1. \A i \in 0 .. n : i # 0 => i - 1 \in 0 .. n
      BY <1>0
    <2>2. \A i \in 0 .. n : i # 0 => h[i - 1] = f[i - 1]
      BY <1>5, <2>1
    <2> QED
      BY <2>2
  <1> HIDE DEF h
  <1>7. \E loop : loop = [i \in 0 .. Len(InitLens) |->
                    IF i = 0 THEN NoDisk ELSE Added(loop[i - 1], InitLens[i])]
    BY <1>6
  <1> DEFINE found == CHOOSE loop : loop = [i \in 0 .. Len(InitLens) |->
                        IF i = 0 THEN NoDisk ELSE Added(loop[i - 1], InitLens[i])]
  <1>8. found = [i \in 0 .. Len(InitLens) |->
                   IF i = 0 THEN NoDisk ELSE Added(found[i - 1], InitLens[i])]
    BY <1>7
  <1>9. Constructed = found[Len(InitLens)]
    BY DEF Constructed, NoDisk
  <1> HIDE DEF found
  <1>10. /\ found[0] = NoDisk
         /\ \A i \in 1 .. Len(InitLens) : found[i] = Added(found[i - 1], InitLens[i])
    <2>1. 0 \in 0 .. Len(InitLens)
      BY <1>0
    <2>2. \A i \in 1 .. Len(InitLens) : i \in 0 .. Len(InitLens) /\ i # 0
      BY <1>0
    <2> QED
      BY <1>8, <2>1, <2>2, Zenon
  <1> QED
    BY <1>9, <1>10

\* Behind a disk that holds what it held at first.
LEMMA OldOld ==
  ASSUME NEW m \in Nat, NEW n \in Nat
  PROVE  /\ Old(0, m) \o Old(m, n) = Old(0, m + n)
         /\ Len(Old(0, m)) = m
  <1> DEFINE S == {"old"} \X Nat
             u == Old(0, m)
             v == Old(m, n)
             w == Old(0, m + n)
  <1>1. /\ u \in Seq(S) /\ Len(u) = m /\ \A a \in 1 .. m : u[a] = <<"old", 0 + a>>
    <2>1. u \in [1 .. m -> S]
      BY DEF Old
    <2> QED
      BY <2>1 DEF Old
  <1>2. /\ v \in Seq(S) /\ Len(v) = n /\ \A a \in 1 .. n : v[a] = <<"old", m + a>>
    <2>1. v \in [1 .. n -> S]
      BY DEF Old
    <2> QED
      BY <2>1 DEF Old
  <1>3. /\ w \in Seq(S) /\ Len(w) = m + n /\ \A a \in 1 .. m + n : w[a] = <<"old", 0 + a>>
    <2>1. w \in [1 .. m + n -> S]
      BY DEF Old
    <2>2. m + n \in Nat
      OBVIOUS
    <2> QED
      BY <2>1, <2>2 DEF Old
  <1> HIDE DEF S, u, v, w
  <1>4. /\ u \o v \in Seq(S) /\ Len(u \o v) = m + n
        /\ \A i \in 1 .. m + n : (u \o v)[i] = IF i <= m THEN u[i] ELSE v[i - m]
    BY <1>1, <1>2, ConcatProperties
  <1>5. ASSUME NEW i \in 1 .. m + n PROVE (u \o v)[i] = w[i]
    <2>1. CASE i <= m
      <3>1. i \in 1 .. m
        BY <2>1
      <3> QED
        BY <1>1, <1>3, <1>4, <2>1, <3>1
    <2>2. CASE ~(i <= m)
      <3>1. i - m \in 1 .. n /\ m + (i - m) = 0 + i
        BY <2>2
      <3> QED
        BY <1>2, <1>3, <1>4, <2>2, <3>1
    <2> QED
      BY <2>1, <2>2
  <1>6. u \o v = w
    BY <1>3, <1>4, <1>5, SeqEqual
  <1> QED
    BY <1>1, <1>6 DEF u, v, w

\* A new JBOD.
LEMMA ConstructedIn ==
  /\ BlocksIn(Constructed)
  /\ FlattenSeq(Constructed.store) = Old(0, Constructed.count)
  /\ Len(Constructed.store) = Len(InitLens)
  <1> DEFINE n == Len(InitLens)
  <1>0. n \in Nat /\ \A i \in 1 .. n : InitLens[i] \in Nat \ {0}
    BY BlocksAssumption, ElementFacts
  <1>1. PICK g : /\ Constructed = g[n]
                 /\ g[0] = NoDisk
                 /\ \A i \in 1 .. n : g[i] = Added(g[i - 1], InitLens[i])
    BY ConstructedLoop
  <1> DEFINE Fine(m) == /\ BlocksIn(g[m])
                        /\ FlattenSeq(g[m].store) = Old(0, g[m].count)
                        /\ Len(g[m].store) = m
             T == {m \in Nat : m <= n => Fine(m)}
  <1>2. 0 \in T
    <2>1. /\ NoDisk.mapper.blocks = <<>> /\ NoDisk.mapper.ranges = NoRanges
          /\ NoDisk.count = 0 /\ NoDisk.store = <<>>
      BY DEF NoDisk, NoBlocks
    <2>2. Vol(NoRanges) /\ NoRanges.vec = <<>>
      BY ChainEmpty, SumEmpty DEF Vol, NoRanges
    <2>3. <<>> \in Seq(Seq(Sectors)) /\ Len(<<>>) = 0 /\ <<>> = [b \in 1 .. 0 |-> b]
      OBVIOUS
    <2>4. Laid(<<>>, <<>>)
      BY <2>3 DEF Laid
    <2>5. BlocksIn(NoDisk)
      BY <2>1, <2>2, <2>3, <2>4, SumEmpty DEF BlocksIn
    <2>6. Old(0, 0) = <<>>
      BY DEF Old
    <2>7. Fine(0)
      BY <1>1, <2>1, <2>3, <2>5, <2>6, FlattenEmpty
    <2> QED
      BY <2>7
  <1>3. ASSUME NEW m \in Nat, m \in T PROVE m + 1 \in T
    <2> DEFINE next == m + 1
    <2> SUFFICES ASSUME next <= n PROVE Fine(next)
      OBVIOUS
    <2>1. next \in 1 .. n /\ next - 1 = m /\ next = m + 1 /\ Fine(m)
      BY <1>0, <1>3
    <2> HIDE DEF next
    <2> DEFINE d == g[m]
               k == InitLens[next]
               e == Added(d, k)
    <2>2. g[next] = e /\ k \in Nat \ {0} /\ BlocksIn(d) /\ d.count \in Nat
      BY <1>0, <1>1, <2>1, BlocksFacts DEF BlocksAre
    <2> HIDE DEF k, d, e
    <2>3. /\ BlocksIn(e) /\ e.count = d.count + k /\ Len(e.store) = Len(d.store) + 1
          /\ FlattenSeq(e.store) = FlattenSeq(d.store) \o Old(d.count, k)
      BY <2>2, AddedIn DEF e
    <2>4. FlattenSeq(d.store) = Old(0, d.count) /\ Len(d.store) = m
      BY <2>1 DEF d
    <2>5. Old(0, d.count) \o Old(d.count, k) = Old(0, d.count + k)
      BY <2>2, OldOld
    <2> QED
      BY <2>1, <2>2, <2>3, <2>4, <2>5
  <1>4. n \in T
    <2> HIDE DEF T
    <2> QED
      BY <1>0, <1>2, <1>3, Induct
  <1> QED
    BY <1>0, <1>1, <1>4

-------------------------------------------------------------------------------
(* How a request is cut.                                                   *)

\* Part p of the section a lies on one block: it is where the section is there, and
\* its place in the buffer is within it.
PartIn(vec, a, p) ==
  /\ p.block \in 1 .. Len(vec) /\ p.start \in Nat /\ p.buf \in Nat /\ p.len \in Nat \ {0}
  /\ p.start + p.len <= vec[p.block].len
  /\ vec[p.block].org_start + p.start = a.offset + p.buf
  /\ p.buf + p.len <= a.len

\* Position i of the buffer belongs to part p.
Spot(p, i) == p.buf <= i /\ i < p.buf + p.len

\* The parts are the section: each of its positions belongs to one of them.
CutIn(vec, a, cut) ==
  /\ Len(cut) \in 1 .. Len(vec)
  /\ \A k \in 1 .. Len(cut) : PartIn(vec, a, cut[k])
  /\ \A i, k \in 1 .. Len(cut) : i < k => cut[i].buf + cut[i].len <= cut[k].buf
  /\ \A i \in 0 .. a.len - 1 : \E k \in 1 .. Len(cut) : Spot(cut[k], i)

\* One piece.
LEMMA PieceIn ==
  ASSUME NEW vec, Chain(vec), Based(vec), NEW s \in Nat, NEW l \in Nat \ {0}, NEW j, NEW k,
         Spanned(vec, s, l, j, k), NEW q \in j .. k,
         NEW p, p.block = q, p.start = Lo(vec[q], s) + vec[q].start - vec[q].org_start,
         p.len = Hi(vec[q], s, l) - Lo(vec[q], s), p.buf = Lo(vec[q], s) - s,
         NEW a, a.offset = s, a.len = l
  PROVE  /\ PartIn(vec, a, p)
         /\ s + p.buf = Lo(vec[q], s) /\ s + p.buf + p.len = Hi(vec[q], s, l)
         /\ Hi(vec[q], s, l) <= vec[q].org_start + vec[q].len
  <1> DEFINE lo == Lo(vec[q], s)
             hi == Hi(vec[q], s, l)
             o == vec[q].org_start
             n == vec[q].len
  <1>1. /\ q \in 1 .. Len(vec) /\ lo \in Nat /\ hi \in Nat /\ lo < hi /\ o <= lo
        /\ s <= lo /\ hi <= s + l
    BY DEF Spanned
  <1>2. o \in Nat /\ n \in Nat \ {0} /\ vec[q].start = 0
    BY <1>1, ChainFacts DEF Based
  <1>3. hi <= o + n
    BY <1>2 DEF Hi
  <1>4. p.start = lo + 0 - o /\ p.len = hi - lo /\ p.buf = lo - s
    BY <1>2
  <1> HIDE DEF lo, hi, o, n
  <1>5. p.start \in Nat /\ p.len \in Nat \ {0} /\ p.buf \in Nat
    BY <1>1, <1>2, <1>4
  <1>6. p.start + p.len <= n /\ o + p.start = s + p.buf /\ p.buf + p.len <= l
    BY <1>1, <1>2, <1>3, <1>4
  <1>7. PartIn(vec, a, p)
    BY <1>1, <1>5, <1>6 DEF PartIn, o, n
  <1>8. s + p.buf = lo /\ s + p.buf + p.len = hi
    <2>1. lo \in Nat /\ hi \in Nat
      BY <1>1
    <2>2. s + (lo - s) = lo /\ s + (lo - s) + (hi - lo) = hi
      BY <2>1
    <2> QED
      BY <1>4, <2>2
  <1> QED
    BY <1>3, <1>7, <1>8 DEF lo, hi, o, n

\* What map_request makes of it.
LEMMA CutIs ==
  ASSUME NEW d, BlocksIn(d), NEW s \in Nat, NEW l \in Nat \ {0}, s + l <= d.count,
         NEW a, a.offset = s, a.len = l
  PROVE  CutIn(d.mapper.ranges.vec, a, map_request(d.mapper, s, l))
  <1> DEFINE m == d.mapper
             vec == m.ranges.vec
             secs == map_section(vec, s, l)
             cut == map_request(m, s, l)
  <1>0. /\ Chain(vec) /\ Based(vec) /\ Len(vec) \in Nat /\ l \in Nat
        /\ s + l <= SumLen(vec)
        /\ m.blocks = [b \in 1 .. Len(vec) |-> b]
    <2>1. Len(vec) = Len(d.store) /\ Chain(vec) /\ Based(vec) /\ Len(vec) \in Nat
      BY BlocksFacts DEF BlocksAre
    <2>2. d.count = SumLen(vec) /\ m.blocks = [b \in 1 .. Len(d.store) |-> b]
      BY DEF BlocksIn
    <2> QED
      BY <2>1, <2>2
  <1> HIDE DEF m, vec, secs, cut
  <1>1. PICK j, k : Spanned(vec, s, l, j, k)
    BY <1>0, SpanExists
  <1>2. /\ j \in 1 .. Len(vec) /\ k \in 1 .. Len(vec) /\ j <= k
        /\ Holds(vec[j], s) /\ Holds(vec[k], s + l - 1)
        /\ \A q \in j .. k : q \in 1 .. Len(vec)
    BY <1>1 DEF Spanned
  <1>3. Pieces(vec, s, l, j, k, secs)
    BY <1>0, <1>1, MapSectionIs DEF secs
  <1>4. /\ secs \in Seq(Sections) /\ Len(secs) = k - j + 1 /\ DOMAIN secs = 1 .. Len(secs)
        /\ Len(secs) \in Nat
        /\ \A i \in 1 .. Len(secs) : secs[i] = Piece(vec[j + i - 1], s, l)
    BY <1>3, ElementFacts DEF Pieces
  <1>5. Summed(vec, s, l, j, secs)
    BY <1>0, <1>1, <1>3, PieceSums
  <1>6. rangepos_by_orgaddr(vec, s) = j
    BY <1>0, <1>2, RangeposIs
  <1>7. cut = [i \in 1 .. Len(secs) |->
                   [block |-> m.blocks[j + i - 1], start |-> secs[i].start,
                    len |-> secs[i].len, buf |-> SumLen(SubSeq(secs, 1, i - 1))]]
    <2>1. cut = [i \in DOMAIN secs |->
                   [block |-> m.blocks[j + i - 1], start |-> secs[i].start,
                    len |-> secs[i].len, buf |-> SumLen(SubSeq(secs, 1, i - 1))]]
      BY <1>6 DEF cut, map_request, secs, vec
    <2> QED
      BY <1>4, <2>1
  <1>8. Len(cut) = Len(secs)
    BY <1>4, <1>7
  <1> DEFINE at(i) == j + i - 1
  <1>9. ASSUME NEW i \in 1 .. Len(cut)
        PROVE  /\ at(i) \in j .. k /\ at(i) \in 1 .. Len(vec)
               /\ PartIn(vec, a, cut[i])
               /\ s + cut[i].buf = Lo(vec[at(i)], s)
               /\ s + cut[i].buf + cut[i].len = Hi(vec[at(i)], s, l)
               /\ Hi(vec[at(i)], s, l) <= vec[at(i)].org_start + vec[at(i)].len
               /\ cut[i].buf \in Nat /\ cut[i].len \in Nat
    <2> DEFINE q == at(i)
               p == cut[i]
    <2>1. i \in 1 .. Len(secs) /\ q \in j .. k /\ q \in 1 .. Len(vec)
      <3>1. i \in 1 .. Len(secs) /\ i \in Nat /\ 1 <= i /\ i <= k - j + 1
        BY <1>4, <1>8
      <3>2. j \in Nat /\ k \in Nat
        BY <1>0, <1>2
      <3>3. q \in j .. k
        BY <3>1, <3>2
      <3> QED
        BY <1>2, <3>1, <3>3
    <2>2. p = [block |-> m.blocks[q], start |-> secs[i].start,
               len |-> secs[i].len, buf |-> SumLen(SubSeq(secs, 1, i - 1))]
      BY <1>7, <2>1
    <2>3. secs[i] = Piece(vec[q], s, l) /\ SumLen(SubSeq(secs, 1, i - 1)) = Lo(vec[q], s) - s
      BY <1>4, <1>5, <2>1 DEF Summed
    <2>4. m.blocks[q] = q
      BY <1>0, <2>1
    <2> HIDE DEF p, q
    <2>5. /\ Piece(vec[q], s, l).start = Lo(vec[q], s) + vec[q].start - vec[q].org_start
          /\ Piece(vec[q], s, l).len = Hi(vec[q], s, l) - Lo(vec[q], s)
      BY PieceIs
    <2>6. /\ p.block = q /\ p.start = Lo(vec[q], s) + vec[q].start - vec[q].org_start
          /\ p.len = Hi(vec[q], s, l) - Lo(vec[q], s) /\ p.buf = Lo(vec[q], s) - s
      BY <2>2, <2>3, <2>4, <2>5
    <2>7. /\ PartIn(vec, a, p)
          /\ s + p.buf = Lo(vec[q], s) /\ s + p.buf + p.len = Hi(vec[q], s, l)
          /\ Hi(vec[q], s, l) <= vec[q].org_start + vec[q].len
      BY <1>0, <1>1, <2>1, <2>6, PieceIn
    <2>8. p.buf \in Nat /\ p.len \in Nat
      BY <2>7 DEF PartIn
    <2> QED
      BY <2>1, <2>7, <2>8 DEF p, q
  <1>10. Len(cut) \in 1 .. Len(vec)
    BY <1>2, <1>4, <1>8
  <1>11. ASSUME NEW i \in 1 .. Len(cut), NEW n \in 1 .. Len(cut), i < n
         PROVE  cut[i].buf + cut[i].len <= cut[n].buf
    <2> DEFINE x == at(i)
               y == at(n)
    <2>1. x < y /\ x \in 1 .. Len(vec) /\ y \in 1 .. Len(vec) /\ y \in j .. k
      BY <1>2, <1>9, <1>10, <1>11
    <2>2. /\ s + cut[i].buf + cut[i].len <= vec[x].org_start + vec[x].len
          /\ s + cut[n].buf = Lo(vec[y], s)
          /\ cut[i].buf \in Nat /\ cut[i].len \in Nat /\ cut[n].buf \in Nat
      BY <1>9
    <2> HIDE DEF x, y
    <2>3. vec[x].org_start + vec[x].len <= vec[y].org_start
      BY <1>0, <2>1 DEF Chain
    <2>4. vec[y].org_start <= Lo(vec[y], s)
      BY <1>1, <2>1 DEF Spanned
    <2>5. vec[x].org_start \in Nat /\ vec[x].len \in Nat /\ vec[y].org_start \in Nat
      BY <1>0, <2>1, ChainFacts
    <2> DEFINE u == cut[i].buf
               v == cut[i].len
               w == cut[n].buf
               ex == vec[x].org_start + vec[x].len
               oy == vec[y].org_start
    <2>6. /\ u \in Nat /\ v \in Nat /\ w \in Nat /\ ex \in Nat /\ oy \in Nat
          /\ s + u + v <= ex /\ ex <= oy /\ oy <= s + w
      <3>1. u \in Nat /\ v \in Nat /\ w \in Nat
        BY <2>2
      <3>2. s + u + v <= ex
        BY <2>2
      <3>3. ex <= oy
        BY <2>3
      <3>4. oy <= s + w
        BY <2>2, <2>4
      <3>5. ex \in Nat /\ oy \in Nat
        <4> DEFINE ox == vec[x].org_start
                   lx == vec[x].len
        <4>1. ox \in Nat /\ lx \in Nat /\ oy \in Nat
          BY <2>5
        <4> HIDE DEF ox, lx
        <4>2. ox + lx \in Nat
          BY <4>1
        <4> QED
          BY <4>1, <4>2 DEF ox, lx
      <3> QED
        BY <3>1, <3>2, <3>3, <3>4, <3>5
    <2> HIDE DEF u, v, w, ex, oy
    <2>7. u + v <= w
      BY <2>6
    <2> QED
      BY <2>7 DEF u, v, w
  <1>12. ASSUME NEW i \in 0 .. a.len - 1
         PROVE  \E n \in 1 .. Len(cut) : Spot(cut[n], i)
    <2> DEFINE b == s + i
               e == s + l - 1
    <2>1. /\ b \in Nat /\ i \in Nat /\ b < SumLen(vec) /\ s <= b /\ b <= e /\ e \in Nat
          /\ b < s + l
      BY <1>0, ChainFacts
    <2>2. PICK q \in 1 .. Len(vec) : Holds(vec[q], b)
      BY <1>0, <2>1 DEF Chain
    <2>3. Holds(vec[k], e)
      BY <1>2
    <2> HIDE DEF b, e
    <2>4. /\ vec[q].org_start \in Nat /\ vec[q].len \in Nat \ {0}
          /\ vec[q].org_start <= b /\ b < vec[q].org_start + vec[q].len
      BY <1>0, <2>2, ChainFacts DEF Holds
    <2>5. ~(q < j)
      <3>1. q < j => s >= vec[q].org_start + vec[q].len
        BY <1>0, <1>2, HoldersOrder
      <3> QED
        BY <2>1, <2>4, <3>1
    <2>6. ~(k < q)
      <3>1. k < q => e < vec[q].org_start
        BY <1>0, <1>2, <2>1, <2>3, HoldersOrder
      <3> QED
        BY <2>1, <2>4, <3>1
    <2> DEFINE n == q - j + 1
    <2>7. n \in 1 .. Len(cut) /\ at(n) = q /\ q \in j .. k
      BY <1>2, <1>4, <1>8, <2>5, <2>6
    <2> HIDE DEF n
    <2>8. /\ s + cut[n].buf = Lo(vec[q], s) /\ s + cut[n].buf + cut[n].len = Hi(vec[q], s, l)
          /\ cut[n].buf \in Nat /\ cut[n].len \in Nat
      <3> HIDE DEF at
      <3> QED
        BY <1>9, <2>7
    <2>9. Lo(vec[q], s) <= b
      BY <2>1, <2>4 DEF Lo
    <2>10. b < Hi(vec[q], s, l)
      BY <2>1, <2>4 DEF Hi
    <2>11. Spot(cut[n], i)
      <3>1. b = s + i
        BY DEF b
      <3>2. s + cut[n].buf <= s + i /\ s + i < s + cut[n].buf + cut[n].len
        BY <2>8, <2>9, <2>10, <3>1
      <3>3. cut[n].buf <= i /\ i < cut[n].buf + cut[n].len
        <4> DEFINE u == cut[n].buf
                   c == cut[n].len
        <4>1. u \in Nat /\ c \in Nat /\ i \in Nat /\ s + u <= s + i /\ s + i < s + u + c
          BY <2>1, <2>8, <3>2
        <4> HIDE DEF u, c
        <4>2. u <= i /\ i < u + c
          BY <4>1
        <4> QED
          BY <4>2 DEF u, c
      <3> QED
        BY <3>3 DEF Spot
    <2> QED
      BY <2>7, <2>11
  <1>13. CutIn(vec, a, cut)
    <2> HIDE DEF at
    <2> QED
      BY <1>9, <1>10, <1>11, <1>12 DEF CutIn
  <1> QED
    BY <1>13 DEF cut, m, vec

-------------------------------------------------------------------------------
(* The JBOD as a disk.                                                     *)

Layout == [mapper |-> mapper, count |-> _sector_count, store |-> store]

Vec == mapper.ranges.vec

Waiting == {"mapped", "issued"}

\* What holds of the data of a request that has been mapped: its parts are its
\* section, the sectors of a part that waits for its block have not moved, and those
\* of a part that was reported a success have.
Started(r) ==
  /\ area[r].type \in {"read", "write"} /\ area[r].offset \in Nat /\ area[r].len \in Nat \ {0}
  /\ area[r].offset + area[r].len <= _sector_count
  /\ buf[r] \in [0 .. area[r].len - 1 -> Sectors]
  /\ moved[r] \subseteq 0 .. area[r].len - 1
  /\ CutIn(Vec, area[r], parts[r])
  /\ \A k \in Slots : step[r][k] # "none" <=> k <= Len(parts[r])
  /\ \A k \in 1 .. Len(parts[r]) : step[r][k] \in Waiting =>
       \A i \in moved[r] : ~Spot(parts[r][k], i)
  /\ \A k \in 1 .. Len(parts[r]) : step[r][k] \notin Waiting /\ result[r][k] = Ok =>
       \A i \in 0 .. area[r].len - 1 : Spot(parts[r][k], i) => i \in moved[r]

Unstarted(r) == area[r] = NoArea /\ moved[r] = {}

RequestIn(r) ==
  /\ heap[r] = "new" => Unstarted(r)
  /\ heap[r] # "new" => Started(r)

IsFun(f, S) == f = [x \in S |-> f[x]]

DiskInv ==
  /\ IInv
  /\ BlocksIn(Layout) /\ Len(store) <= MaxBlocks
  /\ IsFun(area, Requests) /\ IsFun(moved, Requests) /\ IsFun(parts, Requests)
  /\ IsFun(buf, Requests)
  /\ \A r \in Requests : RequestIn(r)

LEMMA DiskInitInv == DiskInit => DiskInv
  <1> SUFFICES ASSUME DiskInit PROVE DiskInv
    OBVIOUS
  <1>1. IInv
    BY InitIInv DEF DiskInit
  <1>2. BlocksIn(Layout) /\ Len(store) <= MaxBlocks
    <2>1. /\ Layout.mapper = Constructed.mapper /\ Layout.count = Constructed.count
          /\ Layout.store = Constructed.store
      BY DEF DiskInit, Layout
    <2>2. BlocksIn(Layout)
      BY <2>1, ConstructedIn DEF BlocksIn
    <2> QED
      BY <2>1, <2>2, ConstructedIn, BlocksAssumption DEF DiskInit
  <1>3. /\ IsFun(area, Requests) /\ IsFun(moved, Requests) /\ IsFun(parts, Requests)
        /\ IsFun(buf, Requests)
    BY DEF DiskInit, IsFun
  <1>4. \A r \in Requests : RequestIn(r)
    BY DEF DiskInit, Init, RequestIn, Unstarted
  <1> QED
    BY <1>1, <1>2, <1>3, <1>4 DEF DiskInv

\* What the invariant says of the blocks.
LEMMA LayoutFacts ==
  ASSUME DiskInv
  PROVE  /\ Chain(Vec) /\ Len(Vec) = Len(store) /\ Len(Vec) \in Nat /\ Len(Vec) <= MaxParts
         /\ _sector_count \in Nat /\ Len(FlattenSeq(store)) = _sector_count
         /\ _sector_count = SumLen(Vec)
         /\ FlattenSeq(store) \in Seq(Sectors)
         /\ store \in Seq(Seq(Sectors))
         /\ \A b \in 1 .. Len(Vec) :
              /\ Vec[b].org_start \in Nat /\ Vec[b].start = 0 /\ Vec[b].len \in Nat \ {0}
              /\ Vec[b].len = Len(store[b]) /\ store[b] \in Seq(Sectors)
         /\ \A b \in 1 .. Len(Vec) : \A a \in 1 .. Vec[b].len :
              FlattenSeq(store)[Vec[b].org_start + a] = store[b][a]
  <1> DEFINE d == Layout
  <1>1. d.mapper.ranges.vec = Vec /\ d.count = _sector_count /\ d.store = store
    BY DEF Layout, Vec
  <1>2. BlocksIn(d)
    BY DEF DiskInv
  <1> HIDE DEF d
  <1>3. BlocksAre(d)
    BY <1>2, BlocksFacts
  <1>4. d.store \in Seq(Seq(Sectors)) /\ d.count = SumLen(d.mapper.ranges.vec)
    BY <1>2 DEF BlocksIn
  <1>5. Len(Vec) <= MaxParts
    <2>1. Len(Vec) = Len(store) /\ Len(Vec) \in Nat
      BY <1>1, <1>3 DEF BlocksAre
    <2> QED
      BY <2>1, BlocksAssumption, PartsAssumption DEF DiskInv
  <1> QED
    BY <1>1, <1>3, <1>4, <1>5 DEF BlocksAre

\* A step that touches neither the request nor the blocks.
LEMMA RequestFrame ==
  ASSUME NEW q \in Requests, RequestIn(q), mapper' = mapper, _sector_count' = _sector_count,
         heap'[q] = heap[q], step'[q] = step[q], result'[q] = result[q],
         area'[q] = area[q], moved'[q] = moved[q], parts'[q] = parts[q], buf'[q] = buf[q]
  PROVE  RequestIn(q)'
  <1>1. Vec' = Vec
    BY DEF Vec
  <1>2. Unstarted(q) => Unstarted(q)'
    BY DEF Unstarted
  <1>3. Started(q) => Started(q)'
    BY <1>1 DEF Started
  <1> QED
    BY <1>2, <1>3 DEF RequestIn

\* The steps of the request path that touch no data.
Same(q) ==
  /\ heap'[q] # "new" <=> heap[q] # "new"
  /\ result'[q] = result[q]
  /\ \A k \in Slots : /\ step'[q][k] # "none" <=> step[q][k] # "none"
                      /\ step'[q][k] \in Waiting <=> step[q][k] \in Waiting

LEMMA RequestSame ==
  ASSUME NEW q \in Requests, RequestIn(q), Same(q), UNCHANGED diskVars,
         IInv, Len(Vec) \in Nat, Len(Vec) <= MaxParts
  PROVE  RequestIn(q)'
  <1>1. Vec' = Vec /\ area' = area /\ moved' = moved /\ parts' = parts /\ buf' = buf
        /\ _sector_count' = _sector_count
    BY DEF Vec, diskVars
  <1>2. Unstarted(q) => Unstarted(q)'
    BY <1>1 DEF Unstarted
  <1>3. ASSUME Started(q) PROVE Started(q)'
    <2>1. \A k \in 1 .. Len(parts[q]) : k \in Slots
      <3>1. Len(parts[q]) \in 1 .. Len(Vec)
        BY <1>3 DEF Started, CutIn
      <3> QED
        BY <3>1, PartsAssumption DEF Slots
    <2>2. /\ \A k \in Slots : step'[q][k] # "none" <=> k <= Len(parts[q])
          /\ \A k \in 1 .. Len(parts[q]) : step'[q][k] \in Waiting =>
               \A i \in moved[q] : ~Spot(parts[q][k], i)
          /\ \A k \in 1 .. Len(parts[q]) : step'[q][k] \notin Waiting /\ result'[q][k] = Ok =>
               \A i \in 0 .. area[q].len - 1 : Spot(parts[q][k], i) => i \in moved[q]
      BY <1>3, <2>1 DEF Started, Same
    <2> QED
      BY <1>1, <1>3, <2>2 DEF Started
  <1> QED
    BY <1>2, <1>3 DEF RequestIn, Same

LEMMA HandlerInv ==
  ASSUME DiskInv, NEW r \in Requests, NEW k \in Slots, Handler(r, k)
  PROVE  DiskInv'
  <1>1. IInv'
    BY NextIInv DEF Handler, Next, DiskInv
  <1>2. UNCHANGED diskVars
    BY DEF Handler
  <1>3. Layout' = Layout /\ store' = store /\ area' = area /\ moved' = moved
        /\ parts' = parts /\ buf' = buf
    BY <1>2 DEF Layout, diskVars
  <1>4. BlocksIn(Layout)' /\ Len(store') <= MaxBlocks
    <2>1. BlocksIn(Layout)' <=> BlocksIn(Layout')
      OBVIOUS
    <2> QED
      BY <1>3, <2>1 DEF DiskInv
  <1>5. /\ IsFun(area, Requests)' /\ IsFun(moved, Requests)' /\ IsFun(parts, Requests)'
        /\ IsFun(buf, Requests)'
    BY <1>3 DEF DiskInv, IsFun
  <1>6. ASSUME NEW q \in Requests PROVE Same(q)
    <2>1. /\ heap \in [Requests -> {"new", "live", "deleted"}]
          /\ step \in [Requests -> [Slots -> Steps]] /\ RInv(r) /\ RInv(q)
      BY DEF DiskInv, IInv, TypeOK
    <2>2. CASE Issue(r, k)
      BY <2>1, <2>2 DEF Issue, Same, Waiting
    <2>3. CASE StoreErr(r, k)
      BY <2>1, <2>3 DEF StoreErr, Same, Waiting
    <2>4. CASE Put(r, k)
      BY <2>1, <2>4 DEF Put, Same, Waiting
    <2>5. CASE DeleteRef(r, k)
      <3>1. step[r][k] = "last" /\ heap[r] # "new"
        BY <2>1, <2>5 DEF DeleteRef, RInv
      <3> QED
        BY <2>1, <2>5, <3>1 DEF DeleteRef, Same, Waiting
    <2>6. CASE Complete(r, k)
      BY <2>1, <2>6 DEF Complete, Same, Waiting
    <2> QED
      BY <2>2, <2>3, <2>4, <2>5, <2>6 DEF Handler
  <1>7. ASSUME NEW q \in Requests PROVE RequestIn(q)'
    <2>1. RequestIn(q) /\ IInv
      BY DEF DiskInv
    <2> QED
      BY <1>2, <1>6, <2>1, LayoutFacts, RequestSame
  <1> QED
    BY <1>1, <1>4, <1>5, <1>7 DEF DiskInv

LEMMA FailMapInv ==
  ASSUME DiskInv, NEW r \in Requests, FailMap(r), UNCHANGED diskVars
  PROVE  DiskInv'
  <1>1. IInv'
    BY NextIInv DEF Next, DiskInv
  <1>2. Layout' = Layout /\ store' = store /\ area' = area /\ moved' = moved
        /\ parts' = parts /\ buf' = buf
    BY DEF Layout, diskVars
  <1>3. BlocksIn(Layout)' /\ Len(store') <= MaxBlocks
    <2>1. BlocksIn(Layout)' <=> BlocksIn(Layout')
      OBVIOUS
    <2> QED
      BY <1>2, <2>1 DEF DiskInv
  <1>4. /\ IsFun(area, Requests)' /\ IsFun(moved, Requests)' /\ IsFun(parts, Requests)'
        /\ IsFun(buf, Requests)'
    BY <1>2 DEF DiskInv, IsFun
  <1>5. ASSUME NEW q \in Requests PROVE RequestIn(q)'
    <2>1. RequestIn(q)
      BY DEF DiskInv
    <2>2. mapper' = mapper /\ _sector_count' = _sector_count
          /\ heap' = heap /\ step' = step /\ result' = result
      BY DEF FailMap, diskVars
    <2> QED
      BY <1>2, <2>1, <2>2, RequestFrame
  <1> QED
    BY <1>1, <1>3, <1>4, <1>5 DEF DiskInv

\* Blocks behind the others leave the parts of a request where they are.
LEMMA CutGrows ==
  ASSUME NEW vec, NEW next, Len(vec) \in Nat, Len(next) \in Nat, Len(vec) <= Len(next),
         \A b \in 1 .. Len(vec) : next[b] = vec[b],
         NEW a, NEW cut, CutIn(vec, a, cut)
  PROVE  CutIn(next, a, cut)
  <1>1. Len(cut) \in 1 .. Len(next) /\ \A b \in 1 .. Len(vec) : b \in 1 .. Len(next)
    BY DEF CutIn
  <1>2. ASSUME NEW k \in 1 .. Len(cut) PROVE PartIn(next, a, cut[k])
    BY <1>1 DEF CutIn, PartIn
  <1> QED
    BY <1>1, <1>2 DEF CutIn

LEMMA AddBlockInv ==
  ASSUME DiskInv, NEW n \in Lens, AddBlock(n)
  PROVE  DiskInv'
  <1> DEFINE d == Layout
             e == Added(d, n)
  <1>0. n \in Nat \ {0}
    BY BlocksAssumption
  <1>1. mapper' = e.mapper /\ _sector_count' = e.count /\ store' = e.store
    BY DEF AddBlock, Layout
  <1>2. /\ UNCHANGED vars /\ parts' = parts /\ area' = area /\ moved' = moved /\ buf' = buf
        /\ Len(store) < MaxBlocks
    BY DEF AddBlock
  <1>3. d.mapper = mapper /\ d.count = _sector_count /\ d.store = store /\ BlocksIn(d)
    BY DEF Layout, DiskInv
  <1> HIDE DEF d
  <1>4. /\ BlocksIn(e)
        /\ e.count = d.count + n
        /\ e.mapper.ranges.vec = Append(d.mapper.ranges.vec, algo_range(d.count, 0, n))
        /\ Len(e.store) = Len(d.store) + 1
    BY <1>0, <1>3, AddedIn
  <1> HIDE DEF e
  <1>5. IInv'
    BY <1>2, NextIInv DEF DiskInv
  <1>6. BlocksIn(Layout)' /\ Len(store') <= MaxBlocks
    <2>1. BlocksIn(Layout)' <=> BlocksIn(Layout')
      OBVIOUS
    <2>2. Layout'.mapper = e.mapper /\ Layout'.count = e.count /\ Layout'.store = e.store
      BY <1>1 DEF Layout
    <2>3. BlocksIn(Layout')
      BY <1>4, <2>2 DEF BlocksIn
    <2>4. Len(store) \in Nat
      BY LayoutFacts
    <2> QED
      BY <1>1, <1>2, <1>3, <1>4, <2>1, <2>3, <2>4, BlocksAssumption
  <1>7. /\ IsFun(area, Requests)' /\ IsFun(moved, Requests)' /\ IsFun(parts, Requests)'
        /\ IsFun(buf, Requests)'
    BY <1>2 DEF DiskInv, IsFun
  <1>8. /\ Len(Vec) \in Nat /\ Len(Vec') \in Nat /\ Len(Vec) <= Len(Vec')
        /\ \A b \in 1 .. Len(Vec) : Vec'[b] = Vec[b]
        /\ _sector_count \in Nat /\ _sector_count' = _sector_count + n
    <2> DEFINE x == algo_range(d.count, 0, n)
    <2>1. Vec \in Seq(RS) /\ Len(Vec) \in Nat /\ _sector_count \in Nat
      BY LayoutFacts, ChainFacts
    <2>2. x \in RS
      BY <1>0, <1>3, <2>1 DEF RS, algo_range
    <2>3. Vec' = Append(Vec, x)
      BY <1>1, <1>3, <1>4 DEF Vec
    <2> HIDE DEF x
    <2>4. Len(Vec') = Len(Vec) + 1 /\ \A b \in 1 .. Len(Vec) : Vec'[b] = Vec[b]
      BY <2>1, <2>2, <2>3, AppendProperties
    <2> QED
      BY <1>1, <1>3, <1>4, <2>1, <2>4
  <1>9. ASSUME NEW q \in Requests PROVE RequestIn(q)'
    <2>1. RequestIn(q) /\ heap' = heap /\ step' = step /\ result' = result
      BY <1>2 DEF DiskInv, vars
    <2>2. Unstarted(q) => Unstarted(q)'
      BY <1>2 DEF Unstarted
    <2>3. ASSUME Started(q) PROVE Started(q)'
      <3>1. CutIn(Vec', area[q], parts[q])
        BY <1>8, <2>3, CutGrows DEF Started
      <3>2. area[q].offset + area[q].len <= _sector_count'
        <4>1. /\ area[q].offset \in Nat /\ area[q].len \in Nat
              /\ area[q].offset + area[q].len <= _sector_count
          BY <2>3 DEF Started
        <4> QED
          BY <1>0, <1>8, <4>1
      <3> QED
        BY <1>2, <2>1, <2>3, <3>1, <3>2 DEF Started
    <2> QED
      BY <2>1, <2>2, <2>3 DEF RequestIn
  <1> QED
    BY <1>5, <1>6, <1>7, <1>9 DEF DiskInv

LEMMA DoRequestInv ==
  ASSUME DiskInv, NEW r \in Requests, NEW type \in {"read", "write"},
         NEW offset \in Nat, NEW l \in Nat \ {0}, DoRequest(r, type, offset, l)
  PROVE  DiskInv' /\ area[r] = NoArea /\ moved[r] = {} /\ \E m \in Slots : MapRequest(r, m)
  <1> DEFINE cut == map_request(mapper, offset, l)
             a == [type |-> type, offset |-> offset, len |-> l]
             new == [i \in 0 .. l - 1 |-> <<r, i>>]
  <1>1. /\ offset + l <= _sector_count
        /\ MapRequest(r, Len(cut))
        /\ parts' = [parts EXCEPT ![r] = cut]
        /\ area' = [area EXCEPT ![r] = a]
        /\ buf' = [buf EXCEPT ![r] = new]
        /\ mapper' = mapper /\ _sector_count' = _sector_count /\ store' = store
        /\ moved' = moved
    BY DEF DoRequest
  <1>2. CutIn(Vec, a, cut)
    <2> DEFINE d == Layout
    <2>1. BlocksIn(d) /\ offset + l <= d.count /\ d.mapper = mapper
      BY <1>1 DEF DiskInv, Layout
    <2>2. a.offset = offset /\ a.len = l
      OBVIOUS
    <2> HIDE DEF d, a, cut
    <2>3. CutIn(d.mapper.ranges.vec, a, map_request(d.mapper, offset, l))
      BY <2>1, <2>2, CutIs
    <2> QED
      BY <2>1, <2>3 DEF Vec, cut
  <1>3. Len(cut) \in Slots /\ Len(cut) \in Nat
    <2>1. Len(cut) \in 1 .. Len(Vec)
      BY <1>2 DEF CutIn
    <2> HIDE DEF cut
    <2> QED
      BY <2>1, LayoutFacts, PartsAssumption DEF Slots
  <1> HIDE DEF cut
  <1>4. IInv'
    BY <1>1, <1>3, NextIInv DEF Next, DiskInv
  <1>5. Layout' = Layout /\ Vec' = Vec
    BY <1>1 DEF Layout, Vec
  <1>6. BlocksIn(Layout)' /\ Len(store') <= MaxBlocks
    <2>1. BlocksIn(Layout)' <=> BlocksIn(Layout')
      OBVIOUS
    <2> QED
      BY <1>1, <1>5, <2>1 DEF DiskInv
  <1>7. /\ IsFun(area, Requests)' /\ IsFun(moved, Requests)' /\ IsFun(parts, Requests)'
        /\ IsFun(buf, Requests)'
    <2> HIDE DEF a, new
    <2> QED
      BY <1>1 DEF DiskInv, IsFun
  <1>8. heap[r] = "new" /\ RequestIn(r)
    BY <1>1 DEF MapRequest, DiskInv
  <1>9. area[r] = NoArea /\ moved[r] = {}
    BY <1>8 DEF RequestIn, Unstarted
  <1>10. RequestIn(r)'
    <2>1. area'[r] = a /\ parts'[r] = cut /\ buf'[r] = new /\ moved'[r] = {}
      <3> HIDE DEF a, new
      <3>1. IsFun(area, Requests) /\ IsFun(parts, Requests) /\ IsFun(buf, Requests)
        BY DEF DiskInv
      <3> QED
        BY <1>1, <1>9, <3>1 DEF IsFun
    <2>2. /\ heap'[r] = "live"
          /\ step'[r] = [k \in Slots |-> IF k <= Len(cut) THEN "mapped" ELSE "none"]
      BY <1>1 DEF MapRequest, DiskInv, IInv, TypeOK
    <2>3. new \in [0 .. l - 1 -> Sectors]
      <3>1. \A i \in 0 .. l - 1 : <<r, i>> \in Sectors
        BY DEF Sectors
      <3> QED
        BY <3>1
    <2>4. a.type = type /\ a.offset = offset /\ a.len = l
      OBVIOUS
    <2>5. \A k \in 1 .. Len(cut) : k \in Slots
      BY <1>3, PartsAssumption DEF Slots
    <2>6. /\ \A k \in Slots : step'[r][k] # "none" <=> k <= Len(cut)
          /\ \A k \in 1 .. Len(cut) : step'[r][k] \in Waiting
      BY <2>2, <2>5 DEF Waiting
    <2> HIDE DEF a, new
    <2>7. Started(r)'
      BY <1>1, <1>2, <1>5, <2>1, <2>3, <2>4, <2>6 DEF Started
    <2> QED
      BY <2>2, <2>7 DEF RequestIn
  <1>11. ASSUME NEW q \in Requests \ {r} PROVE RequestIn(q)'
    <2>1. /\ area'[q] = area[q] /\ parts'[q] = parts[q] /\ buf'[q] = buf[q]
          /\ moved'[q] = moved[q] /\ RequestIn(q)
      <3> HIDE DEF a, new
      <3>1. IsFun(area, Requests) /\ IsFun(parts, Requests) /\ IsFun(buf, Requests)
            /\ RequestIn(q)
        BY DEF DiskInv
      <3> QED
        BY <1>1, <3>1 DEF IsFun
    <2>2. heap'[q] = heap[q] /\ step'[q] = step[q] /\ result'[q] = result[q]
      BY <1>1 DEF MapRequest, DiskInv, IInv, TypeOK
    <2> QED
      BY <1>1, <2>1, <2>2, RequestFrame
  <1> QED
    BY <1>1, <1>3, <1>4, <1>6, <1>7, <1>9, <1>10, <1>11 DEF DiskInv

\* A sequence of sequences with one of them replaced.
Replaced(T, seqs, b, new, next) ==
  /\ next \in Seq(Seq(T)) /\ Len(next) = Len(seqs)
  /\ next[b] = new /\ \A c \in 1 .. Len(seqs) : c # b => next[c] = seqs[c]
  /\ \A c \in 1 .. Len(seqs) : Len(next[c]) = Len(seqs[c])

LEMMA ReplaceOne ==
  ASSUME NEW T, NEW seqs \in Seq(Seq(T)), NEW b \in 1 .. Len(seqs),
         NEW new \in Seq(T), Len(new) = Len(seqs[b]), NEW next, next = [seqs EXCEPT ![b] = new]
  PROVE  Replaced(T, seqs, b, new, next)
  <1>1. /\ next \in Seq(Seq(T)) /\ Len(next) = Len(seqs)
        /\ \A c \in 1 .. Len(seqs) : next[c] = IF c = b THEN new ELSE seqs[c]
    BY ExceptSeq
  <1> QED
    BY <1>1 DEF Replaced

\* Part p of request r, before it moves.
Open(r, p) ==
  /\ Started(r) /\ PartIn(Vec, area[r], p)
  /\ \A i \in moved[r] : ~Spot(p, i)

\* What a write leaves in the block, and a read in the buffer.
Written(r, p, S) ==
  [a \in 1 .. Len(store[p.block]) |->
     IF a - 1 - p.start \in S THEN buf[r][p.buf + a - 1 - p.start] ELSE store[p.block][a]]
Filled(r, p, S) ==
  [i \in 0 .. area[r].len - 1 |->
     IF i - p.buf \in S THEN store[p.block][p.start + i - p.buf + 1] ELSE buf[r][i]]

Moves(r, p, S) ==
  /\ moved' = [moved EXCEPT ![r] = moved[r] \cup {p.buf + i : i \in S}]
  /\ \/ /\ area[r].type = "write"
        /\ store' = [store EXCEPT ![p.block] = Written(r, p, S)]
        /\ buf' = buf
     \/ /\ area[r].type = "read"
        /\ buf' = [buf EXCEPT ![r] = Filled(r, p, S)]
        /\ store' = store

LEMMA PartNumbers ==
  ASSUME DiskInv, NEW r \in Requests, NEW p, Open(r, p)
  PROVE  /\ p.block \in 1 .. Len(store) /\ p.block \in 1 .. Len(Vec)
         /\ p.start \in Nat /\ p.buf \in Nat /\ p.len \in Nat \ {0}
         /\ area[r].offset \in Nat /\ area[r].len \in Nat \ {0}
         /\ p.start + p.len <= Len(store[p.block]) /\ p.buf + p.len <= area[r].len
         /\ Vec[p.block].org_start \in Nat
         /\ Vec[p.block].org_start + p.start = area[r].offset + p.buf
         /\ Len(store[p.block]) \in Nat /\ store[p.block] \in Seq(Sectors)
         /\ Vec[p.block].len = Len(store[p.block])
         /\ area[r].offset + area[r].len <= _sector_count /\ _sector_count \in Nat
         /\ buf[r] \in [0 .. area[r].len - 1 -> Sectors]
  <1>1. /\ p.block \in 1 .. Len(Vec) /\ p.start \in Nat /\ p.buf \in Nat /\ p.len \in Nat \ {0}
        /\ p.start + p.len <= Vec[p.block].len
        /\ Vec[p.block].org_start + p.start = area[r].offset + p.buf
        /\ p.buf + p.len <= area[r].len
    BY DEF Open, PartIn
  <1>2. /\ Vec[p.block].len = Len(store[p.block]) /\ Len(Vec) = Len(store)
        /\ Vec[p.block].org_start \in Nat /\ Vec[p.block].len \in Nat
        /\ store[p.block] \in Seq(Sectors) /\ _sector_count \in Nat
    BY <1>1, LayoutFacts
  <1>3. /\ area[r].offset \in Nat /\ area[r].len \in Nat \ {0}
        /\ area[r].offset + area[r].len <= _sector_count
        /\ buf[r] \in [0 .. area[r].len - 1 -> Sectors]
    BY DEF Open, Started
  <1> QED
    BY <1>1, <1>2, <1>3

LEMMA TransferIs ==
  ASSUME DiskInv, NEW r \in Requests, NEW p, Open(r, p), NEW S, Transfer(r, p, S)
  PROVE  Moves(r, p, S)
  <1>1. /\ DOMAIN store[p.block] = 1 .. Len(store[p.block])
        /\ DOMAIN buf[r] = 0 .. area[r].len - 1
        /\ area[r].type \in {"read", "write"}
    BY PartNumbers, ElementFacts DEF Open, Started
  <1>2. moved' = [moved EXCEPT ![r] = moved[r] \cup {p.buf + i : i \in S}]
    BY DEF Transfer
  <1>3. CASE area[r].type = "write"
    <2>1. store' = [store EXCEPT ![p.block] = Written(r, p, S)] /\ buf' = buf
      BY <1>1, <1>3 DEF Transfer, Written
    <2> QED
      BY <1>2, <1>3, <2>1 DEF Moves
  <1>4. CASE area[r].type = "read"
    <2>1. buf' = [buf EXCEPT ![r] = Filled(r, p, S)] /\ store' = store
      BY <1>1, <1>4 DEF Transfer, Filled
    <2> QED
      BY <1>2, <1>4, <2>1 DEF Moves
  <1> QED
    BY <1>1, <1>3, <1>4

LEMMA WrittenFacts ==
  ASSUME DiskInv, NEW r \in Requests, NEW p, Open(r, p), NEW S \in SUBSET (0 .. p.len - 1)
  PROVE  Written(r, p, S) \in Seq(Sectors) /\ Len(Written(r, p, S)) = Len(store[p.block])
  <1> DEFINE n == Len(store[p.block])
             w == Written(r, p, S)
  <1>1. n \in Nat /\ store[p.block] \in Seq(Sectors)
    BY PartNumbers
  <1>2. ASSUME NEW a \in 1 .. n PROVE w[a] \in Sectors
    <2>1. CASE a - 1 - p.start \in S
      <3>1. /\ a - 1 - p.start \in 0 .. p.len - 1 /\ p.buf \in Nat /\ p.start \in Nat
            /\ p.len \in Nat /\ p.buf + p.len <= area[r].len /\ area[r].len \in Nat
            /\ buf[r] \in [0 .. area[r].len - 1 -> Sectors]
        BY <2>1, PartNumbers
      <3>2. p.buf + a - 1 - p.start \in 0 .. area[r].len - 1
        <4> DEFINE u == p.start
                   v == p.buf
                   m == p.len
                   z == area[r].len
        <4>1. /\ a \in Int /\ u \in Nat /\ v \in Nat /\ m \in Nat /\ z \in Nat
              /\ v + m <= z /\ a - 1 - u \in 0 .. m - 1
          BY <1>1, <3>1
        <4> HIDE DEF u, v, m, z
        <4>2. v + a - 1 - u \in 0 .. z - 1
          BY <4>1
        <4> QED
          BY <4>2 DEF u, v, z
      <3>3. buf[r][p.buf + a - 1 - p.start] \in Sectors
        BY <3>1, <3>2
      <3> QED
        BY <2>1, <3>3 DEF Written
    <2>2. CASE a - 1 - p.start \notin S
      <3>1. store[p.block][a] \in Sectors
        BY <1>1, ElementFacts
      <3> QED
        BY <2>2, <3>1 DEF Written
    <2> QED
      BY <2>1, <2>2
  <1>3. w = [a \in 1 .. n |-> w[a]]
    BY DEF Written
  <1> HIDE DEF w, n
  <1>4. w \in [1 .. n -> Sectors]
    BY <1>2, <1>3
  <1>5. w \in Seq(Sectors) /\ Len(w) = n
    BY <1>1, <1>4
  <1> QED
    BY <1>5 DEF w, n

LEMMA FilledFacts ==
  ASSUME DiskInv, NEW r \in Requests, NEW p, Open(r, p), NEW S \in SUBSET (0 .. p.len - 1)
  PROVE  Filled(r, p, S) \in [0 .. area[r].len - 1 -> Sectors]
  <1> DEFINE w == Filled(r, p, S)
             n == area[r].len
  <1>1. n \in Nat /\ store[p.block] \in Seq(Sectors) /\ buf[r] \in [0 .. n - 1 -> Sectors]
    BY PartNumbers
  <1>2. ASSUME NEW i \in 0 .. n - 1 PROVE w[i] \in Sectors
    <2>1. CASE i - p.buf \in S
      <3>1. /\ i - p.buf \in 0 .. p.len - 1 /\ p.buf \in Nat /\ p.start \in Nat
            /\ p.len \in Nat /\ p.start + p.len <= Len(store[p.block])
            /\ Len(store[p.block]) \in Nat
        BY <2>1, PartNumbers
      <3>2. p.start + i - p.buf + 1 \in 1 .. Len(store[p.block])
        <4> DEFINE u == p.start
                   v == p.buf
                   m == p.len
                   z == Len(store[p.block])
        <4>1. /\ i \in Int /\ u \in Nat /\ v \in Nat /\ m \in Nat /\ z \in Nat
              /\ u + m <= z /\ i - v \in 0 .. m - 1
          BY <1>1, <3>1
        <4> HIDE DEF u, v, m, z
        <4>2. u + i - v + 1 \in 1 .. z
          BY <4>1
        <4> QED
          BY <4>2 DEF u, v, z
      <3>3. store[p.block][p.start + i - p.buf + 1] \in Sectors
        BY <1>1, <3>2, ElementFacts
      <3> QED
        BY <2>1, <3>3 DEF Filled
    <2>2. CASE i - p.buf \notin S
      <3>1. buf[r][i] \in Sectors
        BY <1>1
      <3> QED
        BY <2>2, <3>1 DEF Filled
    <2> QED
      BY <2>1, <2>2
  <1>3. w = [i \in 0 .. n - 1 |-> w[i]]
    BY DEF Filled
  <1> HIDE DEF w, n
  <1>4. w \in [0 .. n - 1 -> Sectors]
    BY <1>2, <1>3
  <1> QED
    BY <1>4 DEF w, n

\* The blocks keep their lengths, and the buffers theirs.
LEMMA MovesKeep ==
  ASSUME DiskInv, NEW r \in Requests, NEW p, Open(r, p), NEW S \in SUBSET (0 .. p.len - 1),
         Moves(r, p, S)
  PROVE  /\ store' \in Seq(Seq(Sectors)) /\ Len(store') = Len(store)
         /\ \A b \in 1 .. Len(store) : Len(store'[b]) = Len(store[b])
         /\ buf'[r] \in [0 .. area[r].len - 1 -> Sectors]
         /\ \A q \in Requests \ {r} : buf'[q] = buf[q] /\ moved'[q] = moved[q]
         /\ moved'[r] = moved[r] \cup {p.buf + i : i \in S}
         /\ IsFun(buf, Requests)' /\ IsFun(moved, Requests)'
  <1>1. /\ store \in Seq(Seq(Sectors)) /\ p.block \in 1 .. Len(store)
        /\ buf[r] \in [0 .. area[r].len - 1 -> Sectors]
    BY LayoutFacts, PartNumbers
  <1>2. IsFun(buf, Requests) /\ IsFun(moved, Requests)
    BY DEF DiskInv
  <1> DEFINE more == {p.buf + i : i \in S}
             filled == Filled(r, p, S)
             written == Written(r, p, S)
  <1>3. moved' = [moved EXCEPT ![r] = moved[r] \cup more]
    BY DEF Moves
  <1>4. filled \in [0 .. area[r].len - 1 -> Sectors]
    BY FilledFacts
  <1>5. written \in Seq(Sectors) /\ Len(written) = Len(store[p.block])
    BY WrittenFacts
  <1>6. \/ store' = [store EXCEPT ![p.block] = written] /\ buf' = buf
        \/ buf' = [buf EXCEPT ![r] = filled] /\ store' = store
    BY DEF Moves
  <1> HIDE DEF more, filled, written
  <1>7. /\ \A q \in Requests \ {r} : moved'[q] = moved[q]
        /\ moved'[r] = moved[r] \cup more
        /\ IsFun(moved, Requests)'
    BY <1>2, <1>3 DEF IsFun
  <1>8. CASE store' = [store EXCEPT ![p.block] = written] /\ buf' = buf
    <2>1. /\ store' \in Seq(Seq(Sectors)) /\ Len(store') = Len(store)
          /\ \A b \in 1 .. Len(store) : Len(store'[b]) = Len(store[b])
      <3> DEFINE b == p.block
      <3>1. b \in 1 .. Len(store) /\ Len(written) = Len(store[b])
            /\ store' = [store EXCEPT ![b] = written]
        BY <1>1, <1>5, <1>8
      <3> HIDE DEF b
      <3>2. Replaced(Sectors, store, b, written, store')
        BY <1>1, <1>5, <3>1, ReplaceOne
      <3> QED
        BY <3>2 DEF Replaced
    <2> QED
      BY <1>1, <1>2, <1>7, <1>8, <2>1 DEF IsFun, more
  <1>9. CASE buf' = [buf EXCEPT ![r] = filled] /\ store' = store
    <2>1. /\ buf'[r] = filled /\ \A q \in Requests \ {r} : buf'[q] = buf[q]
          /\ IsFun(buf, Requests)'
      BY <1>2, <1>9 DEF IsFun
    <2> QED
      BY <1>1, <1>4, <1>7, <1>9, <2>1 DEF more
  <1> QED
    BY <1>6, <1>8, <1>9

Reported(r, k, s, S) ==
  /\ Report(r, k, s) /\ S \in SUBSET (0 .. parts[r][k].len - 1)
  /\ s = Ok => S = 0 .. parts[r][k].len - 1
  /\ Moves(r, parts[r][k], S)

LEMMA ReportIs ==
  ASSUME DiskInv, NEW r \in Requests, NEW k \in Slots, NEW s \in Statuses, ReportPart(r, k, s)
  PROVE  /\ heap[r] = "live" /\ Started(r) /\ k \in 1 .. Len(parts[r]) /\ step[r][k] = "issued"
         /\ Open(r, parts[r][k])
         /\ \E S : Reported(r, k, s, S)
  <1>1. Report(r, k, s) /\ step[r][k] = "issued" /\ RInv(r) /\ RequestIn(r)
    BY DEF ReportPart, Report, DiskInv, IInv
  <1>2. heap[r] = "live"
    BY <1>1 DEF RInv, Holding
  <1>3. Started(r)
    BY <1>1, <1>2 DEF RequestIn
  <1>4. k \in 1 .. Len(parts[r]) /\ PartIn(Vec, area[r], parts[r][k])
    <2>1. Len(parts[r]) \in 1 .. Len(Vec) /\ k <= Len(parts[r])
      BY <1>1, <1>3 DEF Started, CutIn
    <2>2. k \in 1 .. Len(parts[r])
      BY <2>1, LayoutFacts, PartsAssumption DEF Slots
    <2> QED
      BY <1>3, <2>2 DEF Started, CutIn
  <1>5. \A i \in moved[r] : ~Spot(parts[r][k], i)
    BY <1>1, <1>3, <1>4 DEF Started, Waiting
  <1>6. Open(r, parts[r][k])
    BY <1>3, <1>4, <1>5 DEF Open
  <1>7. \E S : Reported(r, k, s, S)
    <2> DEFINE p == parts[r][k]
    <2>1. PICK S \in SUBSET (0 .. p.len - 1) :
            (s = Ok => S = 0 .. p.len - 1) /\ Transfer(r, p, S)
      BY DEF ReportPart
    <2>2. Open(r, p)
      BY <1>6
    <2> HIDE DEF p
    <2>3. Moves(r, p, S)
      BY <2>1, <2>2, TransferIs
    <2> QED
      BY <1>1, <2>1, <2>3 DEF Reported, p
  <1> QED
    BY <1>1, <1>2, <1>3, <1>4, <1>6, <1>7

\* Two parts have no position in common.
LEMMA PartsApart ==
  ASSUME NEW vec, NEW a, NEW cut, CutIn(vec, a, cut), Len(vec) \in Nat,
         NEW i \in 1 .. Len(cut), NEW k \in 1 .. Len(cut), i # k, NEW x \in Int, Spot(cut[k], x)
  PROVE  ~Spot(cut[i], x)
  <1>1. /\ i < k => cut[i].buf + cut[i].len <= cut[k].buf
        /\ k < i => cut[k].buf + cut[k].len <= cut[i].buf
        /\ i \in Nat /\ k \in Nat
        /\ cut[i].buf \in Nat /\ cut[i].len \in Nat /\ cut[k].buf \in Nat /\ cut[k].len \in Nat
    BY SMTT(30) DEF CutIn, PartIn
  <1>2. cut[k].buf <= x /\ x < cut[k].buf + cut[k].len
    BY DEF Spot
  <1> DEFINE bi == cut[i].buf
             li == cut[i].len
             bk == cut[k].buf
             lk == cut[k].len
  <1>3. /\ bi \in Nat /\ li \in Nat /\ bk \in Nat /\ lk \in Nat /\ i \in Nat /\ k \in Nat
        /\ (i < k => bi + li <= bk) /\ (k < i => bk + lk <= bi) /\ bk <= x /\ x < bk + lk
    BY <1>1, <1>2
  <1> HIDE DEF bi, li, bk, lk
  <1>4. ~(bi <= x /\ x < bi + li)
    BY <1>3
  <1> QED
    BY <1>4 DEF Spot, bi, li

\* The request whose part is reported.
LEMMA ReportedIn ==
  ASSUME DiskInv, NEW r \in Requests, NEW k \in Slots, NEW s \in Statuses, ReportPart(r, k, s)
  PROVE  RequestIn(r)'
  <1> DEFINE p == parts[r][k]
             n == area[r].len
  <1>1. /\ heap[r] = "live" /\ Started(r) /\ k \in 1 .. Len(parts[r]) /\ step[r][k] = "issued"
        /\ Open(r, p)
    BY ReportIs
  <1>2. PICK S : Reported(r, k, s, S)
    BY ReportIs
  <1>3. /\ Report(r, k, s) /\ S \in SUBSET (0 .. p.len - 1)
        /\ s = Ok => S = 0 .. p.len - 1
        /\ Moves(r, p, S)
    BY <1>2 DEF Reported
  <1>4. /\ mapper' = mapper /\ _sector_count' = _sector_count
        /\ parts'[r] = parts[r] /\ area'[r] = area[r]
    BY DEF ReportPart
  <1>5. /\ buf'[r] \in [0 .. n - 1 -> Sectors]
        /\ moved'[r] = moved[r] \cup {p.buf + i : i \in S}
    <2> HIDE DEF p
    <2> QED
      BY <1>1, <1>3, MovesKeep
  <1>6. /\ p.buf \in Nat /\ p.len \in Nat /\ n \in Nat /\ p.buf + p.len <= n
    <2> HIDE DEF p
    <2> QED
      BY <1>1, PartNumbers
  <1>7. /\ heap'[r] = "live" /\ step'[r] = [step[r] EXCEPT ![k] = "reported"]
        /\ result'[r] = [result[r] EXCEPT ![k] = s]
        /\ step[r] \in [Slots -> Steps] /\ result[r] \in [Slots -> Statuses]
    BY <1>1, <1>3 DEF Report, DiskInv, IInv, TypeOK
  <1>8. /\ moved[r] \subseteq 0 .. n - 1
        /\ CutIn(Vec, area[r], parts[r])
        /\ \A j \in Slots : step[r][j] # "none" <=> j <= Len(parts[r])
        /\ \A j \in 1 .. Len(parts[r]) : step[r][j] \in Waiting =>
             \A i \in moved[r] : ~Spot(parts[r][j], i)
        /\ \A j \in 1 .. Len(parts[r]) : step[r][j] \notin Waiting /\ result[r][j] = Ok =>
             \A i \in 0 .. n - 1 : Spot(parts[r][j], i) => i \in moved[r]
    BY <1>1 DEF Started
  <1>9. \A j \in 1 .. Len(parts[r]) : j \in Slots
    <2>1. Len(parts[r]) \in 1 .. Len(Vec)
      BY <1>8 DEF CutIn
    <2> QED
      BY <2>1, LayoutFacts, PartsAssumption DEF Slots
  <1>10. \A i \in S : p.buf + i \in 0 .. n - 1 /\ Spot(p, p.buf + i)
    <2>1. \A i \in S : i \in Nat /\ i < p.len
      BY <1>3, <1>6
    <2> QED
      BY <1>6, <2>1 DEF Spot
  <1>11. moved'[r] \subseteq 0 .. n - 1
    BY <1>5, <1>8, <1>10
  <1>12. \A j \in Slots : step'[r][j] # "none" <=> j <= Len(parts[r])
    BY <1>1, <1>7, <1>8
  <1>13. ASSUME NEW j \in 1 .. Len(parts[r]), step'[r][j] \in Waiting, NEW i \in moved'[r]
         PROVE  ~Spot(parts[r][j], i)
    <2>1. j # k /\ step[r][j] \in Waiting
      BY <1>7, <1>9, <1>13 DEF Waiting
    <2>2. CASE i \in moved[r]
      BY <1>8, <2>1, <2>2
    <2>3. CASE i \notin moved[r]
      <3>1. Spot(p, i) /\ i \in Int
        BY <1>5, <1>10, <2>3
      <3>2. Len(Vec) \in Nat
        BY LayoutFacts
      <3> QED
        BY <1>1, <1>8, <2>1, <3>1, <3>2, PartsApart
    <2> QED
      BY <2>2, <2>3
  <1>14. ASSUME NEW j \in 1 .. Len(parts[r]), step'[r][j] \notin Waiting, result'[r][j] = Ok,
                NEW i \in 0 .. n - 1, Spot(parts[r][j], i)
         PROVE  i \in moved'[r]
    <2>1. CASE j = k
      <3>1. S = 0 .. p.len - 1
        BY <1>3, <1>7, <1>9, <1>14, <2>1
      <3>2. p.buf <= i /\ i < p.buf + p.len
        BY <1>14, <2>1 DEF Spot
      <3>3. i - p.buf \in S /\ i = p.buf + (i - p.buf)
        <4> DEFINE v == p.buf
                   m == p.len
        <4>1. i \in Int /\ v \in Nat /\ m \in Nat /\ v <= i /\ i < v + m /\ S = 0 .. m - 1
          BY <1>6, <3>1, <3>2
        <4> HIDE DEF v, m
        <4>2. i - v \in S /\ i = v + (i - v)
          BY <4>1
        <4> QED
          BY <4>2 DEF v
      <3> QED
        BY <1>5, <3>3
    <2>2. CASE j # k
      <3>1. step[r][j] \notin Waiting /\ result[r][j] = Ok
        BY <1>7, <1>9, <1>14, <2>2
      <3> QED
        BY <1>5, <1>8, <1>14, <3>1
    <2> QED
      BY <2>1, <2>2
  <1>15. Vec' = Vec
    BY <1>4 DEF Vec
  <1>16. /\ area[r].type \in {"read", "write"} /\ area[r].offset \in Nat
         /\ area[r].len \in Nat \ {0}
         /\ area[r].offset + area[r].len <= _sector_count
    BY <1>1 DEF Started
  <1> HIDE DEF p
  <1>17. Started(r)'
    BY <1>4, <1>5, <1>8, <1>11, <1>12, <1>13, <1>14, <1>15, <1>16 DEF Started
  <1> QED
    BY <1>7, <1>17 DEF RequestIn

LEMMA ReportPartInv ==
  ASSUME DiskInv, NEW r \in Requests, NEW k \in Slots, NEW s \in Statuses, ReportPart(r, k, s)
  PROVE  DiskInv'
  <1> DEFINE p == parts[r][k]
  <1>1. Open(r, p)
    BY ReportIs
  <1>2. PICK S : Reported(r, k, s, S)
    BY ReportIs
  <1>3. Report(r, k, s) /\ S \in SUBSET (0 .. p.len - 1) /\ Moves(r, p, S)
    BY <1>2 DEF Reported
  <1>4. mapper' = mapper /\ _sector_count' = _sector_count /\ parts' = parts /\ area' = area
    BY DEF ReportPart
  <1> HIDE DEF p
  <1>5. /\ store' \in Seq(Seq(Sectors)) /\ Len(store') = Len(store)
        /\ \A b \in 1 .. Len(store) : Len(store'[b]) = Len(store[b])
        /\ \A q \in Requests \ {r} : buf'[q] = buf[q] /\ moved'[q] = moved[q]
        /\ IsFun(buf, Requests)' /\ IsFun(moved, Requests)'
    BY <1>1, <1>3, MovesKeep
  <1>6. IInv'
    BY <1>3, NextIInv DEF Next, DiskInv
  <1>7. BlocksIn(Layout)' /\ Len(store') <= MaxBlocks
    <2> DEFINE d == Layout
               e == Layout'
    <2>1. /\ d.mapper = mapper /\ d.count = _sector_count /\ d.store = store
          /\ e.mapper = mapper /\ e.count = _sector_count /\ e.store = store'
          /\ BlocksIn(d)
      BY <1>4 DEF Layout, DiskInv
    <2> HIDE DEF d, e
    <2>2. Laid(e.mapper.ranges.vec, e.store)
      <3>1. Laid(d.mapper.ranges.vec, d.store)
        BY <2>1 DEF BlocksIn
      <3> QED
        BY <1>5, <2>1, <3>1 DEF Laid
    <2>3. BlocksIn(e)
      BY <1>5, <2>1, <2>2 DEF BlocksIn
    <2>4. BlocksIn(Layout)' <=> BlocksIn(e)
      BY DEF e
    <2> QED
      BY <1>5, <2>3, <2>4 DEF DiskInv
  <1>8. IsFun(area, Requests)' /\ IsFun(parts, Requests)'
    BY <1>4 DEF DiskInv, IsFun
  <1>9. RequestIn(r)'
    BY ReportedIn
  <1>10. ASSUME NEW q \in Requests \ {r} PROVE RequestIn(q)'
    <2>1. heap'[q] = heap[q] /\ step'[q] = step[q] /\ result'[q] = result[q] /\ RequestIn(q)
      BY <1>3 DEF Report, DiskInv, IInv, TypeOK
    <2>2. area'[q] = area[q] /\ parts'[q] = parts[q]
      BY <1>4
    <2> QED
      BY <1>4, <1>5, <2>1, <2>2, RequestFrame
  <1> QED
    BY <1>5, <1>6, <1>7, <1>8, <1>9, <1>10 DEF DiskInv

LEMMA StutterInv ==
  ASSUME DiskInv, UNCHANGED allVars
  PROVE  DiskInv'
  <1>1. /\ UNCHANGED vars /\ mapper' = mapper /\ _sector_count' = _sector_count
        /\ store' = store /\ parts' = parts /\ area' = area /\ moved' = moved /\ buf' = buf
    BY DEF allVars, diskVars
  <1>2. IInv'
    BY <1>1, NextIInv DEF DiskInv
  <1>3. BlocksIn(Layout)' /\ Len(store') <= MaxBlocks
    <2>1. BlocksIn(Layout)' <=> BlocksIn(Layout')
      OBVIOUS
    <2>2. Layout' = Layout
      BY <1>1 DEF Layout
    <2> QED
      BY <1>1, <2>1, <2>2 DEF DiskInv
  <1>4. /\ IsFun(area, Requests)' /\ IsFun(moved, Requests)' /\ IsFun(parts, Requests)'
        /\ IsFun(buf, Requests)'
    BY <1>1 DEF DiskInv, IsFun
  <1>5. ASSUME NEW q \in Requests PROVE RequestIn(q)'
    <2>1. RequestIn(q)
      BY DEF DiskInv
    <2> QED
      BY <1>1, <2>1, RequestFrame DEF vars
  <1> QED
    BY <1>2, <1>3, <1>4, <1>5 DEF DiskInv

\* A DoRequest that DiskNext offers.
LEMMA OfferedRequest ==
  ASSUME DiskInv, NEW offset \in 0 .. _sector_count - 1, NEW l \in 1 .. _sector_count - offset
  PROVE  offset \in Nat /\ l \in Nat \ {0}
  <1>1. _sector_count \in Nat
    BY LayoutFacts
  <1> QED
    BY <1>1

LEMMA DiskNextInv == DiskInv /\ [DiskNext]_allVars => DiskInv'
  <1> SUFFICES ASSUME DiskInv, [DiskNext]_allVars PROVE DiskInv'
    OBVIOUS
  <1>1. ASSUME NEW n \in Lens, AddBlock(n) PROVE DiskInv'
    BY <1>1, AddBlockInv
  <1>2. ASSUME NEW r \in Requests, FailMap(r), UNCHANGED diskVars PROVE DiskInv'
    BY <1>2, FailMapInv
  <1>3. ASSUME NEW r \in Requests, NEW offset \in 0 .. _sector_count - 1,
               NEW l \in 1 .. _sector_count - offset, NEW type \in {"read", "write"},
               DoRequest(r, type, offset, l)
        PROVE  DiskInv'
    BY <1>3, OfferedRequest, DoRequestInv
  <1>4. ASSUME NEW r \in Requests, NEW k \in Slots, Handler(r, k) PROVE DiskInv'
    BY <1>4, HandlerInv
  <1>5. ASSUME NEW r \in Requests, NEW k \in Slots, NEW s \in Statuses, ReportPart(r, k, s)
        PROVE  DiskInv'
    BY <1>5, ReportPartInv
  <1>6. CASE UNCHANGED allVars
    BY <1>6, StutterInv
  <1> QED
    BY <1>1, <1>2, <1>3, <1>4, <1>5, <1>6 DEF DiskNext

-------------------------------------------------------------------------------
(* A part moves the sectors of the disk that it should.                    *)

\* The positions of the buffer that the sectors S of part p are.
Spots(p, S) == {p.buf + j : j \in S}

\* Sector x of the disk, in block p.block whose sectors begin at o, is one of them.
Among(p, S, offset, o, x, i) ==
  /\ i \in Spots(p, S) <=> i - p.buf \in S
  /\ (\E n \in Spots(p, S) : offset + n + 1 = x) <=> x - o - 1 - p.start \in S
  /\ x - offset - 1 = p.buf + (x - o) - 1 - p.start

LEMMA AmongIs ==
  ASSUME NEW p, p.buf \in Nat, p.start \in Nat, NEW S \in SUBSET Nat, NEW offset \in Nat,
         NEW o \in Nat, o + p.start = offset + p.buf, NEW x \in Int, NEW i \in Int
  PROVE  Among(p, S, offset, o, x, i)
  <1> DEFINE v == p.buf
             u == p.start
  <1>1. v \in Nat /\ u \in Nat /\ o + u = offset + v /\ Spots(p, S) = {v + j : j \in S}
    BY DEF Spots
  <1> HIDE DEF u, v
  <1>2. \A j \in S : j \in Nat
    OBVIOUS
  <1>3. i \in Spots(p, S) <=> i - v \in S
    <2>1. ASSUME i - v \in S PROVE i \in Spots(p, S)
      <3>1. i = v + (i - v)
        BY <1>1
      <3> QED
        BY <1>1, <2>1, <3>1
    <2>2. ASSUME NEW j \in S, i = v + j PROVE i - v \in S
      <3>1. i - v = j
        BY <1>1, <1>2, <2>2
      <3> QED
        BY <3>1
    <2> QED
      BY <1>1, <2>1, <2>2
  <1>4. (\E n \in Spots(p, S) : offset + n + 1 = x) <=> x - o - 1 - u \in S
    <2>1. ASSUME x - o - 1 - u \in S PROVE \E n \in Spots(p, S) : offset + n + 1 = x
      <3> DEFINE j == x - o - 1 - u
      <3>1. v + j \in Spots(p, S)
        BY <1>1, <2>1
      <3>2. j \in Int /\ j = x - o - 1 - u
        BY <1>1
      <3> HIDE DEF j
      <3>3. offset + (v + j) + 1 = x
        BY <1>1, <3>2
      <3> QED
        BY <3>1, <3>3
    <2>2. ASSUME NEW j \in S, offset + (v + j) + 1 = x PROVE x - o - 1 - u \in S
      <3>1. x - o - 1 - u = j
        BY <1>1, <1>2, <2>2
      <3> QED
        BY <3>1
    <2> QED
      BY <1>1, <2>1, <2>2
  <1>5. x - offset - 1 = v + (x - o) - 1 - u
    BY <1>1
  <1> QED
    BY <1>3, <1>4, <1>5 DEF u, v, Among

\* What a write makes of the disk.
DiskWritten(r, p, S) ==
  [x \in 1 .. _sector_count |->
     IF \E i \in Spots(p, S) : area[r].offset + i + 1 = x
     THEN buf[r][x - area[r].offset - 1] ELSE FlattenSeq(store)[x]]

\* What a read makes of the buffer.
BufFilled(r, p, S) ==
  [i \in 0 .. area[r].len - 1 |->
     IF i \in Spots(p, S) THEN FlattenSeq(store)[area[r].offset + i + 1] ELSE buf[r][i]]

LEMMA ReadIs ==
  ASSUME DiskInv, NEW r \in Requests, NEW p, Open(r, p), NEW S \in SUBSET (0 .. p.len - 1)
  PROVE  Filled(r, p, S) = BufFilled(r, p, S)
  <1> DEFINE b == p.block
             o == Vec[b].org_start
             n == area[r].len
             offset == area[r].offset
  <1>1. /\ b \in 1 .. Len(Vec) /\ p.start \in Nat /\ p.buf \in Nat /\ p.len \in Nat
        /\ offset \in Nat /\ n \in Nat /\ o \in Nat
        /\ p.start + p.len <= Len(store[b]) /\ Len(store[b]) \in Nat
        /\ o + p.start = offset + p.buf
        /\ Vec[b].len = Len(store[b])
    BY PartNumbers
  <1>2. \A a \in 1 .. Vec[b].len : FlattenSeq(store)[o + a] = store[b][a]
    <2>1. b \in 1 .. Len(Vec)
      BY <1>1
    <2> HIDE DEF b
    <2> QED
      BY <2>1, LayoutFacts
  <1>3. ASSUME NEW i \in 0 .. n - 1
        PROVE  Filled(r, p, S)[i] = BufFilled(r, p, S)[i]
    <2>1. i \in Spots(p, S) <=> i - p.buf \in S
      <3>1. S \in SUBSET Nat /\ i \in Int
        BY <1>1
      <3> HIDE DEF o, offset, n
      <3> QED
        <4>1. Among(p, S, offset, o, i, i)
          BY <1>1, <3>1, AmongIs
        <4> QED
          BY <4>1 DEF Among
    <2>2. ASSUME i - p.buf \in S
          PROVE  FlattenSeq(store)[offset + i + 1] = store[b][p.start + i - p.buf + 1]
      <3> DEFINE u == p.start
                 v == p.buf
                 m == p.len
                 z == Vec[b].len
                 a == u + i - v + 1
      <3>1. /\ i \in Int /\ u \in Nat /\ v \in Nat /\ m \in Nat /\ z \in Nat
            /\ u + m <= z /\ i - v \in 0 .. m - 1 /\ o + u = offset + v
            /\ offset \in Nat /\ o \in Nat
        <4>1. i \in Int /\ offset \in Nat /\ o \in Nat /\ o + u = offset + v
          BY <1>1
        <4>2. u \in Nat /\ v \in Nat /\ m \in Nat /\ z \in Nat
          BY <1>1
        <4>3. u + m <= z /\ i - v \in 0 .. m - 1
          BY <1>1, <2>2
        <4> QED
          BY <4>1, <4>2, <4>3
      <3> HIDE DEF u, v, m, z, o, offset
      <3>2. a \in 1 .. z /\ o + a = offset + i + 1
        BY <3>1
      <3> HIDE DEF a, b
      <3>3. FlattenSeq(store)[o + a] = store[b][a]
        BY <1>2, <3>2 DEF z
      <3> QED
        BY <3>2, <3>3 DEF a, u, v
    <2> QED
      BY <2>1, <2>2 DEF Filled, BufFilled
  <1> QED
    BY <1>3 DEF Filled, BufFilled

\* The blocks after a write, one after the other, are the disk after it.
LEMMA WriteIs ==
  ASSUME DiskInv, NEW r \in Requests, NEW p, Open(r, p), NEW S \in SUBSET (0 .. p.len - 1),
         NEW now, now = [store EXCEPT ![p.block] = Written(r, p, S)]
  PROVE  FlattenSeq(now) = DiskWritten(r, p, S)
  <1> DEFINE b == p.block
             o == Vec[b].org_start
             offset == area[r].offset
             w == Written(r, p, S)
  <1>1. /\ b \in 1 .. Len(Vec) /\ p.start \in Nat /\ p.buf \in Nat /\ p.len \in Nat
        /\ offset \in Nat /\ o \in Nat
        /\ p.start + p.len <= Len(store[b]) /\ Len(store[b]) \in Nat
        /\ o + p.start = offset + p.buf
        /\ Vec[b].len = Len(store[b]) /\ b \in 1 .. Len(store)
    BY PartNumbers
  <1>2. w \in Seq(Sectors) /\ Len(w) = Len(store[b])
    BY WrittenFacts
  <1>3. w = [a \in 1 .. Len(store[b]) |->
               IF a - 1 - p.start \in S THEN buf[r][p.buf + a - 1 - p.start] ELSE store[b][a]]
    BY DEF Written
  <1>4. now = [store EXCEPT ![b] = w]
    OBVIOUS
  <1>5. S \in SUBSET Nat
    BY <1>1
  <1> HIDE DEF w, b, o, offset
  <1>6. /\ Chain(Vec) /\ Len(Vec) = Len(store) /\ Len(Vec) \in Nat
        /\ _sector_count \in Nat /\ Len(FlattenSeq(store)) = _sector_count
        /\ _sector_count = SumLen(Vec) /\ store \in Seq(Seq(Sectors))
        /\ \A c \in 1 .. Len(Vec) :
             /\ Vec[c].org_start \in Nat /\ Vec[c].start = 0 /\ Vec[c].len \in Nat \ {0}
             /\ Vec[c].len = Len(store[c])
        /\ \A c \in 1 .. Len(Vec) : \A a \in 1 .. Vec[c].len :
              FlattenSeq(store)[Vec[c].org_start + a] = store[c][a]
    BY LayoutFacts
  <1>7. /\ now \in Seq(Seq(Sectors)) /\ Len(now) = Len(store)
        /\ now[b] = w /\ \A c \in 1 .. Len(store) : c # b => now[c] = store[c]
        /\ \A c \in 1 .. Len(store) : Len(now[c]) = Len(store[c])
    <2>1. /\ store \in Seq(Seq(Sectors)) /\ b \in 1 .. Len(store) /\ w \in Seq(Sectors)
          /\ Len(w) = Len(store[b])
      BY <1>1, <1>2, <1>6
    <2>2. Replaced(Sectors, store, b, w, now)
      BY <1>4, <2>1, ReplaceOne
    <2> QED
      BY <2>2 DEF Replaced
  <1>8. Laid(Vec, now)
    BY <1>6, <1>7 DEF Laid
  <1>9. /\ FlattenSeq(now) \in Seq(Sectors)
        /\ Len(FlattenSeq(now)) = _sector_count
        /\ \A c \in 1 .. Len(now) : \A a \in 1 .. Len(now[c]) :
             FlattenSeq(now)[Vec[c].org_start + a] = now[c][a]
    <2>1. now \in Seq(Seq(Sectors)) /\ Chain(Vec) /\ _sector_count = SumLen(Vec)
      BY <1>6, <1>7
    <2>2. Flat(Sectors, now, Vec)
      BY <1>8, <2>1, FlattenAt
    <2> QED
      BY <2>1, <2>2 DEF Flat
  <1>10. ASSUME NEW x \in 1 .. _sector_count
         PROVE  FlattenSeq(now)[x] = DiskWritten(r, p, S)[x]
    <2> DEFINE y == x - 1
               hit == \E i \in Spots(p, S) : offset + i + 1 = x
    <2>1. x \in Int /\ y \in Nat /\ y < SumLen(Vec) /\ x = y + 1
      BY <1>6
    <2>2. /\ hit <=> x - o - 1 - p.start \in S
          /\ x - offset - 1 = p.buf + (x - o) - 1 - p.start
      <3>1. Among(p, S, offset, o, x, x)
        BY <1>1, <1>5, <2>1, AmongIs
      <3> QED
        BY <3>1 DEF Among
    <2> HIDE DEF y
    <2>3. PICK c \in 1 .. Len(Vec) : Holds(Vec[c], y)
      BY <1>6, <2>1 DEF Chain
    <2> DEFINE oc == Vec[c].org_start
               z == Vec[c].len
               a == x - oc
    <2>4. oc \in Nat /\ z \in Nat /\ oc <= y /\ y < oc + z /\ z = Len(store[c]) /\ z = Len(now[c])
      BY <1>6, <1>7, <2>3 DEF Holds
    <2>5. a \in 1 .. z /\ oc + a = x
      <3> HIDE DEF oc, z
      <3> QED
        BY <2>1, <2>4
    <2>6. FlattenSeq(store)[x] = store[c][a] /\ FlattenSeq(now)[x] = now[c][a]
      <3>1. \A k \in 1 .. z : /\ FlattenSeq(store)[oc + k] = store[c][k]
                              /\ FlattenSeq(now)[oc + k] = now[c][k]
        <4>1. c \in 1 .. Len(Vec) /\ c \in 1 .. Len(now)
          BY <1>6, <1>7
        <4>2. \A k \in 1 .. z : FlattenSeq(store)[oc + k] = store[c][k]
          BY <1>6, <4>1
        <4>3. \A k \in 1 .. Len(now[c]) : FlattenSeq(now)[oc + k] = now[c][k]
          BY <1>9, <4>1
        <4> QED
          BY <2>4, <4>2, <4>3
      <3> HIDE DEF oc, z, a
      <3> QED
        BY <2>5, <3>1
    <2>7. DiskWritten(r, p, S)[x] =
            IF hit THEN buf[r][x - offset - 1] ELSE FlattenSeq(store)[x]
      BY DEF DiskWritten, offset
    <2>8. CASE c = b
      <3>1. oc = o /\ z = Len(store[b])
        BY <2>4, <2>8 DEF o
      <3>2. a - 1 - p.start = x - o - 1 - p.start
            /\ p.buf + a - 1 - p.start = p.buf + (x - o) - 1 - p.start
        <4> DEFINE u == p.start
                   v == p.buf
        <4>1. u \in Int /\ v \in Int /\ x \in Int /\ o \in Int /\ a = x - o
          BY <1>1, <2>1, <3>1
        <4> HIDE DEF u, v, a
        <4>2. a - 1 - u = x - o - 1 - u /\ v + a - 1 - u = v + (x - o) - 1 - u
          BY <4>1
        <4> QED
          BY <4>2 DEF u, v
      <3> HIDE DEF a, hit, oc, z
      <3>3. now[c][a] = IF a - 1 - p.start \in S THEN buf[r][p.buf + a - 1 - p.start]
                        ELSE store[c][a]
        BY SMTT(30), <1>3, <1>7, <2>5, <2>8, <3>1
      <3>4. hit <=> a - 1 - p.start \in S
        BY <2>2, <3>2
      <3>5. x - offset - 1 = p.buf + a - 1 - p.start
        BY <2>2, <3>2
      <3> QED
        BY <2>6, <2>7, <3>3, <3>4, <3>5
    <2>9. CASE c # b
      <3>1. ~hit
        <4> SUFFICES ASSUME hit PROVE FALSE
          OBVIOUS
        <4> DEFINE j == x - o - 1 - p.start
                   u == p.start
                   m == p.len
                   zb == Vec[b].len
        <4>1. j \in S
          BY <2>2
        <4>2. /\ j \in 0 .. m - 1 /\ j = x - o - 1 - u /\ u \in Nat /\ m \in Nat /\ zb \in Nat
              /\ u + m <= zb /\ x = y + 1 /\ y \in Nat /\ o \in Nat
          BY <1>1, <2>1, <4>1
        <4> HIDE DEF j, u, m, zb
        <4>3. o <= y /\ y < o + zb
          BY <4>2
        <4>4. Holds(Vec[b], y)
          BY <4>3 DEF Holds, o, zb
        <4>5. b = c
          BY <1>1, <1>6, <2>1, <2>3, <4>4, HoldersOrder
        <4> QED
          BY <2>9, <4>5
      <3> HIDE DEF hit, a
      <3>2. now[c] = store[c]
        BY <1>6, <1>7, <2>9
      <3> QED
        BY <2>6, <2>7, <3>1, <3>2
    <2> QED
      BY <2>8, <2>9
  <1>11. FlattenSeq(now) = [x \in 1 .. _sector_count |-> FlattenSeq(now)[x]]
    <2>1. FlattenSeq(now) = [x \in 1 .. Len(FlattenSeq(now)) |-> FlattenSeq(now)[x]]
      <3> DEFINE f == FlattenSeq(now)
      <3>1. f \in Seq(Sectors)
        BY <1>9
      <3> HIDE DEF f
      <3>2. f \in [1 .. Len(f) -> Sectors]
        BY <3>1, LenProperties
      <3> QED
        BY <3>2 DEF f
    <2> QED
      BY <1>9, <2>1
  <1>12. DiskWritten(r, p, S) = [x \in 1 .. _sector_count |-> DiskWritten(r, p, S)[x]]
    BY DEF DiskWritten
  <1> QED
    BY <1>10, <1>11, <1>12

-------------------------------------------------------------------------------
(* The steps of the JBOD as steps of the disk.                             *)

Verdicts == [r \in Requests |-> Verdict(r)]

LEMMA VerdictFrame ==
  ASSUME NEW q \in Requests, step'[q] = step[q], heap'[q] = heap[q], err'[q] = err[q],
         completions'[q] = completions[q]
  PROVE  Verdict(q)' = Verdict(q)
  <1>1. Electing(q)' = Electing(q)
    BY DEF Electing
  <1> QED
    BY <1>1 DEF Verdict

\* Nobody is told anything while a sub-request is outstanding.
LEMMA VerdictHolding ==
  ASSUME NEW r
  PROVE  /\ RInv(r) /\ Holding(r) # {} => Verdict(r) = "none"
         /\ RInv(r)' /\ Holding(r)' # {} => Verdict(r)' = "none"
  <1>1. ASSUME RInv(r), Holding(r) # {} PROVE Verdict(r) = "none"
    <2>1. heap[r] = "live" /\ completions[r].n = 0 /\ Electing(r) = {}
      BY <1>1 DEF RInv
    <2>2. heap[r] # "deleted" /\ heap[r] # "new"
      BY <2>1
    <2> QED
      BY <2>1, <2>2 DEF Verdict
  <1>2. ASSUME RInv(r)', Holding(r)' # {} PROVE Verdict(r)' = "none"
    <2>1. heap'[r] = "live" /\ completions'[r].n = 0 /\ Electing(r)' = {}
      BY <1>2 DEF RInv
    <2>2. heap'[r] # "deleted" /\ heap'[r] # "new"
      BY <2>1
    <2> QED
      BY <2>1, <2>2 DEF Verdict
  <1> QED
    BY <1>1, <1>2

LEMMA VerdictsNext ==
  ASSUME NEW r \in Requests, \A q \in Requests \ {r} : Verdict(q)' = Verdict(q)
  PROVE  Verdicts' = [Verdicts EXCEPT ![r] = Verdict(r)']
  <1>1. Verdicts' = [q \in Requests |-> Verdict(q)']
    BY DEF Verdicts
  <1> QED
    BY <1>1 DEF Verdicts

LEMMA VerdictsSame ==
  ASSUME \A q \in Requests : Verdict(q)' = Verdict(q)
  PROVE  Verdicts' = Verdicts
  <1>1. Verdicts' = [q \in Requests |-> Verdict(q)']
    BY DEF Verdicts
  <1> QED
    BY <1>1 DEF Verdicts

\* The handler elected by put finds a success only if every part has moved.
LEMMA ElectedMoved ==
  ASSUME DiskInv, NEW r \in Requests, NEW k \in Slots, Put(r, k), UNCHANGED diskVars,
         DiskInv', step'[r][k] = "last", err'[r] = Ok
  PROVE  moved[r] = 0 .. area[r].len - 1
  <1>1. RInv(r)' /\ RequestIn(r)'
    BY DEF DiskInv, IInv
  <1>2. area' = area /\ moved' = moved /\ parts' = parts /\ Vec' = Vec
    BY DEF diskVars, Vec
  <1>3. heap'[r] # "new" /\ k \in Electing(r)'
    BY <1>1 DEF RInv, Electing
  <1>4. Holding(r)' = {}
    BY <1>1, <1>3 DEF RInv
  <1>5. \A j \in Slots : step'[r][j] \notin Waiting /\ step'[r][j] # "reported"
    BY <1>4 DEF Holding, Waiting
  <1>6. \A j \in Slots : result'[r][j] = Ok
    BY <1>1, <1>3, <1>5 DEF RInv
  <1>7. Started(r)'
    BY <1>1, <1>3 DEF RequestIn
  <1>8. /\ moved[r] \subseteq 0 .. area[r].len - 1
        /\ CutIn(Vec, area[r], parts[r])
        /\ \A j \in 1 .. Len(parts[r]) : step'[r][j] \notin Waiting /\ result'[r][j] = Ok =>
             \A i \in 0 .. area[r].len - 1 : Spot(parts[r][j], i) => i \in moved[r]
    BY <1>2, <1>7 DEF Started
  <1>9. \A j \in 1 .. Len(parts[r]) : j \in Slots
    <2>1. Len(parts[r]) \in 1 .. Len(Vec)
      BY <1>8 DEF CutIn
    <2> QED
      BY <2>1, LayoutFacts, PartsAssumption DEF Slots
  <1>10. \A i \in 0 .. area[r].len - 1 : \E j \in 1 .. Len(parts[r]) : Spot(parts[r][j], i)
    BY <1>8 DEF CutIn
  <1>11. \A i \in 0 .. area[r].len - 1 : i \in moved[r]
    BY <1>5, <1>6, <1>8, <1>9, <1>10
  <1> QED
    BY <1>8, <1>11

\* What a handler's step makes known.
Settles(r) ==
  /\ Verdict(r) = "none" /\ Verdict(r)' \in {"done", "failed"}
  /\ Verdict(r)' = "done" => moved[r] = 0 .. area[r].len - 1

LEMMA HandlerVerdict ==
  ASSUME DiskInv, NEW r \in Requests, NEW k \in Slots, Handler(r, k)
  PROVE  Verdict(r)' = Verdict(r) \/ Settles(r)
  <1>0. DiskInv' /\ UNCHANGED diskVars
    BY HandlerInv DEF Handler
  <1>1. /\ heap \in [Requests -> {"new", "live", "deleted"}]
        /\ step \in [Requests -> [Slots -> Steps]] /\ RInv(r) /\ RInv(r)'
    BY <1>0 DEF DiskInv, IInv, TypeOK
  <1>2. CASE Issue(r, k) \/ StoreErr(r, k)
    <2>1. k \in Holding(r) /\ k \in Holding(r)'
      BY <1>1, <1>2 DEF Issue, StoreErr, Holding
    <2> QED
      BY <1>1, <2>1, VerdictHolding
  <1>3. CASE Put(r, k)
    <2>1. k \in Holding(r)
      BY <1>1, <1>3 DEF Put, Holding
    <2>2. Verdict(r) = "none"
      BY <1>1, <2>1, VerdictHolding
    <2>3. heap'[r] = "live" /\ completions'[r].n = 0 /\ Electing(r) = {} /\ err' = err
      BY <1>1, <1>3, <2>1 DEF Put, RInv
    <2>4. CASE ref[r] = 1
      <3>1. step'[r][k] = "last"
        BY <1>1, <1>3, <2>4 DEF Put
      <3>2. Electing(r)' # {}
        BY <3>1 DEF Electing
      <3>3. Verdict(r)' = IF err'[r] = Ok THEN "done" ELSE "failed"
        BY <2>3, <3>2 DEF Verdict
      <3>4. err'[r] = Ok => moved[r] = 0 .. area[r].len - 1
        BY <1>0, <1>3, <3>1, ElectedMoved
      <3> QED
        BY <2>2, <3>3, <3>4 DEF Settles
    <2>5. CASE ref[r] # 1
      <3>1. step'[r] = [step[r] EXCEPT ![k] = "gone"]
        BY <1>1, <1>3, <2>5 DEF Put
      <3>2. Electing(r)' = {}
        BY <1>1, <2>3, <3>1 DEF Electing
      <3>3. heap'[r] # "deleted" /\ heap'[r] # "new"
        BY <2>3
      <3>4. Verdict(r)' = "none"
        BY <2>3, <3>2, <3>3 DEF Verdict
      <3> QED
        BY <2>2, <3>4
    <2> QED
      BY <2>4, <2>5
  <1>4. CASE DeleteRef(r, k)
    <2>1. k \in Electing(r) /\ k \in Electing(r)' /\ err' = err
      BY <1>1, <1>4 DEF DeleteRef, Electing
    <2>2. heap[r] # "new" /\ heap'[r] # "new"
      BY <1>1, <1>4 DEF DeleteRef, RInv
    <2> QED
      BY <2>1, <2>2 DEF Verdict
  <1>5. CASE Complete(r, k)
    <2>1. k \in Electing(r) /\ err' = err /\ heap'[r] = "deleted" /\ heap[r] = "deleted"
      BY <1>1, <1>5 DEF Complete, Electing, RInv
    <2> QED
      BY <2>1 DEF Verdict
  <1> QED
    BY <1>2, <1>3, <1>4, <1>5 DEF Handler

LEMMA OtherSame ==
  ASSUME DiskInv, NEW r \in Requests, NEW k \in Slots, NEW s \in Statuses,
         Handler(r, k) \/ Report(r, k, s), NEW q \in Requests \ {r}
  PROVE  Verdict(q)' = Verdict(q)
  <1>1. /\ heap \in [Requests -> {"new", "live", "deleted"}]
        /\ step \in [Requests -> [Slots -> Steps]] /\ err \in [Requests -> Statuses]
        /\ completions \in [Requests -> [n : Nat, status : Statuses]]
    BY DEF DiskInv, IInv, TypeOK
  <1>2. /\ step'[q] = step[q] /\ heap'[q] = heap[q] /\ err'[q] = err[q]
        /\ completions'[q] = completions[q]
    BY <1>1 DEF Handler, Issue, Report, StoreErr, Put, DeleteRef, Complete, complete_request
  <1> QED
    BY <1>2, VerdictFrame

LEMMA ArrayInit == DiskInit => Array!Init
  <1> SUFFICES ASSUME DiskInit PROVE Array!Init
    OBVIOUS
  <1>1. store = Constructed.store /\ FlattenSeq(Constructed.store) = Old(0, Constructed.count)
        /\ Constructed.count = Len(FlattenSeq(Constructed.store))
    <2>1. BlocksAre(Constructed)
      BY ConstructedIn, BlocksFacts
    <2> QED
      BY <2>1, ConstructedIn DEF DiskInit, BlocksAre
  <1>2. FlattenSeq(store) = Array!Old(0, Len(FlattenSeq(store)))
    BY <1>1 DEF Old, Array!Old
  <1>3. \A r \in Requests : Verdict(r) = "none"
    <2>1. ASSUME NEW r \in Requests PROVE Verdict(r) = "none"
      <3>1. Electing(r) = {} /\ heap[r] # "deleted" /\ ~(completions[r].n > 0)
        BY DEF DiskInit, Init, Electing
      <3> QED
        BY <3>1 DEF Verdict
    <2> QED
      BY <2>1
  <1>4. [r \in Requests |-> Verdict(r)] = [r \in Requests |-> "none"]
    BY <1>3
  <1> QED
    BY <1>2, <1>4 DEF DiskInit, Array!Init, NoArea, Array!NoArea

LEMMA GrowStep ==
  ASSUME DiskInv, NEW n \in Lens, AddBlock(n)
  PROVE  Array!Grow(n)
  <1> DEFINE d == Layout
             e == Added(d, n)
  <1>0. n \in Nat \ {0}
    BY BlocksAssumption
  <1>1. store' = e.store /\ UNCHANGED vars /\ area' = area /\ moved' = moved /\ buf' = buf
    BY DEF AddBlock, Layout
  <1>2. d.store = store /\ d.count = Len(FlattenSeq(store)) /\ BlocksIn(d)
    BY LayoutFacts DEF Layout, DiskInv
  <1> HIDE DEF d
  <1>3. FlattenSeq(e.store) = FlattenSeq(d.store) \o Old(d.count, n)
    BY <1>0, <1>2, AddedIn
  <1> HIDE DEF e
  <1>4. FlattenSeq(store') = FlattenSeq(store) \o Array!Old(Len(FlattenSeq(store)), n)
    BY <1>1, <1>2, <1>3 DEF Old, Array!Old
  <1>5. \A q \in Requests : Verdict(q)' = Verdict(q)
    <2>1. ASSUME NEW q \in Requests PROVE Verdict(q)' = Verdict(q)
      BY <1>1, VerdictFrame DEF vars
    <2> QED
      BY <2>1
  <1>6. Verdicts' = Verdicts
    BY <1>5, VerdictsSame
  <1> QED
    BY <1>1, <1>4, <1>6 DEF Array!Grow, Verdicts

LEMMA FailMapStep ==
  ASSUME DiskInv, NEW r \in Requests, FailMap(r), UNCHANGED diskVars
  PROVE  Array!Settle(r, "failed")
  <1>1. /\ RInv(r) /\ completions \in [Requests -> [n : Nat, status : Statuses]]
    BY DEF DiskInv, IInv, TypeOK
  <1>2. PICK x \in Errors : complete_request(r, x)
    BY DEF FailMap
  <1>3. /\ heap[r] = "new" /\ completions[r].n = 0 /\ heap' = heap /\ step' = step /\ err' = err
        /\ completions'[r].n = 1 /\ \A q \in Requests \ {r} : completions'[q] = completions[q]
    BY <1>1, <1>2 DEF FailMap, complete_request
  <1>4. Electing(r) = {} /\ Electing(r)' = {}
    BY <1>1, <1>3 DEF RInv, Electing
  <1>5. Verdict(r) = "none" /\ Verdict(r)' = "failed"
    <2>1. ~(completions[r].n > 0) /\ completions'[r].n > 0 /\ heap'[r] = "new"
          /\ heap[r] # "deleted" /\ heap'[r] # "deleted"
      BY <1>3
    <2> QED
      BY <1>4, <2>1 DEF Verdict
  <1>6. \A q \in Requests \ {r} : Verdict(q)' = Verdict(q)
    <2>1. ASSUME NEW q \in Requests \ {r} PROVE Verdict(q)' = Verdict(q)
      BY <1>3, VerdictFrame
    <2> QED
      BY <2>1
  <1>7. Verdicts' = [Verdicts EXCEPT ![r] = "failed"] /\ Verdicts[r] = "none"
    BY <1>5, <1>6, VerdictsNext DEF Verdicts
  <1>8. store' = store /\ area' = area /\ moved' = moved /\ buf' = buf
    BY DEF diskVars
  <1> QED
    BY <1>7, <1>8 DEF Array!Settle, Verdicts

LEMMA StartStep ==
  ASSUME DiskInv, NEW r \in Requests, NEW type \in {"read", "write"},
         NEW offset \in Nat, NEW l \in Nat \ {0}, DoRequest(r, type, offset, l)
  PROVE  Array!Start(r, type, offset, l)
  <1> DEFINE cut == map_request(mapper, offset, l)
  <1>1. /\ offset + l <= _sector_count
        /\ MapRequest(r, Len(cut))
        /\ area' = [area EXCEPT ![r] = [type |-> type, offset |-> offset, len |-> l]]
        /\ buf' = [buf EXCEPT ![r] = [i \in 0 .. l - 1 |-> <<r, i>>]]
        /\ store' = store /\ moved' = moved
    BY DEF DoRequest
  <1> HIDE DEF cut
  <1>2. area[r] = NoArea /\ DiskInv' /\ RInv(r) /\ RInv(r)'
    BY DoRequestInv DEF DiskInv, IInv
  <1>3. /\ heap \in [Requests -> {"new", "live", "deleted"}]
        /\ step \in [Requests -> [Slots -> Steps]] /\ err \in [Requests -> Statuses]
    BY DEF DiskInv, IInv, TypeOK
  <1>4. /\ heap[r] = "new" /\ heap'[r] = "live" /\ completions' = completions
        /\ completions[r].n = 0
        /\ step'[r] = [j \in Slots |-> IF j <= Len(cut) THEN "mapped" ELSE "none"]
        /\ \A q \in Requests \ {r} : /\ heap'[q] = heap[q] /\ step'[q] = step[q]
                                     /\ err'[q] = err[q]
    BY <1>1, <1>3 DEF MapRequest
  <1>5. Verdict(r) = "none" /\ Verdict(r)' = "none"
    <2>1. Electing(r) = {} /\ Electing(r)' = {}
      BY <1>2, <1>4 DEF RInv, Electing
    <2>2. ~(completions[r].n > 0) /\ ~(completions'[r].n > 0)
          /\ heap[r] # "deleted" /\ heap'[r] # "deleted"
      BY <1>4
    <2> QED
      BY <2>1, <2>2 DEF Verdict
  <1>6. ASSUME NEW q \in Requests PROVE Verdict(q)' = Verdict(q)
    <2>1. CASE q = r
      BY <1>5, <2>1
    <2>2. CASE q # r
      BY <1>4, <2>2, VerdictFrame
    <2> QED
      BY <2>1, <2>2
  <1>7. Verdicts' = Verdicts /\ Verdicts[r] = "none"
    BY <1>5, <1>6, VerdictsSame DEF Verdicts
  <1>8. offset + l <= Len(FlattenSeq(store))
    BY <1>1, LayoutFacts
  <1> QED
    BY <1>1, <1>2, <1>7, <1>8 DEF Array!Start, Verdicts, NoArea, Array!NoArea

LEMMA HandlerStep ==
  ASSUME DiskInv, NEW r \in Requests, NEW k \in Slots, Handler(r, k)
  PROVE  Array!Settle(r, "done") \/ Array!Settle(r, "failed") \/ UNCHANGED Array!vars
  <1>1. store' = store /\ area' = area /\ moved' = moved /\ buf' = buf
    BY DEF Handler, diskVars
  <1>2. ASSUME NEW q \in Requests \ {r} PROVE Verdict(q)' = Verdict(q)
    <2>1. Ok \in Statuses
      BY DEF Statuses
    <2> QED
      BY <2>1, OtherSame
  <1>3. CASE Verdict(r)' = Verdict(r)
    <2>1. \A q \in Requests : Verdict(q)' = Verdict(q)
      BY <1>2, <1>3
    <2>2. Verdicts' = Verdicts
      BY <2>1, VerdictsSame
    <2> QED
      BY <1>1, <2>2 DEF Array!vars, Verdicts
  <1>4. CASE Settles(r)
    <2> DEFINE v == Verdict(r)'
    <2>1. Verdicts' = [Verdicts EXCEPT ![r] = v] /\ Verdicts[r] = "none"
      BY <1>2, <1>4, VerdictsNext DEF Verdicts, Settles
    <2>2. v \in {"done", "failed"} /\ (v = "done" => moved[r] = Array!Positions(r))
      BY <1>4 DEF Settles, Array!Positions
    <2> HIDE DEF v
    <2>3. Array!Settle(r, v)
      BY <1>1, <2>1, <2>2 DEF Array!Settle, Verdicts
    <2> QED
      BY <2>2, <2>3
  <1> QED
    BY <1>3, <1>4, HandlerVerdict

LEMMA MoveStep ==
  ASSUME DiskInv, NEW r \in Requests, NEW k \in Slots, NEW s \in Statuses, ReportPart(r, k, s)
  PROVE  \E M \in SUBSET Array!Positions(r) : Array!Move(r, M)
  <1> DEFINE p == parts[r][k]
  <1>1. step[r][k] = "issued" /\ Open(r, p) /\ DiskInv'
    BY ReportIs, ReportPartInv
  <1>2. PICK S : Reported(r, k, s, S)
    BY ReportIs
  <1>3. Report(r, k, s) /\ S \in SUBSET (0 .. p.len - 1) /\ Moves(r, p, S) /\ area' = area
    BY <1>2 DEF Reported, ReportPart
  <1> HIDE DEF p
  <1> DEFINE M == Spots(p, S)
             n == area[r].len
             offset == area[r].offset
  <1>4. /\ p.buf \in Nat /\ p.len \in Nat /\ n \in Nat /\ p.buf + p.len <= n
    BY <1>1, PartNumbers
  <1>5. ASSUME NEW i \in M PROVE i \in 0 .. n - 1 /\ Spot(p, i)
    <2>1. PICK j \in S : i = p.buf + j
      BY DEF Spots
    <2>2. j \in 0 .. p.len - 1
      BY <1>3, <2>1
    <2> QED
      BY <1>4, <2>1, <2>2 DEF Spot
  <1>6. M \in SUBSET Array!Positions(r) /\ M \cap moved[r] = {}
    BY <1>1, <1>5 DEF Open, Array!Positions
  <1>7. moved' = [moved EXCEPT ![r] = moved[r] \cup M]
    BY <1>3 DEF Moves, Spots
  <1>8. Verdicts' = Verdicts /\ Verdicts[r] = "none"
    <2>1. RInv(r) /\ RInv(r)' /\ step \in [Requests -> [Slots -> Steps]]
      BY <1>1 DEF DiskInv, IInv, TypeOK
    <2>2. k \in Holding(r) /\ k \in Holding(r)'
      BY <1>1, <1>3, <2>1 DEF Report, Holding
    <2>3. Verdict(r) = "none" /\ Verdict(r)' = "none"
      BY <2>1, <2>2, VerdictHolding
    <2>4. \A q \in Requests \ {r} : Verdict(q)' = Verdict(q)
      BY <1>3, OtherSame
    <2>5. \A q \in Requests : Verdict(q)' = Verdict(q)
      BY <2>3, <2>4
    <2> QED
      BY <2>3, <2>5, VerdictsSame DEF Verdicts
  <1>9. DOMAIN FlattenSeq(store) = 1 .. _sector_count
    <2>1. FlattenSeq(store) \in Seq(Sectors) /\ Len(FlattenSeq(store)) = _sector_count
      BY LayoutFacts
    <2> QED
      BY <2>1, LenProperties
  <1>10. CASE area[r].type = "write"
    <2>1. store' = [store EXCEPT ![p.block] = Written(r, p, S)] /\ buf' = buf
      BY <1>3, <1>10 DEF Moves
    <2>2. FlattenSeq(store') = DiskWritten(r, p, S)
      BY <1>1, <1>3, <2>1, WriteIs
    <2>3. FlattenSeq(store') =
            [a \in DOMAIN FlattenSeq(store) |->
               IF \E i \in M : offset + i + 1 = a THEN buf[r][a - offset - 1]
               ELSE FlattenSeq(store)[a]]
      BY <1>9, <2>2 DEF DiskWritten
    <2> HIDE DEF M
    <2>4. Array!Move(r, M)
      BY <1>3, <1>6, <1>7, <1>8, <1>10, <2>1, <2>3 DEF Array!Move, Verdicts
    <2> QED
      BY <1>6, <2>4
  <1>11. CASE area[r].type = "read"
    <2>1. buf' = [buf EXCEPT ![r] = Filled(r, p, S)] /\ store' = store
      BY <1>3, <1>11 DEF Moves
    <2>2. Filled(r, p, S) = BufFilled(r, p, S)
      BY <1>1, <1>3, ReadIs
    <2>3. buf' = [buf EXCEPT ![r] =
                    [i \in Array!Positions(r) |->
                       IF i \in M THEN FlattenSeq(store)[offset + i + 1] ELSE buf[r][i]]]
      BY <2>1, <2>2 DEF BufFilled, Array!Positions
    <2> HIDE DEF M
    <2>4. Array!Move(r, M)
      BY <1>3, <1>6, <1>7, <1>8, <1>11, <2>1, <2>3 DEF Array!Move, Verdicts
    <2> QED
      BY <1>6, <2>4
  <1> QED
    BY <1>1, <1>10, <1>11 DEF Open, Started

LEMMA ArrayStep == DiskInv /\ [DiskNext]_allVars => [Array!Next]_(Array!vars)
  <1> SUFFICES ASSUME DiskInv, [DiskNext]_allVars PROVE [Array!Next]_(Array!vars)
    OBVIOUS
  <1>1. ASSUME NEW n \in Lens, AddBlock(n) PROVE Array!Next
    BY <1>1, GrowStep DEF Array!Next
  <1>2. ASSUME NEW r \in Requests, FailMap(r), UNCHANGED diskVars PROVE Array!Next
    BY <1>2, FailMapStep DEF Array!Next
  <1>3. ASSUME NEW r \in Requests, NEW offset \in 0 .. _sector_count - 1,
               NEW l \in 1 .. _sector_count - offset, NEW type \in {"read", "write"},
               DoRequest(r, type, offset, l)
        PROVE  Array!Next
    <2>1. Array!Start(r, type, offset, l)
      BY <1>3, OfferedRequest, StartStep
    <2>2. Len(FlattenSeq(store)) = _sector_count
      BY LayoutFacts
    <2> QED
      BY <2>1, <2>2 DEF Array!Next, Array!Types
  <1>4. ASSUME NEW r \in Requests, NEW k \in Slots, Handler(r, k)
        PROVE  [Array!Next]_(Array!vars)
    BY <1>4, HandlerStep DEF Array!Next
  <1>5. ASSUME NEW r \in Requests, NEW k \in Slots, NEW s \in Statuses, ReportPart(r, k, s)
        PROVE  Array!Next
    BY <1>5, MoveStep DEF Array!Next
  <1>6. ASSUME UNCHANGED allVars PROVE UNCHANGED Array!vars
    <2>1. UNCHANGED vars /\ store' = store /\ area' = area /\ moved' = moved /\ buf' = buf
      BY <1>6 DEF allVars, diskVars
    <2>2. ASSUME NEW q \in Requests PROVE Verdict(q)' = Verdict(q)
      BY <2>1, VerdictFrame DEF vars
    <2>3. Verdicts' = Verdicts
      BY <2>2, VerdictsSame
    <2> QED
      BY <2>1, <2>3 DEF Array!vars, Verdicts
  <1> QED
    BY <1>1, <1>2, <1>3, <1>4, <1>5, <1>6 DEF DiskNext

\* The invariant of the JBOD with its data: the request path's, and what ties every
\* part to its place on the disk and to the positions that have moved.
THEOREM DiskInvariance == DiskSpec => []DiskInv
  BY DiskInitInv, DiskNextInv, PTL DEF DiskSpec

LEMMA PathStep == DiskInv /\ [DiskNext]_allVars => [Next]_vars
  <1> SUFFICES ASSUME DiskInv, [DiskNext]_allVars PROVE [Next]_vars
    OBVIOUS
  <1>1. ASSUME NEW n \in Lens, AddBlock(n) PROVE UNCHANGED vars
    BY <1>1 DEF AddBlock
  <1>2. ASSUME NEW r \in Requests, FailMap(r) PROVE Next
    BY <1>2 DEF Next
  <1>3. ASSUME NEW r \in Requests, NEW offset \in 0 .. _sector_count - 1,
               NEW l \in 1 .. _sector_count - offset, NEW type \in {"read", "write"},
               DoRequest(r, type, offset, l)
        PROVE  Next
    <2>1. \E m \in Slots : MapRequest(r, m)
      BY <1>3, OfferedRequest, DoRequestInv
    <2> QED
      BY <2>1 DEF Next
  <1>4. ASSUME NEW r \in Requests, NEW k \in Slots, Handler(r, k) PROVE Next
    BY <1>4 DEF Handler, Next
  <1>5. ASSUME NEW r \in Requests, NEW k \in Slots, NEW s \in Statuses, ReportPart(r, k, s)
        PROVE  Next
    BY <1>5 DEF ReportPart, Next
  <1>6. CASE UNCHANGED allVars
    BY <1>6 DEF allVars
  <1> QED
    BY <1>1, <1>2, <1>3, <1>4, <1>5, <1>6 DEF DiskNext

\* With its blocks and their data the JBOD serves requests as JbodIo has it: map_request
\* never cuts a request into no part, nor into more than there are blocks.
THEOREM DiskServes == DiskSpec => Spec
  BY PathStep, DiskInvariance, PTL DEF DiskSpec, DiskInit, Spec

\* So request_ref stays exact while blocks are added.
THEOREM DiskPathHolds == DiskSpec => [](TypeOK /\ CountExact /\ CompletedByLast /\ FailureLatched)
  BY DiskServes, TypeCorrect, CountIsExact, LastCompletes, FailureIsLatched, PTL

\* The JBOD implements a disk made of its blocks (Disk): each sector of a request goes to
\* or comes from its own place, once, before the request is settled, and adding a block
\* moves nothing.
THEOREM ImplementsArray == DiskSpec => ArraySpec
  BY ArrayInit, ArrayStep, DiskInvariance, PTL DEF DiskSpec, ArraySpec, Array!Spec
================================================================================
