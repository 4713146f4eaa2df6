-------------------------------- MODULE JbodIo --------------------------------
(***************************************************************************)
(* How a JBOD serves a request: algo_block_io_jbod_nosuper::do_request and *)
(* request_done, algo_nocopy_request_mapper::map_request, do_request and   *)
(* unmap_request, and the reference count request_ref.                     *)
(*                                                                         *)
(* map_request cuts the request at the block boundaries it crosses, one    *)
(* sub-request per block, and all of them share one request_ref.  The      *)
(* blocks complete the sub-requests on threads of their own (or inside     *)
(* do_request), so the handlers of one request race with each other and    *)
(* with the loop that still issues.  Each access of a handler to the       *)
(* shared request_ref is an action:                                        *)
(*   StoreErr  - if ( err ) nocopy_request->err = err                      *)
(*   Put       - the atomic decrement, which elects the last handler       *)
(*   DeleteRef - delete nocopy_request                                     *)
(*   Complete  - err = nocopy_request->err, complete_request.              *)
(* The last one reads the object it has just deleted, so it may see any    *)
(* status.  A request spans at least one block, and do_request does not    *)
(* run concurrently with add_block (algo_block_io_jbod_nosuper.h:10).      *)
(***************************************************************************)
EXTENDS Naturals, FiniteSets

CONSTANTS
  Requests,       \* requests handed to the JBOD
  MaxParts,       \* the most blocks one request can span
  Errors,         \* error codes a block can report
  Ok              \* ERROR_TYPE_OK

ASSUME PartsAssumption == MaxParts \in Nat \ {0}
ASSUME ErrorsAssumption == Ok \notin Errors

Statuses == Errors \cup {Ok}
Slots == 1 .. MaxParts     \* sub-requests of a request, in list order

VARIABLES
  ref,            \* per request: request_ref::_ref
  err,            \* per request: request_ref::err
  heap,           \* per request: whether its request_ref exists
  step,           \* per sub-request: how far it has come
  result,         \* per sub-request: the err its block reported
  completions     \* per request: the statuses complete_request was called with

vars == <<ref, err, heap, step, result, completions>>

Steps == {"none", "mapped", "issued", "reported", "stored", "last", "deleted", "gone"}

TypeOK ==
  /\ ref \in [Requests -> 0 .. MaxParts]
  /\ err \in [Requests -> Statuses]
  /\ heap \in [Requests -> {"new", "live", "deleted"}]
  /\ step \in [Requests -> [Slots -> Steps]]
  /\ result \in [Requests -> [Slots -> Statuses]]
  /\ completions \in [Requests -> [n : Nat, status : Statuses]]

Init ==
  /\ ref = [r \in Requests |-> 0]
  /\ err = [r \in Requests |-> Ok]
  /\ heap = [r \in Requests |-> "new"]
  /\ step = [r \in Requests |-> [k \in Slots |-> "none"]]
  /\ result = [r \in Requests |-> [k \in Slots |-> Ok]]
  /\ completions = [r \in Requests |-> [n |-> 0, status |-> Ok]]

complete_request(r, s) ==
  completions' = [completions EXCEPT ![r] = [n |-> @.n + 1, status |-> s]]

-------------------------------------------------------------------------------
\* map_request fails to allocate the request_ref.
FailMap(r) ==
  /\ heap[r] = "new"
  /\ completions[r].n = 0
  /\ \E e \in Errors : complete_request(r, e)
  /\ UNCHANGED <<ref, err, heap, step, result>>

\* Mutant: the request_ref is born with a reference of its own.
MapRequestExtraRef(r, n) ==
  /\ heap[r] = "new"
  /\ completions[r].n = 0
  /\ heap' = [heap EXCEPT ![r] = "live"]
  /\ ref' = [ref EXCEPT ![r] = n + 1]
  /\ step' = [step EXCEPT ![r] = [k \in Slots |-> IF k <= n THEN "mapped" ELSE "none"]]
  /\ UNCHANGED <<err, result, completions>>

\* Mutant: the sub-requests share one reference instead of taking one each.
MapRequestOneRef(r, n) ==
  /\ heap[r] = "new"
  /\ completions[r].n = 0
  /\ heap' = [heap EXCEPT ![r] = "live"]
  /\ ref' = [ref EXCEPT ![r] = 1]
  /\ step' = [step EXCEPT ![r] = [k \in Slots |-> IF k <= n THEN "mapped" ELSE "none"]]
  /\ UNCHANGED <<err, result, completions>>

\* map_request: every sub-request takes its reference before any is issued.
MapRequest(r, n) ==
  /\ heap[r] = "new"
  /\ completions[r].n = 0
  /\ heap' = [heap EXCEPT ![r] = "live"]
  /\ ref' = [ref EXCEPT ![r] = n]
  /\ err' = [err EXCEPT ![r] = Ok]
  /\ step' = [step EXCEPT ![r] = [k \in Slots |-> IF k <= n THEN "mapped" ELSE "none"]]
  /\ UNCHANGED <<result, completions>>

\* The loop of algo_nocopy_request_mapper::do_request, in list order.
Issue(r, k) ==
  /\ step[r][k] = "mapped"
  /\ \A j \in 1 .. (k - 1) : step[r][j] # "mapped"
  /\ step' = [step EXCEPT ![r][k] = "issued"]
  /\ UNCHANGED <<ref, err, heap, result, completions>>

\* The block calls request_done.
Report(r, k, s) ==
  /\ step[r][k] = "issued"
  /\ step' = [step EXCEPT ![r][k] = "reported"]
  /\ result' = [result EXCEPT ![r][k] = s]
  /\ UNCHANGED <<ref, err, heap, completions>>

\* Mutant: a success overwrites the error another block reported.
StoreErrAlways(r, k) ==
  /\ step[r][k] = "reported"
  /\ step' = [step EXCEPT ![r][k] = "stored"]
  /\ err' = [err EXCEPT ![r] = result[r][k]]
  /\ UNCHANGED <<ref, heap, result, completions>>

\* The first access of unmap_request.
StoreErr(r, k) ==
  /\ step[r][k] = "reported"
  /\ step' = [step EXCEPT ![r][k] = "stored"]
  /\ err' = [err EXCEPT ![r] = IF result[r][k] # Ok THEN result[r][k] ELSE @]
  /\ UNCHANGED <<ref, heap, result, completions>>

\* Mutant: the value before the decrement is taken for the value after it.
PutOffByOne(r, k) ==
  /\ step[r][k] = "stored"
  /\ ref' = [ref EXCEPT ![r] = @ - 1]
  /\ step' = [step EXCEPT ![r][k] = IF ref[r] <= 2 THEN "last" ELSE "gone"]
  /\ UNCHANGED <<err, heap, result, completions>>

\* request_ref::put; a handler that is not the last deletes its sub-request.
Put(r, k) ==
  /\ step[r][k] = "stored"
  /\ ref' = [ref EXCEPT ![r] = @ - 1]
  /\ step' = [step EXCEPT ![r][k] = IF ref[r] = 1 THEN "last" ELSE "gone"]
  /\ UNCHANGED <<err, heap, result, completions>>

DeleteRef(r, k) ==
  /\ step[r][k] = "last"
  /\ heap' = [heap EXCEPT ![r] = "deleted"]
  /\ step' = [step EXCEPT ![r][k] = "deleted"]
  /\ UNCHANGED <<ref, err, result, completions>>

\* The read of a deleted object yields any status.
Complete(r, k) ==
  /\ step[r][k] = "deleted"
  /\ \E s \in Statuses : complete_request(r, s)
  /\ step' = [step EXCEPT ![r][k] = "gone"]
  /\ UNCHANGED <<ref, err, heap, result>>

Next ==
  \E r \in Requests :
    \/ FailMap(r)
    \/ \E n \in Slots : MapRequest(r, n)
    \/ \E k \in Slots :
         \/ Issue(r, k) \/ StoreErr(r, k) \/ Put(r, k) \/ DeleteRef(r, k) \/ Complete(r, k)
         \/ \E s \in Statuses : Report(r, k, s)

Spec == Init /\ [][Next]_vars

\* The issuing loop and the handlers keep running, and a block reports every
\* sub-request it was given.
Fairness ==
  \A r \in Requests, k \in Slots :
    /\ WF_vars(Issue(r, k)) /\ WF_vars(\E s \in Statuses : Report(r, k, s))
    /\ WF_vars(StoreErr(r, k)) /\ WF_vars(Put(r, k))
    /\ WF_vars(DeleteRef(r, k)) /\ WF_vars(Complete(r, k))

FairSpec == Spec /\ Fairness

-------------------------------------------------------------------------------
(* Properties.                                                             *)

\* Sub-requests that still hold their reference.
Holding(r) == {k \in Slots :
                 step[r][k] \in {"mapped", "issued", "reported", "stored"}}

\* The handler put() elected, until it has completed the request.
Electing(r) == {k \in Slots : step[r][k] \in {"last", "deleted"}}

\* request_ref counts the sub-requests that will still touch it, so put's
\* assert(org > 0) holds and no handler reaches a deleted request_ref: the object
\* exists as long as a handler holds a reference or is the last.
CountExact ==
  \A r \in Requests :
    /\ heap[r] = "live" => ref[r] = Cardinality(Holding(r))
    /\ Holding(r) # {} => heap[r] = "live"

\* The request is completed once, and only when no sub-request is outstanding:
\* exactly one handler is elected, however the decrements interleave.
CompletedByLast ==
  \A r \in Requests :
    /\ completions[r].n <= 1
    /\ completions[r].n = 1 => Holding(r) = {} /\ Electing(r) = {}
    /\ \A j, k \in Electing(r) : j = k

\* When the last reference is gone, request_ref::err holds an error if and only
\* if some block reported one: every store precedes its own handler's decrement.
FailureLatched ==
  \A r \in Requests :
    Electing(r) # {} =>
      (err[r] # Ok <=> \E k \in Slots : result[r][k] # Ok)

\* Under FairSpec a request that was mapped is completed.
EveryRequestCompletes ==
  \A r \in Requests : heap[r] # "new" ~> completions[r].n = 1
===============================================================================
