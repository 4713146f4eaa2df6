-------------------------------- MODULE SuperIo --------------------------------
(***************************************************************************)
(* algo_block_io_super: layers that keep a superblock in front of a block. *)
(*                                                                         *)
(* Layer k sits on layer k - 1, layer 0 being the device (super_algo_device*)
(* builds two).  A request of layer k is shifted by the layer's super_sec  *)
(* on its way down and shifted back on its way up; a layer whose           *)
(* completion lies below its super_sec takes it for the answer to its own  *)
(* superblock access.  An access (read_super, write_super of a buffer)     *)
(* holds the layer's sync_m, sends one request at offset 0 and waits on    *)
(* super_cond, a condition that remembers a notification made before the   *)
(* wait (stronger_cond).  A device may report from any thread, the caller's*)
(* included, so the answer can come before the wait.                       *)
(*                                                                         *)
(* The device is BlockDevice.  Between the calls of one thread nothing is  *)
(* shared, so a request's way down and its way up are one step each.       *)
(***************************************************************************)
EXTENDS Naturals

CONSTANTS
  N,              \* number of layers
  Start,          \* Start[k]: sector of the device where layer k's superblock
                  \* begins; Start[N + 1]: where the data of the top layer begin
  Users,          \* threads that access superblocks, each with its own request
  LayerOf,        \* per user: the layer whose superblock it accesses
  Reqs,           \* requests to the top layer
  Addrs,          \* sectors of the top layer
  Nobody,
  OK, Failed,     \* ERROR_TYPE_OK, -ERROR_TYPE_DEVICE
  MaxCalls        \* per user and request: bound on the calls

Layer == 1 .. N

ASSUME LayerAssumption ==
  /\ N \in Nat \ {0}
  /\ Start \in [1 .. (N + 1) -> Nat]
  /\ Start[1] = 0
  /\ \A j, k \in 1 .. (N + 1) : j < k => Start[j] < Start[k]
  /\ LayerOf \in [Users -> Layer]
  /\ Addrs \subseteq Nat

ASSUME NamesAssumption ==
  /\ Users \cap Reqs = {}
  /\ Nobody \notin Users
  /\ OK # Failed

Requests == Users \cup Reqs
Status == {OK, Failed}

VARIABLES
  pending, reported,  \* the device
  offset,         \* per request: request_t::offset
  sync_m,         \* per layer: who holds sync_m
  is_to_wait,     \* per layer: super_cond's is_to_wait
  err,            \* per user: sync_request's local err
  pc,             \* per user: where its access is
  result,         \* per user: what its last access returned
  addr,           \* history, per request of Reqs: the sector asked for
  answer,         \* history, per request of Reqs: what its callback was given
  calls           \* per request: how often it was used

superVars == <<offset, sync_m, is_to_wait, err, pc, result, addr, answer, calls>>
vars == <<pending, reported, superVars>>

Device == INSTANCE BlockDevice

PCs == {"idle", "called", "locked", "waiting"}

TypeOK ==
  /\ pending \subseteq Requests
  /\ reported \in [Requests -> Status]
  /\ offset \in [Requests -> Nat]
  /\ sync_m \in [Layer -> Users \cup {Nobody}]
  /\ is_to_wait \in [Layer -> BOOLEAN]
  /\ err \in [Users -> Status]
  /\ pc \in [Users -> PCs]
  /\ result \in [Users -> Status]
  /\ addr \in [Reqs -> Nat]
  /\ answer \in [Reqs -> [offset : Nat, err : Status]]
  /\ calls \in [Requests -> Nat]

SuperInit ==
  /\ offset = [r \in Requests |-> 0]
  /\ sync_m = [k \in Layer |-> Nobody]
  /\ is_to_wait = [k \in Layer |-> TRUE]
  /\ err = [u \in Users |-> OK]
  /\ pc = [u \in Users |-> "idle"]
  /\ result = [u \in Users |-> OK]
  /\ addr = [r \in Reqs |-> 0]
  /\ answer = [r \in Reqs |-> [offset |-> 0, err |-> OK]]
  /\ calls = [r \in Requests |-> 0]

Init ==
  /\ Device!Init /\ SuperInit
  /\ reported = [r \in Requests |-> OK]
-------------------------------------------------------------------------------
(* A superblock access, step by step.                                      *)

\* read_super(len, buf) / write_super(len, buf): a request at offset 0.
Call(u) ==
  /\ pc[u] = "idle" /\ calls[u] < MaxCalls[u]
  /\ pc' = [pc EXCEPT ![u] = "called"]
  /\ offset' = [offset EXCEPT ![u] = 0]
  /\ calls' = [calls EXCEPT ![u] = @ + 1]
  /\ UNCHANGED <<sync_m, is_to_wait, err, result, addr, answer>>

\* Mutant: sync_request does not take sync_m.
LockFree(u) ==
  /\ pc[u] = "called"
  /\ sync_m' = [sync_m EXCEPT ![LayerOf[u]] = u]
  /\ err' = [err EXCEPT ![u] = OK]
  /\ pc' = [pc EXCEPT ![u] = "locked"]
  /\ UNCHANGED <<offset, is_to_wait, result, addr, answer, calls>>

Lock(u) ==
  /\ pc[u] = "called"
  /\ sync_m[LayerOf[u]] = Nobody
  /\ sync_m' = [sync_m EXCEPT ![LayerOf[u]] = u]
  /\ err' = [err EXCEPT ![u] = OK]
  /\ pc' = [pc EXCEPT ![u] = "locked"]
  /\ UNCHANGED <<offset, is_to_wait, result, addr, answer, calls>>

\* org_block->do_request: every layer below adds its super_sec.
SyncRequest(u) ==
  /\ pc[u] = "locked"
  /\ offset' = [offset EXCEPT ![u] = @ + Start[LayerOf[u]]]
  /\ pc' = [pc EXCEPT ![u] = "waiting"]
  /\ UNCHANGED <<sync_m, is_to_wait, err, result, addr, answer, calls>>

\* super_cond.wait() and the return of err; lck is released last.
Wait(u) ==
  /\ pc[u] = "waiting"
  /\ ~is_to_wait[LayerOf[u]]
  /\ is_to_wait' = [is_to_wait EXCEPT ![LayerOf[u]] = TRUE]
  /\ result' = [result EXCEPT ![u] = err[u]]
  /\ sync_m' = [sync_m EXCEPT ![LayerOf[u]] = Nobody]
  /\ pc' = [pc EXCEPT ![u] = "idle"]
  /\ UNCHANGED <<offset, err, addr, answer, calls>>

-------------------------------------------------------------------------------
(* Requests to the top layer, and completions on their way up.             *)

\* do_request(r) at sector a of the top layer.
DoRequest(r, a) ==
  /\ calls[r] < MaxCalls[r]
  /\ calls' = [calls EXCEPT ![r] = @ + 1]
  /\ addr' = [addr EXCEPT ![r] = a]
  /\ offset' = [offset EXCEPT ![r] = a + Start[N + 1]]
  /\ UNCHANGED <<sync_m, is_to_wait, err, pc, result, answer>>

\* Mutant: the comparison with super_sec is off by one.
BelowOrAt(o) == {k \in Layer : o <= Start[k + 1]}

\* Layer k takes a completion at the device's sector o for its own when what is
\* left of o, once the layers below have subtracted theirs, is below super_sec.
Below(o) == {k \in Layer : o < Start[k + 1]}
First(S) == CHOOSE k \in S : \A j \in S : k <= j

\* sync_request_done at layer k: *perr = err, then super_cond.notify().
SyncRequestDone(r, k, s) ==
  /\ offset' = [offset EXCEPT ![r] = @ - Start[k]]
  /\ err' = [err EXCEPT ![r] = s]
  /\ is_to_wait' = [is_to_wait EXCEPT ![k] = FALSE]
  /\ UNCHANGED answer

\* Mutant: a layer subtracts its super_sec twice.
CompleteRequestTwice(r, s) ==
  LET o == offset[r] - Start[N + 1] - Start[N] IN
  /\ offset' = [offset EXCEPT ![r] = o]
  /\ answer' = [answer EXCEPT ![r] = [offset |-> o, err |-> s]]
  /\ UNCHANGED <<is_to_wait, err>>

\* Every layer has subtracted its super_sec; the callback gets the request.
CompleteRequest(r, s) ==
  LET o == offset[r] - Start[N + 1] IN
  /\ offset' = [offset EXCEPT ![r] = o]
  /\ answer' = [answer EXCEPT ![r] = [offset |-> o, err |-> s]]
  /\ UNCHANGED <<is_to_wait, err>>

\* request_done, from the lowest layer up, when the device reports r.
RequestDone(r, s) ==
  /\ IF Below(offset[r]) # {} THEN SyncRequestDone(r, First(Below(offset[r])), s)
                              ELSE CompleteRequest(r, s)
  /\ UNCHANGED <<sync_m, pc, result, addr, calls>>

-------------------------------------------------------------------------------
UserStep(u) ==
  \/ (Call(u) \/ Lock(u) \/ Wait(u)) /\ UNCHANGED <<pending, reported>>
  \/ SyncRequest(u) /\ Device!Request(u)

Issue(r) == \E a \in Addrs : DoRequest(r, a) /\ Device!Request(r)

Report(r) == \E s \in Status : Device!Report(r, s) /\ RequestDone(r, s)

Next ==
  \/ \E u \in Users : UserStep(u)
  \/ \E r \in Reqs : Issue(r)
  \/ \E r \in Requests : Report(r)

Fairness ==
  /\ \A u \in Users : WF_vars(UserStep(u) /\ pc[u] # "idle")
  /\ \A r \in Requests : WF_vars(Report(r))

SafetySpec == Init /\ [][Next]_vars
Spec == SafetySpec /\ Fairness
-------------------------------------------------------------------------------
(* Properties.                                                             *)

\* A superblock access returns only when the device has reported its own
\* request, and returns the status reported; and a notification not consumed yet
\* is the answer to the request of the thread that holds the layer's sync_m and
\* waits, or is about to.  So no access is woken by another's completion, and
\* none leaves while the device still holds its request, which lives on the
\* caller's stack (sync_request, stronger_cond).
OwnStatus ==
  /\ \A u \in Users : pc[u] \in {"idle", "called"} =>
       u \notin pending /\ result[u] = reported[u]
  /\ \A k \in Layer : ~is_to_wait[k] =>
       \E u \in Users : /\ LayerOf[u] = k /\ sync_m[k] = u /\ pc[u] = "waiting"
                        /\ u \notin pending /\ err[u] = reported[u]

\* A request comes back to its callback with the sector it was issued for, so
\* that it can be issued again, and with its own status; it is not mistaken for
\* a superblock access, nor a superblock access for it (request_done).
OffsetRestored ==
  \A r \in Reqs :
    IF r \in pending THEN offset[r] = addr[r] + Start[N + 1]
    ELSE calls[r] > 0 => /\ offset[r] = addr[r]
                         /\ answer[r] = [offset |-> addr[r], err |-> reported[r]]

\* Every superblock access returns, and every request comes back.
EverythingReturns ==
  /\ \A u \in Users : pc[u] = "called" ~> pc[u] = "idle"
  /\ \A r \in Reqs : r \in pending ~> r \notin pending
===============================================================================
