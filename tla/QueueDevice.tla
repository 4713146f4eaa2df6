------------------------------ MODULE QueueDevice ------------------------------
(***************************************************************************)
(* test_algo_device: do_request puts an asynchronous request in            *)
(* io_request_queue, under m, and one worker thread serves the queue.  The *)
(* list is constructed with a length, so it starts with that many null     *)
(* pointers; the worker skips each of them with a sleep.                   *)
(***************************************************************************)
EXTENDS Naturals, Sequences

CONSTANTS
  NoRequest,      \* the null pointer
  MaxQueDepth     \* MAX_QUE_DEPTH: the nulls the list starts with

ASSUME DepthAssumption == MaxQueDepth \in Nat

VARIABLES
  io_request_queue,
  hand            \* what the worker has popped and not reported

queueVars == <<io_request_queue, hand>>

QueueInit ==
  /\ io_request_queue = [i \in 1 .. MaxQueDepth |-> NoRequest]
  /\ hand = NoRequest

\* Mutant: a new request replaces the ones waiting.
PushDrops(r) ==
  /\ io_request_queue' = <<r>>
  /\ UNCHANGED hand

Push(r) ==
  /\ io_request_queue' = Append(io_request_queue, r)
  /\ UNCHANGED hand

\* pop_request; a null pointer leaves the worker with nothing in hand.
Pop ==
  /\ hand = NoRequest
  /\ io_request_queue # <<>>
  /\ hand' = Head(io_request_queue)
  /\ io_request_queue' = Tail(io_request_queue)

\* The worker has done the I/O, or has thrown, and reports the request.
Finish(r) ==
  /\ hand = r /\ r # NoRequest
  /\ hand' = NoRequest
  /\ UNCHANGED io_request_queue

QueuePending ==
  ({hand} \cup {io_request_queue[i] : i \in DOMAIN io_request_queue}) \ {NoRequest}
===============================================================================
