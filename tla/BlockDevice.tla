------------------------------ MODULE BlockDevice ------------------------------
(***************************************************************************)
(* What every block_io promises to whoever calls do_request(request): the  *)
(* request is reported to the callback once, with some status, at any      *)
(* later time.  The layers above the devices count on nothing else.        *)
(***************************************************************************)
CONSTANTS
  Requests,       \* request_t objects
  Status          \* what a device reports: ERROR_TYPE_OK or an error

VARIABLES
  pending,        \* the requests the device has and has not reported
  reported        \* per request: the status last reported

Init ==
  /\ pending = {}
  /\ \E s \in Status : reported = [r \in Requests |-> s]

Request(r) ==
  /\ r \notin pending
  /\ pending' = pending \cup {r}
  /\ UNCHANGED reported

Report(r, s) ==
  /\ r \in pending
  /\ pending' = pending \ {r}
  /\ reported' = [reported EXCEPT ![r] = s]

Next == \E r \in Requests : Request(r) \/ \E s \in Status : Report(r, s)

vars == <<pending, reported>>

Fairness == \A r \in Requests : WF_vars(\E s \in Status : Report(r, s))

Spec == Init /\ [][Next]_vars /\ Fairness
===============================================================================
