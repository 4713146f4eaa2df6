------------------------------ MODULE SerialExec ------------------------------
(***************************************************************************)
(* What lt_async_2safe_async promises (header comment, lines 9-14): an     *)
(* unsafe asynchronous interface is turned into a safe one by a queue, so  *)
(* that a second call of the interface never overlaps the first.           *)
(*                                                                         *)
(* An operation is submitted once; it waits, becomes active when no other  *)
(* operation is active and none submitted before it still waits, and ends; *)
(* or a cancellation takes it while it waits, and its callback reports     *)
(* that.  No queue, flag, lock or thread appears at this level.            *)
(***************************************************************************)
EXTENDS Naturals, Sequences

CONSTANT Ops            \* the calls of the interface

VARIABLES
  order,                \* operations in the order they were submitted
  phase                 \* what has become of each operation

vars == <<order, phase>>

Phases == {"new", "waiting", "active", "ended", "cancelling", "cancelled"}

TypeOK ==
  /\ order \in Seq(Ops)
  /\ phase \in [Ops -> Phases]

Init ==
  /\ order = <<>>
  /\ phase = [o \in Ops |-> "new"]

Submit(o) ==
  /\ phase[o] = "new"
  /\ phase' = [phase EXCEPT ![o] = "waiting"]
  /\ order' = Append(order, o)

NoneActive == \A p \in Ops : phase[p] # "active"

\* Nothing submitted before the i-th operation is still waiting.
FirstWaiting(i) == \A j \in 1 .. (i - 1) : phase[order[j]] # "waiting"

Start(o) ==
  /\ phase[o] = "waiting"
  /\ NoneActive
  /\ \E i \in 1 .. Len(order) : order[i] = o /\ FirstWaiting(i)
  /\ phase' = [phase EXCEPT ![o] = "active"]
  /\ UNCHANGED order

Finish(o) ==
  /\ phase[o] = "active"
  /\ phase' = [phase EXCEPT ![o] = "ended"]
  /\ UNCHANGED order

\* One call of clear() takes any set of waiting operations.
Cancel(S) ==
  /\ \A o \in S : phase[o] = "waiting"
  /\ phase' = [o \in Ops |-> IF o \in S THEN "cancelling" ELSE phase[o]]
  /\ UNCHANGED order

Report(o) ==
  /\ phase[o] = "cancelling"
  /\ phase' = [phase EXCEPT ![o] = "cancelled"]
  /\ UNCHANGED order

Next ==
  \/ \E o \in Ops : Submit(o) \/ Start(o) \/ Finish(o) \/ Report(o)
  \/ \E S \in SUBSET Ops : Cancel(S)

Spec == Init /\ [][Next]_vars

-------------------------------------------------------------------------------
\* At most one operation is between its start and its end.
OneActive ==
  \A o, p \in Ops : phase[o] = "active" /\ phase[p] = "active" => o = p

===============================================================================
