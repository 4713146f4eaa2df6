------------------------------ MODULE PointSet ------------------------------
(***************************************************************************)
(* What a caller of algo_sections (src/algo/algo_sections.h) is promised:  *)
(* a set of points.  Adding and removing are union and difference, alloc   *)
(* hands out the lowest points or nothing, a question about points is      *)
(* answered truthfully, and no call ever trips an assertion.               *)
(***************************************************************************)
EXTENDS Integers, FiniteSets

CONSTANT Calls        \* records [op, pts, num]; Idle is one of them

VARIABLES
  pts,                \* the set
  call,               \* the call in progress
  out,                \* the points the last call answered with
  failed              \* an assertion of the code failed

pvars == <<pts, call, out, failed>>

Idle == [op |-> "none", pts |-> {}, num |-> 0]

PInit == pts = {} /\ call = Idle /\ out = {} /\ failed = FALSE

PCall ==
  /\ call = Idle
  /\ call' \in Calls
  /\ out' = {}
  /\ UNCHANGED <<pts, failed>>

PAdd == call.op = "add" /\ pts' = pts \cup call.pts /\ out' = {}

PRemove == call.op \in {"remove", "erase"} /\ pts' = pts \ call.pts /\ out' = {}

(* All of the lowest points, or none when there are fewer than asked for. *)
PAlloc ==
  /\ call.op = "alloc"
  /\ out' \subseteq pts
  /\ Cardinality(out') = IF call.num > Cardinality(pts) THEN 0 ELSE call.num
  /\ \A x \in out', y \in pts \ out' : x < y
  /\ pts' = pts \ out'

PHas ==
  /\ call.op \in {"has", "has_point"}
  /\ out' = IF call.pts \subseteq pts THEN call.pts ELSE {}
  /\ pts' = pts

PShift ==
  call.op = "shift" /\ pts' = {p + call.num : p \in pts} /\ out' = {}

PReload == call.op = "reload" /\ pts' = pts /\ out' = {}

PReturn ==
  /\ PAdd \/ PRemove \/ PAlloc \/ PHas \/ PShift \/ PReload
  /\ call' = Idle
  /\ UNCHANGED failed

PSpec == PInit /\ [][PCall \/ PReturn]_pvars
=============================================================================
