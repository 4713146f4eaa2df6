---------------------------------- MODULE Disk ----------------------------------
(***************************************************************************)
(* What a block_io promises about data: it is an array of sectors, which   *)
(* may grow at its end.  A request moves each of its sectors at most once, *)
(* at some time before its status is settled, and all of them if that      *)
(* status is a success.                                                    *)
(***************************************************************************)
EXTENDS Integers, Sequences

CONSTANTS
  Requests,
  Lens            \* by how many sectors the disk grows

VARIABLES
  disk,           \* the sectors, from 1
  area,           \* per request: [type, offset, len], "none" before it is issued
  moved,          \* per request: the positions of its buffer that were moved
  buf,            \* per request: its buffer, by position
  verdict         \* per request: "none", "done" or "failed"

vars == <<disk, area, moved, buf, verdict>>

Types == {"read", "write"}
NoArea == [type |-> "none", offset |-> 0, len |-> 0]
Positions(r) == 0 .. area[r].len - 1

\* What n sectors hold that come after the first `from'.
Old(from, n) == [a \in 1 .. n |-> <<"old", from + a>>]

Init ==
  /\ disk = Old(0, Len(disk))
  /\ area = [r \in Requests |-> NoArea]
  /\ moved = [r \in Requests |-> {}]
  /\ buf = [r \in Requests |-> <<>>]
  /\ verdict = [r \in Requests |-> "none"]

Grow(n) ==
  /\ disk' = disk \o Old(Len(disk), n)
  /\ UNCHANGED <<area, moved, buf, verdict>>

Start(r, type, offset, l) ==
  /\ area[r] = NoArea /\ verdict[r] = "none"
  /\ offset + l <= Len(disk)
  /\ area' = [area EXCEPT ![r] = [type |-> type, offset |-> offset, len |-> l]]
  /\ buf' = [buf EXCEPT ![r] = [i \in 0 .. l - 1 |-> <<r, i>>]]
  /\ UNCHANGED <<disk, moved, verdict>>

\* The i-th sector of a buffer holds <<r, i>> at first.
Move(r, S) ==
  LET at(i) == area[r].offset + i + 1 IN
  /\ verdict[r] = "none"
  /\ S \cap moved[r] = {}
  /\ moved' = [moved EXCEPT ![r] = @ \cup S]
  /\ \/ /\ area[r].type = "write"
        /\ disk' = [a \in DOMAIN disk |->
                      IF \E i \in S : at(i) = a THEN buf[r][a - area[r].offset - 1] ELSE disk[a]]
        /\ UNCHANGED buf
     \/ /\ area[r].type = "read"
        /\ buf' = [buf EXCEPT ![r] = [i \in Positions(r) |-> IF i \in S THEN disk[at(i)] ELSE @[i]]]
        /\ UNCHANGED disk
  /\ UNCHANGED <<area, verdict>>

Settle(r, v) ==
  /\ verdict[r] = "none"
  /\ v = "done" => moved[r] = Positions(r)
  /\ verdict' = [verdict EXCEPT ![r] = v]
  /\ UNCHANGED <<disk, area, moved, buf>>

Next ==
  \/ \E n \in Lens : Grow(n)
  \/ \E r \in Requests :
       \/ \E offset \in 0 .. Len(disk) - 1 : \E l \in 1 .. Len(disk) - offset, type \in Types :
            Start(r, type, offset, l)
       \/ \E S \in SUBSET Positions(r) : Move(r, S)
       \/ \E v \in {"done", "failed"} : Settle(r, v)

Spec == Init /\ [][Next]_vars
===============================================================================
