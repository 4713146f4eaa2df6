------------------------------- MODULE MCSession -------------------------------
(* The session with a write and a read, or with two writes: TLC chooses a mix   *)
(* of requests by what the users submit, under one specification.  A user is   *)
(* never obliged to submit, so that the mixes take nothing from the fairness.  *)
EXTENDS Session

CONSTANTS w1, w2, r1

Mixes == {{w1, r1}, {w1, w2}}

MixNext == Next /\ \E mix \in Mixes : submitted' \subseteq mix

MixSpec == Init /\ [][MixNext]_vars /\ Fairness
===============================================================================
