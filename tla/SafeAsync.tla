------------------------------- MODULE SafeAsync -------------------------------
(***************************************************************************)
(* functions/communicate/lt_async_2safe_async.{h,cpp}: the queue every     *)
(* session puts in front of its socket reads and of its socket writes.     *)
(*                                                                         *)
(* Threads call begin_to(f, callback_f), continue_to() and clear().  A     *)
(* critical section of f_m touches only is_doing, func_list and locals, so *)
(* it is one action; what a call does after unlock() is a later action of  *)
(* the same thread, and every other thread may run in between:             *)
(*   begin_to / continue_to : choose an operation, unlock, call its f();   *)
(*   clear                  : move func_list aside, unlock, call each      *)
(*                            callback_f() in turn.                        *)
(* An operation is one pair (f, callback_f), passed to begin_to once.  The *)
(* operation f() starts runs outside this class; its completion handler    *)
(* calls continue_to() once (the caller's part of the protocol).           *)
(***************************************************************************)
EXTENDS Naturals, Sequences

CONSTANTS
  Threads,        \* threads that call into the queue
  Ops,            \* calls of begin_to
  NoOp            \* "no operation in hand"

ASSUME NoOpAssumption == NoOp \notin Ops

VARIABLES
  is_doing,       \* is_doing
  func_list,      \* func_list
  funcs,          \* per thread: the operation whose f() it is about to call
  tmp_list,       \* per thread: clear()'s tmp_list, callbacks still to make
  stage,          \* history: what has become of each operation
  order           \* history: operations in the order begin_to took the lock

vars == <<is_doing, func_list, funcs, tmp_list, stage, order>>

Stages == {"new", "queued", "chosen", "running", "ended", "dropped", "cancelled"}

TypeOK ==
  /\ is_doing \in BOOLEAN
  /\ func_list \in Seq(Ops)
  /\ funcs \in [Threads -> Ops \cup {NoOp}]
  /\ tmp_list \in [Threads -> Seq(Ops)]
  /\ stage \in [Ops -> Stages]
  /\ order \in Seq(Ops)

\* The thread is in no call of the class.
Idle(t) == funcs[t] = NoOp /\ tmp_list[t] = <<>>

Init ==
  /\ is_doing = FALSE
  /\ func_list = <<>>
  /\ funcs = [t \in Threads |-> NoOp]
  /\ tmp_list = [t \in Threads |-> <<>>]
  /\ stage = [o \in Ops |-> "new"]
  /\ order = <<>>

-------------------------------------------------------------------------------
\* Mutant: a moved-from, empty pair is queued.
EnqueueMoved(t, o) ==
  /\ is_doing
  /\ func_list' = Append(func_list, NoOp)
  /\ stage' = [stage EXCEPT ![o] = "queued"]
  /\ UNCHANGED <<is_doing, funcs>>

\* begin_to finds an operation in progress: queue the pair and return.
Enqueue(t, o) ==
  /\ is_doing
  /\ func_list' = Append(func_list, o)
  /\ stage' = [stage EXCEPT ![o] = "queued"]
  /\ UNCHANGED <<is_doing, funcs>>

\* Mutant: is_doing is left for f() to set.
ClaimLate(t, o) ==
  /\ ~is_doing
  /\ funcs' = [funcs EXCEPT ![t] = o]
  /\ stage' = [stage EXCEPT ![o] = "chosen"]
  /\ UNCHANGED <<is_doing, func_list>>

\* begin_to finds none: claim the queue; f() is called after the unlock.
Claim(t, o) ==
  /\ ~is_doing
  /\ is_doing' = TRUE
  /\ funcs' = [funcs EXCEPT ![t] = o]
  /\ stage' = [stage EXCEPT ![o] = "chosen"]
  /\ UNCHANGED func_list

BeginTo(t, o) ==
  /\ Idle(t)
  /\ stage[o] = "new"
  /\ Enqueue(t, o) \/ Claim(t, o)
  /\ order' = Append(order, o)
  /\ UNCHANGED tmp_list

\* The call of f() that ends begin_to or continue_to.
CallF(t) ==
  /\ funcs[t] # NoOp
  /\ stage' = [stage EXCEPT ![funcs[t]] = "running"]
  /\ funcs' = [funcs EXCEPT ![t] = NoOp]
  /\ UNCHANGED <<is_doing, func_list, tmp_list, order>>

\* Mutant: continue_to takes the newest pair.
ContinueToLifo(t, o) ==
  LET n == Len(func_list) IN
  /\ Idle(t)
  /\ stage[o] = "running"
  /\ is_doing' = (n > 0)
  /\ func_list' = IF n > 0 THEN SubSeq(func_list, 1, n - 1) ELSE <<>>
  /\ funcs' = [funcs EXCEPT ![t] = IF n > 0 THEN func_list[n] ELSE NoOp]
  /\ stage' = [p \in Ops |-> IF p = o THEN "ended"
                             ELSE IF n > 0 /\ p = func_list[n] THEN "chosen"
                             ELSE stage[p]]
  /\ UNCHANGED <<tmp_list, order>>

\* Mutant: continue_to releases the queue and leaves the next pair to begin_to.
ContinueToNoHandOver(t, o) ==
  /\ Idle(t)
  /\ stage[o] = "running"
  /\ is_doing' = FALSE
  /\ stage' = [stage EXCEPT ![o] = "ended"]
  /\ UNCHANGED <<func_list, funcs, tmp_list, order>>

\* continue_to, called on thread t by the completion handler of o.
ContinueTo(t, o) ==
  /\ Idle(t)
  /\ stage[o] = "running"
  /\ \/ /\ func_list = <<>>
        /\ is_doing' = FALSE
        /\ stage' = [stage EXCEPT ![o] = "ended"]
        /\ UNCHANGED <<func_list, funcs>>
     \/ /\ func_list # <<>>
        /\ is_doing' = TRUE
        /\ func_list' = Tail(func_list)
        /\ funcs' = [funcs EXCEPT ![t] = Head(func_list)]
        /\ stage' = [stage EXCEPT ![o] = "ended", ![Head(func_list)] = "chosen"]
  /\ UNCHANGED <<tmp_list, order>>

\* Mutant: clear copies func_list and does not empty it.
ClearKeeps(t) ==
  /\ Idle(t)
  /\ tmp_list' = [tmp_list EXCEPT ![t] = func_list]
  /\ stage' = [o \in Ops |-> IF stage[o] = "queued" THEN "dropped" ELSE stage[o]]
  /\ UNCHANGED <<is_doing, func_list, funcs, order>>

\* clear, under the lock.  is_doing keeps its value.
Clear(t) ==
  /\ Idle(t)
  /\ tmp_list' = [tmp_list EXCEPT ![t] = func_list]
  /\ func_list' = <<>>
  /\ stage' = [o \in Ops |-> IF stage[o] = "queued" THEN "dropped" ELSE stage[o]]
  /\ UNCHANGED <<is_doing, funcs, order>>

\* One iteration of clear's loop: the next callback_f().
CallCallback(t) ==
  /\ tmp_list[t] # <<>>
  /\ stage' = [stage EXCEPT ![Head(tmp_list[t])] = "cancelled"]
  /\ tmp_list' = [tmp_list EXCEPT ![t] = Tail(@)]
  /\ UNCHANGED <<is_doing, func_list, funcs, order>>

Next ==
  \E t \in Threads :
    \/ \E o \in Ops : BeginTo(t, o) \/ ContinueTo(t, o)
    \/ CallF(t) \/ Clear(t) \/ CallCallback(t)

Spec == Init /\ [][Next]_vars

\* A thread inside a call keeps running, and every operation that was started
\* completes and has its handler run: asio reports each started read or write.
Fairness ==
  /\ \A t \in Threads : WF_vars(CallF(t)) /\ WF_vars(CallCallback(t))
  /\ \A o \in Ops : WF_vars(\E t \in Threads : ContinueTo(t, o))

FairSpec == Spec /\ Fairness
-------------------------------------------------------------------------------
(* Properties.                                                             *)

InFlight(o) == stage[o] \in {"chosen", "running"}

\* Mutual exclusion of the interface (header lines 9-14): at most one operation
\* is between the decision to call its f() and the continue_to of its handler,
\* and is_doing tells exactly whether there is one.  No wake-up is lost: pairs
\* wait in func_list only while an operation is in flight to hand the queue on.
OneInFlight ==
  /\ \A o, p \in Ops : InFlight(o) /\ InFlight(p) => o = p
  /\ is_doing <=> \E o \in Ops : InFlight(o)
  /\ func_list # <<>> => is_doing

\* func_list is the tail of the submission order, and it holds exactly the
\* queued operations: a queued pair is neither lost nor duplicated nor
\* overtaken, whatever clear() and continue_to do meanwhile.
QueueIsSuffix ==
  /\ Len(func_list) <= Len(order)
  /\ \A i \in 1 .. Len(order) :
       LET k == i - (Len(order) - Len(func_list))
       IN  IF k < 1 THEN stage[order[i]] # "queued"
           ELSE stage[order[i]] = "queued" /\ order[i] = func_list[k]

\* Every callback clear() owes is owed by one thread, once.
OwedOnce ==
  /\ \A t \in Threads : \A i, j \in 1 .. Len(tmp_list[t]) :
       tmp_list[t][i] = tmp_list[t][j] => i = j
  /\ \A o \in Ops : stage[o] = "dropped" <=>
       \E t \in Threads : \E i \in 1 .. Len(tmp_list[t]) : tmp_list[t][i] = o
  /\ \A t, u \in Threads :
       \A i \in 1 .. Len(tmp_list[t]) : \A j \in 1 .. Len(tmp_list[u]) :
         tmp_list[t][i] = tmp_list[u][j] => t = u

\* The queue implements the serial executor: an operation whose f() has not been
\* called yet is still waiting there, whether it is queued or already chosen.
Abstract(s) ==
  CASE s = "new" -> "new"
    [] s \in {"queued", "chosen"} -> "waiting"
    [] s = "running" -> "active"
    [] s = "ended" -> "ended"
    [] s = "dropped" -> "cancelling"
    [] s = "cancelled" -> "cancelled"

Serial == INSTANCE SerialExec WITH phase <- [o \in Ops |-> Abstract(stage[o])]

SerialSpec == Serial!Spec

\* Under FairSpec every submitted operation is settled: its handler has run or
\* its cancellation callback has been called.
EveryOpSettles ==
  \A o \in Ops : stage[o] # "new" ~> stage[o] \in {"ended", "cancelled"}
===============================================================================
