------------------------------ MODULE WatchDog ------------------------------
(***************************************************************************)
(* lt_watch_dog with the session that is its user (lt_watch_dog.cpp,       *)
(* lt_session.cpp, action_stub.cpp, lt_safe_state.hpp): a timer that looks *)
(* every `seconds' whether anything was sent or received, and takes the    *)
(* session down when nothing was.                                          *)
(*                                                                         *)
(* stack[t] lists what thread t has still to do.  A function of the dog    *)
(* that touches shared state once under its mutex m, up to the call it     *)
(* makes after unlocking, is one step.  The handler that gives up the dog  *)
(* does more: it clears on_monitor and wakes the destructor first, while   *)
(* it holds m, and uses the object after that ("silenced", "unlock").      *)
(*                                                                         *)
(* The boost timer is an environment of three states: armed (due > 0),     *)
(* fired (a handler is queued with success) and cancelled (a handler is    *)
(* queued with operation_aborted); a cancel does not recall a handler      *)
(* already queued.  Time is counted in whole seconds, as time(0) counts    *)
(* it, and ages are kept only up to the bound that matters.                *)
(*                                                                         *)
(* A session is connected once, as lt_session_cli_safe::connect asserts,   *)
(* and destroyed at any time when it is down and nothing holds a reference *)
(* of it.  The timer holds none: on_monitor stands for it.                 *)
(***************************************************************************)
EXTENDS Integers, Sequences, SequencesExt

CONSTANTS
  Threads,          \* of the io_service and of the users
  Seconds,          \* DEFALUT_TIMER_SECS
  MaxWait,          \* max_wait_seconds
  MaxLate           \* bound: operations that end after the session went down

ASSUME TimeAssumption ==
  Seconds \in Nat \ {0} /\ MaxWait \in Nat \ {0} /\ MaxLate \in Nat

VARIABLES
  connect,          \* _connect: "new", "up", "down"
  is_monitoring,
  on_monitor,       \* what the destructor waits for
  due,              \* seconds to the expiry of the wait, 0 when none is armed
  fired, aborted,   \* handlers queued with success, and with operation_aborted
  snd_age, rcv_age, \* time since the last send and the last receive
  late,             \* operations that ended after the session went down
  destroyed,        \* ~lt_watch_dog, the last part of ~lt_session, is through
  stack

timer == <<due, fired, aborted>>
ages == <<snd_age, rcv_age>>
vars == <<connect, is_monitoring, on_monitor, timer, ages, late, destroyed, stack>>

MaxAge == MaxWait + Seconds

(* Calls to make; and what timer_handler has left to do: to clear          *)
(* is_monitoring and unlock m, only to unlock it, to return.               *)
Calls == {"connected", "start_monitor", "stop_monitor", "let_it_down",
          "silenced", "unlock", "return"}

Idle(t) == stack[t] = <<>>

At(t, f) == stack[t] # <<>> /\ Head(stack[t]) = f

Then(t, calls) == stack' = [stack EXCEPT ![t] = calls \o Tail(@)]

Begins(t, calls) == Idle(t) /\ stack' = [stack EXCEPT ![t] = calls]

(* A handler holds m between two steps. *)
Locked == \E t \in Threads : At(t, "silenced") \/ At(t, "unlock")

(* t is in timer_handler, or in a call it made: it holds no reference.     *)
InHandler(t) == stack[t] # <<>> /\ Last(stack[t]) \in {"unlock", "return"}

Init ==
  /\ connect = "new"
  /\ is_monitoring = FALSE /\ on_monitor = FALSE
  /\ due = 0 /\ fired = 0 /\ aborted = 0
  /\ snd_age = 0 /\ rcv_age = 0
  /\ late = 0 /\ destroyed = FALSE
  /\ stack = [t \in Threads |-> <<>>]

-----------------------------------------------------------------------------
(* The timer.                                                              *)

(* Mutant of Cancelled: a wait that has expired is cancelled once more. *)
Cancelled_always == aborted + 1

(* deadline_timer::cancel, and expires_from_now, on an armed wait *)
Cancelled == IF due > 0 THEN aborted + 1 ELSE aborted

(* Mutant of start_timer: on_monitor is left to the first start. *)
start_timer_quiet ==
  /\ on_monitor' = is_monitoring
  /\ due' = Seconds
  /\ aborted' = Cancelled

(* expires_from_now and async_wait *)
start_timer ==
  /\ on_monitor' = TRUE
  /\ due' = Seconds
  /\ aborted' = Cancelled

Older(age) == IF age < MaxAge THEN age + 1 ELSE age

(* A second passes.  Threads that have something to do in the session do   *)
(* it within the second; only connected() may be late.                     *)
Tick ==
  /\ connect # "new"
  /\ fired = 0 /\ aborted = 0
  /\ \A t \in Threads : Idle(t) \/ At(t, "connected")
  /\ due' = IF due > 0 THEN due - 1 ELSE 0
  /\ fired' = IF due = 1 THEN 1 ELSE fired
  /\ snd_age' = Older(snd_age) /\ rcv_age' = Older(rcv_age)
  /\ UNCHANGED <<connect, is_monitoring, on_monitor, aborted, late, destroyed, stack>>

-----------------------------------------------------------------------------
(* The session.                                                            *)

(* let_it_up: the state is stored, and connected() called with the lock of *)
(* lt_safe_state released.                                                 *)
let_it_up(t) ==
  /\ connect = "new"
  /\ connect' = "up"
  /\ Begins(t, <<"connected">>)
  /\ UNCHANGED <<is_monitoring, on_monitor, timer, ages, late, destroyed>>

(* connected(): action_stub::reset, then start_monitor. *)
connected(t) ==
  /\ At(t, "connected")
  /\ snd_age' = 0 /\ rcv_age' = 0
  /\ Then(t, <<"start_monitor">>)
  /\ UNCHANGED <<connect, is_monitoring, on_monitor, timer, late, destroyed>>

start_monitor(t) ==
  /\ At(t, "start_monitor") /\ ~Locked
  /\ is_monitoring' = TRUE
  /\ start_timer
  /\ Then(t, <<>>)
  /\ UNCHANGED <<connect, fired, ages, late, destroyed>>

(* stop_monitor: cancel, unlock, handle_event(). *)
stop_monitor(t) ==
  /\ At(t, "stop_monitor") /\ ~Locked
  /\ is_monitoring' = FALSE
  /\ due' = 0
  /\ aborted' = Cancelled
  /\ Then(t, <<"let_it_down">>)
  /\ UNCHANGED <<connect, on_monitor, fired, ages, late, destroyed>>

(* set(false): disconnected() stops the dog before and after the socket is *)
(* closed.                                                                 *)
let_it_down(t) ==
  /\ At(t, "let_it_down")
  /\ connect' = "down"
  /\ Then(t, IF connect = "up" THEN <<"stop_monitor", "stop_monitor">> ELSE <<>>)
  /\ UNCHANGED <<is_monitoring, on_monitor, timer, ages, late, destroyed>>

(* An operation comes to its end; only the few that were under way do so   *)
(* once the session is down.                                               *)
Result ==
  /\ ~destroyed
  /\ \/ connect = "up" /\ UNCHANGED late
     \/ connect = "down" /\ late < MaxLate /\ late' = late + 1

(* An operation fails, or the user disconnects. *)
Fail(t) ==
  /\ Result
  /\ Begins(t, <<"let_it_down">>)
  /\ UNCHANGED <<connect, is_monitoring, on_monitor, timer, ages, destroyed>>

(* An operation succeeds: mark_sent or mark_received. *)
Mark ==
  /\ Result
  /\ \/ snd_age' = 0 /\ UNCHANGED rcv_age
     \/ rcv_age' = 0 /\ UNCHANGED snd_age
  /\ UNCHANGED <<connect, is_monitoring, on_monitor, timer, destroyed, stack>>

(* A client puts the last reference after its disconnect(), which returns  *)
(* at once when the session is down already; a server when its read ends   *)
(* with an error.  No other operation is out then, each holds a reference, *)
(* so only a timer_handler can still be in the session; the destructor     *)
(* returns when it finds on_monitor clear.                                 *)
Destroy ==
  /\ ~destroyed /\ connect = "down"
  /\ \A t \in Threads : Idle(t) \/ InHandler(t)
  /\ ~on_monitor
  /\ destroyed' = TRUE
  /\ UNCHANGED <<connect, is_monitoring, on_monitor, timer, ages, late, stack>>

-----------------------------------------------------------------------------
(* timer_handler.                                                          *)

(* Mutant of is_to_feed: the last second counts as recent. *)
is_to_feed_late == snd_age <= MaxWait \/ rcv_age <= MaxWait

(* The later of the two is recent. *)
is_to_feed == snd_age < MaxWait \/ rcv_age < MaxWait

(* Mutant of HandlerStopped: it returns without telling the destructor. *)
HandlerStopped_silent(t) ==
  /\ ~Locked /\ Begins(t, <<"unlock">>)
  /\ \/ aborted > 0 /\ aborted' = aborted - 1 /\ UNCHANGED fired
     \/ fired > 0 /\ ~is_monitoring /\ fired' = fired - 1 /\ UNCHANGED aborted
  /\ UNCHANGED <<connect, is_monitoring, on_monitor, due, ages, late, destroyed>>

(* The wait was cancelled, or the dog was stopped after the wait expired:  *)
(* the destructor is released, and m still held.                           *)
HandlerStopped(t) ==
  /\ ~Locked /\ Begins(t, <<"unlock">>)
  /\ \/ aborted > 0 /\ aborted' = aborted - 1 /\ UNCHANGED fired
     \/ fired > 0 /\ ~is_monitoring /\ fired' = fired - 1 /\ UNCHANGED aborted
  /\ on_monitor' = FALSE
  /\ UNCHANGED <<connect, is_monitoring, due, ages, late, destroyed>>

HandlerFeeds(t) ==
  /\ ~Locked /\ Idle(t)
  /\ fired > 0 /\ is_monitoring /\ is_to_feed
  /\ fired' = fired - 1
  /\ start_timer
  /\ UNCHANGED <<connect, is_monitoring, ages, late, destroyed, stack>>

(* Nothing was sent or received: the destructor is released, and all the   *)
(* rest is still to come.                                                  *)
HandlerFindsSilence(t) ==
  /\ ~Locked /\ Begins(t, <<"silenced", "return">>)
  /\ fired > 0 /\ is_monitoring /\ ~is_to_feed
  /\ fired' = fired - 1
  /\ on_monitor' = FALSE
  /\ UNCHANGED <<connect, is_monitoring, due, aborted, ages, late, destroyed>>

timer_handler(t) == HandlerStopped(t) \/ HandlerFeeds(t) \/ HandlerFindsSilence(t)

(* is_monitoring is cleared and m unlocked; handle_event() comes next.     *)
silenced(t) ==
  /\ At(t, "silenced")
  /\ is_monitoring' = FALSE
  /\ Then(t, <<"let_it_down">>)
  /\ UNCHANGED <<connect, on_monitor, timer, ages, late, destroyed>>

(* timer_handler comes to its end, and m is unlocked if it was not.        *)
returns(t) ==
  /\ At(t, "unlock") \/ At(t, "return")
  /\ Then(t, <<>>)
  /\ UNCHANGED <<connect, is_monitoring, on_monitor, timer, ages, late, destroyed>>

Inside(t) == connected(t) \/ start_monitor(t) \/ stop_monitor(t) \/ let_it_down(t)
               \/ silenced(t) \/ returns(t)

Next ==
  \/ \E t \in Threads : let_it_up(t) \/ Fail(t) \/ Inside(t) \/ timer_handler(t)
  \/ Mark
  \/ Tick
  \/ Destroy

Spec == Init /\ [][Next]_vars

(* Threads go on with what they are in, the io_service runs the handlers   *)
(* queued, and time passes.  Nothing obliges a user to let go.             *)
FairSpec ==
  /\ Spec
  /\ \A t \in Threads : WF_vars(Inside(t))
  /\ WF_vars(\E t \in Threads : timer_handler(t))
  /\ WF_vars(Tick)
-----------------------------------------------------------------------------
(* At most one wait is out at a time in any form the timer can have it.    *)
TypeOK ==
  /\ connect \in {"new", "up", "down"}
  /\ is_monitoring \in BOOLEAN /\ on_monitor \in BOOLEAN
  /\ due \in 0 .. Seconds /\ fired \in 0 .. 1 /\ aborted \in 0 .. 1
  /\ snd_age \in 0 .. MaxAge /\ rcv_age \in 0 .. MaxAge
  /\ late \in 0 .. MaxLate /\ destroyed \in BOOLEAN
  /\ stack \in [Threads -> Seq(Calls)]

(* The waits of which no handler has come to the release of the           *)
(* destructor.                                                             *)
Waits == (IF due > 0 THEN 1 ELSE 0) + fired + aborted

(* on_monitor, on which ~lt_watch_dog waits, is set exactly while one wait *)
(* is armed or its handler has not come to the line that clears it: the    *)
(* destructor does not wait for a handler that will not come, and no       *)
(* handler begins on a dog that was destroyed.  (It does not cover the     *)
(* handler that has cleared on_monitor: see HandlerSeesAlive.)             *)
DestructorCovered ==
  /\ Waits = IF on_monitor THEN 1 ELSE 0
  /\ destroyed => Waits = 0

(* What assert_legal asserts at the start of handle_event and let_it_down: *)
(* the session they are called on is alive.                                *)
HandlerSeesAlive == [][\A t \in Threads : let_it_down(t) => ~destroyed]_vars

(* A session that is up and monitored has not been silent for longer than  *)
(* max_wait_seconds and one period of the timer, whatever came in between  *)
(* two expiries and however the handlers and the calls interleave.         *)
SilenceBounded ==
  connect = "up" /\ is_monitoring =>
    snd_age < MaxWait + Seconds \/ rcv_age < MaxWait + Seconds

(* Once the session is down the dog comes to rest: no wait is renewed for  *)
(* ever, even when start_monitor comes after the stop_monitor of a session *)
(* that went down while connected() was running; from some time on         *)
(* on_monitor is clear, and ~lt_watch_dog need not wait.                   *)
DogRests == connect = "down" ~> []~on_monitor
=============================================================================
