----------------------------- MODULE ClientSession -----------------------------
(***************************************************************************)
(* lt_session_cli_safe over lt_session, with lt_session_cli_set and        *)
(* lt_reference: who keeps a client's session alive.                       *)
(*                                                                         *)
(* get_session makes a session with one reference, its user's.  snd and    *)
(* rcv take one more and count the operation in pending_cnt; snd_done and  *)
(* rcv_done give both back after the user's callback.  The put that brings *)
(* the count to zero posts the deletion to a pool of one thread, whose     *)
(* destructor first cancels what is queued and then waits for pending_cnt  *)
(* to be zero.  disconnected() posts a call of the user to another pool.   *)
(*                                                                         *)
(* The user is a generated client: connect, snd and rcv, disconnect, then  *)
(* put_session (testclient_client::disconnect).  Its callbacks leave the   *)
(* work to a pool (lt_client_service), so they do not call the session.    *)
(* Inside the session everything is as in Session.                         *)
(***************************************************************************)
EXTENDS Session, Integers

CONSTANTS
  Deleter,            \* the thread of delete_pool, one of Threads
  Nobody              \* no thread

VARIABLES
  ref,                \* lt_reference
  pending_cnt,
  is_down_connected,
  connector,          \* the thread inside connect
  held,               \* the user has its reference
  debt,               \* per thread: what it owes after the user's callback
  delete_pool,        \* delete tasks posted and not begun
  discon_pool,        \* disconnected_inthread tasks posted and not run
  fate                \* "alive", "dying" in the destructor, "deleted"

pools == <<delete_pool, discon_pool>>
cliVars == <<ref, pending_cnt, is_down_connected, connector, held, debt, pools, fate>>
clientVars == <<vars, cliVars>>

\* get_session.
ClientInit ==
  /\ Init
  /\ ref = 1 /\ held = TRUE
  /\ pending_cnt = 0
  /\ is_down_connected = FALSE
  /\ connector = Nobody
  /\ debt = [t \in Threads |-> "none"]
  /\ delete_pool = 0 /\ discon_pool = 0
  /\ fate = "alive"

\* A thread that may take a handler, a task or a call of the user.
Free(t) == t \notin {Deleter, connector} /\ debt[t] = "none"

connect_to(t) ==
  /\ Free(t) /\ held
  /\ let_it_up(t)
  /\ connector' = t
  /\ UNCHANGED <<ref, pending_cnt, is_down_connected, held, debt, pools, fate>>

\* connect, after let_it_up: the flag may overtake a disconnected() in between.
connect_returns(t) ==
  /\ connector = t /\ Idle(t)
  /\ is_down_connected' = TRUE
  /\ connector' = Nobody
  /\ UNCHANGED <<vars, ref, pending_cnt, held, debt, pools, fate>>

\* snd, rcv of lt_session_cli_safe.
snd_or_rcv(t, x) ==
  /\ Free(t) /\ held /\ is_down_connected
  /\ Use(t, x)
  /\ ref' = ref + 1
  /\ pending_cnt' = pending_cnt + 1
  /\ UNCHANGED <<is_down_connected, connector, held, debt, pools, fate>>

\* The same when the flag is down: the user is told at once.
refused(t, x) ==
  /\ Free(t) /\ Idle(t) /\ held /\ ~is_down_connected
  /\ x \in Requests \ submitted
  /\ submitted' = submitted \cup {x}
  /\ told' = [told EXCEPT ![x] = @ \cup {"err"}]
  /\ UNCHANGED <<met, connect, open, is_monitoring, is_doing, func_list, io, stack, left>>
  /\ UNCHANGED cliVars

\* put_session_internal.
Put ==
  /\ ref' = ref - 1
  /\ delete_pool' = IF ref = 1 THEN delete_pool + 1 ELSE delete_pool

\* snd_done, rcv_done: the user's callback, pending_cnt, the reference.
snd_or_rcv_done(t) ==
  \/ /\ debt[t] = "none"
     /\ CallUser(t) /\ UNCHANGED submitted
     /\ debt' = [debt EXCEPT ![t] = "pending"]
     /\ UNCHANGED <<ref, pending_cnt, is_down_connected, connector, held, pools, fate>>
  \/ /\ debt[t] = "pending"
     /\ pending_cnt' = pending_cnt - 1
     /\ debt' = [debt EXCEPT ![t] = "ref"]
     /\ UNCHANGED <<vars, ref, is_down_connected, connector, held, pools, fate>>
  \/ /\ debt[t] = "ref"
     /\ Put
     /\ debt' = [debt EXCEPT ![t] = "none"]
     /\ UNCHANGED <<vars, pending_cnt, is_down_connected, connector, held, discon_pool, fate>>

\* disconnected: no reference is taken for the task.
disconnected(t) ==
  /\ CallDisconnected(t)
  /\ is_down_connected' = FALSE
  /\ discon_pool' = discon_pool + 1
  /\ UNCHANGED <<ref, pending_cnt, connector, held, debt, delete_pool, fate>>

disconnected_inthread ==
  /\ discon_pool > 0
  /\ discon_pool' = discon_pool - 1
  /\ UNCHANGED <<vars, ref, pending_cnt, is_down_connected, connector, held, debt,
                 delete_pool, fate>>

\* The rest of what goes on in a session.
InSession(t) ==
  /\ debt[t] = "none"
  /\ \/ Leave(t) \/ (CallConnected(t) /\ UNCHANGED submitted)
     \/ begin_to(t) \/ continue_to(t) \/ clear_queue(t)
     \/ Start(t) \/ Done(t) \/ let_it_down(t) \/ Close(t) \/ Monitor(t)
  /\ UNCHANGED cliVars

Arrival(t) ==
  /\ Free(t)
  /\ \/ timer_handler(t)
     \/ held /\ is_down_connected /\ disconnect(t)
     \/ \E q \in Queues : \E i \in DOMAIN io[q], e \in Outcomes :
          \/ q = "queue" /\ snd_data_done_unsafe(t, i, e)
          \/ q = "rcv_queue" /\ (rcv_head_done_unsafe(t, i, e) \/ rcv_data_done_unsafe(t, i, e))
  /\ UNCHANGED cliVars

\* The generated client gives its session back when disconnect has returned.
put_session ==
  /\ held /\ left = "returned"
  /\ held' = FALSE
  /\ Put
  /\ UNCHANGED <<vars, pending_cnt, is_down_connected, connector, debt, discon_pool, fate>>

\* ~lt_session_cli_safe: clear, then the poll of pending_cnt.
delete_func ==
  /\ delete_pool > 0 /\ fate = "alive" /\ Idle(Deleter)
  /\ delete_pool' = delete_pool - 1
  /\ fate' = "dying"
  /\ stack' = [stack EXCEPT ![Deleter] = <<clear("queue"), clear("rcv_queue")>>]
  /\ UNCHANGED <<met, connect, open, is_monitoring, is_doing, func_list, io, submitted,
                 told, left, ref, pending_cnt, is_down_connected, connector, held, debt,
                 discon_pool>>

\* The poll has found zero; assert_queue_empy, ~lt_session and ~algo_obj.
destroyed ==
  /\ fate = "dying" /\ Idle(Deleter) /\ debt[Deleter] = "none"
  /\ pending_cnt = 0
  /\ \A q \in Queues : func_list[q] = <<>>
  /\ fate' = "deleted"
  /\ open' = FALSE
  /\ UNCHANGED <<met, connect, is_monitoring, is_doing, func_list, io, stack, submitted,
                 told, left, ref, pending_cnt, is_down_connected, connector, held, debt,
                 pools>>

ClientNext ==
  \/ \E t \in Threads :
       \/ connect_to(t) \/ connect_returns(t)
       \/ snd_or_rcv_done(t) \/ disconnected(t) \/ InSession(t) \/ Arrival(t)
       \/ \E x \in Requests : snd_or_rcv(t, x) \/ refused(t, x)
  \/ disconnected_inthread \/ put_session \/ delete_func \/ destroyed

ClientSpec == ClientInit /\ [][ClientNext]_clientVars
-------------------------------------------------------------------------------
\* A session is not deleted while its user holds the reference get_session gave:
\* every call the user makes begins by asserting that the session is alive
\* (assert_legal, lt_session.cpp:32 and algo_interface.cpp:334).
HeldIsAlive == held => fate # "deleted"
=============================================================================
