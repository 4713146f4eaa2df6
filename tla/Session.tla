-------------------------------- MODULE Session --------------------------------
(***************************************************************************)
(* functions/communicate/lt_session.{h,cpp}: one connection, with the two  *)
(* lt_async_2safe_async queues, the lt_safe_state and the watch dog it     *)
(* owns.  Threads are those of the io_service, which run the completion    *)
(* handlers, and those of users; any idle one may take a handler or call.  *)
(*                                                                         *)
(* The code is synchronous calls within calls, with every lock released    *)
(* before the next call is made.  stack[t] lists the calls thread t has    *)
(* still to make, innermost first; a step makes the first one, replacing   *)
(* it by those it makes in turn.  All other threads may run between two    *)
(* steps.  A call is [f, x, e]: the function, the request, queue or        *)
(* outcome it is about.                                                    *)
(*                                                                         *)
(* A session is connected once (lt_session_cli_safe::connect asserts it),  *)
(* and is used only after that.                                            *)
(***************************************************************************)
EXTENDS Naturals, Sequences, FiniteSets, SequencesExt

CONSTANTS
  Threads,
  Writes,         \* calls of snd
  Reads           \* calls of rcv

ASSUME RequestsAssumption == Writes \cap Reads = {}

VARIABLES
  met,            \* history: let_it_up has been called
  connect,        \* _connect
  open,           \* _socket: opened and not closed
  is_monitoring,  \* the watch dog's timer is armed
  is_doing,       \* per queue
  func_list,      \* per queue: requests of the pairs that wait
  io,             \* per queue: the socket operations outstanding
  stack,          \* per thread: calls to make
  submitted,      \* history: requests passed to snd and rcv
  told,           \* history: per request, the outcomes its callback got
  left            \* history: disconnect() was "not_called", "called", has "returned"

vars == <<met, connect, open, is_monitoring, is_doing, func_list, io, stack,
          submitted, told, left>>

Requests == Writes \cup Reads
Queues == {"queue", "rcv_queue"}

\* Mutant: reads are put in the queue of the writes.
QueueOfWrites(x) == "queue"

\* The queue start_snd_data and start_rcv put a request in.
QueueOf(x) == IF x \in Writes THEN "queue" ELSE "rcv_queue"

Outcomes == {"ok", "err"}

Call(f, x, e) == [f |-> f, x |-> x, e |-> e]
begin(x) == Call("begin_to", x, "-")
start(x) == Call("f", x, "-")
continue(q) == Call("continue_to", q, "-")
clear(q) == Call("clear", q, "-")
done(x, e) == Call("done", x, e)
cb(x, e) == Call("cb", x, e)
Plain(f) == Call(f, "-", "-")

Calls ==
  {begin(x) : x \in Requests} \cup {start(x) : x \in Requests}
  \cup {continue(q) : q \in Queues} \cup {clear(q) : q \in Queues}
  \cup {done(x, e) : x \in Requests, e \in Outcomes}
  \cup {cb(x, e) : x \in Requests, e \in Outcomes}
  \cup {Plain(f) : f \in {"let_it_down", "stop_monitor", "close", "cb_disconnected",
                          "start_monitor", "cb_connected", "leave"}}

\* Socket operations: the request, what is moved (a write has no head), whether
\* the socket was open at the start.
Operations(S, parts) == [x : S, part : parts, live : BOOLEAN]

TypeOK ==
  /\ met \in BOOLEAN /\ connect \in BOOLEAN /\ open \in BOOLEAN
  /\ is_monitoring \in BOOLEAN
  /\ left \in {"not_called", "called", "returned"}
  /\ is_doing \in [Queues -> BOOLEAN]
  /\ func_list \in [Queues -> Seq(Requests)]
  /\ func_list["queue"] \in Seq(Writes)
  /\ func_list["rcv_queue"] \in Seq(Reads)
  /\ io \in [Queues -> Seq(Operations(Requests, {"head", "data"}))]
  /\ io["queue"] \in Seq(Operations(Writes, {"data"}))
  /\ io["rcv_queue"] \in Seq(Operations(Reads, {"head", "data"}))
  /\ stack \in [Threads -> Seq(Calls)]
  /\ submitted \subseteq Requests
  /\ told \in [Requests -> SUBSET Outcomes]

Idle(t) == stack[t] = <<>>

\* Thread t makes its first call; it makes the calls s in turn.
At(t, f) == stack[t] # <<>> /\ Head(stack[t]).f = f
Then(t, s) == stack' = [stack EXCEPT ![t] = s \o Tail(@)]

Init ==
  /\ met = FALSE /\ connect = FALSE /\ open = TRUE
  /\ is_monitoring = FALSE /\ left = "not_called"
  /\ is_doing = [q \in Queues |-> FALSE]
  /\ func_list = [q \in Queues |-> <<>>]
  /\ io = [q \in Queues |-> <<>>]
  /\ stack = [t \in Threads |-> <<>>]
  /\ submitted = {}
  /\ told = [x \in Requests |-> {}]

-------------------------------------------------------------------------------
(* What users call.                                                        *)

\* let_it_up: set(true), then state_changed calls connected().
let_it_up(t) ==
  /\ Idle(t) /\ ~met
  /\ met' = TRUE /\ connect' = TRUE
  /\ stack' = [stack EXCEPT ![t] = <<Plain("start_monitor"), Plain("cb_connected")>>]
  /\ UNCHANGED <<open, is_monitoring, is_doing, func_list, io, submitted, told, left>>

\* The calls snd(x) makes.  start_snd_data queues its pair twice.
SndCalls(x) ==
  IF connect THEN <<begin(x), begin(x)>>
  ELSE <<clear("queue"), clear("rcv_queue"), cb(x, "err")>>

\* The calls rcv(x) makes: start_rcv queues its pair twice.
RcvCalls(x) == <<begin(x), begin(x)>>

\* snd or rcv of a new request on thread t, whose remaining calls are rest.
Submit(t, x, rest) ==
  /\ met
  /\ x \in Requests \ submitted
  /\ submitted' = submitted \cup {x}
  /\ stack' = [stack EXCEPT ![t] =
                 (IF x \in Writes THEN SndCalls(x) ELSE RcvCalls(x)) \o rest]

Use(t, x) ==
  /\ Idle(t)
  /\ Submit(t, x, <<>>)
  /\ UNCHANGED <<met, connect, open, is_monitoring, is_doing, func_list, io, told, left>>

\* lt_session_cli::disconnect, called once (lt_session_cli_safe asserts it).
disconnect(t) ==
  /\ Idle(t) /\ met /\ left = "not_called"
  /\ left' = "called"
  /\ stack' = [stack EXCEPT ![t] = <<Plain("let_it_down"), Plain("leave")>>]
  /\ UNCHANGED <<met, connect, open, is_monitoring, is_doing, func_list, io,
                 submitted, told>>

Leave(t) ==
  /\ At(t, "leave")
  /\ left' = "returned"
  /\ Then(t, <<>>)
  /\ UNCHANGED <<met, connect, open, is_monitoring, is_doing, func_list, io,
                 submitted, told>>

\* A user callback: rcv_done, snd_done or connected.  It may use the session
\* itself, as lt_server_service's do.
UserCallback(t) ==
  \/ Then(t, <<>>) /\ UNCHANGED submitted
  \/ \E x \in Requests : Submit(t, x, Tail(stack[t]))

CallUser(t) ==
  /\ At(t, "cb")
  /\ LET c == Head(stack[t]) IN told' = [told EXCEPT ![c.x] = @ \cup {c.e}]
  /\ UserCallback(t)
  /\ UNCHANGED <<met, connect, open, is_monitoring, is_doing, func_list, io, left>>

CallConnected(t) ==
  /\ At(t, "cb_connected")
  /\ UserCallback(t)
  /\ UNCHANGED <<met, connect, open, is_monitoring, is_doing, func_list, io, told, left>>

CallDisconnected(t) ==
  /\ At(t, "cb_disconnected")
  /\ Then(t, <<>>)
  /\ UNCHANGED <<met, connect, open, is_monitoring, is_doing, func_list, io,
                 submitted, told, left>>

-------------------------------------------------------------------------------
(* The queues (lt_async_2safe_async; see SafeAsync).                       *)

begin_to(t) ==
  /\ At(t, "begin_to")
  /\ LET x == Head(stack[t]).x
         q == QueueOf(x) IN
     \/ /\ is_doing[q]
        /\ func_list' = [func_list EXCEPT ![q] = Append(@, x)]
        /\ Then(t, <<>>)
        /\ UNCHANGED is_doing
     \/ /\ ~is_doing[q]
        /\ is_doing' = [is_doing EXCEPT ![q] = TRUE]
        /\ Then(t, <<start(x)>>)
        /\ UNCHANGED func_list
  /\ UNCHANGED <<met, connect, open, is_monitoring, io, submitted, told, left>>

continue_to(t) ==
  /\ At(t, "continue_to")
  /\ LET q == Head(stack[t]).x IN
     \/ /\ func_list[q] = <<>>
        /\ is_doing' = [is_doing EXCEPT ![q] = FALSE]
        /\ Then(t, <<>>)
        /\ UNCHANGED func_list
     \/ /\ func_list[q] # <<>>
        /\ is_doing' = [is_doing EXCEPT ![q] = TRUE]
        /\ func_list' = [func_list EXCEPT ![q] = Tail(@)]
        /\ Then(t, <<start(Head(func_list[q]))>>)
  /\ UNCHANGED <<met, connect, open, is_monitoring, io, submitted, told, left>>

\* The cancelled pairs' callbacks are snd_data_done and rcv_done with an error.
clear_queue(t) ==
  /\ At(t, "clear")
  /\ LET q == Head(stack[t]).x IN
     /\ func_list' = [func_list EXCEPT ![q] = <<>>]
     /\ Then(t, [i \in DOMAIN func_list[q] |-> done(func_list[q][i], "err")])
  /\ UNCHANGED <<met, connect, open, is_monitoring, is_doing, io, submitted, told, left>>

-------------------------------------------------------------------------------
(* Socket operations.  A write has no head.                                *)

\* start_snd_data_unsafe, start_rcv_head_unsafe.
Start(t) ==
  /\ At(t, "f")
  /\ LET x == Head(stack[t]).x IN
     io' = [io EXCEPT ![QueueOf(x)] =
              Append(@, [x |-> x, part |-> IF x \in Writes THEN "data" ELSE "head",
                         live |-> open])]
  /\ Then(t, <<>>)
  /\ UNCHANGED <<met, connect, open, is_monitoring, is_doing, func_list,
                 submitted, told, left>>

\* An operation started before the close may have succeeded by then.
Results(op) == IF op.live THEN Outcomes ELSE {"err"}

\* The handler of the i-th outstanding operation of q begins on thread t.
Take(t, q, i) ==
  /\ Idle(t)
  /\ i \in DOMAIN io[q]
  /\ io' = [io EXCEPT ![q] = RemoveAt(@, i)]

\* Mutant: on an error the write handler returns without continue_to.
WriteCallsStop(x, e) ==
  IF e = "err" THEN <<done(x, e)>>
  ELSE <<done(x, e), continue("queue"), done(x, e)>>

\* Mutant: the second snd_data_done became a second continue_to.
WriteCallsTwice(x, e) == <<done(x, e), continue("queue"), continue("queue")>>

\* The calls snd_data_done_unsafe makes.
WriteCalls(x, e) == <<done(x, e), continue("queue"), done(x, e)>>

snd_data_done_unsafe(t, i, e) ==
  /\ Take(t, "queue", i)
  /\ LET op == io["queue"][i] IN
     /\ e \in Results(op)
     /\ stack' = [stack EXCEPT ![t] = WriteCalls(op.x, e)]
  /\ UNCHANGED <<met, connect, open, is_monitoring, is_doing, func_list,
                 submitted, told, left>>

\* rcv_head_done_unsafe: an error, which leaves the queue claimed; a length
\* that is refused; a length that is accepted, and the data is read.
rcv_head_done_unsafe(t, i, e) ==
  LET op == io["rcv_queue"][i] IN
  /\ i \in DOMAIN io["rcv_queue"]
  /\ op.part = "head"
  /\ e \in Results(op)
  /\ Idle(t)
  /\ \/ /\ e = "err"
        /\ io' = [io EXCEPT !["rcv_queue"] = RemoveAt(@, i)]
        /\ stack' = [stack EXCEPT ![t] = <<done(op.x, "err")>>]
     \/ /\ e = "ok"
        /\ io' = [io EXCEPT !["rcv_queue"] = RemoveAt(@, i)]
        /\ stack' = [stack EXCEPT ![t] = <<continue("rcv_queue"), done(op.x, "err")>>]
     \/ /\ e = "ok"
        /\ io' = [io EXCEPT !["rcv_queue"][i] =
                    [x |-> op.x, part |-> "data", live |-> open]]
        /\ UNCHANGED stack
  /\ UNCHANGED <<met, connect, open, is_monitoring, is_doing, func_list,
                 submitted, told, left>>

\* Mutant: after a successful read the queue is not continued.
ReadCallsStop(x, e) ==
  IF e = "err" THEN <<done(x, e), continue("rcv_queue")>> ELSE <<done(x, e)>>

\* The calls rcv_data_done_unsafe makes.
ReadCalls(x, e) == <<done(x, e), continue("rcv_queue")>>

rcv_data_done_unsafe(t, i, e) ==
  /\ Take(t, "rcv_queue", i)
  /\ LET op == io["rcv_queue"][i] IN
     /\ op.part = "data"
     /\ e \in Results(op)
     /\ stack' = [stack EXCEPT ![t] = ReadCalls(op.x, e)]
  /\ UNCHANGED <<met, connect, open, is_monitoring, is_doing, func_list,
                 submitted, told, left>>

\* Mutant: a failed read is reported without taking the session down.
DoneCallsStayUp(x, e) ==
  IF x \in Reads THEN <<cb(x, e), cb(x, "ok")>>
  ELSE IF e = "err" THEN
    <<Plain("let_it_down"), clear("queue"), clear("rcv_queue"), cb(x, "err")>>
  ELSE <<cb(x, "ok")>>

\* The calls snd_data_done and rcv_done make.  rcv_done ends with a second
\* callback, which reports success.
DoneCalls(x, e) ==
  (IF e = "err" THEN
     <<Plain("let_it_down"), clear("queue"), clear("rcv_queue"), cb(x, "err")>>
   ELSE <<cb(x, "ok")>>)
  \o (IF x \in Reads THEN <<cb(x, "ok")>> ELSE <<>>)

Done(t) ==
  /\ At(t, "done")
  /\ LET c == Head(stack[t]) IN Then(t, DoneCalls(c.x, c.e))
  /\ UNCHANGED <<met, connect, open, is_monitoring, is_doing, func_list, io,
                 submitted, told, left>>

-------------------------------------------------------------------------------
(* Going down.                                                             *)

\* The calls disconnected() makes.
DisconnectedCalls ==
  <<Plain("stop_monitor"), Plain("close"), Plain("cb_disconnected"), clear("queue"),
    Plain("stop_monitor"), clear("queue"), clear("rcv_queue")>>

\* set(false): the test and the store are under lt_safe_state's lock.
let_it_down(t) ==
  /\ At(t, "let_it_down")
  /\ connect' = FALSE
  /\ Then(t, IF connect THEN DisconnectedCalls ELSE <<>>)
  /\ UNCHANGED <<met, open, is_monitoring, is_doing, func_list, io,
                 submitted, told, left>>

Close(t) ==
  /\ At(t, "close")
  /\ open' = FALSE
  /\ Then(t, <<>>)
  /\ UNCHANGED <<met, connect, is_monitoring, is_doing, func_list, io,
                 submitted, told, left>>

\* start_monitor, and stop_monitor, which ends with handle_event().
Monitor(t) ==
  /\ \/ At(t, "start_monitor") /\ is_monitoring' = TRUE /\ Then(t, <<>>)
     \/ At(t, "stop_monitor") /\ is_monitoring' = FALSE
        /\ Then(t, <<Plain("let_it_down")>>)
  /\ UNCHANGED <<met, connect, open, is_doing, func_list, io, submitted, told, left>>

\* The timer finds the session silent: handle_event().  (When it is not
\* silent the timer is armed again, and nothing changes.)
timer_handler(t) ==
  /\ Idle(t) /\ is_monitoring
  /\ is_monitoring' = FALSE
  /\ stack' = [stack EXCEPT ![t] = <<Plain("let_it_down")>>]
  /\ UNCHANGED <<met, connect, open, is_doing, func_list, io, submitted, told, left>>

-------------------------------------------------------------------------------
\* What a thread does inside a call.
Inside(t) ==
  \/ Leave(t) \/ CallUser(t) \/ CallConnected(t) \/ CallDisconnected(t)
  \/ begin_to(t) \/ continue_to(t) \/ clear_queue(t)
  \/ Start(t) \/ Done(t) \/ let_it_down(t) \/ Close(t) \/ Monitor(t)

WriteHandler ==
  \E t \in Threads, i \in DOMAIN io["queue"], e \in Outcomes :
    snd_data_done_unsafe(t, i, e)

ReadHandler ==
  \E t \in Threads, i \in DOMAIN io["rcv_queue"], e \in Outcomes :
    rcv_head_done_unsafe(t, i, e) \/ rcv_data_done_unsafe(t, i, e)

Next ==
  \/ \E t \in Threads :
       let_it_up(t) \/ disconnect(t) \/ timer_handler(t) \/ Inside(t)
  \/ \E t \in Threads, x \in Requests : Use(t, x)
  \/ WriteHandler
  \/ ReadHandler

Spec == Init /\ [][Next]_vars

\* Threads proceed with the calls they are in, and asio runs the handler of
\* every write.  A read may wait for the peer for ever.
Fairness == (\A t \in Threads : WF_vars(Inside(t))) /\ WF_vars(WriteHandler)

FairSpec == Spec /\ Fairness

-------------------------------------------------------------------------------
(* Properties.                                                             *)

\* The call holds q: it starts an operation of q, or continues q after one.
Holds(c, q) ==
  \/ c.f = "continue_to" /\ c.x = q
  \/ c.f = "f" /\ QueueOf(c.x) = q

\* The calls to be made, by thread and place, that hold q.
Pending(q) ==
  UNION {{t} \X {k \in DOMAIN stack[t] : Holds(stack[t][k], q)} : t \in Threads}

\* Operations of q that hold the queue: about to start, outstanding, or ended
\* with their continue_to still to come.
Holders(q) == Len(io[q]) + Cardinality(Pending(q))

\* At most one read and one write are under way on the socket, and the write
\* queue is claimed exactly while one is: the handlers, with all their paths,
\* keep the caller's part of lt_async_2safe_async for writes.  (Two overlapping
\* async_writes interleave their bytes on the wire.)
OneSocketOp ==
  /\ Holders("queue") = IF is_doing["queue"] THEN 1 ELSE 0
  /\ Holders("rcv_queue") <= IF is_doing["rcv_queue"] THEN 1 ELSE 0

\* While the session is up no read is stranded: a claimed read queue has an
\* operation under way, or a thread is about to take the session down.  (The
\* error path of a read header, and no other, leaves the queue claimed.)
ReadsServedWhileUp ==
  connect /\ is_doing["rcv_queue"] =>
    \/ Holders("rcv_queue") = 1
    \/ \E t \in Threads : \E k \in DOMAIN stack[t] :
         stack[t][k].f \in {"done", "let_it_down"} /\ stack[t][k].e # "ok"

\* A user who is told of an error finds the session down, whichever thread
\* took it down and however far disconnected() has come.
ErrorMeansDown == \A x \in Requests : "err" \in told[x] => ~connect

\* Every snd is answered, across disconnects and cancellations at any point.
SndAnswered == \A x \in Writes : x \in submitted ~> told[x] # {}
=============================================================================
