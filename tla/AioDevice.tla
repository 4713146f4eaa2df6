------------------------------- MODULE AioDevice -------------------------------
(***************************************************************************)
(* libaio_device, libaio_device_service and algo_aio_device: requests are  *)
(* submitted to the kernel, which puts an event in a ring for each and     *)
(* then counts it in an eventfd.  A thread waits in epoll_wait, edge       *)
(* triggered, and posts a task per wake-up; the task (get_io) reads the    *)
(* counter and takes that many events, under mtx_ from beginning to end.   *)
(*                                                                         *)
(* The kernel's part (ring, eventfd, epoll) is external; io_submit accepts *)
(* (the code asserts it), epoll_wait and io_getevents are not interrupted. *)
(***************************************************************************)
EXTENDS Naturals, Sequences

VARIABLES
  kernel,         \* requests submitted and not finished
  ring,           \* finished requests whose event nobody has taken
  unsignalled,    \* events in the ring not yet counted in event_fd
  event_fd,       \* the eventfd's counter
  armed,          \* the eventfd has become ready since the last epoll_wait
  tasks,          \* handle_event tasks posted and not begun
  left            \* iterations left to the get_io that holds mtx_; 0: nobody

aioVars == <<kernel, ring, unsignalled, event_fd, armed, tasks, left>>

AioInit ==
  /\ kernel = {}
  /\ ring = <<>>
  /\ unsignalled = 0
  /\ event_fd = 0
  /\ armed = FALSE
  /\ tasks = 0
  /\ left = 0

\* async_read, async_write.
Submit(r) ==
  /\ kernel' = kernel \cup {r}
  /\ UNCHANGED <<ring, unsignalled, event_fd, armed, tasks, left>>

KernelFinish(r) ==
  /\ r \in kernel
  /\ kernel' = kernel \ {r}
  /\ ring' = Append(ring, r)
  /\ unsignalled' = unsignalled + 1
  /\ UNCHANGED <<event_fd, armed, tasks, left>>

KernelSignal ==
  /\ unsignalled > 0
  /\ unsignalled' = unsignalled - 1
  /\ event_fd' = event_fd + 1
  /\ armed' = TRUE
  /\ UNCHANGED <<kernel, ring, tasks, left>>

\* One round of get_epoll_event.
EpollEvent ==
  /\ armed
  /\ armed' = FALSE
  /\ tasks' = tasks + 1
  /\ UNCHANGED <<kernel, ring, unsignalled, event_fd, left>>

\* Mutant: get_io takes the counter for a flag and fetches one event.
ReadEventFdOnce ==
  /\ tasks > 0 /\ left = 0
  /\ tasks' = tasks - 1
  /\ left' = IF event_fd > 0 THEN 1 ELSE 0
  /\ event_fd' = 0
  /\ UNCHANGED <<kernel, ring, unsignalled, armed>>

\* A task takes mtx_ and reads the counter, which resets it.  A counter of zero
\* (an earlier task took the events) makes read fail and get_io return.
ReadEventFd ==
  /\ tasks > 0 /\ left = 0
  /\ tasks' = tasks - 1
  /\ left' = event_fd
  /\ event_fd' = 0
  /\ UNCHANGED <<kernel, ring, unsignalled, armed>>

\* One iteration of get_io: the event of r is taken and r is about to be
\* reported, as a success: event.res, where the kernel puts its error, is not
\* looked at.
TakeEvent(r) ==
  /\ left > 0 /\ ring # <<>>
  /\ r = Head(ring)
  /\ ring' = Tail(ring)
  /\ left' = left - 1
  /\ UNCHANGED <<kernel, unsignalled, event_fd, armed, tasks>>

AioPending == kernel \cup {ring[i] : i \in DOMAIN ring}

\* get_io never finds the ring empty, which would make it wait five seconds and
\* then report a request through an event it never got: every event still to be
\* fetched by the loop, read from the counter or signalled is in the ring, and
\* the ring holds no other.
EventsCovered == left + event_fd + unsignalled = Len(ring)
===============================================================================
