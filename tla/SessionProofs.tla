----------------------------- MODULE SessionProofs -----------------------------
(***************************************************************************)
(* For any threads, reads and writes: a queue has at most one operation    *)
(* under way on the socket, no read is stranded while the session is up,   *)
(* and a user who is told of an error finds it down.                       *)
(*                                                                         *)
(* Most steps only replace a call by the calls it makes: a thread's list   *)
(* changes at its head (Replaces), and one lemma (QuietStep) says when     *)
(* that disturbs nothing.  Each action lemma shows which case it is in.    *)
(***************************************************************************)
EXTENDS Session, SequenceTheorems, FiniteSetTheorems, TLAPS

\* The k-th call of t holds q.
Marked(t, k, q) == k \in 1 .. Len(stack[t]) /\ Holds(stack[t][k], q)

AtMostOne(q) ==
  /\ Len(io[q]) <= 1
  /\ io[q] # <<>> => \A t \in Threads, k \in Nat : ~Marked(t, k, q)
  /\ \A t, u \in Threads, k, l \in Nat :
       Marked(t, k, q) /\ Marked(u, l, q) => t = u /\ k = l

Claimed(q) == io[q] # <<>> \/ \E t \in Threads, k \in Nat : Marked(t, k, q)

\* OneSocketOp without the count.
Exclusive ==
  /\ AtMostOne("queue") /\ AtMostOne("rcv_queue")
  /\ is_doing["queue"] <=> Claimed("queue")
  /\ Claimed("rcv_queue") => is_doing["rcv_queue"]

\* A call that takes the session down, or will.
Falls(c) == c.f \in {"done", "let_it_down"} /\ c.e # "ok"

Falling == \E t \in Threads, k \in Nat : k \in 1 .. Len(stack[t]) /\ Falls(stack[t][k])

\* ReadsServedWhileUp without the count.
Served == connect /\ is_doing["rcv_queue"] => Claimed("rcv_queue") \/ Falling

TellsError(c) == c.f = "cb" /\ c.e = "err"

\* In the calls s, let_it_down comes before any callback with an error.
DownFirst(s) ==
  \A k \in 1 .. Len(s) :
    TellsError(s[k]) => \E j \in 1 .. (k - 1) : s[j].f = "let_it_down"

Guarded == connect => \A t \in Threads : DownFirst(stack[t])

\* Nothing has happened before let_it_up, which therefore happens once.
Fresh ==
  ~met =>
    /\ ~connect /\ ~is_monitoring
    /\ \A q \in Queues : ~is_doing[q] /\ func_list[q] = <<>> /\ io[q] = <<>>
    /\ \A t \in Threads : stack[t] = <<>>
    /\ \A x \in Requests : told[x] = {}

IInv == TypeOK /\ Fresh /\ Exclusive /\ Served /\ Guarded /\ ErrorMeansDown

-------------------------------------------------------------------------------
(* The shape of a call, and the change of one thread's list.               *)

\* What a call is about, by its function.
LEMMA CallKinds ==
  ASSUME NEW c \in Calls
  PROVE  /\ c.f \in {"begin_to", "f", "done", "cb"} => c.x \in Requests
         /\ c.f \in {"continue_to", "clear"} => c.x \in Queues
         /\ c.f \in {"done", "cb"} => c.e \in Outcomes
         /\ c.f \notin {"done", "cb"} => c.e = "-"
  BY DEF Calls, begin, start, continue, clear, done, cb, Plain, Call

\* The calls the code makes are calls; which of them hold a queue.
LEMMA MadeCalls ==
  /\ \A x \in Requests : begin(x) \in Calls /\ start(x) \in Calls
  /\ \A q \in Queues : continue(q) \in Calls /\ clear(q) \in Calls
  /\ \A x \in Requests, e \in Outcomes : done(x, e) \in Calls /\ cb(x, e) \in Calls
  /\ \A f \in {"let_it_down", "stop_monitor", "close", "cb_disconnected",
               "start_monitor", "cb_connected", "leave"} : Plain(f) \in Calls
  BY DEF Calls

\* Thread t drops the first d of its calls and has those of s to make instead.
Replaces(t, d, s) ==
  /\ d \in {0, 1} /\ d <= Len(stack[t])
  /\ s \in Seq(Calls)
  /\ stack' \in [Threads -> Seq(Calls)]
  /\ \A u \in Threads : u # t => stack'[u] = stack[u]
  /\ Len(stack'[t]) = Len(s) + Len(stack[t]) - d
  /\ \A k \in 1 .. Len(s) : stack'[t][k] = s[k]
  /\ \A k \in d + 1 .. Len(stack[t]) : stack'[t][k - d + Len(s)] = stack[t][k]
  /\ \A k \in Len(s) + 1 .. Len(stack'[t]) : stack'[t][k] = stack[t][k - Len(s) + d]

\* A call in progress goes on with the calls it makes.
LEMMA ThenReplaces ==
  ASSUME TypeOK, NEW t \in Threads, stack[t] # <<>>, NEW s \in Seq(Calls),
         Then(t, s)
  PROVE  Replaces(t, 1, s) /\ Len(stack[t]) >= 1 /\ Head(stack[t]) = stack[t][1]
  <1> DEFINE r == Tail(stack[t])
  <1>1. stack[t] \in Seq(Calls) /\ stack \in [Threads -> Seq(Calls)]
    BY DEF TypeOK
  <1>2. /\ r \in Seq(Calls) /\ Len(r) = Len(stack[t]) - 1
        /\ \A i \in 1 .. Len(r) : r[i] = stack[t][i + 1]
    BY <1>1, HeadTailProperties
  <1>3. Len(stack[t]) \in Nat \ {0} /\ Len(s) \in Nat
    BY <1>1, EmptySeq, LenProperties
  <1>4. stack' = [stack EXCEPT ![t] = s \o r]
    BY DEF Then
  <1> HIDE DEF r
  <1>5. /\ s \o r \in Seq(Calls) /\ Len(s \o r) = Len(s) + Len(r)
        /\ \A i \in 1 .. Len(s) + Len(r) :
             (s \o r)[i] = IF i <= Len(s) THEN s[i] ELSE r[i - Len(s)]
    BY <1>2, ConcatProperties
  <1>6. stack'[t] = s \o r /\ \A u \in Threads : u # t => stack'[u] = stack[u]
    BY <1>1, <1>4
  <1>7. stack' \in [Threads -> Seq(Calls)]
    BY <1>1, <1>4, <1>5
  <1>8. Len(stack'[t]) = Len(s) + Len(stack[t]) - 1
    BY <1>2, <1>3, <1>5, <1>6
  <1>9. \A k \in 1 .. Len(s) : stack'[t][k] = s[k]
    BY <1>2, <1>3, <1>5, <1>6
  <1>10. \A k \in 2 .. Len(stack[t]) : stack'[t][k - 1 + Len(s)] = stack[t][k]
    <2> SUFFICES ASSUME NEW k \in 2 .. Len(stack[t])
                 PROVE  stack'[t][k - 1 + Len(s)] = stack[t][k]
      OBVIOUS
    <2>1. k - 1 + Len(s) \in 1 .. Len(s) + Len(r) /\ ~(k - 1 + Len(s) <= Len(s))
      BY <1>2, <1>3
    <2>2. stack'[t][k - 1 + Len(s)] = r[k - 1]
      BY <1>3, <1>5, <1>6, <2>1
    <2> QED
      BY <1>2, <1>3, <2>2
  <1>11. \A k \in Len(s) + 1 .. Len(stack'[t]) : stack'[t][k] = stack[t][k - Len(s) + 1]
    <2> SUFFICES ASSUME NEW k \in Len(s) + 1 .. Len(stack'[t])
                 PROVE  stack'[t][k] = stack[t][k - Len(s) + 1]
      OBVIOUS
    <2>1. k \in 1 .. Len(s) + Len(r) /\ ~(k <= Len(s)) /\ k - Len(s) \in 1 .. Len(r)
      BY <1>2, <1>3, <1>8
    <2> QED
      BY <1>2, <1>5, <1>6, <2>1
  <1> QED
    BY <1>1, <1>3, <1>6, <1>7, <1>8, <1>9, <1>10, <1>11 DEF Replaces

\* An idle thread takes up the calls s.
LEMMA IdleReplaces ==
  ASSUME TypeOK, NEW t \in Threads, Idle(t), NEW s \in Seq(Calls),
         stack' = [stack EXCEPT ![t] = s]
  PROVE  Replaces(t, 0, s)
  <1>1. stack[t] = <<>> /\ stack \in [Threads -> Seq(Calls)] /\ Len(stack[t]) = 0
    BY DEF TypeOK, Idle
  <1>2. Len(s) \in Nat
    BY LenProperties
  <1> QED
    BY <1>1, <1>2 DEF Replaces

-------------------------------------------------------------------------------
(* Where the calls that hold a queue are after a step.                     *)

LEMMA LenFacts ==
  ASSUME TypeOK, NEW t \in Threads, NEW q \in Queues
  PROVE  /\ stack[t] \in Seq(Calls) /\ Len(stack[t]) \in Nat
         /\ \A k \in 1 .. Len(stack[t]) : stack[t][k] \in Calls
         /\ io[q] \in Seq(Operations(Requests, {"head", "data"})) /\ Len(io[q]) \in Nat
         /\ Len(io[q]) = 0 <=> io[q] = <<>>
         /\ func_list[q] \in Seq(Requests)
         /\ QueueOf(q) \in Queues
  BY EmptySeq, LenProperties, ElementOfSeq DEF TypeOK, QueueOf, Queues

LEMMA MarkedPrime ==
  \A t, k, q : Marked(t, k, q)' <=> k \in 1 .. Len(stack'[t]) /\ Holds(stack'[t][k], q)
  BY DEF Marked, Holds, QueueOf

\* The places of the calls that hold q, after calls s that do not.
LEMMA MarkedMoves ==
  ASSUME TypeOK, NEW t \in Threads, NEW d, NEW s, Replaces(t, d, s), NEW q \in Queues,
         \A k \in 1 .. Len(s) : ~Holds(s[k], q)
  PROVE  /\ \A u \in Threads, k \in Nat : u # t => (Marked(u, k, q)' <=> Marked(u, k, q))
         /\ \A k \in Nat : Marked(t, k, q)' =>
              /\ k - Len(s) + d \in Nat /\ Marked(t, k - Len(s) + d, q)
              /\ k - Len(s) + d > d
         /\ \A k \in Nat : Marked(t, k, q) /\ k > d =>
              k - d + Len(s) \in Nat /\ Marked(t, k - d + Len(s), q)'
  <1>1. Len(s) \in Nat /\ Len(stack[t]) \in Nat /\ d \in {0, 1} /\ Len(stack'[t]) \in Nat
    BY LenFacts, LenProperties DEF Replaces
  <1>2. \A u \in Threads, k \in Nat : u # t => (Marked(u, k, q)' <=> Marked(u, k, q))
    BY MarkedPrime DEF Marked, Replaces
  <1>3. ASSUME NEW k \in Nat, Marked(t, k, q)'
        PROVE  /\ k - Len(s) + d \in Nat /\ Marked(t, k - Len(s) + d, q)
               /\ k - Len(s) + d > d
    <2>1. k \in 1 .. Len(stack'[t]) /\ Holds(stack'[t][k], q)
      BY <1>3, MarkedPrime
    <2>2. ~(k \in 1 .. Len(s))
      BY <2>1 DEF Replaces
    <2>3. k \in Len(s) + 1 .. Len(stack'[t])
      BY <2>1, <2>2, <1>1
    <2>4. k - Len(s) + d \in 1 .. Len(stack[t]) /\ k - Len(s) + d > d
      BY SMTT(30), <2>3, <1>1 DEF Replaces
    <2> QED
      BY <2>1, <2>3, <2>4, <1>1 DEF Replaces, Marked
  <1>4. ASSUME NEW k \in Nat, Marked(t, k, q), k > d
        PROVE  k - d + Len(s) \in Nat /\ Marked(t, k - d + Len(s), q)'
    <2>1. k \in d + 1 .. Len(stack[t]) /\ Holds(stack[t][k], q)
      BY <1>4, <1>1 DEF Marked
    <2>2. stack'[t][k - d + Len(s)] = stack[t][k]
      BY <2>1 DEF Replaces
    <2>3. k - d + Len(s) \in 1 .. Len(stack'[t])
      BY <2>1, <1>1 DEF Replaces
    <2> QED
      BY <2>1, <2>2, <2>3, <1>1, MarkedPrime
  <1> QED
    BY <1>2, <1>3, <1>4

\* Neither the dropped call nor the new ones hold q, and its operations stay.
LEMMA HoldersFrame ==
  ASSUME TypeOK, NEW t \in Threads, NEW d, NEW s, Replaces(t, d, s), NEW q \in Queues,
         io'[q] = io[q],
         d = 1 => ~Holds(stack[t][1], q),
         \A k \in 1 .. Len(s) : ~Holds(s[k], q)
  PROVE  (AtMostOne(q) => AtMostOne(q)') /\ (Claimed(q)' <=> Claimed(q))
  <1>1. Len(s) \in Nat /\ Len(stack[t]) \in Nat /\ d \in {0, 1}
    BY LenFacts, LenProperties DEF Replaces
  <1>2. /\ \A u \in Threads, k \in Nat : u # t => (Marked(u, k, q)' <=> Marked(u, k, q))
        /\ \A k \in Nat : Marked(t, k, q)' =>
             k - Len(s) + d \in Nat /\ Marked(t, k - Len(s) + d, q)
        /\ \A k \in Nat : Marked(t, k, q) /\ k > d =>
             k - d + Len(s) \in Nat /\ Marked(t, k - d + Len(s), q)'
    BY MarkedMoves
  <1>3. \A k \in Nat : Marked(t, k, q) => k > d
    BY <1>1 DEF Marked
  <1>4. ASSUME NEW u \in Threads, NEW k \in Nat, Marked(u, k, q)'
        PROVE  \E l \in Nat : /\ Marked(u, l, q)
                              /\ l = IF u = t THEN k - Len(s) + d ELSE k
    BY <1>2, <1>4
  <1>5. ASSUME NEW u \in Threads, NEW k \in Nat, Marked(u, k, q)
        PROVE  \E l \in Nat : Marked(u, l, q)'
    BY <1>2, <1>3, <1>5
  <1>6. Claimed(q)' <=> Claimed(q)
    BY <1>4, <1>5 DEF Claimed
  <1>7. ASSUME AtMostOne(q) PROVE AtMostOne(q)'
    <2>1. ASSUME NEW u \in Threads, NEW v \in Threads, NEW k \in Nat, NEW l \in Nat,
                 Marked(u, k, q)', Marked(v, l, q)'
          PROVE  u = v /\ k = l
      <3>1. PICK i \in Nat : Marked(u, i, q) /\ i = IF u = t THEN k - Len(s) + d ELSE k
        BY <1>4, <2>1
      <3>2. PICK j \in Nat : Marked(v, j, q) /\ j = IF v = t THEN l - Len(s) + d ELSE l
        BY <1>4, <2>1
      <3>3. u = v /\ i = j
        BY <3>1, <3>2, <1>7 DEF AtMostOne
      <3> QED
        BY <3>1, <3>2, <3>3, <1>1
    <2>2. Len(io'[q]) <= 1
      BY <1>7 DEF AtMostOne
    <2>3. ASSUME io'[q] # <<>>, NEW u \in Threads, NEW k \in Nat PROVE ~Marked(u, k, q)'
      BY <2>3, <1>4, <1>7 DEF AtMostOne
    <2> QED
      BY <2>1, <2>2, <2>3 DEF AtMostOne
  <1> QED
    BY <1>6, <1>7

\* No call holds q, but perhaps the first d of t.
RestFree(t, d, q) ==
  \A u \in Threads, k \in Nat : Marked(u, k, q) => u = t /\ k <= d

\* The one call that holds q is made: nothing else holds it.
LEMMA OnlyHolder ==
  ASSUME TypeOK, NEW t \in Threads, NEW q \in Queues, AtMostOne(q), Len(stack[t]) >= 1,
         Holds(stack[t][1], q)
  PROVE  io[q] = <<>> /\ RestFree(t, 1, q)
  <1>1. Marked(t, 1, q)
    BY LenFacts DEF Marked
  <1> QED
    BY <1>1 DEF AtMostOne, RestFree

\* q is not held, or by the socket: no call holds it.
LEMMA NoCallHolds ==
  ASSUME NEW t \in Threads, NEW q, AtMostOne(q), ~Claimed(q) \/ io[q] # <<>>
  PROVE  RestFree(t, 0, q)
  BY DEF AtMostOne, Claimed, RestFree

\* After the step no call holds q either.
LEMMA CallsRelease ==
  ASSUME TypeOK, NEW t \in Threads, NEW d, NEW s, Replaces(t, d, s), NEW q \in Queues,
         RestFree(t, d, q),
         \A k \in 1 .. Len(s) : ~Holds(s[k], q)
  PROVE  \A u \in Threads, k \in Nat : ~Marked(u, k, q)'
  <1> SUFFICES ASSUME NEW u \in Threads, NEW k \in Nat, Marked(u, k, q)' PROVE FALSE
    OBVIOUS
  <1>1. u = t
    BY MarkedMoves DEF RestFree
  <1>2. k - Len(s) + d \in Nat /\ Marked(t, k - Len(s) + d, q) /\ k - Len(s) + d > d
    BY <1>1, MarkedMoves
  <1>3. k - Len(s) + d <= d
    BY <1>2 DEF RestFree
  <1> QED
    BY <1>2, <1>3, LenProperties DEF Replaces

LEMMA Released ==
  ASSUME TypeOK, NEW t \in Threads, NEW d, NEW s, Replaces(t, d, s), NEW q \in Queues,
         RestFree(t, d, q),
         io'[q] = <<>>,
         \A k \in 1 .. Len(s) : ~Holds(s[k], q)
  PROVE  AtMostOne(q)' /\ ~Claimed(q)'
  BY CallsRelease, EmptySeq DEF AtMostOne, Claimed

LEMMA PassedToSocket ==
  ASSUME TypeOK, NEW t \in Threads, NEW d, NEW s, Replaces(t, d, s), NEW q \in Queues,
         RestFree(t, d, q),
         Len(io'[q]) = 1, io'[q] # <<>>,
         \A k \in 1 .. Len(s) : ~Holds(s[k], q)
  PROVE  AtMostOne(q)' /\ Claimed(q)'
  BY CallsRelease DEF AtMostOne, Claimed

\* One of the new calls holds q.
LEMMA PassedToCall ==
  ASSUME TypeOK, NEW t \in Threads, NEW d, NEW s, Replaces(t, d, s), NEW q \in Queues,
         RestFree(t, d, q),
         io'[q] = <<>>,
         NEW n \in 1 .. Len(s), Holds(s[n], q),
         \A k \in 1 .. Len(s) : k # n => ~Holds(s[k], q)
  PROVE  AtMostOne(q)' /\ Claimed(q)'
  <1>1. Len(s) \in Nat /\ Len(stack[t]) \in Nat /\ Len(stack'[t]) \in Nat /\ d \in {0, 1}
    BY LenFacts, LenProperties DEF Replaces
  <1>2. n \in 1 .. Len(stack'[t]) /\ n \in Nat
    BY <1>1 DEF Replaces
  <1>3. Marked(t, n, q)'
    BY <1>2, MarkedPrime DEF Replaces
  <1>4. ASSUME NEW u \in Threads, NEW k \in Nat, Marked(u, k, q)'
        PROVE  u = t /\ k = n
    <2>0. k \in 1 .. Len(stack'[u]) /\ Holds(stack'[u][k], q)
      BY <1>4, MarkedPrime
    <2>1. u = t
      <3> SUFFICES ASSUME u # t PROVE FALSE
        OBVIOUS
      <3>1. Marked(u, k, q)
        BY <2>0 DEF Replaces, Marked
      <3> QED
        BY <3>1 DEF RestFree
    <2>2. CASE k \in 1 .. Len(s)
      BY <2>0, <2>1, <2>2 DEF Replaces
    <2>3. CASE k \in Len(s) + 1 .. Len(stack'[t])
      <3>1. Holds(stack[t][k - Len(s) + d], q)
        BY <2>0, <2>1, <2>3 DEF Replaces
      <3>2. k - Len(s) + d \in 1 .. Len(stack[t]) /\ k - Len(s) + d > d
        BY SMTT(30), <2>3, <1>1 DEF Replaces
      <3>3. Marked(t, k - Len(s) + d, q) /\ k - Len(s) + d \in Nat
        BY <3>1, <3>2 DEF Marked
      <3> QED
        BY <3>2, <3>3, <1>1 DEF RestFree
    <2> QED
      BY <2>0, <2>1, <2>2, <2>3, <1>1
  <1> QED
    BY <1>2, <1>3, <1>4, EmptySeq DEF AtMostOne, Claimed

-------------------------------------------------------------------------------
(* Served and Guarded after a step.                                        *)

\* A thread that will take the session down still will, unless it just did.
LEMMA FallingKept ==
  ASSUME TypeOK, NEW t \in Threads, NEW d, NEW s, Replaces(t, d, s), Falling,
         d = 1 /\ Falls(stack[t][1]) => \E k \in 1 .. Len(s) : Falls(s[k])
  PROVE  Falling'
  <1>0. \A u, k : Falls(stack[u][k])' <=> Falls(stack'[u][k])
    BY DEF Falls
  <1>1. Len(s) \in Nat /\ Len(stack[t]) \in Nat /\ Len(stack'[t]) \in Nat /\ d \in {0, 1}
    BY LenFacts, LenProperties DEF Replaces
  <1>2. PICK u \in Threads, k \in Nat : k \in 1 .. Len(stack[u]) /\ Falls(stack[u][k])
    BY DEF Falling
  <1>3. CASE u # t
    BY <1>0, <1>2, <1>3 DEF Replaces, Falling
  <1>4. CASE u = t /\ k <= d
    <2>1. d = 1 /\ k = 1
      BY <1>1, <1>2, <1>4
    <2>2. PICK j \in 1 .. Len(s) : Falls(s[j])
      BY <1>2, <1>4, <2>1
    <2>3. j \in Nat /\ j \in 1 .. Len(stack'[t]) /\ stack'[t][j] = s[j]
      BY <1>1, <1>2, <1>4 DEF Replaces
    <2> QED
      BY <1>0, <2>2, <2>3 DEF Falling
  <1>5. CASE u = t /\ k > d
    <2> DEFINE j == k - d + Len(s)
    <2>1. stack'[t][j] = stack[t][k]
      BY <1>1, <1>2, <1>5 DEF Replaces
    <2>2. j \in Nat /\ j \in 1 .. Len(stack'[t])
      BY SMTT(30), <1>1, <1>2, <1>5 DEF Replaces
    <2> QED
      BY <1>0, <1>2, <1>5, <2>1, <2>2 DEF Falling
  <1> QED
    BY <1>1, <1>3, <1>4, <1>5

\* A list whose new calls are safe, and that has not lost a let_it_down, is safe.
LEMMA GuardedKept ==
  ASSUME TypeOK, NEW t \in Threads, NEW d, NEW s, Replaces(t, d, s), Guarded,
         connect' => /\ connect
                     /\ DownFirst(s)
                     /\ d = 1 => stack[t][1].f # "let_it_down"
  PROVE  Guarded'
  <1> SUFFICES ASSUME connect', NEW u \in Threads, NEW k \in 1 .. Len(stack'[u]),
                      TellsError(stack'[u][k])
               PROVE  \E j \in 1 .. (k - 1) : stack'[u][j].f = "let_it_down"
    BY DEF Guarded, DownFirst, TellsError
  <1>1. Len(s) \in Nat /\ Len(stack[t]) \in Nat /\ Len(stack'[t]) \in Nat /\ d \in {0, 1}
    BY LenFacts, LenProperties DEF Replaces
  <1>2. DownFirst(stack[u]) /\ DownFirst(stack[t]) /\ DownFirst(s)
    BY DEF Guarded
  <1>3. CASE u # t
    BY ZenonT(60), <1>2, <1>3 DEF Replaces, DownFirst
  <1>4. CASE u = t /\ k <= Len(s)
    <2>1. PICK j \in 1 .. (k - 1) : s[j].f = "let_it_down"
      BY <1>1, <1>2, <1>4 DEF Replaces, DownFirst
    <2>2. stack'[t][j] = s[j]
      BY <1>1, <1>4 DEF Replaces
    <2> QED
      BY <1>4, <2>1, <2>2
  <1>5. CASE u = t /\ k > Len(s)
    <2> DEFINE i == k - Len(s) + d
    <2>1. stack'[t][k] = stack[t][i]
      BY <1>1, <1>5 DEF Replaces
    <2>2. i \in 1 .. Len(stack[t])
      BY <1>1, <1>5 DEF Replaces
    <2>3. PICK j \in 1 .. (i - 1) : stack[t][j].f = "let_it_down"
      BY <1>2, <1>5, <2>1, <2>2 DEF DownFirst
    <2>4. j > d
      BY <1>1, <2>3
    <2>5. stack'[t][j - d + Len(s)] = stack[t][j]
      BY SMTT(30), <1>1, <2>2, <2>3, <2>4 DEF Replaces
    <2>6. j - d + Len(s) \in 1 .. (k - 1)
      BY SMTT(30), <1>1, <1>5, <2>3, <2>4
    <2> QED
      BY <1>5, <2>3, <2>5, <2>6
  <1> QED
    BY <1>1, <1>3, <1>4, <1>5

\* A call that is neither continue_to nor f holds no queue.
HoldsNone(c) == c.f \notin {"continue_to", "f"}

LEMMA HoldsNoneFact == \A c, q : HoldsNone(c) => ~Holds(c, q)
  BY DEF HoldsNone, Holds

\* A step that touches neither claims nor operations, drops no call that holds a
\* queue or takes the session down, and makes none that holds one or tells an
\* error the session has not been taken down for.
LEMMA QuietStep ==
  ASSUME IInv, NEW t \in Threads, NEW d, NEW s, Replaces(t, d, s),
         UNCHANGED <<is_doing, io>>,
         d = 1 => HoldsNone(stack[t][1]),
         \A k \in 1 .. Len(s) : HoldsNone(s[k]),
         connect' => /\ connect
                     /\ DownFirst(s)
                     /\ d = 1 => stack[t][1].f # "let_it_down"
                     /\ d = 1 /\ Falls(stack[t][1]) => \E k \in 1 .. Len(s) : Falls(s[k])
  PROVE  Exclusive' /\ Served' /\ Guarded'
  <1> USE DEF IInv
  <1>1. /\ d = 1 => \A q : ~Holds(stack[t][1], q)
        /\ \A k \in 1 .. Len(s) : \A q : ~Holds(s[k], q)
    BY HoldsNoneFact
  <1>2. ASSUME NEW q \in Queues
        PROVE  (AtMostOne(q) => AtMostOne(q)') /\ (Claimed(q)' <=> Claimed(q))
    <2>1. io'[q] = io[q] /\ TypeOK
      OBVIOUS
    <2>2. d = 1 => ~Holds(stack[t][1], q)
      BY <1>1
    <2>3. \A k \in 1 .. Len(s) : ~Holds(s[k], q)
      BY <1>1
    <2> QED
      BY <2>1, <2>2, <2>3, HoldersFrame
  <1>3. Exclusive'
    BY <1>2 DEF Exclusive, Queues
  <1>4. Served'
    <2> SUFFICES ASSUME connect', is_doing'["rcv_queue"]
                 PROVE  Claimed("rcv_queue")' \/ Falling'
      BY DEF Served
    <2>1. connect /\ is_doing["rcv_queue"]
      OBVIOUS
    <2>2. CASE Claimed("rcv_queue")
      BY <2>2, <1>2 DEF Queues
    <2>3. CASE Falling
      BY <2>1, <2>3, FallingKept
    <2> QED
      BY <2>1, <2>2, <2>3 DEF Served
  <1>5. Guarded'
    BY GuardedKept
  <1> QED
    BY <1>3, <1>4, <1>5

\* Nobody is told of an error, and a session down stays so.
LEMMA ToldFrame ==
  ASSUME ErrorMeansDown, told' = told, connect' => connect
  PROVE  ErrorMeansDown'
  BY DEF ErrorMeansDown

\* Until let_it_up every thread is idle.
LEMMA BusyMet ==
  ASSUME Fresh
  PROVE  /\ \A t \in Threads : stack[t] # <<>> => met
         /\ \A q \in Queues : io[q] # <<>> => met
         /\ is_monitoring => met
  BY DEF Fresh

LEMMA MetFresh == met' => Fresh'
  BY DEF Fresh

-------------------------------------------------------------------------------
LEMMA InitIInv == Init => IInv
  <1> SUFFICES ASSUME Init PROVE IInv
    OBVIOUS
  <1> USE DEF Init
  <1>0. \A S : <<>> \in Seq(S) /\ Len(<<>>) = 0
    BY EmptySeq
  <1>1. TypeOK
    BY <1>0 DEF TypeOK, Queues
  <1>2. Fresh
    BY DEF Fresh
  <1>3. \A t, k, q : t \in Threads => ~Marked(t, k, q)
    BY <1>0 DEF Marked
  <1>4. \A q \in Queues : AtMostOne(q) /\ ~Claimed(q)
    BY <1>0, <1>3 DEF AtMostOne, Claimed
  <1>5. Exclusive
    BY <1>4 DEF Exclusive, Queues
  <1>6. Served /\ Guarded /\ ErrorMeansDown
    BY DEF Served, Guarded, ErrorMeansDown
  <1> QED
    BY <1>1, <1>2, <1>5, <1>6 DEF IInv

\* set(true): nothing is under way yet.
LEMMA LetItUpIInv ==
  ASSUME IInv, NEW t \in Threads, let_it_up(t)
  PROVE  IInv'
  <1> DEFINE s == <<Plain("start_monitor"), Plain("cb_connected")>>
  <1> USE DEF IInv, let_it_up
  <1>0. s \in Seq(Calls) /\ Len(s) = 2 /\ stack' = [stack EXCEPT ![t] = s]
    BY MadeCalls
  <1>a. /\ s[1].f = "start_monitor" /\ s[2].f = "cb_connected"
        /\ \A k \in 1 .. Len(s) : k = 1 \/ k = 2
    BY DEF Plain, Call
  <1> HIDE DEF s
  <1>1. Replaces(t, 0, s)
    BY <1>0, IdleReplaces
  <1>2. \A k \in 1 .. Len(s) : HoldsNone(s[k]) /\ ~TellsError(s[k])
    BY <1>a DEF HoldsNone, TellsError
  <1>3. \A q \in Queues : (AtMostOne(q) => AtMostOne(q)') /\ (Claimed(q)' <=> Claimed(q))
    BY <1>1, <1>2, HoldsNoneFact, HoldersFrame
  <1>4. TypeOK'
    BY <1>1 DEF TypeOK, Replaces
  <1>5. Exclusive' /\ Served'
    BY <1>3 DEF Exclusive, Served, Fresh, Queues
  <1>6. Guarded'
    <2>1. \A u \in Threads : stack'[u] = IF u = t THEN s ELSE <<>>
      BY <1>0 DEF Fresh, TypeOK
    <2>2. DownFirst(s) /\ DownFirst(<<>>)
      BY <1>2, EmptySeq DEF DownFirst
    <2> QED
      BY <2>1, <2>2 DEF Guarded, DownFirst, TellsError
  <1>7. ErrorMeansDown'
    BY DEF ErrorMeansDown, Fresh
  <1> QED
    BY <1>4, <1>5, <1>6, <1>7, MetFresh

-------------------------------------------------------------------------------
(* What users call, and their callbacks.                                   *)

\* The call a thread makes next, and its list without it.
LEMMA AtHead ==
  ASSUME TypeOK, NEW t \in Threads, stack[t] # <<>>
  PROVE  /\ Len(stack[t]) >= 1 /\ 1 \in 1 .. Len(stack[t])
         /\ Head(stack[t]) = stack[t][1] /\ stack[t][1] \in Calls
         /\ \A s \in Seq(Calls) : Then(t, s) => Replaces(t, 1, s)
  <1>1. stack[t] \in Seq(Calls) /\ Len(stack[t]) \in Nat \ {0}
    BY EmptySeq DEF TypeOK
  <1>2. Head(stack[t]) = stack[t][1]
    BY <1>1
  <1> QED
    BY <1>1, <1>2, ThenReplaces, ElementOfSeq

\* The calls a user makes of the session for a new request.
UserCalls(x) == IF x \in Writes THEN SndCalls(x) ELSE RcvCalls(x)

LEMMA UserCallsQuiet ==
  ASSUME NEW x \in Requests
  PROVE  /\ UserCalls(x) \in Seq(Calls)
         /\ \A k \in 1 .. Len(UserCalls(x)) : HoldsNone(UserCalls(x)[k])
         /\ connect => DownFirst(UserCalls(x))
  <1>1. CASE UserCalls(x) = <<begin(x), begin(x)>>
    <2> DEFINE s == <<begin(x), begin(x)>>
    <2>1. s \in Seq(Calls) /\ Len(s) = 2
      BY MadeCalls
    <2>2. s[1].f = "begin_to" /\ s[2].f = "begin_to"
      BY DEF begin, Call
    <2> HIDE DEF s
    <2>3. \A k \in 1 .. Len(s) : k = 1 \/ k = 2
      BY <2>1
    <2> QED
      BY <1>1, <2>1, <2>2, <2>3 DEF HoldsNone, DownFirst, TellsError, s
  <1>2. CASE ~connect /\ UserCalls(x) = <<clear("queue"), clear("rcv_queue"), cb(x, "err")>>
    <2> DEFINE s == <<clear("queue"), clear("rcv_queue"), cb(x, "err")>>
    <2>1. s \in Seq(Calls) /\ Len(s) = 3
      BY MadeCalls DEF Queues, Outcomes
    <2>2. s[1].f = "clear" /\ s[2].f = "clear" /\ s[3].f = "cb"
      BY DEF clear, cb, Call
    <2> HIDE DEF s
    <2>3. \A k \in 1 .. Len(s) : k = 1 \/ k = 2 \/ k = 3
      BY <2>1
    <2> QED
      BY <1>2, <2>1, <2>2, <2>3 DEF HoldsNone, s
  <1> QED
    BY <1>1, <1>2 DEF UserCalls, SndCalls, RcvCalls

LEMMA UseIInv ==
  ASSUME IInv, NEW t \in Threads, NEW x \in Requests, Use(t, x)
  PROVE  IInv'
  <1> USE DEF IInv, Use
  <1> DEFINE s == UserCalls(x)
  <1>1. s \in Seq(Calls) /\ (\A k \in 1 .. Len(s) : HoldsNone(s[k])) /\ (connect => DownFirst(s))
    BY UserCallsQuiet
  <1>2. stack' = [stack EXCEPT ![t] = s]
    BY <1>1, ConcatEmptySeq DEF Submit, UserCalls
  <1> HIDE DEF s
  <1>3. Replaces(t, 0, s)
    BY <1>1, <1>2, IdleReplaces
  <1>4. Exclusive' /\ Served' /\ Guarded'
    BY <1>1, <1>3, QuietStep
  <1>5. TypeOK'
    BY <1>3 DEF TypeOK, Submit, Replaces
  <1> QED
    BY <1>4, <1>5, ToldFrame, MetFresh DEF Submit

LEMMA DisconnectIInv ==
  ASSUME IInv, NEW t \in Threads, disconnect(t)
  PROVE  IInv'
  <1> USE DEF IInv, disconnect
  <1> DEFINE s == <<Plain("let_it_down"), Plain("leave")>>
  <1>1. s \in Seq(Calls) /\ Len(s) = 2 /\ stack' = [stack EXCEPT ![t] = s]
    BY MadeCalls
  <1>2. s[1].f = "let_it_down" /\ s[2].f = "leave"
    BY DEF Plain, Call
  <1> HIDE DEF s
  <1>3. Replaces(t, 0, s)
    BY <1>1, IdleReplaces
  <1>4. \A k \in 1 .. Len(s) : HoldsNone(s[k]) /\ ~TellsError(s[k])
    BY <1>1, <1>2 DEF HoldsNone, TellsError
  <1>5. Exclusive' /\ Served' /\ Guarded'
    BY <1>3, <1>4, QuietStep DEF DownFirst
  <1>6. TypeOK'
    BY <1>3 DEF TypeOK, Replaces
  <1> QED
    BY <1>5, <1>6, ToldFrame, MetFresh

\* The calls a callback of the user makes.
LEMMA CallbackCalls ==
  ASSUME TypeOK, NEW t \in Threads, stack[t] # <<>>, UserCallback(t)
  PROVE  /\ submitted' \subseteq Requests
         /\ \E s : /\ Replaces(t, 1, s)
                   /\ \A k \in 1 .. Len(s) : HoldsNone(s[k])
                   /\ connect => DownFirst(s)
  <1>1. CASE Then(t, <<>>) /\ UNCHANGED submitted
    <2>1. Replaces(t, 1, <<>>)
      BY <1>1, AtHead, EmptySeq
    <2>2. Len(<<>>) = 0
      BY EmptySeq
    <2>3. (\A k \in 1 .. Len(<<>>) : HoldsNone(<<>>[k])) /\ DownFirst(<<>>)
      BY <2>2 DEF DownFirst
    <2> QED
      BY <1>1, <2>1, <2>3 DEF TypeOK
  <1>2. CASE \E x \in Requests : Submit(t, x, Tail(stack[t]))
    <2> PICK x \in Requests : Submit(t, x, Tail(stack[t]))
      BY <1>2
    <2>1. Then(t, UserCalls(x))
      BY DEF Submit, Then, UserCalls
    <2>2. Replaces(t, 1, UserCalls(x))
      BY <2>1, AtHead, UserCallsQuiet
    <2> QED
      BY <2>2, UserCallsQuiet DEF Submit, TypeOK
  <1> QED
    BY <1>1, <1>2 DEF UserCallback

LEMMA CallUserIInv ==
  ASSUME IInv, NEW t \in Threads, CallUser(t)
  PROVE  IInv'
  <1> USE DEF IInv, CallUser, At
  <1> DEFINE c == stack[t][1]
  <1>1. c \in Calls /\ c.f = "cb" /\ Head(stack[t]) = c /\ 1 \in 1 .. Len(stack[t])
    BY AtHead
  <1>2. c.x \in Requests /\ c.e \in Outcomes
    BY <1>1, CallKinds
  <1>3. submitted' \subseteq Requests
    BY CallbackCalls
  <1>4. PICK s : /\ Replaces(t, 1, s)
                 /\ \A k \in 1 .. Len(s) : HoldsNone(s[k])
                 /\ connect => DownFirst(s)
    BY CallbackCalls
  <1>5. Exclusive' /\ Served' /\ Guarded'
    BY <1>1, <1>4, QuietStep DEF HoldsNone, Falls
  <1>6. told' = [told EXCEPT ![c.x] = @ \cup {c.e}]
    BY <1>1
  <1>7. TypeOK'
    BY <1>2, <1>3, <1>4, <1>6 DEF TypeOK, Replaces
  <1>8. c.e = "err" => ~connect
    BY <1>1 DEF Guarded, DownFirst, TellsError
  <1>9. ErrorMeansDown'
    BY <1>2, <1>6, <1>8 DEF ErrorMeansDown, TypeOK
  <1> QED
    BY <1>5, <1>7, <1>9, BusyMet, MetFresh

LEMMA CallConnectedIInv ==
  ASSUME IInv, NEW t \in Threads, CallConnected(t)
  PROVE  IInv'
  <1> USE DEF IInv, CallConnected, At
  <1>1. stack[t][1].f = "cb_connected"
    BY AtHead
  <1>2. submitted' \subseteq Requests
    BY CallbackCalls
  <1>3. PICK s : /\ Replaces(t, 1, s)
                 /\ \A k \in 1 .. Len(s) : HoldsNone(s[k])
                 /\ connect => DownFirst(s)
    BY CallbackCalls
  <1>4. Exclusive' /\ Served' /\ Guarded'
    BY <1>1, <1>3, QuietStep DEF HoldsNone, Falls
  <1>5. TypeOK'
    BY <1>2, <1>3 DEF TypeOK, Replaces
  <1> QED
    BY <1>4, <1>5, ToldFrame, BusyMet, MetFresh

-------------------------------------------------------------------------------
(* Going down.                                                             *)

LEMMA NoCalls == <<>> \in Seq(Calls) /\ \A k : k \notin 1 .. Len(<<>>)
  <1>1. <<>> \in Seq(Calls) /\ Len(<<>>) = 0
    BY EmptySeq
  <1> QED
    BY <1>1

\* A call that makes no others, and is not one of those that matter.
LEMMA LastCall ==
  ASSUME IInv, NEW t \in Threads, NEW f, At(t, f), Then(t, <<>>),
         f \notin {"continue_to", "f", "done", "let_it_down"},
         UNCHANGED <<is_doing, io, connect>>
  PROVE  /\ \E s : Replaces(t, 1, s)
         /\ met
         /\ Exclusive' /\ Served' /\ Guarded'
  <1> USE DEF IInv, At
  <1>1. stack[t][1].f = f
    BY AtHead
  <1>2. Replaces(t, 1, <<>>)
    BY NoCalls, AtHead
  <1>3. HoldsNone(stack[t][1]) /\ ~Falls(stack[t][1])
    BY <1>1 DEF HoldsNone, Falls
  <1>4. Exclusive' /\ Served' /\ Guarded'
    BY <1>1, <1>2, <1>3, NoCalls, QuietStep DEF DownFirst
  <1> QED
    BY <1>2, <1>4, BusyMet

\* A step that makes the one call let_it_down.
LEMMA FallStep ==
  ASSUME IInv, NEW t \in Threads, NEW d, Replaces(t, d, <<Plain("let_it_down")>>),
         d = 1 => stack[t][1].f = "stop_monitor",
         UNCHANGED <<is_doing, io, connect>>
  PROVE  Exclusive' /\ Served' /\ Guarded'
  <1> DEFINE s == <<Plain("let_it_down")>>
  <1>1. Len(s) = 1 /\ s[1].f = "let_it_down"
    BY DEF Plain, Call
  <1> HIDE DEF s
  <1>2. \A k \in 1 .. Len(s) : HoldsNone(s[k]) /\ ~TellsError(s[k])
    BY <1>1 DEF HoldsNone, TellsError
  <1>3. d = 1 => HoldsNone(stack[t][1]) /\ ~Falls(stack[t][1])
    BY DEF HoldsNone, Falls
  <1>4. Replaces(t, d, s)
    BY DEF s
  <1> QED
    BY <1>2, <1>3, <1>4, QuietStep DEF DownFirst

LEMMA LeaveIInv ==
  ASSUME IInv, NEW t \in Threads, Leave(t)
  PROVE  IInv'
  <1> USE DEF Leave
  <1>1. (\E s : Replaces(t, 1, s)) /\ met /\ Exclusive' /\ Served' /\ Guarded'
    BY LastCall
  <1>2. TypeOK'
    BY <1>1 DEF IInv, TypeOK, Replaces
  <1> QED
    BY <1>1, <1>2, ToldFrame, MetFresh DEF IInv

LEMMA CallDisconnectedIInv ==
  ASSUME IInv, NEW t \in Threads, CallDisconnected(t)
  PROVE  IInv'
  <1> USE DEF CallDisconnected
  <1>1. (\E s : Replaces(t, 1, s)) /\ met /\ Exclusive' /\ Served' /\ Guarded'
    BY LastCall
  <1>2. TypeOK'
    BY <1>1 DEF IInv, TypeOK, Replaces
  <1> QED
    BY <1>1, <1>2, ToldFrame, MetFresh DEF IInv

LEMMA CloseIInv ==
  ASSUME IInv, NEW t \in Threads, Close(t)
  PROVE  IInv'
  <1> USE DEF Close
  <1>1. (\E s : Replaces(t, 1, s)) /\ met /\ Exclusive' /\ Served' /\ Guarded'
    BY LastCall
  <1>2. TypeOK'
    BY <1>1 DEF IInv, TypeOK, Replaces
  <1> QED
    BY <1>1, <1>2, ToldFrame, MetFresh DEF IInv

LEMMA MonitorIInv ==
  ASSUME IInv, NEW t \in Threads, Monitor(t)
  PROVE  IInv'
  <1> USE DEF Monitor
  <1>1. CASE At(t, "start_monitor") /\ is_monitoring' = TRUE /\ Then(t, <<>>)
    <2>1. (\E s : Replaces(t, 1, s)) /\ met /\ Exclusive' /\ Served' /\ Guarded'
      BY <1>1, LastCall
    <2>2. TypeOK'
      BY <1>1, <2>1 DEF IInv, TypeOK, Replaces
    <2> QED
      BY <2>1, <2>2, ToldFrame, MetFresh DEF IInv
  <1>2. CASE /\ At(t, "stop_monitor") /\ is_monitoring' = FALSE
             /\ Then(t, <<Plain("let_it_down")>>)
    <2>1. <<Plain("let_it_down")>> \in Seq(Calls)
      BY MadeCalls
    <2>2. Replaces(t, 1, <<Plain("let_it_down")>>) /\ stack[t][1].f = "stop_monitor"
      BY <1>2, <2>1, AtHead DEF IInv, At
    <2>3. Exclusive' /\ Served' /\ Guarded'
      BY <2>2, FallStep
    <2>4. TypeOK'
      BY <1>2, <2>2 DEF IInv, TypeOK, Replaces
    <2>5. met
      BY <1>2, BusyMet DEF IInv, At
    <2> QED
      BY <2>3, <2>4, <2>5, ToldFrame, MetFresh DEF IInv
  <1> QED
    BY <1>1, <1>2

LEMMA TimerIInv ==
  ASSUME IInv, NEW t \in Threads, timer_handler(t)
  PROVE  IInv'
  <1> USE DEF IInv, timer_handler
  <1>1. <<Plain("let_it_down")>> \in Seq(Calls)
    BY MadeCalls
  <1>2. Replaces(t, 0, <<Plain("let_it_down")>>)
    BY <1>1, IdleReplaces
  <1>3. Exclusive' /\ Served' /\ Guarded'
    BY <1>2, FallStep
  <1>4. TypeOK'
    BY <1>2 DEF TypeOK, Replaces
  <1> QED
    BY <1>3, <1>4, ToldFrame, BusyMet, MetFresh

LEMMA DisconnectedCallsQuiet ==
  /\ DisconnectedCalls \in Seq(Calls)
  /\ \A k \in 1 .. Len(DisconnectedCalls) : HoldsNone(DisconnectedCalls[k])
  <1> DEFINE s == DisconnectedCalls
  <1>1. s \in Seq(Calls) /\ Len(s) = 7
    BY MadeCalls DEF DisconnectedCalls, Queues
  <1>2. /\ s[1].f = "stop_monitor" /\ s[2].f = "close" /\ s[3].f = "cb_disconnected"
        /\ s[4].f = "clear" /\ s[5].f = "stop_monitor" /\ s[6].f = "clear"
        /\ s[7].f = "clear"
    BY DEF DisconnectedCalls, Plain, clear, Call
  <1> HIDE DEF s
  <1>3. \A k \in 1 .. Len(s) :
          k = 1 \/ k = 2 \/ k = 3 \/ k = 4 \/ k = 5 \/ k = 6 \/ k = 7
    BY <1>1
  <1>4. \A k \in 1 .. Len(s) : HoldsNone(s[k])
    BY <1>2, <1>3 DEF HoldsNone
  <1> QED
    BY <1>1, <1>4 DEF s

LEMMA LetItDownIInv ==
  ASSUME IInv, NEW t \in Threads, let_it_down(t)
  PROVE  IInv'
  <1> USE DEF IInv, let_it_down, At
  <1> DEFINE s == IF connect THEN DisconnectedCalls ELSE <<>>
  <1>1. s \in Seq(Calls) /\ \A k \in 1 .. Len(s) : HoldsNone(s[k])
    BY NoCalls, DisconnectedCallsQuiet
  <1>2. Then(t, s)
    OBVIOUS
  <1> HIDE DEF s
  <1>3. Replaces(t, 1, s) /\ stack[t][1].f = "let_it_down"
    BY <1>1, <1>2, AtHead
  <1>4. HoldsNone(stack[t][1]) /\ ~connect'
    BY <1>3 DEF HoldsNone
  <1>5. Exclusive' /\ Served' /\ Guarded'
    BY <1>1, <1>3, <1>4, QuietStep
  <1>6. TypeOK'
    BY <1>3 DEF TypeOK, Replaces
  <1>7. ErrorMeansDown'
    BY ToldFrame
  <1> QED
    BY <1>5, <1>6, <1>7, BusyMet, MetFresh

-------------------------------------------------------------------------------
(* The queues and the socket operations.                                   *)

LEMMA FallsNow ==
  ASSUME NEW t \in Threads, NEW d, NEW s, Replaces(t, d, s), TypeOK,
         NEW k \in 1 .. Len(s), Falls(s[k])
  PROVE  Falling'
  <1>1. Len(s) \in Nat /\ Len(stack[t]) \in Nat /\ d \in {0, 1}
    BY LenFacts, LenProperties DEF Replaces
  <1>2. k \in Nat /\ k \in 1 .. Len(stack'[t]) /\ stack'[t][k] = s[k]
    BY <1>1 DEF Replaces
  <1> QED
    BY <1>2 DEF Falling, Falls

\* A step on queue q alone, after which what holds it and its flag agree.
LEMMA StepOnQueue ==
  ASSUME IInv, NEW t \in Threads, NEW d, NEW s, Replaces(t, d, s), NEW q \in Queues,
         AtMostOne(q)', Claimed(q)' => is_doing'[q],
         is_doing'[q] => \/ Claimed(q)'
                         \/ q = "rcv_queue" /\ \E k \in 1 .. Len(s) : Falls(s[k]),
         connect' = connect,
         \A p \in Queues : p # q => io'[p] = io[p] /\ is_doing'[p] = is_doing[p],
         \A p \in Queues : p # q /\ d = 1 => ~Holds(stack[t][1], p),
         \A p \in Queues, k \in 1 .. Len(s) : p # q => ~Holds(s[k], p),
         d = 1 => stack[t][1].f # "let_it_down" /\ ~Falls(stack[t][1]),
         \A k \in 1 .. Len(s) : ~TellsError(s[k])
  PROVE  Exclusive' /\ Served' /\ Guarded'
  <1> USE DEF IInv
  <1>1. \A p \in Queues : p # q =>
          (AtMostOne(p) => AtMostOne(p)') /\ (Claimed(p)' <=> Claimed(p))
    BY HoldersFrame
  <1>2. Exclusive'
    BY <1>1 DEF Exclusive, Queues
  <1>3. Falling => Falling'
    BY FallingKept
  <1>4. (\E k \in 1 .. Len(s) : Falls(s[k])) => Falling'
    BY FallsNow
  <1>5. Served'
    BY <1>1, <1>3, <1>4 DEF Served, Queues
  <1>6. Guarded'
    BY GuardedKept DEF DownFirst
  <1> QED
    BY <1>2, <1>5, <1>6

LEMMA QueueOfFacts ==
  ASSUME NEW x \in Requests
  PROVE  /\ QueueOf(x) \in Queues
         /\ QueueOf(x) = "queue" => x \in Writes
         /\ QueueOf(x) = "rcv_queue" => x \in Reads
         /\ start(x) \in Calls /\ start(x).f = "f" /\ start(x).x = x /\ start(x).e = "-"
         /\ \A q : Holds(start(x), q) <=> q = QueueOf(x)
  BY MadeCalls DEF QueueOf, Queues, Requests, Holds, start, Call

\* A list of one call.
LEMMA OneCall ==
  ASSUME NEW c \in Calls
  PROVE  /\ <<c>> \in Seq(Calls) /\ Len(<<c>>) = 1 /\ <<c>>[1] = c
         /\ \A k \in 1 .. Len(<<c>>) : k = 1
  OBVIOUS

\* Nothing else holds the queue: the step starts its next operation.
LEMMA StartStep ==
  ASSUME IInv, NEW t \in Threads, NEW x \in Requests, stack[t] # <<>>,
         Then(t, <<start(x)>>), RestFree(t, 1, QueueOf(x)), UNCHANGED <<io, connect>>,
         io[QueueOf(x)] = <<>>,
         is_doing' = [is_doing EXCEPT ![QueueOf(x)] = TRUE],
         stack[t][1].f \notin {"let_it_down", "done"},
         \A p \in Queues : p # QueueOf(x) => ~Holds(stack[t][1], p)
  PROVE  (\E s : Replaces(t, 1, s)) /\ Exclusive' /\ Served' /\ Guarded'
  <1> USE DEF IInv
  <1> DEFINE s == <<start(x)>>
             q == QueueOf(x)
  <1>1. /\ s \in Seq(Calls) /\ Len(s) = 1 /\ s[1] = start(x)
        /\ \A k \in 1 .. Len(s) : k = 1
    BY QueueOfFacts, OneCall
  <1>2. q \in Queues /\ (\A p : Holds(s[1], p) <=> p = q) /\ ~TellsError(s[1])
    BY <1>1, QueueOfFacts DEF TellsError
  <1>3. Then(t, s)
    OBVIOUS
  <1> HIDE DEF s, q
  <1>4. Replaces(t, 1, s)
    BY <1>1, <1>3, AtHead
  <1>5. AtMostOne(q)' /\ Claimed(q)'
    <2>1. RestFree(t, 1, q) /\ io'[q] = <<>>
      BY DEF q
    <2>2. 1 \in 1 .. Len(s) /\ Holds(s[1], q)
      BY <1>1, <1>2
    <2>3. \A k \in 1 .. Len(s) : k # 1 => ~Holds(s[k], q)
      BY <1>1
    <2> QED
      BY <1>2, <1>4, <2>1, <2>2, <2>3, PassedToCall
  <1>6. is_doing'[q] /\ \A p \in Queues : p # q => is_doing'[p] = is_doing[p]
    BY <1>2 DEF TypeOK, q
  <1>7. \A p \in Queues : p # q =>
          ~Holds(stack[t][1], p) /\ \A k \in 1 .. Len(s) : ~Holds(s[k], p)
    BY <1>1, <1>2 DEF q
  <1>8. ~Falls(stack[t][1]) /\ \A k \in 1 .. Len(s) : ~TellsError(s[k])
    BY <1>1, <1>2 DEF Falls
  <1>9. \A p \in Queues : p # q => io'[p] = io[p] /\ is_doing'[p] = is_doing[p]
    BY <1>6
  <1>10. q \in Queues
    BY <1>2
  <1> HIDE DEF IInv
  <1>11. Exclusive' /\ Served' /\ Guarded'
    BY <1>4, <1>5, <1>6, <1>7, <1>8, <1>9, <1>10, StepOnQueue
  <1> QED
    BY <1>4, <1>11

LEMMA BeginToIInv ==
  ASSUME IInv, NEW t \in Threads, begin_to(t)
  PROVE  IInv'
  <1> USE DEF IInv, begin_to, At
  <1> DEFINE x == stack[t][1].x
             q == QueueOf(x)
  <1>1. stack[t][1].f = "begin_to" /\ stack[t][1] \in Calls /\ Head(stack[t]) = stack[t][1]
    BY AtHead
  <1>2. x \in Requests
    BY SMTT(30), <1>1, CallKinds
  <1>3. HoldsNone(stack[t][1]) /\ ~Falls(stack[t][1]) /\ stack[t][1].f # "let_it_down"
    BY SMTT(30), <1>1 DEF HoldsNone, Falls
  <1>4. q \in Queues
    BY SMTT(30), <1>2, QueueOfFacts
  <1>5. CASE /\ func_list' = [func_list EXCEPT ![q] = Append(@, x)]
             /\ Then(t, <<>>)
             /\ UNCHANGED is_doing
    <2>1. (\E s : Replaces(t, 1, s)) /\ met /\ Exclusive' /\ Served' /\ Guarded'
      BY SMTT(30), <1>5, LastCall
    <2>2. /\ func_list' \in [Queues -> Seq(Requests)]
          /\ func_list'["queue"] \in Seq(Writes) /\ func_list'["rcv_queue"] \in Seq(Reads)
      <3>1. \A p \in Queues :
              func_list'[p] = IF p = q THEN Append(func_list[p], x) ELSE func_list[p]
        BY <1>4, <1>5 DEF TypeOK
      <3>2. func_list[q] \in Seq(Requests) /\ Append(func_list[q], x) \in Seq(Requests)
        BY SMTT(30), <1>2, <1>4, AppendProperties DEF TypeOK
      <3>3. func_list' \in [Queues -> Seq(Requests)]
        BY <1>5, <3>2 DEF TypeOK
      <3>4. q = "queue" => Append(func_list[q], x) \in Seq(Writes)
        BY <1>2, QueueOfFacts, AppendProperties DEF TypeOK
      <3>5. q = "rcv_queue" => Append(func_list[q], x) \in Seq(Reads)
        BY SMTT(30), <1>2, QueueOfFacts, AppendProperties DEF TypeOK
      <3> QED
        BY <3>1, <3>3, <3>4, <3>5 DEF TypeOK, Queues
    <2>3. TypeOK'
      BY <1>5, <2>1, <2>2 DEF TypeOK, Replaces
    <2> QED
      BY SMTT(30), <2>1, <2>3, ToldFrame, MetFresh
  <1>6. CASE /\ ~is_doing[q]
             /\ is_doing' = [is_doing EXCEPT ![q] = TRUE]
             /\ Then(t, <<start(x)>>)
             /\ UNCHANGED func_list
    <2>1. AtMostOne(q) /\ ~Claimed(q) /\ io[q] = <<>>
      BY SMTT(30), <1>4, <1>6 DEF Exclusive, Queues, Claimed
    <2>2. RestFree(t, 1, q)
      BY SMTT(30), <2>1 DEF Claimed, RestFree
    <2>3. \A p : ~Holds(stack[t][1], p)
      BY SMTT(30), <1>3, HoldsNoneFact
    <2>4. (\E s : Replaces(t, 1, s)) /\ Exclusive' /\ Served' /\ Guarded'
      BY <1>1, <1>2, <1>6, <2>1, <2>2, <2>3, StartStep
    <2>5. TypeOK'
      BY <1>4, <1>6, <2>4 DEF TypeOK, Replaces
    <2> QED
      BY <2>4, <2>5, ToldFrame, BusyMet, MetFresh
  <1> QED
    BY <1>1, <1>5, <1>6

LEMMA ContinueToIInv ==
  ASSUME IInv, NEW t \in Threads, continue_to(t)
  PROVE  IInv'
  <1> USE DEF IInv, continue_to, At
  <1>1. stack[t][1].f = "continue_to" /\ stack[t][1] \in Calls /\ Head(stack[t]) = stack[t][1]
    BY AtHead
  <1> PICK q \in Queues : q = stack[t][1].x
    BY <1>1, CallKinds
  <1>2. q \in Queues /\ Len(stack[t]) >= 1
    BY AtHead
  <1>3. Holds(stack[t][1], q) /\ \A p : p # q => ~Holds(stack[t][1], p)
    BY <1>1 DEF Holds
  <1>4. ~Falls(stack[t][1]) /\ stack[t][1].f \notin {"let_it_down", "done"}
    BY <1>1 DEF Falls
  <1>5. AtMostOne(q)
    BY <1>2 DEF Exclusive, Queues
  <1>6. io[q] = <<>> /\ RestFree(t, 1, q)
    BY <1>2, <1>3, <1>5, OnlyHolder
  <1>7. CASE /\ func_list[q] = <<>>
             /\ is_doing' = [is_doing EXCEPT ![q] = FALSE]
             /\ Then(t, <<>>)
             /\ UNCHANGED func_list
    <2> DEFINE s == <<>>
    <2>1. s \in Seq(Calls) /\ \A k : k \notin 1 .. Len(s)
      BY NoCalls
    <2>2. Then(t, s)
      BY <1>7
    <2> HIDE DEF s
    <2>3. Replaces(t, 1, s)
      BY <2>1, <2>2, AtHead
    <2>4. AtMostOne(q)' /\ ~Claimed(q)'
      BY <1>2, <1>6, <2>1, <2>3, Released
    <2>5. ~is_doing'[q] /\ \A p \in Queues : p # q => is_doing'[p] = is_doing[p]
      BY <1>2, <1>7 DEF TypeOK
    <2>6. io' = io /\ connect' = connect /\ Len(s) \in Nat
      BY <2>1, LenProperties
    <2>7. Exclusive' /\ Served' /\ Guarded'
      <3> HIDE DEF IInv, continue_to
      <3> QED
        BY <1>2, <1>3, <1>4, <2>1, <2>3, <2>4, <2>5, <2>6, StepOnQueue
    <2>8. TypeOK'
      BY <1>2, <1>7, <2>3 DEF TypeOK, Replaces
    <2> QED
      BY <2>7, <2>8, ToldFrame, BusyMet, MetFresh
  <1>8. CASE /\ func_list[q] # <<>>
             /\ is_doing' = [is_doing EXCEPT ![q] = TRUE]
             /\ func_list' = [func_list EXCEPT ![q] = Tail(@)]
             /\ Then(t, <<start(Head(func_list[q]))>>)
    <2> DEFINE x == Head(func_list[q])
    <2>1. /\ \A p \in Queues :
               func_list'[p] = IF p = q THEN Tail(func_list[p]) ELSE func_list[p]
          /\ func_list' \in [Queues -> Seq(Requests)]
      BY <1>2, <1>8, HeadTailProperties DEF TypeOK
    <2>2. q = "queue" => x \in Writes /\ Tail(func_list[q]) \in Seq(Writes)
      BY <1>8, HeadTailProperties DEF TypeOK
    <2>3. q = "rcv_queue" => x \in Reads /\ Tail(func_list[q]) \in Seq(Reads)
      BY <1>8, HeadTailProperties DEF TypeOK
    <2>4. x \in Requests /\ QueueOf(x) = q
      BY SMTT(30), <1>2, <2>2, <2>3, RequestsAssumption DEF Requests, QueueOf, Queues
    <2>5. (\E s : Replaces(t, 1, s)) /\ Exclusive' /\ Served' /\ Guarded'
      <3> HIDE DEF x
      <3>1. Then(t, <<start(x)>>)
        BY <1>8 DEF x
      <3> QED
        BY <1>2, <1>3, <1>4, <1>6, <1>8, <2>4, <3>1, StartStep
    <2>6. TypeOK'
      BY <1>2, <1>8, <2>1, <2>2, <2>3, <2>5 DEF TypeOK, Replaces, Queues
    <2> QED
      BY <2>5, <2>6, ToldFrame, BusyMet, MetFresh
  <1> QED
    BY <1>1, <1>7, <1>8

LEMMA ClearIInv ==
  ASSUME IInv, NEW t \in Threads, clear_queue(t)
  PROVE  IInv'
  <1> USE DEF IInv, clear_queue, At
  <1> DEFINE q == stack[t][1].x
             s == [i \in DOMAIN func_list[q] |-> done(func_list[q][i], "err")]
  <1>1. stack[t][1].f = "clear" /\ stack[t][1] \in Calls /\ Head(stack[t]) = stack[t][1]
    BY AtHead
  <1>2. q \in Queues
    BY <1>1, CallKinds
  <1>3. HoldsNone(stack[t][1]) /\ ~Falls(stack[t][1]) /\ stack[t][1].f # "let_it_down"
    BY <1>1 DEF HoldsNone, Falls
  <1>4. func_list[q] \in Seq(Requests)
    BY <1>2 DEF TypeOK
  <1>5. /\ DOMAIN func_list[q] = 1 .. Len(func_list[q]) /\ Len(func_list[q]) \in Nat
        /\ \A i \in 1 .. Len(func_list[q]) : func_list[q][i] \in Requests
    BY SMTT(30), <1>4, LenProperties, ElementOfSeq
  <1>6. s \in Seq(Calls) /\ Len(s) = Len(func_list[q])
    <2>1. \A i \in DOMAIN func_list[q] : done(func_list[q][i], "err") \in Calls
      BY <1>5, MadeCalls DEF Outcomes
    <2>2. s = [i \in 1 .. Len(func_list[q]) |-> done(func_list[q][i], "err")]
      BY SMTT(30), <1>5
    <2>3. \A i \in 1 .. Len(func_list[q]) : done(func_list[q][i], "err") \in Calls
      BY SMTT(30), <1>5, <2>1
    <2> HIDE DEF s
    <2> QED
      BY SMTT(30), <1>5, <2>2, <2>3
  <1>7. \A k \in 1 .. Len(s) : s[k].f = "done"
    BY <1>5, <1>6 DEF done, Call
  <1>8. Then(t, s) /\ func_list' = [func_list EXCEPT ![q] = <<>>]
    BY <1>1
  <1> HIDE DEF s, q
  <1>9. Replaces(t, 1, s)
    BY <1>6, <1>8, AtHead
  <1>10. \A k \in 1 .. Len(s) : HoldsNone(s[k]) /\ ~TellsError(s[k])
    BY <1>7 DEF HoldsNone, TellsError
  <1>11. Exclusive' /\ Served' /\ Guarded'
    BY <1>3, <1>9, <1>10, QuietStep DEF DownFirst
  <1>12. \A S : <<>> \in Seq(S)
    BY EmptySeq
  <1>13. \A p \in Queues : func_list'[p] = IF p = q THEN <<>> ELSE func_list[p]
    BY <1>2, <1>8 DEF TypeOK
  <1>14. /\ func_list' \in [Queues -> Seq(Requests)]
         /\ func_list'["queue"] \in Seq(Writes) /\ func_list'["rcv_queue"] \in Seq(Reads)
    <2>1. func_list' \in [Queues -> Seq(Requests)]
      <3>1. func_list \in [Queues -> Seq(Requests)] /\ <<>> \in Seq(Requests)
        BY <1>12 DEF TypeOK
      <3>2. func_list' = [func_list EXCEPT ![q] = <<>>]
        BY <1>8
      <3> HIDE DEF IInv, clear_queue
      <3> QED
        BY <3>1, <3>2
    <2>2. func_list'["queue"] \in Seq(Writes)
      BY <1>12, <1>13 DEF TypeOK, Queues
    <2>3. func_list'["rcv_queue"] \in Seq(Reads)
      BY <1>12, <1>13 DEF TypeOK, Queues
    <2> QED
      BY <2>1, <2>2, <2>3
  <1>15. TypeOK'
    BY <1>9, <1>14 DEF TypeOK, Replaces
  <1> QED
    BY <1>11, <1>15, ToldFrame, BusyMet, MetFresh

\* start_snd_data_unsafe, start_rcv_head_unsafe: the socket takes the queue over.
LEMMA StartIInv ==
  ASSUME IInv, NEW t \in Threads, Start(t)
  PROVE  IInv'
  <1> USE DEF IInv, Start, At
  <1>1. stack[t][1].f = "f" /\ stack[t][1] \in Calls /\ Head(stack[t]) = stack[t][1]
    BY AtHead
  <1> PICK x \in Requests : x = stack[t][1].x
    BY <1>1, CallKinds
  <1> DEFINE q == QueueOf(x)
             part == IF x \in Writes THEN "data" ELSE "head"
             op == [x |-> x, part |-> part, live |-> open]
             s == <<>>
  <1>2. x \in Requests /\ Len(stack[t]) >= 1
    BY AtHead
  <1>3. q \in Queues /\ (q = "queue" => x \in Writes) /\ (q = "rcv_queue" => x \in Reads)
    BY <1>2, QueueOfFacts
  <1>4. Holds(stack[t][1], q) /\ \A p : p # q => ~Holds(stack[t][1], p)
    BY <1>1 DEF Holds
  <1>5. ~Falls(stack[t][1]) /\ stack[t][1].f # "let_it_down"
    BY <1>1 DEF Falls
  <1>6. AtMostOne(q) /\ is_doing[q]
    <2>1. Marked(t, 1, q)
      BY <1>2, <1>4, LenFacts DEF Marked
    <2>2. Claimed(q)
      BY <2>1 DEF Claimed
    <2> QED
      BY <1>3, <2>2 DEF Exclusive, Queues
  <1>7. io[q] = <<>> /\ RestFree(t, 1, q)
    BY <1>2, <1>3, <1>4, <1>6, OnlyHolder
  <1>8. io' = [io EXCEPT ![q] = Append(@, op)]
    BY <1>1
  <1>9. /\ op \in Operations(Requests, {"head", "data"})
        /\ q = "queue" => op \in Operations(Writes, {"data"})
        /\ q = "rcv_queue" => op \in Operations(Reads, {"head", "data"})
    BY <1>2, <1>3, RequestsAssumption DEF Operations, TypeOK
  <1>10. s \in Seq(Calls) /\ (\A k : k \notin 1 .. Len(s)) /\ Then(t, s)
    BY NoCalls
  <1> HIDE DEF op, q, s
  <1>11. Replaces(t, 1, s)
    BY <1>10, AtHead
  <1>12. /\ \A p \in Queues : io'[p] = IF p = q THEN Append(io[p], op) ELSE io[p]
         /\ io' \in [Queues -> Seq(Operations(Requests, {"head", "data"}))]
         /\ io'["queue"] \in Seq(Operations(Writes, {"data"}))
         /\ io'["rcv_queue"] \in Seq(Operations(Reads, {"head", "data"}))
    BY SMTT(30), <1>3, <1>8, <1>9, AppendProperties DEF TypeOK, Queues
  <1>13. Len(io'[q]) = 1 /\ io'[q] # <<>>
    <2>1. io'[q] = Append(<<>>, op)
      BY <1>3, <1>7, <1>12
    <2>2. Len(Append(<<>>, op)) = 1 /\ Append(<<>>, op) # <<>>
      <3> HIDE DEF IInv, Start
      <3>1. <<>> \in Seq({op}) /\ Len(<<>>) = 0 /\ op \in {op}
        BY EmptySeq
      <3> QED
        BY <3>1, AppendProperties
    <2> QED
      BY <2>1, <2>2
  <1>14. AtMostOne(q)' /\ Claimed(q)'
    BY <1>3, <1>7, <1>10, <1>11, <1>13, PassedToSocket
  <1>15. Exclusive' /\ Served' /\ Guarded'
    <2>1. is_doing' = is_doing /\ connect' = connect
      OBVIOUS
    <2> HIDE DEF IInv, Start
    <2> QED
      BY <1>3, <1>4, <1>5, <1>6, <1>10, <1>11, <1>12, <1>14, <2>1, StepOnQueue
  <1>16. TypeOK'
    BY <1>11, <1>12 DEF TypeOK, Replaces
  <1> QED
    BY <1>15, <1>16, ToldFrame, BusyMet, MetFresh

LEMMA RemoveOnly ==
  ASSUME NEW S, NEW s \in Seq(S), Len(s) <= 1, NEW i \in DOMAIN s
  PROVE  RemoveAt(s, i) = <<>> /\ Len(s) = 1 /\ s # <<>> /\ i = 1
  <1>1. Len(s) \in Nat /\ i \in 1 .. Len(s)
    BY LenProperties
  <1>2. Len(s) = 1 /\ i = 1
    <2>1. \A n \in Nat : \A k \in 1 .. n : n <= 1 => n = 1 /\ k = 1
      OBVIOUS
    <2> QED
      BY <1>1, <2>1
  <1>3. SubSeq(s, 1, 0) = <<>> /\ SubSeq(s, 2, 1) = <<>>
    BY SubSeqEmpty
  <1>4. <<>> \o <<>> = <<>>
    BY EmptySeq, ConcatEmptySeq
  <1>5. RemoveAt(s, i) = SubSeq(s, 1, 0) \o SubSeq(s, 2, 1)
    BY <1>2 DEF RemoveAt
  <1> QED
    BY <1>2, <1>3, <1>4, <1>5, EmptySeq

\* The handler of the i-th operation of q begins: nothing holds q but the calls
\* it makes, and q is claimed.
LEMMA TakeFacts ==
  ASSUME IInv, NEW t \in Threads, NEW q \in Queues, NEW i \in DOMAIN io[q],
         io' = [io EXCEPT ![q] = RemoveAt(@, i)]
  PROVE  /\ met /\ is_doing[q]
         /\ AtMostOne(q) /\ RestFree(t, 0, q)
         /\ io'[q] = <<>>
         /\ \A p \in Queues : p # q => io'[p] = io[p]
         /\ io' \in [Queues -> Seq(Operations(Requests, {"head", "data"}))]
         /\ io'["queue"] \in Seq(Operations(Writes, {"data"}))
         /\ io'["rcv_queue"] \in Seq(Operations(Reads, {"head", "data"}))
         /\ io[q][i].x \in Requests
         /\ q = "queue" => io[q][i].x \in Writes
         /\ q = "rcv_queue" => io[q][i].x \in Reads
         /\ io[q][i].live \in BOOLEAN
  <1> USE DEF IInv
  <1>1. AtMostOne(q)
    BY DEF Exclusive, Queues
  <1>2. io[q] \in Seq(Operations(Requests, {"head", "data"})) /\ Len(io[q]) <= 1
    BY <1>1 DEF TypeOK, AtMostOne
  <1>3. RemoveAt(io[q], i) = <<>> /\ io[q] # <<>> /\ i = 1 /\ Len(io[q]) = 1
    BY <1>2, RemoveOnly
  <1>4. \A p \in Queues : io'[p] = IF p = q THEN <<>> ELSE io[p]
    BY <1>3 DEF TypeOK
  <1>5. /\ io' \in [Queues -> Seq(Operations(Requests, {"head", "data"}))]
        /\ io'["queue"] \in Seq(Operations(Writes, {"data"}))
        /\ io'["rcv_queue"] \in Seq(Operations(Reads, {"head", "data"}))
    <2>1. <<>> \in Seq(Operations(Requests, {"head", "data"}))
      BY EmptySeq
    <2>2. <<>> \in Seq(Operations(Writes, {"data"}))
      BY EmptySeq
    <2>3. <<>> \in Seq(Operations(Reads, {"head", "data"}))
      BY EmptySeq
    <2>4. io' \in [Queues -> Seq(Operations(Requests, {"head", "data"}))]
      BY <1>3, <2>1 DEF TypeOK
    <2> QED
      BY <1>4, <2>2, <2>3, <2>4 DEF TypeOK, Queues
  <1>6. /\ io[q][i] \in Operations(Requests, {"head", "data"})
        /\ q = "queue" => io[q][i] \in Operations(Writes, {"data"})
        /\ q = "rcv_queue" => io[q][i] \in Operations(Reads, {"head", "data"})
    BY <1>3, ElementOfSeq DEF TypeOK
  <1>7. Claimed(q) /\ RestFree(t, 0, q) /\ met
    BY <1>1, <1>3, NoCallHolds, BusyMet DEF Claimed
  <1>8. is_doing[q]
    BY <1>7 DEF Exclusive, Queues
  <1> QED
    BY <1>1, <1>3, <1>4, <1>5, <1>6, <1>7, <1>8 DEF Operations

LEMMA CallFields ==
  /\ \A x, e : done(x, e).f = "done" /\ done(x, e).e = e
  /\ \A x, e : cb(x, e).f = "cb" /\ cb(x, e).e = e
  /\ \A q : continue(q).f = "continue_to" /\ continue(q).x = q
  /\ \A q : clear(q).f = "clear"
  /\ \A f : Plain(f).f = f /\ Plain(f).e = "-"
  BY DEF done, cb, continue, clear, Plain, Call

\* A handler has ended its operation of q and makes the calls s, the n-th of
\* which is continue_to.
LEMMA HandlerStep ==
  ASSUME IInv, NEW t \in Threads, Idle(t), NEW q \in Queues, NEW i \in DOMAIN io[q],
         io' = [io EXCEPT ![q] = RemoveAt(@, i)],
         NEW s \in Seq(Calls), stack' = [stack EXCEPT ![t] = s],
         NEW n \in 1 .. Len(s), s[n] = continue(q),
         \A k \in 1 .. Len(s) : k # n => s[k].f = "done",
         UNCHANGED <<met, connect, open, is_monitoring, is_doing, func_list,
                     submitted, told, left>>
  PROVE  IInv'
  <1> USE DEF IInv
  <1>1. Replaces(t, 0, s)
    BY IdleReplaces
  <1>2. \A k \in 1 .. Len(s) : \A p : Holds(s[k], p) <=> k = n /\ p = q
    BY CallFields DEF Holds
  <1>3. \A k \in 1 .. Len(s) : ~TellsError(s[k])
    BY CallFields DEF TellsError
  <1>4. RestFree(t, 0, q) /\ io'[q] = <<>>
    BY TakeFacts
  <1>5. AtMostOne(q)' /\ Claimed(q)'
    BY <1>1, <1>2, <1>4, PassedToCall
  <1>6. is_doing'[q] /\ \A p \in Queues : p # q => io'[p] = io[p] /\ is_doing'[p] = is_doing[p]
    BY TakeFacts
  <1>7. \A p \in Queues, k \in 1 .. Len(s) : p # q => ~Holds(s[k], p)
    BY <1>2
  <1>8. Exclusive' /\ Served' /\ Guarded'
    <2>1. connect' = connect
      OBVIOUS
    <2> HIDE DEF IInv
    <2> QED
      BY <1>1, <1>3, <1>5, <1>6, <1>7, <2>1, StepOnQueue
  <1>9. TypeOK'
    BY <1>1, TakeFacts DEF TypeOK, Replaces
  <1> QED
    BY <1>8, <1>9, ToldFrame, TakeFacts, MetFresh

LEMMA WriteDoneIInv ==
  ASSUME IInv, NEW t \in Threads, NEW i \in DOMAIN io["queue"], NEW e \in Outcomes,
         snd_data_done_unsafe(t, i, e)
  PROVE  IInv'
  <1> USE DEF snd_data_done_unsafe, Take
  <1> PICK x : x = io["queue"][i].x
    OBVIOUS
  <1> DEFINE s == WriteCalls(x, e)
  <1>1. x \in Requests
    BY TakeFacts DEF Queues
  <1>2. s \in Seq(Calls) /\ Len(s) = 3
    BY <1>1, MadeCalls DEF WriteCalls, Queues
  <1>3. s[1].f = "done" /\ s[2] = continue("queue") /\ s[3].f = "done"
    BY CallFields DEF WriteCalls
  <1>4. stack' = [stack EXCEPT ![t] = s]
    OBVIOUS
  <1> HIDE DEF s
  <1>5. 2 \in 1 .. Len(s) /\ \A k \in 1 .. Len(s) : k # 2 => s[k].f = "done"
    <2>1. \A k \in 1 .. Len(s) : k = 1 \/ k = 2 \/ k = 3
      BY <1>2
    <2> QED
      BY <1>2, <1>3, <2>1
  <1> QED
    BY <1>2, <1>3, <1>4, <1>5, HandlerStep DEF Queues

LEMMA ReadDoneIInv ==
  ASSUME IInv, NEW t \in Threads, NEW i \in DOMAIN io["rcv_queue"], NEW e \in Outcomes,
         rcv_data_done_unsafe(t, i, e)
  PROVE  IInv'
  <1> USE DEF rcv_data_done_unsafe, Take
  <1> PICK x : x = io["rcv_queue"][i].x
    OBVIOUS
  <1> DEFINE s == ReadCalls(x, e)
  <1>1. x \in Requests
    BY TakeFacts DEF Queues
  <1>2. s \in Seq(Calls) /\ Len(s) = 2
    BY <1>1, MadeCalls DEF ReadCalls, Queues
  <1>3. s[1].f = "done" /\ s[2] = continue("rcv_queue")
    BY CallFields DEF ReadCalls
  <1>4. stack' = [stack EXCEPT ![t] = s]
    OBVIOUS
  <1> HIDE DEF s
  <1>5. 2 \in 1 .. Len(s) /\ \A k \in 1 .. Len(s) : k # 2 => s[k].f = "done"
    <2>1. \A k \in 1 .. Len(s) : k = 1 \/ k = 2
      BY <1>2
    <2> QED
      BY <1>2, <1>3, <2>1
  <1> QED
    BY <1>2, <1>3, <1>4, <1>5, HandlerStep DEF Queues

LEMMA HeadDoneIInv ==
  ASSUME IInv, NEW t \in Threads, NEW i \in DOMAIN io["rcv_queue"], NEW e \in Outcomes,
         rcv_head_done_unsafe(t, i, e)
  PROVE  IInv'
  <1> DEFINE q == "rcv_queue"
  <1> USE DEF rcv_head_done_unsafe
  <1> PICK x : x = io[q][i].x
    OBVIOUS
  <1>0. q \in Queues /\ Idle(t)
    BY DEF Queues
  <1>1. CASE /\ io' = [io EXCEPT ![q] = RemoveAt(@, i)]
             /\ stack' = [stack EXCEPT ![t] = <<done(x, "err")>>]
    <2> DEFINE s == <<done(x, "err")>>
    <2>1. x \in Requests
      BY <1>0, <1>1, TakeFacts
    <2>2. s \in Seq(Calls) /\ Len(s) = 1 /\ s[1] = done(x, "err")
      BY <2>1, MadeCalls, OneCall DEF Outcomes
    <2>3. /\ \A k \in 1 .. Len(s) : HoldsNone(s[k]) /\ ~TellsError(s[k])
          /\ \E k \in 1 .. Len(s) : Falls(s[k])
      <3>1. 1 \in 1 .. Len(s) /\ \A k \in 1 .. Len(s) : k = 1
        BY <2>2
      <3> QED
        BY <2>2, <3>1, CallFields DEF HoldsNone, TellsError, Falls
    <2> HIDE DEF s
    <2>4. Replaces(t, 0, s)
      BY <1>0, <1>1, <2>2, IdleReplaces DEF IInv, s
    <2>5. AtMostOne(q)' /\ ~Claimed(q)'
      BY <1>0, <1>1, <2>3, <2>4, HoldsNoneFact, TakeFacts, Released DEF IInv
    <2>6. \A p \in Queues : p # q => io'[p] = io[p] /\ is_doing'[p] = is_doing[p]
      BY <1>0, <1>1, TakeFacts
    <2>7. \A p \in Queues, k \in 1 .. Len(s) : p # q => ~Holds(s[k], p)
      BY <2>3, HoldsNoneFact
    <2>8. Exclusive' /\ Served' /\ Guarded'
      <3>1. connect' = connect
        OBVIOUS
      <3> HIDE DEF rcv_head_done_unsafe
      <3> QED
        BY <1>0, <2>3, <2>4, <2>5, <2>6, <2>7, <3>1, StepOnQueue
    <2>9. TypeOK'
      BY <1>0, <1>1, <2>4, TakeFacts DEF IInv, TypeOK, Replaces
    <2> QED
      BY <1>0, <1>1, <2>8, <2>9, ToldFrame, TakeFacts, MetFresh DEF IInv
  <1>2. CASE /\ io' = [io EXCEPT ![q] = RemoveAt(@, i)]
             /\ stack' = [stack EXCEPT ![t] = <<continue(q), done(x, "err")>>]
    <2> DEFINE s == <<continue(q), done(x, "err")>>
    <2>1. x \in Requests
      BY <1>0, <1>2, TakeFacts
    <2>2. s \in Seq(Calls) /\ Len(s) = 2
      BY <1>0, <2>1, MadeCalls DEF Outcomes
    <2>3. s[1] = continue(q) /\ s[2].f = "done" /\ stack' = [stack EXCEPT ![t] = s]
      BY <1>2, CallFields
    <2> HIDE DEF s
    <2>4. 1 \in 1 .. Len(s) /\ \A k \in 1 .. Len(s) : k # 1 => s[k].f = "done"
      <3>1. \A k \in 1 .. Len(s) : k = 1 \/ k = 2
        BY <2>2
      <3> QED
        BY <2>2, <2>3, <3>1
    <2>5. UNCHANGED <<met, connect, open, is_monitoring, is_doing, func_list,
                      submitted, told, left>>
      OBVIOUS
    <2>6. /\ io' = [io EXCEPT ![q] = RemoveAt(@, i)]
          /\ s \in Seq(Calls) /\ stack' = [stack EXCEPT ![t] = s] /\ s[1] = continue(q)
      BY <1>2, <2>2, <2>3
    <2> HIDE DEF rcv_head_done_unsafe
    <2> QED
      BY ONLY IInv, <1>0, <2>4, <2>5, <2>6, HandlerStep
  <1>3. CASE /\ io' = [io EXCEPT ![q][i] = [x |-> x, part |-> "data", live |-> open]]
             /\ UNCHANGED stack
    <2> DEFINE op == [x |-> x, part |-> "data", live |-> open]
               n == [io[q] EXCEPT ![i] = op]
    <2>1. io[q] \in Seq(Operations(Reads, {"head", "data"})) /\ TypeOK
      BY DEF IInv, TypeOK
    <2>2. AtMostOne(q)
      BY DEF IInv, Exclusive
    <2>3. Len(io[q]) = 1 /\ io[q] # <<>> /\ i = 1
      BY <2>1, <2>2, RemoveOnly DEF AtMostOne
    <2>4. io[q][i] \in Operations(Reads, {"head", "data"})
      BY <2>1, <2>3, ElementOfSeq
    <2>5. op \in Operations(Reads, {"head", "data"})
      BY <2>1, <2>4 DEF Operations, TypeOK
    <2>6. op \in Operations(Requests, {"head", "data"})
      BY <2>5 DEF Operations, Requests
    <2> HIDE DEF op
    <2>7. /\ n \in Seq(Operations(Reads, {"head", "data"})) /\ Len(n) = 1 /\ n # <<>>
          /\ n \in Seq(Operations(Requests, {"head", "data"}))
      <3>1. n \in Seq(Operations(Reads, {"head", "data"})) /\ Len(n) = 1
        BY <2>1, <2>3, <2>5, ExceptSeq
      <3>2. io[q] \in Seq(Operations(Requests, {"head", "data"}))
        BY <1>0, <2>1 DEF TypeOK
      <3>3. n \in Seq(Operations(Requests, {"head", "data"}))
        BY <2>3, <2>6, <3>2, ExceptSeq
      <3> QED
        BY <3>1, <3>3, EmptySeq
    <2>8. io' = [io EXCEPT ![q] = n]
      BY <1>3 DEF op
    <2> HIDE DEF n
    <2>9. io'[q] = n /\ \A p \in Queues : p # q => io'[p] = io[p]
      BY <1>0, <2>1, <2>8 DEF TypeOK
    <2>10. Replaces(t, 0, <<>>)
      <3>1. stack' = [stack EXCEPT ![t] = <<>>]
        BY <1>0, <1>3, <2>1 DEF Idle, TypeOK
      <3> QED
        BY <1>0, <2>1, <3>1, NoCalls, IdleReplaces
    <2>11. RestFree(t, 0, q)
      BY <2>2, <2>3, NoCallHolds
    <2>12. AtMostOne(q)' /\ Claimed(q)'
      BY <1>0, <2>1, <2>7, <2>9, <2>10, <2>11, NoCalls, PassedToSocket
    <2>13. met /\ is_doing[q]
      BY <1>0, <2>3, BusyMet DEF IInv, Exclusive, Claimed
    <2>14. Exclusive' /\ Served' /\ Guarded'
      <3>1. connect' = connect /\ is_doing' = is_doing
        OBVIOUS
      <3> HIDE DEF rcv_head_done_unsafe
      <3> QED
        BY <1>0, <2>9, <2>10, <2>12, <2>13, <3>1, NoCalls, StepOnQueue
    <2>15. TypeOK'
      <3>1. io' \in [Queues -> Seq(Operations(Requests, {"head", "data"}))]
        BY <2>1, <2>7, <2>8 DEF TypeOK
      <3>2. io'["queue"] \in Seq(Operations(Writes, {"data"}))
        BY <2>1, <2>9 DEF TypeOK, Queues
      <3> QED
        BY <1>3, <2>1, <2>7, <2>9, <3>1, <3>2 DEF TypeOK
    <2> QED
      BY <2>13, <2>14, <2>15, ToldFrame, MetFresh DEF IInv
  <1> QED
    BY <1>1, <1>2, <1>3

LEMMA DoneCallsQuiet ==
  ASSUME NEW x \in Requests, NEW e \in Outcomes
  PROVE  /\ DoneCalls(x, e) \in Seq(Calls)
         /\ \A k \in 1 .. Len(DoneCalls(x, e)) : HoldsNone(DoneCalls(x, e)[k])
         /\ DownFirst(DoneCalls(x, e))
         /\ e = "err" => \E k \in 1 .. Len(DoneCalls(x, e)) : Falls(DoneCalls(x, e)[k])
  <1> DEFINE r == IF e = "err" THEN <<Plain("let_it_down"), clear("queue"),
                                      clear("rcv_queue"), cb(x, "err")>>
                  ELSE <<cb(x, "ok")>>
             w == IF x \in Reads THEN <<cb(x, "ok")>> ELSE <<>>
  <1>1. /\ r \in Seq(Calls) /\ Len(r) \in Nat \ {0}
        /\ \A k \in 1 .. Len(r) : HoldsNone(r[k])
        /\ DownFirst(r)
        /\ e = "err" => Falls(r[1])
    <2>1. CASE e = "err"
      <3> DEFINE s == <<Plain("let_it_down"), clear("queue"), clear("rcv_queue"), cb(x, "err")>>
      <3>1. s \in Seq(Calls) /\ Len(s) = 4
        BY MadeCalls DEF Queues, Outcomes
      <3>2. /\ s[1].f = "let_it_down" /\ s[1].e = "-"
            /\ s[2].f = "clear" /\ s[3].f = "clear" /\ s[4].f = "cb"
        BY CallFields
      <3>3. r = s
        BY <2>1
      <3> HIDE DEF s, r
      <3>4. \A k \in 1 .. Len(s) : k = 1 \/ k = 2 \/ k = 3 \/ k = 4
        BY <3>1
      <3>5. (\A k \in 1 .. Len(s) : HoldsNone(s[k])) /\ Falls(s[1])
        BY <3>2, <3>4 DEF HoldsNone, Falls
      <3>6. DownFirst(s)
        <4> SUFFICES ASSUME NEW k \in 1 .. Len(s), TellsError(s[k])
                     PROVE  \E j \in 1 .. (k - 1) : s[j].f = "let_it_down"
          BY DEF DownFirst
        <4>1. k = 4
          BY <3>2, <3>4 DEF TellsError
        <4> QED
          BY <3>2, <4>1
      <3>7. Len(s) \in Nat \ {0}
        BY <3>1
      <3> QED
        BY ONLY <3>1, <3>3, <3>5, <3>6, <3>7
    <2>2. CASE e # "err"
      <3> DEFINE s == <<cb(x, "ok")>>
      <3>1. s \in Seq(Calls) /\ Len(s) = 1 /\ s[1] = cb(x, "ok")
        BY MadeCalls, OneCall DEF Outcomes
      <3>2. r = s
        BY <2>2
      <3> HIDE DEF s, r
      <3>3. \A k \in 1 .. Len(s) : k = 1
        BY <3>1
      <3>4. (\A k \in 1 .. Len(s) : HoldsNone(s[k])) /\ DownFirst(s)
        BY <3>1, <3>3, CallFields DEF HoldsNone, DownFirst, TellsError
      <3>5. Len(s) \in Nat \ {0}
        BY <3>1
      <3> QED
        BY <2>2, <3>1, <3>2, <3>4, <3>5
    <2> QED
      BY <2>1, <2>2
  <1>2. /\ w \in Seq(Calls) /\ Len(w) \in Nat
        /\ \A k \in 1 .. Len(w) : w[k] = cb(x, "ok")
    <2>1. <<cb(x, "ok")>> \in Seq(Calls) /\ <<cb(x, "ok")>>[1] = cb(x, "ok")
          /\ \A k \in 1 .. Len(<<cb(x, "ok")>>) : k = 1
      BY MadeCalls, OneCall DEF Outcomes
    <2>2. w \in Seq(Calls)
      BY <2>1, NoCalls
    <2> QED
      BY <2>1, <2>2, NoCalls, LenProperties
  <1>3. DoneCalls(x, e) = r \o w
    BY DEF DoneCalls
  <1> HIDE DEF r, w
  <1>4. /\ r \o w \in Seq(Calls) /\ Len(r \o w) = Len(r) + Len(w)
        /\ \A k \in 1 .. Len(r) + Len(w) :
             (r \o w)[k] = IF k <= Len(r) THEN r[k] ELSE w[k - Len(r)]
    BY <1>1, <1>2, ConcatProperties
  <1>5. \A k \in 1 .. Len(r \o w) :
          \/ k \in 1 .. Len(r) /\ (r \o w)[k] = r[k]
          \/ (r \o w)[k] = cb(x, "ok")
    <2> SUFFICES ASSUME NEW k \in 1 .. Len(r \o w)
                 PROVE  \/ k \in 1 .. Len(r) /\ (r \o w)[k] = r[k]
                        \/ (r \o w)[k] = cb(x, "ok")
      OBVIOUS
    <2>1. CASE k <= Len(r)
      BY <1>1, <1>2, <1>4, <2>1
    <2>2. CASE ~(k <= Len(r))
      BY <1>1, <1>2, <1>4, <2>2
    <2> QED
      BY <2>1, <2>2
  <1>6. \A k \in 1 .. Len(r) : k \in 1 .. Len(r \o w) /\ (r \o w)[k] = r[k]
    BY <1>1, <1>2, <1>4
  <1>7. \A k \in 1 .. Len(r \o w) : HoldsNone((r \o w)[k])
    BY <1>1, <1>5, CallFields DEF HoldsNone
  <1>8. DownFirst(r \o w)
    <2> SUFFICES ASSUME NEW k \in 1 .. Len(r \o w), TellsError((r \o w)[k])
                 PROVE  \E j \in 1 .. (k - 1) : (r \o w)[j].f = "let_it_down"
      BY DEF DownFirst
    <2>1. k \in 1 .. Len(r) /\ (r \o w)[k] = r[k]
      BY <1>5, CallFields DEF TellsError
    <2>2. PICK j \in 1 .. (k - 1) : r[j].f = "let_it_down"
      BY <1>1, <2>1 DEF DownFirst
    <2>3. j \in 1 .. Len(r)
      BY <1>1, <2>1
    <2> QED
      BY <1>6, <2>2, <2>3
  <1>9. e = "err" => \E k \in 1 .. Len(r \o w) : Falls((r \o w)[k])
    <2>1. 1 \in 1 .. Len(r)
      BY <1>1
    <2> QED
      BY <1>1, <1>6, <2>1
  <1> QED
    BY <1>3, <1>4, <1>7, <1>8, <1>9

LEMMA DoneIInv ==
  ASSUME IInv, NEW t \in Threads, Done(t)
  PROVE  IInv'
  <1> USE DEF IInv, Done, At
  <1> DEFINE c == stack[t][1]
  <1>1. c \in Calls /\ c.f = "done" /\ Head(stack[t]) = c
    BY AtHead
  <1>2. c.x \in Requests /\ c.e \in Outcomes
    BY <1>1, CallKinds
  <1> DEFINE s == DoneCalls(c.x, c.e)
  <1>3. /\ s \in Seq(Calls) /\ DownFirst(s)
        /\ \A k \in 1 .. Len(s) : HoldsNone(s[k])
        /\ c.e = "err" => \E k \in 1 .. Len(s) : Falls(s[k])
    BY <1>2, DoneCallsQuiet
  <1>4. Then(t, s)
    BY <1>1
  <1> HIDE DEF s
  <1>5. Replaces(t, 1, s)
    BY <1>3, <1>4, AtHead
  <1>6. HoldsNone(c) /\ c.f # "let_it_down" /\ (Falls(c) => c.e = "err")
    BY <1>1, <1>2 DEF HoldsNone, Falls, Outcomes
  <1>7. Exclusive' /\ Served' /\ Guarded'
    BY <1>3, <1>5, <1>6, QuietStep
  <1>8. TypeOK'
    BY <1>5 DEF TypeOK, Replaces
  <1> QED
    BY <1>7, <1>8, ToldFrame, BusyMet, MetFresh

-------------------------------------------------------------------------------
(* The properties.                                                         *)

LEMMA StepIInv == IInv /\ [Next]_vars => IInv'
  <1> SUFFICES ASSUME IInv, [Next]_vars PROVE IInv'
    OBVIOUS
  <1>1. ASSUME NEW t \in Threads, let_it_up(t) PROVE IInv'
    BY <1>1, LetItUpIInv
  <1>2. ASSUME NEW t \in Threads, disconnect(t) PROVE IInv'
    BY <1>2, DisconnectIInv
  <1>3. ASSUME NEW t \in Threads, timer_handler(t) PROVE IInv'
    BY <1>3, TimerIInv
  <1>4. ASSUME NEW t \in Threads, Inside(t) PROVE IInv'
    <2>1. CASE Leave(t)
      BY <2>1, LeaveIInv
    <2>2. CASE CallUser(t)
      BY <2>2, CallUserIInv
    <2>3. CASE CallConnected(t)
      BY <2>3, CallConnectedIInv
    <2>4. CASE CallDisconnected(t)
      BY <2>4, CallDisconnectedIInv
    <2>5. CASE begin_to(t)
      BY <2>5, BeginToIInv
    <2>6. CASE continue_to(t)
      BY <2>6, ContinueToIInv
    <2>7. CASE clear_queue(t)
      BY <2>7, ClearIInv
    <2>8. CASE Start(t)
      BY <2>8, StartIInv
    <2>9. CASE Done(t)
      BY <2>9, DoneIInv
    <2>10. CASE let_it_down(t)
      BY <2>10, LetItDownIInv
    <2>11. CASE Close(t)
      BY <2>11, CloseIInv
    <2>12. CASE Monitor(t)
      BY <2>12, MonitorIInv
    <2> QED
      BY <1>4, <2>1, <2>2, <2>3, <2>4, <2>5, <2>6, <2>7, <2>8, <2>9, <2>10, <2>11, <2>12
         DEF Inside
  <1>5. ASSUME NEW t \in Threads, NEW x \in Requests, Use(t, x) PROVE IInv'
    BY <1>5, UseIInv
  <1>6. CASE WriteHandler
    <2> PICK t \in Threads, i \in DOMAIN io["queue"], e \in Outcomes :
               snd_data_done_unsafe(t, i, e)
      BY <1>6 DEF WriteHandler
    <2> QED
      BY WriteDoneIInv
  <1>7. CASE ReadHandler
    <2> PICK t \in Threads, i \in DOMAIN io["rcv_queue"], e \in Outcomes :
               rcv_head_done_unsafe(t, i, e) \/ rcv_data_done_unsafe(t, i, e)
      BY <1>7 DEF ReadHandler
    <2> QED
      BY HeadDoneIInv, ReadDoneIInv
  <1>8. CASE UNCHANGED vars
    <2> USE <1>8 DEF vars
    <2>1. /\ \A t, k, q : Marked(t, k, q)' <=> Marked(t, k, q)
          /\ \A c : (Falls(c)' <=> Falls(c)) /\ (TellsError(c)' <=> TellsError(c))
      BY MarkedPrime DEF Marked, Falls, TellsError
    <2>2. \A q : (AtMostOne(q)' <=> AtMostOne(q)) /\ (Claimed(q)' <=> Claimed(q))
      BY <2>1 DEF AtMostOne, Claimed
    <2>3. Falling => Falling'
      BY DEF Falling, Falls
    <2>4. Exclusive' /\ Served'
      BY <2>2, <2>3 DEF IInv, Exclusive, Served
    <2>5. Guarded' /\ ErrorMeansDown' /\ Fresh' /\ TypeOK'
      BY DEF IInv, Guarded, DownFirst, TellsError, ErrorMeansDown, Fresh, TypeOK
    <2> QED
      BY <2>4, <2>5 DEF IInv
  <1> QED
    BY <1>1, <1>2, <1>3, <1>4, <1>5, <1>6, <1>7, <1>8 DEF Next

\* The invariant of every behaviour.
THEOREM Invariance == Spec => []IInv
  BY InitIInv, StepIInv, PTL DEF Spec

\* Every variable has its type in every reachable state.
THEOREM TypeCorrect == Spec => []TypeOK
  <1>1. IInv => TypeOK
    BY DEF IInv
  <1> QED
    BY <1>1, Invariance, PTL

\* The count of the holders of a queue held at most once.
LEMMA Counting ==
  ASSUME TypeOK, NEW q \in Queues, AtMostOne(q)
  PROVE  Holders(q) = IF Claimed(q) THEN 1 ELSE 0
  <1>1. Len(io[q]) \in {0, 1} /\ (Len(io[q]) = 0 <=> io[q] = <<>>)
    <2> DEFINE S == Operations(Requests, {"head", "data"})
    <2>1. io[q] \in Seq(S)
      BY DEF TypeOK
    <2> HIDE DEF S
    <2>2. Len(io[q]) \in Nat /\ (io[q] # <<>> => Len(io[q]) \in Nat \ {0}) /\ Len(<<>>) = 0
      BY <2>1, EmptySeq, LenProperties
    <2>3. Len(io[q]) <= 1
      BY DEF AtMostOne
    <2>4. \A n \in Nat : n <= 1 => n \in {0, 1}
      OBVIOUS
    <2> QED
      BY <2>2, <2>3, <2>4
  <1>2. \A t \in Threads : DOMAIN stack[t] = 1 .. Len(stack[t])
    BY LenProperties DEF TypeOK
  <1>3. \A p : p \in Pending(q) <=> \E t \in Threads, k \in Nat : p = <<t, k>> /\ Marked(t, k, q)
    BY <1>2 DEF Pending, Marked
  <1>4. CASE \A t \in Threads, k \in Nat : ~Marked(t, k, q)
    <2>1. Pending(q) = {}
      BY <1>3, <1>4
    <2>2. Cardinality(Pending(q)) = 0
      BY <2>1, FS_EmptySet
    <2>3. Holders(q) = Len(io[q]) + 0 /\ (Claimed(q) <=> io[q] # <<>>)
      BY <1>4, <2>2 DEF Holders, Claimed
    <2>4. CASE io[q] = <<>>
      BY <1>1, <2>3, <2>4
    <2>5. CASE io[q] # <<>>
      <3>1. Len(io[q]) = 1
        BY <1>1, <2>5
      <3> QED
        BY <2>3, <2>5, <3>1
    <2> QED
      BY <2>4, <2>5
  <1>5. CASE \E t \in Threads, k \in Nat : Marked(t, k, q)
    <2> PICK t \in Threads, k \in Nat : Marked(t, k, q)
      BY <1>5
    <2>1. Pending(q) = {<<t, k>>}
      BY <1>3 DEF AtMostOne
    <2>2. Cardinality(Pending(q)) = 1
      BY <2>1, FS_Singleton
    <2>3. Len(io[q]) = 0
      BY <1>1 DEF AtMostOne
    <2> QED
      BY <2>2, <2>3 DEF Holders, Claimed
  <1> QED
    BY <1>4, <1>5

\* The handlers, on all their paths, keep the caller's part of the queues: one
\* read and one write at most are under way on the socket, and the write queue
\* is claimed exactly while a write is.
THEOREM OneSocketOpHolds == Spec => []OneSocketOp
  <1>1. IInv => OneSocketOp
    BY Counting DEF IInv, Exclusive, OneSocketOp, Queues
  <1> QED
    BY <1>1, Invariance, PTL

\* The invariant says of the queue's claim what ReadsServedWhileUp says of the
\* operations under way.
LEMMA ServedMeansServed == IInv => ReadsServedWhileUp
  <1> SUFFICES ASSUME IInv PROVE ReadsServedWhileUp
    OBVIOUS
  <1>1. CASE Claimed("rcv_queue")
    <2>1. Holders("rcv_queue") = 1
      BY <1>1, Counting DEF IInv, Exclusive, Queues
    <2> QED
      BY <2>1 DEF ReadsServedWhileUp
  <1>2. CASE Falling
    <2> PICK t \in Threads, k \in Nat : k \in 1 .. Len(stack[t]) /\ Falls(stack[t][k])
      BY <1>2 DEF Falling
    <2>1. k \in DOMAIN stack[t]
      BY LenProperties DEF IInv, TypeOK
    <2> QED
      BY <2>1 DEF ReadsServedWhileUp, Falls
  <1> QED
    BY <1>1, <1>2 DEF IInv, Served, ReadsServedWhileUp

\* While the session is up and its read queue claimed, a read is under way or about to
\* be continued, or a thread is about to take the session down.
THEOREM ReadsServed == Spec => []ReadsServedWhileUp
  BY Invariance, ServedMeansServed, PTL

\* A user told of an error finds the session down, and so does every later one:
\* a session goes up once.
THEOREM ErrorMeansDownHolds == Spec => []ErrorMeansDown
  <1>1. IInv => ErrorMeansDown
    BY DEF IInv
  <1> QED
    BY <1>1, Invariance, PTL
================================================================================
