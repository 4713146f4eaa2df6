--------------------------- MODULE WatchDogProofs ---------------------------
(***************************************************************************)
(* Proofs about WatchDog for any number of threads and any period and      *)
(* limit.  Three facts make the invariants inductive: start_monitor is     *)
(* called by one thread, once, before any wait exists and before the       *)
(* session is destroyed; a monitored session has a wait armed, its handler *)
(* queued, or that handler about to clear is_monitoring; and the silence   *)
(* so far plus the time to the next look stays below the bound.            *)
(***************************************************************************)
EXTENDS WatchDog, TLAPS

Ups == {"connected", "start_monitor"}
Downs == {"stop_monitor", "let_it_down", "silenced", "unlock", "return"}

(* Thread t is on its way to start_monitor. *)
Starting(t) == \E f \in Ups : stack[t] = <<f>>

StackShape == \A t \in Threads : Starting(t) \/ stack[t] \in Seq(Downs)

(* The one start of the dog is still to come, and no wait exists. *)
OneStart ==
  \A t \in Threads : Starting(t) =>
    /\ ~on_monitor /\ ~is_monitoring
    /\ \A u \in Threads : Starting(u) => u = t
    /\ stack[t] = <<"start_monitor">> => snd_age = 0 /\ rcv_age = 0

NewIsIdle ==
  connect = "new" => ~on_monitor /\ ~is_monitoring /\ \A t \in Threads : Idle(t)

(* What was destroyed is not started again. *)
Gone ==
  destroyed => connect = "down" /\ ~on_monitor /\ \A t \in Threads : ~Starting(t)

(* The next look comes before the silence is too long. *)
LookAhead ==
  is_monitoring =>
    /\ due > 0 \/ fired > 0 \/ \E t \in Threads : At(t, "silenced")
    /\ snd_age + due < MaxWait + Seconds \/ rcv_age + due < MaxWait + Seconds

IInv ==
  /\ TypeOK /\ StackShape /\ OneStart /\ NewIsIdle /\ Gone
  /\ DestructorCovered /\ LookAhead

-----------------------------------------------------------------------------
(* What a thread has still to do after a call of disconnected().           *)
LEMMA DownTail ==
  ASSUME NEW s \in Seq(Downs), s # <<>>, NEW calls \in Seq(Downs)
  PROVE  calls \o Tail(s) \in Seq(Downs)
<1>1. Tail(s) \in Seq(Downs)
  OBVIOUS
<1>2. QED
  BY <1>1

LEMMA DownIsCall ==
  ASSUME NEW s \in Seq(Downs)
  PROVE  s \in Seq(Calls) /\ \A f \in Ups : s # <<f>>
<1>1. s \in Seq(Calls)
  BY DEF Downs, Calls
<1>2. ASSUME NEW f \in Ups, s = <<f>>
      PROVE  FALSE
  <2>1. Len(s) = 1 /\ s[1] = f
    BY <1>2
  <2>2. s[1] \in Downs
    BY <2>1
  <2>3. QED
    BY <2>1, <2>2 DEF Ups, Downs
<1>3. QED
  BY <1>1, <1>2

LEMMA InitOK == Init => IInv
<1> SUFFICES ASSUME Init
             PROVE  IInv
  OBVIOUS
<1>1. <<>> \in Seq(Downs) /\ <<>> \in Seq(Calls)
  OBVIOUS
<1>2. \A t \in Threads : stack[t] = <<>>
  BY DEF Init
<1>3. StackShape /\ \A t \in Threads : ~Starting(t)
  BY <1>1, <1>2, DownIsCall DEF StackShape, Starting
<1>4. TypeOK
  <2>1. stack \in [Threads -> Seq(Calls)]
    BY <1>1 DEF Init
  <2>2. MaxAge \in Nat /\ Seconds \in Nat /\ MaxLate \in Nat
    BY TimeAssumption DEF MaxAge
  <2>3. /\ connect = "new" /\ is_monitoring = FALSE /\ on_monitor = FALSE
        /\ due = 0 /\ fired = 0 /\ aborted = 0
        /\ snd_age = 0 /\ rcv_age = 0 /\ late = 0
    BY DEF Init
  <2>4. is_monitoring \in BOOLEAN /\ on_monitor \in BOOLEAN /\ destroyed \in BOOLEAN
    BY Zenon DEF Init
  <2>5. QED
    BY <2>1, <2>2, <2>3, <2>4 DEF TypeOK
<1>5. QED
  BY <1>2, <1>3, <1>4
     DEF Init, IInv, OneStart, NewIsIdle, Gone, DestructorCovered, Waits, LookAhead, Idle

(* A step that gives one thread calls of disconnected() to make starts     *)
(* nothing.                                                                *)
LEMMA StackDown ==
  ASSUME TypeOK, StackShape, NEW t \in Threads, NEW s \in Seq(Downs),
         stack' = [stack EXCEPT ![t] = s]
  PROVE  /\ stack' \in [Threads -> Seq(Calls)]
         /\ StackShape'
         /\ \A u \in Threads : Starting(u)' => Starting(u) /\ stack'[u] = stack[u]
         /\ ~At(t, "silenced") =>
              \A u \in Threads : At(u, "silenced") => At(u, "silenced")'
<1>1. s \in Seq(Calls) /\ \A f \in Ups : s # <<f>>
  BY DownIsCall
<1>2. stack \in [Threads -> Seq(Calls)]
  BY DEF TypeOK
<1>3. \A u \in Threads : stack'[u] = IF u = t THEN s ELSE stack[u]
  BY <1>2
<1>4. stack' \in [Threads -> Seq(Calls)]
  BY <1>1, <1>2
<1>5. \A u \in Threads : Starting(u)' => Starting(u) /\ stack'[u] = stack[u]
  BY <1>1, <1>3 DEF Starting
<1>6. StackShape'
  BY <1>3 DEF StackShape, Starting
<1>7. ASSUME ~At(t, "silenced"), NEW u \in Threads, At(u, "silenced")
      PROVE  At(u, "silenced")'
  BY <1>3, <1>7 DEF At
<1>8. QED
  BY <1>4, <1>5, <1>6, <1>7

(* A thread that starts something has nothing else to do. *)
LEMMA LoneTail ==
  ASSUME NEW f, NEW calls \in Seq(Calls)
  PROVE  calls \o Tail(<<f>>) = calls
<1>1. Tail(<<f>>) = <<>>
  OBVIOUS
<1>2. calls \o <<>> = calls
  OBVIOUS
<1>3. QED
  BY <1>1, <1>2

(* The parts of the invariant about stacks, for a step that starts nothing *)
(* and, while a start is to come, leaves the flags and does not let the    *)
(* ages grow under start_monitor.                                          *)
LEMMA QuietStart ==
  ASSUME OneStart,
         \A u \in Threads : Starting(u)' => Starting(u) /\ stack'[u] = stack[u],
         \A u \in Threads : Starting(u) =>
           /\ ~on_monitor' /\ ~is_monitoring'
           /\ stack[u] = <<"start_monitor">> /\ snd_age = 0 /\ rcv_age = 0
                => snd_age' = 0 /\ rcv_age' = 0
  PROVE  OneStart'
<1>1. SUFFICES ASSUME NEW u \in Threads, Starting(u)'
               PROVE  /\ ~on_monitor' /\ ~is_monitoring'
                      /\ \A w \in Threads : Starting(w)' => w = u
                      /\ stack'[u] = <<"start_monitor">> => snd_age' = 0 /\ rcv_age' = 0
  BY DEF OneStart
<1>2. Starting(u) /\ stack'[u] = stack[u]
  BY <1>1
<1>3. \A w \in Threads : Starting(w)' => w = u
  BY <1>2 DEF OneStart
<1>4. stack[u] = <<"start_monitor">> => snd_age = 0 /\ rcv_age = 0
  BY <1>2 DEF OneStart
<1>5. QED
  BY <1>1, <1>2, <1>3, <1>4

(* Gone, for a step that starts nothing and renews no wait of a destroyed  *)
(* dog.                                                                    *)
LEMMA QuietGone ==
  ASSUME Gone, destroyed' = destroyed,
         \A u \in Threads : Starting(u)' => Starting(u),
         destroyed => connect' = "down" /\ ~on_monitor'
  PROVE  Gone'
BY DEF Gone

(* A thread that makes a call of disconnected(), or a step of the timer's  *)
(* handler, is not Starting.                                               *)
LEMMA AtDown ==
  ASSUME TypeOK, StackShape, NEW t \in Threads, NEW f \in Downs, At(t, f)
  PROVE  stack[t] \in Seq(Downs) /\ stack[t] # <<>>
<1>1. ASSUME NEW g \in Ups, stack[t] = <<g>>
      PROVE  FALSE
  <2>1. g = f
    BY <1>1 DEF At
  <2>2. QED
    BY <1>1, <2>1 DEF Ups, Downs
<1>2. QED
  BY <1>1 DEF At, StackShape, Starting

(* A thread about to call connected() or start_monitor() is the one that   *)
(* starts, and calls nothing else.                                         *)
LEMMA AtUp ==
  ASSUME TypeOK, StackShape, NEW t \in Threads, NEW f \in Ups, At(t, f)
  PROVE  Starting(t) /\ stack[t] = <<f>>
<1>1. stack[t] \notin Seq(Downs)
  <2>1. SUFFICES ASSUME stack[t] \in Seq(Downs)
                 PROVE  FALSE
    OBVIOUS
  <2>2. Head(stack[t]) \in Downs
    BY <2>1 DEF At
  <2>3. QED
    BY <2>2 DEF At, Ups, Downs
<1>2. Starting(t)
  BY <1>1 DEF StackShape
<1>3. PICK g \in Ups : stack[t] = <<g>>
  BY <1>2 DEF Starting
<1>4. QED
  BY <1>2, <1>3 DEF At
-----------------------------------------------------------------------------
LEMMA TickOK == IInv /\ Tick => IInv'
<1> SUFFICES ASSUME IInv, Tick
             PROVE  IInv'
  OBVIOUS
<1> USE DEF IInv, Tick
<1>1. TypeOK'
  BY TimeAssumption DEF TypeOK, Older, MaxAge
<1>2. StackShape' /\ \A u \in Threads : Starting(u)' <=> Starting(u)
  BY DEF StackShape, Starting
<1>3. OneStart'
  <2>1. \A u \in Threads : Starting(u) => stack[u] # <<"start_monitor">>
    <3>1. SUFFICES ASSUME NEW u \in Threads, stack[u] = <<"start_monitor">>
                   PROVE  FALSE
      OBVIOUS
    <3>2. Idle(u) \/ At(u, "connected")
      OBVIOUS
    <3>3. QED
      BY <3>1, <3>2 DEF Idle, At
  <2>2. QED
    BY <1>2, <2>1 DEF OneStart
<1>4. NewIsIdle' /\ Gone'
  BY <1>2, QuietGone DEF NewIsIdle, Gone
<1>5. DestructorCovered'
  BY TimeAssumption DEF DestructorCovered, Waits, TypeOK
<1>6. LookAhead'
  <2>1. \A u \in Threads : ~At(u, "silenced")
    BY DEF At, Idle
  <2>2. QED
    BY <2>1, TimeAssumption DEF LookAhead, TypeOK, Older, MaxAge
<1>7. QED
  BY <1>1, <1>2, <1>3, <1>4, <1>5, <1>6

LEMMA MarkOK == IInv /\ Mark => IInv'
<1> SUFFICES ASSUME IInv, Mark
             PROVE  IInv'
  OBVIOUS
<1> USE DEF IInv, Mark, timer
<1>1. TypeOK'
  BY TimeAssumption DEF TypeOK, MaxAge, Result
<1>2. StackShape' /\ OneStart' /\ NewIsIdle' /\ Gone'
  BY DEF StackShape, Starting, OneStart, NewIsIdle, Gone, Idle
<1>3. DestructorCovered'
  BY DEF DestructorCovered, Waits
<1>4. LookAhead'
  BY TimeAssumption DEF LookAhead, TypeOK, MaxAge, At
<1>5. QED
  BY <1>1, <1>2, <1>3, <1>4

(* The steps of a thread that has calls to make.                           *)
LEMMA ConnectedOK == ASSUME IInv, NEW t \in Threads, connected(t) PROVE IInv'
<1> USE DEF IInv
<1>1. Starting(t) /\ stack[t] = <<"connected">>
  BY AtUp DEF connected, Ups
<1>2. <<"start_monitor">> \o Tail(stack[t]) = <<"start_monitor">>
  BY <1>1, LoneTail DEF Calls
<1>3. stack' = [stack EXCEPT ![t] = <<"start_monitor">>]
  BY <1>2, Zenon DEF connected, Then
<1>4. <<"start_monitor">> \in Seq(Calls)
  BY DEF Calls
<1>5. TypeOK'
  <2>1. stack' \in [Threads -> Seq(Calls)]
    BY <1>3, <1>4 DEF TypeOK
  <2>2. QED
    BY <2>1, TimeAssumption DEF connected, TypeOK, timer, MaxAge
<1>6. \A u \in Threads : stack'[u] = IF u = t THEN <<"start_monitor">> ELSE stack[u]
  BY <1>3 DEF TypeOK
<1>7. StackShape' /\ \A u \in Threads : Starting(u)' <=> Starting(u)
  BY <1>1, <1>6 DEF StackShape, Starting, Ups
<1>8. OneStart'
  BY <1>7 DEF OneStart, connected
<1>9. NewIsIdle' /\ DestructorCovered' /\ Gone'
  BY <1>1, <1>7 DEF NewIsIdle, Gone, Idle, connected, DestructorCovered, Waits, timer
<1>10. LookAhead'
  BY <1>1 DEF LookAhead, connected, OneStart
<1>11. QED
  BY <1>5, <1>7, <1>8, <1>9, <1>10

LEMMA StartMonitorOK == ASSUME IInv, NEW t \in Threads, start_monitor(t) PROVE IInv'
<1> USE DEF IInv
<1>1. Starting(t) /\ stack[t] = <<"start_monitor">>
  BY AtUp DEF start_monitor, Ups
<1>2. <<>> \o Tail(stack[t]) = <<>>
  BY <1>1, LoneTail
<1>3. stack' = [stack EXCEPT ![t] = <<>>]
  BY <1>2, Zenon DEF start_monitor, Then
<1>4. <<>> \in Seq(Downs)
  OBVIOUS
<1>5. /\ stack' \in [Threads -> Seq(Calls)] /\ StackShape'
      /\ \A u \in Threads : Starting(u)' => Starting(u) /\ stack'[u] = stack[u]
  BY <1>3, <1>4, StackDown
<1>6. stack'[t] = <<>>
  BY <1>3 DEF TypeOK
<1>7. \A u \in Threads : ~Starting(u)'
  BY <1>1, <1>4, <1>5, <1>6, DownIsCall DEF OneStart, Starting
<1>8. ~on_monitor /\ ~is_monitoring /\ snd_age = 0 /\ rcv_age = 0 /\ ~destroyed
  BY <1>1 DEF OneStart, Gone
<1>9. due = 0 /\ fired = 0 /\ aborted = 0
  BY <1>8 DEF DestructorCovered, Waits, TypeOK
<1>10. on_monitor' /\ is_monitoring' /\ on_monitor' \in BOOLEAN /\ is_monitoring' \in BOOLEAN
  BY Zenon DEF start_monitor, start_timer
<1>11. TypeOK'
  BY <1>5, <1>9, <1>10, TimeAssumption
     DEF TypeOK, start_monitor, start_timer, Cancelled, ages, MaxAge
<1>12. OneStart' /\ NewIsIdle' /\ Gone'
  BY <1>1, <1>7, <1>8 DEF OneStart, NewIsIdle, Gone, Idle, start_monitor
<1>13. DestructorCovered'
  BY <1>8, <1>9, <1>10, TimeAssumption
     DEF DestructorCovered, Waits, start_monitor, start_timer, Cancelled
<1>14. LookAhead'
  BY <1>8, TimeAssumption DEF LookAhead, start_monitor, start_timer, ages
<1>15. QED
  BY <1>5, <1>11, <1>12, <1>13, <1>14

LEMMA StopMonitorOK == ASSUME IInv, NEW t \in Threads, stop_monitor(t) PROVE IInv'
<1> USE DEF IInv
<1>1. stack[t] \in Seq(Downs) /\ stack[t] # <<>>
  BY AtDown DEF stop_monitor, Downs
<1>2. <<"let_it_down">> \in Seq(Downs)
  BY DEF Downs
<1>3. <<"let_it_down">> \o Tail(stack[t]) \in Seq(Downs)
  BY <1>1, <1>2, DownTail
<1>4. stack' = [stack EXCEPT ![t] = <<"let_it_down">> \o Tail(stack[t])]
  BY Zenon DEF stop_monitor, Then
<1>5. /\ stack' \in [Threads -> Seq(Calls)] /\ StackShape'
      /\ \A u \in Threads : Starting(u)' => Starting(u) /\ stack'[u] = stack[u]
  BY <1>3, <1>4, StackDown
<1>6. is_monitoring' \in BOOLEAN /\ ~is_monitoring'
  BY Zenon DEF stop_monitor
<1>7. TypeOK'
  BY <1>5, <1>6, TimeAssumption
     DEF TypeOK, stop_monitor, Cancelled, ages, MaxAge, DestructorCovered, Waits
<1>8. OneStart'
  BY <1>5, <1>6, QuietStart DEF OneStart, stop_monitor, ages
<1>9. NewIsIdle' /\ Gone'
  BY <1>1, <1>5, QuietGone DEF NewIsIdle, Gone, Idle, stop_monitor
<1>10. DestructorCovered' /\ LookAhead'
  BY <1>6 DEF DestructorCovered, Waits, LookAhead, TypeOK, stop_monitor, Cancelled
<1>11. QED
  BY <1>5, <1>7, <1>8, <1>9, <1>10

LEMMA LetItDownOK == ASSUME IInv, NEW t \in Threads, let_it_down(t) PROVE IInv'
<1> USE DEF IInv
<1> DEFINE calls == IF connect = "up" THEN <<"stop_monitor", "stop_monitor">> ELSE <<>>
<1>1. stack[t] \in Seq(Downs) /\ stack[t] # <<>>
  BY AtDown DEF let_it_down, Downs
<1>2. calls \in Seq(Downs)
  <2>1. <<"stop_monitor", "stop_monitor">> \in Seq(Downs) /\ <<>> \in Seq(Downs)
    BY DEF Downs
  <2>2. QED
    BY <2>1
<1>3. calls \o Tail(stack[t]) \in Seq(Downs)
  BY <1>1, <1>2, DownTail
<1>4. stack' = [stack EXCEPT ![t] = calls \o Tail(stack[t])]
  BY Zenon DEF let_it_down, Then
<1> HIDE DEF calls
<1>5. /\ stack' \in [Threads -> Seq(Calls)] /\ StackShape'
      /\ \A u \in Threads : Starting(u)' => Starting(u) /\ stack'[u] = stack[u]
      /\ \A u \in Threads : At(u, "silenced") => At(u, "silenced")'
  <2>1. ~At(t, "silenced")
    BY DEF At, let_it_down
  <2>2. QED
    BY <1>3, <1>4, <2>1, StackDown
<1>6. TypeOK'
  BY <1>5, TimeAssumption DEF TypeOK, let_it_down, timer, ages, MaxAge
<1>7. OneStart'
  BY <1>5, QuietStart DEF OneStart, let_it_down, ages
<1>8. NewIsIdle' /\ Gone'
  BY <1>5, QuietGone DEF NewIsIdle, Gone, let_it_down
<1>9. DestructorCovered' /\ LookAhead'
  BY <1>5 DEF DestructorCovered, Waits, LookAhead, let_it_down, timer, ages
<1>10. QED
  BY <1>5, <1>6, <1>7, <1>8, <1>9
LEMMA SilencedOK == ASSUME IInv, NEW t \in Threads, silenced(t) PROVE IInv'
<1> USE DEF IInv
<1>1. stack[t] \in Seq(Downs) /\ stack[t] # <<>>
  BY AtDown DEF silenced, Downs
<1>2. <<"let_it_down">> \o Tail(stack[t]) \in Seq(Downs)
  <2>1. <<"let_it_down">> \in Seq(Downs)
    BY DEF Downs
  <2>2. QED
    BY <1>1, <2>1, DownTail
<1>3. stack' = [stack EXCEPT ![t] = <<"let_it_down">> \o Tail(stack[t])]
  BY Zenon DEF silenced, Then
<1>4. /\ stack' \in [Threads -> Seq(Calls)] /\ StackShape'
      /\ \A u \in Threads : Starting(u)' => Starting(u) /\ stack'[u] = stack[u]
  BY <1>2, <1>3, StackDown
<1>5. is_monitoring' \in BOOLEAN /\ ~is_monitoring'
  BY Zenon DEF silenced
<1>6. TypeOK'
  BY <1>4, <1>5, TimeAssumption DEF TypeOK, silenced, timer, ages, MaxAge
<1>7. OneStart'
  BY <1>4, <1>5, QuietStart DEF OneStart, silenced, ages
<1>8. NewIsIdle' /\ Gone'
  BY <1>1, <1>4, QuietGone DEF NewIsIdle, Gone, Idle, silenced
<1>9. DestructorCovered' /\ LookAhead'
  BY <1>5 DEF DestructorCovered, Waits, LookAhead, silenced, timer
<1>10. QED
  BY <1>4, <1>6, <1>7, <1>8, <1>9

LEMMA ReturnsOK == ASSUME IInv, NEW t \in Threads, returns(t) PROVE IInv'
<1> USE DEF IInv
<1>1. stack[t] \in Seq(Downs) /\ stack[t] # <<>>
  BY AtDown DEF returns, Downs
<1>2. <<>> \o Tail(stack[t]) \in Seq(Downs)
  BY <1>1, DownTail
<1>3. stack' = [stack EXCEPT ![t] = <<>> \o Tail(stack[t])]
  BY Zenon DEF returns, Then
<1>4. /\ stack' \in [Threads -> Seq(Calls)] /\ StackShape'
      /\ \A u \in Threads : Starting(u)' => Starting(u) /\ stack'[u] = stack[u]
      /\ \A u \in Threads : At(u, "silenced") => At(u, "silenced")'
  <2>1. ~At(t, "silenced")
    BY DEF At, returns
  <2>2. QED
    BY <1>2, <1>3, <2>1, StackDown
<1>5. TypeOK'
  BY <1>4, TimeAssumption DEF TypeOK, returns, timer, ages, MaxAge
<1>6. OneStart'
  BY <1>4, QuietStart DEF OneStart, returns, ages
<1>7. NewIsIdle' /\ Gone'
  BY <1>1, <1>4, QuietGone DEF NewIsIdle, Gone, Idle, returns
<1>8. DestructorCovered' /\ LookAhead'
  BY <1>4 DEF DestructorCovered, Waits, LookAhead, returns, timer, ages
<1>9. QED
  BY <1>4, <1>5, <1>6, <1>7, <1>8

(* A thread that is still in the session has no start before it.           *)
LEMMA DestroyOK == IInv /\ Destroy => IInv'
<1> SUFFICES ASSUME IInv, Destroy
             PROVE  IInv'
  OBVIOUS
<1> USE DEF IInv, Destroy
<1>1. destroyed' \in BOOLEAN /\ destroyed'
  BY Zenon
<1>2. TypeOK'
  BY <1>1 DEF TypeOK, timer, ages
<1>3. StackShape' /\ OneStart' /\ NewIsIdle'
  BY DEF StackShape, Starting, OneStart, NewIsIdle, Idle, ages
<1>4. \A t \in Threads : ~Starting(t)
  <2>1. SUFFICES ASSUME NEW t \in Threads, NEW f \in Ups, stack[t] = <<f>>
                 PROVE  FALSE
    BY DEF Starting
  <2>2. Last(stack[t]) = f /\ stack[t] # <<>>
    BY <2>1 DEF Last
  <2>3. f \in {"unlock", "return"}
    BY <2>2 DEF Idle, InHandler
  <2>4. QED
    BY <2>3 DEF Ups
<1>5. Gone'
  BY <1>4 DEF Gone, Starting
<1>6. DestructorCovered' /\ LookAhead'
  BY DEF DestructorCovered, Waits, LookAhead, timer, ages, At
<1>7. QED
  BY <1>2, <1>3, <1>5, <1>6
-----------------------------------------------------------------------------
(* What an idle thread takes up.                                           *)
LEMMA LetItUpOK == ASSUME IInv, NEW t \in Threads, let_it_up(t) PROVE IInv'
<1> USE DEF IInv
<1>1. connect = "new" /\ \A u \in Threads : stack[u] = <<>>
  BY DEF let_it_up, NewIsIdle, Idle
<1>2. stack' = [stack EXCEPT ![t] = <<"connected">>]
  BY DEF let_it_up, Begins
<1>3. \A u \in Threads : stack'[u] = IF u = t THEN <<"connected">> ELSE <<>>
  BY <1>1, <1>2 DEF TypeOK
<1>4. <<>> \in Seq(Downs) /\ <<"connected">> \in Seq(Calls)
  BY DEF Calls
<1>5. \A u \in Threads : Starting(u)' <=> u = t
  BY <1>3, <1>4, DownIsCall DEF Starting, Ups
<1>6. StackShape'
  BY <1>3, <1>4, <1>5 DEF StackShape
<1>7. TypeOK'
  <2>1. stack' \in [Threads -> Seq(Calls)]
    BY <1>2, <1>4 DEF TypeOK
  <2>2. QED
    BY <2>1, TimeAssumption DEF let_it_up, TypeOK, timer, ages, MaxAge
<1>8. OneStart'
  <2>1. <<"connected">> # <<"start_monitor">>
    <3>1. <<"connected">>[1] = "connected" /\ <<"start_monitor">>[1] = "start_monitor"
      OBVIOUS
    <3>2. QED
      BY <3>1
  <2>2. QED
    BY <1>1, <1>3, <1>5, <2>1 DEF OneStart, NewIsIdle, let_it_up
<1>9. NewIsIdle' /\ Gone' /\ DestructorCovered' /\ LookAhead'
  BY <1>1 DEF NewIsIdle, Gone, DestructorCovered, Waits, LookAhead, let_it_up, timer, ages
<1>10. QED
  BY <1>6, <1>7, <1>8, <1>9

LEMMA FailOK == ASSUME IInv, NEW t \in Threads, Fail(t) PROVE IInv'
<1> USE DEF IInv
<1>1. stack' = [stack EXCEPT ![t] = <<"let_it_down">>] /\ <<"let_it_down">> \in Seq(Downs)
  BY DEF Fail, Begins, Downs
<1>2. /\ stack' \in [Threads -> Seq(Calls)] /\ StackShape'
      /\ \A u \in Threads : Starting(u)' => Starting(u) /\ stack'[u] = stack[u]
      /\ \A u \in Threads : At(u, "silenced") => At(u, "silenced")'
  <2>1. ~At(t, "silenced")
    BY DEF At, Fail, Begins, Idle
  <2>2. QED
    BY <1>1, <2>1, StackDown
<1>3. TypeOK'
  BY <1>2, TimeAssumption DEF TypeOK, Fail, Result, timer, ages, MaxAge
<1>4. OneStart'
  BY <1>2, QuietStart DEF OneStart, Fail, ages
<1>5. NewIsIdle' /\ Gone' /\ DestructorCovered' /\ LookAhead'
  BY <1>2 DEF NewIsIdle, Gone, DestructorCovered, Waits, LookAhead, Fail, Result, timer, ages
<1>6. QED
  BY <1>2, <1>3, <1>4, <1>5

LEMMA HandlerStoppedOK == ASSUME IInv, NEW t \in Threads, HandlerStopped(t) PROVE IInv'
<1> USE DEF IInv
<1>1. ~on_monitor' /\ on_monitor' \in BOOLEAN
  BY Zenon DEF HandlerStopped
<1>2. on_monitor /\ ~destroyed
  BY DEF HandlerStopped, DestructorCovered, Waits, Gone, TypeOK
<1>3. stack' = [stack EXCEPT ![t] = <<"unlock">>] /\ <<"unlock">> \in Seq(Downs)
  BY DEF HandlerStopped, Begins, Downs
<1>4. /\ stack' \in [Threads -> Seq(Calls)] /\ StackShape'
      /\ \A u \in Threads : Starting(u)' => Starting(u) /\ stack'[u] = stack[u]
  BY <1>3, StackDown
<1>5. TypeOK'
  BY <1>1, <1>4 DEF TypeOK, HandlerStopped, ages
<1>6. OneStart'
  BY <1>2, <1>4 DEF OneStart
<1>7. NewIsIdle' /\ Gone'
  BY <1>2 DEF NewIsIdle, Gone, HandlerStopped
<1>8. DestructorCovered'
  BY <1>1, <1>2 DEF DestructorCovered, Waits, TypeOK, HandlerStopped
<1>9. ~is_monitoring
  <2>1. \A u \in Threads : ~At(u, "silenced")
    BY DEF HandlerStopped, Locked
  <2>2. QED
    BY <2>1 DEF LookAhead, DestructorCovered, Waits, TypeOK, HandlerStopped
<1>10. LookAhead'
  BY <1>9 DEF LookAhead, HandlerStopped
<1>11. QED
  BY <1>4, <1>5, <1>6, <1>7, <1>8, <1>10

LEMMA HandlerFeedsOK == ASSUME IInv, NEW t \in Threads, HandlerFeeds(t) PROVE IInv'
<1> USE DEF IInv
<1>1. on_monitor' /\ on_monitor' \in BOOLEAN
  BY Zenon DEF HandlerFeeds, start_timer
<1>2. on_monitor /\ due = 0 /\ aborted = 0 /\ fired = 1 /\ ~destroyed
  BY DEF HandlerFeeds, DestructorCovered, Waits, Gone, TypeOK
<1>3. TypeOK'
  BY <1>1, <1>2, TimeAssumption DEF TypeOK, HandlerFeeds, start_timer, Cancelled, ages
<1>4. StackShape' /\ OneStart'
  BY <1>2 DEF StackShape, OneStart, Starting, HandlerFeeds, ages
<1>5. NewIsIdle' /\ Gone'
  BY <1>2 DEF NewIsIdle, Gone, HandlerFeeds
<1>6. DestructorCovered'
  BY <1>1, <1>2, TimeAssumption
     DEF DestructorCovered, Waits, HandlerFeeds, start_timer, Cancelled
<1>7. LookAhead'
  BY <1>2, TimeAssumption
     DEF LookAhead, TypeOK, MaxAge, HandlerFeeds, start_timer, is_to_feed, ages
<1>8. QED
  BY <1>3, <1>4, <1>5, <1>6, <1>7

(* From here until is_monitoring is cleared, the thread itself is what     *)
(* LookAhead counts on.                                                    *)
LEMMA HandlerFindsSilenceOK ==
  ASSUME IInv, NEW t \in Threads, HandlerFindsSilence(t) PROVE IInv'
<1> USE DEF IInv
<1>1. /\ stack' = [stack EXCEPT ![t] = <<"silenced", "return">>]
      /\ <<"silenced", "return">> \in Seq(Downs)
  BY DEF HandlerFindsSilence, Begins, Downs
<1>2. /\ stack' \in [Threads -> Seq(Calls)] /\ StackShape'
      /\ \A u \in Threads : Starting(u)' => Starting(u) /\ stack'[u] = stack[u]
  BY <1>1, StackDown
<1>3. on_monitor /\ due = 0 /\ aborted = 0 /\ fired = 1 /\ ~destroyed
  BY DEF HandlerFindsSilence, DestructorCovered, Waits, Gone, TypeOK
<1>4. ~on_monitor' /\ on_monitor' \in BOOLEAN
  BY Zenon DEF HandlerFindsSilence
<1>5. TypeOK'
  BY <1>2, <1>3, <1>4, TimeAssumption DEF TypeOK, HandlerFindsSilence, ages, MaxAge
<1>6. OneStart'
  BY <1>2, <1>3 DEF OneStart
<1>7. NewIsIdle' /\ Gone'
  BY <1>3 DEF NewIsIdle, Gone, HandlerFindsSilence
<1>8. DestructorCovered'
  BY <1>3, <1>4 DEF DestructorCovered, Waits, HandlerFindsSilence
<1>9. At(t, "silenced")'
  <2>1. stack'[t] = <<"silenced", "return">>
    BY <1>1 DEF TypeOK
  <2>2. QED
    BY <2>1 DEF At
<1>10. LookAhead'
  BY <1>9 DEF LookAhead, HandlerFindsSilence, ages
<1>11. QED
  BY <1>2, <1>5, <1>6, <1>7, <1>8, <1>10
-----------------------------------------------------------------------------
LEMMA NextOK == IInv /\ [Next]_vars => IInv'
<1> SUFFICES ASSUME IInv, [Next]_vars
             PROVE  IInv'
  OBVIOUS
<1>1. ASSUME NEW t \in Threads, let_it_up(t) \/ Fail(t)
      PROVE  IInv'
  BY <1>1, LetItUpOK, FailOK
<1>2. ASSUME NEW t \in Threads, Inside(t)
      PROVE  IInv'
  BY <1>2, ConnectedOK, StartMonitorOK, StopMonitorOK, LetItDownOK, SilencedOK, ReturnsOK
     DEF Inside
<1>3. ASSUME NEW t \in Threads, timer_handler(t)
      PROVE  IInv'
  BY <1>3, HandlerStoppedOK, HandlerFeedsOK, HandlerFindsSilenceOK DEF timer_handler
<1>4. CASE UNCHANGED vars
  BY <1>4 DEF vars, timer, ages, IInv, TypeOK, StackShape, OneStart, NewIsIdle,
              Gone, DestructorCovered, Waits, LookAhead, Starting, Idle, At
<1>5. QED
  BY <1>1, <1>2, <1>3, <1>4, TickOK, MarkOK, DestroyOK DEF Next

(* The inductive invariant holds of every behaviour of the dog. *)
THEOREM Invariance == Spec => []IInv
<1>1. QED
  BY InitOK, NextOK, PTL DEF Spec

(* At most one wait is out, whatever the threads of the session do. *)
THEOREM TypeCorrect == Spec => []TypeOK
<1>1. IInv => TypeOK
  BY DEF IInv
<1>2. QED
  BY <1>1, Invariance, PTL

(* DestructorCovered: on_monitor, on which ~lt_watch_dog waits, is set     *)
(* exactly while a wait is armed or its handler has not come to the line   *)
(* that clears it, and no handler begins once the dog is destroyed.        *)
THEOREM DestructorCoveredHolds == Spec => []DestructorCovered
<1>1. IInv => DestructorCovered
  BY DEF IInv
<1>2. QED
  BY <1>1, Invariance, PTL

(* A monitored session is never silent for max_wait_seconds and a period   *)
(* of the timer, for every limit and every period.                         *)
THEOREM SilenceBoundedHolds == Spec => []SilenceBounded
<1>1. IInv => SilenceBounded
  BY TimeAssumption DEF IInv, LookAhead, SilenceBounded, TypeOK, MaxAge
<1>2. QED
  BY <1>1, Invariance, PTL
=============================================================================
