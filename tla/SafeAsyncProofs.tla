---------------------------- MODULE SafeAsyncProofs ----------------------------
(***************************************************************************)
(* For any set of threads and of calls, and any length of the queue:       *)
(* the interface is mutually exclusive, queued pairs and owed callbacks    *)
(* are neither lost nor duplicated, and the queue implements SerialExec.   *)
(***************************************************************************)
EXTENDS SafeAsync, TLAPS

\* Each call is submitted once, and has left "new" exactly if it was.
OrderOnce ==
  /\ \A i, j \in 1 .. Len(order) : order[i] = order[j] => i = j
  /\ \A o \in Ops : stage[o] # "new" <=> \E i \in 1 .. Len(order) : order[i] = o

\* The operation a thread is about to start is a chosen one, and its own.
InHandChosen ==
  /\ \A t \in Threads : funcs[t] # NoOp => stage[funcs[t]] = "chosen"
  /\ \A t, u \in Threads : funcs[t] # NoOp /\ funcs[t] = funcs[u] => t = u

IInv == TypeOK /\ OneInFlight /\ QueueIsSuffix /\ OwedOnce /\ OrderOnce /\ InHandChosen

-------------------------------------------------------------------------------
\* The lengths and elements of the three sequence operations the queue uses.
LEMMA AppendFacts ==
  ASSUME NEW S, NEW s \in Seq(S), NEW e \in S
  PROVE  /\ Append(s, e) \in Seq(S)
         /\ Len(Append(s, e)) = Len(s) + 1
         /\ \A i \in 1 .. Len(s) : Append(s, e)[i] = s[i]
         /\ Append(s, e)[Len(s) + 1] = e
OBVIOUS

LEMMA TailFacts ==
  ASSUME NEW S, NEW s \in Seq(S), s # <<>>
  PROVE  /\ Head(s) \in S
         /\ Head(s) = s[1]
         /\ Tail(s) \in Seq(S)
         /\ Len(s) \in Nat \ {0}
         /\ Len(Tail(s)) = Len(s) - 1
         /\ \A i \in 1 .. (Len(s) - 1) : Tail(s)[i] = s[i + 1]
OBVIOUS

\* A step that leaves tmp_list alone and drops nothing leaves the owed callbacks.
LEMMA OwedFrame ==
  ASSUME OwedOnce, tmp_list' = tmp_list,
         \A p \in Ops : stage'[p] = "dropped" <=> stage[p] = "dropped"
  PROVE  OwedOnce'
  BY DEF OwedOnce

LEMMA InitIInv == Init => IInv
  <1> SUFFICES ASSUME Init PROVE IInv
    OBVIOUS
  <1> USE DEF Init
  <1>a. <<>> \in Seq(Ops)
    OBVIOUS
  <1>1. TypeOK
    BY <1>a DEF TypeOK, Stages
  <1>2. OneInFlight /\ QueueIsSuffix
    BY DEF OneInFlight, InFlight, QueueIsSuffix
  <1>3. OwedOnce /\ OrderOnce /\ InHandChosen
    BY DEF OwedOnce, OrderOnce, InHandChosen
  <1> QED
    BY <1>1, <1>2, <1>3 DEF IInv

-------------------------------------------------------------------------------
\* begin_to, both branches.
LEMMA BeginToIInv ==
  ASSUME IInv, NEW t \in Threads, NEW o \in Ops, BeginTo(t, o)
  PROVE  IInv'
  <1> USE DEF IInv, BeginTo, Idle
  <1>a. /\ order' \in Seq(Ops)
        /\ Len(order') = Len(order) + 1
        /\ \A i \in 1 .. Len(order) : order'[i] = order[i]
        /\ order'[Len(order) + 1] = o
    BY AppendFacts DEF TypeOK
  <1>n. \A i \in 1 .. Len(order) : order[i] # o /\ order[i] \in Ops
    BY DEF OrderOnce, TypeOK
  <1>1. CASE Enqueue(t, o)
    <2> USE <1>1 DEF Enqueue
    <2>a. /\ func_list' \in Seq(Ops)
          /\ Len(func_list') = Len(func_list) + 1
          /\ \A i \in 1 .. Len(func_list) : func_list'[i] = func_list[i]
          /\ func_list'[Len(func_list) + 1] = o
      BY AppendFacts DEF TypeOK
    <2>1. TypeOK'
      BY <1>a, <2>a DEF TypeOK, Stages
    <2>2. OneInFlight'
      BY DEF OneInFlight, InFlight, TypeOK
    <2>3. QueueIsSuffix'
      <3>1. Len(order') - Len(func_list') = Len(order) - Len(func_list)
        BY <1>a, <2>a DEF TypeOK
      <3>2. Len(func_list') <= Len(order')
        BY <1>a, <2>a DEF QueueIsSuffix, TypeOK
      <3> SUFFICES ASSUME NEW i \in 1 .. Len(order')
                   PROVE  LET k == i - (Len(order) - Len(func_list))
                          IN  IF k < 1 THEN stage'[order'[i]] # "queued"
                              ELSE stage'[order'[i]] = "queued" /\ order'[i] = func_list'[k]
        BY <3>1, <3>2 DEF QueueIsSuffix
      <3>3. CASE i = Len(order) + 1
        BY <3>3, <1>a, <2>a DEF QueueIsSuffix, TypeOK
      <3>4. CASE i \in 1 .. Len(order)
        <4>1. order'[i] = order[i] /\ stage'[order[i]] = stage[order[i]]
          BY <3>4, <1>a, <1>n DEF TypeOK
        <4>2. i - (Len(order) - Len(func_list)) <= Len(func_list)
          BY <3>4 DEF TypeOK
        <4> QED
          BY SMTT(30), <3>4, <4>1, <4>2, <2>a, <3>1 DEF QueueIsSuffix, TypeOK
      <3> QED
        <4>1. i \in 1 .. Len(order) \/ i = Len(order) + 1
          BY <1>a DEF TypeOK
        <4> QED
          BY <3>3, <3>4, <4>1
    <2>4. OwedOnce'
      BY OwedFrame DEF TypeOK
    <2>5. OrderOnce'
      BY SMTT(30), <1>a, <1>n DEF OrderOnce, TypeOK
    <2>6. InHandChosen'
      BY DEF InHandChosen, TypeOK
    <2> QED
      BY <2>1, <2>2, <2>3, <2>4, <2>5, <2>6
  <1>2. CASE Claim(t, o)
    <2> USE <1>2 DEF Claim
    <2>a. func_list = <<>>
      BY DEF OneInFlight
    <2>1. TypeOK'
      BY <1>a DEF TypeOK, Stages
    <2>2. OneInFlight'
      BY <2>a DEF OneInFlight, InFlight, TypeOK
    <2>3. QueueIsSuffix'
      BY <1>a, <1>n, <2>a DEF QueueIsSuffix, TypeOK
    <2>4. OwedOnce'
      BY OwedFrame DEF TypeOK
    <2>5. OrderOnce'
      BY SMTT(30), <1>a, <1>n DEF OrderOnce, TypeOK
    <2>6. InHandChosen'
      BY NoOpAssumption DEF InHandChosen, TypeOK
    <2> QED
      BY <2>1, <2>2, <2>3, <2>4, <2>5, <2>6
  <1> QED
    BY <1>1, <1>2

\* The call of f().
LEMMA CallFIInv ==
  ASSUME IInv, NEW t \in Threads, CallF(t)
  PROVE  IInv'
  <1> USE DEF IInv, CallF
  <1> DEFINE o == funcs[t]
  <1>a. o \in Ops /\ stage[o] = "chosen"
    BY DEF InHandChosen, TypeOK
  <1>1. TypeOK'
    BY <1>a DEF TypeOK, Stages
  <1>2. OneInFlight'
    BY <1>a DEF OneInFlight, InFlight, TypeOK
  <1>3. QueueIsSuffix'
    BY <1>a DEF QueueIsSuffix, TypeOK
  <1>4. OwedOnce'
    BY <1>a, OwedFrame DEF TypeOK
  <1>5. OrderOnce'
    BY <1>a DEF OrderOnce, TypeOK
  <1>6. InHandChosen'
    BY <1>a DEF InHandChosen, TypeOK, OneInFlight, InFlight
  <1> QED
    BY <1>1, <1>2, <1>3, <1>4, <1>5, <1>6

\* continue_to, on an empty and on a non-empty queue.
LEMMA ContinueToIInv ==
  ASSUME IInv, NEW t \in Threads, NEW o \in Ops, ContinueTo(t, o)
  PROVE  IInv'
  <1> USE DEF IInv, ContinueTo, Idle
  <1>1. CASE func_list = <<>>
    <2> USE <1>1
    <2>1. TypeOK'
      BY DEF TypeOK, Stages
    <2>2. OneInFlight'
      BY DEF OneInFlight, InFlight, TypeOK
    <2>3. QueueIsSuffix'
      BY DEF QueueIsSuffix, TypeOK
    <2>4. OwedOnce'
      BY OwedFrame DEF TypeOK
    <2>5. OrderOnce'
      BY DEF OrderOnce, TypeOK
    <2>6. InHandChosen'
      BY DEF InHandChosen, TypeOK
    <2> QED
      BY <2>1, <2>2, <2>3, <2>4, <2>5, <2>6
  <1>2. CASE func_list # <<>>
    <2> USE <1>2
    <2> DEFINE h == Head(func_list)
               ahead == Len(order) - Len(func_list)
    <2>a. /\ h \in Ops
          /\ h = func_list[1]
          /\ Tail(func_list) \in Seq(Ops)
          /\ Len(func_list) \in Nat \ {0}
          /\ Len(Tail(func_list)) = Len(func_list) - 1
          /\ \A i \in 1 .. (Len(func_list) - 1) : Tail(func_list)[i] = func_list[i + 1]
      BY TailFacts DEF TypeOK
    <2>b. ahead \in Nat /\ ahead + 1 \in 1 .. Len(order)
      BY <2>a DEF QueueIsSuffix, TypeOK
    <2>c. order[ahead + 1] = h /\ stage[h] = "queued"
      <3>1. (ahead + 1) - (Len(order) - Len(func_list)) = 1
        BY <2>a DEF TypeOK
      <3> QED
        BY SMTT(30), <3>1, <2>a, <2>b DEF QueueIsSuffix
    <2>d. /\ h # o
          /\ stage' \in [Ops -> Stages]
          /\ stage'[h] = "chosen" /\ stage'[o] = "ended"
          /\ \A p \in Ops \ {h, o} : stage'[p] = stage[p]
      BY <2>a, <2>c DEF TypeOK, Stages
    <2>1. TypeOK'
      BY <2>a, <2>d DEF TypeOK
    <2>2. OneInFlight'
      BY ZenonT(60), <2>a, <2>c, <2>d DEF OneInFlight, InFlight, TypeOK
    <2>3. QueueIsSuffix'
      <3>1. Len(order') - Len(func_list') = ahead + 1 /\ Len(func_list') <= Len(order')
        <4>1. Len(order) \in Nat /\ Len(order) >= Len(func_list)
          BY DEF QueueIsSuffix, TypeOK
        <4>2. order' = order /\ func_list' = Tail(func_list)
          OBVIOUS
        <4> HIDE DEF IInv, ContinueTo
        <4> QED
          BY <4>1, <4>2, <2>a
      <3> SUFFICES ASSUME NEW i \in 1 .. Len(order)
                   PROVE  LET k == i - (ahead + 1)
                          IN  IF k < 1 THEN stage'[order[i]] # "queued"
                              ELSE stage'[order[i]] = "queued" /\ order[i] = func_list'[k]
        BY <3>1, <2>b DEF QueueIsSuffix, TypeOK
      <3>2. order[i] \in Ops /\ ahead \in Nat /\ i \in Nat
        BY <2>b DEF TypeOK
      <3>3. CASE i <= ahead
        <4>1. stage[order[i]] # "queued"
          BY SMTT(30), <3>2, <3>3 DEF QueueIsSuffix, TypeOK
        <4>2. stage'[order[i]] # "queued"
          BY <4>1, <3>2, <2>d
        <4> QED
          BY <4>2, <3>2, <3>3
      <3>4. CASE i = ahead + 1
        BY <3>2, <3>4, <2>c, <2>d
      <3>5. CASE i > ahead + 1
        <4>1. stage[order[i]] = "queued" /\ order[i] = func_list[i - ahead]
          BY SMTT(30), <3>2, <3>5 DEF QueueIsSuffix, TypeOK
        <4>2. order[i] # o /\ order[i] # h
          BY <4>1, <2>b, <2>c, <3>2, <3>5 DEF OrderOnce
        <4>3. i - (ahead + 1) \in 1 .. (Len(func_list) - 1)
          BY <3>2, <3>5, <2>a DEF TypeOK
        <4>4. func_list'[i - (ahead + 1)] = func_list[i - ahead]
          <5> DEFINE k == i - (ahead + 1)
          <5>1. k + 1 = i - ahead
            BY <3>2
          <5>2. Tail(func_list)[k] = func_list[k + 1]
            BY <4>3, <2>a
          <5> QED
            BY <5>1, <5>2
        <4> QED
          BY <4>1, <4>2, <4>4, <3>2, <3>5, <2>d
      <3> QED
        <4> HIDE DEF IInv, ContinueTo, ahead
        <4>1. i <= ahead \/ i = ahead + 1 \/ i > ahead + 1
          BY <3>2
        <4> QED
          BY <3>3, <3>4, <3>5, <4>1
    <2>4. OwedOnce'
      BY <2>a, <2>c, <2>d, OwedFrame DEF TypeOK
    <2>5. OrderOnce'
      BY ZenonT(60), <2>c, <2>d DEF OrderOnce, TypeOK
    <2>6. InHandChosen'
      <3>1. funcs' = [funcs EXCEPT ![t] = h]
        OBVIOUS
      <3>2. \A u \in Threads : funcs[u] # NoOp => funcs[u] \in Ops \ {h, o}
        BY <2>a, <2>c DEF InHandChosen, TypeOK
      <3>3. h # NoOp /\ funcs[t] = NoOp
        BY <2>a, NoOpAssumption
      <3> HIDE DEF IInv, ContinueTo, h
      <3>4. InHandChosen /\ funcs \in [Threads -> Ops \cup {NoOp}]
        BY DEF IInv, TypeOK
      <3>5. \A u \in Threads : funcs'[u] = IF u = t THEN h ELSE funcs[u]
        BY <3>1, <3>4
      <3> QED
        BY <3>2, <3>3, <3>4, <3>5, <2>d DEF InHandChosen
    <2> QED
      BY <2>1, <2>2, <2>3, <2>4, <2>5, <2>6
  <1> QED
    BY <1>1, <1>2

\* clear: the queued operations move to tmp_list, all of them and no others.
LEMMA ClearIInv ==
  ASSUME IInv, NEW t \in Threads, Clear(t)
  PROVE  IInv'
  <1> USE DEF IInv, Clear, Idle
  <1> DEFINE ahead == Len(order) - Len(func_list)
  <1>a. /\ Len(order) \in Nat /\ Len(func_list) \in Nat /\ ahead \in Nat
        /\ \A k \in 1 .. Len(func_list) :
             /\ ahead + k \in 1 .. Len(order)
             /\ (ahead + k) - (Len(order) - Len(func_list)) = k
             /\ func_list[k] \in Ops
    BY DEF QueueIsSuffix, TypeOK
  <1>b. \A k \in 1 .. Len(func_list) :
          order[ahead + k] = func_list[k] /\ stage[func_list[k]] = "queued"
    <2> SUFFICES ASSUME NEW k \in 1 .. Len(func_list)
                 PROVE  order[ahead + k] = func_list[k] /\ stage[func_list[k]] = "queued"
      OBVIOUS
    <2> DEFINE i == ahead + k
    <2>1. /\ i \in 1 .. Len(order) /\ i - (Len(order) - Len(func_list)) = k
          /\ ~ k < 1
      BY <1>a
    <2>2. QueueIsSuffix
      OBVIOUS
    <2> HIDE DEF IInv, Clear, i
    <2>3. stage[order[i]] = "queued" /\ order[i] = func_list[k]
      BY <2>1, <2>2 DEF QueueIsSuffix
    <2> QED
      BY <2>3 DEF i
  <1>c. \A k, l \in 1 .. Len(func_list) : func_list[k] = func_list[l] => k = l
    <2> SUFFICES ASSUME NEW k \in 1 .. Len(func_list), NEW l \in 1 .. Len(func_list),
                        func_list[k] = func_list[l]
                 PROVE  k = l
      OBVIOUS
    <2>1. ahead + k = ahead + l
      <3>1. /\ ahead + k \in 1 .. Len(order) /\ ahead + l \in 1 .. Len(order)
            /\ order[ahead + k] = order[ahead + l]
        BY <1>a, <1>b
      <3> HIDE DEF ahead
      <3> QED
        BY <3>1 DEF OrderOnce
    <2> HIDE DEF IInv, ahead
    <2> QED
      BY <2>1, <1>a
  <1>d. \A o \in Ops : stage[o] = "queued" =>
          \E k \in 1 .. Len(func_list) : func_list[k] = o
    <2> SUFFICES ASSUME NEW o \in Ops, stage[o] = "queued"
                 PROVE  \E k \in 1 .. Len(func_list) : func_list[k] = o
      OBVIOUS
    <2>1. PICK i \in 1 .. Len(order) : order[i] = o
      BY DEF OrderOnce
    <2>2. ~ i - (Len(order) - Len(func_list)) < 1 /\ o = func_list[i - ahead]
      BY <2>1 DEF QueueIsSuffix
    <2>3. i - ahead \in 1 .. Len(func_list)
      BY <1>a, <2>2
    <2> QED
      BY <2>2, <2>3
  <1>1. TypeOK'
    BY DEF TypeOK, Stages
  <1>2. OneInFlight'
    BY DEF OneInFlight, InFlight, TypeOK
  <1>3. QueueIsSuffix'
    <2>1. func_list' = <<>> /\ order' = order /\ order \in Seq(Ops)
      BY DEF TypeOK
    <2>2. \A i \in 1 .. Len(order) : stage'[order[i]] # "queued"
      BY DEF TypeOK
    <2> HIDE DEF IInv, Clear
    <2> QED
      BY <2>1, <2>2 DEF QueueIsSuffix
  <1>4. OwedOnce'
    <2>1. /\ tmp_list'[t] = func_list
          /\ tmp_list[t] = <<>>
          /\ \A u \in Threads \ {t} : tmp_list'[u] = tmp_list[u]
          /\ \A o \in Ops : stage'[o] = "dropped" <=> stage[o] \in {"queued", "dropped"}
      BY DEF TypeOK
    <2>2. /\ OwedOnce
          /\ \A u \in Threads : tmp_list[u] \in Seq(Ops)
      BY DEF TypeOK
    <2>3. \A u \in Threads : \A i \in 1 .. Len(tmp_list[u]) :
            tmp_list[u][i] \in Ops /\ stage[tmp_list[u][i]] = "dropped"
      BY <2>2 DEF OwedOnce
    <2> HIDE DEF IInv, Clear, Idle
    <2>4. \A u \in Threads : \A i, j \in 1 .. Len(tmp_list'[u]) :
            tmp_list'[u][i] = tmp_list'[u][j] => i = j
      BY <2>1, <2>2, <1>c DEF OwedOnce
    <2>5. \A o \in Ops : stage'[o] = "dropped" <=>
            \E u \in Threads : \E i \in 1 .. Len(tmp_list'[u]) : tmp_list'[u][i] = o
      <3> SUFFICES ASSUME NEW o \in Ops
                   PROVE  stage'[o] = "dropped" <=>
                            \E u \in Threads : \E i \in 1 .. Len(tmp_list'[u]) :
                              tmp_list'[u][i] = o
        OBVIOUS
      <3>1. CASE stage[o] = "queued"
        BY <3>1, <2>1, <1>d
      <3>2. CASE stage[o] = "dropped"
        <4>1. PICK u \in Threads : \E i \in 1 .. Len(tmp_list[u]) : tmp_list[u][i] = o
          BY <3>2, <2>2 DEF OwedOnce
        <4>2. u # t
          BY <4>1, <2>1
        <4> QED
          BY <4>1, <4>2, <3>2, <2>1
      <3>3. CASE stage[o] \notin {"queued", "dropped"}
        <4> SUFFICES ASSUME NEW u \in Threads, NEW i \in 1 .. Len(tmp_list'[u])
                     PROVE  tmp_list'[u][i] # o
          BY <3>3, <2>1
        <4>1. CASE u = t
          BY <4>1, <3>3, <2>1, <1>b
        <4>2. CASE u # t
          BY <4>2, <3>3, <2>1, <2>3
        <4> QED
          BY <4>1, <4>2
      <3> QED
        BY <3>1, <3>2, <3>3
    <2>6. \A u, v \in Threads :
            \A i \in 1 .. Len(tmp_list'[u]) : \A j \in 1 .. Len(tmp_list'[v]) :
              tmp_list'[u][i] = tmp_list'[v][j] => u = v
      <3> SUFFICES ASSUME NEW u \in Threads, NEW v \in Threads, u # v,
                          NEW i \in 1 .. Len(tmp_list'[u]), NEW j \in 1 .. Len(tmp_list'[v])
                   PROVE  tmp_list'[u][i] # tmp_list'[v][j]
        OBVIOUS
      <3>1. CASE u = t
        BY SMTT(30), <3>1, <2>1, <2>3, <1>b
      <3>2. CASE v = t
        BY SMTT(30), <3>2, <2>1, <2>3, <1>b
      <3>3. CASE u # t /\ v # t
        BY SMTT(30), <3>3, <2>1, <2>2 DEF OwedOnce
      <3> QED
        BY <3>1, <3>2, <3>3
    <2> QED
      BY <2>4, <2>5, <2>6 DEF OwedOnce
  <1>5. OrderOnce'
    BY DEF OrderOnce, TypeOK
  <1>6. InHandChosen'
    BY DEF InHandChosen, TypeOK
  <1> QED
    BY <1>1, <1>2, <1>3, <1>4, <1>5, <1>6

\* One callback of clear's loop.
LEMMA CallCallbackIInv ==
  ASSUME IInv, NEW t \in Threads, CallCallback(t)
  PROVE  IInv'
  <1> USE DEF IInv, CallCallback
  <1> DEFINE h == Head(tmp_list[t])
             rest == Tail(tmp_list[t])
  <1>a. /\ h \in Ops
        /\ h = tmp_list[t][1]
        /\ rest \in Seq(Ops)
        /\ Len(tmp_list[t]) \in Nat \ {0}
        /\ Len(rest) = Len(tmp_list[t]) - 1
        /\ \A i \in 1 .. (Len(tmp_list[t]) - 1) : rest[i] = tmp_list[t][i + 1]
    BY TailFacts DEF TypeOK
  <1>b. /\ stage[h] = "dropped"
        /\ stage' = [stage EXCEPT ![h] = "cancelled"]
        /\ tmp_list' = [tmp_list EXCEPT ![t] = rest]
    BY <1>a DEF OwedOnce
  <1>1. TypeOK'
    BY <1>a, <1>b DEF TypeOK, Stages
  <1>2. OneInFlight'
    BY <1>a, <1>b DEF OneInFlight, InFlight, TypeOK
  <1>3. QueueIsSuffix'
    BY <1>a, <1>b DEF QueueIsSuffix, TypeOK
  <1>4. OwedOnce'
    <2>1. /\ tmp_list'[t] = rest
          /\ \A u \in Threads \ {t} : tmp_list'[u] = tmp_list[u]
          /\ \A o \in Ops : stage'[o] = "dropped" <=> stage[o] = "dropped" /\ o # h
      BY <1>a, <1>b DEF TypeOK
    <2>2. OwedOnce /\ \A u \in Threads : tmp_list[u] \in Seq(Ops)
      BY DEF TypeOK
    <2> HIDE DEF IInv, CallCallback, h, rest
    <2>3. \A i \in 1 .. Len(rest) :
            i + 1 \in 2 .. Len(tmp_list[t]) /\ rest[i] = tmp_list[t][i + 1] /\ rest[i] # h
      BY <1>a, <2>2 DEF OwedOnce
    <2>4. \A u \in Threads : \A i, j \in 1 .. Len(tmp_list'[u]) :
            tmp_list'[u][i] = tmp_list'[u][j] => i = j
      <3> SUFFICES ASSUME NEW u \in Threads, NEW i \in 1 .. Len(tmp_list'[u]),
                          NEW j \in 1 .. Len(tmp_list'[u]),
                          tmp_list'[u][i] = tmp_list'[u][j]
                   PROVE  i = j
        OBVIOUS
      <3>1. CASE u = t
        <4>1. /\ i + 1 \in 1 .. Len(tmp_list[t]) /\ j + 1 \in 1 .. Len(tmp_list[t])
              /\ tmp_list[t][i + 1] = tmp_list[t][j + 1]
          BY <3>1, <2>1, <2>3, <1>a
        <4>2. i + 1 = j + 1
          BY <4>1, <2>2 DEF OwedOnce
        <4> QED
          BY <4>2, <3>1, <2>1, <1>a
      <3>2. CASE u # t
        BY <3>2, <2>1, <2>2 DEF OwedOnce
      <3> QED
        BY <3>1, <3>2
    <2>5. \A o \in Ops : stage'[o] = "dropped" <=>
            \E u \in Threads : \E i \in 1 .. Len(tmp_list'[u]) : tmp_list'[u][i] = o
      <3> SUFFICES ASSUME NEW o \in Ops
                   PROVE  stage'[o] = "dropped" <=>
                            \E u \in Threads : \E i \in 1 .. Len(tmp_list'[u]) :
                              tmp_list'[u][i] = o
        OBVIOUS
      <3>1. CASE stage[o] = "dropped" /\ o # h
        <4>1. PICK u \in Threads : \E i \in 1 .. Len(tmp_list[u]) : tmp_list[u][i] = o
          BY <3>1, <2>2 DEF OwedOnce
        <4>2. PICK i \in 1 .. Len(tmp_list[u]) : tmp_list[u][i] = o
          BY <4>1
        <4>3. CASE u = t
          <5>1. i # 1 /\ i - 1 \in 1 .. Len(rest) /\ (i - 1) + 1 = i
            BY <4>2, <4>3, <3>1, <1>a
          <5>2. rest[i - 1] = o
            BY <5>1, <4>2, <4>3, <1>a
          <5> QED
            BY <5>1, <5>2, <2>1, <3>1
        <4>4. CASE u # t
          BY <4>2, <4>4, <2>1, <3>1
        <4> QED
          BY <4>3, <4>4
      <3>2. CASE stage[o] # "dropped" \/ o = h
        <4> SUFFICES ASSUME NEW u \in Threads, NEW i \in 1 .. Len(tmp_list'[u])
                     PROVE  tmp_list'[u][i] # o
          BY <3>2, <2>1
        <4>1. CASE u = t
          <5>1. i + 1 \in 1 .. Len(tmp_list[t]) /\ i \in 1 .. Len(rest)
            BY <4>1, <2>1, <1>a
          <5> QED
            BY <5>1, <4>1, <3>2, <2>1, <2>2, <2>3 DEF OwedOnce
        <4>2. CASE u # t /\ stage[o] # "dropped"
          BY <4>2, <2>1, <2>2 DEF OwedOnce
        <4>3. CASE u # t /\ o = h
          <5>1. 1 \in 1 .. Len(tmp_list[t]) /\ tmp_list[t][1] = h
            BY <1>a
          <5>2. tmp_list'[u] = tmp_list[u]
            BY <4>3, <2>1
          <5> QED
            BY <5>1, <5>2, <4>3, <2>2 DEF OwedOnce
        <4> QED
          BY <4>1, <4>2, <4>3, <3>2
      <3> QED
        BY <3>1, <3>2
    <2>6. \A u, v \in Threads :
            \A i \in 1 .. Len(tmp_list'[u]) : \A j \in 1 .. Len(tmp_list'[v]) :
              tmp_list'[u][i] = tmp_list'[v][j] => u = v
      <3> SUFFICES ASSUME NEW u \in Threads, NEW v \in Threads, u # v,
                          NEW i \in 1 .. Len(tmp_list'[u]), NEW j \in 1 .. Len(tmp_list'[v])
                   PROVE  tmp_list'[u][i] # tmp_list'[v][j]
        OBVIOUS
      <3>1. \A w \in Threads : \A k \in 1 .. Len(tmp_list'[w]) :
              \E l \in 1 .. Len(tmp_list[w]) : tmp_list[w][l] = tmp_list'[w][k]
        <4> SUFFICES ASSUME NEW w \in Threads, NEW k \in 1 .. Len(tmp_list'[w])
                     PROVE  \E l \in 1 .. Len(tmp_list[w]) : tmp_list[w][l] = tmp_list'[w][k]
          OBVIOUS
        <4>1. CASE w = t
          <5>1. k + 1 \in 1 .. Len(tmp_list[t]) /\ rest[k] = tmp_list[t][k + 1]
            BY <4>1, <2>1, <1>a
          <5> QED
            BY <5>1, <4>1, <2>1
        <4>2. CASE w # t
          BY <4>2, <2>1
        <4> QED
          BY <4>1, <4>2
      <3> QED
        BY <3>1, <2>2 DEF OwedOnce
    <2> QED
      BY <2>4, <2>5, <2>6 DEF OwedOnce
  <1>5. OrderOnce'
    BY <1>a, <1>b DEF OrderOnce, TypeOK
  <1>6. InHandChosen'
    BY <1>a, <1>b DEF InHandChosen, TypeOK
  <1> QED
    BY <1>1, <1>2, <1>3, <1>4, <1>5, <1>6

LEMMA NextIInv == IInv /\ [Next]_vars => IInv'
  <1> SUFFICES ASSUME IInv, [Next]_vars PROVE IInv'
    OBVIOUS
  <1>1. ASSUME NEW t \in Threads, NEW o \in Ops, BeginTo(t, o)
        PROVE  IInv'
    BY <1>1, BeginToIInv
  <1>2. ASSUME NEW t \in Threads, NEW o \in Ops, ContinueTo(t, o)
        PROVE  IInv'
    BY <1>2, ContinueToIInv
  <1>3. ASSUME NEW t \in Threads, CallF(t)
        PROVE  IInv'
    BY <1>3, CallFIInv
  <1>4. ASSUME NEW t \in Threads, Clear(t)
        PROVE  IInv'
    BY <1>4, ClearIInv
  <1>5. ASSUME NEW t \in Threads, CallCallback(t)
        PROVE  IInv'
    BY <1>5, CallCallbackIInv
  <1>6. CASE UNCHANGED vars
    BY <1>6 DEF vars, IInv, TypeOK, OneInFlight, InFlight, QueueIsSuffix, OwedOnce,
                OrderOnce, InHandChosen
  <1> QED
    BY <1>1, <1>2, <1>3, <1>4, <1>5, <1>6 DEF Next

\* The inductive invariant holds in every reachable state of the queue.
THEOREM Invariance == Spec => []IInv
  BY InitIInv, NextIInv, PTL DEF Spec

\* Type correctness of the queue's state.
THEOREM TypeCorrect == Spec => []TypeOK
  <1>1. IInv => TypeOK
    BY DEF IInv
  <1> QED
    BY Invariance, <1>1, PTL

\* A call of the interface never overlaps another, and no pair is stranded in
\* the queue: what the header of lt_async_2safe_async promises.
THEOREM MutualExclusion == Spec => []OneInFlight
  <1>1. IInv => OneInFlight
    BY DEF IInv
  <1> QED
    BY Invariance, <1>1, PTL

\* func_list is the unsettled tail of the submission order at all times.
THEOREM QueueOrder == Spec => []QueueIsSuffix
  <1>1. IInv => QueueIsSuffix
    BY DEF IInv
  <1> QED
    BY Invariance, <1>1, PTL

\* Each cancellation callback is owed by one thread, once.
THEOREM CallbacksOwedOnce == Spec => []OwedOnce
  <1>1. IInv => OwedOnce
    BY DEF IInv
  <1> QED
    BY Invariance, <1>1, PTL

-------------------------------------------------------------------------------
(* The queue implements SerialExec.                                        *)

LEMMA InitRefines == Init => Serial!Init
  BY DEF Init, Serial!Init, Abstract

\* A step that changes the phase of one operation is an EXCEPT of the mapping.
LEMMA MappedUpdate ==
  ASSUME NEW o \in Ops, NEW v, Abstract(stage'[o]) = v,
         \A p \in Ops \ {o} : Abstract(stage'[p]) = Abstract(stage[p])
  PROVE  [p \in Ops |-> Abstract(stage'[p])] =
           [[p \in Ops |-> Abstract(stage[p])] EXCEPT ![o] = v]
  OBVIOUS

LEMMA BeginToRefines ==
  ASSUME IInv, NEW t \in Threads, NEW o \in Ops, BeginTo(t, o)
  PROVE  Serial!Submit(o)
  <1>1. /\ stage \in [Ops -> Stages] /\ stage[o] = "new"
        /\ \/ stage' = [stage EXCEPT ![o] = "queued"]
           \/ stage' = [stage EXCEPT ![o] = "chosen"]
        /\ order' = Append(order, o)
    BY DEF IInv, TypeOK, BeginTo, Enqueue, Claim
  <1>2. Abstract(stage'[o]) = "waiting" /\ \A p \in Ops \ {o} : stage'[p] = stage[p]
    BY <1>1 DEF Abstract
  <1>3. [p \in Ops |-> Abstract(stage'[p])] =
          [[p \in Ops |-> Abstract(stage[p])] EXCEPT ![o] = "waiting"]
    BY <1>2, MappedUpdate
  <1> QED
    BY <1>1, <1>3 DEF Serial!Submit, Abstract

\* No queued operation precedes a chosen one, and no other one is in flight.
LEMMA CallFRefines ==
  ASSUME IInv, NEW t \in Threads, CallF(t)
  PROVE  Serial!Start(funcs[t])
  <1> USE DEF IInv
  <1> DEFINE o == funcs[t]
             ahead == Len(order) - Len(func_list)
  <1>1. o \in Ops /\ stage[o] = "chosen" /\ stage' = [stage EXCEPT ![o] = "running"]
    BY DEF CallF, InHandChosen, TypeOK
  <1>2. Serial!NoneActive
    BY <1>1 DEF Serial!NoneActive, Abstract, OneInFlight, InFlight, TypeOK, Stages
  <1>3. PICK i \in 1 .. Len(order) : order[i] = o
    BY <1>1 DEF OrderOnce
  <1>4. i - ahead < 1
    BY <1>1, <1>3 DEF QueueIsSuffix
  <1>5. \A j \in 1 .. (i - 1) :
          order[j] \in Ops /\ stage[order[j]] \notin {"queued", "chosen"}
    <2> SUFFICES ASSUME NEW j \in 1 .. (i - 1)
                 PROVE  order[j] \in Ops /\ stage[order[j]] \notin {"queued", "chosen"}
      OBVIOUS
    <2>1. j \in 1 .. Len(order) /\ j # i /\ order[j] \in Ops
      BY <1>3 DEF TypeOK
    <2>2. j - ahead < 1
      BY <1>4, <2>1 DEF TypeOK
    <2>3. stage[order[j]] # "queued"
      BY <2>1, <2>2 DEF QueueIsSuffix
    <2>4. order[j] # o
      BY <2>1, <1>3 DEF OrderOnce
    <2> QED
      BY <2>1, <2>3, <2>4, <1>1 DEF OneInFlight, InFlight
  <1>6. Serial!FirstWaiting(i)
    BY <1>5 DEF Serial!FirstWaiting, Abstract, TypeOK, Stages
  <1>7. [p \in Ops |-> Abstract(stage'[p])] =
          [[p \in Ops |-> Abstract(stage[p])] EXCEPT ![o] = "active"]
    BY <1>1 DEF Abstract, TypeOK, Stages
  <1>8. order' = order
    BY DEF CallF
  <1> QED
    BY <1>1, <1>2, <1>3, <1>6, <1>7, <1>8 DEF Serial!Start, Abstract

LEMMA ContinueToRefines ==
  ASSUME IInv, NEW t \in Threads, NEW o \in Ops, ContinueTo(t, o)
  PROVE  Serial!Finish(o)
  <1> USE DEF IInv, ContinueTo
  <1>1. stage[o] = "running" /\ order' = order /\ stage \in [Ops -> Stages]
    BY DEF TypeOK
  <1>2. /\ stage'[o] = "ended"
        /\ \A p \in Ops \ {o} : Abstract(stage'[p]) = Abstract(stage[p])
    <2>1. CASE func_list = <<>>
      BY <2>1, <1>1
    <2>2. CASE func_list # <<>>
      <3> DEFINE h == Head(func_list)
      <3>1. /\ Len(func_list) \in Nat \ {0} /\ Len(func_list) <= Len(order)
            /\ h \in Ops /\ h = func_list[1] /\ Len(order) \in Nat
        BY <2>2, TailFacts DEF TypeOK, QueueIsSuffix
      <3>2. /\ Len(order) - Len(func_list) + 1 \in 1 .. Len(order)
            /\ (Len(order) - Len(func_list) + 1) - (Len(order) - Len(func_list)) = 1
        BY <3>1
      <3>3. stage[h] = "queued"
        <4> DEFINE i == Len(order) - Len(func_list) + 1
        <4>1. ~ i - (Len(order) - Len(func_list)) < 1
          BY <3>2
        <4>2. stage[order[i]] = "queued" /\ order[i] = func_list[1]
          BY <3>2, <4>1 DEF QueueIsSuffix
        <4> QED
          BY <4>2, <3>1
      <3>4. h # o /\ stage' = [stage EXCEPT ![o] = "ended", ![h] = "chosen"]
        BY <2>2, <3>3, <1>1
      <3>5. stage'[h] = "chosen" /\ stage'[o] = "ended"
            /\ \A p \in Ops \ {o, h} : stage'[p] = stage[p]
        BY <3>1, <3>4, <1>1
      <3> QED
        BY <3>3, <3>5 DEF Abstract
    <2> QED
      BY <2>1, <2>2
  <1>3. [p \in Ops |-> Abstract(stage'[p])] =
          [[p \in Ops |-> Abstract(stage[p])] EXCEPT ![o] = "ended"]
    <2>1. Abstract(stage'[o]) = "ended"
      BY <1>2 DEF Abstract
    <2> QED
      BY <1>2, <2>1, MappedUpdate
  <1> QED
    BY <1>1, <1>3 DEF Serial!Finish, Abstract

LEMMA ClearRefines ==
  ASSUME IInv, NEW t \in Threads, Clear(t)
  PROVE  Serial!Cancel({o \in Ops : stage[o] = "queued"})
  BY DEF IInv, TypeOK, Stages, Clear, Serial!Cancel, Abstract

LEMMA CallCallbackRefines ==
  ASSUME IInv, NEW t \in Threads, CallCallback(t)
  PROVE  \E o \in Ops : Serial!Report(o)
  <1> DEFINE h == Head(tmp_list[t])
  <1>1. /\ h \in Ops /\ h = tmp_list[t][1] /\ Len(tmp_list[t]) \in Nat \ {0}
        /\ stage \in [Ops -> Stages]
    BY TailFacts DEF IInv, TypeOK, CallCallback
  <1>2. stage[h] = "dropped"
    BY <1>1 DEF IInv, OwedOnce
  <1>3. stage' = [stage EXCEPT ![h] = "cancelled"] /\ order' = order
    BY DEF CallCallback
  <1>4. [p \in Ops |-> Abstract(stage'[p])] =
          [[p \in Ops |-> Abstract(stage[p])] EXCEPT ![h] = "cancelled"]
    <2>1. Abstract(stage'[h]) = "cancelled" /\ \A p \in Ops \ {h} : stage'[p] = stage[p]
      BY <1>1, <1>3 DEF Abstract
    <2> HIDE DEF h
    <2> QED
      BY <1>1, <2>1, MappedUpdate
  <1> QED
    BY <1>1, <1>2, <1>3, <1>4 DEF Serial!Report, Abstract

LEMMA NextRefines == IInv /\ [Next]_vars => [Serial!Next]_(Serial!vars)
  <1> SUFFICES ASSUME IInv, [Next]_vars PROVE [Serial!Next]_(Serial!vars)
    OBVIOUS
  <1>1. ASSUME NEW t \in Threads, NEW o \in Ops, BeginTo(t, o)
        PROVE  Serial!Next
    BY <1>1, BeginToRefines DEF Serial!Next
  <1>2. ASSUME NEW t \in Threads, NEW o \in Ops, ContinueTo(t, o)
        PROVE  Serial!Next
    BY <1>2, ContinueToRefines DEF Serial!Next
  <1>3. ASSUME NEW t \in Threads, CallF(t)
        PROVE  Serial!Next
    <2>1. funcs[t] \in Ops
      BY <1>3 DEF IInv, TypeOK, CallF
    <2> QED
      BY <1>3, <2>1, CallFRefines DEF Serial!Next
  <1>4. ASSUME NEW t \in Threads, Clear(t)
        PROVE  Serial!Next
    BY <1>4, ClearRefines DEF Serial!Next
  <1>5. ASSUME NEW t \in Threads, CallCallback(t)
        PROVE  Serial!Next
    BY <1>5, CallCallbackRefines DEF Serial!Next
  <1>6. CASE UNCHANGED vars
    BY <1>6 DEF vars, Serial!vars
  <1> QED
    BY <1>1, <1>2, <1>3, <1>4, <1>5, <1>6 DEF Next

\* Every behaviour of the queue is a behaviour of the serial executor: operations
\* start in submission order, one at a time, and each is ended or cancelled once.
THEOREM Implements == Spec => SerialSpec
  <1> QED
    BY Invariance, InitRefines, NextRefines, PTL DEF Spec, SerialSpec, Serial!Spec
================================================================================
