---------------------------- MODULE DeviceIoProofs ----------------------------
(***************************************************************************)
(* Every superblock access returns the status of its own request, and      *)
(* every ordinary request comes back with its own sector and status, for   *)
(* any number of layers, users and requests.                               *)
(*                                                                         *)
(* The two devices of the repository do for the superblock layers what the *)
(* layers count on: DeviceIo implements SuperIo, with any length of the    *)
(* devices' queues.  So what the first part proves of the layers holds     *)
(* over these devices, and get_io always finds the events it was promised. *)
(***************************************************************************)
EXTENDS DeviceIo, SequenceTheorems, TLAPS

-------------------------------------------------------------------------------
(* The layers.                                                             *)

\* Where an access is, what it holds and whether its answer has come.
UserOK(u) ==
  LET k == LayerOf[u] IN
  /\ pc[u] \in {"idle", "called"} => u \notin pending /\ result[u] = reported[u]
  /\ pc[u] \in {"called", "locked"} => u \notin pending /\ offset[u] = 0
  /\ pc[u] \in {"locked", "waiting"} => sync_m[k] = u
  /\ pc[u] = "locked" => is_to_wait[k]
  /\ pc[u] = "waiting" => IF u \in pending
                          THEN is_to_wait[k] /\ offset[u] = Start[k]
                          ELSE ~is_to_wait[k] /\ err[u] = reported[u]

\* Who holds sync_m is inside an access of that layer; no answer waits at a
\* layer nobody accesses.
LayerOK(k) ==
  IF sync_m[k] = Nobody THEN is_to_wait[k]
  ELSE LayerOf[sync_m[k]] = k /\ pc[sync_m[k]] \in {"locked", "waiting"}

RequestOK(r) ==
  IF r \in pending THEN offset[r] = addr[r] + Start[N + 1]
  ELSE calls[r] > 0 => /\ offset[r] = addr[r]
                       /\ answer[r] = [offset |-> addr[r], err |-> reported[r]]

IInv ==
  /\ TypeOK
  /\ \A u \in Users : UserOK(u)
  /\ \A k \in Layer : LayerOK(k)
  /\ \A r \in Reqs : RequestOK(r)

\* A completion at the sector where layer k's superblock starts is taken by
\* layer k and by no layer below it (request_done's comparison).
LEMMA FirstBelow ==
  ASSUME NEW k \in Layer
  PROVE  Below(Start[k]) # {} /\ First(Below(Start[k])) = k
<1>1. \A j \in Layer : Start[k] < Start[j + 1] <=> k <= j
  <2>1. ASSUME NEW j \in Layer, k <= j PROVE Start[k] < Start[j + 1]
    BY <2>1, LayerAssumption DEF Layer
  <2>2. ASSUME NEW j \in Layer, ~(k <= j) PROVE ~(Start[k] < Start[j + 1])
    <3>1. CASE j + 1 = k
      BY <3>1, LayerAssumption DEF Layer
    <3>2. CASE j + 1 < k
      <4>1. Start[j + 1] < Start[k]
        BY <3>2, LayerAssumption DEF Layer
      <4> QED BY <4>1, <3>2, LayerAssumption DEF Layer
    <3> QED BY <2>2, <3>1, <3>2, LayerAssumption DEF Layer
  <2> QED BY <2>1, <2>2
<1>2. k \in Below(Start[k]) /\ \A j \in Below(Start[k]) : k <= j
  BY <1>1, LayerAssumption DEF Below, Layer
<1>3. \A m \in Below(Start[k]) : (\A j \in Below(Start[k]) : m <= j) => m = k
  BY <1>2, LayerAssumption DEF Below, Layer
<1> QED BY <1>2, <1>3 DEF First

\* A completion at a data sector is taken by no layer.
LEMMA NoneBelow ==
  ASSUME NEW a \in Nat
  PROVE  Below(a + Start[N + 1]) = {}
<1>1. ASSUME NEW k \in Layer PROVE ~(a + Start[N + 1] < Start[k + 1])
  <2>1. CASE k = N
    BY <2>1, LayerAssumption DEF Layer
  <2>2. CASE k < N
    <3>1. Start[k + 1] < Start[N + 1] /\ Start[k + 1] \in Nat /\ Start[N + 1] \in Nat
      BY <2>2, LayerAssumption DEF Layer
    <3> QED BY <3>1
  <2> QED BY <2>1, <2>2, LayerAssumption DEF Layer
<1> QED BY <1>1 DEF Below

LEMMA InitIInv == Init => IInv
<1> SUFFICES ASSUME Init PROVE IInv
  OBVIOUS
<1> USE NamesAssumption, LayerAssumption DEF Init, SuperInit, Device!Init
<1>1. TypeOK
  BY DEF TypeOK, Requests, Status, PCs
<1>2. ASSUME NEW u \in Users PROVE UserOK(u)
  BY DEF UserOK, Requests
<1>3. ASSUME NEW k \in Layer PROVE LayerOK(k)
  BY DEF LayerOK
<1>4. ASSUME NEW r \in Reqs PROVE RequestOK(r)
  BY DEF RequestOK, Requests
<1> QED BY <1>1, <1>2, <1>3, <1>4 DEF IInv

-------------------------------------------------------------------------------
\* A user's own step changes nothing another user's part of the invariant reads,
\* as long as the layer's flag and lock are left to it: the users of other layers
\* read other flags, and at the same layer the lock tells them apart.
LEMMA CallInv == ASSUME IInv, NEW u \in Users, Call(u), UNCHANGED <<pending, reported>>
                 PROVE IInv'
<1> USE NamesAssumption DEF Call, IInv
<1>1. TypeOK'
  BY DEF TypeOK, Requests, PCs
<1>2. ASSUME NEW v \in Users PROVE UserOK(v)'
  BY DEF UserOK, TypeOK, Requests
<1>3. ASSUME NEW k \in Layer PROVE LayerOK(k)'
  BY DEF LayerOK, TypeOK
<1>4. ASSUME NEW r \in Reqs PROVE RequestOK(r)'
  BY DEF RequestOK, TypeOK, Requests
<1> QED BY <1>1, <1>2, <1>3, <1>4

LEMMA LockInv == ASSUME IInv, NEW u \in Users, Lock(u), UNCHANGED <<pending, reported>>
                 PROVE IInv'
<1> USE NamesAssumption, LayerAssumption DEF Lock, IInv
<1>1. TypeOK'
  BY DEF TypeOK, Requests, PCs, Status
<1>2. ASSUME NEW v \in Users PROVE UserOK(v)'
  <2>1. LayerOf[u] \in Layer /\ LayerOK(LayerOf[u])
    OBVIOUS
  <2>2. CASE v = u
    BY <2>1, <2>2 DEF UserOK, TypeOK, LayerOK, PCs
  <2>3. CASE v # u
    BY <2>1, <2>3 DEF UserOK, TypeOK, LayerOK, PCs
  <2> QED BY <2>2, <2>3
<1>3. ASSUME NEW k \in Layer PROVE LayerOK(k)'
  BY DEF LayerOK, TypeOK
<1>4. ASSUME NEW r \in Reqs PROVE RequestOK(r)'
  BY DEF RequestOK, TypeOK, Requests
<1> QED BY <1>1, <1>2, <1>3, <1>4

LEMMA SyncRequestInv == ASSUME IInv, NEW u \in Users, SyncRequest(u), Device!Request(u)
                        PROVE IInv'
<1> USE NamesAssumption, LayerAssumption DEF SyncRequest, Device!Request, IInv
<1>0. Start[LayerOf[u]] \in Nat
  BY DEF Layer
<1>1. TypeOK'
  BY SMTT(30), <1>0 DEF TypeOK, Requests, PCs
<1>2. ASSUME NEW v \in Users PROVE UserOK(v)'
  <2>1. offset[u] = 0 /\ offset'[u] = Start[LayerOf[u]]
    BY <1>0 DEF UserOK, TypeOK, Requests
  <2>2. CASE v = u
    BY <2>1, <2>2 DEF UserOK, TypeOK
  <2>3. CASE v # u
    BY <2>3 DEF UserOK, TypeOK, Requests
  <2> QED BY <2>2, <2>3
<1>3. ASSUME NEW k \in Layer PROVE LayerOK(k)'
  BY DEF LayerOK, TypeOK
<1>4. ASSUME NEW r \in Reqs PROVE RequestOK(r)'
  BY DEF RequestOK, TypeOK, Requests
<1> QED BY <1>1, <1>2, <1>3, <1>4

LEMMA WaitInv == ASSUME IInv, NEW u \in Users, Wait(u), UNCHANGED <<pending, reported>>
                 PROVE IInv'
<1> USE NamesAssumption, LayerAssumption DEF Wait, IInv
<1>0. sync_m[LayerOf[u]] = u /\ LayerOf[u] \in Layer
  BY DEF UserOK
<1>1. TypeOK'
  BY <1>0 DEF TypeOK, Requests, PCs
<1>2. ASSUME NEW v \in Users PROVE UserOK(v)'
  <2>1. CASE v = u
    BY <2>1 DEF UserOK, TypeOK
  <2>2. CASE v # u
    BY <1>0, <2>2 DEF UserOK, TypeOK
  <2> QED BY <2>1, <2>2
<1>3. ASSUME NEW k \in Layer PROVE LayerOK(k)'
  BY <1>0 DEF LayerOK, TypeOK
<1>4. ASSUME NEW r \in Reqs PROVE RequestOK(r)'
  BY DEF RequestOK, TypeOK, Requests
<1> QED BY <1>1, <1>2, <1>3, <1>4

LEMMA IssueInv == ASSUME IInv, NEW r \in Reqs, NEW a \in Addrs, DoRequest(r, a), Device!Request(r)
                  PROVE IInv'
<1> USE NamesAssumption, LayerAssumption DEF DoRequest, Device!Request, IInv
<1>0. Start[N + 1] \in Nat /\ a \in Nat /\ r \notin Users /\ r \in Requests
  BY DEF Requests
<1>1. TypeOK'
  BY SMTT(30), <1>0 DEF TypeOK
<1>2. ASSUME NEW v \in Users PROVE UserOK(v)'
  BY <1>0 DEF UserOK, TypeOK
<1>3. ASSUME NEW k \in Layer PROVE LayerOK(k)'
  BY DEF LayerOK
<1>4. ASSUME NEW q \in Reqs PROVE RequestOK(q)'
  <2>1. CASE q = r
    BY <1>0, <2>1 DEF RequestOK, TypeOK, Requests
  <2>2. CASE q # r
    BY <2>2 DEF RequestOK, TypeOK, Requests
  <2> QED BY <2>1, <2>2
<1> QED BY <1>1, <1>2, <1>3, <1>4

\* The device reports the request of a waiting user: it is routed to the layer
\* that user holds.
LEMMA ReportUserInv ==
  ASSUME IInv, NEW u \in Users, NEW s \in Status, RequestDone(u, s), Device!Report(u, s)
  PROVE  IInv'
<1> USE NamesAssumption, LayerAssumption DEF Device!Report, IInv
<1> DEFINE k == LayerOf[u]
<1>1. pc[u] = "waiting" /\ offset[u] = Start[k] /\ sync_m[k] = u /\ is_to_wait[k] /\ k \in Layer
  BY DEF UserOK, TypeOK, PCs
<1>2. Below(offset[u]) # {} /\ First(Below(offset[u])) = k
  BY <1>1, FirstBelow
<1>3. SyncRequestDone(u, k, s) /\ UNCHANGED <<sync_m, pc, result, addr, calls>>
  BY <1>2 DEF RequestDone
<1>4. Start[k] \in Nat /\ u \in Requests /\ u \notin Reqs
  BY <1>1 DEF Layer, Requests
<1>5. offset' = [offset EXCEPT ![u] = 0]
  <2>1. offset[u] - Start[k] = 0
    <3> HIDE DEF k
    <3> QED BY <1>1, <1>4
  <2> QED BY <1>3, <2>1 DEF SyncRequestDone
<1>6. TypeOK'
  <2>1. /\ offset' \in [Requests -> Nat]
        /\ is_to_wait' \in [Layer -> BOOLEAN]
        /\ err' \in [Users -> Status]
    BY <1>3, <1>4, <1>5 DEF TypeOK, SyncRequestDone
  <2> QED BY <2>1, <1>3, <1>4 DEF TypeOK, SyncRequestDone
<1>7. ASSUME NEW v \in Users PROVE UserOK(v)'
  <2>1. CASE v = u
    BY <1>1, <1>3, <1>4, <2>1 DEF UserOK, TypeOK, SyncRequestDone
  <2>2. CASE v # u
    BY <1>1, <1>3, <1>5, <2>2 DEF UserOK, TypeOK, SyncRequestDone, Requests
  <2> QED BY <2>1, <2>2
<1>8. ASSUME NEW j \in Layer PROVE LayerOK(j)'
  BY <1>1, <1>3 DEF LayerOK, TypeOK, SyncRequestDone
<1>9. ASSUME NEW r \in Reqs PROVE RequestOK(r)'
  BY <1>3, <1>4, <1>5 DEF RequestOK, TypeOK, SyncRequestDone, Requests
<1> QED BY <1>6, <1>7, <1>8, <1>9

\* The device reports an ordinary request: every layer passes it on.
LEMMA ReportRequestInv ==
  ASSUME IInv, NEW r \in Reqs, NEW s \in Status, RequestDone(r, s), Device!Report(r, s)
  PROVE  IInv'
<1> USE NamesAssumption, LayerAssumption DEF Device!Report, IInv
<1>1. offset[r] = addr[r] + Start[N + 1] /\ addr[r] \in Nat /\ Start[N + 1] \in Nat
  BY DEF RequestOK, TypeOK
<1>2. Below(offset[r]) = {}
  BY <1>1, NoneBelow
<1>3. CompleteRequest(r, s) /\ UNCHANGED <<sync_m, pc, result, addr, calls>>
  BY <1>2 DEF RequestDone
<1>4. offset[r] - Start[N + 1] = addr[r] /\ r \in Requests /\ r \notin Users
  BY <1>1 DEF Requests
<1>5. /\ offset' = [offset EXCEPT ![r] = addr[r]]
      /\ answer' = [answer EXCEPT ![r] = [offset |-> addr[r], err |-> s]]
      /\ UNCHANGED <<is_to_wait, err>>
  BY <1>3, <1>4 DEF CompleteRequest
<1>6. TypeOK'
  BY <1>1, <1>3, <1>4, <1>5 DEF TypeOK
<1>7. ASSUME NEW v \in Users PROVE UserOK(v)'
  BY <1>3, <1>4, <1>5 DEF UserOK, TypeOK, Requests
<1>8. ASSUME NEW j \in Layer PROVE LayerOK(j)'
  BY <1>3, <1>5 DEF LayerOK
<1>9. ASSUME NEW q \in Reqs PROVE RequestOK(q)'
  <2>1. CASE q = r
    BY <1>3, <1>4, <1>5, <2>1 DEF RequestOK, TypeOK
  <2>2. CASE q # r
    BY <1>3, <1>5, <2>2 DEF RequestOK, TypeOK, Requests
  <2> QED BY <2>1, <2>2
<1> QED BY <1>6, <1>7, <1>8, <1>9

LEMMA StepIInv == IInv /\ [Next]_vars => IInv'
<1> SUFFICES ASSUME IInv, [Next]_vars PROVE IInv'
  OBVIOUS
<1>1. ASSUME NEW u \in Users, UserStep(u) PROVE IInv'
  BY <1>1, CallInv, LockInv, WaitInv, SyncRequestInv DEF UserStep
<1>2. ASSUME NEW r \in Reqs, Issue(r) PROVE IInv'
  BY <1>2, IssueInv DEF Issue
<1>3. ASSUME NEW r \in Requests, Report(r) PROVE IInv'
  BY <1>3, ReportUserInv, ReportRequestInv DEF Report, Requests
<1>4. CASE UNCHANGED vars
  BY <1>4 DEF vars, superVars, IInv, TypeOK, UserOK, LayerOK, RequestOK
<1> QED BY <1>1, <1>2, <1>3, <1>4 DEF Next

THEOREM Invariance == SafetySpec => []IInv
<1> QED BY InitIInv, StepIInv, PTL DEF SafetySpec

\* TypeOK: every variable stays in its range; no layer subtracts more than was
\* added on the way down.
THEOREM TypeCorrect == SafetySpec => []TypeOK
<1>1. IInv => TypeOK
  BY DEF IInv
<1> QED BY <1>1, Invariance, PTL

\* OwnStatus: an access is woken by the completion of its own request and
\* returns that request's status (sync_request, stronger_cond).
THEOREM OwnStatusHolds == SafetySpec => []OwnStatus
<1>1. IInv => OwnStatus
  <2> SUFFICES ASSUME IInv PROVE OwnStatus
    OBVIOUS
  <2> USE NamesAssumption DEF IInv
  <2>1. ASSUME NEW u \in Users, pc[u] \in {"idle", "called"}
        PROVE  u \notin pending /\ result[u] = reported[u]
    BY <2>1 DEF UserOK
  <2>2. ASSUME NEW k \in Layer, ~is_to_wait[k]
        PROVE  \E u \in Users : /\ LayerOf[u] = k /\ sync_m[k] = u /\ pc[u] = "waiting"
                                /\ u \notin pending /\ err[u] = reported[u]
    <3> DEFINE u == sync_m[k]
    <3>1. u \in Users /\ LayerOf[u] = k /\ pc[u] \in {"locked", "waiting"}
      BY <2>2 DEF LayerOK, TypeOK
    <3>2. pc[u] = "waiting" /\ u \notin pending /\ err[u] = reported[u]
      BY <2>2, <3>1 DEF UserOK
    <3> QED BY <3>1, <3>2
  <2> QED BY <2>1, <2>2 DEF OwnStatus
<1> QED BY <1>1, Invariance, PTL

\* OffsetRestored: an ordinary request comes back with the sector it was issued
\* for and its own status, through any number of layers (request_done).
THEOREM OffsetRestoredHolds == SafetySpec => []OffsetRestored
<1>1. IInv => OffsetRestored
  BY DEF IInv, RequestOK, OffsetRestored
<1> QED BY <1>1, Invariance, PTL

-------------------------------------------------------------------------------
(* The devices below them.                                                 *)

Elements(s) == {s[i] : i \in DOMAIN s}

\* What the device of this kind has been given and has not reported.
InDevice == IF kind = "aio" THEN AioPending ELSE QueuePending

DeviceTypeOK ==
  /\ kind \in {"aio", "queue"}
  /\ kernel \subseteq Requests
  /\ ring \in Seq(Requests)
  /\ unsignalled \in Nat /\ event_fd \in Nat /\ tasks \in Nat /\ left \in Nat
  /\ armed \in BOOLEAN
  /\ io_request_queue \in Seq(Requests \cup {NoRequest})
  /\ hand \in Requests \cup {NoRequest}

\* A device holds a request in one place.
OnePlace ==
  /\ \A i, j \in DOMAIN ring : ring[i] = ring[j] => i = j
  /\ kernel \cap Elements(ring) = {}
  /\ \A i, j \in DOMAIN io_request_queue :
       io_request_queue[i] = io_request_queue[j] /\ io_request_queue[i] # NoRequest => i = j
  /\ hand # NoRequest => hand \notin Elements(io_request_queue)

DeviceInv ==
  /\ IInv
  /\ DeviceTypeOK /\ OnePlace
  /\ EventsCovered
  /\ pending = InDevice

-------------------------------------------------------------------------------
(* The devices' queues.                                                    *)

LEMMA AppendElements ==
  ASSUME NEW S, NEW s \in Seq(S), NEW e \in S
  PROVE  /\ Append(s, e) \in Seq(S) /\ Len(Append(s, e)) = Len(s) + 1
         /\ Elements(Append(s, e)) = Elements(s) \cup {e}
         /\ \A i \in DOMAIN Append(s, e) :
              IF i \in DOMAIN s THEN Append(s, e)[i] = s[i]
              ELSE i = Len(s) + 1 /\ Append(s, e)[i] = e
  <1> DEFINE a == Append(s, e)
  <1>1. /\ a \in Seq(S) /\ Len(a) = Len(s) + 1 /\ a[Len(s) + 1] = e
        /\ \A i \in 1 .. Len(s) : a[i] = s[i]
    BY AppendProperties
  <1>2. DOMAIN a = 1 .. Len(a) /\ DOMAIN s = 1 .. Len(s) /\ Len(s) \in Nat
    BY <1>1, LenProperties
  <1> HIDE DEF a
  <1>3. \A i \in DOMAIN a : IF i \in DOMAIN s THEN a[i] = s[i]
                            ELSE i = Len(s) + 1 /\ a[i] = e
    BY <1>1, <1>2
  <1>4. DOMAIN s \subseteq DOMAIN a /\ Len(s) + 1 \in DOMAIN a
    BY <1>1, <1>2
  <1>5. Elements(a) = Elements(s) \cup {e}
    BY <1>1, <1>2, <1>3, <1>4 DEF Elements
  <1> QED
    BY <1>1, <1>3, <1>5 DEF a

LEMMA TailElements ==
  ASSUME NEW S, NEW s \in Seq(S), s # <<>>
  PROVE  /\ Head(s) \in S /\ Tail(s) \in Seq(S)
         /\ Len(s) \in Nat \ {0} /\ Len(Tail(s)) = Len(s) - 1
         /\ Head(s) = s[1] /\ 1 \in DOMAIN s
         /\ \A i \in DOMAIN Tail(s) :
              i \in Nat /\ i # 0 /\ i + 1 \in DOMAIN s /\ Tail(s)[i] = s[i + 1]
         /\ Elements(s) = {Head(s)} \cup Elements(Tail(s))
  <1> DEFINE a == Tail(s)
  <1>1. /\ Head(s) \in S /\ a \in Seq(S) /\ Len(a) = Len(s) - 1
        /\ \A i \in 1 .. Len(a) : a[i] = s[i + 1]
    BY HeadTailProperties
  <1>2. /\ DOMAIN a = 1 .. Len(a) /\ DOMAIN s = 1 .. Len(s)
        /\ Len(s) \in Nat \ {0}
    BY <1>1, EmptySeq, LenProperties
  <1>3. Head(s) = s[1]
    OBVIOUS
  <1> HIDE DEF a
  <1>4. 1 \in DOMAIN s /\ \A i \in DOMAIN a : i \in Nat /\ i # 0 /\ i + 1 \in DOMAIN s /\ a[i] = s[i + 1]
    BY <1>1, <1>2
  <1>5. \A i \in DOMAIN s : i # 1 => i - 1 \in DOMAIN a /\ (i - 1) + 1 = i
    BY <1>1, <1>2
  <1>6. Elements(s) = {Head(s)} \cup Elements(a)
    <2>1. ASSUME NEW x \in Elements(s) PROVE x \in {Head(s)} \cup Elements(a)
      <3> PICK i \in DOMAIN s : x = s[i]
        BY DEF Elements
      <3>1. CASE i = 1
        BY <1>3, <3>1
      <3>2. CASE i # 1
        <4>1. i - 1 \in DOMAIN a /\ a[i - 1] = s[i]
          BY <1>4, <1>5, <3>2
        <4> QED
          BY <4>1 DEF Elements
      <3> QED
        BY <3>1, <3>2
    <2>2. Head(s) \in Elements(s) /\ Elements(a) \subseteq Elements(s)
      BY <1>3, <1>4 DEF Elements
    <2> QED
      BY <2>1, <2>2
  <1> QED
    BY <1>1, <1>2, <1>3, <1>4, <1>6 DEF a

\* do_request of either device: the request joins those in it.
LEMMA AcceptFacts ==
  ASSUME DeviceTypeOK, OnePlace, EventsCovered,
         NEW r \in Requests, r \notin InDevice, Accept(r), UNCHANGED kind
  PROVE  /\ DeviceTypeOK' /\ OnePlace' /\ EventsCovered'
         /\ InDevice' = InDevice \cup {r}
  <1>1. CASE kind = "aio" /\ Submit(r) /\ UNCHANGED queueVars
    <2> USE <1>1 DEF Submit, queueVars
    <2>1. r \notin Elements(ring)
      BY DEF InDevice, AioPending, Elements
    <2>2. DeviceTypeOK'
      BY DEF DeviceTypeOK
    <2>3. OnePlace' /\ EventsCovered'
      BY <2>1 DEF OnePlace, Elements, EventsCovered
    <2>4. InDevice' = InDevice \cup {r}
      BY DEF InDevice, AioPending
    <2> QED
      BY <2>2, <2>3, <2>4
  <1>2. CASE kind = "queue" /\ Push(r) /\ UNCHANGED aioVars
    <2> USE <1>2 DEF Push, aioVars
    <2> DEFINE q == io_request_queue
    <2>1. /\ q' \in Seq(Requests \cup {NoRequest})
          /\ Elements(q)' = Elements(q) \cup {r}
          /\ \A i \in DOMAIN q' : IF i \in DOMAIN q THEN q'[i] = q[i]
                                  ELSE i = Len(q) + 1 /\ q'[i] = r
      <3>1. q \in Seq(Requests \cup {NoRequest}) /\ r \in Requests \cup {NoRequest}
        BY DEF DeviceTypeOK
      <3>2. q' = Append(q, r)
        OBVIOUS
      <3>3. Elements(q)' = Elements(q')
        BY DEF Elements
      <3> QED
        BY <3>1, <3>2, <3>3, AppendElements
    <2>2. r # NoRequest /\ r \notin Elements(q) /\ hand # r
      BY NoRequestAssumption DEF InDevice, QueuePending, Elements
    <2>3. DeviceTypeOK'
      BY <2>1 DEF DeviceTypeOK
    <2>4. OnePlace'
      <3>1. \A i, j \in DOMAIN q' : q'[i] = q'[j] /\ q'[i] # NoRequest => i = j
        BY <2>1, <2>2 DEF OnePlace, Elements
      <3>2. hand # NoRequest => hand \notin Elements(q)'
        BY <2>1, <2>2 DEF OnePlace
      <3> QED
        BY <3>1, <3>2 DEF OnePlace, Elements
    <2>5. EventsCovered'
      BY DEF EventsCovered
    <2>6. InDevice' = InDevice \cup {r}
      BY <2>1, <2>2 DEF InDevice, QueuePending, Elements
    <2> QED
      BY <2>3, <2>4, <2>5, <2>6
  <1> QED
    BY <1>1, <1>2 DEF Accept

\* The device's thread reports a request that is in it, and it leaves.
LEMMA DeliverFacts ==
  ASSUME DeviceTypeOK, OnePlace, EventsCovered,
         NEW r \in Requests, NEW s \in Status, Deliver(r, s), UNCHANGED kind
  PROVE  /\ DeviceTypeOK' /\ OnePlace' /\ EventsCovered'
         /\ r \in InDevice /\ InDevice' = InDevice \ {r}
  <1>1. CASE kind = "aio" /\ TakeEvent(r) /\ UNCHANGED queueVars
    <2> USE <1>1 DEF TakeEvent, queueVars
    <2>1. /\ ring' \in Seq(Requests) /\ Len(ring) \in Nat \ {0}
          /\ Len(ring') = Len(ring) - 1 /\ r = ring[1] /\ 1 \in DOMAIN ring
          /\ \A i \in DOMAIN ring' :
               i \in Nat /\ i # 0 /\ i + 1 \in DOMAIN ring /\ ring'[i] = ring[i + 1]
          /\ Elements(ring) = {r} \cup Elements(ring')
      BY TailElements DEF DeviceTypeOK
    <2>2. r \notin Elements(ring') /\ r \notin kernel
      <3>1. \A i \in DOMAIN ring' : ring[i + 1] # ring[1]
        BY <2>1 DEF OnePlace
      <3> QED
        BY <2>1, <3>1 DEF OnePlace, Elements
    <2>3. DeviceTypeOK'
      BY <2>1 DEF DeviceTypeOK
    <2>4. OnePlace'
      <3>1. \A i, j \in DOMAIN ring' : ring'[i] = ring'[j] => i = j
        <4> SUFFICES ASSUME NEW i \in DOMAIN ring', NEW j \in DOMAIN ring', ring'[i] = ring'[j]
                     PROVE  i = j
          OBVIOUS
        <4>1. i + 1 = j + 1
          BY <2>1 DEF OnePlace
        <4> QED
          BY <2>1, <4>1
      <3>2. kernel' \cap Elements(ring') = {}
        BY <2>1 DEF OnePlace
      <3> QED
        BY <3>1, <3>2 DEF OnePlace, Elements
    <2>5. EventsCovered'
      BY <2>1 DEF EventsCovered, DeviceTypeOK
    <2>6. r \in InDevice /\ InDevice' = InDevice \ {r}
      BY ZenonT(60), <2>1, <2>2 DEF InDevice, AioPending, Elements
    <2> QED
      BY <2>3, <2>4, <2>5, <2>6
  <1>2. CASE kind = "queue" /\ Finish(r) /\ UNCHANGED aioVars
    <2> USE <1>2 DEF Finish, aioVars
    <2>1. DeviceTypeOK' /\ EventsCovered'
      BY DEF DeviceTypeOK, EventsCovered
    <2>2. OnePlace'
      BY DEF OnePlace, Elements
    <2>3. r \notin Elements(io_request_queue)
      BY DEF OnePlace
    <2>4. r \in InDevice /\ InDevice' = InDevice \ {r}
      BY <2>3 DEF InDevice, QueuePending, Elements
    <2> QED
      BY <2>1, <2>2, <2>4
  <1> QED
    BY <1>1, <1>2 DEF Deliver

\* The kernel, the epoll thread and the pool move requests and counts about.
LEMMA AioStepFacts ==
  ASSUME DeviceTypeOK, OnePlace, EventsCovered, AioStep
  PROVE  /\ DeviceTypeOK' /\ OnePlace' /\ EventsCovered'
         /\ InDevice' = InDevice
  <1> USE DEF AioStep, queueVars
  <1>0. Len(ring) \in Nat
    BY LenProperties DEF DeviceTypeOK
  <1>1. CASE \E r \in Requests : KernelFinish(r)
    <2> PICK r \in Requests : KernelFinish(r)
      BY <1>1
    <2> USE DEF KernelFinish
    <2>1. /\ ring' \in Seq(Requests) /\ Len(ring') = Len(ring) + 1
          /\ Elements(ring') = Elements(ring) \cup {r}
          /\ \A i \in DOMAIN ring' : IF i \in DOMAIN ring THEN ring'[i] = ring[i]
                                     ELSE i = Len(ring) + 1 /\ ring'[i] = r
      BY AppendElements DEF DeviceTypeOK
    <2>2. r \notin Elements(ring)
      BY DEF OnePlace
    <2>3. DeviceTypeOK'
      BY <2>1 DEF DeviceTypeOK
    <2>4. OnePlace'
      <3>1. \A i, j \in DOMAIN ring' : ring'[i] = ring'[j] => i = j
        BY <2>1, <2>2 DEF OnePlace, Elements
      <3>2. kernel' \cap Elements(ring') = {}
        BY <2>1 DEF OnePlace
      <3> QED
        BY <3>1, <3>2 DEF OnePlace, Elements
    <2>5. EventsCovered'
      BY <1>0, <2>1 DEF EventsCovered, DeviceTypeOK
    <2>6. InDevice' = InDevice
      <3>1. kernel' \cup Elements(ring') = kernel \cup Elements(ring)
        BY <2>1
      <3> QED
        BY <3>1 DEF InDevice, AioPending, QueuePending, Elements
    <2> QED
      BY <2>3, <2>4, <2>5, <2>6
  <1>2. CASE KernelSignal \/ EpollEvent \/ ReadEventFd
    <2> USE DEF KernelSignal, EpollEvent, ReadEventFd
    <2>1. DeviceTypeOK' /\ EventsCovered'
      <3>1. CASE KernelSignal
        BY <1>0, <3>1 DEF DeviceTypeOK, EventsCovered
      <3>2. CASE EpollEvent
        <4>1. armed' \in BOOLEAN
          BY <3>2
        <4>2. /\ UNCHANGED <<kernel, ring, unsignalled, event_fd, left>>
              /\ tasks' = tasks + 1
          BY <3>2
        <4> QED
          BY <4>1, <4>2 DEF DeviceTypeOK, EventsCovered
      <3>3. CASE ReadEventFd
        BY <1>0, <3>3 DEF DeviceTypeOK, EventsCovered
      <3> QED
        BY <1>2, <3>1, <3>2, <3>3
    <2>2. OnePlace' /\ InDevice' = InDevice
      BY <1>2 DEF OnePlace, Elements, InDevice, AioPending, QueuePending
    <2> QED
      BY <2>1, <2>2
  <1> QED
    BY <1>1, <1>2

\* pop_request: what is popped, a null pointer or a request, is in hand.
LEMMA QueueStepFacts ==
  ASSUME DeviceTypeOK, OnePlace, EventsCovered, QueueStep
  PROVE  /\ DeviceTypeOK' /\ OnePlace' /\ EventsCovered'
         /\ InDevice' = InDevice
  <1> USE DEF QueueStep, Pop, aioVars
  <1> DEFINE q == io_request_queue
  <1>1. /\ Head(q) \in Requests \cup {NoRequest}
        /\ q' \in Seq(Requests \cup {NoRequest})
        /\ Head(q) = q[1] /\ 1 \in DOMAIN q
        /\ \A i \in DOMAIN q' : i \in Nat /\ i # 0 /\ i + 1 \in DOMAIN q /\ q'[i] = q[i + 1]
        /\ Elements(q) = {Head(q)} \cup Elements(q')
    BY TailElements DEF DeviceTypeOK
  <1>2. DeviceTypeOK' /\ EventsCovered'
    BY <1>1 DEF DeviceTypeOK, EventsCovered
  <1>3. OnePlace'
    <2>1. \A i, j \in DOMAIN q' : q'[i] = q'[j] /\ q'[i] # NoRequest => i = j
      <3> SUFFICES ASSUME NEW i \in DOMAIN q', NEW j \in DOMAIN q',
                          q'[i] = q'[j], q'[i] # NoRequest
                   PROVE  i = j
        OBVIOUS
      <3>1. i + 1 = j + 1
        BY <1>1 DEF OnePlace
      <3> QED
        BY <1>1, <3>1
    <2>2. hand' # NoRequest => hand' \notin Elements(q')
      <3>1. \A i \in DOMAIN q' : q[1] # NoRequest => q[i + 1] # q[1]
        BY <1>1 DEF OnePlace
      <3> QED
        BY <1>1, <3>1 DEF Elements
    <2> QED
      BY <2>1, <2>2 DEF OnePlace, Elements
  <1>4. InDevice' = InDevice
    <2>1. QueuePending' = ({hand'} \cup Elements(q')) \ {NoRequest}
      BY DEF QueuePending, Elements
    <2>2. QueuePending = ({hand} \cup Elements(q)) \ {NoRequest}
      BY DEF QueuePending, Elements
    <2>3. QueuePending' = QueuePending
      BY <1>1, <2>1, <2>2
    <2> QED
      BY <2>3 DEF InDevice, AioPending
  <1> QED
    BY <1>2, <1>3, <1>4

LEMMA DeviceInitInv == DeviceInit => DeviceInv
  <1> SUFFICES ASSUME DeviceInit PROVE DeviceInv
    OBVIOUS
  <1> USE DEF DeviceInit, AioInit, QueueInit
  <1>1. IInv /\ pending = {}
    BY InitIInv DEF Init, Device!Init
  <1>2. /\ io_request_queue \in Seq(Requests \cup {NoRequest})
        /\ \A i \in DOMAIN io_request_queue : io_request_queue[i] = NoRequest
    BY DepthAssumption
  <1>3. <<>> \in Seq(Requests) /\ Len(<<>>) = 0 /\ DOMAIN <<>> = {}
    BY EmptySeq
  <1>4. DeviceTypeOK /\ EventsCovered
    <2>1. kernel \subseteq Requests /\ hand \in Requests \cup {NoRequest} /\ ring \in Seq(Requests)
      BY <1>3
    <2>2. /\ unsignalled = 0 /\ event_fd = 0 /\ tasks = 0 /\ left = 0 /\ armed = FALSE
          /\ Len(ring) = 0 /\ kind \in {"aio", "queue"}
      BY <1>3
    <2>3. armed \in BOOLEAN
      BY <2>2
    <2>4. EventsCovered
      BY <2>2 DEF EventsCovered
    <2>5. DeviceTypeOK
      BY <1>2, <2>1, <2>2, <2>3 DEF DeviceTypeOK
    <2> QED
      BY <2>4, <2>5
  <1>5. OnePlace
    BY <1>2, <1>3 DEF OnePlace, Elements
  <1>6. InDevice = {}
    BY <1>2, <1>3 DEF InDevice, AioPending, QueuePending
  <1> QED
    BY <1>1, <1>4, <1>5, <1>6 DEF DeviceInv

\* A step over the devices is a step of the layers over BlockDevice, or none.
LEMMA DeviceStep ==
  ASSUME DeviceInv, [DeviceNext]_ioVars
  PROVE  DeviceInv' /\ [Next]_vars
  <1> USE DEF DeviceInv
  <1>1. ASSUME NEW r \in Requests, r \notin pending, Accepted(r)
        PROVE  /\ Device!Request(r)
               /\ DeviceTypeOK' /\ OnePlace' /\ EventsCovered' /\ pending' = InDevice'
    <2>1. /\ DeviceTypeOK' /\ OnePlace' /\ EventsCovered'
          /\ InDevice' = InDevice \cup {r}
      BY <1>1, AcceptFacts DEF Accepted
    <2> QED
      BY <1>1, <2>1 DEF Accepted, Device!Request
  <1>2. ASSUME UNCHANGED <<aioVars, queueVars, kind, pending>>
        PROVE  DeviceTypeOK' /\ OnePlace' /\ EventsCovered' /\ pending' = InDevice'
    BY SMTT(30), <1>2 DEF DeviceTypeOK, OnePlace, EventsCovered, InDevice, AioPending, QueuePending,
                Elements, aioVars, queueVars
  <1>3. ASSUME NEW u \in Users, UserAct(u) PROVE DeviceInv' /\ [Next]_vars
    <2>1. CASE /\ Call(u) \/ Lock(u) \/ Wait(u)
               /\ UNCHANGED <<pending, reported, aioVars, queueVars, kind>>
      <3>1. UserStep(u)
        BY <2>1 DEF UserStep
      <3>2. Next
        BY <3>1 DEF Next
      <3> QED
        BY <1>2, <2>1, <3>2, StepIInv
    <2>2. CASE SyncRequest(u) /\ Accepted(u)
      <3>1. u \notin pending /\ u \in Requests
        BY <2>2 DEF SyncRequest, IInv, UserOK, Requests
      <3>2. /\ Device!Request(u)
            /\ DeviceTypeOK' /\ OnePlace' /\ EventsCovered' /\ pending' = InDevice'
        BY <1>1, <2>2, <3>1
      <3>3. Next
        BY <2>2, <3>2 DEF UserStep, Next
      <3> QED
        BY <3>2, <3>3, StepIInv
    <2> QED
      BY <1>3, <2>1, <2>2 DEF UserAct
  <1>4. ASSUME NEW r \in Reqs, IssueAct(r) PROVE DeviceInv' /\ [Next]_vars
    <2> PICK a \in Addrs : DoRequest(r, a) /\ Accepted(r)
      BY <1>4 DEF IssueAct
    <2>1. r \notin pending /\ r \in Requests
      BY <1>4 DEF IssueAct, Requests
    <2>2. /\ Device!Request(r)
          /\ DeviceTypeOK' /\ OnePlace' /\ EventsCovered' /\ pending' = InDevice'
      BY <1>1, <2>1
    <2>3. Next
      BY <2>2 DEF Issue, Next
    <2> QED
      BY <2>2, <2>3, StepIInv
  <1>5. ASSUME NEW r \in Requests, ReportAct(r) PROVE DeviceInv' /\ [Next]_vars
    <2> PICK s \in Status :
          /\ Deliver(r, s)
          /\ RequestDone(r, s)
          /\ pending' = pending \ {r}
          /\ reported' = [reported EXCEPT ![r] = s]
          /\ UNCHANGED kind
      BY <1>5 DEF ReportAct
    <2>1. /\ DeviceTypeOK' /\ OnePlace' /\ EventsCovered'
          /\ r \in InDevice /\ InDevice' = InDevice \ {r}
      BY DeliverFacts
    <2>2. Device!Report(r, s)
      BY <2>1 DEF Device!Report
    <2>3. Next
      BY <2>2 DEF Report, Next
    <2> QED
      BY <2>1, <2>3, StepIInv
  <1>6. CASE AioStep
    <2>1. DeviceTypeOK' /\ OnePlace' /\ EventsCovered' /\ InDevice' = InDevice
      BY <1>6, AioStepFacts
    <2>2. UNCHANGED vars
      BY <1>6 DEF AioStep
    <2>3. pending' = pending
      BY <2>2 DEF vars
    <2> QED
      BY <2>1, <2>2, <2>3, StepIInv
  <1>7. CASE QueueStep
    <2>1. DeviceTypeOK' /\ OnePlace' /\ EventsCovered' /\ InDevice' = InDevice
      BY <1>7, QueueStepFacts
    <2>2. UNCHANGED vars
      BY <1>7 DEF QueueStep
    <2>3. pending' = pending
      BY <2>2 DEF vars
    <2> QED
      BY <2>1, <2>2, <2>3, StepIInv
  <1>8. CASE UNCHANGED ioVars
    <2>1. UNCHANGED vars /\ UNCHANGED <<aioVars, queueVars, kind>>
      BY <1>8 DEF ioVars
    <2>2. pending' = pending
      BY <2>1 DEF vars
    <2> QED
      BY <1>2, <2>1, <2>2, StepIInv
  <1> QED
    BY <1>3, <1>4, <1>5, <1>6, <1>7, <1>8 DEF DeviceNext

-------------------------------------------------------------------------------
\* The invariant of every behaviour over the devices.
THEOREM DeviceInvariance == DeviceSpec => []DeviceInv
  <1>1. DeviceInv /\ [DeviceNext]_ioVars => DeviceInv'
    BY DeviceStep
  <1> QED
    BY <1>1, DeviceInitInv, PTL DEF DeviceSpec

\* get_io never looks for an event the ring does not hold: what it still has to
\* fetch, the counter and what is to be counted are together the ring's length.
THEOREM EventsCoveredHolds == DeviceSpec => []EventsCovered
  <1>1. DeviceInv => EventsCovered
    BY DEF DeviceInv
  <1> QED
    BY <1>1, DeviceInvariance, PTL

\* Over the devices the layers behave as over BlockDevice.
THEOREM DeviceImplementsLayers == DeviceSpec => SafetySpec
  <1>1. DeviceInit => Init
    BY DEF DeviceInit
  <1>2. DeviceInv /\ [DeviceNext]_ioVars => [Next]_vars
    BY DeviceStep
  <1> QED
    BY <1>1, <1>2, DeviceInvariance, PTL DEF DeviceSpec, SafetySpec

\* An access over the devices returns its own request's status (sync_request).
THEOREM DeviceOwnStatus == DeviceSpec => []OwnStatus
  BY DeviceImplementsLayers, OwnStatusHolds, PTL

\* A request over the devices comes back with its own sector and status.
THEOREM DeviceOffsetRestored == DeviceSpec => []OffsetRestored
  BY DeviceImplementsLayers, OffsetRestoredHolds, PTL

\* What Blocks defines without its device is what the layers define.
LEMMA BlocksSame ==
  /\ Blocks!Requests = Requests /\ Blocks!Status = Status /\ Blocks!Layer = Layer
  /\ Blocks!superVars = superVars
  /\ Blocks!SuperInit <=> SuperInit
  /\ \A u \in Users : /\ Blocks!Call(u) <=> Call(u)
                      /\ Blocks!Lock(u) <=> Lock(u)
                      /\ Blocks!Wait(u) <=> Wait(u)
                      /\ Blocks!SyncRequest(u) <=> SyncRequest(u)
  /\ \A r \in Reqs, a \in Addrs : Blocks!DoRequest(r, a) <=> DoRequest(r, a)
  /\ \A r \in Requests, s \in Status : Blocks!RequestDone(r, s) <=> RequestDone(r, s)
  <1>1. Blocks!Layer = Layer
    BY DEF Blocks!Layer, Layer
  <1>2. Blocks!Requests = Requests /\ Blocks!Status = Status
    BY DEF Blocks!Requests, Requests, Blocks!Status, Status
  <1>3. Blocks!superVars = superVars
    BY DEF Blocks!superVars, superVars
  <1>4. Blocks!SuperInit <=> SuperInit
    BY <1>1, <1>2 DEF Blocks!SuperInit, SuperInit
  <1>5. ASSUME NEW u \in Users
        PROVE  /\ Blocks!Call(u) <=> Call(u)
               /\ Blocks!Lock(u) <=> Lock(u)
               /\ Blocks!Wait(u) <=> Wait(u)
               /\ Blocks!SyncRequest(u) <=> SyncRequest(u)
    BY DEF Blocks!Call, Call, Blocks!Lock, Lock, Blocks!Wait, Wait,
           Blocks!SyncRequest, SyncRequest
  <1>6. ASSUME NEW r \in Reqs, NEW a \in Addrs PROVE Blocks!DoRequest(r, a) <=> DoRequest(r, a)
    BY DEF Blocks!DoRequest, DoRequest
  <1>7. ASSUME NEW r \in Requests, NEW s \in Status
        PROVE  Blocks!RequestDone(r, s) <=> RequestDone(r, s)
    <2>1. /\ \A o : Blocks!Below(o) = Below(o)
          /\ \A S : Blocks!First(S) = First(S)
      BY <1>1 DEF Blocks!Below, Below, Blocks!First, First
    <2>2. /\ \A k : Blocks!SyncRequestDone(r, k, s) <=> SyncRequestDone(r, k, s)
          /\ Blocks!CompleteRequest(r, s) <=> CompleteRequest(r, s)
      BY DEF Blocks!SyncRequestDone, SyncRequestDone, Blocks!CompleteRequest, CompleteRequest
    <2> QED
      BY <2>1, <2>2 DEF Blocks!RequestDone, RequestDone
  <1> QED
    BY <1>1, <1>2, <1>3, <1>4, <1>5, <1>6, <1>7

\* Initially the devices hold nothing, but null pointers.
LEMMA BlocksInit == DeviceInit => Blocks!Init
  <1> SUFFICES ASSUME DeviceInit PROVE Blocks!Init
    OBVIOUS
  <1>1. DeviceInv /\ Init
    BY DeviceInitInv DEF DeviceInit
  <1>2. InDevice = {}
    BY <1>1 DEF DeviceInv, Init, Device!Init
  <1>3. Blocks!Device!Init
    BY <1>1, <1>2, BlocksSame DEF Blocks!Device!Init, Init, Device!Init, InDevice
  <1> QED
    BY <1>1, <1>3, BlocksSame DEF Blocks!Init, Init

\* Each step maps to the step of the same name, or to none.
LEMMA BlocksStep ==
  ASSUME DeviceInv, DeviceInv', [Next]_vars
  PROVE  [Blocks!Next]_(Blocks!vars)
  <1>1. /\ pending = IF kind = "aio" THEN AioPending ELSE QueuePending
        /\ pending' = IF kind' = "aio" THEN AioPending' ELSE QueuePending'
    BY DEF DeviceInv, InDevice
  <1>2. \A r \in Requests : /\ Device!Request(r) => Blocks!Device!Request(r)
                           /\ \A s \in Status : Device!Report(r, s) => Blocks!Device!Report(r, s)
    BY <1>1 DEF Device!Request, Blocks!Device!Request, Device!Report, Blocks!Device!Report
  <1>3. ASSUME NEW u \in Users, UserStep(u) PROVE Blocks!UserStep(u)
    <2>1. u \in Requests
      BY DEF Requests
    <2> QED
      BY <1>1, <1>2, <1>3, <2>1, BlocksSame DEF UserStep, Blocks!UserStep
  <1>4. ASSUME NEW r \in Reqs, Issue(r) PROVE Blocks!Issue(r)
    <2>1. r \in Requests
      BY DEF Requests
    <2> QED
      BY <1>2, <1>4, <2>1, BlocksSame DEF Issue, Blocks!Issue
  <1>5. ASSUME NEW r \in Requests, Report(r) PROVE Blocks!Report(r)
    BY <1>2, <1>5, BlocksSame DEF Report, Blocks!Report
  <1>6. CASE UNCHANGED vars
    BY <1>1, <1>6, BlocksSame DEF vars, Blocks!vars, superVars, Blocks!superVars
  <1> QED
    BY <1>3, <1>4, <1>5, <1>6, BlocksSame DEF Next, Blocks!Next

\* What the devices' own structures hold is the device the layers count on: each
\* request passed down is in one of them until it is reported, once.
THEOREM DevicesAreBlocks == DeviceSpec => BlockSpec
  <1>1. DeviceInv /\ [DeviceNext]_ioVars => [Next]_vars
    BY DeviceStep
  <1>2. DeviceInv /\ DeviceInv' /\ [Next]_vars => [Blocks!Next]_(Blocks!vars)
    BY BlocksStep
  <1> QED
    BY <1>1, <1>2, BlocksInit, DeviceInvariance, PTL DEF DeviceSpec, BlockSpec, Blocks!SafetySpec
================================================================================
