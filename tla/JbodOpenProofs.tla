--------------------------- MODULE JbodOpenProofs ---------------------------
(***************************************************************************)
(* Proofs about JbodOpen, for any number of blocks and of threads that use *)
(* superblocks, when no block is added to an open JBOD.  The invariants    *)
(* are inductive together with: the blocks of a JBOD are distinct, a loop  *)
(* is inside the vector, a JBOD that serves is not in a loop, and a device *)
(* is open exactly when its count is positive.                             *)
(***************************************************************************)
EXTENDS JbodOpen, FiniteSetTheorems, TLAPS

Users(b) == {u \in SuperUsers : super[u] = b}

Distinct ==
  /\ Len(block_vector) > 0
  /\ \A i, j \in 1 .. Len(block_vector) : block_vector[i] = block_vector[j] => i = j

LoopInside ==
  /\ walk.kind = "idle" => walk = Idle
  /\ walk.kind # "idle" =>
       ~serving /\ 1 <= walk.pos /\ walk.pos < walk.stop
  /\ walk.kind \in {"open", "close"} => walk.stop = Len(block_vector) + 1

OpenIffUsed == \A b \in Blocks : opened[b] <=> ref[b] > 0

IInv == TypeOK /\ Distinct /\ LoopInside /\ OpenIffUsed /\ RefExact

-----------------------------------------------------------------------------
(* The number of superblock accesses of a block is a natural number.       *)
LEMMA UsersFinite ==
  ASSUME NEW b
  PROVE  IsFiniteSet(Users(b)) /\ Cardinality(Users(b)) \in Nat
BY SuperUsersAssumption, FS_Subset, FS_CardinalityType DEF Users

(* A thread that opens a block is one user more of that block only.        *)
LEMMA OneUserMore ==
  ASSUME TypeOK, NEW u \in SuperUsers, NEW b \in Blocks,
         super[u] = NoBlock, super' = [super EXCEPT ![u] = b]
  PROVE  \A c \in Blocks : Cardinality(Users(c)')
                             = Cardinality(Users(c)) + IF c = b THEN 1 ELSE 0
<1>1. b # NoBlock /\ u \notin Users(b)
  BY NoBlockAssumption DEF Users
<1>2. Users(b)' = Users(b) \cup {u}
  BY DEF TypeOK, Users
<1>3. Cardinality(Users(b)') = Cardinality(Users(b)) + 1
  BY <1>1, <1>2, UsersFinite, FS_AddElement
<1>4. \A c \in Blocks \ {b} : Users(c)' = Users(c)
  BY NoBlockAssumption DEF TypeOK, Users
<1>5. \A c \in Blocks : Cardinality(Users(c)) \in Nat
  BY UsersFinite
<1>6. QED
  BY <1>3, <1>4, <1>5

(* A thread that closes a block is one user fewer of that block only.      *)
LEMMA OneUserLess ==
  ASSUME TypeOK, NEW u \in SuperUsers, super[u] # NoBlock,
         super' = [super EXCEPT ![u] = NoBlock]
  PROVE  /\ super[u] \in Blocks
         /\ Cardinality(Users(super[u])) > 0
         /\ \A c \in Blocks : Cardinality(Users(c)')
              = Cardinality(Users(c)) - IF c = super[u] THEN 1 ELSE 0
<1>0. PICK b \in Blocks : super[u] = b
  BY DEF TypeOK
<1>1. u \in Users(b)
  BY <1>0 DEF Users
<1>2. Users(b)' = Users(b) \ {u}
  BY <1>0, NoBlockAssumption DEF TypeOK, Users
<1>3. Cardinality(Users(b)') = Cardinality(Users(b)) - 1
  BY <1>1, <1>2, UsersFinite, FS_RemoveElement
<1>4. \A c \in Blocks \ {b} : Users(c)' = Users(c)
  BY <1>0, NoBlockAssumption DEF TypeOK, Users
<1>5. \A c \in Blocks : Cardinality(Users(c)) \in Nat /\ IsFiniteSet(Users(c))
  BY UsersFinite
<1>6. Cardinality(Users(b)) # 0
  BY <1>1, <1>5, FS_EmptySet
<1>7. QED
  <2>1. Cardinality(Users(b)) > 0
    BY <1>5, <1>6
  <2>2. \A c \in Blocks \ {b} : Cardinality(Users(c)') = Cardinality(Users(c))
    BY <1>4
  <2>3. QED
    BY <1>0, <1>3, <1>5, <2>1, <2>2

(* Init: nobody uses anything.                                             *)
LEMMA InitOK == Init => IInv
<1> SUFFICES ASSUME Init
             PROVE  IInv
  OBVIOUS
<1>1. TypeOK
  <2>1. serving \in BOOLEAN /\ opened \in [Blocks -> BOOLEAN]
    BY Zenon DEF Init
  <2>2. /\ ref \in [Blocks -> Int] /\ block_vector \in Seq(Blocks)
        /\ super \in [SuperUsers -> Blocks \cup {NoBlock}]
    BY InitBlocksAssumption DEF Init
  <2>3. /\ walk \in [kind : {"idle", "open", "rollback", "close"}, pos : Nat, stop : Nat]
        /\ walk.stop <= Len(block_vector) + 1
    BY InitBlocksAssumption DEF Init, Idle
  <2>4. QED
    BY <2>1, <2>2, <2>3 DEF TypeOK
<1>2. Distinct /\ LoopInside /\ OpenIffUsed
  BY InitBlocksAssumption DEF Init, Distinct, LoopInside, OpenIffUsed, Idle
<1>3. HeldByJbod = {}
  BY DEF Init, HeldByJbod, Idle
<1>4. \A b \in Blocks : {u \in SuperUsers : super[u] = b} = {}
  BY NoBlockAssumption DEF Init
<1>5. RefExact
  <2>1. \A b \in Blocks : Cardinality({u \in SuperUsers : super[u] = b}) = 0
    BY <1>4, FS_EmptySet
  <2>2. QED
    BY <1>3, <2>1 DEF Init, RefExact
<1>6. QED
  BY <1>1, <1>2, <1>5 DEF IInv
-----------------------------------------------------------------------------
(* open() of a block, and close() of one that is in use, keep the device   *)
(* open exactly while the count is positive.                               *)
LEMMA OpenOkKeeps ==
  ASSUME TypeOK, OpenIffUsed, NEW b \in Blocks, OpenOk(b), ref[b] >= 0
  PROVE  /\ ref' \in [Blocks -> Int] /\ opened' \in [Blocks -> BOOLEAN]
         /\ OpenIffUsed'
         /\ \A c \in Blocks : ref'[c] = ref[c] + IF c = b THEN 1 ELSE 0
<1>1. /\ ref' = [ref EXCEPT ![b] = ref[b] + 1]
      /\ opened' = [opened EXCEPT ![b] = opened[b] \/ ref[b] = 0]
  BY Zenon DEF OpenOk
<1>2. ref' \in [Blocks -> Int] /\ opened' \in [Blocks -> BOOLEAN]
  BY <1>1 DEF TypeOK
<1>3. \A c \in Blocks : ref'[c] = ref[c] + IF c = b THEN 1 ELSE 0
  BY <1>1 DEF TypeOK
<1>4. \A c \in Blocks : opened'[c] <=> IF c = b THEN opened[b] \/ ref[b] = 0 ELSE opened[c]
  BY <1>1 DEF TypeOK
<1>5. OpenIffUsed'
  BY <1>3, <1>4 DEF OpenIffUsed, TypeOK
<1>6. QED
  BY <1>2, <1>3, <1>5

LEMMA CloseRefKeeps ==
  ASSUME TypeOK, OpenIffUsed, NEW b \in Blocks, CloseRef(b), ref[b] > 0
  PROVE  /\ ref' \in [Blocks -> Int] /\ opened' \in [Blocks -> BOOLEAN]
         /\ OpenIffUsed'
         /\ \A c \in Blocks : ref'[c] = ref[c] - IF c = b THEN 1 ELSE 0
<1>1. /\ ref' = [ref EXCEPT ![b] = ref[b] - 1]
      /\ opened' = [opened EXCEPT ![b] = opened[b] /\ ref[b] # 1]
  BY Zenon DEF CloseRef
<1>2. ref' \in [Blocks -> Int] /\ opened' \in [Blocks -> BOOLEAN]
  BY <1>1 DEF TypeOK
<1>3. \A c \in Blocks : ref'[c] = ref[c] - IF c = b THEN 1 ELSE 0
  BY <1>1 DEF TypeOK
<1>4. \A c \in Blocks : opened'[c] <=> IF c = b THEN opened[b] /\ ref[b] # 1 ELSE opened[c]
  BY <1>1 DEF TypeOK
<1>5. OpenIffUsed'
  BY <1>3, <1>4 DEF OpenIffUsed, TypeOK
<1>6. QED
  BY <1>2, <1>3, <1>5

(* What the JBOD holds at each point of a loop.                            *)
LEMMA Holding ==
  ASSUME TypeOK, Distinct, LoopInside
  PROVE  /\ HeldByJbod \subseteq Blocks
         /\ walk.kind = "open" =>
              HeldByJbod = {block_vector[i] : i \in 1 .. (walk.pos - 1)}
         /\ walk.kind \in {"rollback", "close"} =>
              HeldByJbod = {block_vector[i] : i \in walk.pos .. (walk.stop - 1)}
         /\ walk.kind = "idle" =>
              HeldByJbod = IF serving THEN {block_vector[i] : i \in 1 .. Len(block_vector)}
                           ELSE {}
<1>1. walk.kind = "open" => HeldByJbod = {block_vector[i] : i \in 1 .. (walk.pos - 1)}
  BY DEF HeldByJbod
<1>2. walk.kind \in {"rollback", "close"} =>
        HeldByJbod = {block_vector[i] : i \in walk.pos .. (walk.stop - 1)}
  BY DEF HeldByJbod
<1>3. walk.kind = "idle" =>
        HeldByJbod = IF serving THEN {block_vector[i] : i \in 1 .. Len(block_vector)} ELSE {}
  BY DEF HeldByJbod
<1>4. walk.kind \in {"idle", "open", "rollback", "close"}
  BY DEF TypeOK
<1>5. \A i \in 1 .. Len(block_vector) : block_vector[i] \in Blocks
  BY DEF TypeOK
<1>6. walk.pos \in Nat /\ walk.stop \in Nat /\ walk.stop <= Len(block_vector) + 1
  BY DEF TypeOK
<1>7. HeldByJbod \subseteq Blocks
  BY SMTT(30), <1>1, <1>2, <1>3, <1>4, <1>5, <1>6 DEF LoopInside
<1>8. QED
  BY <1>1, <1>2, <1>3, <1>7
(* The counts stay exact when the JBOD comes to hold, or lets go, a block. *)
LEMMA Counts ==
  ASSUME TypeOK, RefExact
  PROVE  \A b \in Blocks :
           /\ Cardinality(Users(b)) \in Nat /\ ref[b] \in Int
           /\ ref[b] = Cardinality(Users(b)) + IF b \in HeldByJbod THEN 1 ELSE 0
           /\ ref[b] >= 0
           /\ b \in HeldByJbod => ref[b] > 0
<1>1. \A b \in Blocks : Cardinality(Users(b)) \in Nat /\ ref[b] \in Int
  BY UsersFinite DEF TypeOK
<1>2. \A b \in Blocks : ref[b] = Cardinality(Users(b)) + IF b \in HeldByJbod THEN 1 ELSE 0
  BY DEF RefExact, Users
<1>3. QED
  BY <1>1, <1>2
-----------------------------------------------------------------------------
LEMMA BeginOK ==
  ASSUME IInv, NEW kind \in {"open", "close"}, Begin(kind)
  PROVE  IInv'
<1> USE DEF IInv
<1>1. /\ walk = Idle /\ (serving <=> kind = "close")
      /\ walk' = [kind |-> kind, pos |-> 1, stop |-> Len(block_vector) + 1]
      /\ ~serving' /\ serving' \in BOOLEAN
      /\ UNCHANGED <<ref, opened, block_vector, super>>
  BY Zenon DEF Begin
<1>2. TypeOK'
  <2>1. walk' \in [kind : {"idle", "open", "rollback", "close"}, pos : Nat, stop : Nat]
    BY <1>1 DEF TypeOK
  <2>2. QED
    BY <1>1, <2>1 DEF TypeOK
<1>3. Distinct' /\ LoopInside' /\ OpenIffUsed'
  BY <1>1 DEF Distinct, LoopInside, OpenIffUsed
<1>4. HeldByJbod' = HeldByJbod
  <2>1. CASE kind = "open"
    BY <1>1, <2>1 DEF HeldByJbod, Idle
  <2>2. CASE kind = "close"
    BY <1>1, <2>2 DEF HeldByJbod, Idle, TypeOK
  <2>3. QED
    BY <2>1, <2>2
<1>5. RefExact'
  BY <1>1, <1>4 DEF RefExact
<1>6. QED
  BY <1>2, <1>3, <1>5

(* A loop's next block is in the vector; the loop goes on or ends.         *)
LEMMA Advancing ==
  ASSUME TypeOK, Distinct, LoopInside, walk.kind # "idle", walk' = Advance,
         UNCHANGED block_vector
  PROVE  /\ walk.pos \in 1 .. Len(block_vector)
         /\ block_vector[walk.pos] \in Blocks
         /\ walk' \in [kind : {"idle", "open", "rollback", "close"}, pos : Nat, stop : Nat]
         /\ walk'.stop <= Len(block_vector) + 1
         /\ walk.pos + 1 < walk.stop =>
              walk'.kind = walk.kind /\ walk'.pos = walk.pos + 1 /\ walk'.stop = walk.stop
         /\ ~(walk.pos + 1 < walk.stop) => walk' = Idle /\ walk.stop = walk.pos + 1
<1>1. /\ walk.pos \in Nat /\ walk.stop \in Nat /\ walk.stop <= Len(block_vector) + 1
      /\ 1 <= walk.pos /\ walk.pos < walk.stop /\ Len(block_vector) \in Nat
  BY DEF TypeOK, LoopInside
<1>2. walk.pos \in 1 .. Len(block_vector)
  BY <1>1
<1>3. block_vector[walk.pos] \in Blocks
  BY <1>2 DEF TypeOK
<1>4. CASE walk.pos + 1 < walk.stop
  <2>1. walk' = [walk EXCEPT !.pos = walk.pos + 1]
    BY <1>4 DEF Advance
  <2>2. walk'.kind = walk.kind /\ walk'.pos = walk.pos + 1 /\ walk'.stop = walk.stop
    BY <2>1 DEF TypeOK
  <2>3. walk' \in [kind : {"idle", "open", "rollback", "close"}, pos : Nat, stop : Nat]
    <3>1. walk \in [kind : {"idle", "open", "rollback", "close"}, pos : Nat, stop : Nat]
      BY DEF TypeOK
    <3>2. walk.pos + 1 \in Nat
      BY <1>1
    <3>3. QED
      BY <2>1, <3>1, <3>2
  <2>4. QED
    BY <1>1, <1>2, <1>3, <1>4, <2>2, <2>3
<1>5. CASE ~(walk.pos + 1 < walk.stop)
  <2>1. walk' = Idle /\ walk.stop = walk.pos + 1
    BY <1>1, <1>5 DEF Advance
  <2>2. QED
    BY <1>1, <1>2, <1>3, <1>5, <2>1 DEF Idle
<1>6. QED
  BY <1>4, <1>5

LEMMA OpenNextOK == IInv /\ OpenNext => IInv'
<1> SUFFICES ASSUME IInv, OpenNext
             PROVE  IInv'
  OBVIOUS
<1> USE DEF IInv
<1>1. PICK b \in Blocks : b = block_vector[walk.pos] /\ OpenOk(b)
  BY Advancing DEF OpenNext
<1>2. /\ walk.kind = "open" /\ walk' = Advance
      /\ (serving' <=> walk.pos + 1 = walk.stop) /\ serving' \in BOOLEAN
      /\ UNCHANGED <<block_vector, super>>
  BY Zenon DEF OpenNext
<1>3. /\ walk.pos \in 1 .. Len(block_vector) /\ walk.stop = Len(block_vector) + 1
      /\ walk.pos \in Nat /\ Len(block_vector) \in Nat
  BY <1>2, Advancing DEF LoopInside, TypeOK
<1>4. HeldByJbod = {block_vector[i] : i \in 1 .. (walk.pos - 1)}
  BY <1>2, Holding
<1>5. b \notin HeldByJbod
  BY <1>1, <1>3, <1>4 DEF Distinct
<1>6. HeldByJbod' = {block_vector[i] : i \in 1 .. walk.pos}
  <2>1. CASE walk.pos + 1 < walk.stop
    <3>1. walk'.kind = "open" /\ walk'.pos = walk.pos + 1
      BY <1>2, <2>1, Advancing
    <3>2. QED
      BY <1>2, <1>3, <3>1 DEF HeldByJbod
  <2>2. CASE ~(walk.pos + 1 < walk.stop)
    <3>1. walk' = Idle /\ serving' /\ walk.pos = Len(block_vector)
      BY <1>2, <1>3, <2>2, Advancing
    <3>2. QED
      BY <1>2, <3>1 DEF HeldByJbod, Idle
  <2>3. QED
    BY <2>1, <2>2
<1>7. HeldByJbod' = HeldByJbod \cup {b}
  BY <1>1, <1>3, <1>4, <1>6
<1>8. ref[b] >= 0
  BY Counts
<1>9. /\ ref' \in [Blocks -> Int] /\ opened' \in [Blocks -> BOOLEAN]
      /\ OpenIffUsed'
      /\ \A c \in Blocks : ref'[c] = ref[c] + IF c = b THEN 1 ELSE 0
  BY <1>1, <1>8, OpenOkKeeps
<1>10. TypeOK'
  BY <1>2, <1>9, Advancing DEF TypeOK
<1>11. Distinct' /\ LoopInside'
  <2>1. CASE walk.pos + 1 < walk.stop
    BY <1>2, <1>3, <2>1, Advancing DEF Distinct, LoopInside
  <2>2. CASE ~(walk.pos + 1 < walk.stop)
    BY <1>2, <1>3, <2>2, Advancing DEF Distinct, LoopInside, Idle
  <2>3. QED
    BY <2>1, <2>2
<1>12. RefExact'
  <2>1. \A c \in Blocks : ref'[c] = Cardinality(Users(c)) + IF c \in HeldByJbod' THEN 1 ELSE 0
    BY <1>5, <1>7, <1>9, Counts
  <2>2. QED
    BY <1>2, <2>1 DEF RefExact, Users
<1>13. QED
  BY <1>9, <1>10, <1>11, <1>12

(* A failed open() changes nothing but the loop: it goes back over what it *)
(* had opened, which is what the JBOD holds.                               *)
LEMMA OpenFailsOK == IInv /\ OpenFails => IInv'
<1> SUFFICES ASSUME IInv, OpenFails
             PROVE  IInv'
  OBVIOUS
<1> USE DEF IInv
<1>1. /\ walk.kind = "open" /\ UNCHANGED <<ref, opened, block_vector, serving, super>>
      /\ walk' = IF walk.pos = 1 THEN Idle
                 ELSE [kind |-> "rollback", pos |-> 1, stop |-> walk.pos]
  BY DEF OpenFails, OpenFail
<1>2. /\ walk.pos \in Nat /\ 1 <= walk.pos /\ walk.pos < walk.stop /\ ~serving
      /\ walk.stop = Len(block_vector) + 1 /\ Len(block_vector) \in Nat
  BY <1>1 DEF LoopInside, TypeOK
<1>3. TypeOK'
  <2>1. walk' \in [kind : {"idle", "open", "rollback", "close"}, pos : Nat, stop : Nat]
    BY <1>1, <1>2 DEF Idle
  <2>2. walk'.stop <= Len(block_vector) + 1
    BY <1>1, <1>2 DEF Idle
  <2>3. QED
    BY <1>1, <2>1, <2>2 DEF TypeOK
<1>4. Distinct' /\ LoopInside' /\ OpenIffUsed'
  BY <1>1, <1>2 DEF Distinct, LoopInside, OpenIffUsed, Idle
<1>5. HeldByJbod' = HeldByJbod
  <2>1. HeldByJbod = {block_vector[i] : i \in 1 .. (walk.pos - 1)}
    BY <1>1, Holding
  <2>2. CASE walk.pos = 1
    BY <1>1, <1>2, <2>1, <2>2 DEF HeldByJbod, Idle
  <2>3. CASE walk.pos # 1
    BY <1>1, <1>2, <2>1, <2>3 DEF HeldByJbod
  <2>4. QED
    BY <2>2, <2>3
<1>6. RefExact'
  BY <1>1, <1>5 DEF RefExact
<1>7. QED
  BY <1>3, <1>4, <1>6

LEMMA CloseNextOK == IInv /\ CloseNext => IInv'
<1> SUFFICES ASSUME IInv, CloseNext
             PROVE  IInv'
  OBVIOUS
<1> USE DEF IInv
<1>1. PICK b \in Blocks : b = block_vector[walk.pos] /\ CloseRef(b)
  BY Advancing DEF CloseNext
<1>2. /\ walk.kind \in {"rollback", "close"} /\ walk' = Advance
      /\ UNCHANGED <<block_vector, serving, super>>
  BY DEF CloseNext
<1>3. /\ walk.pos \in 1 .. Len(block_vector) /\ walk.pos < walk.stop /\ ~serving
      /\ walk.stop <= Len(block_vector) + 1
      /\ walk.pos \in Nat /\ walk.stop \in Nat /\ Len(block_vector) \in Nat
  BY <1>2, Advancing DEF LoopInside, TypeOK
<1>4. HeldByJbod = {block_vector[i] : i \in walk.pos .. (walk.stop - 1)}
  BY <1>2, Holding
<1>5. b \in HeldByJbod
  BY <1>1, <1>3, <1>4
<1>6. HeldByJbod' = {block_vector[i] : i \in (walk.pos + 1) .. (walk.stop - 1)}
  <2>1. CASE walk.pos + 1 < walk.stop
    <3>1. walk'.kind \in {"rollback", "close"} /\ walk'.pos = walk.pos + 1 /\ walk'.stop = walk.stop
      BY <1>2, <2>1, Advancing
    <3>2. QED
      BY <1>2, <1>3, <3>1 DEF HeldByJbod
  <2>2. CASE ~(walk.pos + 1 < walk.stop)
    <3>1. walk' = Idle /\ ~serving' /\ walk.stop = walk.pos + 1
      BY <1>2, <1>3, <2>2, Advancing
    <3>2. HeldByJbod' = {}
      BY <3>1 DEF HeldByJbod, Idle
    <3>3. QED
      BY <1>3, <3>1, <3>2
  <2>3. QED
    BY <2>1, <2>2
<1>7. HeldByJbod' = HeldByJbod \ {b}
  BY SMTT(30), <1>1, <1>3, <1>4, <1>6 DEF Distinct
<1>8. ref[b] > 0
  BY <1>5, Counts
<1>9. /\ ref' \in [Blocks -> Int] /\ opened' \in [Blocks -> BOOLEAN]
      /\ OpenIffUsed'
      /\ \A c \in Blocks : ref'[c] = ref[c] - IF c = b THEN 1 ELSE 0
  BY <1>1, <1>8, CloseRefKeeps
<1>10. TypeOK'
  BY <1>2, <1>9, Advancing DEF TypeOK
<1>11. Distinct' /\ LoopInside'
  <2>1. CASE walk.pos + 1 < walk.stop
    BY <1>2, <1>3, <2>1, Advancing DEF Distinct, LoopInside
  <2>2. CASE ~(walk.pos + 1 < walk.stop)
    BY <1>2, <1>3, <2>2, Advancing DEF Distinct, LoopInside, Idle
  <2>3. QED
    BY <2>1, <2>2
<1>12. RefExact'
  <2>1. \A c \in Blocks : ref'[c] = Cardinality(Users(c)) + IF c \in HeldByJbod' THEN 1 ELSE 0
    BY <1>5, <1>7, <1>9, Counts
  <2>2. QED
    BY <1>2, <2>1 DEF RefExact, Users
<1>13. QED
  BY <1>9, <1>10, <1>11, <1>12

(* Without AddWhileOpen a block is added only to a JBOD that holds none.   *)
LEMMA AddBlockOK ==
  ASSUME IInv, ~AddWhileOpen, NEW b \in Blocks, AddBlock(b)
  PROVE  IInv'
<1> USE DEF IInv
<1>1. /\ walk = Idle /\ ~serving
      /\ \A i \in 1 .. Len(block_vector) : block_vector[i] # b
      /\ block_vector' = Append(block_vector, b)
      /\ UNCHANGED <<ref, opened, walk, serving, super>>
  BY DEF AddBlock
<1>2. /\ block_vector' \in Seq(Blocks) /\ Len(block_vector') = Len(block_vector) + 1
      /\ \A i \in 1 .. Len(block_vector') :
           block_vector'[i] = IF i = Len(block_vector) + 1 THEN b ELSE block_vector[i]
  BY <1>1 DEF TypeOK
<1>3. TypeOK'
  BY <1>1, <1>2 DEF TypeOK, Idle
<1>4. Distinct'
  BY SMTT(30), <1>1, <1>2 DEF Distinct, TypeOK
<1>5. LoopInside' /\ OpenIffUsed'
  BY <1>1 DEF LoopInside, OpenIffUsed, Idle
<1>6. HeldByJbod' = HeldByJbod
  BY <1>1 DEF HeldByJbod, Idle
<1>7. RefExact'
  BY <1>1, <1>6 DEF RefExact
<1>8. QED
  BY <1>3, <1>4, <1>5, <1>7
-----------------------------------------------------------------------------
LEMMA SuperOpenOK ==
  ASSUME IInv, NEW u \in SuperUsers, NEW b \in Blocks, SuperOpen(u, b)
  PROVE  IInv'
<1> USE DEF IInv
<1>1. /\ super[u] = NoBlock /\ OpenOk(b) /\ super' = [super EXCEPT ![u] = b]
      /\ UNCHANGED <<block_vector, walk, serving>>
  BY DEF SuperOpen
<1>2. ref[b] >= 0
  BY Counts
<1>3. /\ ref' \in [Blocks -> Int] /\ opened' \in [Blocks -> BOOLEAN]
      /\ OpenIffUsed'
      /\ \A c \in Blocks : ref'[c] = ref[c] + IF c = b THEN 1 ELSE 0
  BY <1>1, <1>2, OpenOkKeeps
<1>4. \A c \in Blocks : Cardinality(Users(c)') = Cardinality(Users(c)) + IF c = b THEN 1 ELSE 0
  BY <1>1, OneUserMore
<1>5. TypeOK'
  <2>1. super' \in [SuperUsers -> Blocks \cup {NoBlock}]
    BY <1>1 DEF TypeOK
  <2>2. QED
    BY <1>1, <1>3, <2>1 DEF TypeOK
<1>6. Distinct' /\ LoopInside' /\ HeldByJbod' = HeldByJbod
  BY <1>1 DEF Distinct, LoopInside, HeldByJbod
<1>7. RefExact'
  <2>1. \A c \in Blocks : ref'[c] = Cardinality(Users(c)') + IF c \in HeldByJbod' THEN 1 ELSE 0
    BY <1>3, <1>4, <1>6, Counts
  <2>2. QED
    BY <2>1 DEF RefExact, Users
<1>8. QED
  BY <1>3, <1>5, <1>6, <1>7

LEMMA SuperCloseOK ==
  ASSUME IInv, NEW u \in SuperUsers, SuperClose(u)
  PROVE  IInv'
<1> USE DEF IInv
<1>1. /\ super[u] # NoBlock /\ super' = [super EXCEPT ![u] = NoBlock]
      /\ CloseRef(super[u]) /\ UNCHANGED <<block_vector, walk, serving>>
  BY DEF SuperClose
<1>2. PICK b \in Blocks : b = super[u] /\ Cardinality(Users(b)) > 0
  BY <1>1, OneUserLess
<1>3. \A c \in Blocks : Cardinality(Users(c)') = Cardinality(Users(c)) - IF c = b THEN 1 ELSE 0
  BY <1>1, <1>2, OneUserLess
<1>4. ref[b] > 0
  BY <1>2, Counts
<1>5. /\ ref' \in [Blocks -> Int] /\ opened' \in [Blocks -> BOOLEAN]
      /\ OpenIffUsed'
      /\ \A c \in Blocks : ref'[c] = ref[c] - IF c = b THEN 1 ELSE 0
  BY <1>1, <1>2, <1>4, CloseRefKeeps
<1>6. TypeOK'
  <2>1. super' \in [SuperUsers -> Blocks \cup {NoBlock}]
    BY <1>1 DEF TypeOK
  <2>2. QED
    BY <1>1, <1>5, <2>1 DEF TypeOK
<1>7. Distinct' /\ LoopInside' /\ HeldByJbod' = HeldByJbod
  BY <1>1 DEF Distinct, LoopInside, HeldByJbod
<1>8. RefExact'
  <2>1. \A c \in Blocks : ref'[c] = Cardinality(Users(c)') + IF c \in HeldByJbod' THEN 1 ELSE 0
    BY <1>3, <1>5, <1>7, Counts
  <2>2. QED
    BY <2>1 DEF RefExact, Users
<1>9. QED
  BY <1>5, <1>6, <1>7, <1>8
-----------------------------------------------------------------------------
LEMMA NextOK == ~AddWhileOpen /\ IInv /\ [Next]_vars => IInv'
<1> SUFFICES ASSUME ~AddWhileOpen, IInv, [Next]_vars
             PROVE  IInv'
  OBVIOUS
<1>1. CASE UNCHANGED vars
  BY <1>1 DEF vars, IInv, TypeOK, Distinct, LoopInside, OpenIffUsed, RefExact, HeldByJbod
<1>2. CASE \E kind \in {"open", "close"} : Begin(kind)
  BY <1>2, BeginOK
<1>3. CASE \E b \in Blocks : AddBlock(b)
  BY <1>3, AddBlockOK
<1>4. CASE \E u \in SuperUsers : SuperClose(u) \/ \E b \in Blocks : SuperOpen(u, b)
  BY <1>4, SuperCloseOK, SuperOpenOK
<1>5. QED
  BY <1>1, <1>2, <1>3, <1>4, OpenNextOK, OpenFailsOK, CloseNextOK DEF Next

(* The inductive invariant, for a JBOD no block is added to while open.    *)
THEOREM Invariance == ASSUME ~AddWhileOpen PROVE Spec => []IInv
<1>1. IInv /\ [Next]_vars => IInv'
  BY NextOK
<1>2. QED
  BY <1>1, InitOK, PTL DEF Spec

(* The loops of open, rollback and close stay inside the vector.           *)
THEOREM TypeCorrect == ASSUME ~AddWhileOpen PROVE Spec => []TypeOK
<1>1. IInv => TypeOK
  BY DEF IInv
<1>2. QED
  BY <1>1, Invariance, PTL

(* The count of algo_block_open_ref is the number of users of the block.   *)
THEOREM RefExactHolds == ASSUME ~AddWhileOpen PROVE Spec => []RefExact
<1>1. IInv => RefExact
  BY DEF IInv
<1>2. QED
  BY <1>1, Invariance, PTL

(* Neither the JBOD nor a superblock access meets a closed device.         *)
THEOREM UsersFindDeviceOpenHolds ==
  ASSUME ~AddWhileOpen PROVE Spec => []UsersFindDeviceOpen
<1>1. IInv => UsersFindDeviceOpen
  <2> SUFFICES ASSUME IInv
               PROVE  UsersFindDeviceOpen
    OBVIOUS
  <2> USE DEF IInv
  <2>1. \A b \in HeldByJbod : opened[b]
    BY Holding, Counts DEF OpenIffUsed
  <2>2. ASSUME NEW u \in SuperUsers, super[u] # NoBlock
        PROVE  opened[super[u]]
    <3>1. PICK b \in Blocks : b = super[u]
      BY <2>2 DEF TypeOK
    <3>2. u \in Users(b) /\ IsFiniteSet(Users(b)) /\ Cardinality(Users(b)) \in Nat
      BY <3>1, UsersFinite DEF Users
    <3>3. Cardinality(Users(b)) > 0
      BY <3>2, FS_EmptySet
    <3>4. ref[b] > 0
      BY <3>3, Counts
    <3>5. QED
      BY <3>1, <3>4 DEF OpenIffUsed
  <2>3. QED
    BY <2>1, <2>2 DEF UsersFindDeviceOpen
<1>2. QED
  BY <1>1, Invariance, PTL

(* No device is left open by a failed open() or a close().                 *)
THEOREM NoLeakHolds == ASSUME ~AddWhileOpen PROVE Spec => []NoLeak
<1>1. IInv => NoLeak
  <2> SUFFICES ASSUME IInv, walk = Idle, ~serving,
                      \A u \in SuperUsers : super[u] = NoBlock,
                      NEW b \in Blocks
               PROVE  ~opened[b]
    BY DEF NoLeak
  <2> USE DEF IInv
  <2>1. HeldByJbod = {}
    BY Holding DEF Idle
  <2>2. Users(b) = {}
    BY NoBlockAssumption DEF Users
  <2>3. Cardinality(Users(b)) = 0
    BY <2>2, FS_EmptySet
  <2>4. ref[b] = 0
    BY <2>1, <2>3, Counts
  <2>5. QED
    BY <2>4 DEF OpenIffUsed
<1>2. QED
  BY <1>1, Invariance, PTL
=============================================================================
