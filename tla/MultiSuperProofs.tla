--------------------------- MODULE MultiSuperProofs ----------------------------
(***************************************************************************)
(* Whatever fails, tears or interleaves, a load that met one whole copy    *)
(* returns a value the medium stood for or throws; and a completed save    *)
(* reads back, or, once a block was added, makes every load throw.  For    *)
(* any number of blocks, threads, values and texts.                        *)
(***************************************************************************)
EXTENDS MultiSuper, TLAPS

\* A thread in write_super: the copies behind it hold its value.
SavingOK(t) ==
  pc[t] = "saving" =>
    /\ obj[t] \in current
    /\ \A i \in Copies : i < at[t] => text[i] = TextOf(obj[t])
    /\ \A u \in Threads : pc[u] = "saving" => u = t

\* After a completed save the copies hold the one value that is current, the blocks
\* added since then are blank.
HoldsOnly(v) ==
  /\ current = {v} /\ text[1] = TextOf(v)
  /\ \A i \in 1 .. blocks : text[i] = TextOf(v) \/ (settled = "some" /\ text[i] = Blank)
  /\ settled = "some" => text[blocks] = Blank /\ blocks > 1

SettledOK ==
  /\ \A i \in Copies : i > blocks => text[i] = Blank
  /\ settled # "no" => /\ \A t \in Threads : pc[t] # "saving"
                       /\ \E v \in Objs : HoldsOnly(v)

\* What read_super carries from copy to copy: once it met a whole copy, last_obj is
\* not empty and stands for a value of the window.
MetOK(t) ==
  met[t] => /\ last_obj[t] # NoValue
            /\ \E v \in window[t] : Kept(v) /\ Equal(last_obj[t], v)

SteadyOK(t) ==
  steady[t] # "no" =>
    /\ settled = steady[t] /\ window[t] = current
    /\ \A v \in window[t] : Kept(v) =>
         IF at[t] = 1 THEN last_obj[t] = NoValue ELSE Equal(last_obj[t], v)

LoadingOK(t) ==
  pc[t] = "loading" => /\ result[t] = NotYet
                       /\ current \subseteq window[t]
                       /\ MetOK(t) /\ SteadyOK(t)

SoundOf(t) ==
  Returned(t) /\ met[t] => \E v \in window[t] : Kept(v) /\ Equal(result[t], v)
BackOf(t) ==
  \A v \in window[t] : steady[t] # "no" /\ Kept(v) =>
    \/ result[t] \in {NotYet, ReadError}
    \/ steady[t] = "every" /\ Returned(t) /\ Equal(result[t], v)
    \/ steady[t] = "some" /\ result[t] = Mismatch

IInv ==
  /\ TypeOK /\ SettledOK
  /\ \A t \in Threads : SavingOK(t) /\ LoadingOK(t) /\ SoundOf(t) /\ BackOf(t)

LEMMA InitIInv == Init => IInv
<1> SUFFICES ASSUME Init PROVE IInv
  OBVIOUS
<1> USE SizeAssumption, TextAssumption DEF Init
<1>1. TypeOK
  <2>1. blocks \in Copies /\ 1 \in 1 .. blocks
    BY DEF Copies
  <2>2. at \in [Threads -> 1 .. blocks]
    BY <2>1
  <2>3. result \in [Threads -> Results]
    BY DEF Results
  <2> HIDE SizeAssumption
  <2> QED BY <2>1, <2>2, <2>3 DEF TypeOK, Settlement
<1>2. SettledOK
  BY DEF SettledOK
<1>3. ASSUME NEW t \in Threads
      PROVE  SavingOK(t) /\ LoadingOK(t) /\ SoundOf(t) /\ BackOf(t)
  BY DEF SavingOK, LoadingOK, SoundOf, BackOf, Returned
<1> QED BY <1>1, <1>2, <1>3 DEF IInv

-------------------------------------------------------------------------------
\* A save begins only while no other is under way; from here on nothing is settled.
LEMMA BeginSaveInv ==
  ASSUME IInv, NEW t \in Threads, NEW o \in Objs, BeginSave(t, o)
  PROVE  IInv'
<1> USE DEF IInv, BeginSave, media
<1>1. TypeOK'
  <2>1. 1 \in 1 .. blocks
    BY SizeAssumption DEF TypeOK, Copies
  <2>2. at' \in [Threads -> 1 .. blocks'] /\ saves' \in Nat
    BY <2>1 DEF TypeOK
  <2>3. window' \in [Threads -> SUBSET Objs]
    BY DEF TypeOK
  <2>4. obj' \in [Threads -> Values]
    BY TextAssumption DEF TypeOK
  <2> QED BY <2>2, <2>3, <2>4 DEF TypeOK, Settlement
<1>2. SettledOK'
  BY DEF SettledOK
<1>3. ASSUME NEW u \in Threads PROVE SavingOK(u)'
  <2>1. \A w \in Threads : pc[w] # "saving"
    BY DEF Saving
  <2>2. CASE u = t
    BY <2>1, <2>2 DEF SavingOK, TypeOK, Copies
  <2>3. CASE u # t
    BY <2>1, <2>3 DEF SavingOK, TypeOK
  <2> QED BY <2>2, <2>3
<1>4. ASSUME NEW u \in Threads PROVE LoadingOK(u)'
  <2> SUFFICES ASSUME pc[u] = "loading", u # t
               PROVE  LoadingOK(u)'
    BY DEF LoadingOK, TypeOK
  <2>1. MetOK(u)'
    BY DEF LoadingOK, MetOK
  <2> QED BY <2>1 DEF LoadingOK, SteadyOK, TypeOK
<1>5. ASSUME NEW u \in Threads PROVE SoundOf(u)' /\ BackOf(u)'
  BY DEF SoundOf, BackOf, Returned
<1> QED BY <1>1, <1>2, <1>3, <1>4, <1>5

\* While a thread saves, nothing is settled and no load is steady.
LEMMA SavingUnsettled ==
  ASSUME IInv, NEW t \in Threads, pc[t] = "saving"
  PROVE  settled = "no" /\ \A u \in Threads : pc[u] = "loading" => steady[u] = "no"
BY DEF IInv, SettledOK, LoadingOK, SteadyOK

\* A save ends, in whatever way, or leaves one more copy behind it.
LEMMA SaveCopyInv ==
  ASSUME IInv, NEW t \in Threads, SaveCopy(t)
  PROVE  IInv'
<1> USE DEF IInv, SaveCopy
<1>0. /\ pc[t] = "saving" /\ at[t] \in Copies /\ obj[t] \in current /\ obj[t] \in Objs
      /\ at[t] \in 1 .. blocks /\ blocks \in 1 .. N
      /\ \A u \in Threads : pc[u] = "saving" => u = t
  BY SizeAssumption DEF SavingOK, TypeOK, Copies
<1>a. at[t] < blocks => /\ at' = [at EXCEPT ![t] = at[t] + 1]
                        /\ UNCHANGED <<pc, current, settled>>
  BY <1>0
<1>b. at[t] = blocks => /\ pc' = [pc EXCEPT ![t] = "idle"]
                        /\ current' = {obj[t]} /\ settled' = "every"
                        /\ UNCHANGED at
  BY <1>0
<1>1. TypeOK'
  <2>1. text' \in [Copies -> Texts]
    BY <1>0, TextAssumption DEF TypeOK
  <2>2. at' \in [Threads -> 1 .. blocks'] /\ pc' \in [Threads -> {"idle", "saving", "loading"}]
    <3>1. CASE at[t] < blocks
      BY <3>1, <1>0, <1>a DEF TypeOK
    <3>2. CASE at[t] = blocks
      BY <3>2, <1>0, <1>b DEF TypeOK
    <3> QED BY <3>1, <3>2, <1>0
  <2>3. current' \subseteq Objs /\ settled' \in Settlement
    BY <1>0 DEF TypeOK, Settlement
  <2> QED BY <2>1, <2>2, <2>3 DEF TypeOK
<1>2. \A i \in Copies : i <= at[t] => text'[i] = TextOf(obj[t])
  BY <1>0, SizeAssumption DEF SavingOK, TypeOK, Copies
<1>3. SettledOK'
  <2>0. \A i \in Copies : i > blocks' => text'[i] = Blank
    BY <1>0 DEF SettledOK, TypeOK, Copies
  <2>1. CASE at[t] < blocks
    BY <2>0, <2>1, <1>0, <1>a, SavingUnsettled DEF SettledOK
  <2>2. CASE at[t] = blocks
    <3>1. \A u \in Threads : pc'[u] # "saving"
      BY <2>2, <1>0, <1>b DEF TypeOK
    <3>2. \A i \in 1 .. blocks' : text'[i] = TextOf(obj[t])
      BY <2>2, <1>0, <1>2, SizeAssumption DEF Copies
    <3>3. HoldsOnly(obj[t])'
      BY <2>2, <1>0, <1>b, <3>2 DEF HoldsOnly
    <3> QED BY <2>0, <1>0, <3>1, <3>3 DEF SettledOK
  <2> QED BY <2>1, <2>2, <1>0
<1>4. ASSUME NEW u \in Threads PROVE SavingOK(u)'
  <2>1. CASE u = t
    <3>1. CASE at[t] < blocks
      BY <2>1, <3>1, <1>0, <1>2, SizeAssumption DEF SavingOK, TypeOK, Copies
    <3>2. CASE at[t] = blocks
      BY <2>1, <3>2, <1>0 DEF SavingOK, TypeOK
    <3> QED BY <3>1, <3>2, <1>0
  <2>2. CASE u # t
    BY <2>2, <1>0 DEF SavingOK, TypeOK
  <2> QED BY <2>1, <2>2
<1>5. ASSUME NEW u \in Threads PROVE LoadingOK(u)'
  <2> SUFFICES ASSUME pc[u] = "loading", u # t PROVE LoadingOK(u)'
    BY <1>0 DEF LoadingOK, TypeOK
  <2>1. MetOK(u)' /\ steady'[u] = "no"
    BY <1>0, SavingUnsettled DEF LoadingOK, MetOK
  <2>2. current' \subseteq window[u]
    BY <1>0 DEF LoadingOK
  <2> QED BY <2>1, <2>2 DEF LoadingOK, SteadyOK, TypeOK
<1>6. ASSUME NEW u \in Threads PROVE SoundOf(u)' /\ BackOf(u)'
  BY DEF SoundOf, BackOf, Returned
<1> QED BY <1>1, <1>3, <1>4, <1>5, <1>6

LEMMA SaveEndsInv ==
  ASSUME IInv, NEW t \in Threads, SaveRefused(t) \/ SaveFails(t)
  PROVE  IInv'
<1> USE DEF IInv
<1>0. /\ pc[t] = "saving" /\ pc' = [pc EXCEPT ![t] = "idle"] /\ text' \in [Copies -> Texts]
      /\ UNCHANGED <<blocks, at, obj, last_obj, result, saves, loads, crashes, history>>
  <2>1. CASE SaveRefused(t)
    BY <2>1 DEF SaveRefused, media, TypeOK
  <2>2. CASE SaveFails(t)
    <3>1. PICK x \in TornWrites(text[at[t]], TextOf(obj[t])) : text' = [text EXCEPT ![at[t]] = x]
      BY <2>2 DEF SaveFails
    <3>2. text[at[t]] \in Texts /\ obj[t] \in Objs
      BY <2>2, SizeAssumption DEF SaveFails, SavingOK, TypeOK, Copies
    <3> QED BY <2>2, <3>1, <3>2, TextAssumption DEF SaveFails, TypeOK
  <2> QED BY <2>1, <2>2
<1>1. TypeOK'
  BY <1>0 DEF TypeOK, history
<1>2. SettledOK'
  <2>1. \A i \in Copies : i # at[t] => text'[i] = text[i]
    <3>1. CASE SaveRefused(t)
      BY <3>1 DEF SaveRefused, media
    <3>2. CASE SaveFails(t)
      BY <3>2 DEF SaveFails, TypeOK
    <3> QED BY <3>1, <3>2
  <2>2. at[t] \in 1 .. blocks
    BY DEF TypeOK
  <2> QED BY <1>0, <2>1, <2>2, SavingUnsettled DEF SettledOK, history, TypeOK, Copies
<1>3. ASSUME NEW u \in Threads PROVE SavingOK(u)'
  BY <1>0 DEF SavingOK, TypeOK
<1>4. ASSUME NEW u \in Threads PROVE LoadingOK(u)' /\ SoundOf(u)' /\ BackOf(u)'
  BY <1>0, SavingUnsettled DEF LoadingOK, MetOK, SteadyOK, SoundOf, BackOf, Returned, TypeOK, history
<1> QED BY <1>1, <1>2, <1>3, <1>4

-------------------------------------------------------------------------------
LEMMA BeginLoadInv ==
  ASSUME IInv, NEW t \in Threads, BeginLoad(t)
  PROVE  IInv'
<1> USE DEF IInv, BeginLoad, media
<1>1. TypeOK'
  BY SizeAssumption, TextAssumption DEF TypeOK, Copies, Results
<1>2. SettledOK'
  BY DEF SettledOK, HoldsOnly, TypeOK
<1>3. ASSUME NEW u \in Threads PROVE SavingOK(u)'
  BY DEF SavingOK, TypeOK
<1>4. ASSUME NEW u \in Threads PROVE LoadingOK(u)'
  <2>1. CASE u = t
    BY <2>1 DEF LoadingOK, MetOK, SteadyOK, TypeOK
  <2>2. CASE u # t
    BY <2>2 DEF LoadingOK, MetOK, SteadyOK, TypeOK
  <2> QED BY <2>1, <2>2
<1>5. ASSUME NEW u \in Threads PROVE SoundOf(u)' /\ BackOf(u)'
  <2>1. CASE u = t
    BY <2>1, TextAssumption DEF SoundOf, BackOf, Returned, TypeOK
  <2>2. CASE u # t
    BY <2>2 DEF SoundOf, BackOf, Returned, TypeOK
  <2> QED BY <2>1, <2>2
<1> QED BY <1>1, <1>2, <1>3, <1>4, <1>5

\* The copy read, and last_obj before and after: a copy that passes the test of
\* read_super stands for what the whole copies before it stand for.  While nothing is
\* saved, the copies of the last save pass it, and a blank one behind them does not.
LEMMA CopyRead ==
  ASSUME IInv, NEW t \in Threads, LoadCopy(t)
  PROVE  LET o == Parsed(text[at[t]]) IN
         /\ o \in Values /\ current \subseteq Objs
         /\ pc[t] = "loading" /\ at[t] \in 1 .. blocks
         /\ ~Differs(last_obj[t], o) /\ met'[t] =>
              o # NoValue /\ \E v \in window[t] : Kept(v) /\ Equal(o, v)
         /\ steady[t] # "no" => \A v \in window[t] : Kept(v) =>
              \/ Equal(o, v) /\ ~Differs(last_obj[t], o)
                   /\ (at[t] = blocks => steady[t] = "every")
              \/ Differs(last_obj[t], o) /\ steady[t] = "some"
<1> DEFINE o == Parsed(text[at[t]])
<1> USE DEF IInv
<1>1. /\ pc[t] = "loading" /\ at[t] \in 1 .. blocks /\ at[t] \in Copies
      /\ text[at[t]] \in Texts /\ last_obj[t] \in Values
      /\ current \subseteq Objs /\ window[t] \subseteq Objs /\ Objs \subseteq Values
      /\ current \subseteq window[t]
  BY SizeAssumption, TextAssumption DEF LoadCopy, TypeOK, Copies, LoadingOK
<1>2. o \in Values
  BY <1>1, TextAssumption
<1>3. ASSUME NEW v \in Objs, Kept(v), text[at[t]] = TextOf(v) PROVE Equal(o, v)
  BY <1>3, ValueAssumption
<1> HIDE DEF o
<1>4. ASSUME ~Differs(last_obj[t], o), met'[t]
      PROVE  o # NoValue /\ \E v \in window[t] : Kept(v) /\ Equal(o, v)
  <2>1. CASE met[t]
    <3>1. PICK v \in window[t] : Kept(v) /\ Equal(last_obj[t], v)
      BY <2>1, <1>1 DEF LoadingOK, MetOK
    <3>2. Equal(last_obj[t], o)
      BY <1>4, <1>1, <2>1 DEF Differs, LoadingOK, MetOK
    <3>3. Equal(o, v) /\ o # NoValue
      BY <3>1, <3>2, <1>1, <1>2, ValueAssumption
    <3> QED BY <3>1, <3>3
  <2>2. CASE ~met[t]
    <3>1. PICK v \in current : Kept(v) /\ text[at[t]] = TextOf(v)
      BY <1>4, <2>2 DEF LoadCopy, TypeOK
    <3>2. Equal(o, v)
      BY <3>1, <1>1, <1>3
    <3> QED BY <3>1, <3>2, <1>1, <1>2, ValueAssumption
  <2> QED BY <2>1, <2>2
<1>5. ASSUME steady[t] # "no", NEW v \in window[t], Kept(v)
      PROVE  \/ Equal(o, v) /\ ~Differs(last_obj[t], o)
                  /\ (at[t] = blocks => steady[t] = "every")
             \/ Differs(last_obj[t], o) /\ steady[t] = "some"
  <2>1. /\ v \in Objs /\ v \in Values /\ settled = steady[t] /\ HoldsOnly(v)
        /\ IF at[t] = 1 THEN last_obj[t] = NoValue ELSE Equal(last_obj[t], v)
    BY <1>1, <1>5 DEF LoadingOK, SteadyOK, SettledOK, HoldsOnly
  <2>2. TextOf(v) # Blank
    BY <2>1, <1>5, TextAssumption, ValueAssumption
  <2>3. CASE text[at[t]] = TextOf(v)
    <3>1. Equal(o, v)
      BY <2>1, <2>3, <1>5, <1>3
    <3>2. last_obj[t] = NoValue \/ Equal(last_obj[t], o)
      BY <2>1, <3>1, <1>1, <1>2, ValueAssumption
    <3>3. at[t] = blocks => settled # "some"
      BY <2>1, <2>2, <2>3 DEF HoldsOnly
    <3> QED BY <1>5, <2>1, <3>1, <3>2, <3>3 DEF Differs, TypeOK, Settlement
  <2>4. CASE text[at[t]] # TextOf(v)
    <3>1. at[t] # 1 /\ settled = "some" /\ text[at[t]] = Blank
      BY <2>1, <2>4, <1>1 DEF HoldsOnly
    <3>2. o = NoValue
      BY <3>1, TextAssumption DEF o
    <3>3. Equal(last_obj[t], v) /\ last_obj[t] # NoValue
      BY <2>1, <3>1, ValueAssumption
    <3>4. Differs(last_obj[t], o)
      BY <3>2, <3>3, <1>1, ValueAssumption DEF Differs
    <3> QED BY <2>1, <3>1, <3>4
  <2> QED BY <2>3, <2>4
<1> QED BY <1>1, <1>2, <1>4, <1>5 DEF o

LEMMA LoadCopyInv ==
  ASSUME IInv, NEW t \in Threads, LoadCopy(t)
  PROVE  IInv'
<1> DEFINE o == Parsed(text[at[t]])
<1> USE DEF IInv
<1>0. /\ o \in Values /\ pc[t] = "loading" /\ at[t] \in 1 .. blocks /\ blocks \in Nat
      /\ UNCHANGED <<blocks, text, saves, loads, crashes, current, settled, window, steady>>
      /\ obj' = [obj EXCEPT ![t] = o]
      /\ met' \in [Threads -> BOOLEAN] /\ \A u \in Threads : u # t => met'[u] = met[u]
  <2>1. o \in Values /\ pc[t] = "loading" /\ at[t] \in 1 .. blocks /\ blocks \in Nat
    BY CopyRead DEF TypeOK, Copies
  <2> DEFINE b == met[t] \/ \E v \in current : Kept(v) /\ text[at[t]] = TextOf(v)
  <2>2. met' = [met EXCEPT ![t] = b] /\ b \in BOOLEAN
    BY DEF LoadCopy
  <2> HIDE DEF b
  <2>3. met' \in [Threads -> BOOLEAN] /\ \A u \in Threads : u # t => met'[u] = met[u]
    BY <2>2 DEF TypeOK
  <2> QED BY <2>1, <2>3 DEF LoadCopy, media
<1>a. CASE /\ Differs(last_obj[t], o) /\ result' = [result EXCEPT ![t] = Mismatch]
           /\ pc' = [pc EXCEPT ![t] = "idle"] /\ UNCHANGED <<at, last_obj>>
  <2> USE <1>a
  <2>1. TypeOK'
    BY <1>0 DEF TypeOK, Results
  <2>2. steady[t] # "no" => \A v \in window[t] : Kept(v) => steady[t] = "some"
    BY CopyRead
  <2>3. SettledOK' /\ \A u \in Threads : SavingOK(u)'
    BY <1>0 DEF SettledOK, HoldsOnly, SavingOK, TypeOK
  <2>4. ASSUME NEW u \in Threads PROVE LoadingOK(u)' /\ SoundOf(u)' /\ BackOf(u)'
    BY <1>0, <2>2, TextAssumption DEF LoadingOK, MetOK, SteadyOK, SoundOf, BackOf, Returned, TypeOK
  <2> QED BY <2>1, <2>3, <2>4
<1>b. CASE /\ ~Differs(last_obj[t], o) /\ last_obj' = [last_obj EXCEPT ![t] = o]
           /\ at[t] < blocks /\ at' = [at EXCEPT ![t] = @ + 1] /\ UNCHANGED <<pc, result>>
  <2> USE <1>b
  <2>1. TypeOK'
    BY <1>0 DEF TypeOK
  <2>2. SettledOK' /\ \A u \in Threads : SavingOK(u)'
    BY <1>0 DEF SettledOK, HoldsOnly, SavingOK, TypeOK
  <2>3. ASSUME NEW u \in Threads PROVE LoadingOK(u)'
    <3>1. CASE u = t
      <4>1. MetOK(t)' /\ SteadyOK(t)'
        BY <1>0, CopyRead DEF LoadingOK, MetOK, SteadyOK, TypeOK
      <4> QED BY <3>1, <4>1, <1>0 DEF LoadingOK
    <3>2. CASE u # t
      BY <3>2, <1>0 DEF LoadingOK, MetOK, SteadyOK, TypeOK
    <3> QED BY <3>1, <3>2
  <2>4. ASSUME NEW u \in Threads PROVE SoundOf(u)' /\ BackOf(u)'
    <3>1. CASE u = t
      BY <3>1, <1>0, TextAssumption DEF LoadingOK, SoundOf, BackOf, Returned
    <3>2. CASE u # t
      BY <3>2, <1>0 DEF SoundOf, BackOf, Returned
    <3> QED BY <3>1, <3>2
  <2> QED BY <2>1, <2>2, <2>3, <2>4
<1>c. CASE /\ ~Differs(last_obj[t], o) /\ last_obj' = [last_obj EXCEPT ![t] = o]
           /\ at[t] = blocks
           /\ result' = [result EXCEPT ![t] = o]
           /\ pc' = [pc EXCEPT ![t] = "idle"] /\ UNCHANGED at
  <2> USE <1>c
  <2>1. TypeOK'
    BY <1>0 DEF TypeOK, Results
  <2>2. SettledOK' /\ \A u \in Threads : SavingOK(u)'
    BY <1>0 DEF SettledOK, HoldsOnly, SavingOK, TypeOK
  <2>3. ASSUME NEW u \in Threads PROVE LoadingOK(u)'
    BY <1>0 DEF LoadingOK, MetOK, SteadyOK, TypeOK
  <2>4. ASSUME NEW u \in Threads PROVE SoundOf(u)' /\ BackOf(u)'
    <3>1. CASE u = t
      BY <3>1, <1>0, CopyRead DEF SoundOf, BackOf, Returned, TypeOK
    <3>2. CASE u # t
      BY <3>2, <1>0 DEF SoundOf, BackOf, Returned, TypeOK
    <3> QED BY <3>1, <3>2
  <2> QED BY <2>1, <2>2, <2>3, <2>4
<1> QED BY <1>a, <1>b, <1>c DEF LoadCopy, Finish

LEMMA LoadFailsInv ==
  ASSUME IInv, NEW t \in Threads, LoadFails(t)
  PROVE  IInv'
<1> USE DEF IInv, LoadFails, Finish, media, history
<1>1. TypeOK'
  BY DEF TypeOK, Results
<1>2. SettledOK' /\ \A u \in Threads : SavingOK(u)'
  BY DEF SettledOK, HoldsOnly, SavingOK, TypeOK
<1>3. ASSUME NEW u \in Threads PROVE LoadingOK(u)' /\ SoundOf(u)' /\ BackOf(u)'
  BY TextAssumption DEF LoadingOK, MetOK, SteadyOK, SoundOf, BackOf, Returned, TypeOK
<1> QED BY <1>1, <1>2, <1>3

\* The last save, if it is still what the blocks hold, is so with one blank block more.
LEMMA AddBlockInv ==
  ASSUME IInv, AddBlock
  PROVE  IInv'
<1> USE DEF IInv, AddBlock
<1>0. blocks \in 1 .. N /\ blocks + 1 \in Copies /\ blocks' = blocks + 1
  BY SizeAssumption DEF TypeOK, Copies
<1>1. TypeOK'
  <2>1. blocks' \in Copies /\ 1 .. blocks \subseteq 1 .. blocks'
    BY <1>0
  <2>2. settled' \in Settlement
    BY DEF Settlement
  <2> QED BY <2>1, <2>2 DEF TypeOK
<1>2. SettledOK'
  <2>1. \A i \in Copies : i > blocks' => text'[i] = Blank
    BY <1>0 DEF SettledOK, Copies
  <2>2. text[blocks + 1] = Blank
    BY <1>0 DEF SettledOK
  <2>3. ASSUME settled' # "no"
        PROVE  \E v \in Objs : HoldsOnly(v)'
    <3>1. PICK v \in Objs : HoldsOnly(v)
      BY <2>3 DEF SettledOK
    <3>2. settled' = "some"
      BY <2>3
    <3>3. ASSUME NEW i \in 1 .. blocks + 1
          PROVE  text[i] = TextOf(v) \/ text[i] = Blank
      <4>1. i \in 1 .. blocks \/ i = blocks + 1
        BY <1>0
      <4> QED BY <4>1, <2>2, <3>1 DEF HoldsOnly
    <3>4. HoldsOnly(v)'
      BY <1>0, <2>2, <3>1, <3>2, <3>3 DEF HoldsOnly
    <3> QED BY <3>4
  <2> QED BY <2>1, <2>3 DEF SettledOK
<1>3. \A u \in Threads : SavingOK(u)' /\ LoadingOK(u)'
  BY DEF SavingOK, LoadingOK
<1>4. ASSUME NEW u \in Threads PROVE SoundOf(u)' /\ BackOf(u)'
  BY DEF SoundOf, BackOf, Returned
<1> QED BY <1>1, <1>2, <1>3, <1>4

LEMMA CrashInv ==
  ASSUME IInv, Crash
  PROVE  IInv'
<1> USE DEF IInv, Crash, history
<1>1. /\ text' \in [Copies -> Texts] /\ (settled # "no" => UNCHANGED text)
      /\ \A i \in Copies : i > blocks => text'[i] = text[i]
  <2>1. CASE UNCHANGED text
    BY <2>1 DEF TypeOK
  <2>2. CASE ~UNCHANGED text
    <3>0. PICK t \in Saving : \E x \in TornWrites(text[at[t]], TextOf(obj[t])) :
            text' = [text EXCEPT ![at[t]] = x]
      BY <2>2
    <3>1. PICK x \in TornWrites(text[at[t]], TextOf(obj[t])) : text' = [text EXCEPT ![at[t]] = x]
      BY <3>0
    <3>2. t \in Threads /\ pc[t] = "saving" /\ at[t] \in 1 .. blocks
      BY DEF Saving, TypeOK
    <3>3. text[at[t]] \in Texts /\ obj[t] \in Objs /\ blocks \in 1 .. N
      BY <3>2, SizeAssumption DEF SavingOK, TypeOK, Copies
    <3>4. x \in Texts
      BY <3>3, TextAssumption
    <3>5. settled = "no"
      BY <3>2 DEF SettledOK
    <3>6. text \in [Copies -> Texts] /\ Copies = 1 .. N
      BY DEF TypeOK, Copies
    <3>7. text' \in [Copies -> Texts]
      BY <3>1, <3>4, <3>6
    <3>8. \A i \in Copies : i > blocks => text'[i] = text[i]
      <4>1. \A i \in Copies : i > blocks => i # at[t]
        BY <3>2, <3>3, <3>6, SizeAssumption
      <4> QED BY <4>1, <3>1, <3>6
    <3> QED BY <3>5, <3>7, <3>8
  <2> QED BY <2>1, <2>2
<1>2. TypeOK'
  BY <1>1 DEF TypeOK, Results
<1>3. SettledOK'
  BY <1>1 DEF SettledOK, HoldsOnly
<1>4. ASSUME NEW u \in Threads PROVE SavingOK(u)' /\ LoadingOK(u)' /\ SoundOf(u)' /\ BackOf(u)'
  BY TextAssumption DEF SavingOK, LoadingOK, SoundOf, BackOf, Returned
<1> QED BY <1>2, <1>3, <1>4

LEMMA StepIInv == IInv /\ [Next]_vars => IInv'
<1> SUFFICES ASSUME IInv, [Next]_vars PROVE IInv'
  OBVIOUS
<1>1. CASE UNCHANGED vars
  BY <1>1 DEF vars, media, history, IInv, TypeOK, SettledOK, HoldsOnly, SavingOK, LoadingOK,
       MetOK, SteadyOK, SoundOf, BackOf, Returned
<1>2. CASE Next
  BY <1>2, BeginSaveInv, SaveCopyInv, SaveEndsInv, BeginLoadInv, LoadCopyInv, LoadFailsInv,
       AddBlockInv, CrashInv DEF Next
<1> QED BY <1>1, <1>2

THEOREM Invariance == Spec => []IInv
<1> QED BY InitIInv, StepIInv, PTL DEF Spec

\* TypeOK: no loop runs past the last block, and what is loaded is a value.
THEOREM TypeCorrect == Spec => []TypeOK
<1>1. IInv => TypeOK
  BY DEF IInv
<1> QED BY <1>1, Invariance, PTL

\* ReadSound: a load that met a whole copy returns a value the medium stood for
\* during the load, or throws (algo_block_multi_super::read_super).
THEOREM ReadSoundHolds == Spec => []ReadSound
<1>1. IInv => ReadSound
  BY DEF IInv, SoundOf, ReadSound
<1> QED BY <1>1, Invariance, PTL

\* SavedReadsBack: until the next save begins, every load returns what a completed
\* save stored, or, once add_block has added a blank copy, throws READ_SUPER
\* (write_super, read_super, algo_block_io_jbod::add_block).
THEOREM SavedReadsBackHolds == Spec => []SavedReadsBack
<1>1. IInv => SavedReadsBack
  BY DEF IInv, BackOf, SavedReadsBack
<1> QED BY <1>1, Invariance, PTL
===============================================================================
