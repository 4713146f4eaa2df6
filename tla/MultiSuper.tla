------------------------------ MODULE MultiSuper -------------------------------
(***************************************************************************)
(* algo_block_multi_super: one value kept as text in the superblocks of    *)
(* several blocks.                                                         *)
(*                                                                         *)
(* write_super writes one copy after the other, read_super reads them in   *)
(* the same order and throws when two it could parse differ; a copy it     *)
(* cannot parse counts as the empty value.  Either stops at the first      *)
(* error.  One copy is read or written by a request that holds its layer's *)
(* sync_m (SuperIo), so the copies are accessed one at a time, but the     *)
(* loops of two threads interleave.  A write the device reports as failed, *)
(* and the one under way when the host stops, leaves the new text, the old *)
(* one or a mixture of their sectors.                                      *)
(*                                                                         *)
(* One thread writes at a time: the pool leaves that to its callers (its   *)
(* read_super and write_super carry a FIXME: no handling of concurrency).  *)
(* What a value is, how it becomes a text and what a torn write leaves are *)
(* parameters.                                                             *)
(***************************************************************************)
EXTENDS Naturals

CONSTANTS
  N,              \* most blocks there may be
  Threads,
  Objs,           \* the values callers save
  Values,         \* all json_obj values
  Texts,          \* what a superblock may hold
  Blank,          \* the text of a new block
  NoValue, Thrown, \* the empty json_obj; loads throws
  TextOf(_), ParseOf(_), Equal(_, _), Fits(_), Kept(_), TornWrites(_, _),
  MaxSaves, MaxLoads, MaxCrashes   \* bounds

Copies == 1 .. N
NotYet == <<"running">>
ReadError == <<"read error">>
Mismatch == <<"mismatch">>

\* read_super of one copy: what loads throws is swallowed.
Parsed(t) == IF ParseOf(t) = Thrown THEN NoValue ELSE ParseOf(t)

ASSUME SizeAssumption == N \in Nat \ {0}

ASSUME TextAssumption ==
  /\ Objs \subseteq Values /\ NoValue \in Values
  /\ Values \cap {NotYet, ReadError, Mismatch} = {}
  /\ Blank \in Texts /\ Parsed(Blank) = NoValue
  /\ \A o \in Objs : TextOf(o) \in Texts
  /\ \A t \in Texts : Parsed(t) \in Values
  /\ \A t, u \in Texts : TornWrites(t, u) \subseteq Texts

\* == compares storable values as equality should, and they survive the medium.
ASSUME ValueAssumption ==
  /\ \A o \in Values : ~Equal(o, NoValue) /\ ~Equal(NoValue, o)
  /\ \A a, b \in Values : Equal(a, b) => Equal(b, a)
  /\ \A a, b, c \in Values : Equal(a, b) /\ Equal(b, c) => Equal(a, c)
  /\ \A o \in Objs : Kept(o) => Equal(Parsed(TextOf(o)), o)

VARIABLES
  blocks,         \* how many blocks there are
  text,           \* per copy: the text on its block
  pc, at,         \* per thread: what it does, and the copy it comes to
  obj, last_obj,  \* per thread: the value it saves or has read; read_super's last_obj
  result,         \* per thread: how its last load ended, or NotYet
  saves, loads, crashes,
  current,        \* history: the values the medium may stand for: the last one
                  \* saved, and those whose save has begun since
  settled,        \* history: whether the last save was completed and none has begun
                  \* since, and if so which blocks hold it: see Settlement
  window,         \* history, per thread: the values current during its load
  steady, met     \* history, per thread: what settled was all through its load; it
                  \* has read a copy that holds the text of a value of current

media == <<blocks, text>>
history == <<current, settled, window, steady, met>>
vars == <<media, pc, at, obj, last_obj, result, saves, loads, crashes, history>>

\* "every" block holds the last save; "some" do, and the blocks added since are
\* still blank; or "no" more can be said.
Settlement == {"no", "some", "every"}

Saving == {t \in Threads : pc[t] = "saving"}

Init ==
  /\ blocks \in Copies
  /\ text = [i \in Copies |-> Blank]
  /\ pc = [t \in Threads |-> "idle"]
  /\ at = [t \in Threads |-> 1]
  /\ obj = [t \in Threads |-> NoValue]
  /\ last_obj = [t \in Threads |-> NoValue]
  /\ result = [t \in Threads |-> NotYet]
  /\ saves = 0 /\ loads = 0 /\ crashes = 0
  /\ current = {} /\ settled = "no"
  /\ window = [t \in Threads |-> {}]
  /\ steady = [t \in Threads |-> "no"]
  /\ met = [t \in Threads |-> FALSE]

-------------------------------------------------------------------------------
(* write_super.                                                            *)

BeginSave(t, o) ==
  /\ pc[t] = "idle" /\ Saving = {} /\ saves < MaxSaves
  /\ pc' = [pc EXCEPT ![t] = "saving"]
  /\ at' = [at EXCEPT ![t] = 1]
  /\ obj' = [obj EXCEPT ![t] = o]
  /\ saves' = saves + 1
  /\ current' = current \cup {o}
  /\ settled' = "no"
  /\ window' = [u \in Threads |-> window[u] \cup {o}]
  /\ steady' = [u \in Threads |-> "no"]
  /\ UNCHANGED <<media, last_obj, result, loads, crashes, met>>

\* Mutant: the loop goes one copy too far.
SaveCopyPast(t) ==
  /\ pc[t] = "saving" /\ Fits(TextOf(obj[t]))
  /\ text' = [text EXCEPT ![at[t]] = TextOf(obj[t])]
  /\ at' = [at EXCEPT ![t] = @ + 1]
  /\ pc' = [pc EXCEPT ![t] = IF at[t] > blocks THEN "idle" ELSE @]
  /\ UNCHANGED <<blocks, obj, last_obj, result, saves, loads, crashes, history>>

\* Mutant: write_super is done after the first copy.
SaveCopyFirst(t) ==
  /\ pc[t] = "saving" /\ Fits(TextOf(obj[t]))
  /\ text' = [text EXCEPT ![at[t]] = TextOf(obj[t])]
  /\ pc' = [pc EXCEPT ![t] = "idle"] /\ current' = {obj[t]} /\ settled' = "every"
  /\ UNCHANGED <<blocks, at, obj, last_obj, result, saves, loads, crashes, window, steady, met>>

\* write_super of the copy it has come to, and on to the next.
SaveCopy(t) ==
  /\ pc[t] = "saving" /\ Fits(TextOf(obj[t]))
  /\ text' = [text EXCEPT ![at[t]] = TextOf(obj[t])]
  /\ \/ /\ at[t] < blocks
        /\ at' = [at EXCEPT ![t] = @ + 1]
        /\ UNCHANGED <<pc, current, settled>>
     \/ /\ at[t] = blocks
        /\ pc' = [pc EXCEPT ![t] = "idle"]
        /\ current' = {obj[t]} /\ settled' = "every"
        /\ UNCHANGED at
  /\ UNCHANGED <<blocks, obj, last_obj, result, saves, loads, crashes, window, steady, met>>

\* open() fails, or the text is too long: it throws and writes nothing.
SaveRefused(t) ==
  /\ pc[t] = "saving"
  /\ pc' = [pc EXCEPT ![t] = "idle"]
  /\ UNCHANGED <<media, at, obj, last_obj, result, saves, loads, crashes, history>>

\* The device fails the write.
SaveFails(t) ==
  /\ pc[t] = "saving" /\ Fits(TextOf(obj[t]))
  /\ \E x \in TornWrites(text[at[t]], TextOf(obj[t])) : text' = [text EXCEPT ![at[t]] = x]
  /\ pc' = [pc EXCEPT ![t] = "idle"]
  /\ UNCHANGED <<blocks, at, obj, last_obj, result, saves, loads, crashes, history>>

-------------------------------------------------------------------------------
(* read_super.                                                             *)

BeginLoad(t) ==
  /\ pc[t] = "idle" /\ loads < MaxLoads
  /\ pc' = [pc EXCEPT ![t] = "loading"]
  /\ at' = [at EXCEPT ![t] = 1]
  /\ last_obj' = [last_obj EXCEPT ![t] = NoValue]
  /\ result' = [result EXCEPT ![t] = NotYet]
  /\ loads' = loads + 1
  /\ window' = [window EXCEPT ![t] = current]
  /\ steady' = [steady EXCEPT ![t] = settled]
  /\ met' = [met EXCEPT ![t] = FALSE]
  /\ UNCHANGED <<media, obj, saves, crashes, current, settled>>

Finish(t, r) ==
  /\ result' = [result EXCEPT ![t] = r]
  /\ pc' = [pc EXCEPT ![t] = "idle"]
  /\ UNCHANGED at

\* Mutant: an empty value does not count as a difference.
DiffersLoose(l, o) == l # NoValue /\ o # NoValue /\ ~Equal(l, o)

\* The test of read_super: !last_obj.is_empty() && last_obj != obj.
Differs(l, o) == l # NoValue /\ ~Equal(l, o)

\* read_super of the copy it has come to, compared with the one before it.
LoadCopy(t) ==
  LET i == at[t]
      o == Parsed(text[i])
  IN
  /\ pc[t] = "loading"
  /\ obj' = [obj EXCEPT ![t] = o]
  /\ met' = [met EXCEPT ![t] =
               @ \/ \E v \in current : Kept(v) /\ text[i] = TextOf(v)]
  /\ IF Differs(last_obj[t], o)
     THEN Finish(t, Mismatch) /\ UNCHANGED last_obj
     ELSE /\ last_obj' = [last_obj EXCEPT ![t] = o]
          /\ \/ /\ i < blocks
                /\ at' = [at EXCEPT ![t] = i + 1]
                /\ UNCHANGED <<pc, result>>
             \/ i = blocks /\ Finish(t, o)
  /\ UNCHANGED <<media, saves, loads, crashes, current, settled, window, steady>>

\* open() or the device fails.
LoadFails(t) ==
  /\ pc[t] = "loading"
  /\ Finish(t, ReadError)
  /\ UNCHANGED <<media, obj, last_obj, saves, loads, crashes, history>>

-------------------------------------------------------------------------------
\* add_block of the JBOD, between accesses: the superblock of the new block is not
\* written, so it stays blank until the next save.
AddBlock ==
  /\ blocks < N
  /\ \A t \in Threads : pc[t] = "idle"
  /\ blocks' = blocks + 1
  /\ settled' = IF settled = "no" THEN "no" ELSE "some"
  /\ UNCHANGED <<text, pc, at, obj, last_obj, result, saves, loads, crashes,
                 current, window, steady, met>>

\* The host stops; the copy a save has come to may be half written.
Crash ==
  /\ crashes < MaxCrashes
  /\ crashes' = crashes + 1
  /\ \/ Saving = {} /\ UNCHANGED text
     \/ \E t \in Saving : \E x \in TornWrites(text[at[t]], TextOf(obj[t])) :
          text' = [text EXCEPT ![at[t]] = x]
  /\ pc' = [t \in Threads |-> "idle"]
  /\ result' = [t \in Threads |-> NotYet]
  /\ UNCHANGED <<blocks, at, obj, last_obj, saves, loads, history>>

Next ==
  \/ \E t \in Threads :
       \/ SaveCopy(t) \/ SaveRefused(t) \/ SaveFails(t)
       \/ BeginLoad(t) \/ LoadCopy(t) \/ LoadFails(t)
       \/ \E o \in Objs : BeginSave(t, o)
  \/ AddBlock \/ Crash

Spec == Init /\ [][Next]_vars
-------------------------------------------------------------------------------
(* Properties.                                                             *)

Results == Values \cup {NotYet, ReadError, Mismatch}

TypeOK ==
  /\ blocks \in Copies
  /\ text \in [Copies -> Texts]
  /\ pc \in [Threads -> {"idle", "saving", "loading"}]
  /\ at \in [Threads -> 1 .. blocks]
  /\ obj \in [Threads -> Values] /\ last_obj \in [Threads -> Values]
  /\ result \in [Threads -> Results]
  /\ saves \in Nat /\ loads \in Nat /\ crashes \in Nat
  /\ current \subseteq Objs /\ settled \in Settlement
  /\ window \in [Threads -> SUBSET Objs]
  /\ steady \in [Threads -> Settlement] /\ met \in [Threads -> BOOLEAN]

Returned(t) == result[t] \in Values

\* A load that met one whole copy of a value the medium stands for returns such a
\* value or throws, whatever torn, empty, older or newer copies it read beside it
\* and whatever save ran meanwhile: never the empty value, never a mixture
\* (algo_block_multi_super::read_super).
ReadSound ==
  \A t \in Threads : Returned(t) /\ met[t] =>
    \E v \in window[t] : Kept(v) /\ Equal(result[t], v)

\* Once a save has returned, and until the next one begins, restarts in between or
\* not: if no block was added since, every load returns the value saved; if one was,
\* every load throws READ_SUPER at the first blank copy (algo_block_multi_super.cpp:25),
\* as add_block does not write the superblock of the new block.  In either case a
\* load may also end with an error of the device.  (write_super, read_super, dumps,
\* loads, operator==, algo_block_io_jbod::add_block)
SavedReadsBack ==
  \A t \in Threads : \A v \in window[t] : steady[t] # "no" /\ Kept(v) =>
    \/ result[t] \in {NotYet, ReadError}
    \/ steady[t] = "every" /\ Returned(t) /\ Equal(result[t], v)
    \/ steady[t] = "some" /\ result[t] = Mismatch
===============================================================================
