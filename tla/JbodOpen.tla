------------------------------- MODULE JbodOpen -------------------------------
(***************************************************************************)
(* Opening and closing the blocks of a JBOD.                               *)
(*                                                                         *)
(* algo_block_open_ref counts the users of a device and opens it for the   *)
(* first, closes it for the last; open() and close() hold open_lock, so    *)
(* each is one step.  Its users are                                        *)
(*   - the JBOD (algo_block_io_jbod_nosuper), whose open(), close() and    *)
(*     add_block() walk _block_vector under the mutex m, one block per     *)
(*     step; a failing open() closes the blocks it had opened;             *)
(*   - the readers and writers of the block's superblock                   *)
(*     (algo_block_io_super::read_super / write_super), which open the     *)
(*     block around their request, on threads of their own.                *)
(* A device refuses to open at any time.  AddWhileOpen is whether          *)
(* add_block may be called on an open JBOD: the assertion that would       *)
(* exclude it is commented out (algo_block_io_jbod_nosuper.cpp:26).        *)
(***************************************************************************)
EXTENDS Integers, Sequences, FiniteSets

CONSTANTS
  Blocks,         \* the algo_block_open_ref objects
  InitBlocks,     \* the sequence of blocks the JBOD is constructed with
  SuperUsers,     \* threads that read or write superblocks
  NoBlock,        \* "no superblock open"
  AddWhileOpen

ASSUME NoBlockAssumption == NoBlock \notin Blocks

ASSUME SuperUsersAssumption == IsFiniteSet(SuperUsers)

\* A JBOD has blocks, each once.
ASSUME InitBlocksAssumption ==
  /\ InitBlocks \in Seq(Blocks) /\ InitBlocks # <<>>
  /\ \A i, j \in DOMAIN InitBlocks : InitBlocks[i] = InitBlocks[j] => i = j

VARIABLES
  ref,            \* per block: algo_block_open_ref::ref
  opened,         \* per block: whether its device is open
  block_vector,   \* _block_vector
  walk,           \* the JBOD call in progress: its loop is at pos, before stop
  serving,        \* the JBOD has been opened and not closed since
  super           \* per thread: the block whose superblock it has open

vars == <<ref, opened, block_vector, walk, serving, super>>

Idle == [kind |-> "idle", pos |-> 0, stop |-> 0]

TypeOK ==
  /\ ref \in [Blocks -> Int]
  /\ opened \in [Blocks -> BOOLEAN]
  /\ block_vector \in Seq(Blocks)
  /\ walk \in [kind : {"idle", "open", "rollback", "close"}, pos : Nat, stop : Nat]
  /\ walk.stop <= Len(block_vector) + 1
  /\ serving \in BOOLEAN
  /\ super \in [SuperUsers -> Blocks \cup {NoBlock}]

Init ==
  /\ ref = [b \in Blocks |-> 0]
  /\ opened = [b \in Blocks |-> FALSE]
  /\ block_vector = InitBlocks
  /\ walk = Idle
  /\ serving = FALSE
  /\ super = [u \in SuperUsers |-> NoBlock]

-------------------------------------------------------------------------------
(* algo_block_open_ref.                                                    *)

\* open() returns ERROR_TYPE_OK.
OpenOk(b) ==
  /\ ref' = [ref EXCEPT ![b] = @ + 1]
  /\ opened' = [opened EXCEPT ![b] = @ \/ ref[b] = 0]

\* open() is the first and the device refuses.
OpenFail(b) ==
  /\ ref[b] = 0
  /\ UNCHANGED <<ref, opened>>

\* Mutant: close() closes the device whoever else uses it.
CloseAlways(b) ==
  /\ ref[b] >= 0
  /\ ref' = [ref EXCEPT ![b] = @ - 1]
  /\ opened' = [opened EXCEPT ![b] = FALSE]

\* close(), past its assertion.
CloseRef(b) ==
  /\ ref[b] >= 0
  /\ ref' = [ref EXCEPT ![b] = @ - 1]
  /\ opened' = [opened EXCEPT ![b] = @ /\ ref[b] # 1]

-------------------------------------------------------------------------------
(* algo_block_io_jbod_nosuper.                                             *)

\* Mutant: the loop runs one block too far.
BeginPastEnd(kind) ==
  /\ walk = Idle
  /\ serving = (kind = "close")
  /\ walk' = [kind |-> kind, pos |-> 1, stop |-> Len(block_vector) + 2]
  /\ serving' = FALSE
  /\ UNCHANGED <<ref, opened, block_vector, super>>

\* open() or close() takes the mutex and starts its loop over all blocks.
Begin(kind) ==
  /\ walk = Idle
  /\ serving = (kind = "close")
  /\ walk' = [kind |-> kind, pos |-> 1, stop |-> Len(block_vector) + 1]
  /\ serving' = FALSE
  /\ UNCHANGED <<ref, opened, block_vector, super>>

Advance == IF walk.pos + 1 < walk.stop THEN [walk EXCEPT !.pos = @ + 1] ELSE Idle

\* One iteration of open()'s loop; after the last one the JBOD serves.
OpenNext ==
  /\ walk.kind = "open"
  /\ OpenOk(block_vector[walk.pos])
  /\ walk' = Advance
  /\ serving' = (walk.pos + 1 = walk.stop)
  /\ UNCHANGED <<block_vector, super>>

\* Mutant: the rollback includes the block that failed to open.
OpenFailsRollsBackAll ==
  /\ walk.kind = "open"
  /\ OpenFail(block_vector[walk.pos])
  /\ walk' = [kind |-> "rollback", pos |-> 1, stop |-> walk.pos + 1]
  /\ UNCHANGED <<block_vector, serving, super>>

\* Mutant: the blocks that were opened stay open.
OpenFailsNoRollback ==
  /\ walk.kind = "open"
  /\ OpenFail(block_vector[walk.pos])
  /\ walk' = Idle
  /\ UNCHANGED <<block_vector, serving, super>>

\* A block fails to open: open() returns the error once it has closed the blocks
\* before that one.
OpenFails ==
  /\ walk.kind = "open"
  /\ OpenFail(block_vector[walk.pos])
  /\ walk' = IF walk.pos = 1 THEN Idle
             ELSE [kind |-> "rollback", pos |-> 1, stop |-> walk.pos]
  /\ UNCHANGED <<block_vector, serving, super>>

\* One iteration of close()'s loop, or of open()'s error path.
CloseNext ==
  /\ walk.kind \in {"rollback", "close"}
  /\ CloseRef(block_vector[walk.pos])
  /\ walk' = Advance
  /\ UNCHANGED <<block_vector, serving, super>>

\* add_block() does not open the block it adds.
AddBlock(b) ==
  /\ walk = Idle
  /\ serving => AddWhileOpen
  /\ \A i \in 1 .. Len(block_vector) : block_vector[i] # b
  /\ block_vector' = Append(block_vector, b)
  /\ UNCHANGED <<ref, opened, walk, serving, super>>

-------------------------------------------------------------------------------
(* algo_block_io_super: a superblock read or write on a thread of its own. *)

SuperOpen(u, b) ==
  /\ super[u] = NoBlock
  /\ OpenOk(b)
  /\ super' = [super EXCEPT ![u] = b]
  /\ UNCHANGED <<block_vector, walk, serving>>

SuperClose(u) ==
  /\ super[u] # NoBlock
  /\ CloseRef(super[u])
  /\ super' = [super EXCEPT ![u] = NoBlock]
  /\ UNCHANGED <<block_vector, walk, serving>>

Next ==
  \/ \E kind \in {"open", "close"} : Begin(kind)
  \/ OpenNext \/ OpenFails \/ CloseNext
  \/ \E b \in Blocks : AddBlock(b)
  \/ \E u \in SuperUsers : SuperClose(u) \/ \E b \in Blocks : SuperOpen(u, b)

Spec == Init /\ [][Next]_vars

-------------------------------------------------------------------------------
(* Properties.                                                             *)

\* Blocks the JBOD has open: all of them when it serves, the part its loop has
\* opened or not yet closed when it walks.
HeldByJbod ==
  {block_vector[i] : i \in
     CASE walk.kind = "open" -> 1 .. (walk.pos - 1)
       [] walk.kind \in {"rollback", "close"} -> walk.pos .. (walk.stop - 1)
       [] OTHER -> IF serving THEN 1 .. Len(block_vector) ELSE {}}

\* The count of a block is the number of its users, the JBOD included, through
\* failed opens, rollbacks and superblock accesses at the same time.
RefExact ==
  \A b \in Blocks :
    ref[b] = Cardinality({u \in SuperUsers : super[u] = b})
             + (IF b \in HeldByJbod THEN 1 ELSE 0)

\* Whoever has a successful open() and no close() yet finds the device open: no
\* request of the JBOD or of a superblock access meets a closed device.
UsersFindDeviceOpen ==
  /\ \A b \in HeldByJbod : opened[b]
  /\ \A u \in SuperUsers : super[u] # NoBlock => opened[super[u]]

\* A device nobody uses is closed: no failed open() leaks an open device.
NoLeak ==
  walk = Idle /\ ~serving /\ (\A u \in SuperUsers : super[u] = NoBlock) =>
    \A b \in Blocks : ~opened[b]

\* The assertion of algo_block_open_ref::close (line 48): the count is never
\* negative.  With AddWhileOpen it is: see the finding.
RefNonNegative == \A b \in Blocks : ref[b] >= 0
===============================================================================
