-------------------------------- MODULE JbodDisk --------------------------------
(***************************************************************************)
(* The JBOD with its blocks and their data: the request path of JbodIo,    *)
(* with the parts the mapper cuts (RequestMapper) and the sectors they     *)
(* move, while blocks are added.  algo_block_io_jbod_nosuper.              *)
(*                                                                         *)
(* A block moves the sectors of a part before it reports it; as nothing in *)
(* the JBOD tells the two apart, they are one step.  A part that fails may *)
(* have moved any of its sectors.  do_request and add_block are not called *)
(* at the same time (algo_block_io_jbod_nosuper.h:10).                     *)
(***************************************************************************)
EXTENDS JbodIo, RequestMapper

CONSTANTS
  InitLens,       \* the lengths of the blocks the JBOD is constructed with
  Lens,           \* lengths of the blocks added later
  MaxBlocks       \* bound on the number of blocks

ASSUME BlocksAssumption ==
  /\ InitLens \in Seq(Nat \ {0}) /\ Lens \subseteq Nat \ {0}
  /\ MaxBlocks \in Nat /\ Len(InitLens) <= MaxBlocks /\ MaxBlocks <= MaxParts

VARIABLES
  mapper,         \* _request_mapper; a block is its place in _block_vector
  _sector_count,
  store,          \* per block: its sectors
  parts,          \* per request: the parts map_request cut it into
  area, moved,    \* history, per request: its type and section; the positions moved
  buf             \* per request: its buffer

diskVars == <<mapper, _sector_count, store, parts, area, moved, buf>>
allVars == <<vars, diskVars>>

NoArea == [type |-> "none", offset |-> 0, len |-> 0]

\* What a new block of n sectors holds, behind those of the first `from' sectors.
Old(from, n) == [a \in 1 .. n |-> <<"old", from + a>>]

\* The JBOD d with a block of n sectors behind its others.
Added(d, n) ==
  [mapper |-> add_block(d.mapper, n, Len(d.store) + 1),
   count  |-> d.count + n,
   store  |-> Append(d.store, Old(d.count, n))]

\* The constructor: one add_block after the other.
Constructed ==
  LET built[b \in 0 .. Len(InitLens)] ==
        IF b = 0 THEN [mapper |-> NoBlocks, count |-> 0, store |-> <<>>]
        ELSE Added(built[b - 1], InitLens[b])
  IN  built[Len(InitLens)]

DiskInit ==
  /\ Init
  /\ mapper = Constructed.mapper
  /\ _sector_count = Constructed.count
  /\ store = Constructed.store
  /\ parts = [r \in Requests |-> <<>>]
  /\ area = [r \in Requests |-> NoArea]
  /\ moved = [r \in Requests |-> {}]
  /\ buf = [r \in Requests |-> <<>>]

\* No request is between map_request and the last of its do_requests.
Quiet == \A r \in Requests, k \in Slots : step[r][k] # "mapped"

AddBlock(n) ==
  /\ Len(store) < MaxBlocks
  /\ Quiet
  /\ LET d == Added([mapper |-> mapper, count |-> _sector_count, store |-> store], n) IN
     mapper' = d.mapper /\ _sector_count' = d.count /\ store' = d.store
  /\ UNCHANGED <<vars, parts, area, moved, buf>>

\* do_request of l sectors from offset, within the JBOD.
DoRequest(r, type, offset, l) ==
  LET cut == map_request(mapper, offset, l) IN
  /\ offset + l <= _sector_count
  /\ MapRequest(r, Len(cut))
  /\ parts' = [parts EXCEPT ![r] = cut]
  /\ area' = [area EXCEPT ![r] = [type |-> type, offset |-> offset, len |-> l]]
  /\ buf' = [buf EXCEPT ![r] = [i \in 0 .. l - 1 |-> <<r, i>>]]
  /\ UNCHANGED <<mapper, _sector_count, store, moved>>

\* The block of part p of r moves those of its sectors that are in S.
Transfer(r, p, S) ==
  /\ moved' = [moved EXCEPT ![r] = @ \cup {p.buf + i : i \in S}]
  /\ IF area[r].type = "write"
     THEN /\ store' = [store EXCEPT ![p.block] = [a \in DOMAIN @ |->
                         IF a - 1 - p.start \in S THEN buf[r][p.buf + a - 1 - p.start] ELSE @[a]]]
          /\ UNCHANGED buf
     ELSE /\ buf' = [buf EXCEPT ![r] = [i \in DOMAIN @ |->
                       IF i - p.buf \in S THEN store[p.block][p.start + i - p.buf + 1] ELSE @[i]]]
          /\ UNCHANGED store

ReportPart(r, k, s) ==
  /\ Report(r, k, s)
  /\ LET all == 0 .. parts[r][k].len - 1 IN
     \E S \in SUBSET all : (s = Ok => S = all) /\ Transfer(r, parts[r][k], S)
  /\ UNCHANGED <<mapper, _sector_count, parts, area>>

\* The steps of the request path that touch no data.
Handler(r, k) ==
  /\ Issue(r, k) \/ StoreErr(r, k) \/ Put(r, k) \/ DeleteRef(r, k) \/ Complete(r, k)
  /\ UNCHANGED diskVars

DiskNext ==
  \/ \E n \in Lens : AddBlock(n)
  \/ \E r \in Requests :
       \/ FailMap(r) /\ UNCHANGED diskVars
       \/ \E offset \in 0 .. _sector_count - 1 :
            \E l \in 1 .. _sector_count - offset, type \in {"read", "write"} :
              DoRequest(r, type, offset, l)
       \/ \E k \in Slots : Handler(r, k) \/ \E s \in Statuses : ReportPart(r, k, s)

DiskFairness ==
  \A r \in Requests, k \in Slots :
    WF_allVars(Handler(r, k)) /\ WF_allVars(\E s \in Statuses : ReportPart(r, k, s))

DiskSpec == DiskInit /\ [][DiskNext]_allVars /\ DiskFairness
-------------------------------------------------------------------------------
\* What the caller is told of request r, once that is settled: FailMap's error, or
\* what request_ref::err holds when put elects the last handler.
Verdict(r) ==
  CASE Electing(r) # {} \/ heap[r] = "deleted" -> IF err[r] = Ok THEN "done" ELSE "failed"
    [] completions[r].n > 0 /\ heap[r] = "new" -> "failed"
    [] OTHER -> "none"

\* The JBOD is a disk made of its blocks, one after the other: every sector of a
\* request goes to or comes from its own place, once, before the request is
\* settled, and adding a block moves nothing.
Array == INSTANCE Disk WITH
           disk <- FlattenSeq(store), verdict <- [r \in Requests |-> Verdict(r)]

ArraySpec == Array!Spec
===============================================================================
