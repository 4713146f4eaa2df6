------------------------------ MODULE UseRanges ------------------------------
(***************************************************************************)
(* algo/algo_range.{h,cpp}: the allocator that cuts volumes out of a pool. *)
(*                                                                         *)
(* A volume is an algo_ranges (Ranges); the pool (algo_use_ranges) keeps   *)
(* the free ranges ordered by start, their org_start meaningless (kept 0   *)
(* here), by the same binary search and merge pass.                        *)
(*                                                                         *)
(* The class is sequential: an operation is one step.  An assertion that   *)
(* fails ends the program (the build is Debug): `aborted` is set and       *)
(* nothing else happens.  MaxLen bounds the pool, far below the width of   *)
(* unsigned long.                                                          *)
(***************************************************************************)
EXTENDS RequestMapper

CONSTANTS
  Vols,           \* volumes; one of length 0 is not allocated
  Sizes,          \* sizes the operations are called with, never 0
  InitLen,        \* length the pool is constructed with
  MaxLen          \* bound on the length of the pool

ASSUME SizesAssumption ==
  /\ Sizes \subseteq Nat \ {0} /\ MaxLen \in Nat
  /\ InitLen \in 1 .. MaxLen

VARIABLES
  len, left,      \* algo_use_ranges::len, left
  map_addr_vec,   \* algo_use_ranges::map_addr_vec
  ranges,         \* per volume: its algo_ranges
  aborted         \* an assertion has failed

rangesVars == <<len, left, map_addr_vec, ranges, aborted>>

-------------------------------------------------------------------------------
(* algo_use_ranges.                                                        *)

RangesInit ==
  /\ len = InitLen
  /\ left = InitLen
  /\ map_addr_vec = <<algo_range(0, 0, InitLen)>>
  /\ ranges = [v \in Vols |-> NoRanges]
  /\ aborted = FALSE

\* One turn of the loop of alloc_ranges: the first free range goes to the volume,
\* whole, or cut by decrease(), which asserts that it is asked for something.
Take(a) ==
  LET r == Head(a.free) IN
  IF r.len > a.need
  THEN [need |-> 0, done |-> TRUE, ok |-> a.ok /\ a.need > 0,
        free |-> <<algo_range(0, r.start + a.need, r.len - a.need)>> \o Tail(a.free),
        vol |-> PlusAssign(a.vol, <<algo_range(0, r.start, a.need)>>)]
  ELSE [need |-> a.need - r.len, done |-> r.len = a.need, ok |-> a.ok,
        free |-> Tail(a.free), vol |-> PlusAssign(a.vol, <<r>>)]

\* alloc_ranges into a new volume, past its check: from the front of the free list
\* until size is reached.
Alloc(free, size) ==
  LET after[k \in 0 .. Len(free)] ==
        IF k = 0 THEN [need |-> size, done |-> FALSE, ok |-> TRUE, free |-> free, vol |-> NoRanges]
        ELSE IF after[k - 1].done THEN after[k - 1] ELSE Take(after[k - 1])
  IN  after[Len(free)]

Abort == aborted' = TRUE /\ UNCHANGED <<len, left, map_addr_vec, ranges>>

\* The end of an operation: the free list is free, and so on; or it has aborted.
Commit(ok, free, vols, lft) ==
  \/ ~ok /\ Abort
  \/ /\ ok
     /\ map_addr_vec' = free
     /\ ranges' = vols
     /\ left' = lft
     /\ UNCHANGED <<len, aborted>>

\* alloc_ranges for a new volume.
AllocRanges(v, size) ==
  /\ ~aborted
  /\ ranges[v].len = 0
  /\ size <= left
  /\ LET a == Alloc(map_addr_vec, size)
     IN  Commit(a.ok /\ a.vol.ok, a.free, [ranges EXCEPT ![v] = a.vol], left - size)

\* expand_ranges: a new algo_ranges, added to those of the volume.
ExpandRanges(v, size) ==
  /\ ~aborted
  /\ ranges[v].len > 0
  /\ size <= left
  /\ LET a == Alloc(map_addr_vec, size)
         vol == PlusAssign(ranges[v], a.vol.vec)
     IN  Commit(a.ok /\ a.vol.ok /\ vol.ok, a.free, [ranges EXCEPT ![v] = vol], left - size)

\* The free list with the ranges of vec inserted; there org_start means nothing.
InsertAll(free, vec) ==
  LET all[i \in 0 .. Len(vec)] ==
        IF i = 0 THEN [vec |-> free, ok |-> TRUE]
        ELSE Insert(all[i - 1], algo_range(0, vec[i].start, vec[i].len), "start")
  IN  all[Len(vec)]

\* Mutant: the merge pass is forgotten.
FreeNoMerge(v) ==
  /\ ~aborted
  /\ ranges[v].len > 0
  /\ LET all == InsertAll(map_addr_vec, ranges[v].vec)
     IN  Commit(all.ok, all.vec, [ranges EXCEPT ![v] = NoRanges], left + ranges[v].len)

\* free_ranges, and its caller forgets the volume.
FreeRanges(v) ==
  /\ ~aborted
  /\ ranges[v].len > 0
  /\ LET all == InsertAll(map_addr_vec, ranges[v].vec)
     IN  Commit(all.ok, merge(all.vec, "start"),
                [ranges EXCEPT ![v] = NoRanges], left + ranges[v].len)

\* Mutant: the new space is put after the free space.
IncreaseFromLeft(size) ==
  /\ ~aborted
  /\ len + size <= MaxLen
  /\ LET all == InsertAll(map_addr_vec, <<algo_range(left, left, size)>>) IN
     \/ ~all.ok /\ Abort
     \/ /\ all.ok
        /\ map_addr_vec' = merge(all.vec, "start")
        /\ len' = len + size
        /\ left' = left + size
        /\ UNCHANGED <<ranges, aborted>>

increase(size) ==
  /\ ~aborted
  /\ len + size <= MaxLen
  /\ LET all == InsertAll(map_addr_vec, <<algo_range(len, len, size)>>) IN
     \/ ~all.ok /\ Abort
     \/ /\ all.ok
        /\ map_addr_vec' = merge(all.vec, "start")
        /\ len' = len + size
        /\ left' = left + size
        /\ UNCHANGED <<ranges, aborted>>

pool_to_json ==
  J!merge(J!merge(J!Pair("len", J!Str(len)), J!Pair("left", J!Str(left))),
          J!Pair("vec", vec_to_json(map_addr_vec)))

\* The host restarts: pool and volumes are built from what was saved of them.
Restart ==
  /\ ~aborted
  /\ LET pool == J!val(Reloaded(pool_to_json)) IN
     /\ len' = atoll(pool["len"])
     /\ left' = atoll(pool["left"])
     /\ map_addr_vec' = vec_from_json(pool["vec"])
  /\ ranges' = [v \in Vols |-> ranges_from_json(Reloaded(ranges_to_json(ranges[v])))]
  /\ UNCHANGED aborted

RangesNext ==
  \/ Restart
  \/ \E v \in Vols :
       FreeRanges(v) \/ \E n \in Sizes : AllocRanges(v, n) \/ ExpandRanges(v, n)
  \/ \E n \in Sizes : increase(n)

RangesSpec == RangesInit /\ [][RangesNext]_rangesVars

-------------------------------------------------------------------------------
(* Properties.                                                             *)

RangeRecords == [org_start : 0 .. MaxLen, start : 0 .. MaxLen, len : 0 .. MaxLen]

\* Types, and canonical form after every operation: the lengths kept beside the
\* vectors are their sums, both kinds of vector are ordered, and no two neighbours
\* are left that the merge pass should have joined.  The length check of
\* alloc_ranges depends on the sums and the binary searches on the order, and
\* fragmentation would grow without the rest.
Canonical ==
  /\ len \in 0 .. MaxLen /\ aborted \in BOOLEAN
  /\ map_addr_vec \in Seq(RangeRecords) /\ left = SumLen(map_addr_vec)
  /\ \A v \in Vols : /\ ranges[v].vec \in Seq(RangeRecords) /\ ranges[v].ok
                     /\ ranges[v].len = SumLen(ranges[v].vec)
  /\ \A i \in 1 .. Len(map_addr_vec) - 1 :
       map_addr_vec[i].start + map_addr_vec[i].len < map_addr_vec[i + 1].start
  /\ \A v \in Vols : LET vec == ranges[v].vec IN
       \A i \in 1 .. Len(vec) - 1 :
         /\ vec[i].org_start + vec[i].len = vec[i + 1].org_start
         /\ vec[i].start + vec[i].len # vec[i + 1].start

\* A request for any section of any volume is cut so that its i-th sector goes to
\* the i-th sector of the buffer and to where map_address places it, once: no
\* sector of an I/O is lost, doubled or sent astray at the boundaries of the ranges
\* it crosses (map_section, map_request of a mapper over the volume).
SectionExact ==
  \A v \in Vols : \A s \in 0 .. ranges[v].len - 1 : \A l \in 1 .. ranges[v].len - s :
    LET parts == map_request(set_ranges_block(ranges[v], v), s, l) IN
    /\ SumLen(parts) = l
    /\ \A i \in 0 .. l - 1 : \E p \in ToSet(parts) :
         /\ p.block = v /\ p.buf <= i /\ i < p.buf + p.len
         /\ p.start + i - p.buf = map_address(ranges[v].vec, s + i)

\* No assertion of the allocator fails (lines 73, 302 and 444): the length check of
\* alloc_ranges, line 517, rejects every request the rest cannot serve.
NeverAborts == ~aborted

\* The ranges implement the pool of addresses: what is free, where every address of
\* every volume is, which addresses an allocation gets, and that an expansion, a
\* free or an increase moves nobody's data.
Covered(vec) == UNION {r.start .. (r.start + r.len - 1) : r \in ToSet(vec)}

Pool == INSTANCE SpacePool WITH
          free <- Covered(map_addr_vec),
          place <- [v \in Vols |-> [i \in 1 .. ranges[v].len |->
                                      map_address(ranges[v].vec, i - 1)]]

PoolSpec == Pool!Spec
===============================================================================
