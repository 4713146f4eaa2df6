----------------------------- MODULE RequestMapper -----------------------------
(***************************************************************************)
(* algo/algo_nocopy_request_mapper.{h,cpp}: which block serves which part  *)
(* of a request.                                                           *)
(*                                                                         *)
(* A mapper is [ranges, blocks]: its i-th range lies on its i-th block.    *)
(* (Its len, which no constructor initialises, only feeds an org_start     *)
(* that operator+= overwrites.)  Lengths are sectors.                      *)
(***************************************************************************)
EXTENDS Ranges

NoBlocks == [ranges |-> NoRanges, blocks |-> <<>>]

\* A block of n sectors at the end.
add_block(m, n, b) ==
  [ranges |-> PlusAssign(m.ranges, <<algo_range(0, 0, n)>>), blocks |-> Append(m.blocks, b)]

\* A mapper over a volume that lies on one block.
set_ranges_block(rs, b) == [ranges |-> rs, blocks |-> [i \in DOMAIN rs.vec |-> b]]

\* Mutant: every part goes to the block of the first one.
map_request_one_block(m, offset, l) ==
  LET secs == map_section(m.ranges.vec, offset, l)
      pos == rangepos_by_orgaddr(m.ranges.vec, offset)
  IN  [i \in DOMAIN secs |->
         [block |-> m.blocks[pos], start |-> secs[i].start,
          len |-> secs[i].len, buf |-> SumLen(SubSeq(secs, 1, i - 1))]]

\* map_request: a part is a section of a block and where its data are in the
\* request's buffer.
map_request(m, offset, l) ==
  LET secs == map_section(m.ranges.vec, offset, l)
      pos == rangepos_by_orgaddr(m.ranges.vec, offset)
  IN  [i \in DOMAIN secs |->
         [block |-> m.blocks[pos + i - 1], start |-> secs[i].start,
          len |-> secs[i].len, buf |-> SumLen(SubSeq(secs, 1, i - 1))]]
===============================================================================
