-------------------------------- MODULE Ranges --------------------------------
(***************************************************************************)
(* algo/algo_range.{h,cpp}: algo_range and algo_ranges, without state.     *)
(*                                                                         *)
(* A range maps len addresses of a volume, from org_start, to as many of   *)
(* what lies below it, from start.  An algo_ranges is [vec, len, ok]: its  *)
(* ranges ordered by org_start, the sum of their lengths, and whether no   *)
(* assertion has failed while it was built.                                *)
(*                                                                         *)
(* A loop of the code is a function of what it has come to: of the window  *)
(* of a binary search, or of the number of elements it has passed.         *)
(***************************************************************************)
EXTENDS Integers, SequencesExt

J == INSTANCE JsonValue WITH IntBits <- 32, LongBits <- 64

algo_range(o, s, l) == [org_start |-> o, start |-> s, len |-> l]

-------------------------------------------------------------------------------
(* Vectors of ranges.                                                      *)

\* The binary search of both insert functions, over the keys of the vector:
\* how many elements stay before the new one, or -1 where it asserts that the
\* key is new.
InsertPos(keys, key) ==
  LET pos[w \in {w \in (0 .. Len(keys)) \X (0 .. Len(keys)) : w[1] < w[2]}] ==
        LET mid == (w[1] + w[2]) \div 2
        IN  IF keys[mid + 1] = key THEN -1
            ELSE IF w[1] = mid THEN (IF keys[mid + 1] > key THEN mid ELSE mid + 1)
            ELSE pos[IF keys[mid + 1] > key THEN <<w[1], mid>> ELSE <<mid, w[2]>>]
  IN  IF Len(keys) = 0 THEN 0 ELSE pos[<<0, Len(keys)>>]

\* Address a of the volume lies in range r.
Holds(r, a) == r.org_start <= a /\ a < r.org_start + r.len

\* rangepos_by_orgaddr: the index of the range that holds address a of the
\* volume, 0 where it asserts that there is one.
rangepos_by_orgaddr(vec, a) ==
  LET pos[w \in {w \in (0 .. Len(vec)) \X (0 .. Len(vec)) : w[1] <= w[2]}] ==
        LET mid == (w[1] + w[2]) \div 2
            r == vec[mid + 1]
        IN  IF mid = Len(vec) THEN 0
            ELSE IF Holds(r, a) THEN mid + 1
            ELSE IF w[1] = mid THEN 0
            ELSE pos[IF a < r.org_start THEN <<w[1], mid>> ELSE <<mid + 1, w[2]>>]
  IN  pos[<<0, Len(vec)>>]

\* operator+= of two neighbours.
JoinRange(r, s) ==
  algo_range(IF r.org_start < s.org_start THEN r.org_start ELSE s.org_start,
        IF r.start < s.start THEN r.start ELSE s.start, r.len + s.len)

is_map_neighbour(r, s) == r.start + r.len = s.start \/ r.start = s.start + s.len

is_neighbour(r, s) ==
  \/ r.start + r.len = s.start /\ r.org_start + r.len = s.org_start
  \/ r.start = s.start + s.len /\ r.org_start = s.org_start + s.len

Touch(r, s, key) == IF key = "org_start" THEN is_neighbour(r, s) ELSE is_map_neighbour(r, s)

\* One step of merge: r is joined to the last range so far where they touch.
MergeNext(done, r, key) ==
  IF Len(done) # 0 /\ Touch(Last(done), r, key)
  THEN Append(Front(done), JoinRange(Last(done), r)) ELSE Append(done, r)

\* The merge pass of a vector ordered by key.
merge(vec, key) ==
  LET merged[i \in 0 .. Len(vec)] ==
        IF i = 0 THEN <<>> ELSE MergeNext(merged[i - 1], vec[i], key)
  IN  merged[Len(vec)]

\* A vector under construction, ordered by key: ok is FALSE once an insertion has
\* asserted.
Insert(acc, r, key) ==
  LET n == InsertPos([i \in 1 .. Len(acc.vec) |-> acc.vec[i][key]], r[key])
  IN  IF acc.ok /\ n >= 0 THEN [acc EXCEPT !.vec = InsertAt(@, n + 1, r)]
      ELSE [acc EXCEPT !.ok = FALSE]

NoRanges == [vec |-> <<>>, len |-> 0, ok |-> TRUE]

\* A range continues the volume's own addresses.
AddRange(vol, r) ==
  Insert([vol EXCEPT !.len = @ + r.len], algo_range(vol.len, r.start, r.len), "org_start")

\* The ranges of vec added one after the other.
AddRanges(vol, vec) ==
  LET added[i \in 0 .. Len(vec)] == IF i = 0 THEN vol ELSE AddRange(added[i - 1], vec[i])
  IN  added[Len(vec)]

\* Mutant: the ranges of a volume are joined when they touch in the pool only.
PlusAssignMapMerge(vol, vec) ==
  LET all == AddRanges(vol, vec) IN [all EXCEPT !.vec = merge(@, "start")]

\* algo_ranges::operator+=
PlusAssign(vol, vec) ==
  LET all == AddRanges(vol, vec) IN [all EXCEPT !.vec = merge(@, "org_start")]

\* Where range r keeps what it has of the section of l addresses from s.
Piece(r, s, l) ==
  LET lo == IF s > r.org_start THEN s ELSE r.org_start
      hi == IF s + l < r.org_start + r.len THEN s + l ELSE r.org_start + r.len
  IN  [start |-> lo + r.start - r.org_start, len |-> hi - lo]

\* Mutant: a section is not cut off at its end, only at its start.
MapSectionNoEnd(vec, s, l) ==
  LET piece(r) == LET lo == IF s > r.org_start THEN s ELSE r.org_start
                  IN  [start |-> lo + r.start - r.org_start,
                       len |-> r.org_start + r.len - lo]
      from[pos \in 1 .. Len(vec) + 1, done \in Nat] ==
        IF done = l \/ pos > Len(vec) THEN <<>>
        ELSE <<piece(vec[pos])>> \o from[pos + 1, done + piece(vec[pos]).len]
  IN  from[rangepos_by_orgaddr(vec, s), 0]

\* map_section: the sections of the pool that hold l addresses of the volume from
\* address s; the loop goes on until it has covered them.
map_section(vec, s, l) ==
  LET from[p \in (1 .. Len(vec) + 1) \X Int] ==
        IF p[2] = l \/ p[1] > Len(vec) THEN <<>>
        ELSE <<Piece(vec[p[1]], s, l)>>
               \o from[<<p[1] + 1, p[2] + Piece(vec[p[1]], s, l).len>>]
  IN  from[<<rangepos_by_orgaddr(vec, s), 0>>]

map_address(vec, a) ==
  LET r == vec[rangepos_by_orgaddr(vec, a)] IN a + r.start - r.org_start

SumLen(vec) ==
  LET sum[i \in 0 .. Len(vec)] == IF i = 0 THEN 0 ELSE sum[i - 1] + vec[i].len
  IN  sum[Len(vec)]

-------------------------------------------------------------------------------
(* Saved as json_obj: every number as a string.                            *)

\* atoll(o.s_val), of a string to_string made; s_val is empty in any other o.
atoll(o) == IF J!type(o) = "string" THEN J!val(o) ELSE 0

range_to_json(r) ==
  J!append(J!append(J!append(J!Unknown, J!Str(r.org_start)), J!Str(r.start)), J!Str(r.len))

range_from_json(o) ==
  LET item(i) == atoll(J!val(o)[i]) IN algo_range(item(1), item(2), item(3))

\* set_array comes first: an empty vector is an empty list.
vec_to_json(vec) ==
  LET saved[i \in 0 .. Len(vec)] ==
        IF i = 0 THEN J!Array(<<>>) ELSE J!append(saved[i - 1], range_to_json(vec[i]))
  IN  saved[Len(vec)]

vec_from_json(o) == [i \in DOMAIN J!val(o) |-> range_from_json(J!val(o)[i])]

ranges_to_json(vol) ==
  J!merge(J!Pair("len", J!Str(vol.len)), J!Pair("vec", vec_to_json(vol.vec)))

ranges_from_json(o) ==
  [vec |-> vec_from_json(J!val(o)["vec"]), len |-> atoll(J!val(o)["len"]), ok |-> TRUE]

\* The recursions of dumps and loads, as deep as the values saved here are: an
\* object, its vector, a range, a number.
DumpNumber(o) == J!DumpNode(o, LAMBDA x : J!NoText)
DumpRange(o)  == J!DumpNode(o, DumpNumber)
DumpMember(o) == J!DumpNode(o, DumpRange)

LoadNumber(t) == J!LoadNode(t, LAMBDA x : J!Throw)
LoadRange(t)  == J!LoadNode(t, LoadNumber)
LoadMember(t) == J!LoadNode(t, LoadRange)

\* Through the text of a superblock.
Reloaded(o) == J!LoadsWith(J!DumpsWith(o, DumpMember), LoadMember)
===============================================================================
