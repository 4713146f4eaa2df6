---------------------------- MODULE AlgoSections ----------------------------
(***************************************************************************)
(* algo_sections (src/algo/algo_sections.cpp): a set of points kept as a   *)
(* vector of disjoint sections, biggest start first, looked up by binary   *)
(* search, with the total length beside it.                                *)
(*                                                                         *)
(* An object is [secs, len, ok]; ok turns FALSE where the code's assert    *)
(* would stop the process.  Positions count from 1 where the code counts   *)
(* from 0.  Arguments are what the callers can build: canonical lists of   *)
(* non-empty sections, a section to erase lying within the set.            *)
(***************************************************************************)
EXTENDS Integers, Sequences, SequencesExt, FiniteSetsExt

CONSTANT N            \* the points are 0 .. N-1

ASSUME PointsAssumption == N \in Nat

VARIABLES
  self,               \* the object under test
  got,                \* the sections the last call returned
  call                \* the call in progress

vars == <<self, got, call>>

-----------------------------------------------------------------------------
(* One section (algo_section.cpp) *)

Sec(start, len) == [start |-> start, len |-> len]

End(s) == s.start + s.len

is_neighbour(s, t) == End(s) = t.start \/ s.start = End(t)

merge(s, t) ==
  CASE End(s) = t.start -> Sec(s.start, s.len + t.len)
    [] s.start = End(t) -> Sec(t.start, s.len + t.len)
    [] OTHER            -> s

intersection(s, t) ==
  IF s.start >= End(t) \/ t.start >= End(s)
  THEN Sec(0, 0)
  ELSE LET from == Max({s.start, t.start})
       IN  Sec(from, Min({End(s), End(t)}) - from)

Part(start, len) == IF len > 0 THEN <<Sec(start, len)>> ELSE <<>>

(* Mutant of split: the part above small is forgotten. *)
split_lower_only(s, small) == Part(s.start, small.start - s.start)

(* What is left of s without small: the lower part first. *)
split(s, small) ==
  Part(s.start, small.start - s.start) \o Part(End(small), End(s) - End(small))

is_point_insection(s, p) == intersection(s, Sec(p, 1)).len # 0

-----------------------------------------------------------------------------
(* The list of sections *)

List(secs, len, ok) == [secs |-> secs, len |-> len, ok |-> ok]

(* The process goes on if the condition of an assert holds. *)
Asserted(o, holds) == List(o.secs, o.len, o.ok /\ holds)

Empty == List(<<>>, 0, TRUE)

Lone(s) == List(<<s>>, s.len, TRUE)

Points(o) == UNION {s.start .. End(s) - 1 : s \in Range(o.secs)}

Windows(secs) == {w \in (1 .. Len(secs)) \X (1 .. Len(secs)) : w[1] <= w[2]}

(* The binary search among the sections from w[1] to w[2], the last of     *)
(* which does not start above offset.                                      *)
search(secs, offset) ==
  LET from[w \in Windows(secs)] ==
        LET cur == (w[1] + w[2]) \div 2
        IN  IF is_point_insection(secs[cur], offset) THEN [at |-> cur, in |-> TRUE]
            ELSE IF w[1] = w[2]                      THEN [at |-> cur, in |-> FALSE]
            ELSE IF secs[cur].start > offset         THEN from[<<cur + 1, w[2]>>]
            ELSE                                          from[<<w[1], cur>>]
  IN  from

(* The section that holds offset, or where one that starts there has to be *)
(* inserted.                                                               *)
find_pos(secs, offset) ==
  IF secs = <<>> \/ Last(secs).start > offset
  THEN [at |-> Len(secs) + 1, in |-> FALSE]
  ELSE search(secs, offset)[<<1, Len(secs)>>]

check_sections(secs) ==
  \A i \in 2 .. Len(secs) : End(secs[i]) < secs[i - 1].start

(* The section grows by the neighbour on its right, then by the one on its *)
(* left, and takes the place of those it swallowed.                        *)
add_section(o, s, at) ==
  LET right == at <= Len(o.secs) /\ is_neighbour(s, o.secs[at])
      wide  == IF right THEN merge(s, o.secs[at]) ELSE s
      left  == at > 1 /\ is_neighbour(wide, o.secs[at - 1])
      whole == IF left THEN merge(wide, o.secs[at - 1]) ELSE wide
  IN  List(SubSeq(o.secs, 1, IF left THEN at - 2 ELSE at - 1)
             \o <<whole>>
             \o SubSeq(o.secs, IF right THEN at + 1 ELSE at, Len(o.secs)),
           o.len + s.len, o.ok)

plus_section(o, s) ==
  LET found == find_pos(o.secs, s.start)
      grown == add_section(o, s, found.at)
  IN  IF found.in THEN Asserted(o, FALSE)
                  ELSE Asserted(grown, check_sections(grown.secs))

(* One section after the other. *)
plus_sections(o, secs) ==
  LET upto[i \in 0 .. Len(secs)] ==
        IF i = 0 THEN o ELSE plus_section(upto[i - 1], secs[i])
  IN  upto[Len(secs)]

(* Mutant of minus_section: the total is lowered by the whole section hit. *)
minus_section_whole(o, s) ==
  LET found == find_pos(o.secs, s.start)
  IN  IF ~found.in
      THEN Asserted(o, FALSE)
      ELSE List(SubSeq(o.secs, 1, found.at - 1)
                  \o Reverse(split(o.secs[found.at], s))
                  \o SubSeq(o.secs, found.at + 1, Len(o.secs)),
                o.len - o.secs[found.at].len, o.ok)

(* operator-=(section) *)
minus_section(o, s) ==
  LET found == find_pos(o.secs, s.start)
  IN  IF ~found.in \/ o.secs[found.at].len < s.len
      THEN Asserted(o, FALSE)
      ELSE List(SubSeq(o.secs, 1, found.at - 1)
                  \o Reverse(split(o.secs[found.at], s))
                  \o SubSeq(o.secs, found.at + 1, Len(o.secs)),
                o.len - s.len, o.ok)

minus_sections(o, secs) ==
  LET upto[i \in 0 .. Len(secs)] ==
        IF i = 0 THEN o ELSE minus_section(upto[i - 1], secs[i])
  IN  upto[Len(secs)]

(* The walk over both lists, from the biggest sections down: what the      *)
(* sections from the i-th of his and the j-th of mine on have in common.   *)
meets(mine, his) ==
  LET from[p \in (1 .. Len(his) + 1) \X (1 .. Len(mine) + 1)] ==
        LET i == p[1]
            j == p[2]
        IN  IF i > Len(his) \/ j > Len(mine)    THEN <<>>
            ELSE IF End(his[i]) <= mine[j].start THEN from[<<i, j + 1>>]
            ELSE IF his[i].start >= End(mine[j]) THEN from[<<i + 1, j>>]
            ELSE <<intersection(mine[j], his[i])>>
                   \o from[<<IF his[i].start >= mine[j].start THEN i + 1 ELSE i,
                             IF his[i].start <= mine[j].start THEN j + 1 ELSE j>>]
  IN  from

intersections(o, other) == plus_sections(Empty, meets(o.secs, other.secs)[<<1, 1>>])

Checked(o) == Asserted(o, check_sections(o.secs))

(* operator-=(sections) *)
minus(o, other) ==
  LET common == intersections(o, other)
      rest   == minus_sections(o, common.secs)
  IN  Checked(Asserted(rest, common.ok))

(* What other has and o has not. *)
supplesections(o, other) ==
  LET common == intersections(o, other)
  IN  IF common.len = 0 THEN other ELSE minus(other, common)

(* operator+=(section) and operator+=(sections) *)
plus(o, other) ==
  LET new == supplesections(o, other)
      all == plus_sections(o, new.secs)
  IN  Checked(Asserted(all, new.ok))

(* What is still needed is taken from the last, lowest, section. *)
take(a) ==
  LET s    == Last(a.left.secs)
      size == Min({a.need, s.len})
  IN  [need |-> a.need - size,
       left |-> List(Front(a.left.secs) \o Part(s.start + size, s.len - size),
                     a.left.len - size, a.left.ok),
       new  |-> plus_section(a.new, Sec(s.start, size))]

alloc(o, n) ==
  LET none == [need |-> n, left |-> o, new |-> Empty]
      after[k \in 0 .. Len(o.secs)] ==
        IF k = 0 THEN none
        ELSE IF after[k - 1].need = 0 THEN after[k - 1]
        ELSE take(after[k - 1])
  IN  IF n > o.len THEN none ELSE after[Len(o.secs)]

is_section_insections(o, s) ==
  LET org    == Lone(s)
      common == intersections(o, org)
  IN  common.len = org.len /\ common.secs = org.secs

(* operator+=(offset) *)
shift(o, n) ==
  List([i \in DOMAIN o.secs |-> Sec(o.secs[i].start + n, o.secs[i].len)], o.len, o.ok)

(* to_json_obj followed by from_json_obj, in memory and not through the    *)
(* text of dumps: each section that is not empty is added again.           *)
reload(o) ==
  LET upto[i \in 0 .. Len(o.secs)] ==
        IF i = 0 THEN Empty
        ELSE IF o.secs[i].len = 0 THEN upto[i - 1]
        ELSE plus_section(upto[i - 1], o.secs[i])
      read == upto[Len(o.secs)]
  IN  Asserted(read, o.ok /\ read.len = o.len)

-----------------------------------------------------------------------------
(* The calls *)

Sections == {s \in [start : 0 .. N - 1, len : 1 .. N] : End(s) <= N}

(* The canonical lists; one with a gap after each section has no more than *)
(* N sections and gaps, rounded up to pairs.                               *)
Lists ==
  {o \in [secs : UNION {[1 .. k -> Sections] : k \in 0 .. (N + 1) \div 2},
          len : 0 .. N, ok : {TRUE}] :
     check_sections(o.secs) /\ o.len = Cardinality(Points(o))}

Calls ==
  [op : {"add", "remove"}, arg : Lists, num : {0}]
    \cup [op : {"erase", "has"}, arg : {Lone(s) : s \in Sections}, num : {0}]
    \cup [op : {"has_point"}, arg : {Lone(Sec(p, 1)) : p \in 0 .. N - 1}, num : {0}]
    \cup [op : {"alloc"}, arg : {Empty}, num : 0 .. N + 1]
    \cup [op : {"shift"}, arg : {Empty}, num : 1 .. N]
    \cup [op : {"reload"}, arg : {Empty}, num : {0}]

Idle == [op |-> "none", arg |-> Empty, num |-> 0]

Init == self = Empty /\ got = Empty /\ call = Idle

Call(c) ==
  /\ call = Idle
  /\ c.op = "erase" => Points(c.arg) \subseteq Points(self)
  /\ c.op = "shift" => \A s \in Range(self.secs) : End(s) + c.num <= N
  /\ call' = c
  /\ got' = Empty
  /\ UNCHANGED self

Return(op, newSelf, answer) ==
  /\ call.op = op
  /\ self' = newSelf
  /\ got' = answer
  /\ call' = Idle

Insert == Return("add", plus(self, call.arg), Empty)

Subtract == Return("remove", minus(self, call.arg), Empty)

(* operator-=(section) and erase_point, on a part of the set *)
Erase == Return("erase", minus_section(self, call.arg.secs[1]), Empty)

(* alloc and alloc_point *)
Alloc ==
  LET done == alloc(self, call.num)
  IN  Return("alloc", done.left, done.new)

AskSection ==
  Return("has", self,
         IF is_section_insections(self, call.arg.secs[1]) THEN call.arg ELSE Empty)

AskPoint ==
  Return("has_point", self,
         IF find_pos(self.secs, call.arg.secs[1].start).in THEN call.arg ELSE Empty)

Shift == Return("shift", shift(self, call.num), Empty)

Reload == Return("reload", reload(self), Empty)

Next ==
  \/ \E c \in Calls : Call(c)
  \/ Insert
  \/ Subtract
  \/ Erase
  \/ Alloc
  \/ AskSection
  \/ AskPoint
  \/ Shift
  \/ Reload

Spec == Init /\ [][Next]_vars
-----------------------------------------------------------------------------
(* Every list stays in the form the binary search and the merges of        *)
(* algo_sections rely on, whatever calls are made: sections that are not   *)
(* empty, biggest start first, a gap between any two of them, and the      *)
(* length kept beside the list exact.                                      *)
Canonical ==
  \A o \in {self, got} :
    /\ Range(o.secs) \subseteq Sections
    /\ check_sections(o.secs)
    /\ o.len = Cardinality(Points(o))

(* The list behaves as the set of points it stands for: union, difference, *)
(* lowest-first allocation, membership, and no assertion of algo_section   *)
(* or algo_sections fails.                                                 *)
AbsCall(c) == [op |-> c.op, pts |-> Points(c.arg), num |-> c.num]

AbsCalls == {AbsCall(c) : c \in Calls}

P == INSTANCE PointSet WITH
       Calls  <- AbsCalls,
       pts    <- Points(self),
       call   <- AbsCall(call),
       out    <- Points(got),
       failed <- ~(self.ok /\ got.ok)

PointSpec == P!PSpec

=============================================================================
