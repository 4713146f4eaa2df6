-------------------------- MODULE AlgoSectionsProofs --------------------------
(***************************************************************************)
(* For any number of points: the list stays canonical, no assertion of the *)
(* code fails, and the list behaves as the set of its points.              *)
(*                                                                         *)
(* What the loops of algo_sections compute is proved by induction over     *)
(* their steps.  Induct, which speaks of a set of numbers and not of a     *)
(* predicate, is the principle; a loop's function is shown to exist, then  *)
(* to have its meaning.                                                    *)
(***************************************************************************)
EXTENDS AlgoSections, SequenceTheorems, FunctionTheorems, FiniteSetTheorems, WellFoundedInduction, TLAPS

-------------------------------------------------------------------------------
(* Induction.                                                              *)

\* A non-empty set of natural numbers has a least one.
LEMMA Least ==
  ASSUME NEW T \in SUBSET Nat, T # {}
  PROVE  \E x \in T : \A y \in T : x <= y
  <1> DEFINE R == {ss \in Nat \X Nat : ss[1] < ss[2]}
  <1>1. IsWellFoundedOn(R, Nat)
    BY NatLessThanWellFounded, Zenon DEF OpToRel
  <1>2. \E x \in T : \A y \in T : <<y, x>> \notin R
    <2> HIDE DEF R
    <2> QED
      BY <1>1, WFMin, Zenon
  <1>3. PICK x \in T : \A y \in T : <<y, x>> \notin R
    BY <1>2
  <1>4. ASSUME NEW y \in T PROVE x <= y
    <2>1. x \in Nat /\ y \in Nat /\ <<y, x>> \notin R
      BY <1>3
    <2> QED
      BY <2>1
  <1> QED
    BY <1>4

\* A set with 0 and, with each number, the next one has them all.
LEMMA Induct ==
  ASSUME NEW S, 0 \in S, \A n \in Nat : n \in S => n + 1 \in S
  PROVE  \A n \in Nat : n \in S
  <1> SUFFICES ASSUME Nat \ S # {} PROVE FALSE
    OBVIOUS
  <1>1. PICK x \in Nat \ S : \A y \in Nat \ S : x <= y
    BY Least
  <1>2. x - 1 \in Nat
    BY <1>1
  <1> QED
    BY <1>1, <1>2

-------------------------------------------------------------------------------
(* Sections and lists of sections.                                         *)

Within(s, p) == s.start <= p /\ p < End(s)

In(secs, p) == \E i \in 1 .. Len(secs) : Within(secs[i], p)

\* Any two sections, not only neighbours, have a gap between them.
Gapped(secs) ==
  \A i, j \in 1 .. Len(secs) : i < j => End(secs[j]) < secs[i].start

\* What the algorithms make of s is a section.
LEMMA SectionFacts ==
  /\ \A s \in Sections :
       /\ s.start \in Nat /\ s.len \in Nat \ {0} /\ s = Sec(s.start, s.len)
       /\ End(s) \in Nat /\ s.start < End(s) /\ End(s) <= N
  /\ \A a \in Nat, l \in Nat \ {0} : a + l <= N => Sec(a, l) \in Sections
  BY PointsAssumption DEF Sections, Sec, End

LEMMA SecFields == \A a, l : Sec(a, l).start = a /\ Sec(a, l).len = l /\ End(Sec(a, l)) = a + l
  BY DEF Sec, End

\* A list of sections, position by position.
LEMMA ListFacts ==
  ASSUME NEW secs \in Seq(Sections)
  PROVE  /\ Len(secs) \in Nat
         /\ DOMAIN secs = 1 .. Len(secs)
         /\ \A i \in 1 .. Len(secs) :
              /\ secs[i] \in Sections
              /\ secs[i].start \in Nat /\ secs[i].len \in Nat \ {0} /\ End(secs[i]) \in Nat
              /\ secs[i].start < End(secs[i]) /\ End(secs[i]) <= N
  BY LenProperties, ElementOfSeq, SectionFacts

LEMMA GappedIffChecked ==
  ASSUME NEW secs \in Seq(Sections)
  PROVE  Gapped(secs) <=> check_sections(secs)
  <1>0. /\ Len(secs) \in Nat
        /\ \A i \in 1 .. Len(secs) :
             secs[i].start \in Nat /\ End(secs[i]) \in Nat /\ secs[i].start < End(secs[i])
    BY ListFacts
  <1>1. ASSUME Gapped(secs) PROVE check_sections(secs)
    <2>1. \A i \in 2 .. Len(secs) : i - 1 \in 1 .. Len(secs) /\ i \in 1 .. Len(secs) /\ i - 1 < i
      BY <1>0
    <2> QED
      BY <1>1, <2>1 DEF Gapped, check_sections
  <1>2. ASSUME check_sections(secs) PROVE Gapped(secs)
    <2> DEFINE Apart(n) == \A i, j \in 1 .. Len(secs) :
                             j = i + n + 1 => End(secs[j]) < secs[i].start
               S == {n \in Nat : Apart(n)}
    <2>1. 0 \in S
      <3>1. ASSUME NEW i \in 1 .. Len(secs), NEW j \in 1 .. Len(secs), j = i + 0 + 1
            PROVE  End(secs[j]) < secs[i].start
        <4>1. j \in 2 .. Len(secs) /\ i = j - 1
          BY <1>0, <3>1
        <4> QED
          BY <1>2, <4>1 DEF check_sections
      <3> QED
        BY <3>1
    <2>2. ASSUME NEW n \in Nat, n \in S PROVE n + 1 \in S
      <3>1. ASSUME NEW i \in 1 .. Len(secs), NEW j \in 1 .. Len(secs), j = i + (n + 1) + 1
            PROVE  End(secs[j]) < secs[i].start
        <4>1. /\ j - 1 \in 1 .. Len(secs) /\ j - 1 = i + n + 1 /\ j \in 2 .. Len(secs)
          BY <1>0, <3>1
        <4>2. End(secs[j - 1]) < secs[i].start
          BY <2>2, <4>1
        <4>3. End(secs[j]) < secs[j - 1].start
          BY <1>2, <4>1 DEF check_sections
        <4> QED
          BY SMTT(30), <1>0, <4>1, <4>2, <4>3
      <3>2. Apart(n + 1)
        BY <3>1
      <3> HIDE DEF Apart
      <3> QED
        BY <3>2
    <2>3. \A n \in Nat : n \in S
      <3> HIDE DEF S
      <3> QED
        BY <2>1, <2>2, Induct
    <2>4. ASSUME NEW i \in 1 .. Len(secs), NEW j \in 1 .. Len(secs), i < j
          PROVE  End(secs[j]) < secs[i].start
      <3>1. j - i - 1 \in Nat /\ j = i + (j - i - 1) + 1
        BY <1>0, <2>4
      <3> QED
        BY <2>3, <3>1
    <2> QED
      BY <2>4 DEF Gapped
  <1> QED
    BY <1>1, <1>2

\* At most one section of a list holds a point.
LEMMA OneHolds ==
  ASSUME NEW secs \in Seq(Sections), Gapped(secs), NEW p \in Int,
         NEW i \in 1 .. Len(secs), NEW j \in 1 .. Len(secs),
         Within(secs[i], p), Within(secs[j], p)
  PROVE  i = j
  <1>1. \A k \in 1 .. Len(secs) : secs[k].start \in Nat /\ End(secs[k]) \in Nat
    BY ListFacts
  <1> QED
    BY SMTT(30), <1>1, ListFacts DEF Gapped, Within

LEMMA PointsFacts ==
  ASSUME NEW o, o.secs \in Seq(Sections)
  PROVE  /\ \A p : p \in Points(o) <=> p \in Int /\ In(o.secs, p)
         /\ Points(o) \subseteq 0 .. N - 1
         /\ IsFiniteSet(Points(o)) /\ Cardinality(Points(o)) \in Nat
  <1>0. /\ DOMAIN o.secs = 1 .. Len(o.secs)
        /\ \A i \in 1 .. Len(o.secs) : o.secs[i].start \in Nat /\ End(o.secs[i]) \in Nat
        /\ \A i \in 1 .. Len(o.secs) : End(o.secs[i]) <= N
    BY ListFacts
  <1>1. \A p : p \in Points(o) <=> \E i \in 1 .. Len(o.secs) :
                                     p \in o.secs[i].start .. End(o.secs[i]) - 1
    <2>1. Range(o.secs) = {o.secs[i] : i \in 1 .. Len(o.secs)}
      BY <1>0 DEF Range
    <2> QED
      BY <2>1 DEF Points
  <1>2. ASSUME NEW i \in 1 .. Len(o.secs), NEW p
        PROVE  p \in o.secs[i].start .. End(o.secs[i]) - 1
                 <=> p \in Int /\ Within(o.secs[i], p)
    BY <1>0 DEF Within
  <1>3. \A p : p \in Points(o) <=> p \in Int /\ In(o.secs, p)
    BY <1>1, <1>2 DEF In
  <1>4. ASSUME NEW p \in Points(o) PROVE p \in 0 .. N - 1
    <2>1. PICK i \in 1 .. Len(o.secs) : p \in Int /\ Within(o.secs[i], p)
      BY <1>3 DEF In
    <2> QED
      BY <1>0, <2>1, PointsAssumption DEF Within
  <1>5. IsFiniteSet(0 .. N - 1)
    BY FS_Interval, PointsAssumption
  <1>6. IsFiniteSet(Points(o))
    BY <1>4, <1>5, FS_Subset
  <1> QED
    BY <1>3, <1>4, <1>6, FS_CardinalityType

-------------------------------------------------------------------------------
(* The binary search.                                                      *)

LEMMA PointInSection ==
  ASSUME NEW s \in Sections, NEW p \in Nat
  PROVE  is_point_insection(s, p) <=> Within(s, p)
  <1> DEFINE one == Sec(p, 1)
  <1>1. one.start = p /\ End(one) = p + 1
    BY SecFields
  <1>2. s.start \in Nat /\ End(s) \in Nat /\ s.start < End(s)
    BY SectionFacts
  <1> HIDE DEF one
  <1>3. CASE s.start >= End(one) \/ one.start >= End(s)
    <2>1. intersection(s, one) = Sec(0, 0)
      BY <1>3 DEF intersection
    <2>2. ~Within(s, p)
      BY <1>1, <1>2, <1>3 DEF Within
    <2> QED
      BY <2>1, <2>2, SecFields DEF is_point_insection, one
  <1>4. CASE ~(s.start >= End(one) \/ one.start >= End(s))
    <2>1. Max({s.start, one.start}) = p
      BY <1>1, <1>2, <1>4 DEF Max
    <2>2. Min({End(s), End(one)}) = p + 1
      BY <1>1, <1>2, <1>4 DEF Min
    <2>3. intersection(s, one) = Sec(p, p + 1 - p)
      BY <1>4, <2>1, <2>2 DEF intersection
    <2>4. Within(s, p)
      BY <1>1, <1>2, <1>4 DEF Within
    <2> QED
      BY <2>3, <2>4, SecFields DEF is_point_insection, one
  <1> QED
    BY <1>3, <1>4

\* What search computes in a window from what it computes in smaller ones.
SearchStep(secs, offset, from, w) ==
  LET cur == (w[1] + w[2]) \div 2
  IN  IF is_point_insection(secs[cur], offset) THEN [at |-> cur, in |-> TRUE]
      ELSE IF w[1] = w[2]                      THEN [at |-> cur, in |-> FALSE]
      ELSE IF secs[cur].start > offset         THEN from[<<cur + 1, w[2]>>]
      ELSE                                          from[<<w[1], cur>>]

Width(w) == w[2] - w[1]

LEMMA Halves ==
  ASSUME NEW secs \in Seq(Sections), NEW w \in Windows(secs), w[1] # w[2]
  PROVE  LET cur == (w[1] + w[2]) \div 2 IN
         /\ cur \in w[1] .. w[2] - 1
         /\ <<cur + 1, w[2]>> \in Windows(secs) /\ <<w[1], cur>> \in Windows(secs)
         /\ Width(<<cur + 1, w[2]>>) < Width(w) /\ Width(<<w[1], cur>>) < Width(w)
         /\ Width(<<cur + 1, w[2]>>) \in Nat /\ Width(<<w[1], cur>>) \in Nat
  <1> DEFINE cur == (w[1] + w[2]) \div 2
  <1>1. /\ w[1] \in 1 .. Len(secs) /\ w[2] \in 1 .. Len(secs) /\ w[1] < w[2]
        /\ Len(secs) \in Nat
    BY ListFacts DEF Windows
  <1>2. cur \in w[1] .. w[2] - 1
    BY <1>1
  <1> HIDE DEF cur
  <1> QED
    BY SMTT(30), <1>1, <1>2 DEF Windows, Width, cur

\* The search ends: its function exists.
LEMMA SearchDefined ==
  ASSUME NEW secs \in Seq(Sections), NEW offset
  PROVE  search(secs, offset)
           = [w \in Windows(secs) |-> SearchStep(secs, offset, search(secs, offset), w)]
  <1> DEFINE W == Windows(secs)
             Upto(f, n) == \A w \in W : Width(w) < n => f[w] = SearchStep(secs, offset, f, w)
             Exists(n) == \E f : Upto(f, n)
             S == {n \in Nat : Exists(n)}
  <1>0. \A w \in W : Width(w) \in Nat /\ Width(w) < Len(secs)
    BY ListFacts DEF Windows, Width
  <1>1. 0 \in S
    BY <1>0
  <1>2. ASSUME NEW n \in Nat, n \in S PROVE n + 1 \in S
    <2> PICK f : Upto(f, n)
      BY <1>2
    <2> DEFINE g == [w \in W |-> SearchStep(secs, offset, f, w)]
    <2>1. \A w \in W : Width(w) < n => g[w] = f[w]
      OBVIOUS
    <2>2. ASSUME NEW w \in W, Width(w) < n + 1
          PROVE  SearchStep(secs, offset, f, w) = SearchStep(secs, offset, g, w)
      <3>1. CASE w[1] = w[2]
        BY <3>1 DEF SearchStep
      <3>2. CASE w[1] # w[2]
        <4> DEFINE cur == (w[1] + w[2]) \div 2
                   up == <<cur + 1, w[2]>>
                   down == <<w[1], cur>>
        <4>1. up \in W /\ down \in W /\ Width(up) < Width(w) /\ Width(down) < Width(w)
          BY <3>2, Halves
        <4>2. Width(up) < n /\ Width(down) < n
          BY <1>0, <2>2, <4>1
        <4>3. g[up] = f[up] /\ g[down] = f[down]
          BY <2>1, <4>1, <4>2
        <4> HIDE DEF g
        <4> QED
          BY <4>3 DEF SearchStep
      <3> QED
        BY <3>1, <3>2
    <2>3. Upto(g, n + 1)
      <3>1. \A w \in W : g[w] = SearchStep(secs, offset, f, w)
        OBVIOUS
      <3> HIDE DEF g
      <3> QED
        BY <2>2, <3>1
    <2>4. Exists(n + 1)
      BY <2>3
    <2> HIDE DEF Exists
    <2> QED
      BY <2>4
  <1>3. Exists(Len(secs))
    <2> HIDE DEF S
    <2>1. Len(secs) \in S
      BY <1>1, <1>2, Induct, ListFacts
    <2> QED
      BY <2>1 DEF S
  <1>4. PICK f : Upto(f, Len(secs))
    BY <1>3
  <1> DEFINE g == [w \in W |-> f[w]]
  <1>5. ASSUME NEW w \in W PROVE g[w] = SearchStep(secs, offset, g, w)
    <2>1. f[w] = SearchStep(secs, offset, f, w)
      BY <1>0, <1>4
    <2>2. CASE w[1] = w[2]
      BY <2>1, <2>2 DEF SearchStep
    <2>3. CASE w[1] # w[2]
      <3> DEFINE cur == (w[1] + w[2]) \div 2
      <3>1. <<cur + 1, w[2]>> \in W /\ <<w[1], cur>> \in W
        BY <2>3, Halves
      <3>2. g[<<cur + 1, w[2]>>] = f[<<cur + 1, w[2]>>] /\ g[<<w[1], cur>>] = f[<<w[1], cur>>]
        BY <3>1
      <3>3. g[w] = f[w]
        OBVIOUS
      <3> HIDE DEF g
      <3> QED
        BY <2>1, <3>2, <3>3 DEF SearchStep
    <2> QED
      BY <2>2, <2>3
  <1>6. g = [w \in W |-> SearchStep(secs, offset, g, w)]
    BY <1>5
  <1> HIDE DEF g
  <1>7. \E from : from = [w \in Windows(secs) |-> SearchStep(secs, offset, from, w)]
    BY <1>6
  <1> QED
    BY <1>7 DEF search, SearchStep

\* What find_pos promises.
Found(secs, offset, r) ==
  /\ r.in \in BOOLEAN /\ (r.in <=> In(secs, offset))
  /\ r.at \in 1 .. Len(secs) + 1
  /\ r.in => r.at \in 1 .. Len(secs) /\ Within(secs[r.at], offset)
  /\ ~r.in => /\ \A i \in 1 .. Len(secs) : i < r.at => offset < secs[i].start
              /\ \A i \in 1 .. Len(secs) : i >= r.at => End(secs[i]) <= offset

LEMMA SearchFinds ==
  ASSUME NEW secs \in Seq(Sections), Gapped(secs), NEW offset \in Nat,
         NEW w \in Windows(secs),
         \A i \in 1 .. Len(secs) : i < w[1] => offset < secs[i].start,
         secs[w[2]].start <= offset
  PROVE  Found(secs, offset, search(secs, offset)[w])
  <1> DEFINE W == Windows(secs)
             Bounds(v) == /\ \A i \in 1 .. Len(secs) : i < v[1] => offset < secs[i].start
                          /\ secs[v[2]].start <= offset
             Right(n) == \A v \in W : Width(v) < n /\ Bounds(v) =>
                           Found(secs, offset, search(secs, offset)[v])
             S == {n \in Nat : Right(n)}
  <1>0. /\ Len(secs) \in Nat
        /\ \A i \in 1 .. Len(secs) :
             /\ secs[i] \in Sections
             /\ secs[i].start \in Nat /\ End(secs[i]) \in Nat /\ secs[i].start < End(secs[i])
    BY ListFacts
  <1>1. \A v \in W : /\ v[1] \in 1 .. Len(secs) /\ v[2] \in 1 .. Len(secs) /\ v[1] <= v[2]
                     /\ Width(v) \in Nat /\ Width(v) < Len(secs)
    BY SMTT(30), <1>0 DEF Windows, Width
  <1>2. 0 \in S
    BY <1>1
  <1>3. ASSUME NEW n \in Nat, n \in S PROVE n + 1 \in S
    <2>1. ASSUME NEW v \in W, Width(v) < n + 1, Bounds(v)
          PROVE  Found(secs, offset, search(secs, offset)[v])
      <3> DEFINE cur == (v[1] + v[2]) \div 2
                 r == search(secs, offset)[v]
      <3>1. r = IF is_point_insection(secs[cur], offset) THEN [at |-> cur, in |-> TRUE]
                ELSE IF v[1] = v[2]                      THEN [at |-> cur, in |-> FALSE]
                ELSE IF secs[cur].start > offset
                     THEN search(secs, offset)[<<cur + 1, v[2]>>]
                     ELSE search(secs, offset)[<<v[1], cur>>]
        <4>1. r = SearchStep(secs, offset, search(secs, offset), v)
          BY SearchDefined
        <4> QED
          BY <4>1 DEF SearchStep
      <3>2. cur \in 1 .. Len(secs) /\ cur >= v[1] /\ cur <= v[2]
        BY SMTT(30), <1>1
      <3>h. v[1] # v[2] =>
              /\ <<cur + 1, v[2]>> \in W /\ <<v[1], cur>> \in W
              /\ Width(<<cur + 1, v[2]>>) < Width(v) /\ Width(<<v[1], cur>>) < Width(v)
              /\ Width(<<cur + 1, v[2]>>) \in Nat /\ Width(<<v[1], cur>>) \in Nat
        BY Halves
      <3>c. v[1] = v[2] => cur = v[1]
        BY <1>1
      <3> SUFFICES Found(secs, offset, r)
        OBVIOUS
      <3> HIDE DEF cur, r
      <3>3. is_point_insection(secs[cur], offset) <=> Within(secs[cur], offset)
        BY <1>0, <3>2, PointInSection
      <3>4. CASE Within(secs[cur], offset)
        <4>1. r = [at |-> cur, in |-> TRUE]
          BY <3>1, <3>3, <3>4
        <4> QED
          BY <1>0, <3>2, <3>4, <4>1 DEF Found, In
      <3>5. CASE ~Within(secs[cur], offset) /\ v[1] = v[2]
        <4>1. r = [at |-> cur, in |-> FALSE] /\ cur = v[1]
          BY <3>1, <3>3, <3>5, <3>c
        <4>2. \A i \in 1 .. Len(secs) : i < cur => offset < secs[i].start
          BY <2>1, <4>1
        <4>3. End(secs[cur]) <= offset
          BY <1>0, <2>1, <3>2, <3>5, <4>1 DEF Within
        <4>4. \A i \in 1 .. Len(secs) : i > cur => End(secs[i]) < secs[cur].start
          BY <3>2 DEF Gapped
        <4>5. \A i \in 1 .. Len(secs) : i >= cur => End(secs[i]) <= offset
          BY SMTT(30), <1>0, <3>2, <4>3, <4>4
        <4>6. ~In(secs, offset)
          BY <1>0, <3>2, <4>2, <4>5 DEF In, Within
        <4> QED
          BY <1>0, <3>2, <4>1, <4>2, <4>5, <4>6 DEF Found
      <3>6. CASE ~Within(secs[cur], offset) /\ v[1] # v[2] /\ secs[cur].start > offset
        <4> DEFINE u == <<cur + 1, v[2]>>
        <4>1. r = search(secs, offset)[u]
          BY <1>0, <3>1, <3>2, <3>3, <3>6
        <4>2. u \in W /\ Width(u) < Width(v) /\ Width(u) \in Nat
          BY <3>6, <3>h
        <4>3. \A i \in 1 .. Len(secs) : i < cur => secs[i].start > secs[cur].start
          BY SMTT(30), <1>0, <3>2 DEF Gapped
        <4>4. Bounds(u)
          <5>1. ASSUME NEW i \in 1 .. Len(secs), i < cur + 1 PROVE offset < secs[i].start
            <6>1. i < cur \/ i = cur
              BY <3>2, <5>1
            <6> QED
              BY <1>0, <3>2, <3>6, <4>3, <6>1
          <5>2. u[1] = cur + 1 /\ u[2] = v[2]
            OBVIOUS
          <5> HIDE DEF u
          <5> QED
            BY <2>1, <5>1, <5>2
        <4>5. Width(u) < n
          BY <1>1, <2>1, <4>2
        <4> HIDE DEF u
        <4> QED
          BY <1>3, <4>1, <4>2, <4>4, <4>5
      <3>7. CASE ~Within(secs[cur], offset) /\ v[1] # v[2] /\ ~(secs[cur].start > offset)
        <4> DEFINE u == <<v[1], cur>>
        <4>1. r = search(secs, offset)[u]
          BY <1>0, <3>1, <3>2, <3>3, <3>7
        <4>2. u \in W /\ Width(u) < Width(v) /\ Width(u) \in Nat
          BY <3>7, <3>h
        <4>3. secs[cur].start <= offset
          BY <1>0, <3>2, <3>7
        <4>4. Bounds(u)
          <5>1. u[1] = v[1] /\ u[2] = cur
            OBVIOUS
          <5> HIDE DEF u
          <5> QED
            BY <2>1, <4>3, <5>1
        <4>5. Width(u) < n
          BY <1>1, <2>1, <4>2
        <4> HIDE DEF u
        <4> QED
          BY <1>3, <4>1, <4>2, <4>4, <4>5
      <3> QED
        BY <3>4, <3>5, <3>6, <3>7
    <2>2. Right(n + 1)
      BY <2>1
    <2> HIDE DEF Right
    <2> QED
      BY <2>2
  <1>4. Right(Len(secs))
    <2> HIDE DEF S
    <2>1. Len(secs) \in S
      BY <1>0, <1>2, <1>3, Induct
    <2> QED
      BY <2>1 DEF S
  <1> QED
    BY <1>1, <1>4

\* find_pos finds the section that holds the offset, or the one place in the
\* order where a section that starts there belongs.
LEMMA FindPos ==
  ASSUME NEW secs \in Seq(Sections), Gapped(secs), NEW offset \in Nat
  PROVE  Found(secs, offset, find_pos(secs, offset))
  <1> DEFINE n == Len(secs)
  <1>0. /\ n \in Nat
        /\ \A i \in 1 .. n : secs[i].start \in Nat /\ End(secs[i]) \in Nat
    BY ListFacts
  <1>1. CASE secs = <<>> \/ Last(secs).start > offset
    <2>1. find_pos(secs, offset) = [at |-> n + 1, in |-> FALSE]
      BY <1>1 DEF find_pos
    <2>2. ASSUME NEW i \in 1 .. n PROVE offset < secs[i].start
      <3>1. n # 0 /\ secs # <<>>
        BY <1>0, EmptySeq
      <3>2. secs[n].start > offset
        BY <1>1, <3>1 DEF Last
      <3>3. i < n => End(secs[n]) < secs[i].start
        BY <1>0, <3>1 DEF Gapped
      <3>4. secs[n].start < End(secs[n])
        BY <1>0, <3>1, ListFacts
      <3> QED
        BY <1>0, <3>1, <3>2, <3>3, <3>4
    <2>3. ~In(secs, offset)
      BY <1>0, <2>2 DEF In, Within
    <2> QED
      BY <1>0, <2>1, <2>2, <2>3 DEF Found
  <1>2. CASE ~(secs = <<>> \/ Last(secs).start > offset)
    <2>1. n \in Nat \ {0}
      BY <1>2, EmptySeq
    <2>2. <<1, n>> \in Windows(secs)
      BY <2>1 DEF Windows
    <2>3. secs[n].start <= offset
      BY <1>0, <1>2, <2>1 DEF Last
    <2>4. \A i \in 1 .. n : ~(i < 1)
      OBVIOUS
    <2> DEFINE w == <<1, n>>
    <2>5. /\ w \in Windows(secs) /\ secs[w[2]].start <= offset
          /\ \A i \in 1 .. n : i < w[1] => offset < secs[i].start
      BY <2>2, <2>3, <2>4
    <2>6. find_pos(secs, offset) = search(secs, offset)[w]
      BY <1>2 DEF find_pos
    <2> HIDE DEF w
    <2> QED
      BY <2>5, <2>6, SearchFinds
  <1> QED
    BY <1>1, <1>2

-------------------------------------------------------------------------------
(* A piece of a list replaced: what both add_section and minus_section do. *)

Spliced(secs, a, mid, b) == SubSeq(secs, 1, a) \o mid \o SubSeq(secs, b, Len(secs))

LEMMA SpliceFacts ==
  ASSUME NEW secs \in Seq(Sections), NEW mid \in Seq(Sections),
         NEW a \in 0 .. Len(secs), NEW b \in a + 1 .. Len(secs) + 1
  PROVE  /\ Spliced(secs, a, mid, b) \in Seq(Sections)
         /\ Len(Spliced(secs, a, mid, b)) = a + Len(mid) + Len(secs) - b + 1
         /\ \A k \in 1 .. a : Spliced(secs, a, mid, b)[k] = secs[k]
         /\ \A k \in a + 1 .. a + Len(mid) : Spliced(secs, a, mid, b)[k] = mid[k - a]
         /\ \A k \in a + Len(mid) + 1 .. a + Len(mid) + Len(secs) - b + 1 :
              Spliced(secs, a, mid, b)[k] = secs[k - a - Len(mid) + b - 1]
  <1> DEFINE n == Len(secs)
             m == Len(mid)
             low == SubSeq(secs, 1, a)
             high == SubSeq(secs, b, n)
             lm == low \o mid
             all == lm \o high
  <1>1. n \in Nat /\ m \in Nat /\ \A i \in 1 .. n : secs[i] \in Sections
    BY ListFacts
  <1>2. /\ low \in Seq(Sections) /\ Len(low) = a
        /\ \A i \in 1 .. a : low[i] = secs[i]
    <2>1. \A i \in 1 .. a : secs[i] \in Sections
      BY <1>1
    <2>2. /\ low \in Seq(Sections) /\ Len(low) = IF 1 <= a THEN a - 1 + 1 ELSE 0
          /\ \A i \in 1 .. a - 1 + 1 : low[i] = secs[1 + i - 1]
      BY <1>1, <2>1, SubSeqProperties
    <2> HIDE DEF low
    <2> QED
      BY <1>1, <2>2
  <1>3. /\ high \in Seq(Sections) /\ Len(high) = n - b + 1
        /\ \A i \in 1 .. n - b + 1 : high[i] = secs[b + i - 1]
    <2>1. \A i \in b .. n : secs[i] \in Sections
      BY <1>1
    <2>2. /\ high \in Seq(Sections) /\ Len(high) = IF b <= n THEN n - b + 1 ELSE 0
          /\ \A i \in 1 .. n - b + 1 : high[i] = secs[b + i - 1]
      BY <1>1, <2>1, SubSeqProperties
    <2> HIDE DEF high
    <2> QED
      BY <1>1, <2>2
  <1> HIDE DEF low, high
  <1>4. /\ lm \in Seq(Sections) /\ Len(lm) = a + m
        /\ \A i \in 1 .. a + m : lm[i] = IF i <= a THEN low[i] ELSE mid[i - a]
    BY <1>2, ConcatProperties
  <1> HIDE DEF lm
  <1>5. /\ all \in Seq(Sections) /\ Len(all) = a + m + (n - b + 1)
        /\ \A i \in 1 .. a + m + (n - b + 1) :
             all[i] = IF i <= a + m THEN lm[i] ELSE high[i - (a + m)]
    <2>1. /\ all \in Seq(Sections) /\ Len(all) = Len(lm) + Len(high)
          /\ \A i \in 1 .. Len(lm) + Len(high) :
               all[i] = IF i <= Len(lm) THEN lm[i] ELSE high[i - Len(lm)]
      BY <1>3, <1>4, ConcatProperties
    <2> HIDE DEF all
    <2> QED
      BY <1>3, <1>4, <2>1
  <1>6. all = Spliced(secs, a, mid, b)
    BY DEF lm, low, high, Spliced
  <1> HIDE DEF all, n, m
  <1>7. /\ \A k \in 1 .. a : all[k] = secs[k]
        /\ \A k \in a + 1 .. a + m : all[k] = mid[k - a]
    <2>1. ASSUME NEW k \in 1 .. a PROVE all[k] = secs[k]
      <3>1. k \in 1 .. a + m + (n - b + 1) /\ k <= a + m /\ k \in 1 .. a + m /\ k <= a
        BY <1>1 DEF n
      <3> QED
        BY <1>2, <1>4, <1>5, <3>1
    <2>2. ASSUME NEW k \in a + 1 .. a + m PROVE all[k] = mid[k - a]
      <3>1. k \in 1 .. a + m + (n - b + 1) /\ k <= a + m /\ k \in 1 .. a + m /\ ~(k <= a)
        BY <1>1 DEF n
      <3> QED
        BY <1>4, <1>5, <3>1
    <2> QED
      BY <2>1, <2>2
  <1>8. ASSUME NEW k \in a + m + 1 .. a + m + n - b + 1
        PROVE  all[k] = secs[k - a - m + b - 1]
    <2>1. k \in 1 .. a + m + (n - b + 1) /\ ~(k <= a + m) /\ k - (a + m) \in 1 .. n - b + 1
      BY <1>1 DEF n
    <2>2. all[k] = high[k - (a + m)]
      BY <1>5, <2>1
    <2>3. high[k - (a + m)] = secs[b + (k - (a + m)) - 1]
      BY <1>3, <2>1
    <2>4. b + (k - (a + m)) - 1 = k - a - m + b - 1
      BY <1>1 DEF n
    <2> QED
      BY <2>2, <2>3, <2>4
  <1>9. Len(all) = a + m + n - b + 1
    BY SMTT(30), <1>1, <1>5 DEF n
  <1> QED
    BY <1>5, <1>6, <1>7, <1>8, <1>9 DEF n, m

\* The list that results is in order if what comes in fits between what stays,
\* and it holds the points of both.
LEMMA SpliceGapped ==
  ASSUME NEW secs \in Seq(Sections), NEW mid \in Seq(Sections),
         NEW a \in 0 .. Len(secs), NEW b \in a + 1 .. Len(secs) + 1,
         Gapped(secs), Gapped(mid),
         \A i \in 1 .. a, j \in 1 .. Len(mid) : End(mid[j]) < secs[i].start,
         \A i \in b .. Len(secs), j \in 1 .. Len(mid) : End(secs[i]) < mid[j].start
  PROVE  /\ Spliced(secs, a, mid, b) \in Seq(Sections)
         /\ Gapped(Spliced(secs, a, mid, b))
         /\ \A p : In(Spliced(secs, a, mid, b), p)
              <=> \/ In(mid, p)
                  \/ \E i \in 1 .. Len(secs) : (i <= a \/ i >= b) /\ Within(secs[i], p)
  <1> DEFINE n == Len(secs)
             m == Len(mid)
             all == Spliced(secs, a, mid, b)
             d == b - 1 - a - m
  <1>1. /\ n \in Nat /\ m \in Nat /\ d \in Int
        /\ \A i \in 1 .. n : secs[i].start \in Nat /\ End(secs[i]) \in Nat
                             /\ secs[i].start < End(secs[i])
        /\ \A i \in 1 .. m : mid[i].start \in Nat /\ End(mid[i]) \in Nat
                             /\ mid[i].start < End(mid[i])
    BY SMTT(30), ListFacts
  <1>2. /\ all \in Seq(Sections) /\ Len(all) = n - d
        /\ \A k \in 1 .. a : all[k] = secs[k]
        /\ \A k \in a + 1 .. a + m : all[k] = mid[k - a]
    <2>1. /\ all \in Seq(Sections) /\ Len(all) = a + Len(mid) + Len(secs) - b + 1
          /\ \A k \in 1 .. a : all[k] = secs[k]
          /\ \A k \in a + 1 .. a + Len(mid) : all[k] = mid[k - a]
      BY ZenonT(60), SpliceFacts
    <2>2. a + m + n - b + 1 = n - d
      BY <1>1
    <2> HIDE DEF all, d
    <2> QED
      BY <2>1, <2>2
  <1>3. \A k \in a + m + 1 .. n - d : all[k] = secs[k + d] /\ k + d \in b .. n
    <2>1. ASSUME NEW k \in a + m + 1 .. n - d PROVE all[k] = secs[k + d] /\ k + d \in b .. n
      <3>1. k \in a + m + 1 .. a + m + n - b + 1 /\ k - a - m + b - 1 = k + d
        BY <1>1
      <3> HIDE DEF all
      <3>2. all[k] = secs[k - a - m + b - 1]
        BY <3>1, SpliceFacts DEF all
      <3> QED
        BY <1>1, <3>1, <3>2
    <2> QED
      BY <2>1
  <1> HIDE DEF all
  <1>4. ASSUME NEW k \in 1 .. Len(all)
        PROVE  k \in 1 .. a \/ k \in a + 1 .. a + m \/ k \in a + m + 1 .. n - d
    BY SMTT(30), <1>1, <1>2
  <1>5. d \in Int /\ a \in Nat /\ b \in Nat /\ a <= n /\ a < b /\ b <= n + 1 /\ n - d >= a + m
    BY <1>1
  <1> HIDE DEF d, n, m
  <1>6. ASSUME NEW k \in 1 .. Len(all), NEW l \in 1 .. Len(all), k < l
        PROVE  End(all[l]) < all[k].start
    <2>1. CASE l \in 1 .. a
      <3>1. k \in 1 .. n /\ l \in 1 .. n /\ k \in 1 .. a
        BY <1>1, <1>5, <1>6, <2>1
      <3> QED
        BY <1>2, <1>6, <2>1, <3>1 DEF Gapped, n
    <2>2. CASE l \in a + 1 .. a + m
      <3>1. CASE k \in 1 .. a
        <4>1. l - a \in 1 .. m
          BY <1>1, <1>5, <2>2
        <4> QED
          BY <1>2, <2>2, <3>1, <4>1 DEF m
      <3>2. CASE k \in a + 1 .. a + m
        <4>0. m \in Nat /\ a \in Nat /\ k \in Int /\ l \in Int /\ k < l
          BY <1>1, <1>5, <1>6, <2>2, <3>2
        <4>1. l - a \in 1 .. m /\ k - a \in 1 .. m /\ k - a < l - a
          BY <2>2, <3>2, <4>0
        <4> QED
          BY <1>2, <2>2, <3>2, <4>1 DEF Gapped, m
      <3>3. k <= a + m
        BY <1>1, <1>5, <1>6, <2>2
      <3> QED
        BY <1>1, <1>4, <1>5, <3>1, <3>2, <3>3
    <2>3. CASE l \in a + m + 1 .. n - d
      <3>0. all[l] = secs[l + d] /\ l + d \in b .. n
        BY <1>3, <2>3
      <3>1. CASE k \in 1 .. a
        <4>1. k \in 1 .. n /\ l + d \in 1 .. n /\ k < l + d /\ all[k] = secs[k]
          BY <1>1, <1>2, <1>5, <3>0, <3>1
        <4> QED
          BY <3>0, <4>1 DEF Gapped, n
      <3>2. CASE k \in a + 1 .. a + m
        <4>1. k - a \in 1 .. m /\ all[k] = mid[k - a]
          BY SMTT(30), <1>1, <1>2, <1>5, <3>2
        <4> QED
          BY <3>0, <4>1 DEF n, m
      <3>3. CASE k \in a + m + 1 .. n - d
        <4>1. all[k] = secs[k + d] /\ k + d \in b .. n
          BY <1>3, <3>3
        <4>2. k + d < l + d /\ k + d \in 1 .. n /\ l + d \in 1 .. n
          BY <1>1, <1>5, <1>6, <3>0, <4>1
        <4> QED
          BY <3>0, <4>1, <4>2 DEF Gapped, n
      <3> QED
        BY <1>4, <3>1, <3>2, <3>3
    <2> QED
      BY <1>4, <2>1, <2>2, <2>3
  <1>7. ASSUME NEW p, In(all, p)
        PROVE  In(mid, p) \/ \E i \in 1 .. n : (i <= a \/ i >= b) /\ Within(secs[i], p)
    <2> PICK k \in 1 .. Len(all) : Within(all[k], p)
      BY <1>7 DEF In
    <2>1. CASE k \in 1 .. a
      BY <1>1, <1>2, <1>5, <2>1
    <2>2. CASE k \in a + 1 .. a + m
      <3>1. k - a \in 1 .. m /\ all[k] = mid[k - a]
        BY <1>1, <1>2, <1>5, <2>2
      <3> QED
        BY <3>1 DEF In, m
    <2>3. CASE k \in a + m + 1 .. n - d
      <3>1. all[k] = secs[k + d] /\ k + d \in b .. n
        BY <1>3, <2>3
      <3>2. k + d \in 1 .. n /\ k + d >= b
        BY <1>1, <1>5, <3>1
      <3> QED
        BY <3>1, <3>2
    <2> QED
      BY <1>4, <2>1, <2>2, <2>3
  <1>8. ASSUME NEW p, In(mid, p) PROVE In(all, p)
    <2> PICK j \in 1 .. m : Within(mid[j], p)
      BY <1>8 DEF In, m
    <2>1. j + a \in a + 1 .. a + m /\ j + a \in 1 .. Len(all) /\ j + a - a = j
      BY <1>1, <1>2, <1>5
    <2>2. all[j + a] = mid[j]
      BY <1>2, <2>1
    <2> QED
      BY <2>1, <2>2 DEF In
  <1>9. ASSUME NEW p, NEW i \in 1 .. n, i <= a \/ i >= b, Within(secs[i], p) PROVE In(all, p)
    <2>1. CASE i <= a
      <3>1. i \in 1 .. a /\ i \in 1 .. Len(all)
        BY <1>1, <1>2, <1>5, <2>1
      <3> QED
        BY <1>2, <1>9, <3>1 DEF In
    <2>2. CASE i >= b
      <3> DEFINE k == i - d
      <3>1. k \in a + m + 1 .. n - d /\ k \in 1 .. Len(all) /\ k + d = i
        BY <1>1, <1>2, <1>5, <2>2 DEF d
      <3> HIDE DEF k
      <3>2. all[k] = secs[i]
        BY <1>3, <3>1
      <3> QED
        BY <1>9, <3>1, <3>2 DEF In
    <2> QED
      BY <1>9, <2>1, <2>2
  <1> QED
    BY <1>2, <1>6, <1>7, <1>8, <1>9 DEF Gapped, all, n

-------------------------------------------------------------------------------
(* add_section.                                                            *)

LEMMA OneSection ==
  ASSUME NEW s \in Sections
  PROVE  /\ <<s>> \in Seq(Sections) /\ Len(<<s>>) = 1 /\ <<s>>[1] = s
         /\ Gapped(<<s>>)
         /\ \A p : In(<<s>>, p) <=> Within(s, p)
  <1>1. <<s>> \in Seq(Sections) /\ Len(<<s>>) = 1 /\ <<s>>[1] = s
    OBVIOUS
  <1>2. \A i \in 1 .. 1 : i = 1
    OBVIOUS
  <1> DEFINE l == <<s>>
  <1>3. Len(l) = 1 /\ l[1] = s
    BY <1>1
  <1> HIDE DEF l
  <1>4. Gapped(l)
    BY <1>2, <1>3 DEF Gapped
  <1>5. \A p : In(l, p) <=> Within(s, p)
    BY <1>2, <1>3 DEF In
  <1> QED
    BY <1>1, <1>4, <1>5 DEF l

\* A section joined to the one below, or above, it.
LEMMA MergeFacts ==
  ASSUME NEW s \in Sections, NEW t \in Sections
  PROVE  /\ End(t) <= s.start =>
              /\ is_neighbour(s, t) <=> End(t) = s.start
              /\ is_neighbour(s, t) =>
                   /\ merge(s, t) \in Sections
                   /\ merge(s, t).start = t.start /\ End(merge(s, t)) = End(s)
         /\ End(s) <= t.start =>
              /\ is_neighbour(s, t) <=> End(s) = t.start
              /\ is_neighbour(s, t) =>
                   /\ merge(s, t) \in Sections
                   /\ merge(s, t).start = s.start /\ End(merge(s, t)) = End(t)
  <1>1. /\ s.start \in Nat /\ s.len \in Nat \ {0} /\ End(s) = s.start + s.len /\ End(s) <= N
        /\ t.start \in Nat /\ t.len \in Nat \ {0} /\ End(t) = t.start + t.len /\ End(t) <= N
        /\ N \in Nat
    BY SectionFacts, PointsAssumption DEF End
  <1>2. CASE End(t) <= s.start
    <2>1. is_neighbour(s, t) <=> End(t) = s.start
      BY <1>1, <1>2 DEF is_neighbour
    <2>2. ASSUME End(t) = s.start
          PROVE  /\ merge(s, t) \in Sections
                 /\ merge(s, t).start = t.start /\ End(merge(s, t)) = End(s)
      <3>1. End(s) # t.start
        BY <1>1, <2>2
      <3>2. merge(s, t) = Sec(t.start, s.len + t.len)
        BY <2>2, <3>1 DEF merge
      <3>3. t.start + (s.len + t.len) = End(s) /\ s.len + t.len \in Nat \ {0}
        BY <1>1, <2>2
      <3> QED
        BY <1>1, <3>2, <3>3, SectionFacts, SecFields
    <2>3. ~(End(s) <= t.start)
      BY <1>1, <1>2
    <2> QED
      BY <2>1, <2>2, <2>3
  <1>3. CASE End(s) <= t.start
    <2>1. is_neighbour(s, t) <=> End(s) = t.start
      BY <1>1, <1>3 DEF is_neighbour
    <2>2. ASSUME End(s) = t.start
          PROVE  /\ merge(s, t) \in Sections
                 /\ merge(s, t).start = s.start /\ End(merge(s, t)) = End(t)
      <3>1. End(t) # s.start
        BY <1>1, <2>2
      <3>2. merge(s, t) = Sec(s.start, s.len + t.len)
        BY <2>2, <3>1 DEF merge
      <3>3. s.start + (s.len + t.len) = End(t) /\ s.len + t.len \in Nat \ {0}
        BY <1>1, <2>2
      <3> QED
        BY <1>1, <3>2, <3>3, SectionFacts, SecFields
    <2>3. ~(End(t) <= s.start)
      BY <1>1, <1>3
    <2> QED
      BY <2>1, <2>2, <2>3
  <1> QED
    BY <1>2, <1>3

\* A section that fits between two of the list is added there: it swallows the
\* neighbours it touches, and the list gets its points.
LEMMA AddSection ==
  ASSUME NEW o, o.secs \in Seq(Sections), Gapped(o.secs),
         NEW s \in Sections, NEW at \in 1 .. Len(o.secs) + 1,
         \A i \in 1 .. Len(o.secs) : i < at => End(s) <= o.secs[i].start,
         \A i \in 1 .. Len(o.secs) : i >= at => End(o.secs[i]) <= s.start
  PROVE  \E secs \in Seq(Sections) :
           /\ add_section(o, s, at) = List(secs, o.len + s.len, o.ok)
           /\ Gapped(secs)
           /\ \A p \in Int : In(secs, p) <=> In(o.secs, p) \/ Within(s, p)
  <1> DEFINE secs == o.secs
             n == Len(secs)
             right == at <= n /\ is_neighbour(s, secs[at])
             wide == IF right THEN merge(s, secs[at]) ELSE s
             left == at > 1 /\ is_neighbour(wide, secs[at - 1])
             whole == IF left THEN merge(wide, secs[at - 1]) ELSE wide
             a == IF left THEN at - 2 ELSE at - 1
             b == IF right THEN at + 1 ELSE at
             all == Spliced(secs, a, <<whole>>, b)
  <1>1. add_section(o, s, at) = List(all, o.len + s.len, o.ok)
    BY DEF add_section, Spliced
  <1>2. /\ n \in Nat /\ at \in Nat \ {0} /\ at <= n + 1
        /\ \A i \in 1 .. n :
             /\ secs[i] \in Sections
             /\ secs[i].start \in Nat /\ End(secs[i]) \in Nat /\ secs[i].start < End(secs[i])
        /\ s.start \in Nat /\ End(s) \in Nat /\ s.start < End(s)
    BY SMTT(30), ListFacts, SectionFacts
  <1>3. /\ \A i \in 1 .. n : i < at => End(s) <= secs[i].start
        /\ \A i \in 1 .. n : i >= at => End(secs[i]) <= s.start
        /\ \A i, j \in 1 .. n : i < j => End(secs[j]) < secs[i].start
    BY DEF Gapped
  <1>4. at <= n => at \in 1 .. n
    BY <1>2
  <1>5. at > 1 => at - 1 \in 1 .. n /\ at - 1 < at
    BY <1>2
  <1> HIDE DEF secs, n
  <1>6. /\ wide \in Sections /\ End(wide) = End(s)
        /\ IF right THEN at <= n /\ End(secs[at]) = s.start /\ wide.start = secs[at].start
                    ELSE (at <= n => End(secs[at]) < s.start) /\ wide.start = s.start
    <2>1. CASE at <= n
      <3>1. End(secs[at]) <= s.start /\ secs[at] \in Sections
        BY <1>2, <1>3, <1>4, <2>1
      <3> QED
        BY <1>2, <1>4, <2>1, <3>1, MergeFacts
    <2>2. CASE ~(at <= n)
      BY <2>2
    <2> QED
      BY <2>1, <2>2
  <1> HIDE DEF wide, right
  <1>7. /\ whole \in Sections /\ whole.start = wide.start
        /\ IF left THEN at > 1 /\ End(s) = secs[at - 1].start /\ End(whole) = End(secs[at - 1])
                   ELSE (at > 1 => End(s) < secs[at - 1].start) /\ End(whole) = End(s)
    <2>1. CASE at > 1
      <3>1. End(wide) <= secs[at - 1].start /\ secs[at - 1] \in Sections
        BY <1>2, <1>3, <1>5, <1>6, <2>1
      <3> QED
        BY SMTT(30), <1>2, <1>5, <1>6, <2>1, <3>1, MergeFacts
    <2>2. CASE ~(at > 1)
      BY <1>6, <2>2
    <2> QED
      BY <2>1, <2>2
  <1> HIDE DEF whole, left
  <1>8. a \in 0 .. n /\ b \in a + 1 .. n + 1 /\ a < at /\ a \in Nat /\ b \in Nat
    BY <1>2, <1>6, <1>7
  <1>9. ASSUME NEW i \in 1 .. a PROVE End(whole) < secs[i].start
    <2>0. i \in 1 .. n /\ i < at /\ at > 1
      BY <1>2, <1>8
    <2>1. CASE left
      <3>1. i < at - 1
        BY <1>2, <1>8, <2>0, <2>1
      <3> QED
        BY <1>3, <1>5, <1>7, <2>0, <2>1, <3>1
    <2>2. CASE ~left
      <3>1. i = at - 1 \/ i < at - 1
        BY <1>2, <2>0
      <3>2. End(s) < secs[at - 1].start /\ secs[at - 1].start < End(secs[at - 1])
        BY <1>2, <1>5, <1>7, <2>0, <2>2
      <3>3. i < at - 1 => End(secs[at - 1]) < secs[i].start
        BY <1>3, <1>5, <2>0
      <3> QED
        BY SMTT(30), <1>2, <1>5, <1>7, <2>0, <2>2, <3>1, <3>2, <3>3
    <2> QED
      BY <2>1, <2>2
  <1>10. ASSUME NEW i \in b .. n PROVE End(secs[i]) < whole.start
    <2>0. i \in 1 .. n /\ i >= at /\ at \in 1 .. n
      BY <1>2, <1>8
    <2>1. CASE right
      <3>1. at < i
        BY <1>2, <1>8, <2>0, <2>1
      <3> QED
        BY <1>3, <1>6, <1>7, <2>0, <2>1, <3>1
    <2>2. CASE ~right
      <3>1. i = at \/ at < i
        BY <1>2, <2>0
      <3>2. End(secs[at]) < s.start /\ secs[at].start < End(secs[at])
        BY <1>2, <1>6, <2>0, <2>2
      <3>3. at < i => End(secs[i]) < secs[at].start
        BY <1>3, <2>0
      <3> QED
        BY SMTT(30), <1>2, <1>6, <1>7, <2>0, <2>2, <3>1, <3>2, <3>3
    <2> QED
      BY <2>1, <2>2
  <1>11. /\ all \in Seq(Sections) /\ Gapped(all)
         /\ \A p : In(all, p) <=> \/ Within(whole, p)
                                  \/ \E i \in 1 .. n : (i <= a \/ i >= b) /\ Within(secs[i], p)
    <2> DEFINE mid == <<whole>>
    <2>1. /\ mid \in Seq(Sections) /\ Len(mid) = 1 /\ mid[1] = whole /\ Gapped(mid)
          /\ \A p : In(mid, p) <=> Within(whole, p)
      BY <1>7, OneSection
    <2>2. \A j \in 1 .. 1 : j = 1
      OBVIOUS
    <2>3. all = Spliced(secs, a, mid, b)
      OBVIOUS
    <2> HIDE DEF mid, all, a, b
    <2>4. /\ \A i \in 1 .. a, j \in 1 .. Len(mid) : End(mid[j]) < secs[i].start
          /\ \A i \in b .. n, j \in 1 .. Len(mid) : End(secs[i]) < mid[j].start
      BY <1>9, <1>10, <2>1, <2>2
    <2>5. secs \in Seq(Sections) /\ Gapped(secs) /\ a \in 0 .. Len(secs) /\ b \in a + 1 .. Len(secs) + 1
      BY <1>8 DEF secs, n
    <2>6. /\ Spliced(secs, a, mid, b) \in Seq(Sections)
          /\ Gapped(Spliced(secs, a, mid, b))
          /\ \A p : In(Spliced(secs, a, mid, b), p)
               <=> \/ In(mid, p)
                   \/ \E i \in 1 .. Len(secs) : (i <= a \/ i >= b) /\ Within(secs[i], p)
      BY <2>1, <2>4, <2>5, SpliceGapped DEF n
    <2> QED
      BY <2>1, <2>3, <2>6 DEF n
  <1>12. ASSUME NEW p \in Int PROVE In(all, p) <=> In(secs, p) \/ Within(s, p)
    <2>0. /\ left => at - 1 \in 1 .. n
          /\ right => at \in 1 .. n
          /\ \A i \in 1 .. n : \/ i <= a \/ i >= b
                               \/ (left /\ i = at - 1) \/ (right /\ i = at)
      BY <1>2, <1>4, <1>5, <1>6, <1>7
    <2>1. Within(whole, p) <=> \/ Within(s, p)
                               \/ left /\ Within(secs[at - 1], p)
                               \/ right /\ Within(secs[at], p)
      <3>1. /\ whole.start \in Nat /\ End(whole) \in Nat
            /\ left => secs[at - 1].start \in Nat /\ End(secs[at - 1]) \in Nat
                       /\ secs[at - 1].start < End(secs[at - 1])
            /\ right => secs[at].start \in Nat /\ End(secs[at]) \in Nat
                        /\ secs[at].start < End(secs[at])
        BY <1>2, <1>7, <2>0, SectionFacts
      <3> QED
        BY SMTT(30), <1>2, <1>6, <1>7, <3>1 DEF Within
    <2> HIDE DEF a, b, all
    <2> QED
      BY <1>11, <2>0, <2>1 DEF In, n
  <1> QED
    BY <1>1, <1>11, <1>12 DEF secs

-------------------------------------------------------------------------------
(* The object: one section added, one removed.                             *)

Objects == [secs : Seq(Sections), len : Nat, ok : {TRUE}]

LEMMA ListFields ==
  ASSUME NEW secs, NEW len, NEW ok
  PROVE  List(secs, len, ok).secs = secs /\ List(secs, len, ok).len = len
  BY DEF List

LEMMA ListOk == ASSUME NEW secs, NEW len PROVE List(secs, len, TRUE).ok
  BY DEF List

LEMMA ListObject ==
  ASSUME NEW secs \in Seq(Sections), NEW len \in Nat
  PROVE  List(secs, len, TRUE) \in Objects
  BY DEF Objects, List

LEMMA ObjectIsList ==
  ASSUME NEW o \in Objects
  PROVE  o = List(o.secs, o.len, TRUE)
  BY DEF Objects, List

LEMMA ObjectOk == ASSUME NEW o \in Objects PROVE o.ok
  BY DEF Objects

Good(o) ==
  /\ o \in Objects
  /\ Gapped(o.secs)
  /\ o.len = Cardinality(Points(o))

SecPoints(s) == s.start .. End(s) - 1

LEMMA SecPointsFacts ==
  ASSUME NEW s \in Sections
  PROVE  /\ \A p : p \in SecPoints(s) <=> p \in Int /\ Within(s, p)
         /\ SecPoints(s) \subseteq 0 .. N - 1 /\ s.start \in SecPoints(s)
         /\ IsFiniteSet(SecPoints(s)) /\ Cardinality(SecPoints(s)) = s.len
  <1>1. /\ s.start \in Nat /\ s.len \in Nat \ {0} /\ End(s) = s.start + s.len /\ End(s) <= N
        /\ N \in Nat /\ End(s) \in Nat
    BY SectionFacts, PointsAssumption DEF End
  <1>2. /\ IsFiniteSet(s.start .. End(s) - 1)
        /\ Cardinality(s.start .. End(s) - 1)
             = IF s.start > End(s) - 1 THEN 0 ELSE End(s) - 1 - s.start + 1
    <2>1. s.start \in Int /\ End(s) - 1 \in Int
      BY <1>1
    <2> QED
      BY <2>1, FS_Interval
  <1>3. Cardinality(SecPoints(s)) = s.len
    BY <1>1, <1>2 DEF SecPoints
  <1> QED
    BY SMTT(30), <1>1, <1>2, <1>3 DEF SecPoints, Within

\* A list's points are integers, below N.
LEMMA GoodFacts ==
  ASSUME NEW o, Good(o)
  PROVE  /\ o.secs \in Seq(Sections) /\ Gapped(o.secs) /\ o.len \in Nat /\ o.ok
         /\ \A p : p \in Points(o) <=> p \in Int /\ In(o.secs, p)
         /\ Points(o) \subseteq 0 .. N - 1
         /\ IsFiniteSet(Points(o)) /\ Cardinality(Points(o)) = o.len
  BY PointsFacts DEF Good, Objects

\* plus_section adds the points of a section the list has no point of, and its
\* assertions hold.
LEMMA PlusSection ==
  ASSUME NEW o, Good(o), NEW s \in Sections, Points(o) \cap SecPoints(s) = {}
  PROVE  /\ Good(plus_section(o, s))
         /\ Points(plus_section(o, s)) = Points(o) \cup SecPoints(s)
         /\ plus_section(o, s).len = o.len + s.len
  <1> DEFINE n == Len(o.secs)
             found == find_pos(o.secs, s.start)
             grown == add_section(o, s, found.at)
  <1>1. /\ o.secs \in Seq(Sections) /\ Gapped(o.secs) /\ o.len \in Nat /\ o.ok
        /\ \A p : p \in Points(o) <=> p \in Int /\ In(o.secs, p)
        /\ IsFiniteSet(Points(o)) /\ Cardinality(Points(o)) = o.len
    BY GoodFacts
  <1>2. /\ s.start \in Nat /\ s.len \in Nat \ {0} /\ End(s) \in Nat /\ s.start < End(s)
        /\ s.start \in SecPoints(s)
        /\ \A p : p \in SecPoints(s) <=> p \in Int /\ Within(s, p)
        /\ IsFiniteSet(SecPoints(s)) /\ Cardinality(SecPoints(s)) = s.len
    BY SectionFacts, SecPointsFacts
  <1>3. n \in Nat /\ \A i \in 1 .. n : o.secs[i].start \in Nat /\ End(o.secs[i]) \in Nat
                                       /\ o.secs[i].start < End(o.secs[i])
    BY <1>1, ListFacts
  <1>4. ~In(o.secs, s.start)
    BY <1>1, <1>2
  <1>5. Found(o.secs, s.start, found)
    BY <1>1, <1>2, FindPos
  <1>6. /\ ~found.in /\ found.in \in BOOLEAN /\ found.at \in 1 .. n + 1
        /\ \A i \in 1 .. n : i < found.at => s.start < o.secs[i].start
        /\ \A i \in 1 .. n : i >= found.at => End(o.secs[i]) <= s.start
    BY <1>4, <1>5 DEF Found
  <1> HIDE DEF found
  <1>7. ASSUME NEW i \in 1 .. n, i < found.at PROVE End(s) <= o.secs[i].start
    <2>1. In(o.secs, o.secs[i].start)
      BY <1>3 DEF In, Within
    <2>2. ~Within(s, o.secs[i].start)
      BY <1>1, <1>2, <1>3, <2>1
    <2> QED
      BY SMTT(30), <1>2, <1>3, <1>6, <1>7, <2>2 DEF Within
  <1>8. PICK secs \in Seq(Sections) :
          /\ grown = List(secs, o.len + s.len, TRUE)
          /\ Gapped(secs)
          /\ \A p \in Int : In(secs, p) <=> In(o.secs, p) \/ Within(s, p)
    <2>1. /\ \A i \in 1 .. Len(o.secs) : i < found.at => End(s) <= o.secs[i].start
          /\ \A i \in 1 .. Len(o.secs) : i >= found.at => End(o.secs[i]) <= s.start
          /\ found.at \in 1 .. Len(o.secs) + 1
      BY <1>6, <1>7
    <2> QED
      BY <1>1, <2>1, AddSection
  <1>10. /\ grown \in Objects
         /\ grown.secs = secs /\ grown.len = o.len + s.len /\ grown.ok
    <2>1. o.len + s.len \in Nat
      BY <1>1, <1>2
    <2> HIDE DEF grown
    <2>2. grown = List(secs, o.len + s.len, TRUE)
      BY <1>8
    <2>3. grown \in Objects
      BY <2>1, <2>2, ListObject
    <2>4. grown.secs = secs /\ grown.len = o.len + s.len
      BY <2>2 DEF List
    <2> QED
      BY <2>3, <2>4, ObjectOk
  <1>11. plus_section(o, s) = grown
    <2>1. check_sections(grown.secs)
      BY <1>8, <1>10, GappedIffChecked
    <2>2. plus_section(o, s) = List(grown.secs, grown.len, grown.ok /\ check_sections(grown.secs))
      BY <1>6 DEF plus_section, found, Asserted
    <2> HIDE DEF grown
    <2>3. (grown.ok /\ check_sections(grown.secs)) = TRUE
      BY <1>10, <2>1
    <2> QED
      BY <1>10, <2>2, <2>3, ObjectIsList
  <1> HIDE DEF grown
  <1>12. Points(grown) = Points(o) \cup SecPoints(s)
    <2>1. \A p : p \in Points(grown) <=> p \in Int /\ In(secs, p)
      BY <1>10, PointsFacts
    <2> QED
      BY <1>1, <1>2, <1>8, <2>1
  <1>13. Cardinality(Points(grown)) = o.len + s.len
    <2>1. Cardinality(Points(o) \cup SecPoints(s))
            = Cardinality(Points(o)) + Cardinality(SecPoints(s))
              - Cardinality(Points(o) \cap SecPoints(s))
      BY <1>1, <1>2, FS_Union
    <2>2. Cardinality(Points(o) \cap SecPoints(s)) = 0
      BY FS_EmptySet
    <2> QED
      BY <1>1, <1>2, <1>12, <2>1, <2>2
  <1> QED
    BY <1>8, <1>10, <1>11, <1>12, <1>13 DEF Good

\* A stretch of points of the list lies in one section of it.
LEMMA Stretch ==
  ASSUME NEW o, Good(o), NEW s \in Sections, SecPoints(s) \subseteq Points(o),
         NEW i \in 1 .. Len(o.secs), Within(o.secs[i], s.start)
  PROVE  End(s) <= End(o.secs[i])
  <1>1. /\ o.secs \in Seq(Sections) /\ Gapped(o.secs)
        /\ \A p : p \in Points(o) <=> p \in Int /\ In(o.secs, p)
    BY GoodFacts
  <1>2. /\ s.start \in Nat /\ End(s) \in Nat /\ s.start < End(s)
        /\ \A p : p \in SecPoints(s) <=> p \in Int /\ Within(s, p)
    BY SectionFacts, SecPointsFacts
  <1>3. \A k \in 1 .. Len(o.secs) : o.secs[k].start \in Nat /\ End(o.secs[k]) \in Nat
                                    /\ o.secs[k].start < End(o.secs[k])
    BY <1>1, ListFacts
  <1>4. Len(o.secs) \in Nat
    BY <1>1, ListFacts
  <1> SUFFICES ASSUME End(o.secs[i]) < End(s) PROVE FALSE
    BY <1>2, <1>3
  <1> DEFINE q == End(o.secs[i])
  <1>5. Within(s, q)
    BY <1>2, <1>3 DEF Within
  <1>6. In(o.secs, q)
    BY <1>1, <1>2, <1>3, <1>5
  <1>7. PICK k \in 1 .. Len(o.secs) : Within(o.secs[k], q)
    BY <1>6 DEF In
  <1>8. k = i \/ i < k \/ k < i
    BY <1>4
  <1> QED
    BY <1>1, <1>3, <1>7, <1>8 DEF Within, Gapped

LEMMA OneAfterOther ==
  ASSUME NEW x \in Sections, NEW y \in Sections
  PROVE  <<x>> \o <<y>> = <<x, y>>
  <1> DEFINE one == <<x>>
             two == <<y>>
             both == <<x, y>>
             cat == one \o two
  <1>1. /\ one \in Seq(Sections) /\ Len(one) = 1 /\ one[1] = x
        /\ two \in Seq(Sections) /\ Len(two) = 1 /\ two[1] = y
        /\ both \in Seq(Sections) /\ Len(both) = 2 /\ both[1] = x /\ both[2] = y
    OBVIOUS
  <1> HIDE DEF one, two, both
  <1>2. /\ cat \in Seq(Sections) /\ Len(cat) = Len(one) + Len(two)
        /\ \A i \in 1 .. Len(one) + Len(two) :
             cat[i] = IF i <= Len(one) THEN one[i] ELSE two[i - Len(one)]
    BY <1>1, ConcatProperties
  <1> HIDE DEF cat
  <1>3. /\ Len(cat) = 2
        /\ \A i \in 1 .. 2 : cat[i] = IF i <= 1 THEN one[i] ELSE two[i - 1]
    BY <1>1, <1>2
  <1>4. cat[1] = x /\ cat[2] = y
    BY <1>1, <1>3
  <1>5. \A i \in 1 .. 2 : i = 1 \/ i = 2
    OBVIOUS
  <1>6. \A i \in 1 .. Len(cat) : cat[i] = both[i]
    BY <1>1, <1>3, <1>4, <1>5
  <1>7. Len(cat) = Len(both)
    BY <1>1, <1>3
  <1>8. cat = both
    BY <1>1, <1>2, <1>6, <1>7, SeqEqual
  <1> QED
    BY <1>8 DEF cat, one, two, both

\* What is left of t without s, the upper part first.
LEMMA SplitFacts ==
  ASSUME NEW t \in Sections, NEW s \in Sections, t.start <= s.start, End(s) <= End(t)
  PROVE  \E mid \in Seq(Sections) :
           /\ mid = Reverse(split(t, s)) /\ Gapped(mid)
           /\ \A p \in Int : In(mid, p) <=> Within(t, p) /\ ~Within(s, p)
           /\ \A j \in 1 .. Len(mid) : t.start <= mid[j].start /\ End(mid[j]) <= End(t)
  <1> DEFINE low == Sec(t.start, s.start - t.start)
             up == Sec(End(s), End(t) - End(s))
  <1>1. /\ t.start \in Nat /\ End(t) \in Nat /\ End(t) <= N
        /\ s.start \in Nat /\ End(s) \in Nat /\ s.start < End(s) /\ N \in Nat
    BY SectionFacts, PointsAssumption
  <1>2. s.start > t.start =>
          low \in Sections /\ low.start = t.start /\ End(low) = s.start
    <2>1. low.start = t.start /\ End(low) = t.start + (s.start - t.start)
      BY SecFields
    <2>2. s.start > t.start =>
            s.start - t.start \in Nat \ {0} /\ t.start + (s.start - t.start) <= N
      BY <1>1
    <2>3. t.start + (s.start - t.start) = s.start
      BY <1>1
    <2> QED
      BY <1>1, <2>1, <2>2, <2>3, SectionFacts
  <1>3. End(t) > End(s) =>
          up \in Sections /\ up.start = End(s) /\ End(up) = End(t)
    <2>1. up.start = End(s) /\ End(up) = End(s) + (End(t) - End(s))
      BY SecFields
    <2>2. End(t) > End(s) =>
            End(t) - End(s) \in Nat \ {0} /\ End(s) + (End(t) - End(s)) <= N
      BY <1>1
    <2>3. End(s) + (End(t) - End(s)) = End(t)
      BY <1>1
    <2> QED
      BY <1>1, <2>1, <2>2, <2>3, SectionFacts
  <1>4. split(t, s) = (IF s.start > t.start THEN <<low>> ELSE <<>>)
                        \o (IF End(t) > End(s) THEN <<up>> ELSE <<>>)
    BY <1>1 DEF split, Part
  <1> HIDE DEF low, up
  <1>5. CASE ~(s.start > t.start) /\ ~(End(t) > End(s))
    <2> DEFINE mid == <<>>
    <2>1. mid = Reverse(split(t, s))
      BY <1>4, <1>5 DEF Reverse
    <2>2. mid \in Seq(Sections) /\ Len(mid) = 0
      OBVIOUS
    <2> HIDE DEF mid
    <2>3. Gapped(mid) /\ \A p : ~In(mid, p)
      BY <2>2 DEF Gapped, In
    <2>4. \A p \in Int : Within(t, p) => Within(s, p)
      BY <1>1, <1>5 DEF Within
    <2>5. \A j \in 1 .. Len(mid) : t.start <= mid[j].start /\ End(mid[j]) <= End(t)
      BY <2>2
    <2>6. mid \in Seq(Sections)
      BY <2>2
    <2> QED
      BY <2>1, <2>3, <2>4, <2>5, <2>6, Zenon
  <1>6. CASE s.start > t.start /\ ~(End(t) > End(s))
    <2>1. Reverse(split(t, s)) = <<low>>
      BY <1>4, <1>6 DEF Reverse
    <2>2. /\ <<low>> \in Seq(Sections) /\ Len(<<low>>) = 1 /\ <<low>>[1] = low
          /\ Gapped(<<low>>) /\ \A p : In(<<low>>, p) <=> Within(low, p)
      BY <1>2, <1>6, OneSection
    <2>3. \A p \in Int : Within(low, p) <=> Within(t, p) /\ ~Within(s, p)
      BY <1>1, <1>2, <1>6 DEF Within
    <2>4. t.start <= low.start /\ End(low) <= End(t)
      BY <1>1, <1>2, <1>6
    <2>5. \A j \in 1 .. 1 : j = 1
      OBVIOUS
    <2> DEFINE mid == <<low>>
    <2>6. mid[1] = low /\ Len(mid) = 1
      OBVIOUS
    <2> HIDE DEF mid
    <2>7. \A j \in 1 .. Len(mid) : t.start <= mid[j].start /\ End(mid[j]) <= End(t)
      BY <2>4, <2>5, <2>6
    <2> QED
      BY <2>1, <2>2, <2>3, <2>7 DEF mid
  <1>7. CASE ~(s.start > t.start) /\ End(t) > End(s)
    <2>1. Reverse(split(t, s)) = <<up>>
      BY <1>4, <1>7 DEF Reverse
    <2>2. /\ <<up>> \in Seq(Sections) /\ Len(<<up>>) = 1 /\ <<up>>[1] = up
          /\ Gapped(<<up>>) /\ \A p : In(<<up>>, p) <=> Within(up, p)
      BY <1>3, <1>7, OneSection
    <2>3. \A p \in Int : Within(up, p) <=> Within(t, p) /\ ~Within(s, p)
      BY <1>1, <1>3, <1>7 DEF Within
    <2>4. t.start <= up.start /\ End(up) <= End(t)
      BY <1>1, <1>3, <1>7
    <2>5. \A j \in 1 .. 1 : j = 1
      OBVIOUS
    <2> DEFINE mid == <<up>>
    <2>6. mid[1] = up /\ Len(mid) = 1
      OBVIOUS
    <2> HIDE DEF mid
    <2>7. \A j \in 1 .. Len(mid) : t.start <= mid[j].start /\ End(mid[j]) <= End(t)
      BY <2>4, <2>5, <2>6
    <2> QED
      BY <2>1, <2>2, <2>3, <2>7 DEF mid
  <1>8. CASE s.start > t.start /\ End(t) > End(s)
    <2>1. Reverse(split(t, s)) = <<up, low>>
      <3>1. split(t, s) = <<low>> \o <<up>>
        BY <1>4, <1>8
      <3>2. <<low>> \o <<up>> = <<low, up>>
        BY <1>2, <1>3, <1>8, OneAfterOther
      <3>3. Reverse(<<low, up>>) = <<up, low>>
        BY DEF Reverse
      <3> QED
        BY <3>1, <3>2, <3>3
    <2> DEFINE mid == <<up, low>>
    <2>2. mid \in Seq(Sections) /\ Len(mid) = 2 /\ mid[1] = up /\ mid[2] = low
      BY <1>2, <1>3, <1>8
    <2>3. \A j \in 1 .. 2 : j = 1 \/ j = 2
      OBVIOUS
    <2> HIDE DEF mid
    <2>4. Gapped(mid)
      BY <1>1, <1>2, <1>3, <1>8, <2>2, <2>3 DEF Gapped
    <2>5. \A p \in Int : In(mid, p) <=> Within(up, p) \/ Within(low, p)
      BY <2>2, <2>3 DEF In
    <2>6. \A p \in Int : Within(up, p) \/ Within(low, p) <=> Within(t, p) /\ ~Within(s, p)
      BY <1>1, <1>2, <1>3, <1>8 DEF Within
    <2>7. \A j \in 1 .. Len(mid) : t.start <= mid[j].start /\ End(mid[j]) <= End(t)
      <3>1. \A j \in 1 .. Len(mid) : mid[j] = up \/ mid[j] = low
        BY <2>2, <2>3
      <3> QED
        BY <1>1, <1>2, <1>3, <1>8, <3>1
    <2> QED
      BY <2>1, <2>2, <2>4, <2>5, <2>6, <2>7 DEF mid
  <1> QED
    BY <1>5, <1>6, <1>7, <1>8

\* minus_section takes the points of a part of the list away, and its assertion
\* holds.
LEMMA MinusSection ==
  ASSUME NEW o, Good(o), NEW s \in Sections, SecPoints(s) \subseteq Points(o)
  PROVE  /\ Good(minus_section(o, s))
         /\ Points(minus_section(o, s)) = Points(o) \ SecPoints(s)
  <1> DEFINE n == Len(o.secs)
             found == find_pos(o.secs, s.start)
             at == found.at
             hit == o.secs[at]
             rest == minus_section(o, s)
  <1>1. /\ o.secs \in Seq(Sections) /\ Gapped(o.secs) /\ o.len \in Nat /\ o \in Objects
        /\ \A p : p \in Points(o) <=> p \in Int /\ In(o.secs, p)
        /\ IsFiniteSet(Points(o)) /\ Cardinality(Points(o)) = o.len
    BY GoodFacts DEF Good
  <1>2. /\ s.start \in Nat /\ s.len \in Nat \ {0} /\ End(s) \in Nat /\ End(s) = s.start + s.len
        /\ s.start \in SecPoints(s)
        /\ \A p : p \in SecPoints(s) <=> p \in Int /\ Within(s, p)
        /\ IsFiniteSet(SecPoints(s)) /\ Cardinality(SecPoints(s)) = s.len
    BY SectionFacts, SecPointsFacts DEF End
  <1>3. In(o.secs, s.start)
    BY <1>1, <1>2
  <1>4. Found(o.secs, s.start, found)
    BY <1>1, <1>2, FindPos
  <1>5. found.in /\ at \in 1 .. n /\ Within(hit, s.start)
    BY <1>3, <1>4 DEF Found
  <1> HIDE DEF found
  <1>6. n \in Nat /\ at \in Nat /\ hit \in Sections
    BY <1>1, <1>5, ListFacts
  <1>7. hit.start <= s.start /\ End(s) <= End(hit)
    BY <1>1, <1>5, Stretch DEF Within
  <1>8. s.len <= hit.len
    <2>1. hit.start \in Nat /\ hit.len \in Nat /\ End(hit) = hit.start + hit.len
      BY <1>6, SectionFacts DEF End
    <2> HIDE DEF hit
    <2> QED
      BY <1>2, <1>7, <2>1
  <1>9. PICK mid \in Seq(Sections) :
          /\ mid = Reverse(split(hit, s)) /\ Gapped(mid)
          /\ \A p \in Int : In(mid, p) <=> Within(hit, p) /\ ~Within(s, p)
          /\ \A j \in 1 .. Len(mid) : hit.start <= mid[j].start /\ End(mid[j]) <= End(hit)
    BY <1>6, <1>7, SplitFacts
  <1> DEFINE left == Spliced(o.secs, at - 1, mid, at + 1)
  <1>10. rest = List(left, o.len - s.len, o.ok)
    <2>1. ~(hit.len < s.len)
      BY SMTT(30), <1>2, <1>6, <1>8, SectionFacts
    <2>2. rest = List(SubSeq(o.secs, 1, at - 1) \o Reverse(split(hit, s))
                        \o SubSeq(o.secs, at + 1, n), o.len - s.len, o.ok)
      BY <1>5, <2>1 DEF minus_section, found
    <2> QED
      BY <1>9, <2>2 DEF Spliced
  <1>11. /\ left \in Seq(Sections) /\ Gapped(left)
         /\ \A p : In(left, p)
              <=> \/ In(mid, p)
                  \/ \E i \in 1 .. n : (i <= at - 1 \/ i >= at + 1) /\ Within(o.secs[i], p)
    <2>1. at - 1 \in 0 .. n /\ at + 1 \in at .. n + 1 /\ at - 1 + 1 = at
      BY SMTT(30), <1>5, <1>6
    <2>2. \A i \in 1 .. n : o.secs[i].start \in Nat /\ End(o.secs[i]) \in Nat
      BY <1>1, ListFacts
    <2>3. \A j \in 1 .. Len(mid) : mid[j].start \in Nat /\ End(mid[j]) \in Nat
      BY ListFacts
    <2>4. ASSUME NEW i \in 1 .. at - 1, NEW j \in 1 .. Len(mid)
          PROVE  End(mid[j]) < o.secs[i].start
      <3>1. i \in 1 .. n /\ i < at
        BY <1>5, <1>6
      <3>2. End(hit) < o.secs[i].start
        BY <1>1, <1>5, <3>1 DEF Gapped
      <3> QED
        BY SMTT(30), <1>5, <1>9, <2>2, <2>3, <3>1, <3>2
    <2>5. ASSUME NEW i \in at + 1 .. n, NEW j \in 1 .. Len(mid)
          PROVE  End(o.secs[i]) < mid[j].start
      <3>1. i \in 1 .. n /\ at < i
        BY <1>5, <1>6
      <3>2. End(o.secs[i]) < hit.start
        BY <1>1, <1>5, <3>1 DEF Gapped
      <3> QED
        BY SMTT(30), <1>5, <1>9, <2>2, <2>3, <3>1, <3>2
    <2>6. at + 1 \in at - 1 + 1 .. Len(o.secs) + 1
      BY <1>6, <2>1
    <2> HIDE DEF hit, at
    <2> QED
      BY <1>1, <1>9, <2>1, <2>4, <2>5, <2>6, SpliceGapped
  <1> HIDE DEF left, rest
  <1>12. ASSUME NEW p \in Int PROVE In(left, p) <=> In(o.secs, p) /\ ~Within(s, p)
    <2>1. Within(s, p) => Within(hit, p)
      BY SMTT(30), <1>2, <1>6, <1>7, SectionFacts DEF Within
    <2>2. \A i \in 1 .. n : Within(o.secs[i], p) /\ Within(hit, p) => i = at
      BY <1>1, <1>5, OneHolds
    <2>3. \A i \in 1 .. n : i = at \/ i <= at - 1 \/ i >= at + 1
      BY <1>6
    <2>4. ~(at <= at - 1) /\ ~(at >= at + 1)
      BY <1>6
    <2> QED
      BY <1>5, <1>9, <1>11, <2>1, <2>2, <2>3, <2>4 DEF In
  <1>13. rest.secs = left /\ rest.len = o.len - s.len /\ rest = List(left, o.len - s.len, TRUE)
    <2>1. o.ok = TRUE
      BY <1>1 DEF Objects
    <2>2. rest = List(left, o.len - s.len, TRUE)
      BY <1>10, <2>1
    <2> QED
      BY <2>2 DEF List
  <1>14. Points(rest) = Points(o) \ SecPoints(s)
    <2>1. \A p : p \in Points(rest) <=> p \in Int /\ In(left, p)
      BY <1>11, <1>13, PointsFacts
    <2> QED
      BY <1>1, <1>2, <1>12, <2>1
  <1>15. Cardinality(Points(rest)) = o.len - s.len /\ o.len - s.len \in Nat
    <2>1. Points(o) \cap SecPoints(s) = SecPoints(s)
      OBVIOUS
    <2>2. Cardinality(Points(o) \ SecPoints(s)) = Cardinality(Points(o)) - Cardinality(Points(o) \cap SecPoints(s))
      BY <1>1, FS_Difference
    <2>3. Cardinality(SecPoints(s)) <= Cardinality(Points(o))
      BY <1>1, FS_Subset
    <2>4. Cardinality(Points(o) \ SecPoints(s)) = o.len - s.len
      BY <1>1, <1>2, <2>1, <2>2
    <2>5. s.len <= o.len
      BY <1>1, <1>2, <2>3
    <2> QED
      BY <1>1, <1>2, <1>14, <2>4, <2>5
  <1>16. rest \in Objects
    BY <1>11, <1>13, <1>15, ListObject
  <1> QED
    BY <1>11, <1>13, <1>14, <1>15, <1>16 DEF Good, rest

-------------------------------------------------------------------------------
(* The loops over the sections of a list.                                  *)

\* plus_sections adds one section after the other.
LEMMA PlusLoop ==
  ASSUME NEW o, NEW secs, Len(secs) \in Nat
  PROVE  \E upto : /\ plus_sections(o, secs) = upto[Len(secs)]
                   /\ upto[0] = o
                   /\ \A i \in 1 .. Len(secs) : upto[i] = plus_section(upto[i - 1], secs[i])
  <1> DEFINE n == Len(secs)
             Upto(f, k) == /\ f[0] = o
                           /\ \A i \in 1 .. k : f[i] = plus_section(f[i - 1], secs[i])
             Exists(k) == \E f : Upto(f, k)
             S == {k \in Nat : Exists(k)}
  <1>1. 0 \in S
    <2>1. Upto([i \in {0} |-> o], 0)
      OBVIOUS
    <2> QED
      BY <2>1
  <1>2. ASSUME NEW k \in Nat, k \in S PROVE k + 1 \in S
    <2> PICK f : Upto(f, k)
      BY <1>2
    <2> DEFINE g == [i \in 0 .. k + 1 |-> IF i <= k THEN f[i]
                                         ELSE plus_section(f[k], secs[k + 1])]
    <2>1. /\ \A i \in 0 .. k : g[i] = f[i]
          /\ g[k + 1] = plus_section(f[k], secs[k + 1])
      OBVIOUS
    <2> HIDE DEF g
    <2>2. \A i \in 1 .. k + 1 : i - 1 \in 0 .. k /\ (i \in 1 .. k \/ i = k + 1)
      OBVIOUS
    <2>3. 0 \in 0 .. k /\ \A i \in 1 .. k : i \in 0 .. k
      OBVIOUS
    <2>4. k + 1 - 1 = k /\ k \in 0 .. k
      OBVIOUS
    <2>5. Upto(g, k + 1)
      <3>1. g[0] = o
        BY <2>1, <2>3
      <3>2. ASSUME NEW i \in 1 .. k PROVE g[i] = plus_section(g[i - 1], secs[i])
        <4>1. g[i] = f[i] /\ g[i - 1] = f[i - 1]
          BY <2>1, <2>2, <2>3
        <4> QED
          BY <4>1
      <3>3. g[k + 1] = plus_section(g[k + 1 - 1], secs[k + 1])
        BY <2>1, <2>4
      <3>4. ASSUME NEW i \in 1 .. k + 1 PROVE g[i] = plus_section(g[i - 1], secs[i])
        <4>1. CASE i \in 1 .. k
          BY <3>2, <4>1
        <4>2. CASE i = k + 1
          BY <3>3, <4>2
        <4> QED
          BY <2>2, <4>1, <4>2
      <3> QED
        BY <3>1, <3>4
    <2>6. Exists(k + 1)
      BY <2>5
    <2> HIDE DEF Exists
    <2> QED
      BY <2>6
  <1>3. n \in S
    <2> HIDE DEF S
    <2> QED
      BY <1>1, <1>2, Induct
  <1>4. PICK f : Upto(f, n)
    BY <1>3
  <1> DEFINE h == [i \in 0 .. n |-> IF i = 0 THEN o ELSE plus_section(f[i - 1], secs[i])]
  <1>5. \A i \in 0 .. n : h[i] = f[i]
    BY <1>4
  <1>6. h = [i \in 0 .. n |-> IF i = 0 THEN o ELSE plus_section(h[i - 1], secs[i])]
    <2>1. \A i \in 0 .. n : i # 0 => i - 1 \in 0 .. n
      OBVIOUS
    <2>2. \A i \in 0 .. n : i # 0 => h[i - 1] = f[i - 1]
      BY <1>5, <2>1
    <2> QED
      BY <2>2
  <1> HIDE DEF h
  <1>7. \E upto : upto = [i \in 0 .. Len(secs) |->
                           IF i = 0 THEN o ELSE plus_section(upto[i - 1], secs[i])]
    BY <1>6
  <1> DEFINE loop == CHOOSE upto : upto = [i \in 0 .. Len(secs) |->
                       IF i = 0 THEN o ELSE plus_section(upto[i - 1], secs[i])]
  <1>8. loop = [i \in 0 .. Len(secs) |->
                  IF i = 0 THEN o ELSE plus_section(loop[i - 1], secs[i])]
    BY <1>7
  <1>9. plus_sections(o, secs) = loop[Len(secs)]
    BY DEF plus_sections
  <1> HIDE DEF loop
  <1>10. loop[0] = o /\ \A i \in 1 .. Len(secs) : loop[i] = plus_section(loop[i - 1], secs[i])
    <2>1. 0 \in 0 .. Len(secs)
      OBVIOUS
    <2>2. \A i \in 1 .. Len(secs) : i \in 0 .. Len(secs) /\ i # 0
      OBVIOUS
    <2> QED
      BY <1>8, <2>1, <2>2, Zenon
  <1> QED
    BY <1>9, <1>10

\* minus_sections takes one section after the other away.
LEMMA MinusLoop ==
  ASSUME NEW o, NEW secs, Len(secs) \in Nat
  PROVE  \E upto : /\ minus_sections(o, secs) = upto[Len(secs)]
                   /\ upto[0] = o
                   /\ \A i \in 1 .. Len(secs) : upto[i] = minus_section(upto[i - 1], secs[i])
  <1> DEFINE n == Len(secs)
             Upto(f, k) == /\ f[0] = o
                           /\ \A i \in 1 .. k : f[i] = minus_section(f[i - 1], secs[i])
             Exists(k) == \E f : Upto(f, k)
             S == {k \in Nat : Exists(k)}
  <1>1. 0 \in S
    <2>1. Upto([i \in {0} |-> o], 0)
      OBVIOUS
    <2> QED
      BY <2>1
  <1>2. ASSUME NEW k \in Nat, k \in S PROVE k + 1 \in S
    <2> PICK f : Upto(f, k)
      BY <1>2
    <2> DEFINE g == [i \in 0 .. k + 1 |-> IF i <= k THEN f[i]
                                         ELSE minus_section(f[k], secs[k + 1])]
    <2>1. /\ \A i \in 0 .. k : g[i] = f[i]
          /\ g[k + 1] = minus_section(f[k], secs[k + 1])
      OBVIOUS
    <2> HIDE DEF g
    <2>2. \A i \in 1 .. k + 1 : i - 1 \in 0 .. k /\ (i \in 1 .. k \/ i = k + 1)
      OBVIOUS
    <2>3. 0 \in 0 .. k /\ \A i \in 1 .. k : i \in 0 .. k
      OBVIOUS
    <2>4. k + 1 - 1 = k /\ k \in 0 .. k
      OBVIOUS
    <2>5. Upto(g, k + 1)
      <3>1. g[0] = o
        BY <2>1, <2>3
      <3>2. ASSUME NEW i \in 1 .. k PROVE g[i] = minus_section(g[i - 1], secs[i])
        <4>1. g[i] = f[i] /\ g[i - 1] = f[i - 1]
          BY <2>1, <2>2, <2>3
        <4> QED
          BY <4>1
      <3>3. g[k + 1] = minus_section(g[k + 1 - 1], secs[k + 1])
        BY <2>1, <2>4
      <3>4. ASSUME NEW i \in 1 .. k + 1 PROVE g[i] = minus_section(g[i - 1], secs[i])
        <4>1. CASE i \in 1 .. k
          BY <3>2, <4>1
        <4>2. CASE i = k + 1
          BY <3>3, <4>2
        <4> QED
          BY <2>2, <4>1, <4>2
      <3> QED
        BY <3>1, <3>4
    <2>6. Exists(k + 1)
      BY <2>5
    <2> HIDE DEF Exists
    <2> QED
      BY <2>6
  <1>3. n \in S
    <2> HIDE DEF S
    <2> QED
      BY <1>1, <1>2, Induct
  <1>4. PICK f : Upto(f, n)
    BY <1>3
  <1> DEFINE h == [i \in 0 .. n |-> IF i = 0 THEN o ELSE minus_section(f[i - 1], secs[i])]
  <1>5. \A i \in 0 .. n : h[i] = f[i]
    BY <1>4
  <1>6. h = [i \in 0 .. n |-> IF i = 0 THEN o ELSE minus_section(h[i - 1], secs[i])]
    <2>1. \A i \in 0 .. n : i # 0 => i - 1 \in 0 .. n
      OBVIOUS
    <2>2. \A i \in 0 .. n : i # 0 => h[i - 1] = f[i - 1]
      BY <1>5, <2>1
    <2> QED
      BY <2>2
  <1> HIDE DEF h
  <1>7. \E upto : upto = [i \in 0 .. Len(secs) |->
                           IF i = 0 THEN o ELSE minus_section(upto[i - 1], secs[i])]
    BY <1>6
  <1> DEFINE loop == CHOOSE upto : upto = [i \in 0 .. Len(secs) |->
                       IF i = 0 THEN o ELSE minus_section(upto[i - 1], secs[i])]
  <1>8. loop = [i \in 0 .. Len(secs) |->
                  IF i = 0 THEN o ELSE minus_section(loop[i - 1], secs[i])]
    BY <1>7
  <1>9. minus_sections(o, secs) = loop[Len(secs)]
    BY DEF minus_sections
  <1> HIDE DEF loop
  <1>10. loop[0] = o /\ \A i \in 1 .. Len(secs) : loop[i] = minus_section(loop[i - 1], secs[i])
    <2>1. 0 \in 0 .. Len(secs)
      OBVIOUS
    <2>2. \A i \in 1 .. Len(secs) : i \in 0 .. Len(secs) /\ i # 0
      OBVIOUS
    <2> QED
      BY <1>8, <2>1, <2>2, Zenon
  <1> QED
    BY <1>9, <1>10

\* The points of some sections together.
Covered(secs, p) == \E i \in 1 .. Len(secs) : p \in SecPoints(secs[i])

\* No two sections of the list share a point.
Disjoint(secs) ==
  \A i, j \in 1 .. Len(secs) : i # j => SecPoints(secs[i]) \cap SecPoints(secs[j]) = {}

\* Sections that share no point with each other or with the list are all added.
LEMMA PlusEach ==
  ASSUME NEW o, Good(o), NEW secs \in Seq(Sections), Disjoint(secs),
         \A p \in Points(o) : ~Covered(secs, p),
         NEW upto, upto[0] = o,
         \A i \in 1 .. Len(secs) : upto[i] = plus_section(upto[i - 1], secs[i])
  PROVE  /\ Good(upto[Len(secs)])
         /\ \A p : p \in Points(upto[Len(secs)]) <=> p \in Points(o) \/ Covered(secs, p)
  <1> DEFINE n == Len(secs)
  <1>0. n \in Nat /\ \A i \in 1 .. n : secs[i] \in Sections
    BY ListFacts
  <1>1. upto[0] = o /\ \A i \in 1 .. n : upto[i] = plus_section(upto[i - 1], secs[i])
    OBVIOUS
  <1> DEFINE So(k) == /\ Good(upto[k])
                      /\ \A p : p \in Points(upto[k])
                           <=> p \in Points(o) \/ \E i \in 1 .. k : p \in SecPoints(secs[i])
             S == {k \in Nat : k <= n => So(k)}
  <1>2. 0 \in S
    BY <1>1
  <1>3. ASSUME NEW k \in Nat, k \in S PROVE k + 1 \in S
    <2>1. ASSUME k + 1 <= n PROVE So(k + 1)
      <3>1. k + 1 \in 1 .. n /\ k <= n /\ k + 1 - 1 = k
        BY <1>0, <2>1
      <3>2. So(k)
        BY <1>3, <3>1
      <3>3. ASSUME NEW p, p \in Points(upto[k]), p \in SecPoints(secs[k + 1]) PROVE FALSE
        <4>1. CASE p \in Points(o)
          BY <3>1, <3>3, <4>1 DEF Covered
        <4>2. CASE \E i \in 1 .. k : p \in SecPoints(secs[i])
          <5> PICK i \in 1 .. k : p \in SecPoints(secs[i])
            BY <4>2
          <5>1. i \in 1 .. n /\ i # k + 1
            BY <3>1, <1>0
          <5> QED
            BY <3>1, <3>3, <5>1 DEF Disjoint
        <4> QED
          BY <3>2, <3>3, <4>1, <4>2
      <3>4. Points(upto[k]) \cap SecPoints(secs[k + 1]) = {}
        BY <3>3
      <3>5. upto[k + 1] = plus_section(upto[k], secs[k + 1])
        BY <1>1, <3>1
      <3>6. /\ Good(upto[k + 1])
            /\ Points(upto[k + 1]) = Points(upto[k]) \cup SecPoints(secs[k + 1])
        BY <1>0, <3>1, <3>2, <3>4, <3>5, PlusSection
      <3>7. \A i : i \in 1 .. k + 1 <=> i \in 1 .. k \/ i = k + 1
        OBVIOUS
      <3> QED
        BY <3>2, <3>6, <3>7
    <2> QED
      BY <2>1
  <1>4. So(n)
    <2> HIDE DEF S, So
    <2>1. n \in S
      BY <1>0, <1>2, <1>3, Induct
    <2> QED
      BY <1>0, <2>1 DEF S
  <1> QED
    BY <1>1, <1>4 DEF Covered

LEMMA PlusSections ==
  ASSUME NEW o, Good(o), NEW secs \in Seq(Sections), Disjoint(secs),
         \A p \in Points(o) : ~Covered(secs, p)
  PROVE  /\ Good(plus_sections(o, secs))
         /\ \A p : p \in Points(plus_sections(o, secs)) <=> p \in Points(o) \/ Covered(secs, p)
  <1>1. Len(secs) \in Nat
    BY ListFacts
  <1>2. PICK upto : /\ plus_sections(o, secs) = upto[Len(secs)]
                    /\ upto[0] = o
                    /\ \A i \in 1 .. Len(secs) : upto[i] = plus_section(upto[i - 1], secs[i])
    BY <1>1, PlusLoop
  <1> QED
    BY <1>2, PlusEach

\* Sections that share no point with each other and lie in the list are all taken
\* away.
LEMMA MinusSections ==
  ASSUME NEW o, Good(o), NEW secs \in Seq(Sections), Disjoint(secs),
         \A p : Covered(secs, p) => p \in Points(o)
  PROVE  /\ Good(minus_sections(o, secs))
         /\ \A p : p \in Points(minus_sections(o, secs)) <=> p \in Points(o) /\ ~Covered(secs, p)
  <1> DEFINE n == Len(secs)
  <1>0. n \in Nat /\ \A i \in 1 .. n : secs[i] \in Sections
    BY ListFacts
  <1>1. PICK upto : /\ minus_sections(o, secs) = upto[n]
                    /\ upto[0] = o
                    /\ \A i \in 1 .. n : upto[i] = minus_section(upto[i - 1], secs[i])
    BY <1>0, MinusLoop
  <1> DEFINE So(k) == /\ Good(upto[k])
                      /\ \A p : p \in Points(upto[k])
                           <=> p \in Points(o) /\ ~ \E i \in 1 .. k : p \in SecPoints(secs[i])
             S == {k \in Nat : k <= n => So(k)}
  <1>2. 0 \in S
    BY <1>1
  <1>3. ASSUME NEW k \in Nat, k \in S PROVE k + 1 \in S
    <2>1. ASSUME k + 1 <= n PROVE So(k + 1)
      <3>1. k + 1 \in 1 .. n /\ k <= n /\ k + 1 - 1 = k
        BY <1>0, <2>1
      <3>2. So(k)
        BY <1>3, <3>1
      <3>3. ASSUME NEW p \in SecPoints(secs[k + 1]) PROVE p \in Points(upto[k])
        <4>1. p \in Points(o)
          BY <3>1 DEF Covered
        <4>2. \A i \in 1 .. k : i \in 1 .. n /\ i # k + 1
          BY <3>1, <1>0
        <4>3. \A i \in 1 .. k : p \notin SecPoints(secs[i])
          BY <3>1, <4>2 DEF Disjoint
        <4> QED
          BY <3>2, <4>1, <4>3
      <3>4. SecPoints(secs[k + 1]) \subseteq Points(upto[k])
        BY <3>3
      <3>5. upto[k + 1] = minus_section(upto[k], secs[k + 1])
        BY <1>1, <3>1
      <3>6. /\ Good(upto[k + 1])
            /\ Points(upto[k + 1]) = Points(upto[k]) \ SecPoints(secs[k + 1])
        BY <1>0, <3>1, <3>2, <3>4, <3>5, MinusSection
      <3>7. \A i : i \in 1 .. k + 1 <=> i \in 1 .. k \/ i = k + 1
        OBVIOUS
      <3> QED
        BY <3>2, <3>6, <3>7
    <2> QED
      BY <2>1
  <1>4. So(n)
    <2> HIDE DEF S, So
    <2>1. n \in S
      BY <1>0, <1>2, <1>3, Induct
    <2> QED
      BY <1>0, <2>1 DEF S
  <1> QED
    BY <1>1, <1>4 DEF Covered

-------------------------------------------------------------------------------
(* The walk over two lists.                                                *)

LEMMA Intersection ==
  ASSUME NEW s \in Sections, NEW t \in Sections, s.start < End(t), t.start < End(s)
  PROVE  /\ intersection(s, t) \in Sections
         /\ \A p \in Int : Within(intersection(s, t), p) <=> Within(s, p) /\ Within(t, p)
  <1> DEFINE from == Max({s.start, t.start})
             to == Min({End(s), End(t)})
  <1>1. /\ s.start \in Nat /\ End(s) \in Nat /\ s.start < End(s) /\ End(s) <= N
        /\ t.start \in Nat /\ End(t) \in Nat /\ t.start < End(t) /\ End(t) <= N
        /\ N \in Nat
    BY SectionFacts, PointsAssumption
  <1>2. from = IF s.start >= t.start THEN s.start ELSE t.start
    BY <1>1 DEF Max
  <1>3. to = IF End(s) <= End(t) THEN End(s) ELSE End(t)
    BY <1>1 DEF Min
  <1>4. intersection(s, t) = Sec(from, to - from)
    BY <1>1 DEF intersection
  <1> HIDE DEF from, to
  <1>5. from \in Nat /\ to - from \in Nat \ {0} /\ from + (to - from) = to /\ to <= N
    BY <1>1, <1>2, <1>3
  <1>6. Sec(from, to - from).start = from /\ End(Sec(from, to - from)) = to
    BY <1>5, SecFields
  <1>7. Sec(from, to - from) \in Sections
    BY <1>5, SectionFacts
  <1>8. \A p \in Int : Within(Sec(from, to - from), p) <=> Within(s, p) /\ Within(t, p)
    BY <1>1, <1>2, <1>3, <1>6 DEF Within
  <1> QED
    BY <1>4, <1>7, <1>8

\* A section put in front of others it shares no point with.
LEMMA InFront ==
  ASSUME NEW t \in Sections, NEW rest \in Seq(Sections), Disjoint(rest),
         \A p \in SecPoints(t) : ~Covered(rest, p)
  PROVE  /\ <<t>> \o rest \in Seq(Sections)
         /\ Disjoint(<<t>> \o rest)
         /\ \A p : Covered(<<t>> \o rest, p) <=> p \in SecPoints(t) \/ Covered(rest, p)
  <1> DEFINE one == <<t>>
             all == one \o rest
             n == Len(rest)
  <1>1. one \in Seq(Sections) /\ Len(one) = 1 /\ one[1] = t /\ n \in Nat
    BY ListFacts
  <1> HIDE DEF one
  <1>2. /\ all \in Seq(Sections) /\ Len(all) = Len(one) + n
        /\ \A i \in 1 .. Len(one) + n : all[i] = IF i <= Len(one) THEN one[i] ELSE rest[i - Len(one)]
    BY <1>1, ConcatProperties
  <1> HIDE DEF all
  <1>3. Len(all) = n + 1 /\ \A i \in 1 .. n + 1 : all[i] = IF i <= 1 THEN one[i] ELSE rest[i - 1]
    BY <1>1, <1>2
  <1>4. all[1] = t /\ 1 \in 1 .. n + 1
    BY <1>1, <1>3
  <1>5. ASSUME NEW i \in 1 .. n + 1, i # 1 PROVE i - 1 \in 1 .. n /\ all[i] = rest[i - 1]
    <2>1. i - 1 \in 1 .. n /\ ~(i <= 1)
      BY <1>1, <1>5
    <2> QED
      BY <1>3, <2>1
  <1>6. ASSUME NEW i \in 1 .. n PROVE i + 1 \in 1 .. n + 1 /\ all[i + 1] = rest[i]
    <2>1. i + 1 \in 1 .. n + 1 /\ i + 1 # 1 /\ i + 1 - 1 = i
      BY <1>1
    <2> QED
      BY <1>5, <2>1
  <1>7. \A p : Covered(all, p) <=> p \in SecPoints(t) \/ Covered(rest, p)
    <2>1. ASSUME NEW p, Covered(all, p) PROVE p \in SecPoints(t) \/ Covered(rest, p)
      <3> PICK i \in 1 .. n + 1 : p \in SecPoints(all[i])
        BY <1>3, <2>1 DEF Covered
      <3> QED
        BY <1>4, <1>5 DEF Covered
    <2>2. ASSUME NEW p, p \in SecPoints(t) PROVE Covered(all, p)
      BY <1>3, <1>4, <2>2 DEF Covered
    <2>3. ASSUME NEW p, Covered(rest, p) PROVE Covered(all, p)
      <3> PICK i \in 1 .. n : p \in SecPoints(rest[i])
        BY <2>3 DEF Covered
      <3> QED
        BY <1>3, <1>6 DEF Covered
    <2> QED
      BY <2>1, <2>2, <2>3
  <1>8. Disjoint(all)
    <2>1. ASSUME NEW i \in 1 .. n + 1, NEW j \in 1 .. n + 1, i # j,
                 NEW p, p \in SecPoints(all[i]), p \in SecPoints(all[j])
          PROVE  FALSE
      <3>1. CASE i = 1
        BY <1>4, <1>5, <2>1, <3>1 DEF Covered
      <3>2. CASE j = 1
        BY <1>4, <1>5, <2>1, <3>2 DEF Covered
      <3>3. CASE i # 1 /\ j # 1
        <4>1. i - 1 \in 1 .. n /\ j - 1 \in 1 .. n /\ i - 1 # j - 1
          BY <1>1, <2>1, <3>3
        <4> QED
          BY <1>5, <2>1, <3>3, <4>1 DEF Disjoint
      <3> QED
        BY <3>1, <3>2, <3>3
    <2> QED
      BY <1>3, <2>1 DEF Disjoint
  <1> QED
    BY <1>2, <1>7, <1>8 DEF all, one

Pairs(mine, his) == (1 .. Len(his) + 1) \X (1 .. Len(mine) + 1)

\* What meets computes from one pair of positions on.
MeetsStep(mine, his, from, p) ==
  LET i == p[1]
      j == p[2]
  IN  IF i > Len(his) \/ j > Len(mine)    THEN <<>>
      ELSE IF End(his[i]) <= mine[j].start THEN from[<<i, j + 1>>]
      ELSE IF his[i].start >= End(mine[j]) THEN from[<<i + 1, j>>]
      ELSE <<intersection(mine[j], his[i])>>
             \o from[<<IF his[i].start >= mine[j].start THEN i + 1 ELSE i,
                       IF his[i].start <= mine[j].start THEN j + 1 ELSE j>>]

\* The positions still ahead.
Ahead(mine, his, p) == Len(his) + Len(mine) + 2 - p[1] - p[2]

LEMMA OnwardFacts ==
  ASSUME NEW mine \in Seq(Sections), NEW his \in Seq(Sections), NEW p \in Pairs(mine, his)
  PROVE  /\ p[1] \in Nat \ {0} /\ p[2] \in Nat \ {0} /\ p[1] <= Len(his) + 1 /\ p[2] <= Len(mine) + 1
         /\ Ahead(mine, his, p) \in Nat
         /\ p[1] <= Len(his) /\ p[2] <= Len(mine) =>
              /\ p[1] \in 1 .. Len(his) /\ p[2] \in 1 .. Len(mine)
              /\ \A i \in {p[1], p[1] + 1}, j \in {p[2], p[2] + 1} :
                   /\ <<i, j>> \in Pairs(mine, his)
                   /\ i # p[1] \/ j # p[2] => Ahead(mine, his, <<i, j>>) < Ahead(mine, his, p)
  <1>1. Len(mine) \in Nat /\ Len(his) \in Nat
    BY ListFacts
  <1>2. p[1] \in 1 .. Len(his) + 1 /\ p[2] \in 1 .. Len(mine) + 1
    BY DEF Pairs
  <1>3. Ahead(mine, his, p) = Len(his) + Len(mine) + 2 - p[1] - p[2]
    BY DEF Ahead
  <1>4. ASSUME p[1] <= Len(his), p[2] <= Len(mine),
               NEW i \in {p[1], p[1] + 1}, NEW j \in {p[2], p[2] + 1}
        PROVE  /\ <<i, j>> \in Pairs(mine, his)
               /\ i # p[1] \/ j # p[2] => Ahead(mine, his, <<i, j>>) < Ahead(mine, his, p)
    <2>1. i \in 1 .. Len(his) + 1 /\ j \in 1 .. Len(mine) + 1
      BY SMTT(30), <1>1, <1>2, <1>4
    <2>2. Ahead(mine, his, <<i, j>>) = Len(his) + Len(mine) + 2 - i - j
      BY DEF Ahead
    <2>3. <<i, j>> \in Pairs(mine, his)
      BY <2>1 DEF Pairs
    <2>4. i # p[1] \/ j # p[2] =>
            Len(his) + Len(mine) + 2 - i - j < Len(his) + Len(mine) + 2 - p[1] - p[2]
      <3> DEFINE a == p[1]
                 b == p[2]
                 k == Len(his)
                 l == Len(mine)
      <3>1. a \in Nat /\ b \in Nat /\ k \in Nat /\ l \in Nat
        BY <1>1, <1>2
      <3>2. (i = a \/ i = a + 1) /\ (j = b \/ j = b + 1)
        OBVIOUS
      <3> HIDE DEF a, b, k, l
      <3>3. i # a \/ j # b => k + l + 2 - i - j < k + l + 2 - a - b
        BY <3>1, <3>2
      <3> QED
        BY <3>3 DEF a, b, k, l
    <2> QED
      BY <1>3, <2>2, <2>3, <2>4
  <1>5. p[1] <= Len(his) /\ p[2] <= Len(mine) => p[1] \in 1 .. Len(his) /\ p[2] \in 1 .. Len(mine)
    BY <1>1, <1>2
  <1>6. Ahead(mine, his, p) \in Nat
    BY SMTT(30), <1>1, <1>2, <1>3
  <1> QED
    BY SMTT(30), <1>1, <1>2, <1>4, <1>5, <1>6

\* A step needs only what the walk gives for the positions still ahead.
LEMMA StepAgrees ==
  ASSUME NEW mine \in Seq(Sections), NEW his \in Seq(Sections), NEW f, NEW g,
         NEW p \in Pairs(mine, his),
         \A q \in Pairs(mine, his) : Ahead(mine, his, q) < Ahead(mine, his, p) => f[q] = g[q]
  PROVE  MeetsStep(mine, his, f, p) = MeetsStep(mine, his, g, p)
  <1> DEFINE i == p[1]
             j == p[2]
             ii == IF his[i].start >= mine[j].start THEN i + 1 ELSE i
             jj == IF his[i].start <= mine[j].start THEN j + 1 ELSE j
  <1>1. CASE i > Len(his) \/ j > Len(mine)
    BY <1>1 DEF MeetsStep
  <1>2. CASE ~(i > Len(his) \/ j > Len(mine))
    <2>1. i \in 1 .. Len(his) /\ j \in 1 .. Len(mine)
      <3>1. i <= Len(his) /\ j <= Len(mine)
        <4>1. Len(his) \in Nat /\ Len(mine) \in Nat
          BY ListFacts
        <4>2. i \in Nat /\ j \in Nat
          BY OnwardFacts
        <4> QED
          BY <1>2, <4>1, <4>2
      <3> QED
        BY <3>1, OnwardFacts
    <2>2. i # i + 1 /\ j # j + 1
      BY <2>1
    <2>3. \A x \in {i, i + 1}, y \in {j, j + 1} :
            x # i \/ y # j => f[<<x, y>>] = g[<<x, y>>]
      <3>1. i <= Len(his) /\ j <= Len(mine)
        BY <2>1, ListFacts
      <3> QED
        BY <3>1, OnwardFacts
    <2>4. ii # i \/ jj # j
      <3>1. his[i].start \in Nat /\ mine[j].start \in Nat
        BY <2>1, ListFacts
      <3> QED
        BY SMTT(30), <2>2, <3>1
    <2>5. ii \in {i, i + 1} /\ jj \in {j, j + 1}
      OBVIOUS
    <2>6. f[<<ii, jj>>] = g[<<ii, jj>>]
      BY <2>3, <2>4, <2>5
    <2>7. f[<<i, j + 1>>] = g[<<i, j + 1>>] /\ f[<<i + 1, j>>] = g[<<i + 1, j>>]
      BY <2>2, <2>3
    <2> QED
      BY <2>6, <2>7 DEF MeetsStep
  <1> QED
    BY <1>1, <1>2

\* The walk ends: its function exists.
LEMMA MeetsDefined ==
  ASSUME NEW mine \in Seq(Sections), NEW his \in Seq(Sections)
  PROVE  \A p \in Pairs(mine, his) :
           meets(mine, his)[p] = MeetsStep(mine, his, meets(mine, his), p)
  <1> DEFINE D == Pairs(mine, his)
             Upto(f, n) == \A p \in D : Ahead(mine, his, p) < n =>
                             f[p] = MeetsStep(mine, his, f, p)
             Exists(n) == \E f : Upto(f, n)
             S == {n \in Nat : Exists(n)}
             top == Len(his) + Len(mine) + 1
  <1>0. \A p \in D : Ahead(mine, his, p) \in Nat /\ Ahead(mine, his, p) < top
    <2> TAKE p \in D
    <2>1. p[1] \in Nat \ {0} /\ p[2] \in Nat \ {0} /\ Ahead(mine, his, p) \in Nat
      BY OnwardFacts
    <2>2. Len(his) \in Nat /\ Len(mine) \in Nat
      BY ListFacts
    <2> QED
      BY SMTT(30), <2>1, <2>2 DEF Ahead
  <1>1. 0 \in S
    BY <1>0
  <1>2. ASSUME NEW n \in Nat, n \in S PROVE n + 1 \in S
    <2> PICK f : Upto(f, n)
      BY <1>2
    <2> DEFINE g == [p \in D |-> MeetsStep(mine, his, f, p)]
    <2>1. \A p \in D : Ahead(mine, his, p) < n => g[p] = f[p]
      OBVIOUS
    <2>2. \A p \in D : g[p] = MeetsStep(mine, his, f, p)
      OBVIOUS
    <2> HIDE DEF g
    <2>3. ASSUME NEW p \in D, Ahead(mine, his, p) < n + 1
          PROVE  MeetsStep(mine, his, f, p) = MeetsStep(mine, his, g, p)
      <3>1. \A q \in D : Ahead(mine, his, q) < Ahead(mine, his, p) => Ahead(mine, his, q) < n
        BY <1>0, <2>3
      <3>2. \A q \in D : Ahead(mine, his, q) < Ahead(mine, his, p) => f[q] = g[q]
        BY <2>1, <3>1
      <3> QED
        BY <3>2, StepAgrees
    <2>4. Upto(g, n + 1)
      BY <2>2, <2>3
    <2>5. Exists(n + 1)
      BY <2>4
    <2> HIDE DEF Exists
    <2> QED
      BY <2>5
  <1>3. Exists(top)
    <2> HIDE DEF S
    <2>1. top \in Nat
      BY ListFacts
    <2> HIDE DEF top
    <2>2. top \in S
      BY <1>1, <1>2, <2>1, Induct
    <2> QED
      BY <2>2 DEF S
  <1>4. PICK f : Upto(f, top)
    BY <1>3
  <1> DEFINE g == [p \in D |-> f[p]]
  <1>5. \A p \in D : g[p] = f[p]
    OBVIOUS
  <1>6. g = [p \in D |-> g[p]]
    OBVIOUS
  <1> HIDE DEF g
  <1>7. ASSUME NEW p \in D PROVE g[p] = MeetsStep(mine, his, g, p)
    <2>1. f[p] = MeetsStep(mine, his, f, p)
      BY <1>0, <1>4
    <2>2. MeetsStep(mine, his, f, p) = MeetsStep(mine, his, g, p)
      BY <1>5, StepAgrees
    <2> QED
      BY <1>5, <2>1, <2>2
  <1>8. g = [p \in D |-> MeetsStep(mine, his, g, p)]
    BY <1>6, <1>7
  <1>9. \E from : from = [p \in (1 .. Len(his) + 1) \X (1 .. Len(mine) + 1) |->
                            MeetsStep(mine, his, from, p)]
    BY SMTT(30), <1>8 DEF Pairs
  <1>10. meets(mine, his) = [p \in D |-> MeetsStep(mine, his, meets(mine, his), p)]
    BY <1>9 DEF meets, MeetsStep, Pairs
  <1> HIDE DEF D
  <1>11. \A p \in D : meets(mine, his)[p] = MeetsStep(mine, his, meets(mine, his), p)
    BY <1>10, Zenon
  <1> QED
    BY <1>11 DEF D

\* x is a point of the list from its i-th section on, going down.
From(secs, i, x) == \E k \in i .. Len(secs) : Within(secs[k], x)

LEMMA FromFacts ==
  ASSUME NEW secs \in Seq(Sections), Gapped(secs), NEW i \in 1 .. Len(secs), NEW x \in Int
  PROVE  /\ From(secs, i, x) <=> Within(secs[i], x) \/ From(secs, i + 1, x)
         /\ From(secs, i + 1, x) => x < secs[i].start
         /\ From(secs, i, x) => x < End(secs[i])
  <1>1. Len(secs) \in Nat
    BY ListFacts
  <1>2. \A k \in 1 .. Len(secs) : secs[k].start \in Nat /\ End(secs[k]) \in Nat
                                  /\ secs[k].start < End(secs[k])
    BY ListFacts
  <1>3. \A k : k \in i .. Len(secs) <=> k = i \/ k \in i + 1 .. Len(secs)
    BY <1>1
  <1>4. From(secs, i, x) <=> Within(secs[i], x) \/ From(secs, i + 1, x)
    BY <1>3 DEF From
  <1>5. ASSUME From(secs, i + 1, x) PROVE x < secs[i].start
    <2> PICK k \in i + 1 .. Len(secs) : Within(secs[k], x)
      BY <1>5 DEF From
    <2>1. k \in 1 .. Len(secs) /\ i < k
      BY <1>1
    <2>2. End(secs[k]) < secs[i].start
      BY <2>1 DEF Gapped
    <2> QED
      BY <1>2, <2>1, <2>2 DEF Within
  <1> QED
    BY <1>2, <1>4, <1>5 DEF Within

\* The pieces the walk gives from a pair of positions on are disjoint sections, and
\* hold the points the two lists have in common from there on.
Common(mine, his, p, r) ==
  /\ r \in Seq(Sections)
  /\ Disjoint(r)
  /\ \A x \in Int : Covered(r, x) <=> From(his, p[1], x) /\ From(mine, p[2], x)

LEMMA SecWithin ==
  ASSUME NEW s \in Sections, NEW x \in Int
  PROVE  x \in SecPoints(s) <=> Within(s, x)
  BY SecPointsFacts

LEMMA WalkStep ==
  ASSUME NEW mine \in Seq(Sections), Gapped(mine), NEW his \in Seq(Sections), Gapped(his),
         NEW from, NEW p \in Pairs(mine, his),
         \A q \in Pairs(mine, his) :
           Ahead(mine, his, q) < Ahead(mine, his, p) => Common(mine, his, q, from[q])
  PROVE  Common(mine, his, p, MeetsStep(mine, his, from, p))
  <1> DEFINE i == p[1]
             j == p[2]
             r == MeetsStep(mine, his, from, p)
  <1>0. Len(his) \in Nat /\ Len(mine) \in Nat /\ i \in Nat /\ j \in Nat
    BY OnwardFacts, ListFacts
  <1>1. CASE i > Len(his) \/ j > Len(mine)
    <2>1. r = <<>>
      BY <1>1 DEF MeetsStep
    <2>2. r \in Seq(Sections) /\ Len(r) = 0
      BY <2>1
    <2> HIDE DEF r
    <2>3. \A x : ~Covered(r, x)
      BY <2>2 DEF Covered
    <2>4. \A x : ~From(his, i, x) \/ ~From(mine, j, x)
      BY <1>0, <1>1 DEF From
    <2>5. Disjoint(r)
      BY <2>2 DEF Disjoint
    <2> QED
      BY <2>2, <2>3, <2>4, <2>5 DEF Common, r
  <1>2. CASE ~(i > Len(his) \/ j > Len(mine))
    <2> DEFINE h == his[i]
               m == mine[j]
    <2>1. i \in 1 .. Len(his) /\ j \in 1 .. Len(mine)
      <3>1. i <= Len(his) /\ j <= Len(mine)
        BY <1>0, <1>2
      <3> QED
        BY <3>1, OnwardFacts
    <2>2. \A k \in {i, i + 1}, l \in {j, j + 1} :
            k # i \/ l # j => /\ from[<<k, l>>] \in Seq(Sections)
                              /\ Disjoint(from[<<k, l>>])
                              /\ \A x \in Int : Covered(from[<<k, l>>], x)
                                                  <=> From(his, k, x) /\ From(mine, l, x)
      <3>1. i <= Len(his) /\ j <= Len(mine)
        BY <1>0, <2>1
      <3> TAKE k \in {i, i + 1}, l \in {j, j + 1}
      <3>2. k # i \/ l # j => Common(mine, his, <<k, l>>, from[<<k, l>>])
        BY <3>1, OnwardFacts
      <3>3. <<k, l>>[1] = k /\ <<k, l>>[2] = l
        OBVIOUS
      <3> QED
        BY <3>2, <3>3 DEF Common
    <2>3. /\ h \in Sections /\ h.start \in Nat /\ End(h) \in Nat /\ h.start < End(h)
          /\ m \in Sections /\ m.start \in Nat /\ End(m) \in Nat /\ m.start < End(m)
      BY <2>1, ListFacts
    <2>4. ASSUME NEW x \in Int
          PROVE  /\ From(his, i, x) <=> Within(h, x) \/ From(his, i + 1, x)
                 /\ From(his, i + 1, x) => x < h.start
                 /\ From(his, i, x) => x < End(h)
                 /\ From(mine, j, x) <=> Within(m, x) \/ From(mine, j + 1, x)
                 /\ From(mine, j + 1, x) => x < m.start
                 /\ From(mine, j, x) => x < End(m)
      BY <2>1, FromFacts
    <2>5. i # i + 1 /\ j # j + 1
      BY <1>0
    <2>6. CASE End(h) <= m.start
      <3>1. r = from[<<i, j + 1>>]
        BY <1>2, <2>6 DEF MeetsStep
      <3>2. \A x \in Int : From(his, i, x) /\ From(mine, j + 1, x)
                             <=> From(his, i, x) /\ From(mine, j, x)
        BY SMTT(30), <2>3, <2>4, <2>6 DEF Within
      <3>3. /\ r \in Seq(Sections) /\ Disjoint(r)
            /\ \A x \in Int : Covered(r, x) <=> From(his, i, x) /\ From(mine, j + 1, x)
        BY <2>2, <2>5, <3>1
      <3> QED
        BY <3>2, <3>3 DEF Common
    <2>7. CASE ~(End(h) <= m.start) /\ h.start >= End(m)
      <3>1. r = from[<<i + 1, j>>]
        BY <1>2, <2>7 DEF MeetsStep
      <3>2. \A x \in Int : From(his, i + 1, x) /\ From(mine, j, x)
                             <=> From(his, i, x) /\ From(mine, j, x)
        BY SMTT(30), <2>3, <2>4, <2>7 DEF Within
      <3>3. /\ r \in Seq(Sections) /\ Disjoint(r)
            /\ \A x \in Int : Covered(r, x) <=> From(his, i + 1, x) /\ From(mine, j, x)
        BY <2>2, <2>5, <3>1
      <3> QED
        BY <3>2, <3>3 DEF Common
    <2>8. CASE ~(End(h) <= m.start) /\ ~(h.start >= End(m))
      <3> DEFINE k == IF h.start >= m.start THEN i + 1 ELSE i
                 l == IF h.start <= m.start THEN j + 1 ELSE j
                 rest == from[<<k, l>>]
                 t == intersection(m, h)
      <3>1. r = <<t>> \o rest
        BY <1>2, <2>8 DEF MeetsStep
      <3>2. /\ t \in Sections
            /\ \A x \in Int : Within(t, x) <=> Within(m, x) /\ Within(h, x)
        BY SMTT(30), <2>3, <2>8, Intersection
      <3>3. /\ rest \in Seq(Sections) /\ Disjoint(rest)
            /\ \A x \in Int : Covered(rest, x) <=> From(his, k, x) /\ From(mine, l, x)
        <4>1. k \in {i, i + 1} /\ l \in {j, j + 1}
          OBVIOUS
        <4>2. k # i \/ l # j
          BY SMTT(30), <2>3, <2>5
        <4> QED
          BY <2>2, <4>1, <4>2
      <3> HIDE DEF rest, t, r, h, m
      <3>4. ASSUME NEW x \in Int, Within(t, x), From(his, k, x), From(mine, l, x) PROVE FALSE
        <4>1. CASE h.start >= m.start
          BY <2>3, <2>4, <3>2, <3>4, <4>1 DEF Within
        <4>2. CASE h.start <= m.start
          BY <2>3, <2>4, <3>2, <3>4, <4>2 DEF Within
        <4> QED
          BY <2>3, <4>1, <4>2
      <3>5. ASSUME NEW x \in Int
            PROVE  From(his, i, x) /\ From(mine, j, x)
                     <=> Within(t, x) \/ (From(his, k, x) /\ From(mine, l, x))
        <4>0. /\ Within(t, x) <=> Within(m, x) /\ Within(h, x)
              /\ Within(h, x) <=> h.start <= x /\ x < End(h)
              /\ Within(m, x) <=> m.start <= x /\ x < End(m)
          BY <3>2 DEF Within
        <4>1. CASE h.start > m.start
          <5>1. k = i + 1 /\ l = j
            BY <2>3, <4>1
          <5> HIDE DEF k, l
          <5> QED
            BY <2>3, <2>4, <4>0, <4>1, <5>1
        <4>2. CASE h.start < m.start
          <5>1. k = i /\ l = j + 1
            BY <2>3, <4>2
          <5> HIDE DEF k, l
          <5> QED
            BY <2>3, <2>4, <4>0, <4>2, <5>1
        <4>3. CASE h.start = m.start
          <5>1. k = i + 1 /\ l = j + 1
            BY <2>3, <4>3
          <5> HIDE DEF k, l
          <5> QED
            BY <2>3, <2>4, <4>0, <4>3, <5>1
        <4> QED
          BY <2>3, <4>1, <4>2, <4>3
      <3> HIDE DEF k, l
      <3>6. \A x \in SecPoints(t) : x \in Int /\ ~Covered(rest, x)
        <4> TAKE x \in SecPoints(t)
        <4>1. x \in Int /\ Within(t, x)
          BY <3>2, SecPointsFacts
        <4> QED
          BY <3>3, <3>4, <4>1
      <3>7. /\ r \in Seq(Sections) /\ Disjoint(r)
            /\ \A x : Covered(r, x) <=> x \in SecPoints(t) \/ Covered(rest, x)
        BY <3>1, <3>2, <3>3, <3>6, InFront
      <3>8. \A x \in Int : Covered(r, x) <=> From(his, i, x) /\ From(mine, j, x)
        <4> TAKE x \in Int
        <4>1. x \in SecPoints(t) <=> Within(t, x)
          BY <3>2, SecWithin
        <4> QED
          BY <3>3, <3>5, <3>7, <4>1
      <3> QED
        BY <3>7, <3>8 DEF Common, r
    <2> QED
      BY <2>6, <2>7, <2>8
  <1> QED
    BY <1>1, <1>2

LEMMA Walk ==
  ASSUME NEW mine \in Seq(Sections), Gapped(mine), NEW his \in Seq(Sections), Gapped(his)
  PROVE  \A p \in Pairs(mine, his) : Common(mine, his, p, meets(mine, his)[p])
  <1> DEFINE D == Pairs(mine, his)
             w == meets(mine, his)
             Right(n) == \A p \in D : Ahead(mine, his, p) < n => Common(mine, his, p, w[p])
             S == {n \in Nat : Right(n)}
  <1>0. \A p \in D : Ahead(mine, his, p) \in Nat
    BY OnwardFacts
  <1>1. 0 \in S
    BY <1>0
  <1>2. ASSUME NEW n \in Nat, n \in S PROVE n + 1 \in S
    <2> HIDE DEF w
    <2>1. ASSUME NEW p \in D, Ahead(mine, his, p) < n + 1 PROVE Common(mine, his, p, w[p])
      <3>1. \A q \in D : Ahead(mine, his, q) < Ahead(mine, his, p) => Ahead(mine, his, q) < n
        BY <1>0, <2>1
      <3>2. \A q \in D : Ahead(mine, his, q) < Ahead(mine, his, p) => Common(mine, his, q, w[q])
        BY <1>2, <3>1
      <3>3. Common(mine, his, p, MeetsStep(mine, his, w, p))
        BY <3>2, WalkStep
      <3>4. w[p] = MeetsStep(mine, his, w, p)
        BY MeetsDefined DEF w
      <3> QED
        BY <3>3, <3>4
    <2>2. Right(n + 1)
      BY <2>1
    <2> HIDE DEF Right
    <2> QED
      BY <2>2
  <1>3. \A n \in Nat : n \in S
    <2> HIDE DEF S
    <2> QED
      BY <1>1, <1>2, Induct
  <1>4. ASSUME NEW p \in D PROVE Common(mine, his, p, w[p])
    <2> DEFINE a == Ahead(mine, his, p)
    <2>1. a \in Nat /\ a + 1 \in Nat /\ a < a + 1
      BY <1>0
    <2>2. Right(a + 1)
      <3> HIDE DEF a, Right
      <3> QED
        BY <1>3, <2>1
    <2> QED
      BY <2>1, <2>2
  <1> QED
    BY <1>4

LEMMA EmptyFacts == Good(Empty) /\ Points(Empty) = {} /\ Empty.secs = <<>> /\ Empty.len = 0
  <1>1. <<>> \in Seq(Sections) /\ Len(<<>>) = 0
    BY EmptySeq
  <1>2. Empty \in Objects
    BY <1>1, ListObject DEF Empty
  <1>3. Empty.secs = <<>> /\ Empty.len = 0
    BY DEF Empty, List
  <1>4. Gapped(Empty.secs)
    BY <1>1, <1>3 DEF Gapped
  <1>5. Points(Empty) = {}
    <2>1. \A p : p \in Points(Empty) => In(Empty.secs, p)
      BY <1>1, <1>3, PointsFacts
    <2>2. \A p : ~In(Empty.secs, p)
      BY <1>1, <1>3 DEF In
    <2> QED
      BY <2>1, <2>2
  <1>6. Cardinality({}) = 0
    BY FS_EmptySet
  <1> QED
    BY <1>2, <1>3, <1>4, <1>5, <1>6 DEF Good

\* What two lists have in common.
LEMMA Intersections ==
  ASSUME NEW o, Good(o), NEW other, Good(other)
  PROVE  /\ Good(intersections(o, other))
         /\ Points(intersections(o, other)) = Points(o) \cap Points(other)
  <1> DEFINE mine == o.secs
             his == other.secs
             r == meets(mine, his)[<<1, 1>>]
  <1>1. /\ mine \in Seq(Sections) /\ Gapped(mine) /\ his \in Seq(Sections) /\ Gapped(his)
        /\ \A x : x \in Points(o) <=> x \in Int /\ In(mine, x)
        /\ \A x : x \in Points(other) <=> x \in Int /\ In(his, x)
    BY GoodFacts
  <1>2. Common(mine, his, <<1, 1>>, r)
    <2>1. <<1, 1>> \in Pairs(mine, his)
      BY <1>1, ListFacts DEF Pairs
    <2> HIDE DEF mine, his
    <2> QED
      BY <1>1, <2>1, Walk
  <1> HIDE DEF r, mine, his
  <1>3. /\ r \in Seq(Sections) /\ Disjoint(r)
        /\ \A x \in Int : Covered(r, x) <=> In(his, x) /\ In(mine, x)
    BY <1>2 DEF Common, From, In
  <1>4. \A x : Covered(r, x) => x \in Int
    <2> TAKE x
    <2>1. \A i \in 1 .. Len(r) : r[i] \in Sections
      BY <1>3, ListFacts
    <2> QED
      BY <2>1, SecPointsFacts DEF Covered
  <1>5. intersections(o, other) = plus_sections(Empty, r)
    BY DEF intersections, mine, his, r
  <1>6. /\ Good(plus_sections(Empty, r))
        /\ \A x : x \in Points(plus_sections(Empty, r)) <=> x \in Points(Empty) \/ Covered(r, x)
    BY <1>3, EmptyFacts, PlusSections
  <1>7. \A x : x \in Points(intersections(o, other)) <=> x \in Points(o) /\ x \in Points(other)
    BY <1>1, <1>3, <1>4, <1>5, <1>6, EmptyFacts
  <1> QED
    BY <1>5, <1>6, <1>7

-------------------------------------------------------------------------------
(* The operations on whole lists.                                          *)

\* The sections of a list are disjoint and hold its points.
LEMMA OwnSections ==
  ASSUME NEW o, Good(o)
  PROVE  /\ o.secs \in Seq(Sections) /\ Disjoint(o.secs)
         /\ \A p : Covered(o.secs, p) <=> p \in Points(o)
  <1>1. /\ o.secs \in Seq(Sections) /\ Gapped(o.secs)
        /\ \A p : p \in Points(o) <=> p \in Int /\ In(o.secs, p)
    BY GoodFacts
  <1>2. \A i \in 1 .. Len(o.secs) : \A p :
          p \in SecPoints(o.secs[i]) <=> p \in Int /\ Within(o.secs[i], p)
    BY <1>1, ListFacts, SecPointsFacts
  <1>3. Disjoint(o.secs)
    <2>1. ASSUME NEW i \in 1 .. Len(o.secs), NEW j \in 1 .. Len(o.secs), i # j,
                 NEW p, p \in SecPoints(o.secs[i]), p \in SecPoints(o.secs[j])
          PROVE  FALSE
      BY <1>1, <1>2, <2>1, OneHolds
    <2> QED
      BY <2>1 DEF Disjoint
  <1> QED
    BY <1>1, <1>2, <1>3 DEF Covered, In

LEMMA AssertedHolds ==
  ASSUME NEW o, Good(o), NEW holds, holds = TRUE
  PROVE  Asserted(o, holds) = o
  <1>1. o.ok = TRUE /\ o = List(o.secs, o.len, TRUE)
    BY ObjectIsList DEF Good, Objects
  <1>2. (o.ok /\ holds) = TRUE
    BY <1>1
  <1> QED
    BY <1>1, <1>2 DEF Asserted

LEMMA CheckedHolds ==
  ASSUME NEW o, Good(o)
  PROVE  Checked(o) = o
  <1>1. check_sections(o.secs)
    BY GoodFacts, GappedIffChecked
  <1> QED
    BY <1>1, AssertedHolds DEF Checked

\* operator-=(sections): the difference.
LEMMA Minus ==
  ASSUME NEW o, Good(o), NEW other, Good(other)
  PROVE  /\ Good(minus(o, other))
         /\ Points(minus(o, other)) = Points(o) \ Points(other)
  <1> DEFINE common == intersections(o, other)
             rest == minus_sections(o, common.secs)
  <1>1. Good(common) /\ Points(common) = Points(o) \cap Points(other)
    BY Intersections
  <1> HIDE DEF common
  <1>2. /\ common.secs \in Seq(Sections) /\ Disjoint(common.secs)
        /\ \A p : Covered(common.secs, p) <=> p \in Points(common)
    BY <1>1, OwnSections
  <1>3. /\ Good(rest)
        /\ \A p : p \in Points(rest) <=> p \in Points(o) /\ ~Covered(common.secs, p)
    BY <1>1, <1>2, MinusSections
  <1> HIDE DEF rest
  <1>4. minus(o, other) = rest
    <2>1. minus(o, other) = Checked(Asserted(rest, common.ok))
      BY DEF minus, common, rest
    <2>2. common.ok = TRUE
      BY <1>1 DEF Good, Objects
    <2>3. Asserted(rest, common.ok) = rest
      BY <1>3, <2>2, AssertedHolds
    <2> QED
      BY <1>3, <2>1, <2>3, CheckedHolds
  <1> QED
    BY <1>1, <1>2, <1>3, <1>4

LEMMA Supplesections ==
  ASSUME NEW o, Good(o), NEW other, Good(other)
  PROVE  /\ Good(supplesections(o, other))
         /\ Points(supplesections(o, other)) = Points(other) \ Points(o)
  <1> DEFINE common == intersections(o, other)
  <1>1. Good(common) /\ Points(common) = Points(o) \cap Points(other)
    BY Intersections
  <1>2. common.len = 0 => Points(common) = {}
    BY <1>1, GoodFacts, FS_EmptySet
  <1>3. /\ Good(minus(other, common))
        /\ Points(minus(other, common)) = Points(other) \ Points(common)
    BY <1>1, Minus
  <1>4. supplesections(o, other) = IF common.len = 0 THEN other ELSE minus(other, common)
    BY DEF supplesections
  <1> HIDE DEF common
  <1> QED
    BY <1>1, <1>2, <1>3, <1>4

\* operator+=: the union.
LEMMA Plus ==
  ASSUME NEW o, Good(o), NEW other, Good(other)
  PROVE  /\ Good(plus(o, other))
         /\ Points(plus(o, other)) = Points(o) \cup Points(other)
  <1> DEFINE new == supplesections(o, other)
             all == plus_sections(o, new.secs)
  <1>1. Good(new) /\ Points(new) = Points(other) \ Points(o)
    BY Supplesections
  <1> HIDE DEF new
  <1>2. /\ new.secs \in Seq(Sections) /\ Disjoint(new.secs)
        /\ \A p : Covered(new.secs, p) <=> p \in Points(new)
    BY <1>1, OwnSections
  <1>3. /\ Good(all)
        /\ \A p : p \in Points(all) <=> p \in Points(o) \/ Covered(new.secs, p)
    BY <1>1, <1>2, PlusSections
  <1> HIDE DEF all
  <1>4. plus(o, other) = all
    <2>1. plus(o, other) = Checked(Asserted(all, new.ok))
      BY DEF plus, new, all
    <2>2. new.ok = TRUE
      BY <1>1 DEF Good, Objects
    <2>3. Asserted(all, new.ok) = all
      BY <1>3, <2>2, AssertedHolds
    <2> QED
      BY <1>3, <2>1, <2>3, CheckedHolds
  <1> QED
    BY <1>1, <1>2, <1>3, <1>4

LEMMA LoneFacts ==
  ASSUME NEW s \in Sections
  PROVE  /\ Good(Lone(s)) /\ Points(Lone(s)) = SecPoints(s)
         /\ Lone(s).secs = <<s>> /\ Lone(s).secs[1] = s /\ Lone(s).len = s.len
  <1> DEFINE o == Lone(s)
  <1>1. o = List(<<s>>, s.len, TRUE)
    BY DEF Lone
  <1>2. o.secs = <<s>> /\ o.len = s.len
    BY DEF Lone, List
  <1>3. /\ <<s>> \in Seq(Sections) /\ Gapped(<<s>>) /\ <<s>>[1] = s
        /\ \A p : In(<<s>>, p) <=> Within(s, p)
    BY OneSection
  <1>4. o \in Objects
    BY <1>1, <1>3, ListObject, SectionFacts
  <1> HIDE DEF o
  <1>5. \A p : p \in Points(o) <=> p \in Int /\ Within(s, p)
    BY <1>2, <1>3, PointsFacts
  <1>6. Points(o) = SecPoints(s)
    BY <1>5, SecPointsFacts
  <1>7. Cardinality(SecPoints(s)) = s.len
    BY SecPointsFacts
  <1> QED
    BY <1>2, <1>3, <1>4, <1>6, <1>7 DEF Good, o

\* is_section_insections: whether the list has all points of a section.
LEMMA AllInside ==
  ASSUME NEW o, Good(o), NEW s \in Sections
  PROVE  is_section_insections(o, s) <=> SecPoints(s) \subseteq Points(o)
  <1> DEFINE common == intersections(o, Lone(s))
             secs == common.secs
  <1>1. Good(common) /\ Points(common) = Points(o) \cap SecPoints(s)
    BY LoneFacts, Intersections
  <1>2. is_section_insections(o, s) <=> common.len = s.len /\ secs = <<s>>
    BY LoneFacts DEF is_section_insections
  <1> HIDE DEF common
  <1>3. /\ secs \in Seq(Sections) /\ Gapped(secs)
        /\ \A p : p \in Points(common) <=> p \in Int /\ In(secs, p)
    BY <1>1, GoodFacts
  <1>4. \A p : p \in SecPoints(s) <=> p \in Int /\ Within(s, p)
    BY SecPointsFacts
  <1>5. ASSUME secs = <<s>> PROVE SecPoints(s) \subseteq Points(o)
    <2>1. \A p : In(secs, p) <=> Within(s, p)
      BY <1>5, OneSection
    <2> QED
      BY <1>1, <1>3, <1>4, <2>1
  <1>6. ASSUME SecPoints(s) \subseteq Points(o) PROVE common.len = s.len /\ secs = <<s>>
    <2>1. Points(common) = SecPoints(s)
      BY <1>1, <1>6
    <2>2. common.len = s.len
      BY <1>1, <2>1, SecPointsFacts DEF Good
    <2>3. PICK i \in 1 .. Len(secs) : Within(secs[i], s.start)
      BY <1>3, <2>1, SecPointsFacts DEF In
    <2>4. End(s) <= End(secs[i])
      BY <1>1, <2>1, <2>3, Stretch
    <2>5. /\ s.start \in Nat /\ s.len \in Nat /\ End(s) \in Nat /\ s.start < End(s)
          /\ s = Sec(s.start, s.len) /\ End(s) = s.start + s.len
      BY SectionFacts DEF End
    <2>6. /\ \A k \in 1 .. Len(secs) : /\ secs[k] \in Sections
                                       /\ secs[k].start \in Nat /\ End(secs[k]) \in Nat
                                       /\ secs[k].start < End(secs[k])
          /\ Len(secs) \in Nat
      BY <1>3, ListFacts
    <2>7. \A k \in 1 .. Len(secs), p \in Int : Within(secs[k], p) => Within(s, p)
      BY <1>3, <1>4, <2>1 DEF In
    <2>8. ASSUME NEW k \in 1 .. Len(secs) PROVE k = i
      <3>1. Within(s, secs[k].start) /\ Within(secs[k], secs[k].start) /\ secs[k].start \in Int
        BY <2>6, <2>7 DEF Within
      <3>2. Within(secs[i], secs[k].start)
        BY SMTT(30), <2>3, <2>4, <2>5, <2>6, <3>1 DEF Within
      <3> QED
        BY <1>3, <3>1, <3>2, OneHolds
    <2>9. Len(secs) = 1 /\ i = 1
      <3>1. 1 \in 1 .. Len(secs) /\ Len(secs) \in 1 .. Len(secs)
        BY <2>6
      <3> QED
        BY <2>8, <3>1
    <2>10. secs[i].start = s.start /\ End(secs[i]) = End(s)
      <3>1. Within(s, secs[i].start) /\ Within(s, End(secs[i]) - 1)
        <4>1. /\ secs[i].start \in Int /\ End(secs[i]) - 1 \in Int
              /\ Within(secs[i], secs[i].start) /\ Within(secs[i], End(secs[i]) - 1)
          BY <2>6 DEF Within
        <4> QED
          BY <2>7, <4>1
      <3> QED
        BY <2>3, <2>4, <2>5, <2>6, <3>1 DEF Within
    <2>11. secs[1] = s
      <3>1. secs[i] = Sec(secs[i].start, secs[i].len) /\ secs[i].len \in Nat
        BY <2>6, SectionFacts
      <3>2. secs[i].len = s.len
        BY <2>5, <2>10, <3>1 DEF End
      <3> QED
        BY <2>5, <2>9, <2>10, <3>1, <3>2
    <2>12. <<s>> \in Seq(Sections) /\ Len(<<s>>) = 1 /\ <<s>>[1] = s
      BY OneSection
    <2>13. \A k \in 1 .. Len(secs) : secs[k] = <<s>>[k]
      BY <2>8, <2>9, <2>11, <2>12
    <2>14. secs = <<s>>
      BY <1>3, <2>9, <2>12, <2>13, SeqEqual
    <2> QED
      BY <2>2, <2>14
  <1> QED
    BY <1>2, <1>5, <1>6

-------------------------------------------------------------------------------
(* The list read back.                                                     *)

ReloadStep(x, s) == IF s.len = 0 THEN x ELSE plus_section(x, s)


\* reload adds one section after the other, those without points left out.
LEMMA ReloadLoop ==
  ASSUME NEW o, Len(o.secs) \in Nat
  PROVE  \E upto : /\ reload(o) = Asserted(upto[Len(o.secs)], o.ok /\ upto[Len(o.secs)].len = o.len)
                   /\ upto[0] = Empty
                   /\ \A i \in 1 .. Len(o.secs) : upto[i] = ReloadStep(upto[i - 1], o.secs[i])
  <1> DEFINE n == Len(o.secs)
             Upto(f, k) == /\ f[0] = Empty
                           /\ \A i \in 1 .. k : f[i] = ReloadStep(f[i - 1], o.secs[i])
             Exists(k) == \E f : Upto(f, k)
             S == {k \in Nat : Exists(k)}
  <1>1. 0 \in S
    <2>1. Upto([i \in {0} |-> Empty], 0)
      OBVIOUS
    <2> QED
      BY <2>1
  <1>2. ASSUME NEW k \in Nat, k \in S PROVE k + 1 \in S
    <2> PICK f : Upto(f, k)
      BY <1>2
    <2> DEFINE g == [i \in 0 .. k + 1 |-> IF i <= k THEN f[i]
                                         ELSE ReloadStep(f[k], o.secs[k + 1])]
    <2>1. /\ \A i \in 0 .. k : g[i] = f[i]
          /\ g[k + 1] = ReloadStep(f[k], o.secs[k + 1])
      OBVIOUS
    <2> HIDE DEF g
    <2>2. \A i \in 1 .. k + 1 : i - 1 \in 0 .. k /\ (i \in 1 .. k \/ i = k + 1)
      OBVIOUS
    <2>3. 0 \in 0 .. k /\ \A i \in 1 .. k : i \in 0 .. k
      OBVIOUS
    <2>4. k + 1 - 1 = k /\ k \in 0 .. k
      OBVIOUS
    <2>5. Upto(g, k + 1)
      <3>1. g[0] = Empty
        BY <2>1, <2>3
      <3>2. ASSUME NEW i \in 1 .. k PROVE g[i] = ReloadStep(g[i - 1], o.secs[i])
        <4>1. g[i] = f[i] /\ g[i - 1] = f[i - 1]
          BY <2>1, <2>2, <2>3
        <4> QED
          BY <4>1
      <3>3. g[k + 1] = ReloadStep(g[k + 1 - 1], o.secs[k + 1])
        BY <2>1, <2>4
      <3>4. ASSUME NEW i \in 1 .. k + 1 PROVE g[i] = ReloadStep(g[i - 1], o.secs[i])
        <4>1. CASE i \in 1 .. k
          BY <3>2, <4>1
        <4>2. CASE i = k + 1
          BY <3>3, <4>2
        <4> QED
          BY <2>2, <4>1, <4>2
      <3> QED
        BY <3>1, <3>4
    <2>6. Exists(k + 1)
      BY <2>5
    <2> HIDE DEF Exists
    <2> QED
      BY <2>6
  <1>3. n \in S
    <2> HIDE DEF S
    <2> QED
      BY <1>1, <1>2, Induct
  <1>4. PICK f : Upto(f, n)
    BY <1>3
  <1> DEFINE h == [i \in 0 .. n |-> IF i = 0 THEN Empty ELSE ReloadStep(f[i - 1], o.secs[i])]
  <1>5. \A i \in 0 .. n : h[i] = f[i]
    BY <1>4
  <1>6. h = [i \in 0 .. n |-> IF i = 0 THEN Empty ELSE ReloadStep(h[i - 1], o.secs[i])]
    <2>1. \A i \in 0 .. n : i # 0 => i - 1 \in 0 .. n
      OBVIOUS
    <2>2. \A i \in 0 .. n : i # 0 => h[i - 1] = f[i - 1]
      BY <1>5, <2>1
    <2> QED
      BY <2>2
  <1> HIDE DEF h
  <1>7. \E upto : upto = [i \in 0 .. Len(o.secs) |->
                           IF i = 0 THEN Empty ELSE ReloadStep(upto[i - 1], o.secs[i])]
    BY <1>6
  <1> DEFINE loop == CHOOSE upto : upto = [i \in 0 .. Len(o.secs) |->
                       IF i = 0 THEN Empty ELSE ReloadStep(upto[i - 1], o.secs[i])]
  <1>8. loop = [i \in 0 .. Len(o.secs) |->
                  IF i = 0 THEN Empty ELSE ReloadStep(loop[i - 1], o.secs[i])]
    BY <1>7
  <1>9. reload(o) = Asserted(loop[Len(o.secs)], o.ok /\ loop[Len(o.secs)].len = o.len)
    BY DEF reload, ReloadStep
  <1> HIDE DEF loop
  <1>10. loop[0] = Empty /\ \A i \in 1 .. Len(o.secs) : loop[i] = ReloadStep(loop[i - 1], o.secs[i])
    <2>1. 0 \in 0 .. Len(o.secs)
      OBVIOUS
    <2>2. \A i \in 1 .. Len(o.secs) : i \in 0 .. Len(o.secs) /\ i # 0
      OBVIOUS
    <2> QED
      BY <1>8, <2>1, <2>2, Zenon
  <1> QED
    BY <1>9, <1>10

LEMMA Reloaded ==
  ASSUME NEW o, Good(o)
  PROVE  Good(reload(o)) /\ Points(reload(o)) = Points(o)
  <1> DEFINE n == Len(o.secs)
  <1>1. /\ o.secs \in Seq(Sections) /\ Disjoint(o.secs)
        /\ \A p : Covered(o.secs, p) <=> p \in Points(o)
    BY OwnSections
  <1>2. n \in Nat /\ \A i \in 1 .. n : o.secs[i].len \in Nat \ {0}
    BY <1>1, ListFacts
  <1>3. PICK upto : /\ reload(o) = Asserted(upto[n], o.ok /\ upto[n].len = o.len)
                    /\ upto[0] = Empty
                    /\ \A i \in 1 .. n : upto[i] = ReloadStep(upto[i - 1], o.secs[i])
    BY <1>2, ReloadLoop
  <1>4. \A i \in 1 .. n : upto[i] = plus_section(upto[i - 1], o.secs[i])
    BY <1>2, <1>3 DEF ReloadStep
  <1>5. /\ Good(upto[n])
        /\ \A p : p \in Points(upto[n]) <=> p \in Points(Empty) \/ Covered(o.secs, p)
    BY <1>1, <1>3, <1>4, EmptyFacts, PlusEach
  <1>6. Points(upto[n]) = Points(o)
    BY <1>1, <1>5, EmptyFacts
  <1>7. (o.ok /\ upto[n].len = o.len) = TRUE
    <2>1. upto[n].len = o.len
      BY <1>5, <1>6 DEF Good
    <2>2. o.ok = TRUE
      BY DEF Good, Objects
    <2> QED
      BY <2>1, <2>2
  <1>8. reload(o) = upto[n]
    BY <1>3, <1>5, <1>7, AssertedHolds
  <1> QED
    BY <1>5, <1>6, <1>8

-------------------------------------------------------------------------------
(* The allocation.                                                         *)

Untaken(o, n) == [need |-> n, left |-> o, new |-> Empty]

AllocStep(a) == IF a.need = 0 THEN a ELSE take(a)

\* alloc takes from one section after the other.
LEMMA AllocLoop ==
  ASSUME NEW o, Len(o.secs) \in Nat, NEW num, ~(num > o.len)
  PROVE  \E after : /\ alloc(o, num) = after[Len(o.secs)]
                    /\ after[0] = Untaken(o, num)
                    /\ \A k \in 1 .. Len(o.secs) : after[k] = AllocStep(after[k - 1])
  <1> DEFINE n == Len(o.secs)
             Upto(f, k) == /\ f[0] = Untaken(o, num)
                           /\ \A i \in 1 .. k : f[i] = AllocStep(f[i - 1])
             Exists(k) == \E f : Upto(f, k)
             S == {k \in Nat : Exists(k)}
  <1>1. 0 \in S
    <2>1. Upto([i \in {0} |-> Untaken(o, num)], 0)
      OBVIOUS
    <2> QED
      BY <2>1
  <1>2. ASSUME NEW k \in Nat, k \in S PROVE k + 1 \in S
    <2> PICK f : Upto(f, k)
      BY <1>2
    <2> DEFINE g == [i \in 0 .. k + 1 |-> IF i <= k THEN f[i]
                                         ELSE AllocStep(f[k])]
    <2>1. /\ \A i \in 0 .. k : g[i] = f[i]
          /\ g[k + 1] = AllocStep(f[k])
      OBVIOUS
    <2> HIDE DEF g
    <2>2. \A i \in 1 .. k + 1 : i - 1 \in 0 .. k /\ (i \in 1 .. k \/ i = k + 1)
      OBVIOUS
    <2>3. 0 \in 0 .. k /\ \A i \in 1 .. k : i \in 0 .. k
      OBVIOUS
    <2>4. k + 1 - 1 = k /\ k \in 0 .. k
      OBVIOUS
    <2>5. Upto(g, k + 1)
      <3>1. g[0] = Untaken(o, num)
        BY <2>1, <2>3
      <3>2. ASSUME NEW i \in 1 .. k PROVE g[i] = AllocStep(g[i - 1])
        <4>1. g[i] = f[i] /\ g[i - 1] = f[i - 1]
          BY <2>1, <2>2, <2>3
        <4> QED
          BY <4>1
      <3>3. g[k + 1] = AllocStep(g[k + 1 - 1])
        BY <2>1, <2>4
      <3>4. ASSUME NEW i \in 1 .. k + 1 PROVE g[i] = AllocStep(g[i - 1])
        <4>1. CASE i \in 1 .. k
          BY <3>2, <4>1
        <4>2. CASE i = k + 1
          BY <3>3, <4>2
        <4> QED
          BY <2>2, <4>1, <4>2
      <3> QED
        BY <3>1, <3>4
    <2>6. Exists(k + 1)
      BY <2>5
    <2> HIDE DEF Exists
    <2> QED
      BY <2>6
  <1>3. n \in S
    <2> HIDE DEF S
    <2> QED
      BY <1>1, <1>2, Induct
  <1>4. PICK f : Upto(f, n)
    BY <1>3
  <1> DEFINE h == [i \in 0 .. n |-> IF i = 0 THEN Untaken(o, num) ELSE AllocStep(f[i - 1])]
  <1>5. \A i \in 0 .. n : h[i] = f[i]
    BY <1>4
  <1>6. h = [i \in 0 .. n |-> IF i = 0 THEN Untaken(o, num) ELSE AllocStep(h[i - 1])]
    <2>1. \A i \in 0 .. n : i # 0 => i - 1 \in 0 .. n
      OBVIOUS
    <2>2. \A i \in 0 .. n : i # 0 => h[i - 1] = f[i - 1]
      BY <1>5, <2>1
    <2> QED
      BY <2>2
  <1> HIDE DEF h
  <1>7. \E after : after = [i \in 0 .. Len(o.secs) |->
                           IF i = 0 THEN Untaken(o, num) ELSE AllocStep(after[i - 1])]
    BY <1>6
  <1> DEFINE loop == CHOOSE after : after = [i \in 0 .. Len(o.secs) |->
                       IF i = 0 THEN Untaken(o, num) ELSE AllocStep(after[i - 1])]
  <1>8. loop = [i \in 0 .. Len(o.secs) |->
                  IF i = 0 THEN Untaken(o, num) ELSE AllocStep(loop[i - 1])]
    BY <1>7
  <1>9. alloc(o, num) = loop[Len(o.secs)]
    BY DEF alloc, AllocStep, Untaken
  <1> HIDE DEF loop
  <1>10. loop[0] = Untaken(o, num) /\ \A i \in 1 .. Len(o.secs) : loop[i] = AllocStep(loop[i - 1])
    <2>1. 0 \in 0 .. Len(o.secs)
      OBVIOUS
    <2>2. \A i \in 1 .. Len(o.secs) : i \in 0 .. Len(o.secs) /\ i # 0
      BY SMTT(30)
    <2> QED
      BY <1>8, <2>1, <2>2, Zenon
  <1> QED
    BY <1>9, <1>10

\* What has been handed out so far: the lowest points, num of them with those still
\* needed.
Handing(o, num, a) ==
  /\ Good(a.left) /\ Good(a.new) /\ a.need \in Nat
  /\ a.new.len + a.need = num
  /\ Points(a.new) \subseteq Points(o)
  /\ Points(a.left) = Points(o) \ Points(a.new)
  /\ \A x \in Points(a.new), y \in Points(a.left) : x < y

\* The lower end of the last section is what minus_section takes away.
LEMMA LowerEnd ==
  ASSUME NEW o, Good(o), o.secs # <<>>, NEW size \in Nat \ {0},
         size <= o.secs[Len(o.secs)].len
  PROVE  LET s == o.secs[Len(o.secs)]
             t == Sec(s.start, size)
         IN  /\ t \in Sections /\ SecPoints(t) \subseteq Points(o)
             /\ \A x \in SecPoints(t), y \in Points(o) \ SecPoints(t) : x < y
             /\ minus_section(o, t)
                  = List(Front(o.secs) \o Part(s.start + size, s.len - size), o.len - size, o.ok)
  <1> DEFINE secs == o.secs
             m == Len(secs)
             s == secs[m]
             t == Sec(s.start, size)
  <1>1. /\ secs \in Seq(Sections) /\ Gapped(secs)
        /\ \A p : p \in Points(o) <=> p \in Int /\ In(secs, p)
    BY GoodFacts
  <1>2. m \in Nat \ {0} /\ m \in 1 .. m
    BY <1>1, EmptySeq
  <1>3. /\ s \in Sections /\ s.start \in Nat /\ s.len \in Nat /\ End(s) = s.start + s.len
        /\ End(s) <= N /\ End(s) \in Nat /\ N \in Nat
    BY <1>1, <1>2, ListFacts, PointsAssumption DEF End
  <1>4. t \in Sections /\ t.start = s.start /\ t.len = size /\ End(t) = s.start + size
    <2>1. s.start + size <= N
      BY SMTT(30), <1>3
    <2> QED
      BY SMTT(30), <1>3, <2>1, SectionFacts, SecFields
  <1> HIDE DEF t
  <1>5. \A p : p \in SecPoints(t) <=> p \in Int /\ Within(t, p)
    BY <1>4, SecPointsFacts
  <1>6. \A p \in Int : Within(t, p) => Within(s, p)
    BY <1>3, <1>4 DEF Within
  <1>7. SecPoints(t) \subseteq Points(o)
    BY <1>1, <1>2, <1>5, <1>6 DEF In
  <1>8. ASSUME NEW x \in SecPoints(t), NEW y \in Points(o) \ SecPoints(t) PROVE x < y
    <2>1. x \in Int /\ Within(t, x) /\ y \in Int /\ ~Within(t, y)
      BY <1>1, <1>5
    <2> PICK k \in 1 .. m : Within(secs[k], y)
      BY <1>1 DEF In
    <2>2. CASE k = m
      BY <1>3, <1>4, <2>1, <2>2 DEF Within
    <2>3. CASE k < m
      <3>1. End(s) < secs[k].start
        BY <1>1, <1>2, <2>3 DEF Gapped
      <3>2. secs[k].start \in Nat
        BY <1>1, ListFacts
      <3> QED
        BY SMTT(30), <1>3, <1>4, <2>1, <3>1, <3>2 DEF Within
    <2> QED
      BY <1>2, <2>2, <2>3
  <1> DEFINE found == find_pos(secs, t.start)
             mid == Part(s.start + size, s.len - size)
  <1>9. found.in /\ found.at = m
    <2>1. Within(s, t.start)
      BY SMTT(30), <1>3, <1>4 DEF Within
    <2>2. In(secs, t.start)
      BY <1>2, <2>1 DEF In
    <2>3. Found(secs, t.start, found)
      BY <1>1, <1>3, <1>4, FindPos
    <2> HIDE DEF found
    <2>4. found.in /\ found.at \in 1 .. m /\ Within(secs[found.at], t.start)
      BY <2>2, <2>3 DEF Found
    <2> QED
      BY SMTT(30), <1>1, <1>2, <1>3, <1>4, <2>1, <2>4, OneHolds
  <1>10. mid \in Seq(Sections) /\ split(s, t) = mid /\ Reverse(mid) = mid
    <2>1. End(s) - End(t) = s.len - size /\ t.start - s.start = 0
      BY SMTT(30), <1>3, <1>4
    <2>2. Part(s.start, t.start - s.start) = <<>>
      BY <2>1 DEF Part
    <2>3. Part(End(t), End(s) - End(t)) = mid
      BY <1>4, <2>1
    <2>4. mid \in Seq(Sections) /\ Reverse(mid) = mid
      <3>1. CASE s.len - size > 0
        <4> DEFINE u == Sec(s.start + size, s.len - size)
        <4>1. u \in Sections
          <5>1. s.start + size \in Nat /\ s.len - size \in Nat \ {0}
                /\ s.start + size + (s.len - size) <= N
            <6> DEFINE a == s.start
                       l == s.len
            <6>1. a \in Nat /\ l \in Nat /\ a + l <= N /\ l - size > 0
              BY <1>3, <3>1
            <6> HIDE DEF a, l
            <6>2. a + size \in Nat /\ l - size \in Nat \ {0} /\ a + size + (l - size) <= N
              BY <1>3, <6>1
            <6> QED
              BY <6>2 DEF a, l
          <5> QED
            BY <5>1, SectionFacts
        <4>2. mid = <<u>>
          BY <3>1 DEF Part
        <4> HIDE DEF u, mid
        <4> QED
          BY <4>1, <4>2 DEF Reverse
      <3>2. CASE ~(s.len - size > 0)
        <4>1. mid = <<>>
          BY SMTT(30), <3>2 DEF Part
        <4> HIDE DEF mid
        <4> QED
          BY <4>1 DEF Reverse
      <3> QED
        BY <3>1, <3>2
    <2>5. split(s, t) = <<>> \o mid
      BY <2>2, <2>3 DEF split
    <2> HIDE DEF mid
    <2> QED
      BY <2>4, <2>5, ConcatEmptySeq
  <1>11. minus_section(o, t) = List(SubSeq(secs, 1, m - 1) \o mid \o SubSeq(secs, m + 1, m),
                                    o.len - size, o.ok)
    <2> HIDE DEF mid
    <2>1. ~(s.len < size)
      BY <1>3
    <2> QED
      BY <1>4, <1>9, <1>10, <2>1 DEF minus_section
  <1>12. SubSeq(secs, 1, m - 1) \o mid \o SubSeq(secs, m + 1, m) = SubSeq(secs, 1, m - 1) \o mid
    <2> DEFINE front == SubSeq(secs, 1, m - 1)
               cat == front \o mid
    <2>1. front \in Seq(Sections)
      <3>1. \A i \in 1 .. m - 1 : secs[i] \in Sections
        BY <1>1, <1>2, ListFacts
      <3> QED
        BY <1>2, <3>1, SubSeqProperties
    <2> HIDE DEF front, mid
    <2>2. cat \in Seq(Sections)
      BY <1>10, <2>1, ConcatProperties
    <2>3. SubSeq(secs, m + 1, m) = <<>>
      BY <1>2, SubSeqEmpty
    <2> HIDE DEF cat
    <2>4. cat \o <<>> = cat
      BY <2>2, ConcatEmptySeq
    <2> QED
      BY <2>3, <2>4 DEF cat, front
  <1>13. Front(secs) = SubSeq(secs, 1, m - 1)
    BY DEF Front
  <1> QED
    BY <1>4, <1>7, <1>8, <1>11, <1>12, <1>13 DEF t

LEMMA TakeFacts ==
  ASSUME NEW o, Good(o), NEW num \in Nat, NEW a, Handing(o, num, a), a.need # 0,
         a.left.secs # <<>>
  PROVE  /\ Handing(o, num, take(a))
         /\ take(a).need = 0 \/ Len(take(a).left.secs) < Len(a.left.secs)
  <1> DEFINE left == a.left
             new == a.new
             secs == left.secs
             m == Len(secs)
             s == secs[m]
             size == Min({a.need, s.len})
             t == Sec(s.start, size)
             b == take(a)
  <1>1. /\ Good(left) /\ Good(new) /\ a.need \in Nat \ {0} /\ new.len + a.need = num
        /\ Points(new) \subseteq Points(o) /\ Points(left) = Points(o) \ Points(new)
        /\ \A x \in Points(new), y \in Points(left) : x < y
    BY DEF Handing
  <1>2. secs \in Seq(Sections) /\ m \in Nat \ {0} /\ m \in 1 .. m /\ left.ok = TRUE
    <2>1. left.ok = TRUE
      BY <1>1 DEF Good, Objects
    <2>2. secs \in Seq(Sections)
      BY <1>1, GoodFacts
    <2>3. m \in Nat \ {0}
      BY <2>2, EmptySeq
    <2> HIDE DEF m
    <2>4. m \in 1 .. m
      BY <2>3
    <2> QED
      BY <2>1, <2>2, <2>3, <2>4
  <1>3. s.len \in Nat \ {0}
    BY <1>2, ListFacts
  <1>4. size = IF a.need <= s.len THEN a.need ELSE s.len
    BY <1>1, <1>3 DEF Min
  <1>5. size \in Nat \ {0} /\ size <= s.len /\ size <= a.need
    BY <1>1, <1>3, <1>4
  <1>6. Last(secs) = s
    BY DEF Last
  <1>7. /\ b.need = a.need - size
        /\ b.left = List(Front(secs) \o Part(s.start + size, s.len - size), left.len - size, left.ok)
        /\ b.new = plus_section(new, t)
    BY <1>6 DEF take
  <1> HIDE DEF size, b
  <1>8. /\ t \in Sections /\ SecPoints(t) \subseteq Points(left)
        /\ \A x \in SecPoints(t), y \in Points(left) \ SecPoints(t) : x < y
        /\ minus_section(left, t)
             = List(Front(secs) \o Part(s.start + size, s.len - size), left.len - size, left.ok)
    BY SMTT(30), <1>1, <1>5, LowerEnd
  <1>9. Good(b.left) /\ Points(b.left) = Points(left) \ SecPoints(t)
    BY <1>1, <1>7, <1>8, MinusSection
  <1>10. Good(b.new) /\ Points(b.new) = Points(new) \cup SecPoints(t) /\ b.new.len = new.len + size
    <2>1. Points(new) \cap SecPoints(t) = {}
      BY <1>1, <1>8
    <2>2. t.len = size
      BY SecFields
    <2> HIDE DEF t
    <2> QED
      BY <1>1, <1>7, <1>8, <2>1, <2>2, PlusSection
  <1>11. b.need \in Nat /\ b.new.len + b.need = num
    <2>1. new.len \in Nat
      BY <1>1, GoodFacts
    <2>2. b.need = a.need - size /\ b.new.len = new.len + size
      BY <1>7, <1>10
    <2>3. a.need \in Nat /\ size \in Nat /\ size <= a.need /\ new.len + a.need = num
      BY <1>1, <1>5
    <2> HIDE DEF new
    <2> QED
      BY <2>1, <2>2, <2>3
  <1>12. /\ Points(b.new) \subseteq Points(o)
         /\ Points(b.left) = Points(o) \ Points(b.new)
         /\ \A x \in Points(b.new), y \in Points(b.left) : x < y
    <2> HIDE DEF t
    <2> QED
      BY <1>1, <1>8, <1>9, <1>10
  <1>13. Handing(o, num, b)
    BY <1>9, <1>10, <1>11, <1>12 DEF Handing
  <1>14. CASE a.need <= s.len
    <2>1. b.need = 0
      BY <1>1, <1>4, <1>7, <1>14
    <2> QED
      BY <1>13, <2>1 DEF b
  <1>15. CASE ~(a.need <= s.len)
    <2>1. ~(s.len - size > 0)
      BY <1>3, <1>4, <1>15
    <2>2. Part(s.start + size, s.len - size) = <<>>
      BY <2>1 DEF Part
    <2> DEFINE front == SubSeq(secs, 1, m - 1)
    <2>3. front \in Seq(Sections) /\ Len(front) = m - 1
      <3>1. \A i \in 1 .. m - 1 : secs[i] \in Sections
        BY <1>2, ListFacts
      <3>2. front \in Seq(Sections) /\ Len(front) = IF 1 <= m - 1 THEN m - 1 - 1 + 1 ELSE 0
        BY <1>2, <3>1, SubSeqProperties
      <3> HIDE DEF front
      <3> QED
        BY <1>2, <3>2
    <2>4. Front(secs) = front
      BY DEF Front
    <2> HIDE DEF front
    <2>5. front \o <<>> = front
      BY <2>3, ConcatEmptySeq
    <2>6. b.left = List(front, left.len - size, left.ok)
      BY <1>7, <2>2, <2>4, <2>5
    <2>7. b.left.secs = front
      BY <2>6 DEF List
    <2>8. Len(b.left.secs) < m
      BY <1>2, <2>3, <2>7
    <2> QED
      BY <1>13, <2>8 DEF b
  <1> QED
    BY <1>14, <1>15

\* alloc hands out the lowest points, as many as asked for, or nothing.
LEMMA AllocFacts ==
  ASSUME NEW o, Good(o), NEW num \in Nat
  PROVE  LET done == alloc(o, num)
         IN  /\ Good(done.left) /\ Good(done.new)
             /\ Points(done.new) \subseteq Points(o)
             /\ Points(done.left) = Points(o) \ Points(done.new)
             /\ Cardinality(Points(done.new)) = IF num > o.len THEN 0 ELSE num
             /\ \A x \in Points(done.new), y \in Points(done.left) : x < y
  <1> DEFINE done == alloc(o, num)
             n == Len(o.secs)
             none == Untaken(o, num)
  <1>1. o.secs \in Seq(Sections) /\ n \in Nat /\ o.len \in Nat
    BY GoodFacts, ListFacts
  <1>2. /\ none.left = o /\ none.new = Empty /\ none.need = num
    BY DEF Untaken
  <1>3. Handing(o, num, none)
    BY <1>2, EmptyFacts DEF Handing
  <1>4. CASE num > o.len
    <2>1. done = none
      BY <1>4 DEF alloc, Untaken
    <2> HIDE DEF done, none
    <2>2. Cardinality(Points(done.new)) = 0
      BY <1>2, <2>1, EmptyFacts, FS_EmptySet
    <2> QED
      BY <1>3, <1>4, <2>1, <2>2 DEF Handing, done
  <1>5. CASE ~(num > o.len)
    <2>1. PICK after : /\ done = after[n]
                       /\ after[0] = none
                       /\ \A k \in 1 .. n : after[k] = AllocStep(after[k - 1])
      BY <1>1, <1>5, AllocLoop
    <2> DEFINE So(k) == /\ Handing(o, num, after[k])
                        /\ after[k].need = 0 \/ Len(after[k].left.secs) + k <= n
               S == {k \in Nat : k <= n => So(k)}
    <2> HIDE DEF none, done
    <2>2. 0 \in S
      <3>1. n + 0 <= n
        BY <1>1
      <3> QED
        BY <1>2, <1>3, <2>1, <3>1
    <2>3. ASSUME NEW k \in Nat, k \in S PROVE k + 1 \in S
      <3>1. ASSUME k + 1 <= n PROVE So(k + 1)
        <4> DEFINE a == after[k]
        <4>1. k + 1 \in 1 .. n /\ k <= n /\ k + 1 - 1 = k
          BY <1>1, <3>1
        <4>2. So(k)
          BY <2>3, <4>1
        <4>3. after[k + 1] = AllocStep(a)
          BY <2>1, <4>1
        <4>4. CASE a.need = 0
          BY <4>2, <4>3, <4>4 DEF AllocStep
        <4>5. CASE a.need # 0
          <5>1. Handing(o, num, a) /\ Len(a.left.secs) + k <= n
            BY <4>2, <4>5
          <5>2. after[k + 1] = take(a)
            BY <4>3, <4>5 DEF AllocStep
          <5>3. a.left.secs # <<>>
            <6>1. Good(a.left) /\ Good(a.new) /\ a.new.len + a.need = num /\ a.need \in Nat
                  /\ Points(a.left) = Points(o) \ Points(a.new) /\ Points(a.new) \subseteq Points(o)
              BY <5>1 DEF Handing
            <6>2. ASSUME a.left.secs = <<>> PROVE FALSE
              <7>1. Len(a.left.secs) = 0
                BY <6>2
              <7>2. \A p : ~In(a.left.secs, p)
                BY <7>1 DEF In
              <7>3. Points(a.left) = {}
                BY <6>1, <7>2, GoodFacts
              <7>4. Points(a.new) = Points(o)
                BY <6>1, <7>3
              <7>5. a.new.len = o.len
                BY <6>1, <7>4 DEF Good
              <7> QED
                BY <1>1, <1>5, <4>5, <6>1, <7>5
            <6> QED
              BY <6>2
          <5>4. /\ Handing(o, num, take(a))
                /\ take(a).need = 0 \/ Len(take(a).left.secs) < Len(a.left.secs)
            BY <4>5, <5>1, <5>3, TakeFacts
          <5>5. Len(take(a).left.secs) \in Nat /\ Len(a.left.secs) \in Nat
            BY <5>1, <5>4, GoodFacts, ListFacts DEF Handing
          <5>6. take(a).need = 0 \/ Len(take(a).left.secs) + (k + 1) <= n
            <6> DEFINE x == Len(take(a).left.secs)
                       y == Len(a.left.secs)
            <6>1. x \in Nat /\ y \in Nat /\ n \in Nat /\ y + k <= n
              BY <1>1, <5>1, <5>5
            <6>2. take(a).need = 0 \/ x < y
              BY <5>4
            <6> HIDE DEF x, y, n
            <6>3. x < y => x + (k + 1) <= n
              BY <6>1
            <6> QED
              BY <6>2, <6>3 DEF x
          <5> QED
            BY <5>2, <5>4, <5>6
        <4> QED
          BY <4>4, <4>5
      <3> HIDE DEF So
      <3> QED
        BY <3>1
    <2>4. So(n)
      <3> HIDE DEF S, So
      <3>1. n \in S
        BY <1>1, <2>2, <2>3, Induct
      <3> QED
        BY <1>1, <3>1 DEF S
    <2>5. Handing(o, num, done) /\ (done.need = 0 \/ Len(done.left.secs) + n <= n)
      BY <2>1, <2>4
    <2>6. /\ Good(done.left) /\ Good(done.new) /\ done.need \in Nat /\ done.new.len + done.need = num
          /\ Points(done.new) \subseteq Points(o)
          /\ Points(done.left) = Points(o) \ Points(done.new)
          /\ \A x \in Points(done.new), y \in Points(done.left) : x < y
      BY <2>5 DEF Handing
    <2>7. done.need = 0
      <3>1. ASSUME done.need # 0 PROVE FALSE
        <4>1. Len(done.left.secs) \in Nat
          BY <2>6, GoodFacts, ListFacts
        <4>2. Len(done.left.secs) = 0
          <5> DEFINE x == Len(done.left.secs)
          <5>1. x \in Nat /\ n \in Nat /\ x + n <= n
            BY <1>1, <2>5, <3>1, <4>1
          <5> HIDE DEF x, n
          <5>2. x = 0
            BY <5>1
          <5> QED
            BY <5>2 DEF x
        <4>3. \A p : ~In(done.left.secs, p)
          BY <4>2 DEF In
        <4>4. Points(done.left) = {}
          BY <2>6, <4>3, GoodFacts
        <4>5. Points(done.new) = Points(o)
          BY <2>6, <4>4
        <4>6. done.new.len = o.len
          BY <2>6, <4>5 DEF Good
        <4> QED
          BY <1>1, <1>5, <2>6, <3>1, <4>6
      <3> QED
        BY <3>1
    <2>8. Cardinality(Points(done.new)) = num
      <3>1. done.new.len \in Nat /\ Cardinality(Points(done.new)) = done.new.len
        BY <2>6, GoodFacts
      <3> QED
        BY <2>6, <2>7, <3>1
    <2> QED
      BY <1>5, <2>6, <2>8 DEF done
  <1> QED
    BY <1>4, <1>5

-------------------------------------------------------------------------------
(* operator+=(offset).                                                     *)

LEMMA Shifted ==
  ASSUME NEW o, Good(o), NEW num \in Nat, \A s \in Range(o.secs) : End(s) + num <= N
  PROVE  /\ Good(shift(o, num))
         /\ Points(shift(o, num)) = {p + num : p \in Points(o)}
  <1> DEFINE n == Len(o.secs)
             secs == [i \in 1 .. n |-> Sec(o.secs[i].start + num, o.secs[i].len)]
             moved == List(secs, o.len, TRUE)
  <1>1. /\ o.secs \in Seq(Sections) /\ Gapped(o.secs) /\ o.len \in Nat
        /\ \A p : p \in Points(o) <=> p \in Int /\ In(o.secs, p)
        /\ IsFiniteSet(Points(o)) /\ Cardinality(Points(o)) = o.len
    BY GoodFacts
  <1>2. /\ n \in Nat /\ DOMAIN o.secs = 1 .. n
        /\ \A i \in 1 .. n : /\ o.secs[i].start \in Nat /\ o.secs[i].len \in Nat \ {0}
                             /\ End(o.secs[i]) \in Nat /\ o.secs[i].start < End(o.secs[i])
    BY <1>1, ListFacts
  <1>3. \A i \in 1 .. n : o.secs[i] \in Range(o.secs)
    BY <1>2 DEF Range
  <1>4. shift(o, num) = moved
    <2>1. o.ok = TRUE
      BY DEF Good, Objects
    <2> QED
      BY <1>2, <2>1 DEF shift
  <1>5. ASSUME NEW i \in 1 .. n
        PROVE  /\ secs[i] \in Sections
               /\ secs[i].start = o.secs[i].start + num /\ End(secs[i]) = End(o.secs[i]) + num
    <2> DEFINE a == o.secs[i].start
               l == o.secs[i].len
    <2>1. a \in Nat /\ l \in Nat \ {0} /\ a + l + num <= N
      BY <1>2, <1>3 DEF End
    <2>2. secs[i] = Sec(a + num, l) /\ End(o.secs[i]) = a + l
      BY DEF End
    <2> HIDE DEF a, l, secs
    <2>3. a + num \in Nat /\ (a + num) + l <= N /\ (a + num) + l = a + l + num
      BY <2>1, PointsAssumption
    <2>4. Sec(a + num, l) \in Sections
      BY <2>1, <2>3, SectionFacts
    <2>5. secs[i].start = a + num /\ End(secs[i]) = a + l + num
      BY <2>2, <2>3, SecFields
    <2> QED
      BY <2>2, <2>4, <2>5 DEF a
  <1>6. secs \in Seq(Sections) /\ Len(secs) = n
    <2>1. \A i \in 1 .. n : secs[i] \in Sections
      BY <1>5
    <2>2. secs = [i \in 1 .. n |-> secs[i]]
      OBVIOUS
    <2> HIDE DEF secs
    <2>3. secs \in [1 .. n -> Sections]
      BY <2>1, <2>2
    <2> QED
      BY <1>2, <2>3
  <1> HIDE DEF secs
  <1>7. Gapped(secs)
    <2>1. ASSUME NEW i \in 1 .. n, NEW j \in 1 .. n, i < j PROVE End(secs[j]) < secs[i].start
      <3>1. End(o.secs[j]) < o.secs[i].start
        BY <1>1, <2>1 DEF Gapped
      <3> QED
        BY SMTT(30), <1>2, <1>5, <3>1
    <2> QED
      BY <1>6, <2>1 DEF Gapped
  <1>8. ASSUME NEW p \in Int, NEW i \in 1 .. n
        PROVE  Within(secs[i], p + num) <=> Within(o.secs[i], p)
    BY <1>2, <1>5 DEF Within
  <1>9. moved.secs = secs /\ moved.len = o.len /\ moved \in Objects
    <2>1. moved.secs = secs /\ moved.len = o.len
      BY DEF List
    <2>2. moved \in Objects
      BY <1>1, <1>6, ListObject
    <2> QED
      BY <2>1, <2>2
  <1> HIDE DEF moved
  <1>10. \A p : p \in Points(moved) <=> p \in Int /\ In(secs, p)
    BY <1>6, <1>9, PointsFacts
  <1>11. \A p \in Int : In(secs, p + num) <=> In(o.secs, p)
    BY <1>6, <1>8 DEF In
  <1>12. Points(moved) = {p + num : p \in Points(o)}
    <2>1. ASSUME NEW q \in Points(moved) PROVE q \in {p + num : p \in Points(o)}
      <3>1. q - num \in Int /\ q - num + num = q
        BY <1>10
      <3>2. q - num \in Points(o)
        BY <1>1, <1>10, <1>11, <3>1
      <3> QED
        BY <3>1, <3>2
    <2>2. ASSUME NEW p \in Points(o) PROVE p + num \in Points(moved)
      BY SMTT(30), <1>1, <1>10, <1>11
    <2> QED
      BY <2>1, <2>2
  <1>13. Cardinality(Points(moved)) = o.len
    <2> DEFINE S == Points(o)
               T == Points(moved)
               f == [p \in S |-> p + num]
    <2>1. \A p \in S : p \in Int
      BY <1>1
    <2>2. f \in Bijection(S, T)
      <3>1. f \in [S -> T]
        BY <1>12
      <3>2. \A x, y \in S : f[x] = f[y] => x = y
        BY <2>1
      <3>3. \A q \in T : \E p \in S : f[p] = q
        BY <1>12
      <3> HIDE DEF f, S, T
      <3> QED
        BY <3>1, <3>2, <3>3, Fun_IsBij
    <2>3. ExistsBijection(S, T)
      BY <2>2 DEF ExistsBijection
    <2> HIDE DEF S, T
    <2>4. IsFiniteSet(S) /\ Cardinality(S) = o.len
      BY <1>1 DEF S
    <2>5. Cardinality(T) = Cardinality(S)
      BY <2>3, <2>4, FS_Bijection
    <2> QED
      BY <2>4, <2>5 DEF T
  <1> QED
    BY <1>4, <1>6, <1>7, <1>9, <1>12, <1>13 DEF Good

-------------------------------------------------------------------------------
(* The inductive invariant.                                                *)

LEMMA ListsAreGood == \A o \in Lists : Good(o)
  <1> TAKE o \in Lists
  <1>1. /\ o.secs \in UNION {[1 .. k -> Sections] : k \in 0 .. (N + 1) \div 2}
        /\ o.len \in 0 .. N
        /\ check_sections(o.secs) /\ o.len = Cardinality(Points(o))
    BY DEF Lists
  <1>2. o.secs \in Seq(Sections)
    <2> PICK k \in 0 .. (N + 1) \div 2 : o.secs \in [1 .. k -> Sections]
      BY <1>1
    <2>1. k \in Nat
      OBVIOUS
    <2>2. o.secs \in UNION {[1 .. n -> Sections] : n \in Nat}
      BY <2>1
    <2> QED
      BY <2>2, SeqDef
  <1>3. o \in Objects
    <2>1. o = List(o.secs, o.len, TRUE)
      BY DEF Lists, List
    <2>2. o.len \in Nat
      BY <1>1
    <2>3. List(o.secs, o.len, TRUE) \in Objects
      BY <1>2, <2>2, ListObject
    <2> QED
      BY <2>1, <2>3
  <1>4. Gapped(o.secs)
    BY <1>1, <1>2, GappedIffChecked
  <1> QED
    BY <1>1, <1>3, <1>4 DEF Good

\* Of a call in progress: its argument is a list as callers build it.
ArgumentGood ==
  /\ Good(call.arg) /\ call.num \in Nat
  /\ call.op \in {"erase", "has"} => \E s \in Sections : call.arg = Lone(s)
  /\ call.op = "has_point" => \E p \in 0 .. N - 1 : call.arg = Lone(Sec(p, 1))
  /\ call.op = "erase" => Points(call.arg) \subseteq Points(self)
  /\ call.op = "shift" => \A s \in Range(self.secs) : End(s) + call.num <= N

IInv == Good(self) /\ Good(got) /\ ArgumentGood

LEMMA PointSections == \A p \in 0 .. N - 1 : Sec(p, 1) \in Sections
  BY SectionFacts, PointsAssumption

LEMMA CallsFacts ==
  ASSUME NEW c \in Calls
  PROVE  /\ Good(c.arg) /\ c.num \in Nat
         /\ c.op \in {"erase", "has"} => \E s \in Sections : c.arg = Lone(s)
         /\ c.op = "has_point" => \E p \in 0 .. N - 1 : c.arg = Lone(Sec(p, 1))
  <1>1. CASE c \in [op : {"add", "remove"}, arg : Lists, num : {0}]
    BY <1>1, ListsAreGood
  <1>2. CASE c \in [op : {"erase", "has"}, arg : {Lone(s) : s \in Sections}, num : {0}]
    BY <1>2, LoneFacts
  <1>3. CASE c \in [op : {"has_point"}, arg : {Lone(Sec(p, 1)) : p \in 0 .. N - 1}, num : {0}]
    BY <1>3, LoneFacts, PointSections
  <1>4. CASE c \in [op : {"alloc"}, arg : {Empty}, num : 0 .. N + 1]
    BY <1>4, EmptyFacts, PointsAssumption
  <1>5. CASE c \in [op : {"shift"}, arg : {Empty}, num : 1 .. N]
    BY <1>5, EmptyFacts, PointsAssumption
  <1>6. CASE c \in [op : {"reload"}, arg : {Empty}, num : {0}]
    BY <1>6, EmptyFacts
  <1> QED
    BY <1>1, <1>2, <1>3, <1>4, <1>5, <1>6 DEF Calls

LEMMA IdleFacts ==
  /\ Idle.op = "none" /\ Idle.arg = Empty /\ Idle.num = 0
  /\ call = Idle => ArgumentGood
  <1>1. Idle.op = "none" /\ Idle.arg = Empty /\ Idle.num = 0
    BY DEF Idle
  <1> QED
    BY <1>1, EmptyFacts DEF ArgumentGood

LEMMA InitGood == Init => IInv
  BY EmptyFacts, IdleFacts DEF Init, IInv

\* What each call answers and leaves behind.
LEMMA Returned ==
  ASSUME IInv, NEW op, NEW newSelf, NEW answer, Return(op, newSelf, answer),
         Good(newSelf), Good(answer)
  PROVE  IInv'
  <1>1. self' = newSelf /\ got' = answer /\ call' = Idle
    BY DEF Return
  <1>2. Good(self') /\ Good(got')
    BY <1>1
  <1>3. Good(self)' /\ Good(got)'
    BY <1>2
  <1>4. ArgumentGood'
    <2>1. call'.op = "none" /\ call'.arg = Empty /\ call'.num = 0
      BY <1>1, IdleFacts
    <2>2. Good(call'.arg)
      BY <2>1, EmptyFacts
    <2> QED
      BY <2>1, <2>2 DEF ArgumentGood
  <1> QED
    BY <1>3, <1>4 DEF IInv

LEMMA ErasedSection ==
  ASSUME IInv, call.op \in {"erase", "has"}
  PROVE  /\ call.arg.secs[1] \in Sections
         /\ Points(call.arg) = SecPoints(call.arg.secs[1])
  BY LoneFacts DEF IInv, ArgumentGood

LEMMA CallGood ==
  ASSUME IInv, NEW c \in Calls, Call(c)
  PROVE  IInv'
  <1>1. /\ call' = c /\ got' = Empty /\ self' = self
        /\ c.op = "erase" => Points(c.arg) \subseteq Points(self)
        /\ c.op = "shift" => \A s \in Range(self.secs) : End(s) + c.num <= N
    BY DEF Call
  <1>2. Good(self)' /\ Good(got)'
    <2>1. Good(self') /\ Good(got')
      BY <1>1, EmptyFacts DEF IInv
    <2> QED
      BY <2>1
  <1>3. ArgumentGood'
    BY <1>1, CallsFacts DEF ArgumentGood
  <1> QED
    BY <1>2, <1>3 DEF IInv

LEMMA NextGood == IInv /\ [Next]_vars => IInv'
  <1> SUFFICES ASSUME IInv, [Next]_vars PROVE IInv'
    OBVIOUS
  <1>0. Good(self) /\ Good(got) /\ Good(call.arg) /\ call.num \in Nat /\ Good(Empty)
    BY EmptyFacts DEF IInv, ArgumentGood
  <1>1. ASSUME NEW c \in Calls, Call(c) PROVE IInv'
    BY <1>1, CallGood
  <1>2. CASE Insert
    <2>1. Good(plus(self, call.arg))
      BY <1>0, Plus
    <2> QED
      BY <1>0, <1>2, <2>1, Returned DEF Insert
  <1>3. CASE Subtract
    <2>1. Good(minus(self, call.arg))
      BY <1>0, Minus
    <2> QED
      BY <1>0, <1>3, <2>1, Returned DEF Subtract
  <1>4. CASE Erase
    <2>1. call.op = "erase"
      BY <1>4 DEF Erase, Return
    <2>2. Points(call.arg) \subseteq Points(self)
      BY <2>1 DEF IInv, ArgumentGood
    <2>3. Good(minus_section(self, call.arg.secs[1]))
      BY <1>0, <2>1, <2>2, ErasedSection, MinusSection
    <2> QED
      BY <1>0, <1>4, <2>3, Returned DEF Erase
  <1>5. CASE Alloc
    <2> DEFINE done == alloc(self, call.num)
    <2>1. Good(done.left) /\ Good(done.new)
      BY <1>0, AllocFacts
    <2>2. Return("alloc", done.left, done.new)
      BY <1>5 DEF Alloc
    <2> HIDE DEF done
    <2> QED
      BY <2>1, <2>2, Returned
  <1>6. CASE AskSection
    <2> DEFINE answer == IF is_section_insections(self, call.arg.secs[1]) THEN call.arg ELSE Empty
    <2>1. Good(answer)
      BY <1>0
    <2>2. Return("has", self, answer)
      BY <1>6 DEF AskSection
    <2> HIDE DEF answer
    <2> QED
      BY <1>0, <2>1, <2>2, Returned
  <1>7. CASE AskPoint
    <2> DEFINE answer == IF find_pos(self.secs, call.arg.secs[1].start).in THEN call.arg ELSE Empty
    <2>1. Good(answer)
      BY <1>0
    <2>2. Return("has_point", self, answer)
      BY <1>7 DEF AskPoint
    <2> HIDE DEF answer
    <2> QED
      BY <1>0, <2>1, <2>2, Returned
  <1>8. CASE Shift
    <2>1. call.op = "shift"
      BY <1>8 DEF Shift, Return
    <2>2. Good(shift(self, call.num))
      BY <1>0, <2>1, Shifted DEF IInv, ArgumentGood
    <2> QED
      BY <1>0, <1>8, <2>2, Returned DEF Shift
  <1>9. CASE Reload
    <2>1. Good(reload(self))
      BY <1>0, Reloaded
    <2> QED
      BY <1>0, <1>9, <2>1, Returned DEF Reload
  <1>10. CASE UNCHANGED vars
    <2>1. self' = self /\ got' = got /\ call' = call
      BY <1>10 DEF vars
    <2> QED
      BY <2>1 DEF IInv, ArgumentGood
  <1> QED
    BY <1>1, <1>2, <1>3, <1>4, <1>5, <1>6, <1>7, <1>8, <1>9, <1>10 DEF Next

-------------------------------------------------------------------------------
(* The theorems.                                                           *)

LEMMA InvariantHolds == Spec => []IInv
  BY InitGood, NextGood, PTL DEF Spec

\* Whatever calls are made, the lists of algo_sections (algo_sections.cpp) stay as
\* find_pos and the merges need them: sections that are not empty, the biggest start
\* first, a gap between any two, and the length kept beside the list exact.
THEOREM CanonicalHolds == Spec => []Canonical
  <1>1. ASSUME NEW o, Good(o)
        PROVE  /\ Range(o.secs) \subseteq Sections
               /\ check_sections(o.secs)
               /\ o.len = Cardinality(Points(o))
    <2>1. Range(o.secs) \subseteq Sections
      BY <1>1, GoodFacts, ListFacts DEF Range
    <2>2. check_sections(o.secs)
      BY <1>1, GoodFacts, GappedIffChecked
    <2> QED
      BY <1>1, <2>1, <2>2 DEF Good
  <1>2. IInv => Canonical
    BY <1>1 DEF IInv, Canonical
  <1> QED
    BY <1>2, InvariantHolds, PTL

LEMMA AbsFields ==
  ASSUME NEW c
  PROVE  AbsCall(c).op = c.op /\ AbsCall(c).pts = Points(c.arg) /\ AbsCall(c).num = c.num
  BY DEF AbsCall

LEMMA AbsIdle == AbsCall(Idle) = P!Idle
  <1>1. AbsCall(Idle) = [op |-> "none", pts |-> {}, num |-> 0]
    BY IdleFacts, EmptyFacts DEF AbsCall
  <1> QED
    BY <1>1 DEF P!Idle

\* No assertion of the code has failed.
LEMMA NotFailed == IInv => self.ok = TRUE /\ got.ok = TRUE
  BY DEF IInv, Good, Objects

LEMMA InitImplements == Init => P!PInit
  <1> SUFFICES ASSUME Init PROVE P!PInit
    OBVIOUS
  <1>1. Points(self) = {} /\ Points(got) = {}
    BY EmptyFacts DEF Init
  <1>2. AbsCall(call) = P!Idle
    BY AbsIdle DEF Init
  <1>3. (~(self.ok /\ got.ok)) = FALSE
    BY InitGood, NotFailed
  <1> QED
    BY <1>1, <1>2, <1>3 DEF P!PInit

LEMMA CallImplements ==
  ASSUME IInv, IInv', NEW c \in Calls, Call(c)
  PROVE  P!PCall
  <1>1. call = Idle /\ call' = c /\ got' = Empty /\ self' = self
    BY DEF Call
  <1>2. AbsCall(call) = P!Idle
    BY <1>1, AbsIdle
  <1>3. AbsCall(call)' \in AbsCalls
    BY <1>1 DEF AbsCalls
  <1>4. Points(got)' = {} /\ Points(self)' = Points(self)
    BY <1>1, EmptyFacts
  <1>5. (~(self.ok /\ got.ok))' = (~(self.ok /\ got.ok))
    <2>1. self.ok = TRUE /\ got.ok = TRUE
      BY NotFailed
    <2>2. Empty.ok = TRUE
      BY EmptyFacts DEF Good, Objects
    <2> QED
      BY <1>1, <2>1, <2>2
  <1> QED
    BY <1>2, <1>3, <1>4, <1>5 DEF P!PCall

\* A return does to the points what the abstract one does.
LEMMA ReturnImplements ==
  ASSUME IInv, IInv', NEW op, NEW newSelf, NEW answer, Return(op, newSelf, answer)
  PROVE  /\ AbsCall(call).op = op
         /\ AbsCall(call)' = P!Idle
         /\ (~(self.ok /\ got.ok))' = (~(self.ok /\ got.ok))
         /\ Points(self)' = Points(newSelf) /\ Points(got)' = Points(answer)
  <1>1. call.op = op /\ self' = newSelf /\ got' = answer /\ call' = Idle
    BY DEF Return
  <1>2. AbsCall(call)' = AbsCall(Idle)
    BY <1>1
  <1>3. self.ok = TRUE /\ got.ok = TRUE
    BY NotFailed
  <1>4. self'.ok = TRUE /\ got'.ok = TRUE
    <2>1. Good(self') /\ Good(got')
      BY DEF IInv
    <2> QED
      BY <2>1 DEF Good, Objects
  <1> QED
    BY <1>1, <1>2, <1>3, <1>4, AbsFields, AbsIdle

LEMMA NextImplements ==
  IInv /\ IInv' /\ [Next]_vars => [P!PCall \/ P!PReturn]_(P!pvars)
  <1> SUFFICES ASSUME IInv, IInv', [Next]_vars PROVE [P!PCall \/ P!PReturn]_(P!pvars)
    OBVIOUS
  <1>0. Good(self) /\ Good(call.arg) /\ call.num \in Nat
    BY DEF IInv, ArgumentGood
  <1>a. /\ AbsCall(call).pts = Points(call.arg) /\ AbsCall(call).num = call.num
        /\ AbsCall(call).op = call.op
    BY AbsFields
  <1>e. Points(Empty) = {}
    BY EmptyFacts
  <1>1. ASSUME NEW c \in Calls, Call(c) PROVE P!PCall
    BY <1>1, CallImplements
  <1>2. CASE Insert
    <2>1. Return("add", plus(self, call.arg), Empty)
      BY <1>2 DEF Insert
    <2>2. Points(plus(self, call.arg)) = Points(self) \cup Points(call.arg)
      BY <1>0, Plus
    <2>3. /\ AbsCall(call).op = "add" /\ AbsCall(call)' = P!Idle
          /\ (~(self.ok /\ got.ok))' = (~(self.ok /\ got.ok))
          /\ Points(self)' = Points(self) \cup Points(call.arg) /\ Points(got)' = {}
      BY <1>e, <2>1, <2>2, ReturnImplements
    <2> QED
      BY <1>a, <2>3 DEF P!PAdd, P!PReturn
  <1>3. CASE Subtract
    <2>1. Return("remove", minus(self, call.arg), Empty)
      BY <1>3 DEF Subtract
    <2>2. Points(minus(self, call.arg)) = Points(self) \ Points(call.arg)
      BY <1>0, Minus
    <2>3. /\ AbsCall(call).op = "remove" /\ AbsCall(call)' = P!Idle
          /\ (~(self.ok /\ got.ok))' = (~(self.ok /\ got.ok))
          /\ Points(self)' = Points(self) \ Points(call.arg) /\ Points(got)' = {}
      BY <1>e, <2>1, <2>2, ReturnImplements
    <2> QED
      BY <1>a, <2>3 DEF P!PRemove, P!PReturn
  <1>4. CASE Erase
    <2>1. Return("erase", minus_section(self, call.arg.secs[1]), Empty)
      BY <1>4 DEF Erase
    <2>2. call.op = "erase"
      BY <2>1 DEF Return
    <2>3. Points(minus_section(self, call.arg.secs[1])) = Points(self) \ Points(call.arg)
      <3>1. Points(call.arg) \subseteq Points(self)
        BY <2>2 DEF IInv, ArgumentGood
      <3> QED
        BY <1>0, <2>2, <3>1, ErasedSection, MinusSection
    <2>4. /\ AbsCall(call).op = "erase" /\ AbsCall(call)' = P!Idle
          /\ (~(self.ok /\ got.ok))' = (~(self.ok /\ got.ok))
          /\ Points(self)' = Points(self) \ Points(call.arg) /\ Points(got)' = {}
      BY <1>e, <2>1, <2>3, ReturnImplements
    <2> QED
      BY <1>a, <2>4 DEF P!PRemove, P!PReturn
  <1>5. CASE Alloc
    <2> DEFINE done == alloc(self, call.num)
    <2>1. Return("alloc", done.left, done.new)
      BY <1>5 DEF Alloc
    <2>2. /\ Points(done.new) \subseteq Points(self)
          /\ Points(done.left) = Points(self) \ Points(done.new)
          /\ Cardinality(Points(done.new)) = IF call.num > self.len THEN 0 ELSE call.num
          /\ \A x \in Points(done.new), y \in Points(done.left) : x < y
      BY <1>0, AllocFacts
    <2> HIDE DEF done
    <2>3. /\ AbsCall(call).op = "alloc" /\ AbsCall(call)' = P!Idle
          /\ (~(self.ok /\ got.ok))' = (~(self.ok /\ got.ok))
          /\ Points(self)' = Points(done.left) /\ Points(got)' = Points(done.new)
      BY <2>1, ReturnImplements
    <2>4. self.len = Cardinality(Points(self))
      BY <1>0 DEF Good
    <2>c. \A S : P!Cardinality(S) = Cardinality(S)
      BY DEF P!Cardinality, Cardinality
    <2>5. P!PAlloc
      BY <1>a, <2>2, <2>3, <2>4, <2>c DEF P!PAlloc
    <2> QED
      BY <2>3, <2>5 DEF P!PReturn
  <1>6. CASE AskSection
    <2> DEFINE answer == IF is_section_insections(self, call.arg.secs[1]) THEN call.arg ELSE Empty
    <2>1. Return("has", self, answer)
      BY <1>6 DEF AskSection
    <2>2. call.op = "has"
      BY <2>1 DEF Return
    <2>3. Points(answer) = IF Points(call.arg) \subseteq Points(self) THEN Points(call.arg) ELSE {}
      BY <1>0, <1>e, <2>2, ErasedSection, AllInside
    <2> HIDE DEF answer
    <2>4. /\ AbsCall(call).op = "has" /\ AbsCall(call)' = P!Idle
          /\ (~(self.ok /\ got.ok))' = (~(self.ok /\ got.ok))
          /\ Points(self)' = Points(self) /\ Points(got)' = Points(answer)
      BY <2>1, ReturnImplements
    <2> QED
      BY <1>a, <2>3, <2>4 DEF P!PHas, P!PReturn
  <1>7. CASE AskPoint
    <2> DEFINE s == call.arg.secs[1]
               found == find_pos(self.secs, s.start)
               answer == IF found.in THEN call.arg ELSE Empty
    <2>1. Return("has_point", self, answer)
      BY <1>7 DEF AskPoint
    <2>2. call.op = "has_point"
      BY <2>1 DEF Return
    <2>3. PICK p \in 0 .. N - 1 : call.arg = Lone(Sec(p, 1))
      BY <2>2 DEF IInv, ArgumentGood
    <2>4. Sec(p, 1) \in Sections /\ Sec(p, 1).start = p /\ End(Sec(p, 1)) = p + 1
      BY PointSections, SecFields
    <2>5. Points(call.arg) = {p} /\ s = Sec(p, 1)
      <3>1. Points(call.arg) = SecPoints(Sec(p, 1)) /\ s = Sec(p, 1)
        BY <2>3, <2>4, LoneFacts
      <3>2. SecPoints(Sec(p, 1)) = p .. p + 1 - 1
        BY <2>4 DEF SecPoints
      <3>3. p .. p + 1 - 1 = {p}
        BY PointsAssumption
      <3> QED
        BY <3>1, <3>2, <3>3
    <2>6. found.in <=> p \in Points(self)
      <3>1. s.start = p /\ p \in Nat
        BY <2>4, <2>5
      <3>2. /\ self.secs \in Seq(Sections) /\ Gapped(self.secs)
            /\ p \in Points(self) <=> In(self.secs, p)
        BY <1>0, <3>1, GoodFacts
      <3>3. Found(self.secs, p, find_pos(self.secs, p))
        BY <3>1, <3>2, FindPos
      <3> QED
        BY <3>1, <3>2, <3>3 DEF Found
    <2> HIDE DEF found
    <2>7. Points(answer) = IF Points(call.arg) \subseteq Points(self) THEN Points(call.arg) ELSE {}
      BY <1>e, <2>5, <2>6
    <2> HIDE DEF answer
    <2>8. /\ AbsCall(call).op = "has_point" /\ AbsCall(call)' = P!Idle
          /\ (~(self.ok /\ got.ok))' = (~(self.ok /\ got.ok))
          /\ Points(self)' = Points(self) /\ Points(got)' = Points(answer)
      BY <2>1, ReturnImplements
    <2> QED
      BY <1>a, <2>7, <2>8 DEF P!PHas, P!PReturn
  <1>8. CASE Shift
    <2>1. Return("shift", shift(self, call.num), Empty)
      BY <1>8 DEF Shift
    <2>2. call.op = "shift"
      BY <2>1 DEF Return
    <2>3. Points(shift(self, call.num)) = {p + call.num : p \in Points(self)}
      <3>1. \A s \in Range(self.secs) : End(s) + call.num <= N
        BY <2>2 DEF IInv, ArgumentGood
      <3> QED
        BY <1>0, <3>1, Shifted
    <2>4. /\ AbsCall(call).op = "shift" /\ AbsCall(call)' = P!Idle
          /\ (~(self.ok /\ got.ok))' = (~(self.ok /\ got.ok))
          /\ Points(self)' = {p + call.num : p \in Points(self)} /\ Points(got)' = {}
      BY <1>e, <2>1, <2>3, ReturnImplements
    <2> QED
      BY <1>a, <2>4 DEF P!PShift, P!PReturn
  <1>9. CASE Reload
    <2>1. Return("reload", reload(self), Empty)
      BY <1>9 DEF Reload
    <2>2. Points(reload(self)) = Points(self)
      BY <1>0, Reloaded
    <2>3. /\ AbsCall(call).op = "reload" /\ AbsCall(call)' = P!Idle
          /\ (~(self.ok /\ got.ok))' = (~(self.ok /\ got.ok))
          /\ Points(self)' = Points(self) /\ Points(got)' = {}
      BY <1>e, <2>1, <2>2, ReturnImplements
    <2> QED
      BY <2>3 DEF P!PReload, P!PReturn
  <1>10. CASE UNCHANGED vars
    BY <1>10 DEF vars, P!pvars
  <1> QED
    BY <1>1, <1>2, <1>3, <1>4, <1>5, <1>6, <1>7, <1>8, <1>9, <1>10 DEF Next

\* The list behaves as the set of its points (algo_sections.h): add and remove are
\* union and difference, alloc hands out the lowest points or none, a question is
\* answered truthfully, and no assertion of algo_section or algo_sections ever fails.
THEOREM ListIsASet == Spec => PointSpec
  BY InvariantHolds, InitImplements, NextImplements, PTL DEF Spec, PointSpec, P!PSpec

===============================================================================
