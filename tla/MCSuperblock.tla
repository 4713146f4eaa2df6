----------------------------- MODULE MCSuperblock ------------------------------
(* Superblocks of at most three blocks, saved and loaded by two threads; values  *)
(* and texts are those of json_obj, with numbers of 3 and 5 bits.              *)
EXTENDS MultiSuper, Integers, TLC

CONSTANTS IntBits, LongBits

ASSUME WidthAssumption == 0 < IntBits /\ IntBits < LongBits

J == INSTANCE JsonObj

\* What is saved: a pool's length and a list, of two lengths, one of them beyond
\* the narrow integer; a length that only an unsigned narrow integer holds; a
\* member that was only looked at; a bool; and a list too long.
Pool(n) == J!merge(J!Pair("len", J!LLong(n)), J!Pair("vec", J!append(J!Unknown, J!Str("s"))))
Saved == {Pool(2), Pool(9), J!Pair("len", J!LLong(6)), J!Lookup(Pool(2), "b"),
          J!Assign(J!Unknown, "on", J!Bool(TRUE)),
          J!merge(Pool(2), J!Pair("b", J!append(J!append(J!Unknown, J!Num(1)), J!Num(2))))}

\* Every text a superblock can come to hold: of whole and of torn writes.
Whole == {J!Dumps(o) : o \in Saved} \cup {J!NoText}
Once == UNION {J!Torn(t, u) : t \in Whole, u \in Whole}
OnMedium == Once \cup UNION {J!Torn(t, u) : t \in Once, u \in Whole}
Loaded == {IF J!Loads(t) = J!Throw THEN J!Unknown ELSE J!Loads(t) : t \in OnMedium}

\* json_obj's operators, tabulated.
DumpsOf == [o \in Saved |-> J!Dumps(o)]
LoadsOf == [t \in OnMedium |-> J!Loads(t)]
SamePairs == {p \in (Saved \cup Loaded) \X (Saved \cup Loaded) : J!Same(p[1], p[2])}
StorableObjs == {o \in Saved : J!Storable(o)}
FitTexts == {t \in Whole : J!Size(t) <= 4}   \* a superblock has room for four values

MCThrow == J!Throw
MCUnknown == J!Unknown
MCBlank == J!NoText
MCObjs == Saved
MCTexts == OnMedium
MCValues == Saved \cup Loaded
MCDumps(o) == DumpsOf[o]
MCLoads(t) == LoadsOf[t]
MCSame(a, b) == <<a, b>> \in SamePairs
MCStorable(o) == o \in StorableObjs
MCTorn(old, new) == J!Torn(old, new)
MCFits(t) == t \in FitTexts

\* json_obj over all values of two levels: what is storable survives the text.
Leaves == {J!Unknown, J!Str("s"), J!Bool(TRUE)} \cup {J!Num(n) : n \in -4 .. 3}
            \cup {J!LLong(n) : n \in -16 .. 15}
Level(S) == S \cup {J!Array(s) : s \in {<<>>} \cup {<<x>> : x \in S} \cup {<<x, x>> : x \in S}}
              \cup {J!Pair(k, x) : k \in {"len", "b"}, x \in S}
ASSUME RoundTrip ==
  \A o \in Level(Level(Leaves)) : J!Storable(o) => J!Same(J!Loads(J!Dumps(o)), o)

Symmetry == Permutations(Threads)
===============================================================================
