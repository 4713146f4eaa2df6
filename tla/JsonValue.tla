------------------------------- MODULE JsonValue -------------------------------
(***************************************************************************)
(* data/lt_data/json_obj.cpp: one value, and what its operations do to it; *)
(* the recursions over the values it holds are in JsonObj.                 *)
(*                                                                         *)
(* A json_obj is <<type, value>>, of type "unknown" (no value), "string",  *)
(* "int", "llong", "bool", "dic" (a function from keys) or "array" (a      *)
(* sequence).  A text is what rapidjson (external) makes of the characters:*)
(* a tree of <<kind, value>>, or a text it cannot parse.  Numbers are      *)
(* IntBits and LongBits wide.  An operation that throws returns Throw.     *)
(*                                                                         *)
(* Keys are strings, as in every use; their order in std::map, and doubles,*)
(* which nothing dumps, are left out.                                      *)
(***************************************************************************)
EXTENDS Integers, Sequences

CONSTANTS IntBits, LongBits     \* 0 < IntBits < LongBits

Throw == <<"throw">>

Unknown == <<"unknown">>
Str(s) == <<"string", s>>
Num(n) == <<"int", n>>
LLong(n) == <<"llong", n>>
Bool(b) == <<"bool", b>>
Dic(f) == <<"dic", f>>
Array(s) == <<"array", s>>

type(o) == o[1]
val(o) == o[2]
is_empty(o) == type(o) = "unknown"

\* json_obj(key, value).
Pair(k, o) == Dic([x \in {k} |-> o])

Emptied(o, t) == IF is_empty(o) THEN (IF t = "dic" THEN Dic(<<>>) ELSE Array(<<>>)) ELSE o

-------------------------------------------------------------------------------
(* Access and modification.                                                *)

\* operator[](key) = v; the key is there afterwards, with an unknown value if
\* the caller only looks (v = Unknown and the key is new).
Assign(o, k, v) ==
  LET d == Emptied(o, "dic") IN
  IF type(d) # "dic" THEN Throw
  ELSE Dic([x \in DOMAIN val(d) \cup {k} |-> IF x = k THEN v ELSE val(d)[x]])

Lookup(o, k) ==
  IF type(o) = "dic" /\ k \in DOMAIN val(o) THEN o ELSE Assign(o, k, Unknown)

append(o, v) ==
  LET a == Emptied(o, "array") IN
  IF type(a) # "array" THEN Throw ELSE Array(Append(val(a), v))

are_types_same(t, u) == t = u \/ {t, u} = {"int", "llong"}

\* merge: keys already there keep their value.
merge(o, other) ==
  LET m == Emptied(o, "dic") IN
  IF type(m) # type(other) \/ type(m) \notin {"dic", "array"} THEN Throw
  ELSE IF type(m) = "array" THEN Array(val(m) \o val(other))
  ELSE Dic([k \in DOMAIN val(m) \cup DOMAIN val(other) |->
              IF k \in DOMAIN val(m) THEN val(m)[k] ELSE val(other)[k]])

-------------------------------------------------------------------------------
(* To text and back, one level.                                            *)

\* Texts that do not parse: no characters, and a torn or foreign sector.
NoText == <<"">>
Garbage == <<"garbage">>

\* The text of o, dump giving those of the values in it.
DumpNode(o, dump(_)) ==
  CASE type(o) \in {"string", "bool"} -> o
    [] type(o) \in {"int", "llong"} -> <<"number", val(o)>>
    [] type(o) = "dic" -> <<"object", [k \in DOMAIN val(o) |-> dump(val(o)[k])]>>
    [] type(o) = "array" -> <<"list", [i \in DOMAIN val(o) |-> dump(val(o)[i])]>>
    [] OTHER -> <<"null">>

\* n as a signed number of w bits.
Signed(n, w) == ((n + 2 ^ (w - 1)) % 2 ^ w) - 2 ^ (w - 1)

\* IsInt or IsUint: an int, cast from the unsigned value.
LoadNumber(n) ==
  IF - 2 ^ (IntBits - 1) <= n /\ n < 2 ^ IntBits THEN Num(Signed(n, IntBits))
  ELSE LLong(Signed(n, LongBits))

\* The json_obj of a rapidjson value, load giving those of its members; a null
\* anywhere in it throws.
LoadNode(t, load(_)) ==
  CASE t[1] \in {"string", "bool"} -> t
    [] t[1] = "number" -> LoadNumber(t[2])
    [] t[1] \in {"object", "list"} ->
         LET members == [k \in DOMAIN t[2] |-> load(t[2][k])] IN
         IF \E k \in DOMAIN members : members[k] = Throw THEN Throw
         ELSE IF t[1] = "object" THEN Dic(members) ELSE Array(members)
    [] OTHER -> Throw

\* dumps and loads; at the top a number beyond the signed range throws too.
DumpsWith(o, dump(_)) == IF is_empty(o) THEN NoText ELSE DumpNode(o, dump)

LoadsWith(t, load(_)) ==
  IF t \in {NoText, Garbage} \/ (t[1] = "number" /\ t[2] >= 2 ^ (LongBits - 1))
  THEN Throw ELSE LoadNode(t, load)
===============================================================================
