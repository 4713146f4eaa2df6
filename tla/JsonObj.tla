-------------------------------- MODULE JsonObj --------------------------------
(***************************************************************************)
(* data/lt_data/json_obj.cpp: what it does to a whole value, in recursions *)
(* over the values it holds (JsonValue).                                   *)
(***************************************************************************)
EXTENDS JsonValue, FiniteSetsExt

\* operator==: two unknowns differ, and so do two bools.
RECURSIVE Same(_, _)
Same(a, b) ==
  /\ are_types_same(type(a), type(b))
  /\ CASE type(a) \in {"string", "int", "llong"} -> val(a) = val(b)
       [] type(a) = "array" -> /\ Len(val(a)) = Len(val(b))
                               /\ \A i \in DOMAIN val(a) : Same(val(a)[i], val(b)[i])
       [] type(a) = "dic" -> /\ DOMAIN val(a) = DOMAIN val(b)
                             /\ \A k \in DOMAIN val(a) : Same(val(a)[k], val(b)[k])
       [] OTHER -> FALSE

-------------------------------------------------------------------------------
(* To text and back.                                                       *)

RECURSIVE DumpValue(_)
DumpValue(o) == DumpNode(o, DumpValue)

Dumps(o) == DumpsWith(o, DumpValue)

RECURSIVE LoadValue(_)
LoadValue(t) == LoadNode(t, LoadValue)

Loads(t) == LoadsWith(t, LoadValue)

\* How much room a text takes, in values.
RECURSIVE Size(_)
Size(t) ==
  IF t[1] \in {"object", "list"}
  THEN 1 + FoldSet(LAMBDA k, n : n + Size(t[2][k]), 0, DOMAIN t[2])
  ELSE 1

\* What the medium may hold after the write of `new` over `old` was cut short:
\* one of them, sectors of both that do not parse, or sectors of both that do.
Torn(old, new) ==
  {old, new, Garbage} \cup
  IF old[1] # "object" \/ new[1] # "object" THEN {}
  ELSE {<<"object", [k \in DOMAIN old[2] \cup DOMAIN new[2] |->
                       IF k \in K THEN new[2][k] ELSE old[2][k]]>> :
          K \in {S \in SUBSET DOMAIN new[2] : DOMAIN new[2] \ DOMAIN old[2] \subseteq S}}

-------------------------------------------------------------------------------
\* What survives dumps and loads, and compares equal to itself: no unknown, no
\* bool, and no number that only an unsigned int holds.
RECURSIVE Storable(_)
Storable(o) ==
  CASE type(o) = "string" -> TRUE
    [] type(o) \in {"int", "llong"} ->
         ~(2 ^ (IntBits - 1) <= val(o) /\ val(o) < 2 ^ IntBits)
    [] type(o) \in {"dic", "array"} -> \A k \in DOMAIN val(o) : Storable(val(o)[k])
    [] OTHER -> FALSE
===============================================================================
