--------------------------- MODULE MCSurrogateKeys ---------------------------
(***************************************************************************)
(* Instances of SurrogateKeys: two keys on one path, two or three tags.    *)
(***************************************************************************)
EXTENDS SurrogateKeys, TLC

CONSTANTS k1, k2, a, ab, path, empty

MCKeys == {k1, k2}
MCTags == {a, ab, path, empty}
MCUri == [k \in MCKeys |-> path]
MCMatches == [k \in MCKeys |-> {k}]
MCNamed == [t \in MCTags |-> {}]

\* No tag begins with another, and none is purged without a header.
Apart == [t \in MCTags |-> {t}]
\* The tag ab begins with a.
Nested == [t \in MCTags |-> IF t = a THEN {a, ab} ELSE {t}]

With(tags, control) ==
  [tags |-> [h \in Headers |-> IF h = "Surrogate-Key" THEN tags ELSE <<>>],
   control |-> control]
MCResponses == {With(<<a>>, "cacheable"), With(<<>>, "none"), With(<<ab>>, "no-store")}
OneTag == {With(<<a>>, "none")}
Grouped == {With(<<ab>>, "none")}

ListA == {<<a>>}
TwoLists == {<<a>>, <<ab, a, path>>}

Alike == Permutations(Storers) \union Permutations(Purgers)
==============================================================================
