------------------------------ MODULE MCIndex ------------------------------
(* TLC instances of CodeIndex: two indexers, two calls, or one of each. *)
EXTENDS CodeIndex

CONSTANTS i1, i2, g1, g2

\* A function before the file's class, or after it: one symbol stays in place.
TwoTexts == [t \in Versions |-> IF t = 1 THEN {0, 8} ELSE {0}]
OwnModels == [x \in Indexers |-> IF x = i1 THEN "nomic" ELSE "bge"]
Pairs == {{i1, i2}, {i1, g1}, {g1, g2}}
OneOfEach == {{i1, g1}}
=============================================================================
