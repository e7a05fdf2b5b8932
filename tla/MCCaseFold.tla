----------------------------- MODULE MCCaseFold -----------------------------
(* HashTable with names that differ in case only, which the comparison of  *)
(* files and cached strings takes for one and the hash functions do not.   *)
EXTENDS HashTable, TLC

CONSTANTS foo, FOO, bar

Three == {"foo", "FOO", "bar"}
Items3 == {foo, FOO, bar}
NameOf == foo :> "foo" @@ FOO :> "FOO" @@ bar :> "bar"
CaseFolded == [n \in Three |-> IF n = "FOO" THEN "foo" ELSE n]
=============================================================================
