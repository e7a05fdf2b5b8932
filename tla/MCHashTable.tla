---------------------------- MODULE MCHashTable ----------------------------
(* Small instances of HashTable: "foo" is the name of two items.           *)
EXTENDS HashNames, TLC

CONSTANTS foo, foo2, bar, baz

Three == {"foo", "bar", "baz"}
Four == {foo, foo2, bar, baz}
NameOf == foo :> "foo" @@ foo2 :> "foo" @@ bar :> "bar" @@ baz :> "baz"
AsIs == [n \in Three |-> n]
=============================================================================
