----------------------------- MODULE Dictionary -----------------------------
(* What the callers of hash.c count on: a set of items, one for each name, *)
(* in which an item is looked up, replaced and taken out by its name.      *)

CONSTANTS Items, Name, NoItem

VARIABLES dict, result

Named(item) == {i \in dict : Name[i] = Name[item]}
Only(S) == IF S = {} THEN NoItem ELSE CHOOSE i \in S : TRUE

Init == dict = {} /\ result = NoItem

FindItem(key) ==
    /\ result' = Only(Named(key))
    /\ UNCHANGED dict

Insert(item) ==
    /\ dict' = (dict \ Named(item)) \cup {item}
    /\ result' = Only(Named(item))

Delete(item) ==
    /\ dict' = dict \ Named(item)
    /\ result' = Only(Named(item))

DeleteItems ==
    /\ dict' = {}
    /\ result' = NoItem

Next ==
    \/ \E item \in Items : FindItem(item) \/ Insert(item) \/ Delete(item)
    \/ DeleteItems

Spec == Init /\ [][Next]_<<dict, result>>
=============================================================================
