----------------------------- MODULE HashNames -----------------------------
(* HashTable where the comparison function tells all names apart, as that  *)
(* of variables and functions does.                                        *)
EXTENDS HashTable

ASSUME ComparisonAssumption ==
    \A m, n \in Names : Folded[m] = Folded[n] => m = n

(* "This guarantees that the increment can potentially hit every slot":    *)
(* hash.c, of an odd increment and a size that is a power of two.          *)
ASSUME ProbesAssumption ==
    \A size \in Sizes, h1 \in Hashes, h2 \in Hashes :
        \A s \in Slots(size) : \E i \in Slots(size) : Probed(h1, h2, size, i) = s
=============================================================================
