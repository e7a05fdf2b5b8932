------------------------------- MODULE MCLzw -------------------------------
(* Small instances of Lzw: bytes of four bits, so codes start at 5 bits.   *)
EXTENDS Lzw

\* Neighbours 1 apart, then 3, 5, 7: every pair is new and makes an entry.
Walk(n) == [i \in 1 .. n |-> ((i - 1) * (2 * ((i - 1) \div 16) + 1)) % 16]

Texts == {<<>>, Walk(15), Walk(47), Walk(64)}
\* One more than fits in a table of codes of the starting width.
OneTooMany == {Walk(17)}
=============================================================================
