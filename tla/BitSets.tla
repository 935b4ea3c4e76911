--------------------------------- MODULE BitSets ---------------------------------
(***************************************************************************)
(* A word of a bus as the set of its bits that are 1: or is the union, and *)
(* with a complement the difference, and a shift adds to every member.     *)
(***************************************************************************)
EXTENDS Integers

Byte == SUBSET (0 .. 7)

BitsOf(n) == {bit \in 0 .. 15 : (n \div 2^bit) % 2 = 1}

Shifted(word, by) == {bit + by : bit \in word}
===============================================================================
