----------------------------- MODULE MCCurrentSense -----------------------------
(***************************************************************************)
(* TLC instance of CurrentSense: three rounds, so that what an earlier     *)
(* offset leaves is less than the difference of two currents; the words a  *)
(* failed transfer returns are none, one that makes a read of the write,   *)
(* one that locks HSR and one that lets two amplifiers calibrate.          *)
(***************************************************************************)
EXTENDS CurrentSense, TLC

MCDefaults == (DCR :> {}) @@ (HSR :> BitsOf(1023)) @@ (LSR :> BitsOf(2047))
              @@ (OCPCR :> BitsOf(345)) @@ (CSACR :> BitsOf(643))

MCGarbage == {{}, {15}, {11, 10, 9}, {13, 4, 3}}

MCCurrents == {Nothing, [a |-> 4, b |-> 0], [a |-> 0, b |-> 4]}
===============================================================================
