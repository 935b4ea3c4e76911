---------------------------------- MODULE Crc8 ----------------------------------
(***************************************************************************)
(* The check byte of a write to the battery monitor (crypto.c and          *)
(* _I2C_WRITE_BYTE of bq76920.c) and, external, the check the chip makes.  *)
(*                                                                         *)
(* Exclusive or is the symmetric difference of two words.  The chip takes  *)
(* address, register, data and check byte for one polynomial over GF(2)    *)
(* and divides it by x^8 + x^2 + x + 1; the code works byte by byte.       *)
(***************************************************************************)
EXTENDS BitSets, FiniteSetsExt

CONSTANTS Address,   \* BQ76920_I2C_ADDRESS
          Registers  \* that are written

ASSUME CrcAssumption == /\ Address \in 0 .. 255
                        /\ Registers \subseteq 0 .. 255

-------------------------------------------------------------------------------
\* The polynomial loses its term x.
WrongPolynomialMutant(in_crc, in_data) ==
  LET data[n \in 0 .. 8] ==
        IF n = 0 THEN SymDiff(in_crc, in_data)
        ELSE LET byte == data[n - 1]
                 left == Shifted(byte \ {7}, 1)
             IN IF 7 \in byte THEN SymDiff(left, {0, 2}) ELSE left
  IN data[8]

crc8_ccit_update(in_crc, in_data) ==
  LET data[n \in 0 .. 8] ==
        IF n = 0 THEN SymDiff(in_crc, in_data)
        ELSE LET byte == data[n - 1]
                 left == Shifted(byte \ {7}, 1)
             IN IF 7 \in byte THEN SymDiff(left, {0, 1, 2}) ELSE left
  IN data[8]

\* buf[2] of _I2C_WRITE_BYTE.
CheckByte(reg, data) ==
  crc8_ccit_update(crc8_ccit_update(crc8_ccit_update({}, BitsOf(Address)), reg), data)
-------------------------------------------------------------------------------
\* What is left of a word of 32 bits by the polynomial, from the top bit down.
Remainder(word) ==
  LET rest[top \in 7 .. 31] ==
        IF top = 31 THEN word
        ELSE LET above == rest[top + 1]
             IN IF top + 1 \in above THEN SymDiff(above, Shifted({8, 2, 1, 0}, top - 7))
                ELSE above
  IN rest[7]

\* Address, register, data and check byte, first the most significant.
Frame(reg, data, check) ==
  Shifted(BitsOf(Address), 24) \union Shifted(reg, 16) \union Shifted(data, 8) \union check

ChipAccepts(reg, data, check) == Remainder(Frame(reg, data, check)) = {}

\* The writes of the driver whose check byte the chip does not expect.
Refused ==
  {<<reg, data>> \in Registers \X Byte :
     ~ChipAccepts(BitsOf(reg), data, CheckByte(BitsOf(reg), data))}
===============================================================================
