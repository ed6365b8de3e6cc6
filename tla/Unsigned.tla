------------------------------ MODULE Unsigned ------------------------------
(***************************************************************************)
(* uint32_t arithmetic.  Word is the number of values of the type, 2^32 in *)
(* the code; a model takes a small one, larger than a minute as the real   *)
(* one is (2^32 = 4294967296 against 3538944000 ticks a minute).           *)
(***************************************************************************)
EXTENDS Integers

CONSTANT Word

ASSUME WordAssumption == Word \in Nat \ {0}

UInt == 0 .. Word - 1

(* a - b, for two values of the type. *)
USub(a, b) == IF a >= b THEN a - b ELSE a - b + Word
=============================================================================
