---------------------------- MODULE MCInodeTable ----------------------------
(***************************************************************************)
(* A small instance of InodeTable for TLC: bytes of two bits, a scan of    *)
(* two bytes, a cache of three, and overflow in the fifth byte.  The       *)
(* mapping ends with the cache or goes past the overflow.                  *)
(***************************************************************************)
EXTENDS InodeTable, TLC

NameSymmetry == Permutations(Names)
=============================================================================
