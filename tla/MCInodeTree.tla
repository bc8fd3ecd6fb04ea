---------------------------- MODULE MCInodeTree ----------------------------
(***************************************************************************)
(* A small instance of InodeTree for TLC: a root and three more inodes are *)
(* enough for a directory in a directory and something to move over it,    *)
(* two names for two links to one file.                                    *)
(***************************************************************************)
EXTENDS InodeTree, TLC

TreeSymmetry == Permutations(Inodes) \cup Permutations(Names)
=============================================================================
