-------------------------- MODULE MCBlockTransport --------------------------
(***************************************************************************)
(* Small instances of BlockTransport for TLC.  Two or three threads are    *)
(* enough for one to hold cn_sem while others queue; two pieces are enough *)
(* for a torn copy; a reply of three pieces exercises the clipping to      *)
(* SJFS_BLOCKSIZE.                                                         *)
(***************************************************************************)
EXTENDS BlockTransport, TLC

ThreadSymmetry == Permutations(Threads)
=============================================================================
