-------------------------- MODULE MCFileTransport --------------------------
(***************************************************************************)
(* A small instance of FileTransport for TLC: two readers or writers, no,  *)
(* one or two processes that answer, two requests of different length, one *)
(* of no bytes.                                                            *)
(***************************************************************************)
EXTENDS FileTransport, TLC

FileSymmetry == Permutations(Threads) \cup Permutations(Peers)

TwoLengths == 1 :> 0 @@ 2 :> 3
=============================================================================
