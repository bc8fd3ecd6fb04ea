--------------------------- MODULE MCKernelModule ---------------------------
(***************************************************************************)
(* Small instances of KernelModule for TLC.                                *)
(***************************************************************************)
EXTENDS KernelModule

(* A disk that can be mounted, one with another magic, one whose inode     *)
(* bitmap does not have the root's bit.                                    *)
SomeDisks ==
    {[magic |-> TRUE, root |-> TRUE, bitmaps |-> n] : n \in 0 .. 2}
    \cup {[magic |-> FALSE, root |-> TRUE, bitmaps |-> 1], [magic |-> TRUE, root |-> FALSE, bitmaps |-> 1]}
=============================================================================
