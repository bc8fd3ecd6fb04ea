-------------------------- MODULE MCHelperProcess --------------------------
(***************************************************************************)
(* A small instance of HelperProcess for TLC.  The command lines: no -n, a *)
(* size that needs no zero block, one that needs two, one below MIN_BLOCKS *)
(* and one without a file name.                                            *)
(***************************************************************************)
EXTENDS HelperProcess

Serve == [new |-> FALSE, size |-> 0, file |-> TRUE]
FormatThenServe(n) == [new |-> TRUE, size |-> n, file |-> TRUE]

AllCommandLines ==
    {Serve, FormatThenServe(6), FormatThenServe(3000), FormatThenServe(5),
     [new |-> FALSE, size |-> 0, file |-> FALSE]}

SmallDisks == {Absent, 8192}
=============================================================================
