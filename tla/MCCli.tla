------------------------------- MODULE MCCli -------------------------------
(***************************************************************************)
(* The instance on which Cli is checked.                                   *)
(***************************************************************************)
EXTENDS Cli

\* At the low-charge floor and just below it, with and without a storm.
EdgeContexts == [soc : {14, 15}, storm : BOOLEAN]

\* All rows, and fewer than there are.
EdgeLimits == {-1, 1}
=============================================================================
