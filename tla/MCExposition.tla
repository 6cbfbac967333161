---------------------------- MODULE MCExposition ----------------------------
(***************************************************************************)
(* The instance on which Exposition is checked.                            *)
(***************************************************************************)
EXTENDS Exposition

AllModes == <<"self_consumption", "savings", "full_backup">>
TwoPairs == <<"success", "rejected">>

\* Importing with every meter; exporting in another mode; and a gateway without
\* the optional meters.
ThreeStates ==
  {[soc |-> 5, mode |-> "self_consumption", age |-> 0, energy |-> 4,    net |-> 2],
   [soc |-> 6, mode |-> "savings",          age |-> 0, energy |-> 0,    net |-> -2],
   [soc |-> 6, mode |-> "savings",          age |-> 1, energy |-> None, net |-> None]}

\* A row, and a day later none.
TwoCounts == {[l \in Elements(TwoPairs) |-> IF l = "success" THEN n ELSE 0] : n \in 0 .. 1}
=============================================================================
