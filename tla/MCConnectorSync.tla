--------------------------- MODULE MCConnectorSync ---------------------------
(***************************************************************************)
(* Small instances of ConnectorSync: one folder, and a renumbering that    *)
(* reverses the order of the messages.                                     *)
(***************************************************************************)
EXTENDS ConnectorSync, TLC

MCMsg == 1..MaxUid
MCMessageAt(f, g, u) == IF g % 2 = 1 THEN u ELSE MaxUid + 1 - u

Symmetry == Permutations(Run)
=============================================================================
