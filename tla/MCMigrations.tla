---------------------------- MODULE MCMigrations ----------------------------
(***************************************************************************)
(* The migration chain with two connections to one address.  The rows of   *)
(* different tables never meet in a migration, so at most two of them are  *)
(* followed at a time.                                                     *)
(***************************************************************************)
EXTENDS Migrations, TLC

Symmetry == Permutations(Boxes)

FewRows ==
  Cardinality(db.rows.breaches) + Cardinality(Connected(db.rows))
    + Cardinality({db.rows.mail, db.rows.attachment} \ {None}) <= 2
=============================================================================
