-------------------------- MODULE MCInstanceFiles --------------------------
(* Model-checking instances of InstanceFiles: a database and the rest of   *)
(* the data, a repair that keeps the database only and one that keeps all. *)
EXTENDS InstanceFiles

CONSTANTS db, rest

MCItems  == {db, rest}
MCScopes == {{db}, MCItems}
=============================================================================
