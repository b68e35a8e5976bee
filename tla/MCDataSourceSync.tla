-------------------------- MODULE MCDataSourceSync --------------------------
(* DataSourceSync on a small instance. *)
EXTENDS DataSourceSync

CONSTANTS f1, f2

TwoFiles == {f1, f2}
OneNested == {f2}

\* Two files with one name, and with names of their own.
OneName == [f \in Files |-> "name"]
OwnName == [f \in Files |-> f]
=============================================================================
