---------------------------- MODULE MCMaintenance ----------------------------
(***************************************************************************)
(* A small instance of Maintenance: the vacuums of two tables of one name  *)
(* in two databases, of one of them in two modes.                          *)
(***************************************************************************)
EXTENDS Maintenance

Vacuum(dbname, mode) ==
    [type |-> "vacuum", dbname |-> dbname, schema |-> "s", table |-> "t", index |-> None,
     mode |-> mode]

MCOperations == {Vacuum("d1", None), Vacuum("d1", "full"), Vacuum("d2", None)}

================================================================================
