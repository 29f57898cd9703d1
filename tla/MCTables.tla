------------------------------ MODULE MCTables -------------------------------
(* Instances of Descriptors and UsbIds for TLC: the two tables that gousb makes of *)
(* data from outside.  They have nothing in common; a behaviour fills one of them. *)
EXTENDS Descriptors, UsbIds

VARIABLE table  \* which one

TablesInit ==
    /\ table \in {"descriptors", "names"}
    /\ Init
    /\ IdsInit
    /\ table = "names" => cfgNum = CHOOSE n \in CfgNumbers : TRUE

TablesNext ==
    \/ table = "descriptors" /\ Next /\ UNCHANGED <<idsVars, table>>
    \/ table = "names" /\ IdsNext /\ UNCHANGED <<vars, table>>

TablesSpec == TablesInit /\ [][TablesNext]_<<vars, idsVars, table>>
=============================================================================
