---------------------------- MODULE ResourceTree ----------------------------
(***************************************************************************)
(* What the Close methods of Context, Device, Config and Interface promise *)
(* together: the objects form a tree, an object is opened under one that   *)
(* is open, and is closed only when nothing under it is open any more.     *)
(***************************************************************************)
CONSTANTS Objects, Root, NULL

VARIABLES
    open,   \* the objects that are open
    parent  \* what each open object was opened under, or NULL

vars == <<open, parent>>

Init ==
    /\ open = {Root}
    /\ parent = [o \in Objects |-> NULL]

Open(o, p) ==
    /\ p \in open
    /\ o \notin open \cup {Root}
    /\ open' = open \cup {o}
    /\ parent' = [parent EXCEPT ![o] = p]

Close(o) ==
    /\ o \in open
    /\ \A q \in open : parent[q] # o
    /\ open' = open \ {o}
    /\ parent' = [parent EXCEPT ![o] = NULL]

Next == \E o \in Objects : Close(o) \/ \E p \in Objects : Open(o, p)

Spec == Init /\ [][Next]_vars
=============================================================================
