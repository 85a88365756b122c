---------------------------- MODULE Containers ----------------------------
(***************************************************************************)
(* The containers the program is built on, which know nothing of each      *)
(* other: the pool of the nodes of a tree, and the two hash tables.        *)
(***************************************************************************)
EXTENDS NodePool, HashTables

VARIABLE container  \* the one a behavior is about, the other one being at rest

containerVars == <<container, vars, allVars>>

InitContainers ==
  /\ Init /\ InitTables
  /\ \/ /\ container = "pool"
        /\ hash = CHOOSE h \in HashFunctions : TRUE
        /\ stringHash = CHOOSE h \in StringHashes : TRUE
        /\ kind = "counters"
     \/ /\ container = "tables"
        /\ pool = OneNode(CHOOSE root \in Data : TRUE)

NextContainers ==
  \/ container = "pool" /\ Next /\ UNCHANGED <<container, allVars>>
  \/ container = "tables" /\ NextTables /\ UNCHANGED <<container, vars>>

ContainersSpec == InitContainers /\ [][NextContainers]_containerVars
=============================================================================
