------------------------------ MODULE NodePool ------------------------------
(***************************************************************************)
(* What the node pool of a TreeStorage promises to the operations on       *)
(* trees, whatever the order in which they allocate and deallocate.        *)
(***************************************************************************)
EXTENDS NodeVector

CONSTANTS
  Data,      \* what a node in use may hold (the links but `parent' are left out)
  MaxNodes   \* bound: the size the vector may grow to

ASSUME MaxNodesAssumption == MaxNodes \in Nat \ {0}

Node == [type : Int, parent : Int]

ASSUME DataIsLive ==
  Data \subseteq Node /\ \A d \in Data : d.parent # TREEPOINTER_DEALLOCATED

(***************************************************************************)
(* Any sequence of allocations and of deallocations of nodes in use. The   *)
(* root is never deallocated. `freed' is a history variable: the nodes     *)
(* that were freed and not popped, the latest first.                       *)
(***************************************************************************)
VARIABLES pool, freed
vars == <<pool, freed>>

Init ==
  /\ \E root \in Data : pool = OneNode(root)
  /\ freed = <<>>

Allocate(data) ==
  /\ AllocatedId(pool) < MaxNodes
  /\ pool' = AllocateNode(pool, data)
  /\ freed' = IF freed = <<>> THEN freed ELSE Tail(freed)

Deallocate(id) ==
  /\ id # 0
  /\ pool' = DeallocateNode(pool, id)
  /\ freed' = IF id = pool.size - 1 THEN freed ELSE <<id>> \o freed

Next ==
  \/ \E data \in Data : Allocate(data)
  \/ \E id \in Live(pool) : Deallocate(id)

Spec == Init /\ [][Next]_vars

-----------------------------------------------------------------------------
TypeOK ==
  /\ pool = [size |-> pool.size, nodes |-> pool.nodes, first_free_node |-> pool.first_free_node]
  /\ pool.size \in 1 .. MaxNodes
  /\ pool.nodes \in [0 .. pool.size - 1 -> Node]
  /\ pool.first_free_node \in Int
  /\ freed \in Seq(1 .. pool.size - 1)
  /\ ~IsFreed(pool, 0)

\* The list led by first_free_node_ is the sequence s.
ListIs(p, s) ==
  /\ p.first_free_node = IF s = <<>> THEN NoFreeNode ELSE s[1]
  /\ \A i \in 1 .. Len(s) :
       p.nodes[s[i]].type = IF i = Len(s) THEN NoFreeNode ELSE s[i + 1]

(***************************************************************************)
(* What CheckConsistency counts on: the list ends, it visits no node       *)
(* twice, and it visits the freed nodes of the vector and no others.       *)
(***************************************************************************)
FreeListIsExact ==
  /\ ListIs(pool, freed)
  /\ \A i, j \in 1 .. Len(freed) : freed[i] = freed[j] => i = j
  /\ \A id \in 0 .. pool.size - 1 :
       IsFreed(pool, id) <=> \E i \in 1 .. Len(freed) : freed[i] = id

(***************************************************************************)
(* No operation changes or moves a node in use: node ids are stable, which *)
(* is what every link and every traversal depends on, and an allocated     *)
(* node was not in use.                                                    *)
(***************************************************************************)
LiveNodesUntouched ==
  [][/\ \A id \in Live(pool) \intersect Live(pool') : pool'.nodes[id] = pool.nodes[id]
     /\ \E id \in 0 .. pool.size :
          \/ Live(pool') = Live(pool) \union {id} /\ id \notin Live(pool)
          \/ Live(pool') = Live(pool) \ {id} /\ id \in Live(pool)]_vars

-----------------------------------------------------------------------------
\* For the model checker: nodes whose labels may be mistaken for a node id or
\* for the end of the list of freed nodes.
MCData == [type : {-1, 1, 2}, parent : {0}]
=============================================================================
