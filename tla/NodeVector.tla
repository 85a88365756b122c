----------------------------- MODULE NodeVector -----------------------------
(***************************************************************************)
(* The vector nodes_ of a TreeStorage (phog/tree/tree.h) with AllocateNode *)
(* and DeallocateNode, and the list of freed nodes that is threaded        *)
(* through it. A freed node keeps its place in the vector; its field       *)
(* `type' is the next freed node and its field `parent' marks it. A node   *)
(* that is freed at the end of the vector is popped instead.               *)
(*                                                                         *)
(* A pool is a record: nodes_, its size, and first_free_node_.             *)
(***************************************************************************)
EXTENDS Integers, Sequences

TREEPOINTER_DEALLOCATED == -3
NoFreeNode == -1

IsFreed(pool, id) == pool.nodes[id].parent = TREEPOINTER_DEALLOCATED
Live(pool) == {id \in 0 .. pool.size - 1 : ~IsFreed(pool, id)}

\* TreeStorage(): the vector holds the root alone.
OneNode(root) ==
  [size |-> 1, nodes |-> [id \in 0 .. 0 |-> root], first_free_node |-> NoFreeNode]

\* The node that AllocateNode returns, and the pool that it leaves.
AllocatedId(pool) ==
  IF pool.first_free_node # NoFreeNode THEN pool.first_free_node ELSE pool.size

\* A bug: the list is advanced after the node has been overwritten.
AllocateNode_LateAdvance(pool, data) ==
  IF pool.first_free_node # NoFreeNode
  THEN [pool EXCEPT !.first_free_node = data.type,
                    !.nodes[pool.first_free_node] = data]
  ELSE [pool EXCEPT !.size = @ + 1,
                    !.nodes = [id \in 0 .. pool.size |-> IF id = pool.size THEN data ELSE @[id]]]

AllocateNode(pool, data) ==
  IF pool.first_free_node # NoFreeNode
  THEN [pool EXCEPT !.first_free_node = pool.nodes[pool.first_free_node].type,
                    !.nodes[pool.first_free_node] = data]
  ELSE [pool EXCEPT !.size = @ + 1,
                    !.nodes = [id \in 0 .. pool.size |-> IF id = pool.size THEN data ELSE @[id]]]

DeallocateNode(pool, id) ==
  IF id = pool.size - 1
  THEN [pool EXCEPT !.size = id, !.nodes = [n \in 0 .. id - 1 |-> @[n]]]
  ELSE [pool EXCEPT !.nodes[id].parent = TREEPOINTER_DEALLOCATED,
                    !.nodes[id].type = pool.first_free_node,
                    !.first_free_node = id]
=============================================================================
