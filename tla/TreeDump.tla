------------------------------ MODULE TreeDump ------------------------------
(***************************************************************************)
(* DebugString (tree.cpp): a tree, or a window of it, in brackets.         *)
(***************************************************************************)
EXTENDS PrettyPrint

-----------------------------------------------------------------------------
(***************************************************************************)
(* DebugStringTraverse: the nodes start_node .. last_node in brackets. What *)
(* it writes besides nodes are these signs.                                *)
(***************************************************************************)
OPEN == -4
CLOSE == -5
DOTS == -6
CYCLE == -7

RECURSIVE DebugStringTraverse(_, _, _), DumpRow(_, _, _, _)

\* A bug: the row ends at the last node even though it is still to come.
DumpRow_StopsEarly(window, n, depth, i) ==
  LET shows     == n \in window.start_node .. window.last_node
      If(b, sq) == IF b THEN sq ELSE <<>>
  IN IF n >= window.last_node THEN <<>>
     ELSE If(shows, <<OPEN, n>>)
          \o If(nodes[n].first_child >= 0,
                DebugStringTraverse(window, nodes[n].first_child, depth + 1))
          \o If(shows, <<CLOSE>>)
          \o If(nodes[n].right_sib >= 0, DumpRow(window, nodes[n].right_sib, depth, i + 1))

\* Node n, the i-th of its row, and those right of it.
DumpRow(window, n, depth, i) ==
  LET shows     == n \in window.start_node .. window.last_node
      If(b, sq) == IF b THEN sq ELSE <<>>
      right     == nodes[n].right_sib
  IN IF n > window.last_node THEN <<>>
     ELSE If(shows, <<OPEN, n>>)
          \o If(nodes[n].first_child >= 0,
                DebugStringTraverse(window, nodes[n].first_child, depth + 1))
          \o If(shows, <<CLOSE>>)
          \o If(n = window.last_node /\ shows, <<DOTS>>)
          \o If(right >= 0, IF i = Cardinality(DOMAIN nodes) THEN <<CYCLE>>
                            ELSE DumpRow(window, right, depth, i + 1))

DebugStringTraverse(window, n, depth) ==
  IF depth = window.max_depth THEN <<DOTS>> ELSE DumpRow(window, n, depth, 0)

DebugString(window) == DebugStringTraverse(window, 0, 0)

\* What a dump says of the nodes: in whose brackets each of them is.
ReadDump(dump) ==
  FoldLeft(LAMBDA read, x :
             CASE x >= 0    -> [read EXCEPT !.open = Append(@, x),
                                            !.of = Append(@, IF read.open = <<>> THEN -1
                                                             ELSE Last(read.open))]
               [] x = CLOSE -> [read EXCEPT !.open = Front(@)]
               [] OTHER     -> read,
           [open |-> <<>>, of |-> <<>>], dump)

Depth(n) ==
  LET depth[m \in DOMAIN nodes] == IF m = 0 THEN 0 ELSE 1 + depth[nodes[m].parent] IN depth[n]

(***************************************************************************)
(* A dump shows the nodes it was asked for, each once and in their order,  *)
(* and the tree can be read back from its brackets. What has been cut off  *)
(* at its end or below is marked.                                          *)
(***************************************************************************)
DumpIsExact ==
  status # "running" =>
    \A start \in 0 .. 1, last \in 1 .. 4, max_depth \in {2, 32} :
      LET window == [start_node |-> start, last_node |-> last, max_depth |-> max_depth]
          dump   == DebugString(window)
          shown  == SelectSeq([i \in 1 .. Cardinality(DOMAIN nodes) |-> i - 1],
                              LAMBDA n : start <= n /\ n <= last /\ Depth(n) < max_depth)
          read   == ReadDump(dump)
      IN /\ SelectSeq(dump, LAMBDA x : x >= 0) = shown
         /\ read.open = <<>>
         /\ \A i \in DOMAIN shown :
              read.of[i] = IF nodes[shown[i]].parent < start THEN -1 ELSE nodes[shown[i]].parent
         /\ \A n \in DOMAIN nodes : n > last \/ Depth(n) >= max_depth => DOTS \in ToSet(dump)
         /\ CYCLE \notin ToSet(dump)
=============================================================================
