----------------------------- MODULE ActorIndex -----------------------------
(***************************************************************************)
(* ActorIndex (phog/tree/tree_index.h, tree_index.cpp): for one tree and   *)
(* one kind of symbol, the nodes of every symbol in the order in which     *)
(* TreeStorage::ForEachSubnodeOfNode comes to them, and for every node the *)
(* one before it. PREV_NODE_TYPE, PREV_NODE_VALUE and PREV_NODE_CONTEXT    *)
(* look earlier nodes up in it. One call of Build's callback, and one step *)
(* out of a node, is a step here.                                          *)
(***************************************************************************)
EXTENDS SlicedTraversal, Sequences

VARIABLES
  tree,                   \* what is indexed
  actor_kind,
  symbol_sequences_,      \* the nodes of each symbol that was met
  symbol_predecessors_,   \* an entry per node
  current_node,           \* of ForEachSubnodeOfNode
  index_pc                \* not built, at a node, leaving one, or built

index_vars == <<tree, actor_kind, symbol_sequences_, symbol_predecessors_, current_node, index_pc>>

\* SymbolSequencePredecessor(). Its symbol, -1, is no symbol of a node that
\* is indexed, and the one of every node that is not.
NoEntry == [indexed |-> FALSE, pred_position |-> -1]

NotBuilt ==
  /\ actor_kind = "none"
  /\ symbol_sequences_ = <<>>
  /\ symbol_predecessors_ = <<>>
  /\ current_node = 0
  /\ index_pc = "not built"

\* Build is called for one of the kinds that the programs need.
StartBuild ==
  /\ index_pc = "not built"
  /\ actor_kind' \in ActorKinds
  /\ symbol_predecessors_' = [n \in DOMAIN tree |-> NoEntry]
  /\ index_pc' = "visit"
  /\ UNCHANGED <<tree, symbol_sequences_, current_node>>

-----------------------------------------------------------------------------
\* The symbol of a node without a slice.
SymbolOf(n) == ActorSymbol(actor_kind, tree, NoSlice, n)

find_sequence(symbol) ==
  IF symbol \in DOMAIN symbol_sequences_ THEN symbol_sequences_[symbol] ELSE <<>>

Entry(symbol, pred) == [indexed |-> TRUE, symbol |-> symbol, pred_position |-> pred]

AddTo(symbol, n) ==
  symbol_sequences_' =
    [s \in DOMAIN symbol_sequences_ \union {symbol} |->
       IF s = symbol THEN Append(find_sequence(symbol), n) ELSE symbol_sequences_[s]]

\* A bug: the predecessor is read after the node has been added.
Index_SelfPredecessor(n) ==
  /\ AddTo(SymbolOf(n), n)
  /\ symbol_predecessors_' = [symbol_predecessors_ EXCEPT ![n] = Entry(SymbolOf(n), n)]

\* The callback, for a node that has a symbol.
Index(n) ==
  LET nodes == find_sequence(SymbolOf(n))
      last  == IF nodes = <<>> THEN -1 ELSE nodes[Len(nodes)]
  IN /\ AddTo(SymbolOf(n), n)
     /\ symbol_predecessors_' = [symbol_predecessors_ EXCEPT ![n] = Entry(SymbolOf(n), last)]

Visit ==
  /\ index_pc = "visit"
  /\ IF IsIndexed(actor_kind, SymbolOf(current_node)) THEN Index(current_node)
     ELSE UNCHANGED <<symbol_sequences_, symbol_predecessors_>>
  /\ IF tree[current_node].first_child >= 0
     THEN current_node' = tree[current_node].first_child /\ UNCHANGED index_pc
     ELSE index_pc' = "leave" /\ UNCHANGED current_node
  /\ UNCHANGED <<tree, actor_kind>>

Return ==
  /\ index_pc = "leave" /\ current_node = 0
  /\ index_pc' = "built"
  /\ UNCHANGED <<tree, actor_kind, symbol_sequences_, symbol_predecessors_, current_node>>

\* A bug: the walk looks to the right of the same node again.
LeaveUp_Stays ==
  /\ index_pc = "leave" /\ current_node # 0
  /\ tree[current_node].right_sib < 0
  /\ UNCHANGED index_vars

LeaveUp ==
  /\ index_pc = "leave" /\ current_node # 0
  /\ tree[current_node].right_sib < 0
  /\ current_node' = tree[current_node].parent
  /\ UNCHANGED <<tree, actor_kind, symbol_sequences_, symbol_predecessors_, index_pc>>

LeaveRight ==
  /\ index_pc = "leave" /\ current_node # 0
  /\ tree[current_node].right_sib >= 0
  /\ current_node' = tree[current_node].right_sib
  /\ index_pc' = "visit"
  /\ UNCHANGED <<tree, actor_kind, symbol_sequences_, symbol_predecessors_>>

BuildStep == StartBuild \/ Visit \/ Return \/ LeaveUp \/ LeaveRight

-----------------------------------------------------------------------------
(* ActorSymbolIterator::MoveLeft on the indexed tree.                      *)

\* std::lower_bound on an ascending sequence: how many are less than p.
LowerBound(seq, p) == Cardinality({i \in 1 .. Len(seq) : seq[i] < p})

\* get_symbol_pedecessor: the entry of p is for this symbol.
HasPredecessor(symbol, p) ==
  LET entry == symbol_predecessors_[p]
  IN IF entry.indexed THEN entry.symbol = symbol ELSE ~IsIndexed(actor_kind, symbol)

LookUp(symbol, p) ==
  LET nodes == find_sequence(symbol)
      n == LowerBound(nodes, p)
  IN IF n = 0 THEN Stay ELSE nodes[n]

IndexedMoveLeft(s, p) ==
  LET symbol == ActorSymbol(actor_kind, tree, s, p)
  IN IF HasPredecessor(symbol, p) THEN symbol_predecessors_[p].pred_position
     ELSE LookUp(symbol, p)

-----------------------------------------------------------------------------
\* std::lower_bound needs the order.
SequencesAreExact ==
  /\ \A symbol \in DOMAIN symbol_sequences_ :
       LET nodes == symbol_sequences_[symbol]
       IN \A i \in 1 .. Len(nodes) :
            /\ SymbolOf(nodes[i]) = symbol
            /\ i > 1 => nodes[i - 1] < nodes[i]
  /\ index_pc = "built" =>
       \A n \in DOMAIN tree : IsIndexed(actor_kind, SymbolOf(n)) =>
         \E i \in 1 .. Len(find_sequence(SymbolOf(n))) : find_sequence(SymbolOf(n))[i] = n

(***************************************************************************)
(* The index answers as MoveLeft of SlicedTraversal says: from any place a *)
(* program can be at while any node is predicted, the answer is the last   *)
(* earlier node with the symbol that the program sees there, though what   *)
(* it sees at the predicted node is not what was indexed. For this every   *)
(* sequence is ascending, and in the end it has all the nodes of its       *)
(* symbol, each of them once: the walk over the links misses none.         *)
(***************************************************************************)
AnswersMoveLeft ==
  /\ SequencesAreExact
  /\ index_pc = "built" =>
    \A begin \in DOMAIN tree, allow \in BOOLEAN : \A p \in 0 .. begin :
      LET s == TreeSlice(tree, begin, allow)
      IN IndexedMoveLeft(s, p) = MoveLeft(actor_kind, tree, s, p)
=============================================================================
