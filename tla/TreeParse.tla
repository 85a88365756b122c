----------------------------- MODULE TreeParse -----------------------------
(***************************************************************************)
(* TreeStorage::Parse (phog/tree/tree.cpp): the vector of nodes is filled  *)
(* from a JSON array that holds an object per node, with the ids of its    *)
(* children. The array ends with a number of elements that are not         *)
(* objects. Every CHECK that fails, and every conversion that throws, ends *)
(* the process. One child is linked per step. The array is the tree of one *)
(* line of a file of trees.                                                *)
(*                                                                         *)
(* `strings' is the string set of the labels (StringSet), in which a label *)
(* is known by its place.                                                  *)
(***************************************************************************)
EXTENDS SyntaxTree, JsonValue

CONSTANTS
  TypeField, ValueField, IdField, ChildrenField,   \* the names that are read
  Zero                                             \* the character 0

VARIABLES
  v,               \* the value, fixed
  strings,
  nodes,           \* nodes_
  node_id, i,      \* the loop variables
  last_child_id,
  pc               \* in a node, among its children, or where Parse ended

vars == <<v, strings, nodes, node_id, i, last_child_id, pc>>

Objects(a) == {n \in 0 .. size(a) - 1 : isObject(At(a, n))}

\* Trailing elements that are not objects are dropped.
NodeCount(a) == IF Objects(a) = {} THEN 0 ELSE Max(Objects(a)) + 1

\* The node empty_node; its last two fields are the last child and the index.
Unparsed == [EMPTY_NODE EXCEPT !.type = UNKNOWN_LABEL]

InitParse ==
  /\ strings = <<>>
  /\ nodes = [n \in {} |-> Unparsed]
  /\ node_id = 0 /\ i = 0 /\ last_child_id = -1
  /\ pc = "assign"

-----------------------------------------------------------------------------
Fail ==
  /\ pc' = "failed"
  /\ UNCHANGED <<v, strings, nodes, node_id, i, last_child_id>>

\* nodes_[0] is written even when there is no node, which is undefined.
Assign ==
  /\ pc = "assign" /\ isArray(v)
  /\ nodes' = [n \in 0 .. NodeCount(v) - 1 |->
                IF n = 0 THEN [Unparsed EXCEPT !.child_index = 0] ELSE Unparsed]
  /\ pc' = IF NodeCount(v) = 0 THEN "undefined" ELSE "node"
  /\ UNCHANGED <<v, strings, node_id, i, last_child_id>>

NoArray == pc = "assign" /\ ~isArray(v) /\ Fail

JsonNode(n) == At(v, n)
Field(n, name) == At(JsonNode(n), name)

IdIsSound(n) ==
  isMember(JsonNode(n), IdField) =>
    HasInt(Field(n, IdField)) /\ asInt(Field(n, IdField)) = n

NodeIsSound(n) == isObject(JsonNode(n)) /\ IdIsSound(n) /\ isString(Field(n, TypeField))

\* asCString: a label ends before a character 0.
LabelText(x) ==
  LET zeros == {k \in DOMAIN x.string : x.string[k] = Zero}
  IN IF zeros = {} THEN x.string ELSE SubSeq(x.string, 1, Min(zeros) - 1)

\* addString: the strings with s, and where it is.
AddString(ss, s) == IF Contains(ss, s) THEN ss ELSE Append(ss, s)
Place(ss, s) == (CHOOSE k \in DOMAIN ss : ss[k] = s) - 1

HasValue(n) == isString(Field(n, ValueField))

ParseLabels ==
  /\ pc = "node" /\ NodeIsSound(node_id)
  /\ LET type  == LabelText(Field(node_id, TypeField))
         value == IF HasValue(node_id) THEN LabelText(Field(node_id, ValueField)) ELSE type
     IN /\ strings' = AddString(AddString(strings, type), value)
        /\ nodes' = [nodes EXCEPT ![node_id].type = Place(strings', type),
                                  ![node_id].value = IF HasValue(node_id)
                                                     THEN Place(strings', value) ELSE -1]
  /\ pc' = "children"
  /\ i' = 0 /\ last_child_id' = -1
  /\ UNCHANGED <<v, node_id>>

BadNode == pc = "node" /\ ~NodeIsSound(node_id) /\ Fail

\* What is no array has no children.
Children(n) == IF isArray(Field(n, ChildrenField)) THEN Field(n, ChildrenField) ELSE nullRef
Child == asInt(At(Children(node_id), i))
MoreChildren == pc = "children" /\ i < size(Children(node_id))

ChildIsSound ==
  HasInt(At(Children(node_id), i)) /\ Child >= node_id /\ Child < NodeCount(v)

\* A bug: a child does not learn of its left sibling.
Linked_OneWay ==
  LET indexed == [nodes EXCEPT ![Child] = [@ EXCEPT !.child_index = i, !.parent = node_id]]
      placed == IF last_child_id = -1
                THEN [indexed EXCEPT ![node_id].first_child = Child]
                ELSE [indexed EXCEPT ![last_child_id].right_sib = Child]
  IN [placed EXCEPT ![node_id].last_child = Child]

\* The fields are assigned one after the other: a child may be the node
\* itself or its left sibling.
Linked ==
  LET indexed == [nodes EXCEPT ![Child] = [@ EXCEPT !.child_index = i, !.parent = node_id]]
      placed == IF last_child_id = -1
                THEN [indexed EXCEPT ![node_id].first_child = Child]
                ELSE [indexed EXCEPT ![last_child_id].right_sib = Child]
      after  == IF last_child_id = -1 THEN placed
                ELSE [placed EXCEPT ![Child].left_sib = last_child_id]
  IN [after EXCEPT ![node_id].last_child = Child]

LinkChild ==
  /\ MoreChildren /\ ChildIsSound
  /\ nodes' = Linked
  /\ last_child_id' = Child
  /\ i' = i + 1
  /\ UNCHANGED <<v, strings, node_id, pc>>

BadChild == MoreChildren /\ ~ChildIsSound /\ Fail

NextNode ==
  /\ pc = "children" /\ i >= size(Children(node_id))
  /\ node_id' = node_id + 1
  /\ pc' = IF node_id' < NodeCount(v) THEN "node" ELSE "parsed"
  /\ UNCHANGED <<v, strings, nodes, i, last_child_id>>

ParseStep == Assign \/ NoArray \/ ParseLabels \/ BadNode \/ LinkChild \/ BadChild \/ NextNode

-----------------------------------------------------------------------------
ChildIds(n) == {asInt(x) : x \in Range(Elements(Children(n)))}

\* An array that is a tree: every node but the root is listed once, by a node
\* before it.
IsTree ==
  /\ isArray(v) /\ NodeCount(v) > 0
  /\ \A n \in 0 .. NodeCount(v) - 1 :
       /\ NodeIsSound(n)
       /\ \A k \in 0 .. size(Children(n)) - 1 : HasInt(At(Children(n), k))
       /\ ChildIds(n) \subseteq n + 1 .. NodeCount(v) - 1
       /\ Cardinality(ChildIds(n)) = size(Children(n))
  /\ \A c \in 1 .. NodeCount(v) - 1 :
       Cardinality({n \in 0 .. NodeCount(v) - 1 : c \in ChildIds(n)}) = 1

LinksStayInside ==
  \A n \in DOMAIN nodes :
    /\ nodes[n].parent <= n
    /\ {nodes[n].left_sib, nodes[n].right_sib, nodes[n].first_child, nodes[n].last_child}
         \subseteq DOMAIN nodes \union {-1}

(***************************************************************************)
(* Whatever the array, and at every point of the loops, no link leads out  *)
(* of the vector, and no parent has a higher id than its child: a walk     *)
(* over the links reads no node that is not there. And an array that is a  *)
(* tree is parsed into exactly this tree: all links agree with each other  *)
(* as CheckConsistency wants them, the children of a node are those listed,*)
(* in their order, and its labels are the strings of the node, whatever has*)
(* been added to the string set since.                                     *)
(***************************************************************************)
TreesAreParsed ==
  /\ LinksStayInside
  /\ pc \in {"parsed", "failed"} /\ IsTree =>
    /\ pc = "parsed"
    /\ RootedAtZero(nodes)
    /\ \A n \in DOMAIN nodes :
         /\ LinksConsistent(nodes, n)
         /\ strings[nodes[n].type + 1] = LabelText(Field(n, TypeField))
         /\ IF HasValue(n) THEN strings[nodes[n].value + 1] = LabelText(Field(n, ValueField))
            ELSE nodes[n].value = -1
         /\ \A k \in 0 .. size(Children(n)) - 1 :
              LET c == nodes[asInt(At(Children(n), k))] IN c.parent = n /\ c.child_index = k

=============================================================================
