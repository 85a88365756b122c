--------------------------- MODULE ContainerProofs ---------------------------
(***************************************************************************)
(* The containers: the pool of the nodes of a tree, for any number of      *)
(* nodes, and the hash tables of the counters and of the names, for any    *)
(* keys, hash functions, and sizes.                                        *)
(***************************************************************************)
EXTENDS Containers, FiniteSetTheorems, WellFoundedInduction, TLAPS

-----------------------------------------------------------------------------
(***************************************************************************)
(* The node pool: TypeOK and FreeListIsExact are inductive together, and   *)
(* LiveNodesUntouched follows.                                             *)
(***************************************************************************)
IInv == TypeOK /\ FreeListIsExact

-----------------------------------------------------------------------------
(* Sequences used as stacks.                                               *)

\* What is left of a stack after a pop.
LEMMA PopFacts ==
  ASSUME NEW S, NEW s \in Seq(S), s # <<>>
  PROVE  /\ Tail(s) \in Seq(S) /\ Len(Tail(s)) = Len(s) - 1 /\ Len(s) >= 1
         /\ \A i \in 1 .. Len(s) - 1 : Tail(s)[i] = s[i + 1]
OBVIOUS

\* What a push adds to a stack.
LEMMA PushFacts ==
  ASSUME NEW S, NEW s \in Seq(S), NEW x \in S
  PROVE  /\ <<x>> \o s \in Seq(S) /\ Len(<<x>> \o s) = Len(s) + 1
         /\ (<<x>> \o s)[1] = x
         /\ \A i \in 1 .. Len(s) : (<<x>> \o s)[i + 1] = s[i]
OBVIOUS

-----------------------------------------------------------------------------
(* What the operations do, field by field.                                 *)

\* An allocation from the list of freed nodes.
LEMMA ReuseEffect ==
  ASSUME TypeOK, NEW data \in Data, Allocate(data), pool.first_free_node # NoFreeNode,
         pool.first_free_node \in 0 .. pool.size - 1
  PROVE  /\ pool' = [size |-> pool'.size, nodes |-> pool'.nodes,
                     first_free_node |-> pool'.first_free_node]
         /\ pool'.size = pool.size
         /\ pool'.nodes = [pool.nodes EXCEPT ![pool.first_free_node] = data]
         /\ pool'.first_free_node = pool.nodes[pool.first_free_node].type
<1> DEFINE f == pool.first_free_node
<1>1. pool' = [pool EXCEPT !.first_free_node = pool.nodes[f].type, !.nodes[f] = data]
  BY DEF Allocate, AllocateNode
<1>2. pool = [size |-> pool.size, nodes |-> pool.nodes, first_free_node |-> pool.first_free_node]
  BY DEF TypeOK
<1>3. pool' = [size |-> pool.size, nodes |-> [pool.nodes EXCEPT ![f] = data],
               first_free_node |-> pool.nodes[f].type]
  BY <1>1, <1>2
<1>4. QED
  BY <1>3

\* An allocation at the end of the vector.
LEMMA GrowEffect ==
  ASSUME TypeOK, NEW data \in Data, Allocate(data), pool.first_free_node = NoFreeNode
  PROVE  /\ pool' = [size |-> pool'.size, nodes |-> pool'.nodes,
                     first_free_node |-> pool'.first_free_node]
         /\ pool'.size = pool.size + 1 /\ pool.size < MaxNodes
         /\ pool'.nodes = [id \in 0 .. pool.size |->
                             IF id = pool.size THEN data ELSE pool.nodes[id]]
         /\ pool'.first_free_node = NoFreeNode
<1>1. pool' = [pool EXCEPT !.size = @ + 1,
                 !.nodes = [id \in 0 .. pool.size |-> IF id = pool.size THEN data ELSE @[id]]]
  BY DEF Allocate, AllocateNode
<1>2. pool = [size |-> pool.size, nodes |-> pool.nodes, first_free_node |-> pool.first_free_node]
  BY DEF TypeOK
<1>3. pool' = [size |-> pool.size + 1,
               nodes |-> [id \in 0 .. pool.size |->
                            IF id = pool.size THEN data ELSE pool.nodes[id]],
               first_free_node |-> pool.first_free_node]
  BY <1>1, <1>2
<1>4. QED
  BY <1>3 DEF Allocate, AllocatedId

\* A deallocation at the end of the vector.
LEMMA PopEffect ==
  ASSUME TypeOK, NEW id \in Live(pool), Deallocate(id), id = pool.size - 1
  PROVE  /\ pool' = [size |-> pool'.size, nodes |-> pool'.nodes,
                     first_free_node |-> pool'.first_free_node]
         /\ pool'.size = id
         /\ pool'.nodes = [n \in 0 .. id - 1 |-> pool.nodes[n]]
         /\ pool'.first_free_node = pool.first_free_node
<1>1. pool' = [pool EXCEPT !.size = id, !.nodes = [n \in 0 .. id - 1 |-> @[n]]]
  BY DEF Deallocate, DeallocateNode
<1>2. pool = [size |-> pool.size, nodes |-> pool.nodes, first_free_node |-> pool.first_free_node]
  BY DEF TypeOK
<1>3. pool' = [size |-> id, nodes |-> [n \in 0 .. id - 1 |-> pool.nodes[n]],
               first_free_node |-> pool.first_free_node]
  BY <1>1, <1>2
<1>4. QED
  BY <1>3

\* A deallocation elsewhere.
LEMMA FreeEffect ==
  ASSUME TypeOK, NEW id \in Live(pool), Deallocate(id), id # pool.size - 1
  PROVE  /\ pool' = [size |-> pool'.size, nodes |-> pool'.nodes,
                     first_free_node |-> pool'.first_free_node]
         /\ pool'.size = pool.size
         /\ pool'.nodes = [pool.nodes EXCEPT ![id] =
              [type |-> pool.first_free_node, parent |-> TREEPOINTER_DEALLOCATED]]
         /\ pool'.first_free_node = id
<1> DEFINE down == [type |-> pool.first_free_node, parent |-> TREEPOINTER_DEALLOCATED]
<1>1. pool' = [pool EXCEPT !.nodes[id].parent = TREEPOINTER_DEALLOCATED,
                           !.nodes[id].type = pool.first_free_node,
                           !.first_free_node = id]
  BY DEF Deallocate, DeallocateNode
<1>2. pool = [size |-> pool.size, nodes |-> pool.nodes, first_free_node |-> pool.first_free_node]
  BY DEF TypeOK
<1>3. id \in 0 .. pool.size - 1 /\ pool.nodes \in [0 .. pool.size - 1 -> Node]
  BY DEF TypeOK, Live
<1>4. PICK marked : marked = [pool.nodes EXCEPT ![id].parent = TREEPOINTER_DEALLOCATED]
  OBVIOUS
<1>5. PICK linked : linked = [marked EXCEPT ![id].type = pool.first_free_node]
  OBVIOUS
<1>6. pool' = [size |-> pool.size, nodes |-> linked, first_free_node |-> id]
  BY <1>1, <1>2, <1>4, <1>5
<1>7. pool.nodes[id] = [type |-> pool.nodes[id].type, parent |-> pool.nodes[id].parent]
  BY <1>3 DEF Node
<1>8. marked = [pool.nodes EXCEPT ![id] =
                  [type |-> pool.nodes[id].type, parent |-> TREEPOINTER_DEALLOCATED]]
  BY <1>3, <1>4, <1>7
<1>9. linked = [pool.nodes EXCEPT ![id] = down]
  BY <1>3, <1>5, <1>8
<1>10. QED
  BY <1>6, <1>9

-----------------------------------------------------------------------------
(* The invariant is inductive.                                             *)

\* What IInv says of the list, in terms of single fields.
LEMMA ListFacts ==
  ASSUME IInv
  PROVE  /\ pool.size \in 1 .. MaxNodes /\ MaxNodes \in Nat
         /\ freed \in Seq(1 .. pool.size - 1) /\ Len(freed) \in Nat
         /\ \A i \in 1 .. Len(freed) : freed[i] \in 1 .. pool.size - 1
         /\ freed = <<>> <=> pool.first_free_node = NoFreeNode
         /\ freed # <<>> => pool.first_free_node = freed[1] /\ Len(freed) >= 1
<1>1. /\ pool.size \in 1 .. MaxNodes /\ MaxNodes \in Nat
      /\ freed \in Seq(1 .. pool.size - 1) /\ Len(freed) \in Nat
      /\ \A i \in 1 .. Len(freed) : freed[i] \in 1 .. pool.size - 1
  BY MaxNodesAssumption DEF IInv, TypeOK
<1>2. freed # <<>> => Len(freed) >= 1
  BY <1>1
<1>3. pool.first_free_node = IF freed = <<>> THEN NoFreeNode ELSE freed[1]
  BY DEF IInv, FreeListIsExact, ListIs
<1>4. freed # <<>> => freed[1] # NoFreeNode
  BY <1>1, <1>2 DEF NoFreeNode
<1>5. QED
  BY <1>1, <1>2, <1>3, <1>4

\* The same for what the list leads to.
LEMMA ExactFacts ==
  ASSUME IInv
  PROVE  /\ \A i, j \in 1 .. Len(freed) : freed[i] = freed[j] => i = j
         /\ \A i \in 1 .. Len(freed) : IsFreed(pool, freed[i])
         /\ \A i \in 1 .. Len(freed) : i # Len(freed) => pool.nodes[freed[i]].type = freed[i + 1]
         /\ freed # <<>> => pool.nodes[freed[Len(freed)]].type = NoFreeNode
         /\ \A id \in 0 .. pool.size - 1 : IsFreed(pool, id) <=> \E i \in 1 .. Len(freed) : freed[i] = id
<1>1. /\ \A i, j \in 1 .. Len(freed) : freed[i] = freed[j] => i = j
      /\ \A id \in 0 .. pool.size - 1 :
           IsFreed(pool, id) <=> \E i \in 1 .. Len(freed) : freed[i] = id
      /\ \A i \in 1 .. Len(freed) :
           pool.nodes[freed[i]].type = IF i = Len(freed) THEN NoFreeNode ELSE freed[i + 1]
  BY DEF IInv, FreeListIsExact, ListIs
<1>2. ASSUME NEW i \in 1 .. Len(freed)
      PROVE  IsFreed(pool, freed[i])
  <2>1. freed[i] \in 0 .. pool.size - 1
    BY ListFacts
  <2>2. QED
    BY <1>1, <2>1
<1>3. freed # <<>> => Len(freed) \in 1 .. Len(freed)
  BY ListFacts
<1>4. QED
  BY <1>1, <1>2, <1>3

\* The constructor's pool has nothing to reuse.
LEMMA InitInv == Init => IInv
<1> SUFFICES ASSUME Init
             PROVE  IInv
  OBVIOUS
<1>1. PICK root \in Data : pool = OneNode(root)
  BY DEF Init
<1>2. /\ root \in Node /\ root.parent # TREEPOINTER_DEALLOCATED
      /\ pool.size = 1 /\ pool.nodes = [id \in 0 .. 0 |-> root]
      /\ pool.first_free_node = NoFreeNode /\ freed = <<>>
  BY <1>1, DataIsLive DEF OneNode, Init
<1>3. TypeOK
  BY <1>1, <1>2, MaxNodesAssumption DEF TypeOK, OneNode, IsFreed, NoFreeNode
<1>4. FreeListIsExact
  BY <1>2 DEF FreeListIsExact, ListIs, IsFreed
<1>5. QED
  BY <1>3, <1>4 DEF IInv

\* Reuse takes the first node off the list.
LEMMA ReuseInv ==
  ASSUME IInv, NEW data \in Data, Allocate(data), pool.first_free_node # NoFreeNode
  PROVE  IInv' /\ Live(pool') = Live(pool) \union {pool.first_free_node}
         /\ pool.first_free_node \notin Live(pool) /\ pool.first_free_node \in 0 .. pool.size - 1
         /\ pool'.nodes = [pool.nodes EXCEPT ![pool.first_free_node] = data]
<1> USE ListFacts
<1> DEFINE f == pool.first_free_node
<1>1. freed # <<>> /\ f = freed[1] /\ f \in 1 .. pool.size - 1 /\ TypeOK
  BY DEF IInv
<1>2. /\ pool' = [size |-> pool'.size, nodes |-> pool'.nodes,
                  first_free_node |-> pool'.first_free_node]
      /\ pool'.size = pool.size
      /\ pool'.nodes = [pool.nodes EXCEPT ![f] = data]
      /\ pool'.first_free_node = pool.nodes[f].type
  BY <1>1, ReuseEffect
<1>3. /\ data \in Node /\ data.parent # TREEPOINTER_DEALLOCATED
      /\ pool.nodes \in [0 .. pool.size - 1 -> Node]
  BY <1>1, DataIsLive DEF TypeOK
<1>4. /\ freed' \in Seq(1 .. pool.size - 1) /\ Len(freed') = Len(freed) - 1
      /\ \A i \in 1 .. Len(freed') : freed'[i] = freed[i + 1]
  <2>1. freed' = Tail(freed)
    BY <1>1 DEF Allocate
  <2>2. QED
    BY <1>1, <2>1, PopFacts
<1>5. TypeOK'
  <2>1. pool'.nodes \in [0 .. pool'.size - 1 -> Node] /\ pool'.first_free_node \in Int
    BY <1>1, <1>2, <1>3, SMTT(30) DEF Node
  <2>2. ~IsFreed(pool', 0)
    BY <1>1, <1>2, <1>3 DEF TypeOK, IsFreed
  <2>3. QED
    BY <1>2, <1>4, <2>1, <2>2 DEF TypeOK
<1>6. ASSUME NEW i \in 1 .. Len(freed')
      PROVE  i + 1 \in 1 .. Len(freed) /\ i + 1 # 1 /\ freed'[i] = freed[i + 1]
  <2> DEFINE n == Len(freed)
             m == Len(freed')
  <2>1. n \in Nat /\ m = n - 1 /\ freed'[i] = freed[i + 1]
    BY <1>1, <1>4, <1>6 DEF TypeOK
  <2>2. i \in 1 .. m
    BY <1>6
  <2> HIDE DEF n, m
  <2>3. i + 1 \in 1 .. n /\ i + 1 # 1
    BY ONLY <2>1, <2>2
  <2> QED
    BY <2>1, <2>3 DEF n
<1>7. ASSUME NEW i \in 1 .. Len(freed')
      PROVE  freed'[i] # f /\ freed'[i] \in 1 .. pool.size - 1
  <2>1. 1 \in 1 .. Len(freed)
    BY <1>1
  <2>2. freed[i + 1] # freed[1]
    BY <1>6, <2>1, ExactFacts
  <2>3. QED
    BY <1>1, <1>6, <2>2
<1>8. ListIs(pool', freed')
  <2>2. pool'.first_free_node = IF freed' = <<>> THEN NoFreeNode ELSE freed'[1]
    <3>1. CASE Len(freed) = 1
      <4>1. freed' = <<>>
        BY <1>4, <3>1
      <4>2. pool.nodes[f].type = NoFreeNode
        BY <1>1, <3>1, ExactFacts
      <4>3. QED
        BY <1>2, <4>1, <4>2
    <3>2. CASE Len(freed) # 1
      <4>1. freed' # <<>> /\ 1 \in 1 .. Len(freed') /\ 1 \in 1 .. Len(freed)
        BY <1>1, <1>4, <3>2
      <4>2. pool.nodes[f].type = freed[2] /\ freed'[1] = freed[2]
        <5>1. freed'[1] = freed[1 + 1] /\ 1 # Len(freed)
          BY <1>4, <3>2, <4>1
        <5>2. pool.nodes[freed[1]].type = freed[1 + 1]
          BY <4>1, <5>1, ExactFacts
        <5>3. QED
          BY <1>1, <5>1, <5>2
      <4>3. QED
        BY <1>2, <4>1, <4>2
    <3>3. QED
      BY <3>1, <3>2
  <2>3. ASSUME NEW i \in 1 .. Len(freed')
        PROVE  pool'.nodes[freed'[i]].type = IF i = Len(freed') THEN NoFreeNode ELSE freed'[i + 1]
    <3>1. pool'.nodes[freed'[i]] = pool.nodes[freed[i + 1]]
      BY <1>2, <1>3, <1>6, <1>7, SMTT(30)
    <3>2. CASE i = Len(freed')
      <4>1. i + 1 = Len(freed)
        BY <1>4, <3>2
      <4>2. QED
        BY <1>1, <3>1, <3>2, <4>1, ExactFacts
    <3>3. CASE i # Len(freed')
      <4>1. i + 1 # Len(freed) /\ i + 1 \in 1 .. Len(freed') /\ (i + 1) + 1 = i + 2
        BY <1>4, <3>3
      <4>2. freed'[i + 1] = freed[(i + 1) + 1]
        BY <1>6, <4>1
      <4>3. QED
        BY <1>6, <3>1, <3>3, <4>1, <4>2, ExactFacts
    <3>4. QED
      BY <3>2, <3>3
  <2>4. QED
    BY <2>2, <2>3 DEF ListIs
<1>9. \A id \in 0 .. pool.size - 1 : IsFreed(pool', id) <=> IsFreed(pool, id) /\ id # f
  BY <1>2, <1>3 DEF IsFreed
<1>10. \A id \in 0 .. pool.size - 1 : IsFreed(pool, id) <=> \E i \in 1 .. Len(freed) : freed[i] = id
  BY ExactFacts
<1>11. \A id \in 0 .. pool'.size - 1 :
         IsFreed(pool', id) <=> \E i \in 1 .. Len(freed') : freed'[i] = id
  <2>1. ASSUME NEW id \in 0 .. pool.size - 1, IsFreed(pool', id)
        PROVE  \E i \in 1 .. Len(freed') : freed'[i] = id
    <3>1. PICK i \in 1 .. Len(freed) : freed[i] = id /\ i # 1
      BY <1>1, <1>9, <1>10, <2>1
    <3>2. i - 1 \in 1 .. Len(freed') /\ freed'[i - 1] = id
      BY <1>4, <3>1, SMTT(30)
    <3>3. QED
      BY <3>2
  <2>2. ASSUME NEW i \in 1 .. Len(freed')
        PROVE  IsFreed(pool', freed'[i])
    <3>1. i + 1 \in 1 .. Len(freed) /\ freed'[i] = freed[i + 1]
      BY <1>4
    <3>2. QED
      BY <1>7, <1>9, <1>10, <3>1, SMTT(30)
  <2>3. QED
    BY <1>2, <2>1, <2>2
<1>12. FreeListIsExact'
  <2>1. ASSUME NEW i \in 1 .. Len(freed'), NEW j \in 1 .. Len(freed'), freed'[i] = freed'[j]
        PROVE  i = j
    <3>1. i + 1 = j + 1
      BY <1>6, <2>1, ExactFacts
    <3>2. QED
      BY <3>1
  <2>2. QED
    BY <1>8, <1>11, <2>1 DEF FreeListIsExact
<1>13. IsFreed(pool, f)
  BY <1>1, <1>10
<1>14. Live(pool') = Live(pool) \union {f}
  BY <1>1, <1>2, <1>9 DEF Live
<1>15. QED
  BY <1>1, <1>2, <1>5, <1>12, <1>13, <1>14 DEF IInv, Live

\* Growth leaves the list alone.
LEMMA GrowInv ==
  ASSUME IInv, NEW data \in Data, Allocate(data), pool.first_free_node = NoFreeNode
  PROVE  IInv' /\ Live(pool') = Live(pool) \union {pool.size} /\ pool.size \notin Live(pool)
         /\ \A id \in 0 .. pool.size - 1 : pool'.nodes[id] = pool.nodes[id]
<1> USE ListFacts
<1>1. freed = <<>> /\ TypeOK
  BY DEF IInv
<1>2. /\ pool' = [size |-> pool'.size, nodes |-> pool'.nodes,
                  first_free_node |-> pool'.first_free_node]
      /\ pool'.size = pool.size + 1 /\ pool.size < MaxNodes
      /\ pool'.nodes = [id \in 0 .. pool.size |->
                          IF id = pool.size THEN data ELSE pool.nodes[id]]
      /\ pool'.first_free_node = NoFreeNode
  BY <1>1, GrowEffect
<1>3. freed' = <<>>
  BY <1>1 DEF Allocate
<1>4. data \in Node /\ data.parent # TREEPOINTER_DEALLOCATED
  BY DataIsLive
<1>5. /\ \A id \in 0 .. pool.size - 1 : pool'.nodes[id] = pool.nodes[id]
      /\ pool'.nodes[pool.size] = data
  BY <1>2
<1>6. TypeOK'
  <2>1. pool'.nodes \in [0 .. pool'.size - 1 -> Node]
    BY <1>1, <1>2, <1>4 DEF TypeOK
  <2>2. ~IsFreed(pool', 0)
    BY <1>1, <1>5 DEF TypeOK, IsFreed
  <2>3. QED
    BY <1>2, <1>3, <2>1, <2>2 DEF TypeOK, NoFreeNode
<1>7. \A id \in 0 .. pool.size : ~IsFreed(pool', id)
  BY <1>1, <1>4, <1>5 DEF IInv, FreeListIsExact, IsFreed
<1>8. FreeListIsExact'
  BY <1>2, <1>3, <1>7 DEF FreeListIsExact, ListIs
<1>9. Live(pool') = Live(pool) \union {pool.size} /\ pool.size \notin Live(pool)
  BY <1>1, <1>2, <1>7 DEF Live, IInv, FreeListIsExact
<1>10. QED
  BY <1>5, <1>6, <1>8, <1>9 DEF IInv

\* A node that is popped is not on the list.
LEMMA PopInv ==
  ASSUME IInv, NEW id \in Live(pool), Deallocate(id), id = pool.size - 1
  PROVE  IInv' /\ Live(pool') = Live(pool) \ {id}
         /\ \A n \in 0 .. id - 1 : pool'.nodes[n] = pool.nodes[n]
<1> USE ListFacts
<1>1. TypeOK /\ id # 0 /\ ~IsFreed(pool, id)
  BY DEF IInv, Deallocate, Live
<1>2. /\ pool' = [size |-> pool'.size, nodes |-> pool'.nodes,
                  first_free_node |-> pool'.first_free_node]
      /\ pool'.size = id
      /\ pool'.nodes = [n \in 0 .. id - 1 |-> pool.nodes[n]]
      /\ pool'.first_free_node = pool.first_free_node
      /\ freed' = freed
  BY <1>1, PopEffect DEF Deallocate
<1>3. \A n \in 0 .. id - 1 : pool'.nodes[n] = pool.nodes[n]
  BY <1>2
<1>4. ASSUME NEW i \in 1 .. Len(freed)
      PROVE  freed[i] \in 1 .. id - 1
  <2>1. freed[i] # id
    BY <1>1, ExactFacts
  <2>2. QED
    BY <2>1, SMTT(30)
<1>5. freed \in Seq(1 .. id - 1)
  <2>1. freed = [i \in 1 .. Len(freed) |-> freed[i]]
    OBVIOUS
  <2>2. QED
    BY <1>4, <2>1, SMTT(30)
<1>6. TypeOK'
  <2>1. pool'.nodes \in [0 .. pool'.size - 1 -> Node]
    BY <1>1, <1>2 DEF TypeOK
  <2>2. ~IsFreed(pool', 0)
    BY <1>1, <1>3 DEF TypeOK, IsFreed
  <2>3. QED
    BY <1>1, <1>2, <1>5, <2>1, <2>2 DEF TypeOK
<1>7. FreeListIsExact'
  <2>1. \A n \in 0 .. id - 1 : IsFreed(pool', n) <=> IsFreed(pool, n)
    BY <1>3 DEF IsFreed
  <2>2. \A i \in 1 .. Len(freed) : pool'.nodes[freed[i]] = pool.nodes[freed[i]]
    <3>1. ASSUME NEW i \in 1 .. Len(freed)
          PROVE  pool'.nodes[freed[i]] = pool.nodes[freed[i]]
      <4>1. freed[i] \in 0 .. id - 1
        BY <1>4
      <4>2. QED
        BY <1>3, <4>1
    <3>2. QED
      BY <3>1
  <2>3. ListIs(pool', freed)
    <3>1. ListIs(pool, freed)
      BY DEF IInv, FreeListIsExact
    <3>2. QED
      BY <1>2, <2>2, <3>1 DEF ListIs
  <2>4. ASSUME NEW n \in 0 .. id - 1
        PROVE  IsFreed(pool', n) <=> \E i \in 1 .. Len(freed) : freed[i] = n
    <3>1. n \in 0 .. pool.size - 1
      BY <1>1 DEF Live
    <3>2. IsFreed(pool, n) <=> \E i \in 1 .. Len(freed) : freed[i] = n
      BY <3>1, ExactFacts, Zenon
    <3>3. QED
      BY <2>1, <3>2, Zenon
  <2>5. QED
    BY <1>2, <2>3, <2>4, ExactFacts DEF FreeListIsExact
<1>8. Live(pool') = Live(pool) \ {id}
  BY <1>2, <1>3 DEF Live, IsFreed
<1>9. QED
  BY <1>3, <1>6, <1>7, <1>8 DEF IInv

\* A node that is freed becomes the first of the list.
LEMMA FreeInv ==
  ASSUME IInv, NEW id \in Live(pool), Deallocate(id), id # pool.size - 1
  PROVE  IInv' /\ Live(pool') = Live(pool) \ {id}
         /\ \A n \in 0 .. pool.size - 1 : n # id => pool'.nodes[n] = pool.nodes[n]
<1> USE ListFacts
<1>1. TypeOK /\ id # 0 /\ ~IsFreed(pool, id) /\ id \in 1 .. pool.size - 1
  BY DEF IInv, Deallocate, Live
<1>2. /\ pool' = [size |-> pool'.size, nodes |-> pool'.nodes,
                  first_free_node |-> pool'.first_free_node]
      /\ pool'.size = pool.size
      /\ pool'.nodes = [pool.nodes EXCEPT ![id] =
           [type |-> pool.first_free_node, parent |-> TREEPOINTER_DEALLOCATED]]
      /\ pool'.first_free_node = id
  BY <1>1, FreeEffect
<1>3. /\ \A n \in 0 .. pool.size - 1 : n # id => pool'.nodes[n] = pool.nodes[n]
      /\ pool'.nodes[id].type = pool.first_free_node
      /\ IsFreed(pool', id)
  BY <1>1, <1>2 DEF TypeOK, IsFreed
<1>4. /\ freed' \in Seq(1 .. pool.size - 1) /\ Len(freed') = Len(freed) + 1
      /\ freed'[1] = id
      /\ \A i \in 1 .. Len(freed) : freed'[i + 1] = freed[i]
  <2>1. freed' = <<id>> \o freed
    BY DEF Deallocate
  <2>2. QED
    BY <1>1, <2>1, PushFacts, SMTT(30)
<1>5. \A i \in 1 .. Len(freed') : i = 1 \/ (i - 1 \in 1 .. Len(freed) /\ freed'[i] = freed[i - 1])
  <2> SUFFICES ASSUME NEW i \in 1 .. Len(freed'), i # 1
               PROVE  i - 1 \in 1 .. Len(freed) /\ freed'[i] = freed[i - 1]
    OBVIOUS
  <2>1. i - 1 \in 1 .. Len(freed) /\ (i - 1) + 1 = i
    BY <1>4
  <2>2. QED
    BY <1>4, <2>1
<1>6. TypeOK'
  <2>1. pool'.nodes \in [0 .. pool'.size - 1 -> Node]
    BY <1>1, <1>2 DEF TypeOK, Node, TREEPOINTER_DEALLOCATED
  <2>2. ~IsFreed(pool', 0)
    BY <1>1, <1>3 DEF TypeOK, IsFreed
  <2>3. QED
    BY <1>1, <1>2, <1>4, <2>1, <2>2 DEF TypeOK
<1>7. \A i \in 1 .. Len(freed) : freed[i] # id
  BY <1>1, ExactFacts, SMTT(30)
<1>8. ListIs(pool', freed')
  <2>1. /\ pool.first_free_node = IF freed = <<>> THEN NoFreeNode ELSE freed[1]
        /\ \A i \in 1 .. Len(freed) :
             pool.nodes[freed[i]].type = IF i = Len(freed) THEN NoFreeNode ELSE freed[i + 1]
    BY DEF IInv, FreeListIsExact, ListIs
  <2>2. freed' # <<>>
    BY <1>4
  <2>3. ASSUME NEW i \in 1 .. Len(freed')
        PROVE  pool'.nodes[freed'[i]].type = IF i = Len(freed') THEN NoFreeNode ELSE freed'[i + 1]
    <3>1. CASE i = 1
      <4>1. CASE freed = <<>>
        BY <1>3, <1>4, <2>1, <3>1, <4>1
      <4>2. CASE freed # <<>>
        <5>1. 1 \in 1 .. Len(freed) /\ freed'[2] = freed[1] /\ 1 # Len(freed')
          BY <1>4, <4>2
        <5>2. QED
          BY <1>3, <1>4, <2>1, <3>1, <4>2, <5>1
      <4>3. QED
        BY <4>1, <4>2
    <3>2. CASE i # 1
      <4>1. i - 1 \in 1 .. Len(freed) /\ freed'[i] = freed[i - 1]
        BY <1>5, <3>2
      <4>2. pool'.nodes[freed'[i]] = pool.nodes[freed[i - 1]]
        <5>1. freed[i - 1] \in 1 .. pool.size - 1 /\ freed[i - 1] # id
          BY <1>7, <4>1, Zenon
        <5>2. freed[i - 1] \in 0 .. pool.size - 1
          BY <5>1
        <5>3. QED
          BY <1>3, <4>1, <5>1, <5>2, Zenon
      <4>3. CASE i = Len(freed')
        <5>1. i - 1 = Len(freed) /\ freed # <<>>
          BY <1>4, <4>1, <4>3
        <5>2. QED
          BY <4>2, <4>3, <5>1, ExactFacts
      <4>4. CASE i # Len(freed')
        <5>1. i \in 1 .. Len(freed) /\ i - 1 # Len(freed) /\ (i - 1) + 1 = i
          BY <1>4, <4>1, <4>4
        <5>2. freed'[i + 1] = freed[i]
          BY <1>4, <5>1
        <5>3. pool.nodes[freed[i - 1]].type = freed[(i - 1) + 1]
          BY <4>1, <5>1, ExactFacts, Zenon
        <5>4. QED
          BY <4>2, <4>4, <5>1, <5>2, <5>3
      <4>5. QED
        BY <4>3, <4>4
    <3>3. QED
      BY <3>1, <3>2
  <2>4. QED
    BY <1>2, <1>4, <2>2, <2>3 DEF ListIs
<1>9. \A n \in 0 .. pool.size - 1 : IsFreed(pool', n) <=> IsFreed(pool, n) \/ n = id
  BY <1>3 DEF IsFreed
<1>10. FreeListIsExact'
  <2>1. ASSUME NEW i \in 1 .. Len(freed'), NEW j \in 1 .. Len(freed'), freed'[i] = freed'[j]
        PROVE  i = j
    <3>1. CASE i = 1
      BY <1>4, <1>5, <1>7, <2>1, <3>1
    <3>2. CASE j = 1
      BY <1>4, <1>5, <1>7, <2>1, <3>2
    <3>3. CASE i # 1 /\ j # 1
      <4>1. i - 1 \in 1 .. Len(freed) /\ j - 1 \in 1 .. Len(freed)
            /\ freed[i - 1] = freed[j - 1]
        BY <1>5, <2>1, <3>3
      <4>2. i - 1 = j - 1
        BY <4>1, ExactFacts
      <4>3. QED
        BY <4>2
    <3>4. QED
      BY <3>1, <3>2, <3>3
  <2>2. \A n \in 0 .. pool.size - 1 : IsFreed(pool, n) <=> \E i \in 1 .. Len(freed) : freed[i] = n
    BY ExactFacts
  <2>3. \A n \in 0 .. pool.size - 1 :
          (\E i \in 1 .. Len(freed') : freed'[i] = n)
          <=> (\E i \in 1 .. Len(freed) : freed[i] = n) \/ n = id
    <3>1. 1 \in 1 .. Len(freed') /\ \A i \in 1 .. Len(freed) : i + 1 \in 1 .. Len(freed')
      BY <1>4
    <3>2. QED
      BY <1>4, <1>5, <3>1
  <2>4. QED
    BY <1>2, <1>8, <1>9, <2>1, <2>2, <2>3 DEF FreeListIsExact
<1>11. Live(pool') = Live(pool) \ {id}
  BY <1>2, <1>9 DEF Live
<1>12. QED
  BY <1>3, <1>6, <1>10, <1>11 DEF IInv

\* Every step preserves the invariant and touches one node.
LEMMA NextInv ==
  ASSUME IInv, Next
  PROVE  /\ IInv'
         /\ \A id \in Live(pool) \intersect Live(pool') : pool'.nodes[id] = pool.nodes[id]
         /\ \E id \in 0 .. pool.size :
              \/ Live(pool') = Live(pool) \union {id} /\ id \notin Live(pool)
              \/ Live(pool') = Live(pool) \ {id} /\ id \in Live(pool)
<1> USE ListFacts
<1>1. ASSUME NEW data \in Data, Allocate(data), pool.first_free_node # NoFreeNode
      PROVE  /\ IInv'
             /\ \A id \in Live(pool) : pool'.nodes[id] = pool.nodes[id]
             /\ \E id \in 0 .. pool.size :
                  Live(pool') = Live(pool) \union {id} /\ id \notin Live(pool)
  <2> DEFINE f == pool.first_free_node
  <2>1. /\ IInv' /\ Live(pool') = Live(pool) \union {f} /\ f \notin Live(pool)
        /\ f \in 0 .. pool.size - 1
        /\ pool'.nodes = [pool.nodes EXCEPT ![f] = data]
    BY <1>1, ReuseInv
  <2>2. /\ pool.nodes \in [0 .. pool.size - 1 -> Node]
        /\ \A id \in Live(pool) : id \in 0 .. pool.size - 1
    BY DEF IInv, TypeOK, Live
  <2>3. \A id \in Live(pool) : pool'.nodes[id] = pool.nodes[id]
    BY <2>1, <2>2
  <2>4. f \in 0 .. pool.size
    BY <2>1
  <2>5. QED
    BY <2>1, <2>3, <2>4
<1>2. ASSUME NEW data \in Data, Allocate(data), pool.first_free_node = NoFreeNode
      PROVE  /\ IInv'
             /\ \A id \in Live(pool) : pool'.nodes[id] = pool.nodes[id]
             /\ \E id \in 0 .. pool.size :
                  Live(pool') = Live(pool) \union {id} /\ id \notin Live(pool)
  <2>1. /\ IInv' /\ Live(pool') = Live(pool) \union {pool.size} /\ pool.size \notin Live(pool)
        /\ \A id \in 0 .. pool.size - 1 : pool'.nodes[id] = pool.nodes[id]
    BY <1>2, GrowInv
  <2>2. pool.size \in 0 .. pool.size /\ \A id \in Live(pool) : id \in 0 .. pool.size - 1
    BY DEF Live
  <2>3. QED
    BY <2>1, <2>2
<1>3. ASSUME NEW id \in Live(pool), Deallocate(id)
      PROVE  /\ IInv' /\ Live(pool') = Live(pool) \ {id}
             /\ \A n \in Live(pool) \ {id} : pool'.nodes[n] = pool.nodes[n]
  BY <1>3, PopInv, FreeInv DEF Live
<1>4. \A id \in Live(pool) : id \in 0 .. pool.size
  BY DEF Live
<1>5. QED
  BY <1>1, <1>2, <1>3, <1>4 DEF Next

\* The invariant holds in every reachable state.
THEOREM Invariance == Spec => []IInv
<1>1. IInv /\ UNCHANGED vars => IInv'
  BY DEF IInv, TypeOK, FreeListIsExact, ListIs, IsFreed, vars
<1>2. IInv /\ [Next]_vars => IInv'
  BY <1>1, NextInv
<1>3. QED
  BY InitInv, <1>2, PTL DEF Spec

(***************************************************************************)
(* The fields of the pool and of its nodes keep their types.               *)
(***************************************************************************)
THEOREM TypeCorrect == Spec => []TypeOK
<1>1. IInv => TypeOK
  BY DEF IInv
<1>2. QED
  BY <1>1, Invariance, PTL

(***************************************************************************)
(* The list of freed nodes is exact, so that the walk of CheckConsistency  *)
(* ends and counts what the tree does not use.                             *)
(***************************************************************************)
THEOREM FreeListExact == Spec => []FreeListIsExact
<1>1. IInv => FreeListIsExact
  BY DEF IInv
<1>2. QED
  BY <1>1, Invariance, PTL

(***************************************************************************)
(* Node ids are stable: no allocation and no deallocation disturbs a node  *)
(* in use.                                                                 *)
(***************************************************************************)
THEOREM NodeIdsStable == Spec => LiveNodesUntouched
<1>1. IInv /\ [Next]_vars =>
        [/\ \A id \in Live(pool) \intersect Live(pool') : pool'.nodes[id] = pool.nodes[id]
         /\ \E id \in 0 .. pool.size :
              \/ Live(pool') = Live(pool) \union {id} /\ id \notin Live(pool)
              \/ Live(pool') = Live(pool) \ {id} /\ id \in Live(pool)]_vars
  BY NextInv
<1>2. QED
  BY <1>1, Invariance, PTL DEF Spec, LiveNodesUntouched

-----------------------------------------------------------------------------
(***************************************************************************)
(* Numbers. What is divided by a power of two and is the product of an odd *)
(* number and another one: this one is divided by it.                      *)
(***************************************************************************)
Less == {p \in Nat \X Nat : p[1] < p[2]}

LEMMA LeastExists ==
  ASSUME NEW S \in SUBSET Nat, S # {}
  PROVE  Min(S) \in S /\ \A y \in S : Min(S) <= y
<1>1. IsWellFoundedOn(Less, Nat)
  <2>1. OpToRel(<, Nat) = Less
    BY DEF OpToRel, Less
  <2> QED
    BY <2>1, NatLessThanWellFounded
<1>2. PICK x \in S : \A y \in S : ~(<<y, x>> \in Less)
  BY <1>1, WFMin
<1>3. \A y \in S : x =< y
  <2> TAKE y \in S
  <2>1. x \in Nat /\ y \in Nat
    OBVIOUS
  <2>2. ~(y < x)
    BY <1>2, <2>1 DEF Less
  <2> QED
    BY <2>1, <2>2
<1> QED
  BY <1>3 DEF Min

LEMMA GreatestExists ==
  ASSUME NEW S \in SUBSET Nat, S # {}, NEW n \in Nat, \A y \in S : y <= n
  PROVE  Max(S) \in S /\ \A y \in S : y <= Max(S)
<1> DEFINE below == {n - y : y \in S}
           x == n - Min(below)
<1>1. below \in SUBSET Nat /\ below # {}
  <2>1. \A y \in S : y \in Nat /\ n - y \in Nat
    OBVIOUS
  <2> QED
    BY <2>1
<1>2. Min(below) \in below /\ \A d \in below : Min(below) <= d
  <2> HIDE DEF below
  <2> QED
    BY <1>1, LeastExists
<1>3. x \in S
  BY <1>2
<1>4. \A y \in S : y <= x
  <2> TAKE y \in S
  <2>1. n - y \in below /\ y \in Nat
    OBVIOUS
  <2>2. Min(below) <= n - y /\ Min(below) \in Nat
    BY <1>1, <1>2, <2>1
  <2> HIDE DEF below
  <2> QED
    BY <2>1, <2>2
<1> HIDE DEF x
<1> QED
  BY <1>3, <1>4 DEF Max

\* Division with remainder has one result.
LEMMA DivisionIs ==
  ASSUME NEW n \in Nat, NEW f \in Nat \ {0}, NEW q \in Int, NEW r \in 0 .. f - 1, n = f * q + r
  PROVE  n % f = r /\ n \div f = q
<1> DEFINE d == n \div f
           m == n % f
<1>1. m \in 0 .. f - 1 /\ d \in Int /\ n = f * d + m
  OBVIOUS
<1> HIDE DEF d, m
<1>2. f * (d - q) = r - m
  BY <1>1
<1>3. ASSUME NEW e \in Int, f * e = r - m
      PROVE  e = 0
  <2>1. CASE e >= 1
    <3>1. f * e >= f
      BY <2>1
    <3> QED
      BY <1>1, <1>3, <3>1
  <2>2. CASE e =< -1
    <3>1. f * e =< -f
      BY <2>2
    <3> QED
      BY <1>1, <1>3, <3>1
  <2> QED
    BY <2>1, <2>2
<1>4. d - q \in Int
  BY <1>1
<1>5. d - q = 0
  BY <1>2, <1>3, <1>4
<1>6. d = q /\ m = r
  BY <1>1, <1>5
<1> QED
  BY <1>6 DEF d, m

LEMMA Division ==
  ASSUME NEW n \in Nat, NEW f \in Nat \ {0}
  PROVE  n = f * (n \div f) + (n % f) /\ n \div f \in Nat /\ n % f \in 0 .. f - 1
  OBVIOUS

Divides(d, n) == \E q \in Int : n = d * q

LEMMA RemainderIsZero ==
  ASSUME NEW n \in Nat, NEW d \in Nat \ {0}
  PROVE  n % d = 0 <=> Divides(d, n)
<1>1. ASSUME n % d = 0 PROVE Divides(d, n)
  <2>1. n = d * (n \div d) + (n % d) /\ n \div d \in Int
    OBVIOUS
  <2> QED
    BY <1>1, <2>1 DEF Divides
<1>2. ASSUME Divides(d, n) PROVE n % d = 0
  <2>1. PICK q \in Int : n = d * q
    BY <1>2 DEF Divides
  <2>2. n = d * q + 0 /\ 0 \in 0 .. d - 1
    BY <2>1
  <2> QED
    BY <2>2, DivisionIs
<1> QED
  BY <1>1, <1>2

LEMMA ProductIsPositive ==
  ASSUME NEW a \in Nat \ {0}, NEW b \in Int
  PROVE  /\ a * b \in Int
         /\ b >= 1 => a * b >= a /\ a * b >= b
         /\ b <= 0 => a * b <= 0
         /\ b <= -1 => a * b <= -a
  OBVIOUS

LEMMA PowerHalves ==
  ASSUME NEW n \in Nat, n > 1, IsPowerOfTwo(n)
  PROVE  \E m \in Nat \ {0} : n = 2 * m /\ m < n /\ IsPowerOfTwo(m)
<1>1. n % n = 0
  <2>1. n = n * 1
    OBVIOUS
  <2> QED
    BY <2>1, RemainderIsZero DEF Divides
<1>2. n % 2 = 0
  BY <1>1 DEF IsPowerOfTwo
<1>3. PICK m \in Int : n = 2 * m
  BY <1>2
<1>4. m \in Nat \ {0} /\ m < n
  BY <1>3
<1>5. IsPowerOfTwo(m)
  <2> SUFFICES ASSUME NEW d \in 1 .. m, m % d = 0, d % 2 # 0
               PROVE  d = 1
    BY DEF IsPowerOfTwo
  <2>1. PICK q \in Int : m = d * q
    BY <1>4, RemainderIsZero DEF Divides
  <2>2. n = d * (2 * q) /\ 2 * q \in Int
    BY <1>3, <2>1
  <2>3. d \in 1 .. n /\ n % d = 0
    BY <1>4, <2>2, RemainderIsZero DEF Divides
  <2> QED
    BY <2>3 DEF IsPowerOfTwo
<1> QED
  BY <1>3, <1>4, <1>5

LEMMA PowerDoubles ==
  ASSUME NEW n \in Nat \ {0}, IsPowerOfTwo(n)
  PROVE  IsPowerOfTwo(2 * n)
<1> SUFFICES ASSUME NEW d \in 1 .. 2 * n, (2 * n) % d = 0, d % 2 # 0
             PROVE  d = 1
  BY DEF IsPowerOfTwo
<1>1. PICK q \in Int : 2 * n = d * q
  BY RemainderIsZero DEF Divides
<1>2. PICK e \in Int : d = 2 * e + 1
  <2>1. d = 2 * (d \div 2) + (d % 2) /\ d \div 2 \in Int /\ d % 2 \in {0, 1}
    OBVIOUS
  <2> QED
    BY <2>1
<1>3. q = 2 * (n - e * q)
  <2>1. d * q = 2 * (e * q) + q /\ e * q \in Int
    BY <1>2
  <2> QED
    BY <1>1, <2>1
<1>4. PICK p \in Int : q = 2 * p
  <2>1. n - e * q \in Int
    OBVIOUS
  <2> QED
    BY <1>3, <2>1
<1>5. n = d * p
  <2>1. d * q = 2 * (d * p) /\ d * p \in Int
    BY <1>4
  <2> QED
    BY <1>1, <2>1
<1>6. p >= 1
  <2>1. p <= 0 => d * p <= 0
    BY ProductIsPositive
  <2> QED
    BY <1>5, <2>1
<1>7. d <= n
  BY <1>5, <1>6, ProductIsPositive
<1>8. n % d = 0
  <2>1. d \in Nat \ {0} /\ Divides(d, n)
    BY <1>5 DEF Divides
  <2> QED
    BY <2>1, RemainderIsZero
<1> QED
  BY <1>7, <1>8 DEF IsPowerOfTwo

LEMMA OddFactorIsNotNeeded ==
  ASSUME NEW n \in Nat \ {0}, IsPowerOfTwo(n), NEW a \in Int, NEW b \in Int,
         Divides(n, (2 * a + 1) * b)
  PROVE  Divides(n, b)
<1> DEFINE bad == {m \in Nat \ {0} : IsPowerOfTwo(m) /\ \E c \in Int : Divides(m, (2 * a + 1) * c) /\ ~Divides(m, c)}
<1> SUFFICES ASSUME bad # {} PROVE FALSE
  OBVIOUS
<1>1. PICK m \in bad : \A x \in bad : m <= x
  <2>1. bad \in SUBSET Nat
    OBVIOUS
  <2> HIDE DEF bad
  <2> QED
    BY <2>1, LeastExists
<1>2. m \in Nat \ {0} /\ IsPowerOfTwo(m)
  BY <1>1
<1>3. PICK c \in Int : Divides(m, (2 * a + 1) * c) /\ ~Divides(m, c)
  BY <1>1
<1>4. m > 1
  <2>1. c = 1 * c
    OBVIOUS
  <2>2. m # 1
    BY <1>3, <2>1 DEF Divides
  <2> QED
    BY <1>2, <2>2
<1>5. PICK k \in Nat \ {0} : m = 2 * k /\ k < m /\ IsPowerOfTwo(k)
  BY <1>2, <1>4, PowerHalves
<1>6. PICK q \in Int : (2 * a + 1) * c = m * q
  BY <1>3 DEF Divides
<1>7. (2 * a + 1) * c = 2 * (a * c) + c /\ m * q = 2 * (k * q) /\ a * c \in Int /\ k * q \in Int
  BY <1>5
<1>8. PICK e \in Int : c = 2 * e
  <2>1. c = 2 * (k * q - a * c)
    BY <1>6, <1>7
  <2>2. k * q - a * c \in Int
    BY <1>7
  <2> QED
    BY <2>1, <2>2
<1>9. (2 * a + 1) * e = k * q
  <2>1. (2 * a + 1) * c = 2 * ((2 * a + 1) * e) /\ (2 * a + 1) * e \in Int
    BY <1>8
  <2> QED
    BY <1>6, <1>7, <2>1
<1>10. ~Divides(k, e)
  <2> SUFFICES ASSUME NEW p \in Int, e = k * p
               PROVE  FALSE
    BY DEF Divides
  <2>1. c = m * p
    BY <1>5, <1>8
  <2> QED
    BY <1>3, <2>1 DEF Divides
<1>11. k \in bad
  BY <1>5, <1>9, <1>10 DEF Divides
<1> QED
  BY <1>1, <1>5, <1>11

\* Of two powers of two the larger one is at least twice the other.
LEMMA PowersAreFarApart ==
  ASSUME NEW n \in Nat \ {0}, IsPowerOfTwo(n), NEW m \in Nat, IsPowerOfTwo(m), n < m
  PROVE  2 * n <= m
<1> DEFINE bad == {x \in Nat \ {0} : IsPowerOfTwo(x) /\ \E y \in Nat : IsPowerOfTwo(y) /\ x < y /\ y < 2 * x}
<1> SUFFICES ASSUME bad # {} PROVE FALSE
  OBVIOUS
<1>1. PICK x \in bad : \A z \in bad : x <= z
  <2>1. bad \in SUBSET Nat
    OBVIOUS
  <2> HIDE DEF bad
  <2> QED
    BY <2>1, LeastExists
<1>2. x \in Nat \ {0} /\ IsPowerOfTwo(x)
  BY <1>1
<1>3. PICK y \in Nat : IsPowerOfTwo(y) /\ x < y /\ y < 2 * x
  BY <1>1
<1>4. x > 1 /\ y > 1
  BY <1>2, <1>3
<1>5. PICK x2 \in Nat \ {0} : x = 2 * x2 /\ x2 < x /\ IsPowerOfTwo(x2)
  BY <1>2, <1>4, PowerHalves
<1>6. PICK y2 \in Nat \ {0} : y = 2 * y2 /\ y2 < y /\ IsPowerOfTwo(y2)
  BY <1>3, <1>4, PowerHalves
<1>7. x2 < y2 /\ y2 < 2 * x2
  BY <1>3, <1>5, <1>6
<1>8. x2 \in bad
  BY <1>5, <1>6, <1>7
<1> QED
  BY <1>1, <1>5, <1>8

-----------------------------------------------------------------------------
(***************************************************************************)
(* Sizes of tables, and the places that are probed in one: a search does   *)
(* not come to the same place again before it has been everywhere.         *)
(***************************************************************************)
LEMMA SizeIs ==
  ASSUME NEW N \in PowersOfTwo
  PROVE  /\ N \in Nat \ {0} /\ IsPowerOfTwo(N) /\ HT_MIN_BUCKETS <= N /\ N <= MaxSize
         /\ enlarge_size(N) \in Nat /\ enlarge_size(N) < N /\ 2 <= enlarge_size(N)
         /\ Cardinality(0 .. N - 1) = N /\ IsFiniteSet(0 .. N - 1)
<1>1. HT_MIN_BUCKETS \in Nat /\ HT_OCCUPANCY_PCT \in 1 .. 99 /\ HT_MIN_BUCKETS * HT_OCCUPANCY_PCT >= 200
      /\ MaxSize \in Nat
  BY TableAssumption, SizeAssumption
<1>2. HT_MIN_BUCKETS >= 1
  BY <1>1
<1>3. N \in Nat \ {0} /\ IsPowerOfTwo(N) /\ HT_MIN_BUCKETS <= N /\ N <= MaxSize
  BY <1>1, <1>2 DEF PowersOfTwo
<1>4. N * HT_OCCUPANCY_PCT >= 200 /\ N * HT_OCCUPANCY_PCT <= 99 * N /\ N * HT_OCCUPANCY_PCT \in Nat
  BY <1>1, <1>3
<1>5. enlarge_size(N) \in Nat /\ enlarge_size(N) < N /\ 2 <= enlarge_size(N)
  <2> DEFINE p == N * HT_OCCUPANCY_PCT
  <2>1. p \in Nat /\ p >= 200 /\ p <= 99 * N
    BY <1>4
  <2>2. enlarge_size(N) = p \div 100
    BY DEF enlarge_size
  <2> HIDE DEF p
  <2> QED
    BY <1>3, <2>1, <2>2
<1>6. Cardinality(0 .. N - 1) = N /\ IsFiniteSet(0 .. N - 1)
  BY <1>3, FS_Interval
<1> QED
  BY <1>3, <1>5, <1>6

LEMMA LargerHoldsMore ==
  ASSUME NEW N \in Nat, NEW M \in Nat, N <= M
  PROVE  enlarge_size(N) <= enlarge_size(M) /\ enlarge_size(N) \in Nat /\ enlarge_size(M) \in Nat
<1> DEFINE p == N * HT_OCCUPANCY_PCT
           q == M * HT_OCCUPANCY_PCT
<1>1. p \in Nat /\ q \in Nat /\ p <= q
  BY TableAssumption
<1>2. enlarge_size(N) = p \div 100 /\ enlarge_size(M) = q \div 100
  BY DEF enlarge_size
<1> HIDE DEF p, q
<1> QED
  BY <1>1, <1>2

LEMMA TriangularIs ==
  ASSUME NEW n \in Nat
  PROVE  /\ (n * (n + 1)) \div 2 \in Nat
         /\ 2 * ((n * (n + 1)) \div 2) = n * (n + 1)
<1>1. \E c \in Nat : n * (n + 1) = 2 * c
  <2>1. PICK a \in Nat : n = 2 * a \/ n = 2 * a + 1
    <3>1. n = 2 * (n \div 2) + (n % 2) /\ n \div 2 \in Nat /\ n % 2 \in {0, 1}
      OBVIOUS
    <3> QED
      BY <3>1
  <2>2. CASE n = 2 * a
    <3>1. n * (n + 1) = 2 * (a * (n + 1)) /\ a * (n + 1) \in Nat
      BY <2>2
    <3> QED
      BY <3>1
  <2>3. CASE n = 2 * a + 1
    <3>1. n * (n + 1) = 2 * (n * (a + 1)) /\ n * (a + 1) \in Nat
      BY <2>3
    <3> QED
      BY <3>1
  <2> QED
    BY <2>1, <2>2, <2>3
<1>2. PICK c \in Nat : n * (n + 1) = 2 * c
  BY <1>1
<1>3. (2 * c) \div 2 = c
  OBVIOUS
<1> QED
  BY <1>2, <1>3

LEMMA ProbeIs ==
  ASSUME hash \in HashFunctions, NEW k \in DOMAIN hash, NEW N \in PowersOfTwo, NEW n \in Nat
  PROVE  Probe(k, n, N) \in 0 .. N - 1
<1>1. hash[k] \in Nat /\ (n * (n + 1)) \div 2 \in Nat /\ N \in Nat \ {0}
  BY TableAssumption, TriangularIs, SizeIs
<1>2. hash[k] + (n * (n + 1)) \div 2 \in Nat
  BY <1>1
<1> QED
  BY <1>1, <1>2 DEF Probe

LEMMA ProbesDiffer ==
  ASSUME hash \in HashFunctions, NEW k \in DOMAIN hash, NEW N \in PowersOfTwo,
         NEW m \in 0 .. N - 1, NEW n \in 0 .. N - 1, m < n
  PROVE  Probe(k, m, N) # Probe(k, n, N)
<1> DEFINE h == hash[k]
           M == (m * (m + 1)) \div 2
           P == (n * (n + 1)) \div 2
<1>1. N \in Nat \ {0} /\ IsPowerOfTwo(N) /\ m \in Nat /\ n \in Nat
  BY SizeIs
<1>2. h \in Nat /\ M \in Nat /\ P \in Nat /\ 2 * M = m * (m + 1) /\ 2 * P = n * (n + 1)
  BY <1>1, TableAssumption, TriangularIs
<1>3. Probe(k, m, N) = (h + M) % N /\ Probe(k, n, N) = (h + P) % N
  BY DEF Probe
<1> HIDE DEF h, M, P
<1> SUFFICES ASSUME (h + M) % N = (h + P) % N
             PROVE  FALSE
  BY <1>3
<1>4. PICK q \in Int : P - M = N * q
  <2> DEFINE x == h + M
             y == h + P
  <2>0. x \in Nat /\ y \in Nat
    BY <1>2
  <2>1. x = N * (x \div N) + (x % N) /\ y = N * (y \div N) + (y % N) /\ x \div N \in Int /\ y \div N \in Int
    <3> HIDE DEF x, y
    <3> QED
      BY <1>1, <2>0, Division
  <2>2. y - x = N * ((y \div N) - (x \div N))
    <3>1. N * ((y \div N) - (x \div N)) = N * (y \div N) - N * (x \div N)
      BY <1>1, <2>1
    <3>2. x % N \in Int /\ N * (y \div N) \in Int /\ N * (x \div N) \in Int
      <4>1. x % N \in Int
        BY <1>1, <2>0, Division
      <4>2. N * (y \div N) \in Int /\ N * (x \div N) \in Int
        BY <1>1, <2>1
      <4> QED
        BY <4>1, <4>2
    <3> QED
      BY <2>1, <3>1, <3>2
  <2>3. y - x = P - M
    BY <1>2
  <2> QED
    BY <2>1, <2>2, <2>3
<1>5. (n - m) * (n + m + 1) = (2 * N) * q
  <2>1. (n - m) * (n + m + 1) = n * (n + 1) - m * (m + 1)
    BY <1>1
  <2>2. (2 * N) * q = 2 * (N * q) /\ N * q \in Int
    BY <1>1
  <2> QED
    BY <1>2, <1>4, <2>1, <2>2
<1>6. IsPowerOfTwo(2 * N) /\ 2 * N \in Nat \ {0}
  BY <1>1, PowerDoubles
<1>7. ASSUME NEW b \in Nat, b > 0, b < 2 * N
      PROVE  ~Divides(2 * N, b)
  <2> SUFFICES ASSUME NEW p \in Int, b = (2 * N) * p
               PROVE  FALSE
    BY DEF Divides
  <2>1. p >= 1 => (2 * N) * p >= 2 * N
    BY <1>6, ProductIsPositive
  <2>2. p <= 0 => (2 * N) * p <= 0
    BY <1>6, ProductIsPositive
  <2> QED
    BY <1>1, <1>7, <2>1, <2>2
<1>8. PICK a \in Nat : n - m = 2 * a \/ n - m = 2 * a + 1
  <2>1. n - m \in Nat
    BY <1>1
  <2>2. n - m = 2 * ((n - m) \div 2) + ((n - m) % 2) /\ (n - m) \div 2 \in Nat /\ (n - m) % 2 \in {0, 1}
    BY <2>1
  <2> QED
    BY <2>2
<1>9. CASE n - m = 2 * a + 1
  <2>1. Divides(2 * N, (2 * a + 1) * (n + m + 1))
    BY <1>5, <1>9 DEF Divides
  <2>2. Divides(2 * N, n + m + 1)
    <3>1. n + m + 1 \in Int /\ a \in Int
      BY <1>1
    <3> QED
      BY <1>6, <2>1, <3>1, OddFactorIsNotNeeded
  <2> QED
    BY <1>1, <1>7, <2>2
<1>10. CASE n - m = 2 * a
  <2>1. n + m + 1 = 2 * (a + m) + 1 /\ a + m \in Int
    BY <1>1, <1>10
  <2>2. (2 * (a + m) + 1) * (n - m) = (n - m) * (n + m + 1)
    BY <1>1, <2>1
  <2>3. Divides(2 * N, (2 * (a + m) + 1) * (n - m))
    BY <1>5, <2>2 DEF Divides
  <2>4. Divides(2 * N, n - m)
    <3>1. n - m \in Int
      BY <1>1
    <3> HIDE <1>10
    <3> QED
      BY <1>6, <2>1, <2>3, <3>1, OddFactorIsNotNeeded
  <2> QED
    BY <1>1, <1>7, <2>4
<1> QED
  BY <1>8, <1>9, <1>10

\* A set that is smaller than the table does not have all the places probed.
LEMMA ProbesLeave ==
  ASSUME hash \in HashFunctions, NEW k \in DOMAIN hash, NEW N \in PowersOfTwo,
         NEW S, IsFiniteSet(S), Cardinality(S) < N
  PROVE  \E n \in 0 .. N - 1 : Probe(k, n, N) \notin S
<1> SUFFICES ASSUME \A n \in 0 .. N - 1 : Probe(k, n, N) \in S
             PROVE  FALSE
  OBVIOUS
<1> DEFINE f == [n \in 0 .. N - 1 |-> Probe(k, n, N)]
<1>1. f \in [0 .. N - 1 -> S] /\ IsFiniteSet(0 .. N - 1) /\ Cardinality(0 .. N - 1) = N /\ N \in Nat
  BY SizeIs
<1>2. PICK x, y \in 0 .. N - 1 : x # y /\ f[x] = f[y]
  <2> HIDE DEF f
  <2> QED
    BY <1>1, FS_PigeonHole
<1>3. x < y \/ y < x
  BY <1>1, <1>2
<1> QED
  BY <1>2, <1>3, ProbesDiffer

LEMMA MinBucketsIs ==
  ASSUME NEW n \in Nat, NEW wanted \in Nat, NEW sz \in PowersOfTwo, sz >= wanted, n < enlarge_size(sz)
  PROVE  LET m == min_buckets(n, wanted)
         IN /\ m \in PowersOfTwo /\ m >= wanted /\ n < enlarge_size(m)
            /\ \A y \in PowersOfTwo : y >= wanted /\ n < enlarge_size(y) => m <= y
<1> DEFINE S == {y \in PowersOfTwo : y >= wanted /\ n < enlarge_size(y)}
<1>1. S \in SUBSET Nat /\ S # {}
  BY SizeIs
<1>2. min_buckets(n, wanted) = Min(S)
  BY DEF min_buckets
<1>3. Min(S) \in S /\ \A y \in S : Min(S) <= y
  <2> HIDE DEF S
  <2> QED
    BY <1>1, LeastExists
<1> QED
  BY <1>2, <1>3

-----------------------------------------------------------------------------
(***************************************************************************)
(* The buckets of a table. In a good one num_deleted counts the tombstones *)
(* and num_elements what is not empty, or more; if nothing is missing, the *)
(* probes for the key of an item lead to it, with no empty bucket before,  *)
(* and no two items have one key.                                          *)
(***************************************************************************)
Bucket == [key : DOMAIN hash \union {EMPTY_KEY, DELETED_KEY}, value : Values]
Table(N) == [buckets : [0 .. N - 1 -> Bucket], num_elements : Nat, num_deleted : Nat,
             consider_shrink : BOOLEAN]

Used(bk) == {b \in DOMAIN bk : bk[b].key \in DOMAIN hash}
NonEmpty(bk) == {b \in DOMAIN bk : bk[b].key # EMPTY_KEY}
Deleted(bk) == {b \in DOMAIN bk : bk[b].key = DELETED_KEY}
Items(bk) == {bk[b] : b \in Used(bk)}

\* The items after one for k is inserted, unless there is one.
ItemsBut(bk, R) == {bk[b] : b \in Used(bk) \ R}
WithoutKey(I, k) == {i \in I : i.key # k}
WithItem(I, k, v) == IF \E i \in I : i.key = k THEN I ELSE I \union {[key |-> k, value |-> v]}

Leads(bk, N, k, b) ==
  \E n \in 0 .. N - 1 :
    /\ Probe(k, n, N) = b
    /\ \A m \in 0 .. n - 1 : bk[Probe(k, m, N)].key # EMPTY_KEY

HasNo(bk, k) == \A b \in Used(bk) : bk[b].key # k

IsPlaced(bk, N) ==
  /\ \A b \in Used(bk) : Leads(bk, N, bk[b].key, b)
  /\ \A b, c \in Used(bk) : bk[b].key = bk[c].key => b = c

Good(t, N, full) ==
  /\ t \in Table(N)
  /\ t.num_deleted = Cardinality(Deleted(t.buckets))
  /\ Cardinality(NonEmpty(t.buckets)) <= t.num_elements
  /\ t.num_elements <= enlarge_size(N)
  /\ full => IsPlaced(t.buckets, N) /\ t.num_elements = Cardinality(NonEmpty(t.buckets))

LEMMA KeysDiffer ==
  ASSUME hash \in HashFunctions
  PROVE  /\ EMPTY_KEY \notin DOMAIN hash /\ DELETED_KEY \notin DOMAIN hash
         /\ EMPTY_KEY # DELETED_KEY /\ DOMAIN hash \subseteq Keys /\ 0 \in Values
         /\ \A k \in DOMAIN hash : hash[k] \in Nat
  BY TableAssumption DEF Values

LEMMA BucketsAre ==
  ASSUME hash \in HashFunctions, NEW N \in PowersOfTwo, NEW bk \in [0 .. N - 1 -> Bucket]
  PROVE  /\ DOMAIN bk = 0 .. N - 1
         /\ NonEmpty(bk) \subseteq 0 .. N - 1 /\ IsFiniteSet(NonEmpty(bk))
         /\ Used(bk) \subseteq 0 .. N - 1 /\ IsFiniteSet(Used(bk))
         /\ Deleted(bk) \subseteq 0 .. N - 1 /\ IsFiniteSet(Deleted(bk))
         /\ NonEmpty(bk) = Used(bk) \union Deleted(bk) /\ Used(bk) \cap Deleted(bk) = {}
         /\ Cardinality(Used(bk)) \in Nat /\ Cardinality(Deleted(bk)) \in Nat
         /\ Cardinality(NonEmpty(bk)) = Cardinality(Used(bk)) + Cardinality(Deleted(bk))
<1>1. DOMAIN bk = 0 .. N - 1 /\ \A b \in 0 .. N - 1 : bk[b].key \in DOMAIN hash \union {EMPTY_KEY, DELETED_KEY}
  BY DEF Bucket
<1>2. /\ NonEmpty(bk) \subseteq 0 .. N - 1 /\ Used(bk) \subseteq 0 .. N - 1 /\ Deleted(bk) \subseteq 0 .. N - 1
      /\ NonEmpty(bk) = Used(bk) \union Deleted(bk) /\ Used(bk) \cap Deleted(bk) = {}
  BY <1>1, KeysDiffer DEF NonEmpty, Used, Deleted
<1>3. IsFiniteSet(NonEmpty(bk)) /\ IsFiniteSet(Used(bk)) /\ IsFiniteSet(Deleted(bk))
  BY <1>2, SizeIs, FS_Subset
<1>4. Cardinality(Used(bk)) \in Nat /\ Cardinality(Deleted(bk)) \in Nat
  BY <1>3, FS_CardinalityType
<1>5. Cardinality(NonEmpty(bk)) = Cardinality(Used(bk)) + Cardinality(Deleted(bk))
  <2>1. Cardinality(Used(bk) \union Deleted(bk))
          = Cardinality(Used(bk)) + Cardinality(Deleted(bk)) - Cardinality(Used(bk) \cap Deleted(bk))
    BY <1>3, FS_Union
  <2>2. Cardinality(Used(bk) \cap Deleted(bk)) = 0
    BY <1>2, FS_EmptySet
  <2> QED
    BY <1>2, <1>4, <2>1, <2>2
<1> QED
  BY <1>1, <1>2, <1>3, <1>4, <1>5

LEMMA TableIs ==
  ASSUME hash \in HashFunctions, NEW N \in PowersOfTwo, NEW full, NEW t, Good(t, N, full)
  PROVE  /\ bucket_count(t) = N /\ t.buckets \in [0 .. N - 1 -> Bucket] /\ DOMAIN t.buckets = 0 .. N - 1
         /\ t.num_elements \in Nat /\ t.num_deleted \in Nat /\ t.consider_shrink \in BOOLEAN
         /\ \A b \in 0 .. N - 1 : test_deleted(t, b) <=> t.buckets[b].key = DELETED_KEY
         /\ LiveBuckets(t) = Used(t.buckets)
         /\ size(t) \in Nat /\ size(t) <= t.num_elements /\ Cardinality(Used(t.buckets)) <= size(t)
         /\ t.num_elements < N
         /\ full => size(t) = Cardinality(Used(t.buckets))
<1> DEFINE bk == t.buckets
<1>1. /\ bk \in [0 .. N - 1 -> Bucket] /\ t.num_elements \in Nat /\ t.num_deleted \in Nat
      /\ t.consider_shrink \in BOOLEAN
  BY DEF Good, Table
<1>2. /\ DOMAIN bk = 0 .. N - 1 /\ Deleted(bk) \subseteq 0 .. N - 1 /\ IsFiniteSet(Deleted(bk))
      /\ NonEmpty(bk) = Used(bk) \union Deleted(bk) /\ Used(bk) \cap Deleted(bk) = {}
      /\ Cardinality(Used(bk)) \in Nat /\ Cardinality(Deleted(bk)) \in Nat
      /\ Cardinality(NonEmpty(bk)) = Cardinality(Used(bk)) + Cardinality(Deleted(bk))
  <2> HIDE DEF bk
  <2> QED
    BY <1>1, BucketsAre
<1>3. t.num_deleted = Cardinality(Deleted(bk)) /\ Cardinality(NonEmpty(bk)) <= t.num_elements
      /\ t.num_elements <= enlarge_size(N) /\ (full => t.num_elements = Cardinality(NonEmpty(bk)))
  BY DEF Good
<1>4. enlarge_size(N) \in Nat /\ enlarge_size(N) < N /\ N \in Nat /\ Cardinality(0 .. N - 1) = N
  BY SizeIs
<1>5. bucket_count(t) = N
  BY <1>2, <1>4 DEF bucket_count
<1>6. \A b \in 0 .. N - 1 : test_deleted(t, b) <=> bk[b].key = DELETED_KEY
  <2> SUFFICES ASSUME NEW b \in 0 .. N - 1, bk[b].key = DELETED_KEY
               PROVE  t.num_deleted > 0
    BY DEF test_deleted
  <2>1. Deleted(bk) # {}
    BY <1>2 DEF Deleted
  <2>2. Cardinality(Deleted(bk)) # 0
    BY <1>2, <2>1, FS_EmptySet
  <2> QED
    BY <1>2, <1>3, <2>2
<1>7. LiveBuckets(t) = Used(bk)
  <2>1. LiveBuckets(t) = {b \in DOMAIN bk : bk[b].key # EMPTY_KEY /\ bk[b].key # DELETED_KEY}
    BY <1>2, <1>6 DEF LiveBuckets, test_empty
  <2>2. LiveBuckets(t) = NonEmpty(bk) \ Deleted(bk)
    BY <2>1 DEF NonEmpty, Deleted
  <2> QED
    BY <1>2, <2>2
<1> HIDE DEF bk
<1>8. /\ size(t) \in Nat /\ size(t) <= t.num_elements /\ Cardinality(Used(bk)) <= size(t)
      /\ full => size(t) = Cardinality(Used(bk))
  BY <1>1, <1>2, <1>3 DEF size
<1>9. t.num_elements < N
  BY <1>1, <1>3, <1>4
<1> QED
  BY <1>1, <1>2, <1>5, <1>6, <1>7, <1>8, <1>9 DEF bk

\* Where a search ends.
LEMMA SearchIs ==
  ASSUME hash \in HashFunctions, NEW N \in PowersOfTwo, NEW full, NEW t, Good(t, N, full),
         NEW k \in DOMAIN hash, NEW bk, bk = t.buckets, NEW pos, pos = find_position(t, k)
  PROVE  /\ SearchEnds(t, k)
         /\ pos = [found |-> pos.found, bucket |-> pos.bucket]
         /\ pos.found \in BOOLEAN /\ pos.bucket \in 0 .. N - 1
         /\ pos.found => pos.bucket \in Used(bk) /\ bk[pos.bucket].key = k
         /\ ~pos.found => /\ bk[pos.bucket].key \in {EMPTY_KEY, DELETED_KEY}
                          /\ Leads(bk, N, k, pos.bucket)
                          /\ full => HasNo(bk, k)
<1> DEFINE probe(n) == Probe(k, n, N)
           ends == {n \in 0 .. N - 1 : StopsAt(t, k, n)}
           last == Min(ends)
           deleted == {n \in 0 .. last - 1 : test_deleted(t, probe(n))}
<1>1. /\ N \in Nat \ {0} /\ DOMAIN bk = 0 .. N - 1 /\ bucket_count(t) = N
      /\ bk \in [0 .. N - 1 -> Bucket]
      /\ \A b \in 0 .. N - 1 : test_deleted(t, b) <=> bk[b].key = DELETED_KEY
  BY SizeIs, TableIs
<1>2. \A n \in Nat : probe(n) \in 0 .. N - 1
  BY ProbeIs
<1>3. PICK n0 \in 0 .. N - 1 : probe(n0) \notin NonEmpty(bk)
  <2>1. IsFiniteSet(NonEmpty(bk)) /\ Cardinality(NonEmpty(bk)) \in Nat
    BY <1>1, BucketsAre, FS_CardinalityType
  <2>2. Cardinality(NonEmpty(bk)) < N
    BY <1>1, <2>1, SizeIs, TableIs DEF Good
  <2> QED
    BY <2>1, <2>2, ProbesLeave
<1>4. \A n \in 0 .. N - 1 : StopsAt(t, k, n) <=> bk[probe(n)].key = EMPTY_KEY \/ bk[probe(n)].key = k
  BY <1>1 DEF StopsAt, test_empty
<1>5. n0 \in ends
  <2>1. n0 \in Nat
    OBVIOUS
  <2>2. probe(n0) \in 0 .. N - 1
    BY <1>2, <2>1
  <2> HIDE DEF probe
  <2>3. bk[probe(n0)].key = EMPTY_KEY
    BY <1>1, <1>3, <2>2 DEF NonEmpty
  <2> QED
    BY <1>4, <2>3
<1>6. last \in ends /\ \A n \in ends : last <= n
  <2>1. ends \in SUBSET Nat /\ ends # {}
    BY <1>5
  <2> HIDE DEF ends
  <2> QED
    BY <2>1, LeastExists
<1>7. SearchEnds(t, k)
  BY <1>1, <1>5 DEF SearchEnds
<1>8. pos = [found  |-> bk[probe(last)].key = k,
             bucket |-> IF bk[probe(last)].key = k \/ deleted = {} THEN probe(last)
                        ELSE probe(Min(deleted))]
  BY <1>1 DEF find_position
<1> HIDE DEF last
<1>9. last \in 0 .. N - 1 /\ last \in Nat /\ StopsAt(t, k, last)
  BY <1>6
<1>10. \A m \in 0 .. last - 1 : bk[probe(m)].key # EMPTY_KEY /\ bk[probe(m)].key # k
  <2> TAKE m \in 0 .. last - 1
  <2>1. m \in 0 .. N - 1 /\ m \notin ends
    BY <1>1, <1>6, <1>9
  <2> QED
    BY <1>4, <2>1
<1> HIDE DEF ends
<1>11. probe(last) \in 0 .. N - 1
  BY <1>2, <1>9
<1>12. CASE bk[probe(last)].key = k
  <2>1. pos = [found |-> TRUE, bucket |-> probe(last)]
    BY <1>8, <1>12
  <2> HIDE DEF probe
  <2>2. probe(last) \in Used(bk)
    BY <1>1, <1>11, <1>12 DEF Used
  <2> QED
    BY <1>7, <1>11, <1>12, <2>1, <2>2
<1>13. CASE bk[probe(last)].key # k
  <2>1. bk[probe(last)].key = EMPTY_KEY
    BY <1>4, <1>9, <1>13
  <2>2. full => HasNo(bk, k)
    <3> SUFFICES ASSUME full, NEW b \in Used(bk), bk[b].key = k
                 PROVE  FALSE
      BY DEF HasNo
    <3>1. PICK n \in 0 .. N - 1 : /\ probe(n) = b
                                  /\ \A m \in 0 .. n - 1 : bk[probe(m)].key # EMPTY_KEY
      BY DEF Good, IsPlaced, Leads
    <3> HIDE DEF probe
    <3>2. n \in Nat
      OBVIOUS
    <3>3. ~(last < n)
      BY <1>9, <2>1, <3>1, <3>2
    <3>4. ~(n < last)
      <4> SUFFICES ASSUME n < last PROVE FALSE
        OBVIOUS
      <4>1. n \in 0 .. last - 1
        BY <1>9, <3>2
      <4> QED
        BY <1>10, <3>1, <4>1
    <3>5. n = last
      BY <1>9, <3>2, <3>3, <3>4
    <3> QED
      BY <1>13, <3>1, <3>5
  <2>3. CASE deleted = {}
    <3>1. pos = [found |-> FALSE, bucket |-> probe(last)]
      BY <1>8, <1>13, <2>3
    <3>2. Leads(bk, N, k, probe(last))
      BY <1>9, <1>10 DEF Leads
    <3> HIDE DEF probe
    <3> QED
      BY <1>7, <1>11, <2>1, <2>2, <3>1, <3>2
  <2>4. CASE deleted # {}
    <3> DEFINE d == Min(deleted)
    <3>1. d \in deleted
      <4>1. deleted \in SUBSET Nat
        OBVIOUS
      <4> HIDE DEF deleted
      <4> QED
        BY <2>4, <4>1, LeastExists
    <3>2. pos = [found |-> FALSE, bucket |-> probe(d)]
      BY <1>8, <1>13, <2>4
    <3> HIDE DEF d
    <3>3. d \in 0 .. last - 1 /\ test_deleted(t, probe(d)) /\ d \in Nat /\ d \in 0 .. N - 1
      BY <1>1, <1>9, <3>1
    <3>4. probe(d) \in 0 .. N - 1
      BY <1>2, <3>3
    <3>5. Leads(bk, N, k, probe(d))
      BY <1>9, <1>10, <3>3 DEF Leads
    <3> HIDE DEF probe
    <3>6. bk[probe(d)].key = DELETED_KEY
      BY <1>1, <3>3, <3>4
    <3> QED
      BY <1>7, <2>2, <3>2, <3>4, <3>5, <3>6
  <2> QED
    BY <2>3, <2>4
<1> QED
  BY <1>12, <1>13

-----------------------------------------------------------------------------
(***************************************************************************)
(* What becomes of the buckets if an item is put where a search has ended, *)
(* if items become tombstones, and if a value is changed.                  *)
(***************************************************************************)
IsFilled(new, bk, N, b, k, v) ==
  /\ hash \in HashFunctions /\ N \in PowersOfTwo /\ bk \in [0 .. N - 1 -> Bucket]
  /\ b \in 0 .. N - 1 /\ bk[b].key \in {EMPTY_KEY, DELETED_KEY}
  /\ k \in DOMAIN hash /\ v \in Values /\ new = [bk EXCEPT ![b] = [key |-> k, value |-> v]]

LEMMA Filled ==
  ASSUME NEW N, NEW bk, NEW b, NEW k, NEW v, NEW new, IsFilled(new, bk, N, b, k, v)
  PROVE  /\ new \in [0 .. N - 1 -> Bucket]
         /\ Used(new) = Used(bk) \union {b} /\ Cardinality(Used(new)) = Cardinality(Used(bk)) + 1
         /\ IF bk[b].key = EMPTY_KEY
            THEN /\ Cardinality(NonEmpty(new)) = Cardinality(NonEmpty(bk)) + 1
                 /\ Cardinality(Deleted(new)) = Cardinality(Deleted(bk))
            ELSE /\ Cardinality(NonEmpty(new)) = Cardinality(NonEmpty(bk))
                 /\ Cardinality(Deleted(new)) = Cardinality(Deleted(bk)) - 1
         /\ Leads(bk, N, k, b) /\ HasNo(bk, k) /\ IsPlaced(bk, N) => IsPlaced(new, N)
<1> USE DEF IsFilled
<1>1. new \in [0 .. N - 1 -> Bucket]
  BY DEF Bucket
<1>2. /\ DOMAIN new = 0 .. N - 1 /\ DOMAIN bk = 0 .. N - 1
      /\ \A c \in 0 .. N - 1 : new[c] = IF c = b THEN [key |-> k, value |-> v] ELSE bk[c]
  OBVIOUS
<1>3. new[b].key = k /\ \A c \in 0 .. N - 1 : c # b => new[c] = bk[c]
  BY <1>2
<1>4. Used(new) = Used(bk) \union {b} /\ b \notin Used(bk)
  BY <1>2, <1>3, KeysDiffer DEF Used
<1>5. /\ IsFiniteSet(Used(bk)) /\ IsFiniteSet(Deleted(bk))
      /\ Cardinality(NonEmpty(bk)) = Cardinality(Used(bk)) + Cardinality(Deleted(bk))
      /\ Cardinality(NonEmpty(new)) = Cardinality(Used(new)) + Cardinality(Deleted(new))
      /\ Cardinality(Used(bk)) \in Nat /\ Cardinality(Deleted(bk)) \in Nat
  BY <1>1, BucketsAre
<1>6. Cardinality(Used(new)) = Cardinality(Used(bk)) + 1
  <2> HIDE DEF IsFilled
  <2>1. IsFiniteSet(Used(bk)) /\ b \notin Used(bk)
    BY <1>4, <1>5
  <2>2. Cardinality(Used(bk) \union {b}) = Cardinality(Used(bk)) + 1
    BY <2>1, FS_AddElement
  <2> QED
    BY <2>2, <1>4
<1>7. IF bk[b].key = EMPTY_KEY
      THEN Cardinality(Deleted(new)) = Cardinality(Deleted(bk))
      ELSE Cardinality(Deleted(new)) = Cardinality(Deleted(bk)) - 1
  <2>1. CASE bk[b].key = EMPTY_KEY
    <3>1. Deleted(new) = Deleted(bk)
      BY <1>2, <1>3, <2>1, KeysDiffer DEF Deleted
    <3> QED
      BY <2>1, <3>1
  <2>2. CASE bk[b].key # EMPTY_KEY
    <3>1. Deleted(new) = Deleted(bk) \ {b} /\ b \in Deleted(bk)
      BY <1>2, <1>3, <2>2, KeysDiffer DEF Deleted
    <3> HIDE DEF IsFilled
    <3>2. IsFiniteSet(Deleted(bk)) /\ Cardinality(Deleted(bk)) \in Nat
      BY <1>5
    <3>3. Cardinality(Deleted(bk) \ {b}) = Cardinality(Deleted(bk)) - 1
      BY <3>1, <3>2, FS_RemoveElement
    <3>4. Cardinality(Deleted(new)) = Cardinality(Deleted(bk)) - 1
      BY <3>1, <3>3
    <3> QED
      BY <2>2, <3>4
  <2> QED
    BY <2>1, <2>2
<1>8. Cardinality(NonEmpty(new)) = IF bk[b].key = EMPTY_KEY THEN Cardinality(NonEmpty(bk)) + 1
                                   ELSE Cardinality(NonEmpty(bk))
  BY <1>5, <1>6, <1>7
<1>9. ASSUME Leads(bk, N, k, b), HasNo(bk, k), IsPlaced(bk, N) PROVE IsPlaced(new, N)
  <2>1. ASSUME NEW j, NEW c, Leads(bk, N, j, c), j \in DOMAIN hash
        PROVE  Leads(new, N, j, c)
    <3>1. PICK n \in 0 .. N - 1 : /\ Probe(j, n, N) = c
                                  /\ \A m \in 0 .. n - 1 : bk[Probe(j, m, N)].key # EMPTY_KEY
      BY <2>1 DEF Leads
    <3>2. ASSUME NEW m \in 0 .. n - 1 PROVE new[Probe(j, m, N)].key # EMPTY_KEY
      <4>1. Probe(j, m, N) \in 0 .. N - 1
        <5>1. m \in Nat
          OBVIOUS
        <5> QED
          BY <2>1, <5>1, ProbeIs
      <4> DEFINE p == Probe(j, m, N)
      <4>2. p \in 0 .. N - 1 /\ bk[p].key # EMPTY_KEY
        BY <3>1, <4>1
      <4> HIDE DEF p
      <4>3. new[p].key # EMPTY_KEY
        BY <1>3, <4>2, KeysDiffer
      <4> QED
        BY <4>3 DEF p
    <3> QED
      BY <3>1, <3>2 DEF Leads
  <2>2. \A c \in Used(new) : Leads(new, N, new[c].key, c)
    <3> TAKE c \in Used(new)
    <3>1. CASE c = b
      BY <1>3, <1>9, <2>1, <3>1
    <3>2. CASE c # b
      <4>1. c \in Used(bk) /\ new[c] = bk[c]
        BY <1>2, <1>3, <1>4, <3>2 DEF Used
      <4>2. Leads(bk, N, bk[c].key, c) /\ bk[c].key \in DOMAIN hash
        BY <1>9, <4>1 DEF IsPlaced, Used
      <4> QED
        BY <2>1, <4>1, <4>2
    <3> QED
      BY <3>1, <3>2
  <2>3. \A c \in Used(bk) : c # b /\ new[c] = bk[c] /\ bk[c].key # k
    BY <1>2, <1>3, <1>4, <1>9 DEF Used, HasNo
  <2>4. \A c, d \in Used(new) : new[c].key = new[d].key => c = d
    <3> TAKE c, d \in Used(new)
    <3>1. c \in Used(bk) \/ c = b
      BY <1>4
    <3>2. d \in Used(bk) \/ d = b
      BY <1>4
    <3> QED
      BY <1>3, <1>9, <2>3, <3>1, <3>2 DEF IsPlaced
  <2> QED
    BY <2>2, <2>4 DEF IsPlaced
<1> QED
  BY <1>1, <1>4, <1>6, <1>7, <1>8, <1>9

IsErased(new, bk, N, R) ==
  /\ hash \in HashFunctions /\ N \in PowersOfTwo /\ bk \in [0 .. N - 1 -> Bucket]
  /\ R \in SUBSET Used(bk) /\ new = [b \in DOMAIN bk |-> IF b \in R THEN Tombstone ELSE bk[b]]

LEMMA Erased ==
  ASSUME NEW N, NEW bk, NEW R, NEW new, IsErased(new, bk, N, R)
  PROVE  /\ new \in [0 .. N - 1 -> Bucket] /\ Used(new) = Used(bk) \ R
         /\ NonEmpty(new) = NonEmpty(bk)
         /\ Cardinality(Deleted(new)) = Cardinality(Deleted(bk)) + Cardinality(R)
         /\ IsPlaced(bk, N) => IsPlaced(new, N)
<1> USE DEF IsErased
<1>1. /\ DOMAIN bk = 0 .. N - 1 /\ IsFiniteSet(Deleted(bk)) /\ IsFiniteSet(R)
      /\ Used(bk) \subseteq 0 .. N - 1 /\ Used(bk) \cap Deleted(bk) = {}
  BY BucketsAre, FS_Subset
<1>2. new \in [0 .. N - 1 -> Bucket]
  BY <1>1, KeysDiffer DEF Bucket, Tombstone
<1>3. /\ DOMAIN new = 0 .. N - 1
      /\ \A b \in R : b \in 0 .. N - 1 /\ new[b].key = DELETED_KEY /\ bk[b].key \in DOMAIN hash
      /\ \A b \in 0 .. N - 1 : b \notin R => new[b] = bk[b]
  BY <1>1 DEF Tombstone, Used
<1>4. Used(new) = Used(bk) \ R /\ NonEmpty(new) = NonEmpty(bk) /\ Deleted(new) = Deleted(bk) \union R
  BY <1>1, <1>3, KeysDiffer DEF Used, NonEmpty, Deleted
<1>5. Cardinality(Deleted(new)) = Cardinality(Deleted(bk)) + Cardinality(R)
  <2>1. Deleted(bk) \cap R = {}
    BY <1>1
  <2>2. Cardinality(Deleted(bk) \union R)
          = Cardinality(Deleted(bk)) + Cardinality(R) - Cardinality(Deleted(bk) \cap R)
    BY <1>1, FS_Union
  <2>3. Cardinality(Deleted(bk) \cap R) = 0 /\ Cardinality(Deleted(bk)) \in Nat /\ Cardinality(R) \in Nat
    BY <1>1, <2>1, FS_EmptySet, FS_CardinalityType
  <2>4. Cardinality(Deleted(new)) = Cardinality(Deleted(bk) \union R)
    BY <1>4
  <2> QED
    BY <2>2, <2>3, <2>4
<1>6. ASSUME IsPlaced(bk, N) PROVE IsPlaced(new, N)
  <2>1. ASSUME NEW c \in Used(new) PROVE Leads(new, N, new[c].key, c)
    <3>1. c \in Used(bk) /\ new[c] = bk[c]
      BY <1>1, <1>3, <1>4
    <3>2. bk[c].key \in DOMAIN hash
      BY <3>1 DEF Used
    <3>3. PICK n \in 0 .. N - 1 : /\ Probe(bk[c].key, n, N) = c
                                  /\ \A m \in 0 .. n - 1 : bk[Probe(bk[c].key, m, N)].key # EMPTY_KEY
      BY <1>6, <3>1 DEF IsPlaced, Leads
    <3>4. ASSUME NEW m \in 0 .. n - 1 PROVE new[Probe(bk[c].key, m, N)].key # EMPTY_KEY
      <4> DEFINE p == Probe(bk[c].key, m, N)
      <4>1. m \in Nat
        OBVIOUS
      <4>2. p \in 0 .. N - 1 /\ bk[p].key # EMPTY_KEY
        BY <3>2, <3>3, <4>1, ProbeIs
      <4> HIDE DEF p
      <4>3. new[p].key # EMPTY_KEY
        BY <1>3, <4>2, KeysDiffer
      <4> QED
        BY <4>3 DEF p
    <3> QED
      BY <3>1, <3>3, <3>4 DEF Leads
  <2>2. \A c, d \in Used(new) : new[c].key = new[d].key => c = d
    BY <1>1, <1>3, <1>4, <1>6 DEF IsPlaced
  <2> QED
    BY <2>1, <2>2 DEF IsPlaced
<1> QED
  BY <1>2, <1>4, <1>5, <1>6

IsRecounted(new, bk, N, b, v) ==
  /\ hash \in HashFunctions /\ N \in PowersOfTwo /\ bk \in [0 .. N - 1 -> Bucket]
  /\ b \in 0 .. N - 1 /\ v \in Values /\ new = [bk EXCEPT ![b].value = v]

LEMMA Recounted ==
  ASSUME NEW N, NEW bk, NEW b, NEW v, NEW new, IsRecounted(new, bk, N, b, v)
  PROVE  /\ new \in [0 .. N - 1 -> Bucket]
         /\ Used(new) = Used(bk) /\ NonEmpty(new) = NonEmpty(bk) /\ Deleted(new) = Deleted(bk)
         /\ IsPlaced(bk, N) => IsPlaced(new, N)
<1> USE DEF IsRecounted
<1>1. new \in [0 .. N - 1 -> Bucket] /\ \A c \in 0 .. N - 1 : new[c].key = bk[c].key
  BY DEF Bucket
<1>2. DOMAIN new = 0 .. N - 1 /\ DOMAIN bk = 0 .. N - 1
  OBVIOUS
<1>3. Used(new) = Used(bk) /\ NonEmpty(new) = NonEmpty(bk) /\ Deleted(new) = Deleted(bk)
  BY <1>1, <1>2 DEF Used, NonEmpty, Deleted
<1>4. ASSUME NEW c \in Used(bk), Leads(bk, N, bk[c].key, c)
      PROVE  Leads(new, N, new[c].key, c)
  <2>1. new[c].key = bk[c].key /\ bk[c].key \in DOMAIN hash
    BY <1>1, <1>2 DEF Used
  <2>2. \A m \in Nat : new[Probe(bk[c].key, m, N)].key = bk[Probe(bk[c].key, m, N)].key
    BY <1>1, <2>1, ProbeIs
  <2> QED
    BY <1>4, <2>1, <2>2 DEF Leads
<1>5. \A c \in Used(bk) : new[c].key = bk[c].key
  BY <1>1, <1>2 DEF Used
<1> QED
  BY <1>1, <1>3, <1>4, <1>5 DEF IsPlaced

-----------------------------------------------------------------------------
(***************************************************************************)
(* What an operation makes of a good table that is not copied.             *)
(***************************************************************************)
LEMMA ClearedIs ==
  ASSUME hash \in HashFunctions, NEW N \in PowersOfTwo, NEW full
  PROVE  /\ Good(ClearedTo(N), N, full) /\ NonEmpty(EmptyBuckets(N)) = {} /\ Used(EmptyBuckets(N)) = {}
         /\ EmptyBuckets(N) \in [0 .. N - 1 -> Bucket] /\ IsPlaced(EmptyBuckets(N), N)
         /\ ClearedTo(N) \in Table(N)
<1> DEFINE bk == EmptyBuckets(N)
<1>1. bk \in [0 .. N - 1 -> Bucket] /\ \A b \in 0 .. N - 1 : bk[b].key = EMPTY_KEY
  BY KeysDiffer DEF EmptyBuckets, Bucket
<1>2. NonEmpty(bk) = {} /\ Used(bk) = {} /\ Deleted(bk) = {}
  BY <1>1, KeysDiffer DEF NonEmpty, Used, Deleted
<1>3. IsPlaced(bk, N)
  BY <1>2 DEF IsPlaced
<1> HIDE DEF bk
<1>4. /\ ClearedTo(N).buckets = bk /\ ClearedTo(N).num_elements = 0 /\ ClearedTo(N).num_deleted = 0
      /\ ClearedTo(N) \in Table(N)
  BY <1>1 DEF ClearedTo, bk, Table
<1>5. Cardinality(NonEmpty(bk)) = 0 /\ Cardinality(Deleted(bk)) = 0
  BY <1>2, FS_EmptySet
<1>6. Good(ClearedTo(N), N, full)
  <2>1. 0 <= enlarge_size(N)
    BY SizeIs
  <2> DEFINE t == ClearedTo(N)
  <2>2. /\ t.buckets = bk /\ t.num_elements = 0 /\ t.num_deleted = 0 /\ t \in Table(N)
    BY <1>4
  <2> HIDE DEF t
  <2>3. Good(t, N, full)
    BY <1>3, <1>5, <2>1, <2>2 DEF Good
  <2> QED
    BY <2>3 DEF t
<1> QED
  BY <1>1, <1>2, <1>3, <1>4, <1>6 DEF bk

LEMMA PatientIs ==
  ASSUME hash \in HashFunctions, NEW N \in PowersOfTwo, NEW full, NEW t, Good(t, N, full),
         NEW s, s = [t EXCEPT !.consider_shrink = FALSE]
  PROVE  /\ Good(s, N, full) /\ s.buckets = t.buckets /\ s.num_elements = t.num_elements
         /\ bucket_count(s) = N /\ size(s) = size(t) /\ \A k : find_position(s, k) = find_position(t, k)
<1>1. /\ s.buckets = t.buckets /\ s.num_elements = t.num_elements /\ s.num_deleted = t.num_deleted
      /\ s \in Table(N)
  BY DEF Good, Table
<1>2. Good(s, N, full)
  BY <1>1 DEF Good
<1>3. bucket_count(s) = N /\ bucket_count(t) = N
  BY <1>2, TableIs
<1>3a. s.buckets = t.buckets /\ s.num_deleted = t.num_deleted /\ bucket_count(s) = bucket_count(t)
  BY <1>1, <1>3
<1>4. \A k : find_position(s, k) = find_position(t, k)
  <2>1. ASSUME NEW b PROVE test_empty(s, b) = test_empty(t, b) /\ test_deleted(s, b) = test_deleted(t, b)
    BY <1>3a DEF test_empty, test_deleted
  <2>2. ASSUME NEW k, NEW n PROVE StopsAt(s, k, n) = StopsAt(t, k, n)
    BY <1>3a, <2>1 DEF StopsAt
  <2> TAKE k
  <2>3. /\ {n \in 0 .. bucket_count(s) - 1 : StopsAt(s, k, n)}
             = {n \in 0 .. bucket_count(t) - 1 : StopsAt(t, k, n)}
        /\ \A l : {n \in 0 .. l - 1 : test_deleted(s, Probe(k, n, bucket_count(s)))}
                 = {n \in 0 .. l - 1 : test_deleted(t, Probe(k, n, bucket_count(t)))}
    BY <1>3a, <2>1, <2>2
  <2> QED
    BY <1>3a, <2>3 DEF find_position
<1> QED
  BY <1>1, <1>2, <1>3, <1>4 DEF size

LEMMA FilledItems ==
  ASSUME NEW new, NEW bk, NEW N, NEW b, NEW k, NEW v, IsFilled(new, bk, N, b, k, v)
  PROVE  HasNo(bk, k) => Items(new) = WithItem(Items(bk), k, v)
<1> DEFINE item == [key |-> k, value |-> v]
<1>1. /\ new = [bk EXCEPT ![b] = item] /\ hash \in HashFunctions
      /\ b \in 0 .. N - 1 /\ bk[b].key \in {EMPTY_KEY, DELETED_KEY} /\ bk \in [0 .. N - 1 -> Bucket]
  BY DEF IsFilled
<1>2. Used(new) = Used(bk) \union {b}
  BY Filled
<1>2a. b \notin Used(bk) /\ DOMAIN bk = 0 .. N - 1 /\ Used(bk) \subseteq 0 .. N - 1
  BY <1>1, KeysDiffer DEF Used
<1> HIDE DEF item
<1>3. Items(new) = Items(bk) \union {item}
  <2>1. new[b] = item /\ \A c \in Used(bk) : new[c] = bk[c]
    BY <1>1, <1>2a
  <2>2. \A i : i \in Items(new) <=> i = item \/ \E c \in Used(bk) : i = bk[c]
    BY <1>2, <2>1 DEF Items
  <2> QED
    BY <2>2 DEF Items
<1>4. HasNo(bk, k) => ~\E i \in Items(bk) : i.key = k
  BY DEF HasNo, Items
<1> QED
  BY <1>3, <1>4 DEF WithItem, item

CanInsert(t, N, full, b, k, v) ==
  /\ hash \in HashFunctions /\ N \in PowersOfTwo /\ Good(t, N, full)
  /\ b \in 0 .. N - 1 /\ t.buckets[b].key \in {EMPTY_KEY, DELETED_KEY}
  /\ k \in DOMAIN hash /\ v \in Values
  /\ full => Leads(t.buckets, N, k, b) /\ HasNo(t.buckets, k)
  /\ t.num_elements + 1 <= enlarge_size(N) \/ t.buckets[b].key = DELETED_KEY

LEMMA InsertedIs ==
  ASSUME NEW t, NEW N, NEW full, NEW b, NEW k, NEW v, CanInsert(t, N, full, b, k, v),
         NEW r, r = insert_at(t, b, [key |-> k, value |-> v])
  PROVE  /\ Good(r, N, full) /\ r.num_elements <= t.num_elements + 1
         /\ HasNo(t.buckets, k) => Items(r.buckets) = WithItem(Items(t.buckets), k, v)
<1> USE DEF CanInsert
<1> DEFINE bk == t.buckets
           new == [bk EXCEPT ![b] = [key |-> k, value |-> v]]
<1>1. /\ bk \in [0 .. N - 1 -> Bucket] /\ t.num_elements \in Nat /\ t.num_deleted \in Nat
      /\ test_deleted(t, b) <=> bk[b].key = DELETED_KEY
  BY TableIs
<1>2. /\ new \in [0 .. N - 1 -> Bucket] /\ Used(new) = Used(bk) \union {b}
      /\ IF bk[b].key = EMPTY_KEY
         THEN /\ Cardinality(NonEmpty(new)) = Cardinality(NonEmpty(bk)) + 1
              /\ Cardinality(Deleted(new)) = Cardinality(Deleted(bk))
         ELSE /\ Cardinality(NonEmpty(new)) = Cardinality(NonEmpty(bk))
              /\ Cardinality(Deleted(new)) = Cardinality(Deleted(bk)) - 1
      /\ Leads(bk, N, k, b) /\ HasNo(bk, k) /\ IsPlaced(bk, N) => IsPlaced(new, N)
      /\ HasNo(bk, k) => Items(new) = WithItem(Items(bk), k, v)
  <2>1. IsFilled(new, bk, N, b, k, v)
    BY <1>1 DEF IsFilled
  <2> HIDE DEF bk, new
  <2> QED
    BY <2>1, Filled, FilledItems
<1>3. t = [buckets |-> t.buckets, num_elements |-> t.num_elements, num_deleted |-> t.num_deleted,
           consider_shrink |-> t.consider_shrink] /\ t.consider_shrink \in BOOLEAN
  BY DEF Good, Table
<1>4. /\ r.buckets = new
      /\ r.num_deleted = (IF bk[b].key = DELETED_KEY THEN t.num_deleted - 1 ELSE t.num_deleted)
      /\ r.num_elements = (IF bk[b].key = DELETED_KEY THEN t.num_elements ELSE t.num_elements + 1)
      /\ r = [buckets |-> r.buckets, num_elements |-> r.num_elements, num_deleted |-> r.num_deleted,
              consider_shrink |-> t.consider_shrink]
  <2> HIDE DEF CanInsert
  <2>1. r = [t EXCEPT !.buckets = new,
                      !.num_deleted = IF bk[b].key = DELETED_KEY THEN @ - 1 ELSE @,
                      !.num_elements = IF bk[b].key = DELETED_KEY THEN @ ELSE @ + 1]
    BY <1>1 DEF insert_at
  <2> HIDE DEF new
  <2> QED
    BY <1>3, <2>1
<1>5. /\ t.num_deleted = Cardinality(Deleted(bk)) /\ Cardinality(NonEmpty(bk)) <= t.num_elements
      /\ t.num_elements <= enlarge_size(N)
      /\ full => IsPlaced(bk, N) /\ t.num_elements = Cardinality(NonEmpty(bk))
  BY DEF Good
<1>6. Cardinality(Deleted(new)) \in Nat /\ Cardinality(NonEmpty(bk)) \in Nat
      /\ Cardinality(Deleted(bk)) \in Nat /\ enlarge_size(N) \in Nat
  <2> HIDE DEF new, bk
  <2> QED
    BY <1>1, <1>2, BucketsAre, SizeIs, FS_CardinalityType
<1>7. EMPTY_KEY # DELETED_KEY
  BY KeysDiffer
<1> HIDE DEF new
<1>8. /\ r.num_deleted = Cardinality(Deleted(new)) /\ Cardinality(NonEmpty(new)) <= r.num_elements
      /\ r.num_elements <= enlarge_size(N) /\ r.num_elements \in Nat /\ r.num_deleted \in Nat
      /\ full => r.num_elements = Cardinality(NonEmpty(new))
      /\ r.num_elements <= t.num_elements + 1
  <2>1. CASE bk[b].key = EMPTY_KEY
    BY <1>1, <1>2, <1>4, <1>5, <1>6, <1>7, <2>1
  <2>2. CASE bk[b].key = DELETED_KEY
    BY <1>1, <1>2, <1>4, <1>5, <1>6, <1>7, <2>2
  <2> QED
    BY <2>1, <2>2
<1>9. r \in Table(N)
  BY <1>2, <1>3, <1>4, <1>8 DEF Table
<1>10. full => IsPlaced(new, N)
  BY <1>2, <1>5
<1> QED
  BY <1>2, <1>4, <1>8, <1>9, <1>10 DEF Good, new

\* The items of R become tombstones.
LEMMA ErasedIs ==
  ASSUME hash \in HashFunctions, NEW N \in PowersOfTwo, NEW full, NEW t, Good(t, N, full),
         NEW R \in SUBSET Used(t.buckets),
         NEW r \in Table(N), r.num_elements = t.num_elements,
         r.num_deleted = t.num_deleted + Cardinality(R),
         r.buckets = [b \in DOMAIN t.buckets |-> IF b \in R THEN Tombstone ELSE t.buckets[b]]
  PROVE  Good(r, N, full) /\ Items(r.buckets) = ItemsBut(t.buckets, R)
<1> DEFINE bk == t.buckets
           new == r.buckets
<1>1. bk \in [0 .. N - 1 -> Bucket]
  BY TableIs
<1>2. /\ new \in [0 .. N - 1 -> Bucket] /\ NonEmpty(new) = NonEmpty(bk) /\ Used(new) = Used(bk) \ R
      /\ Cardinality(Deleted(new)) = Cardinality(Deleted(bk)) + Cardinality(R)
      /\ IsPlaced(bk, N) => IsPlaced(new, N)
  <2>1. IsErased(new, bk, N, R)
    BY <1>1 DEF IsErased
  <2> HIDE DEF bk, new
  <2> QED
    BY <2>1, Erased
<1>3. Items(new) = ItemsBut(bk, R)
  <2>1. \A b \in Used(bk) \ R : new[b] = bk[b]
    BY <1>1 DEF Used
  <2> HIDE DEF bk, new
  <2> QED
    BY <1>2, <2>1 DEF Items, ItemsBut
<1> QED
  BY <1>2, <1>3 DEF Good

LEMMA SetDeletedIs ==
  ASSUME hash \in HashFunctions, NEW N \in PowersOfTwo, NEW full, NEW t, Good(t, N, full),
         NEW b \in Used(t.buckets)
  PROVE  /\ Good(set_deleted(t, b), N, full)
         /\ Items(set_deleted(t, b).buckets) = ItemsBut(t.buckets, {b})
<1> DEFINE r == set_deleted(t, b)
<1>1. /\ t.buckets \in [0 .. N - 1 -> Bucket] /\ t.num_elements \in Nat /\ t.num_deleted \in Nat
      /\ b \in 0 .. N - 1
  BY TableIs, BucketsAre
<1>2. Tombstone \in Bucket
  BY KeysDiffer DEF Tombstone, Bucket
<1>3. /\ r \in Table(N) /\ r.num_elements = t.num_elements /\ r.num_deleted = t.num_deleted + 1
      /\ r.buckets = [t.buckets EXCEPT ![b] = Tombstone]
  <2> DEFINE nb == [t.buckets EXCEPT ![b] = Tombstone]
  <2>0. r = [t EXCEPT !.buckets = nb, !.num_deleted = @ + 1, !.consider_shrink = TRUE]
    BY DEF set_deleted
  <2> HIDE DEF nb, r
  <2>1. r = [buckets |-> nb, num_elements |-> t.num_elements,
             num_deleted |-> t.num_deleted + 1, consider_shrink |-> TRUE]
    BY <2>0 DEF Good, Table
  <2>2. nb \in [0 .. N - 1 -> Bucket]
    BY <1>1, <1>2 DEF nb
  <2>3. r.num_elements \in Nat /\ r.num_deleted \in Nat
    BY <1>1, <2>1
  <2> QED
    BY <2>1, <2>2, <2>3 DEF Table, nb
<1>4. Cardinality({b}) = 1
  BY FS_Singleton
<1>5. r.buckets = [c \in DOMAIN t.buckets |-> IF c \in {b} THEN Tombstone ELSE t.buckets[c]]
  BY <1>1, <1>3
<1> HIDE DEF r
<1> QED
  BY <1>3, <1>4, <1>5, ErasedIs DEF r

LEMMA EraseRangeIs ==
  ASSUME hash \in HashFunctions, NEW N \in PowersOfTwo, NEW full, NEW t, Good(t, N, full),
         NEW from, NEW to
  PROVE  /\ Good(erase_range(t, from, to), N, full)
         /\ Items(erase_range(t, from, to).buckets) = ItemsBut(t.buckets, from .. to - 1)
<1> DEFINE r == erase_range(t, from, to)
           R == LiveBuckets(t) \cap (from .. to - 1)
<1>1. /\ t.buckets \in [0 .. N - 1 -> Bucket] /\ t.num_elements \in Nat /\ t.num_deleted \in Nat
      /\ DOMAIN t.buckets = 0 .. N - 1 /\ LiveBuckets(t) = Used(t.buckets)
  BY TableIs
<1>2. R \subseteq Used(t.buckets)
  BY <1>1
<1>3. Cardinality(R) \in Nat
  BY <1>1, <1>2, BucketsAre, FS_Subset, FS_CardinalityType
<1>4. Tombstone \in Bucket
  BY KeysDiffer DEF Tombstone, Bucket
<1>5. r = [t EXCEPT !.buckets = [c \in DOMAIN @ |-> IF c \in R THEN Tombstone ELSE @[c]],
                    !.num_deleted = @ + Cardinality(R), !.consider_shrink = TRUE]
  BY DEF erase_range
<1> HIDE DEF r, R
<1>6. /\ r.num_elements = t.num_elements /\ r.num_deleted = t.num_deleted + Cardinality(R)
      /\ r.buckets = [c \in DOMAIN t.buckets |-> IF c \in R THEN Tombstone ELSE t.buckets[c]]
      /\ r = [buckets |-> [c \in DOMAIN t.buckets |-> IF c \in R THEN Tombstone ELSE t.buckets[c]],
              num_elements |-> t.num_elements, num_deleted |-> t.num_deleted + Cardinality(R),
              consider_shrink |-> TRUE]
  BY <1>5 DEF Good, Table
<1>7. r.buckets \in [0 .. N - 1 -> Bucket]
  BY <1>1, <1>4, <1>6
<1>8. r \in Table(N)
  <2>1. r.num_elements \in Nat /\ r.num_deleted \in Nat
    BY <1>1, <1>3, <1>6
  <2> QED
    BY <1>6, <1>7, <2>1 DEF Table
<1>9. ItemsBut(t.buckets, R) = ItemsBut(t.buckets, from .. to - 1)
  BY <1>1 DEF R, ItemsBut
<1>10. Good(r, N, full) /\ Items(r.buckets) = ItemsBut(t.buckets, R)
  BY <1>2, <1>6, <1>8, ErasedIs
<1> QED
  BY <1>9, <1>10 DEF r

LEMMA EraseIs ==
  ASSUME hash \in HashFunctions, NEW N \in PowersOfTwo, NEW full, NEW t, Good(t, N, full),
         NEW k \in DOMAIN hash
  PROVE  /\ Good(erase(t, k), N, full)
         /\ full => Items(erase(t, k).buckets) = WithoutKey(Items(t.buckets), k)
<1> DEFINE pos == find_position(t, k)
           b == pos.bucket
           bk == t.buckets
           r == erase(t, k)
<1>1. CASE ~pos.found
  <2>1. r = t
    BY <1>1 DEF erase, Found
  <2>2. bk[b].key \in {EMPTY_KEY, DELETED_KEY} /\ (full => HasNo(bk, k))
    BY <1>1, SearchIs
  <2>3. full => Items(bk) = WithoutKey(Items(bk), k)
    BY <2>2 DEF HasNo, Items, WithoutKey
  <2> HIDE DEF r
  <2> QED
    BY <2>1, <2>3 DEF r
<1>2. CASE pos.found
  <2>1. b \in Used(bk) /\ bk[b].key = k
    BY <1>2, SearchIs
  <2>2. r = set_deleted(t, b)
    <3>1. size(t) \in Nat /\ Cardinality(Used(bk)) <= size(t) /\ IsFiniteSet(Used(bk))
      BY TableIs, BucketsAre
    <3> HIDE DEF bk, b
    <3>2. Cardinality(Used(bk)) \in Nat /\ Cardinality(Used(bk)) # 0
      BY <2>1, <3>1, FS_EmptySet, FS_CardinalityType
    <3>3. size(t) # 0
      BY <3>1, <3>2
    <3> QED
      BY <1>2, <3>3 DEF erase, Found, b
  <2> HIDE DEF b, r
  <2>3. Good(r, N, full) /\ Items(r.buckets) = ItemsBut(bk, {b})
    BY <2>1, <2>2, SetDeletedIs
  <2>4. full => \A c \in Used(bk) : bk[c].key = k <=> c = b
    BY <2>1 DEF Good, IsPlaced
  <2> HIDE DEF bk
  <2>5. full => Items(r.buckets) = WithoutKey(Items(bk), k)
    BY <2>3, <2>4 DEF Items, ItemsBut, WithoutKey
  <2> QED
    BY <2>3, <2>5 DEF r, bk
<1> QED
  BY <1>1, <1>2

HasValue(r, t, b, v) == r = [t EXCEPT !.buckets[b].value = v]

LEMMA RecountedIs ==
  ASSUME hash \in HashFunctions, NEW N \in PowersOfTwo, NEW full, NEW t, Good(t, N, full),
         NEW b \in 0 .. N - 1, NEW v \in Values, NEW r, HasValue(r, t, b, v)
  PROVE  /\ Good(r, N, full) /\ Used(r.buckets) = Used(t.buckets)
         /\ \A c \in 0 .. N - 1 : /\ r.buckets[c].key = t.buckets[c].key
                                 /\ r.buckets[c].value = IF c = b THEN v ELSE t.buckets[c].value
<1> USE DEF HasValue
<1> DEFINE new == [t.buckets EXCEPT ![b].value = v]
<1>1. t.buckets \in [0 .. N - 1 -> Bucket]
  BY TableIs
<1>2. /\ new \in [0 .. N - 1 -> Bucket]
      /\ Used(new) = Used(t.buckets) /\ NonEmpty(new) = NonEmpty(t.buckets)
      /\ Deleted(new) = Deleted(t.buckets)
      /\ IsPlaced(t.buckets, N) => IsPlaced(new, N)
  <2>1. IsRecounted(new, t.buckets, N, b, v)
    BY <1>1 DEF IsRecounted
  <2> HIDE DEF new
  <2> QED
    BY <2>1, Recounted
<1>3. /\ r.buckets = new /\ r.num_elements = t.num_elements /\ r.num_deleted = t.num_deleted
      /\ r \in Table(N)
  BY <1>2 DEF Good, Table
<1>4. \A c \in 0 .. N - 1 : /\ new[c].key = t.buckets[c].key
                            /\ new[c].value = IF c = b THEN v ELSE t.buckets[c].value
  BY <1>1 DEF Bucket
<1> HIDE DEF new
<1> QED
  BY <1>2, <1>3, <1>4 DEF Good

-----------------------------------------------------------------------------
(***************************************************************************)
(* A loop over the items of a table, and what copies one by such a loop.   *)
(***************************************************************************)
LEMMA StepByStep ==
  ASSUME NEW n \in Nat, NEW X, 0 \in X, \A b \in 0 .. n - 1 : b \in X => b + 1 \in X
  PROVE  0 .. n \subseteq X
<1> DEFINE bad == {b \in 0 .. n : b \notin X}
<1> SUFFICES ASSUME bad # {} PROVE FALSE
  OBVIOUS
<1>1. PICK m \in bad : \A b \in bad : m <= b
  <2>1. bad \in SUBSET Nat
    OBVIOUS
  <2> HIDE DEF bad
  <2> QED
    BY <2>1, LeastExists
<1>2. m - 1 \in 0 .. n - 1 /\ m - 1 \notin bad
  BY <1>1
<1> QED
  BY <1>1, <1>2

IsLoop(f, n, start, G) == f = [b \in 0 .. n |-> IF b = 0 THEN start ELSE G[b - 1][f[b - 1]]]

LEMMA LoopExists ==
  ASSUME NEW n \in Nat, NEW S, NEW start \in S, NEW G \in [0 .. n - 1 -> [S -> S]]
  PROVE  \E f \in [0 .. n -> S] : IsLoop(f, n, start, G)
<1> DEFINE Is(m, f) == f \in [0 .. m -> S] /\ IsLoop(f, m, start, G)
           X == {m \in 0 .. n : \E f : Is(m, f)}
<1>1. 0 \in X
  <2> DEFINE f == [b \in 0 .. 0 |-> start]
  <2>1. f \in [0 .. 0 -> S] /\ \A b \in 0 .. 0 : f[b] = IF b = 0 THEN start ELSE G[b - 1][f[b - 1]]
    OBVIOUS
  <2> HIDE DEF f
  <2>2. IsLoop(f, 0, start, G)
    BY <2>1 DEF IsLoop
  <2> QED
    BY <2>1, <2>2
<1>2. ASSUME NEW m \in 0 .. n - 1, m \in X
      PROVE  m + 1 \in X
  <2>1. PICK f : Is(m, f)
    BY <1>2
  <2> DEFINE g == [b \in 0 .. m + 1 |-> IF b = m + 1 THEN G[m][f[m]] ELSE f[b]]
  <2>2. m \in 0 .. m /\ f[m] \in S /\ G[m] \in [S -> S] /\ G[m][f[m]] \in S
    BY <2>1
  <2>3. g \in [0 .. m + 1 -> S]
    <3>1. \A b \in 0 .. m + 1 : b = m + 1 \/ b \in 0 .. m
      OBVIOUS
    <3> QED
      BY <2>1, <2>2, <3>1
  <2>4. ASSUME NEW b \in 0 .. m + 1
        PROVE  g[b] = IF b = 0 THEN start ELSE G[b - 1][g[b - 1]]
    <3>1. CASE b = m + 1
      BY <2>2, <3>1
    <3>2. CASE b # m + 1
      <4>1. b \in 0 .. m /\ (b # 0 => b - 1 \in 0 .. m /\ b - 1 # m + 1)
        BY <3>2
      <4>2. f[b] = IF b = 0 THEN start ELSE G[b - 1][f[b - 1]]
        BY <2>1, <4>1 DEF IsLoop
      <4>3. g[b] = f[b] /\ (b # 0 => g[b - 1] = f[b - 1])
        BY <3>2, <4>1
      <4> QED
        BY <4>2, <4>3
    <3> QED
      BY <3>1, <3>2
  <2> HIDE DEF g
  <2>5. IsLoop(g, m + 1, start, G)
    BY <2>3, <2>4 DEF IsLoop
  <2> QED
    BY <2>3, <2>5
<1> HIDE DEF X
<1>3. n \in X
  <2>1. \A m \in 0 .. n - 1 : m \in X => m + 1 \in X
    BY <1>2
  <2>2. 0 .. n \subseteq X
    BY <1>1, <2>1, StepByStep
  <2> QED
    BY <2>2
<1> QED
  BY <1>3 DEF X

LEMMA PlaceIs ==
  ASSUME hash \in HashFunctions, NEW M \in PowersOfTwo, NEW bk \in [0 .. M - 1 -> Bucket],
         Cardinality(NonEmpty(bk)) < M, NEW k \in DOMAIN hash, NEW v \in Values
  PROVE  \E b \in 0 .. M - 1 : /\ Place(bk, [key |-> k, value |-> v]) = [bk EXCEPT ![b] = [key |-> k, value |-> v]]
                               /\ bk[b].key = EMPTY_KEY /\ Leads(bk, M, k, b)
<1> DEFINE probe(n) == Probe(k, n, M)
           free == {n \in 0 .. M - 1 : bk[probe(n)].key = EMPTY_KEY}
           first == Min(free)
<1>1. DOMAIN bk = 0 .. M - 1 /\ Cardinality(0 .. M - 1) = M /\ IsFiniteSet(NonEmpty(bk)) /\ M \in Nat
  BY SizeIs, BucketsAre
<1>2. Place(bk, [key |-> k, value |-> v]) = [bk EXCEPT ![probe(first)] = [key |-> k, value |-> v]]
  BY <1>1 DEF Place
<1>3. free # {}
  <2>1. PICK n \in 0 .. M - 1 : Probe(k, n, M) \notin NonEmpty(bk)
    BY <1>1, ProbesLeave
  <2>2. n \in Nat
    OBVIOUS
  <2>3. probe(n) \in 0 .. M - 1
    BY <2>2, ProbeIs
  <2>4. bk[probe(n)].key = EMPTY_KEY
    BY <1>1, <2>1, <2>3 DEF NonEmpty
  <2> QED
    BY <2>4
<1>4. first \in free /\ \A n \in free : first <= n
  <2>1. free \in SUBSET Nat
    OBVIOUS
  <2> HIDE DEF free
  <2> QED
    BY <1>3, <2>1, LeastExists
<1> HIDE DEF first
<1>5. first \in 0 .. M - 1 /\ first \in Nat /\ bk[probe(first)].key = EMPTY_KEY
  BY <1>4
<1>6. probe(first) \in 0 .. M - 1
  BY <1>5, ProbeIs
<1>7. \A m \in 0 .. first - 1 : bk[probe(m)].key # EMPTY_KEY
  <2> TAKE m \in 0 .. first - 1
  <2>1. m \in 0 .. M - 1 /\ m \notin free
    BY <1>1, <1>4, <1>5
  <2> QED
    BY <2>1
<1>8. Leads(bk, M, k, probe(first))
  BY <1>5, <1>7 DEF Leads
<1> HIDE DEF probe
<1> QED
  BY <1>2, <1>5, <1>6, <1>8

\* The loop of copy_from.
LEMMA CopiedItemsAre ==
  ASSUME hash \in HashFunctions, NEW N \in PowersOfTwo, NEW full, NEW t, Good(t, N, full),
         NEW M \in PowersOfTwo, Cardinality(Used(t.buckets)) < M,
         NEW bk, bk = ForEachItem(t, Place, EmptyBuckets(M))
  PROVE  /\ bk \in [0 .. M - 1 -> Bucket] /\ Deleted(bk) = {} /\ Items(bk) = Items(t.buckets)
         /\ Cardinality(Used(bk)) = Cardinality(Used(t.buckets))
         /\ full => IsPlaced(bk, M)
<1> DEFINE tb == t.buckets
           S == [0 .. M - 1 -> Bucket]
           start == EmptyBuckets(M)
           Is(f) == f = [b \in 0 .. N |-> IF b = 0 THEN start
                                          ELSE IF b - 1 \in Used(tb) THEN Place(f[b - 1], tb[b - 1])
                                          ELSE f[b - 1]]
           after == CHOOSE f : Is(f)
<1>1. /\ bucket_count(t) = N /\ tb \in [0 .. N - 1 -> Bucket] /\ LiveBuckets(t) = Used(tb)
      /\ DOMAIN tb = 0 .. N - 1 /\ N \in Nat /\ M \in Nat
  BY TableIs, SizeIs
<1>2. ForEachItem(t, Place, start) = after[N]
  BY <1>1 DEF ForEachItem
<1>3. start \in S /\ Used(start) = {} /\ IsPlaced(start, M) /\ NonEmpty(start) = {}
  BY ClearedIs
<1>4. \A x \in S, b \in 0 .. N - 1 : Place(x, tb[b]) \in S
  BY <1>1 DEF Place
<1> HIDE DEF start, tb, S
<1>5. Is(after) /\ after \in [0 .. N -> S]
  <2> DEFINE G == [b \in 0 .. N - 1 |-> [x \in S |-> IF b \in Used(tb) THEN Place(x, tb[b]) ELSE x]]
  <2>1. G \in [0 .. N - 1 -> [S -> S]]
    BY <1>4
  <2>2. PICK f \in [0 .. N -> S] : IsLoop(f, N, start, G)
    <3> HIDE DEF G
    <3> QED
      BY <1>1, <1>3, <2>1, LoopExists
  <2>3. ASSUME NEW b \in 0 .. N, b # 0
        PROVE  G[b - 1][f[b - 1]] = IF b - 1 \in Used(tb) THEN Place(f[b - 1], tb[b - 1]) ELSE f[b - 1]
    <3>1. b - 1 \in 0 .. N - 1 /\ b - 1 \in 0 .. N
      BY <1>1, <2>3
    <3>2. f[b - 1] \in S
      BY <3>1
    <3> QED
      BY <3>1, <3>2
  <2>4. Is(f)
    <3> HIDE DEF G
    <3> QED
      BY <2>2, <2>3 DEF IsLoop
  <2>5. Is(after)
    <3> HIDE DEF Is
    <3> QED
      BY <2>4
  <2> HIDE DEF after
  <2>6. ASSUME NEW b \in 0 .. N, after[b] \in S, b # N PROVE after[b + 1] \in S
    <3>1. b + 1 \in 0 .. N /\ b + 1 # 0 /\ (b + 1) - 1 = b /\ b \in 0 .. N - 1
      BY <1>1, <2>6
    <3>2. after[b + 1] = IF b \in Used(tb) THEN Place(after[b], tb[b]) ELSE after[b]
      BY <2>5, <3>1
    <3> QED
      BY <1>4, <2>6, <3>1, <3>2
  <2>7. after[0] \in S
    BY <1>1, <1>3, <2>5
  <2> DEFINE X == {b \in 0 .. N : after[b] \in S}
  <2>8. 0 \in X /\ \A b \in 0 .. N - 1 : b \in X => b + 1 \in X
    BY <1>1, <2>6, <2>7
  <2>9. 0 .. N \subseteq X
    <3> HIDE DEF X
    <3> QED
      BY <1>1, <2>8, StepByStep
  <2> QED
    BY <2>5, <2>9
<1> HIDE DEF after
<1> DEFINE Below(b) == {c \in Used(tb) : c < b}
           J(b) == LET x == after[b]
                   IN /\ Deleted(x) = {} /\ Items(x) = {tb[c] : c \in Below(b)}
                      /\ Cardinality(Used(x)) = Cardinality(Below(b))
                      /\ full => IsPlaced(x, M)
           X == {b \in 0 .. N : J(b)}
<1>6. 0 \in X
  <2>1. after[0] = start /\ 0 \in 0 .. N
    BY <1>1, <1>5
  <2>2. Below(0) = {}
    BY <1>1, BucketsAre
  <2>3. Deleted(start) = {} /\ Items(start) = {}
    <3>1. Deleted(start) \subseteq NonEmpty(start)
      BY KeysDiffer DEF Deleted, NonEmpty
    <3> QED
      BY <1>3, <3>1 DEF Items
  <2>4. J(0)
    BY <1>3, <2>1, <2>2, <2>3
  <2> QED
    BY <2>1, <2>4
<1>7. ASSUME NEW b \in 0 .. N - 1, J(b)
      PROVE  J(b + 1)
  <2> DEFINE x == after[b]
             y == after[b + 1]
  <2>1. /\ b \in 0 .. N /\ b + 1 \in 0 .. N /\ x \in S /\ y \in S
        /\ y = IF b \in Used(tb) THEN Place(x, tb[b]) ELSE x
    <3>1. b + 1 \in 0 .. N /\ b + 1 # 0 /\ (b + 1) - 1 = b /\ b \in 0 .. N
      BY <1>1
    <3> QED
      BY <1>5, <3>1
  <2> HIDE DEF Below
  <2>2. /\ Deleted(x) = {} /\ Items(x) = {tb[c] : c \in Below(b)}
        /\ Cardinality(Used(x)) = Cardinality(Below(b))
        /\ full => IsPlaced(x, M)
    BY <1>7
  <2> HIDE DEF x, y
  <2>3. CASE b \notin Used(tb)
    <3>1. y = x
      BY <2>1, <2>3
    <3>2. Below(b + 1) = Below(b)
      BY <1>1, <2>3, BucketsAre DEF Below
    <3> QED
      BY <2>2, <3>1, <3>2 DEF y
  <2>4. CASE b \in Used(tb)
    <3>1. PICK k \in DOMAIN hash, v \in Values : tb[b] = [key |-> k, value |-> v]
      BY <1>1, <2>4 DEF Used, Bucket
    <3>2. /\ Below(b + 1) = Below(b) \union {b} /\ b \notin Below(b) /\ IsFiniteSet(Below(b))
          /\ Below(b) \subseteq Used(tb) \ {b} /\ IsFiniteSet(Used(tb))
      <4>1. Below(b + 1) = Below(b) \union {b} /\ b \notin Below(b) /\ Below(b) \subseteq Used(tb) \ {b}
        BY <1>1, <2>4, BucketsAre DEF Below
      <4> QED
        BY <1>1, <4>1, BucketsAre, FS_Subset
    <3>3. Cardinality(Below(b + 1)) = Cardinality(Below(b)) + 1 /\ Cardinality(Below(b)) \in Nat
      BY <3>2, FS_AddElement, FS_CardinalityType
    <3>4. Cardinality(NonEmpty(x)) < M
      <4>1. Cardinality(Below(b)) <= Cardinality(Used(tb)) /\ Cardinality(Used(tb)) < M
        BY <3>2, FS_Subset DEF tb
      <4>2. Cardinality(NonEmpty(x)) = Cardinality(Used(x)) + Cardinality(Deleted(x))
        BY <2>1, BucketsAre DEF S
      <4>3. Cardinality(Deleted(x)) = 0
        BY <2>2, FS_EmptySet
      <4>4. Cardinality(Used(tb)) \in Nat
        BY <3>2, FS_CardinalityType
      <4> QED
        BY <1>1, <2>2, <3>3, <4>1, <4>2, <4>3, <4>4
    <3>5. PICK e \in 0 .. M - 1 : y = [x EXCEPT ![e] = [key |-> k, value |-> v]]
                                  /\ x[e].key = EMPTY_KEY /\ Leads(x, M, k, e)
      BY <2>1, <2>4, <3>1, <3>4, PlaceIs DEF S
    <3>6. IsFilled(y, x, M, e, k, v)
      BY <2>1, <3>1, <3>5 DEF IsFilled, S
    <3>7. /\ Used(y) = Used(x) \union {e} /\ Cardinality(Used(y)) = Cardinality(Used(x)) + 1
          /\ Cardinality(Deleted(y)) = Cardinality(Deleted(x))
          /\ HasNo(x, k) /\ IsPlaced(x, M) => IsPlaced(y, M)
      BY <3>5, <3>6, Filled
    <3>8. Deleted(y) = {}
      <4>1. Cardinality(Deleted(y)) = 0 /\ IsFiniteSet(Deleted(y))
        BY <2>1, <2>2, <3>7, FS_EmptySet, BucketsAre DEF S
      <4> QED
        BY <4>1, FS_EmptySet
    <3>9. Items(y) = {tb[c] : c \in Below(b + 1)}
      <4>1. DOMAIN x = 0 .. M - 1 /\ Used(x) \subseteq 0 .. M - 1 /\ e \notin Used(x)
        BY <2>1, <3>5, KeysDiffer, BucketsAre DEF S, Used
      <4>2. y[e] = tb[b] /\ \A c \in Used(x) : y[c] = x[c]
        BY <3>1, <3>5, <4>1
      <4>3. Items(y) = Items(x) \union {tb[b]}
        BY <3>7, <4>2 DEF Items
      <4> QED
        BY <2>2, <3>2, <4>3
    <3>10. full => HasNo(x, k)
      <4> SUFFICES ASSUME full, NEW c \in Used(x), x[c].key = k PROVE FALSE
        BY DEF HasNo
      <4>1. x[c] \in Items(x)
        BY DEF Items
      <4>2. PICK d \in Below(b) : x[c] = tb[d]
        BY <2>2, <4>1
      <4>3. d \in Used(tb) /\ d # b /\ tb[d].key = tb[b].key
        BY <3>1, <3>2, <4>2
      <4> QED
        BY <2>4, <4>3 DEF Good, IsPlaced, tb
    <3> QED
      BY <2>2, <3>3, <3>7, <3>8, <3>9, <3>10 DEF y
  <2> QED
    BY <2>3, <2>4
<1>8. 0 .. N \subseteq X
  <2>1. \A b \in 0 .. N - 1 : b \in X => b + 1 \in X
    <3> TAKE b \in 0 .. N - 1
    <3>1. b + 1 \in 0 .. N
      BY <1>1
    <3> HIDE DEF J
    <3> QED
      BY <1>7, <3>1
  <2> HIDE DEF X
  <2> QED
    BY <1>1, <1>6, <2>1, StepByStep
<1>9. J(N) /\ after[N] \in S
  <2> HIDE DEF J
  <2> QED
    BY <1>1, <1>5, <1>8
<1>10. Below(N) = Used(tb)
  BY <1>1, BucketsAre
<1>11. bk = after[N]
  BY <1>2 DEF start
<1> HIDE DEF Below
<1> QED
  BY <1>9, <1>10, <1>11 DEF S, tb, Items

-----------------------------------------------------------------------------
(***************************************************************************)
(* Copying and resizing.                                                   *)
(***************************************************************************)
Fits(t, wanted, sz) == wanted \in Nat /\ sz \in PowersOfTwo /\ sz >= wanted /\ size(t) < enlarge_size(sz)

IsCopied(r, t, M) ==
  /\ Items(r.buckets) = Items(t.buckets)
  /\ Cardinality(Used(r.buckets)) = Cardinality(Used(t.buckets))
  /\ r.num_elements = Cardinality(Used(t.buckets)) /\ r.num_deleted = 0
  /\ size(t) < enlarge_size(M)

LEMMA CopiedIs ==
  ASSUME hash \in HashFunctions, NEW N \in PowersOfTwo, NEW full, NEW t, Good(t, N, full),
         NEW wanted, NEW sz, Fits(t, wanted, sz)
  PROVE  \E M \in PowersOfTwo : /\ M >= wanted /\ M <= sz /\ Good(copy_from(t, wanted), M, full)
                                /\ IsCopied(copy_from(t, wanted), t, M)
                                /\ M = min_buckets(size(t), wanted)
<1> DEFINE r == copy_from(t, wanted)
           M == min_buckets(size(t), wanted)
<1> USE DEF Fits
<1> DEFINE used == Cardinality(Used(t.buckets))
           bk == ForEachItem(t, Place, EmptyBuckets(M))
<1>1. size(t) \in Nat /\ used <= size(t) /\ LiveBuckets(t) = Used(t.buckets) /\ used \in Nat
  BY TableIs, BucketsAre
<1>2. M \in PowersOfTwo /\ M >= wanted /\ M <= sz /\ size(t) < enlarge_size(M)
  BY <1>1, MinBucketsIs
<1> HIDE DEF M
<1>3. M \in Nat /\ enlarge_size(M) < M /\ enlarge_size(M) \in Nat
  BY <1>2, SizeIs
<1>4. used < M /\ used <= enlarge_size(M)
  BY <1>1, <1>2, <1>3
<1>5. ClearedTo(M) \in Table(M)
  BY <1>2, ClearedIs
<1>6. r = [ClearedTo(M) EXCEPT !.buckets = ForEachItem(t, Place, EmptyBuckets(M)), !.num_elements = used]
  BY <1>1 DEF copy_from, ClearedTo, M
<1> HIDE DEF r
<1>7. /\ bk \in [0 .. M - 1 -> Bucket] /\ Deleted(bk) = {} /\ Items(bk) = Items(t.buckets)
      /\ Cardinality(Used(bk)) = used
      /\ full => IsPlaced(bk, M)
  <2> HIDE DEF bk
  <2> QED
    BY <1>2, <1>4, CopiedItemsAre DEF bk
<1>8. r = [buckets |-> bk, num_elements |-> used, num_deleted |-> 0, consider_shrink |-> FALSE]
  BY <1>6 DEF ClearedTo
<1> HIDE DEF bk, used
<1>9. Cardinality(NonEmpty(bk)) = used /\ Cardinality(Deleted(bk)) = 0
  BY <1>1, <1>2, <1>7, BucketsAre, FS_EmptySet
<1>10. r \in Table(M)
  BY <1>1, <1>7, <1>8 DEF Table
<1>11. /\ r.buckets = bk /\ r.num_elements = used /\ r.num_deleted = 0 /\ r.consider_shrink = FALSE
  BY <1>8
<1>12. Good(r, M, full)
  <2>1. r.num_deleted = Cardinality(Deleted(r.buckets)) /\ r.num_elements = Cardinality(NonEmpty(r.buckets))
    BY <1>9, <1>11
  <2>2. r.num_elements <= r.num_elements /\ r.num_elements <= enlarge_size(M)
    BY <1>1, <1>4, <1>11
  <2>3. full => IsPlaced(r.buckets, M)
    BY <1>7, <1>11
  <2> QED
    BY <1>10, <2>1, <2>2, <2>3 DEF Good
<1>13. IsCopied(r, t, M)
  BY <1>2, <1>7, <1>11 DEF used, IsCopied
<1> QED
  BY <1>2, <1>12, <1>13 DEF r, M

LEMMA RoomExists ==
  \E sz \in PowersOfTwo : 2 * sz <= MaxSize /\ enlarge_size(sz) > 2 * MaxBuckets /\ sz > 2 * MaxBuckets
<1>1. PICK sz \in PowersOfTwo : 2 * sz <= MaxSize /\ enlarge_size(sz) > 2 * MaxBuckets
  BY SizeAssumption
<1>2. sz > 2 * MaxBuckets
  BY <1>1, SizeAssumption, SizeIs
<1> QED
  BY <1>1, <1>2

LEMMA PatienceIs ==
  ASSUME NEW n \in Nat, NEW m \in Nat, n < shrink_size(m)
  PROVE  n < enlarge_size(m)
<1> DEFINE p == m * HT_EMPTY_PCT
           q == m * HT_OCCUPANCY_PCT
<1>1. HT_EMPTY_PCT \in Nat /\ HT_OCCUPANCY_PCT \in Nat /\ HT_EMPTY_PCT <= HT_OCCUPANCY_PCT
  BY TableAssumption
<1>2. p \in Nat /\ q \in Nat /\ p <= q
  BY <1>1
<1>3. shrink_size(m) = p \div 100 /\ enlarge_size(m) = q \div 100
  BY DEF shrink_size, enlarge_size
<1> HIDE DEF p, q
<1> QED
  BY <1>2, <1>3

LEMMA ShrunkIs ==
  ASSUME hash \in HashFunctions, NEW N \in PowersOfTwo, NEW full, NEW t, Good(t, N, full),
         NEW r, r = maybe_shrink(t)
  PROVE  \E M \in PowersOfTwo :
           /\ M <= N /\ Good(r, M, full) /\ r.num_elements <= t.num_elements
           /\ Items(r.buckets) = Items(t.buckets)
           /\ ~WouldShrink(t) => r = [t EXCEPT !.consider_shrink = FALSE] /\ M = N
<1>1. bucket_count(t) = N /\ size(t) \in Nat /\ size(t) <= t.num_elements /\ t.num_elements \in Nat
      /\ Cardinality(Used(t.buckets)) <= size(t) /\ Cardinality(Used(t.buckets)) \in Nat
  BY TableIs, BucketsAre
<1>2. N \in Nat \ {0} /\ IsPowerOfTwo(N) /\ HT_DEFAULT_STARTING_BUCKETS \in PowersOfTwo
  BY SizeIs, TableAssumption
<1>3. CASE WouldShrink(t)
  <2> DEFINE smaller == {sz \in PowersOfTwo : 2 * sz <= N}
             enough  == {sz \in smaller : \/ sz <= HT_DEFAULT_STARTING_BUCKETS
                                          \/ 100 * size(t) >= sz * HT_EMPTY_PCT}
             wanted == Max(enough)
  <2>1. r = copy_from(t, wanted)
    BY <1>1, <1>3 DEF maybe_shrink
  <2>2. HT_DEFAULT_STARTING_BUCKETS \in enough
    <3> DEFINE D == HT_DEFAULT_STARTING_BUCKETS
    <3>1. D \in Nat \ {0} /\ IsPowerOfTwo(D) /\ D < N
      BY <1>1, <1>2, <1>3, SizeIs DEF WouldShrink
    <3>2. 2 * D <= N
      BY <1>2, <3>1, PowersAreFarApart
    <3> QED
      BY <1>2, <3>1, <3>2
  <2>3. enough \in SUBSET Nat /\ enough \subseteq smaller /\ \A y \in enough : y <= N
    <3>1. \A y \in PowersOfTwo : y \in Nat
      BY SizeIs
    <3>2. smaller \in SUBSET Nat /\ \A y \in smaller : y <= N
      <4>1. smaller \in SUBSET Nat
        BY <3>1
      <4>2. ASSUME NEW y \in smaller PROVE y <= N
        <5>1. y \in Nat /\ N \in Nat /\ 2 * y <= N
          BY <1>2, <4>1
        <5> QED
          BY <5>1
      <4> QED
        BY <4>1, <4>2
    <3> HIDE DEF smaller
    <3> QED
      BY <3>2
  <2>4. wanted \in enough
    <3> HIDE DEF enough, smaller
    <3> QED
      BY <1>2, <2>2, <2>3, GreatestExists
  <2>5. wanted \in Nat /\ wanted <= N
    BY <2>3, <2>4
  <2> HIDE DEF wanted, enough
  <2>6. Fits(t, wanted, N)
    BY <1>1, <1>2, <1>3, <2>5, PatienceIs DEF WouldShrink, Fits
  <2>7. PICK M \in PowersOfTwo : M <= N /\ Good(r, M, full) /\ IsCopied(r, t, M)
    BY <2>1, <2>6, CopiedIs
  <2>8. r.num_elements <= t.num_elements /\ Items(r.buckets) = Items(t.buckets)
    BY <1>1, <2>7 DEF IsCopied
  <2> QED
    BY <1>3, <2>7, <2>8
<1>4. CASE ~WouldShrink(t)
  <2>1. r = [t EXCEPT !.consider_shrink = FALSE]
    BY <1>4 DEF maybe_shrink
  <2>2. Good(r, N, full) /\ r.buckets = t.buckets /\ r.num_elements = t.num_elements
    BY <2>1, PatientIs
  <2>3. N <= N /\ r.num_elements <= t.num_elements
    BY <1>1, <1>2, <2>2
  <2> QED
    BY <2>1, <2>2, <2>3
<1> QED
  BY <1>3, <1>4

LEMMA AfterShrinkIs ==
  ASSUME hash \in HashFunctions, NEW N \in PowersOfTwo, NEW full, NEW t, Good(t, N, full),
         NEW r, r = AfterShrink(t)
  PROVE  \E M \in PowersOfTwo :
           /\ M <= N /\ Good(r, M, full) /\ r.num_elements <= t.num_elements
           /\ Items(r.buckets) = Items(t.buckets)
           /\ ~(t.consider_shrink /\ WouldShrink(t)) => r.buckets = t.buckets /\ M = N
<1>1. N \in Nat /\ t.num_elements \in Nat /\ t.consider_shrink \in BOOLEAN
  BY SizeIs, TableIs
<1>2. CASE ~t.consider_shrink
  <2>1. r = t
    BY <1>2 DEF AfterShrink
  <2>2. N <= N /\ t.num_elements <= t.num_elements
    BY <1>1
  <2> QED
    BY <2>1, <2>2
<1>3. CASE t.consider_shrink
  <2>1. r = maybe_shrink(t)
    BY <1>3 DEF AfterShrink
  <2>2. PICK M \in PowersOfTwo :
           /\ M <= N /\ Good(r, M, full) /\ r.num_elements <= t.num_elements
           /\ Items(r.buckets) = Items(t.buckets)
           /\ ~WouldShrink(t) => r = [t EXCEPT !.consider_shrink = FALSE] /\ M = N
    BY <2>1, ShrunkIs
  <2>3. r = [t EXCEPT !.consider_shrink = FALSE] => r.buckets = t.buckets
    BY PatientIs
  <2> QED
    BY <1>3, <2>2, <2>3
<1> QED
  BY <1>1, <1>2, <1>3

LEMMA ResizeToIs ==
  ASSUME hash \in HashFunctions, NEW N \in PowersOfTwo, NEW full, NEW t, Good(t, N, full),
         NEW delta \in Nat, N <= MaxBuckets, t.num_elements + delta <= 2 * MaxBuckets,
         NEW w, w = resize_to(t, delta)
  PROVE  w \in PowersOfTwo /\ size(t) + delta < enlarge_size(w)
<1>1. bucket_count(t) = N /\ size(t) \in Nat /\ size(t) <= t.num_elements /\ t.num_elements \in Nat
      /\ t.num_deleted \in Nat /\ size(t) = t.num_elements - t.num_deleted /\ N \in Nat
      /\ MaxBuckets \in Nat
  BY TableIs, SizeIs, SizeAssumption DEF size
<1> DEFINE items   == size(t) + delta
           needed  == t.num_elements - t.num_deleted \div 4 + delta
           fitting == min_buckets(items, N)
           roomy   == min_buckets(needed, 0)
<1>2. items \in Nat /\ items <= 2 * MaxBuckets
  BY <1>1
<1>3. needed \in Nat /\ needed <= 2 * MaxBuckets
  BY <1>1
<1> HIDE DEF items, needed
<1>4. PICK sz \in PowersOfTwo : enlarge_size(sz) > 2 * MaxBuckets /\ sz > 2 * MaxBuckets
  BY RoomExists
<1>5. sz \in Nat /\ enlarge_size(sz) \in Nat /\ sz >= N /\ sz >= 0 /\ items < enlarge_size(sz) /\ needed < enlarge_size(sz)
  <2>1. sz \in Nat /\ enlarge_size(sz) \in Nat
    BY SizeIs
  <2> HIDE DEF enlarge_size
  <2> QED
    BY <1>1, <1>2, <1>3, <1>4, <2>1
<1>6. fitting \in PowersOfTwo /\ fitting >= N /\ items < enlarge_size(fitting)
  BY <1>1, <1>2, <1>5, MinBucketsIs
<1>7. roomy \in PowersOfTwo
  BY <1>3, <1>5, MinBucketsIs
<1>8. w = IF fitting < roomy /\ items >= shrink_size(2 * fitting) THEN 2 * fitting ELSE fitting
  BY <1>1 DEF resize_to, items, needed
<1> HIDE DEF fitting, roomy
<1>9. CASE w = fitting
  BY <1>6, <1>9 DEF items
<1>10. CASE w # fitting
  <2>1. fitting < roomy /\ w = 2 * fitting
    BY <1>8, <1>10
  <2>2. fitting \in Nat \ {0} /\ roomy \in Nat /\ IsPowerOfTwo(fitting) /\ IsPowerOfTwo(roomy)
        /\ roomy <= MaxSize /\ HT_MIN_BUCKETS <= fitting /\ enlarge_size(fitting) \in Nat
    BY <1>6, <1>7, SizeIs
  <2>3. 2 * fitting <= roomy /\ IsPowerOfTwo(2 * fitting)
    BY <2>1, <2>2, PowersAreFarApart, PowerDoubles
  <2>4. HT_MIN_BUCKETS \in Nat /\ MaxSize \in Nat
    BY TableAssumption, SizeAssumption
  <2>5. 2 * fitting \in HT_MIN_BUCKETS .. MaxSize
    BY <2>2, <2>3, <2>4
  <2>6. w \in PowersOfTwo
    BY <2>1, <2>3, <2>5 DEF PowersOfTwo
  <2>7. w \in Nat /\ fitting <= w
    BY <2>1, <2>2
  <2>8. enlarge_size(fitting) <= enlarge_size(w) /\ enlarge_size(w) \in Nat
    BY <2>2, <2>7, LargerHoldsMore
  <2>9. items < enlarge_size(w)
    BY <1>2, <1>6, <2>2, <2>8
  <2> QED
    BY <2>6, <2>9 DEF items
<1> QED
  BY <1>9, <1>10

LEMMA ResizedIs ==
  ASSUME hash \in HashFunctions, NEW N \in PowersOfTwo, NEW full, NEW t, Good(t, N, full),
         NEW delta \in Nat, N <= MaxBuckets, t.num_elements + delta <= 2 * MaxBuckets,
         NEW r, r = resize_delta(t, delta)
  PROVE  \E M \in PowersOfTwo :
           /\ Good(r, M, full) /\ r.num_elements + delta <= enlarge_size(M)
           /\ Items(r.buckets) = Items(t.buckets)
           /\ ~did_resize(t, delta) => r.buckets = t.buckets /\ M = N
<1> DEFINE s == AfterShrink(t)
<1>1. PICK N1 \in PowersOfTwo :
           /\ N1 <= N /\ Good(s, N1, full) /\ s.num_elements <= t.num_elements
           /\ Items(s.buckets) = Items(t.buckets)
           /\ ~(t.consider_shrink /\ WouldShrink(t)) => s.buckets = t.buckets /\ N1 = N
  BY AfterShrinkIs
<1>2. r = IF IsLargeEnough(s, delta) THEN s ELSE copy_from(s, resize_to(s, delta))
  BY DEF resize_delta, Resizes
<1>3. IsLargeEnough(s, delta) /\ ~did_resize(t, delta) => s.buckets = t.buckets /\ N1 = N
  BY <1>1 DEF did_resize
<1>4. ~IsLargeEnough(s, delta) => did_resize(t, delta)
  BY DEF did_resize, Resizes
<1> HIDE DEF s
<1>5. /\ N \in Nat /\ N1 \in Nat /\ t.num_elements \in Nat /\ s.num_elements \in Nat /\ MaxBuckets \in Nat
      /\ enlarge_size(N1) \in Nat /\ bucket_count(s) = N1
  BY <1>1, SizeIs, TableIs, SizeAssumption
<1>6. N1 <= MaxBuckets /\ s.num_elements + delta <= 2 * MaxBuckets
  BY <1>1, <1>5
<1>7. CASE IsLargeEnough(s, delta)
  <2> DEFINE m == min_buckets(s.num_elements + delta, 0)
  <2>1. PICK sz \in PowersOfTwo : enlarge_size(sz) > 2 * MaxBuckets /\ sz > 2 * MaxBuckets
    BY RoomExists
  <2>2. sz \in Nat /\ enlarge_size(sz) \in Nat /\ sz >= 0 /\ s.num_elements + delta < enlarge_size(sz)
        /\ s.num_elements + delta \in Nat
    <3> DEFINE n == s.num_elements + delta
    <3>1. n \in Nat /\ n <= 2 * MaxBuckets
      BY <1>5, <1>6
    <3>2. sz \in Nat /\ enlarge_size(sz) \in Nat
      BY SizeIs
    <3> HIDE DEF n
    <3>3. n < enlarge_size(sz)
      BY <1>5, <2>1, <3>1, <3>2
    <3> QED
      BY <3>1, <3>2, <3>3 DEF n
  <2>3. m \in PowersOfTwo /\ s.num_elements + delta < enlarge_size(m)
    BY <2>2, MinBucketsIs
  <2>4. s.num_elements + delta <= enlarge_size(N1) \/ m <= N1
    BY <1>5, <1>7 DEF IsLargeEnough
  <2> HIDE DEF m
  <2>5. m <= N1 => s.num_elements + delta <= enlarge_size(N1)
    <3> SUFFICES ASSUME m <= N1 PROVE s.num_elements + delta <= enlarge_size(N1)
      OBVIOUS
    <3>1. m \in Nat
      BY <2>3, SizeIs
    <3>2. enlarge_size(m) <= enlarge_size(N1) /\ enlarge_size(m) \in Nat
      BY <1>5, <3>1, LargerHoldsMore
    <3> QED
      BY <1>5, <2>2, <2>3, <3>2
  <2> QED
    BY <1>1, <1>2, <1>3, <1>7, <2>4, <2>5
<1>8. CASE ~IsLargeEnough(s, delta)
  <2> DEFINE w == resize_to(s, delta)
  <2>1. w \in PowersOfTwo /\ size(s) + delta < enlarge_size(w)
    BY <1>1, <1>6, ResizeToIs
  <2>2. w \in Nat /\ w >= w /\ enlarge_size(w) \in Nat
    BY <2>1, SizeIs
  <2>3. size(s) \in Nat /\ Cardinality(Used(s.buckets)) <= size(s) /\ Cardinality(Used(s.buckets)) \in Nat
    BY <1>1, TableIs, BucketsAre
  <2>4. size(s) < enlarge_size(w)
    BY <2>1, <2>2, <2>3
  <2>5. r = copy_from(s, w)
    BY <1>2, <1>8
  <2> HIDE DEF w
  <2>6. Fits(s, w, w)
    BY <2>1, <2>2, <2>4 DEF Fits
  <2>7. PICK M \in PowersOfTwo : M >= w /\ M <= w /\ Good(r, M, full) /\ IsCopied(r, s, M)
    BY <1>1, <2>5, <2>6, CopiedIs
  <2>8. M = w
    BY <2>2, <2>7, SizeIs
  <2>9. r.num_elements + delta <= enlarge_size(M)
    BY <2>1, <2>2, <2>3, <2>7, <2>8 DEF IsCopied
  <2> QED
    BY <1>1, <1>4, <1>8, <2>7, <2>9 DEF IsCopied
<1> QED
  BY <1>7, <1>8

-----------------------------------------------------------------------------
(***************************************************************************)
(* The operations that may resize the table.                               *)
(***************************************************************************)
LEMMA InsertNoResizeIs ==
  ASSUME hash \in HashFunctions, NEW N \in PowersOfTwo, NEW full, NEW t, Good(t, N, full),
         t.num_elements + 1 <= enlarge_size(N), NEW k \in DOMAIN hash, NEW v \in Values
  PROVE  LET r == insert_noresize(t, [key |-> k, value |-> v])
         IN /\ Good(r, N, full) /\ r.num_elements <= t.num_elements + 1
            /\ full => Items(r.buckets) = WithItem(Items(t.buckets), k, v)
<1> DEFINE r == insert_noresize(t, [key |-> k, value |-> v])
           pos == find_position(t, k)
<1>1. r = IF pos.found THEN t ELSE insert_at(t, pos.bucket, [key |-> k, value |-> v])
  BY DEF insert_noresize
<1>2. t.num_elements \in Nat
  BY TableIs
<1>3. CASE pos.found
  <2>1. r = t /\ t.num_elements <= t.num_elements + 1
    BY <1>1, <1>2, <1>3
  <2>2. pos.bucket \in Used(t.buckets) /\ t.buckets[pos.bucket].key = k
    BY <1>3, SearchIs
  <2> HIDE DEF r, pos
  <2>3. Items(t.buckets) = WithItem(Items(t.buckets), k, v)
    BY <2>2 DEF WithItem, Items
  <2> QED
    BY <2>1, <2>3 DEF r
<1>4. CASE ~pos.found
  <2> DEFINE b == pos.bucket
  <2>1. /\ b \in 0 .. N - 1 /\ t.buckets[b].key \in {EMPTY_KEY, DELETED_KEY}
        /\ Leads(t.buckets, N, k, b) /\ (full => HasNo(t.buckets, k))
    BY <1>4, SearchIs
  <2>2. CanInsert(t, N, full, b, k, v)
    BY <2>1 DEF CanInsert
  <2>3. r = insert_at(t, b, [key |-> k, value |-> v])
    BY <1>1, <1>4
  <2> HIDE DEF b, r
  <2>4. /\ Good(r, N, full) /\ r.num_elements <= t.num_elements + 1
        /\ HasNo(t.buckets, k) => Items(r.buckets) = WithItem(Items(t.buckets), k, v)
    BY <2>2, <2>3, InsertedIs
  <2> QED
    BY <2>1, <2>4 DEF r
<1> QED
  BY <1>3, <1>4

LEMMA FindOrInsertIs ==
  ASSUME hash \in HashFunctions, NEW N \in PowersOfTwo, NEW full, NEW t, Good(t, N, full),
         N <= MaxBuckets, NEW k \in DOMAIN hash
  PROVE  /\ \E M \in PowersOfTwo : Good(find_or_insert(t, k), M, full)
         /\ full => Items(find_or_insert(t, k).buckets) = WithItem(Items(t.buckets), k, 0)
<1> DEFINE pos == find_position(t, k)
           s == resize_delta(t, 1)
<1>1. t.num_elements \in Nat /\ t.num_elements < N /\ N \in Nat /\ 0 \in Values /\ MaxBuckets \in Nat
  BY TableIs, SizeIs, KeysDiffer, SizeAssumption
<1>2. t.num_elements + 1 <= 2 * MaxBuckets
  BY <1>1
<1>3. PICK M \in PowersOfTwo : /\ Good(s, M, full) /\ s.num_elements + 1 <= enlarge_size(M)
                               /\ Items(s.buckets) = Items(t.buckets)
                               /\ ~did_resize(t, 1) => s.buckets = t.buckets /\ M = N
  BY <1>2, ResizedIs
<1>4. find_or_insert(t, k) = IF pos.found THEN t
                             ELSE IF did_resize(t, 1) THEN insert_noresize(s, [key |-> k, value |-> 0])
                             ELSE insert_at(s, pos.bucket, [key |-> k, value |-> 0])
  BY DEF find_or_insert
<1> HIDE DEF s
<1>5. CASE pos.found
  <2>1. pos.bucket \in Used(t.buckets) /\ t.buckets[pos.bucket].key = k
    BY <1>5, SearchIs
  <2>2. find_or_insert(t, k) = t
    BY <1>4, <1>5
  <2> HIDE DEF pos
  <2>3. Items(t.buckets) = WithItem(Items(t.buckets), k, 0)
    BY <2>1 DEF WithItem, Items
  <2> QED
    BY <2>2, <2>3
<1>6. CASE ~pos.found /\ did_resize(t, 1)
  <2> DEFINE r == insert_noresize(s, [key |-> k, value |-> 0])
  <2>1. find_or_insert(t, k) = r
    BY <1>4, <1>6
  <2>2. Good(r, M, full) /\ (full => Items(r.buckets) = WithItem(Items(s.buckets), k, 0))
    BY <1>1, <1>3, InsertNoResizeIs
  <2> QED
    BY <1>3, <2>1, <2>2
<1>7. CASE ~pos.found /\ ~did_resize(t, 1)
  <2> DEFINE b == pos.bucket
             r == insert_at(s, b, [key |-> k, value |-> 0])
  <2>1. /\ b \in 0 .. N - 1 /\ t.buckets[b].key \in {EMPTY_KEY, DELETED_KEY}
        /\ Leads(t.buckets, N, k, b) /\ (full => HasNo(t.buckets, k))
    BY <1>7, SearchIs
  <2>2. find_or_insert(t, k) = r
    BY <1>4, <1>7
  <2>3. r = insert_at(s, b, [key |-> k, value |-> 0])
    OBVIOUS
  <2> HIDE DEF b, r
  <2>4. /\ b \in 0 .. N - 1 /\ s.buckets[b].key \in {EMPTY_KEY, DELETED_KEY}
        /\ Leads(s.buckets, N, k, b) /\ (full => HasNo(s.buckets, k))
        /\ Good(s, N, full) /\ s.num_elements + 1 <= enlarge_size(N)
    BY <1>3, <1>7, <2>1
  <2>5. CanInsert(s, N, full, b, k, 0)
    BY <1>1, <2>4 DEF CanInsert
  <2>6. /\ Good(r, N, full)
        /\ HasNo(s.buckets, k) => Items(r.buckets) = WithItem(Items(s.buckets), k, 0)
    BY <2>3, <2>5, InsertedIs
  <2> QED
    BY <1>3, <2>2, <2>4, <2>6
<1> QED
  BY <1>5, <1>6, <1>7

LEMMA InsertIs ==
  ASSUME hash \in HashFunctions, NEW N \in PowersOfTwo, NEW full, NEW t, Good(t, N, full),
         N <= MaxBuckets, NEW k \in DOMAIN hash, NEW v \in Values
  PROVE  /\ \E M \in PowersOfTwo : Good(insert(t, [key |-> k, value |-> v]), M, full)
         /\ full => Items(insert(t, [key |-> k, value |-> v]).buckets) = WithItem(Items(t.buckets), k, v)
<1>1. t.num_elements \in Nat /\ t.num_elements < N /\ N \in Nat /\ MaxBuckets \in Nat
  BY TableIs, SizeIs, SizeAssumption
<1>2. t.num_elements + 1 <= 2 * MaxBuckets
  BY <1>1
<1>3. PICK M \in PowersOfTwo : /\ Good(resize_delta(t, 1), M, full)
                               /\ resize_delta(t, 1).num_elements + 1 <= enlarge_size(M)
                               /\ Items(resize_delta(t, 1).buckets) = Items(t.buckets)
  BY <1>2, ResizedIs
<1> DEFINE s == resize_delta(t, 1)
           r == insert_noresize(s, [key |-> k, value |-> v])
<1>4. insert(t, [key |-> k, value |-> v]) = r
  BY DEF insert
<1> HIDE DEF s
<1>5. Good(r, M, full) /\ (full => Items(r.buckets) = WithItem(Items(s.buckets), k, v))
  BY <1>3, InsertNoResizeIs DEF s
<1> QED
  BY <1>3, <1>4, <1>5 DEF s

LEMMA NothingIsMissing ==
  ASSUME hash \in HashFunctions, NEW N \in PowersOfTwo, NEW full, NEW t, Good(t, N, full),
         t.num_elements = 0
  PROVE  Good(t, N, TRUE) /\ Used(t.buckets) = {}
<1>1. t.buckets \in [0 .. N - 1 -> Bucket]
  BY TableIs
<1>2. /\ IsFiniteSet(NonEmpty(t.buckets)) /\ Used(t.buckets) \subseteq NonEmpty(t.buckets)
      /\ Cardinality(NonEmpty(t.buckets)) \in Nat
  BY <1>1, BucketsAre, FS_CardinalityType
<1>3. Cardinality(NonEmpty(t.buckets)) = 0
  BY <1>2 DEF Good
<1>4. Used(t.buckets) = {}
  BY <1>2, <1>3, FS_EmptySet
<1> QED
  BY <1>3, <1>4 DEF Good, IsPlaced

LEMMA Weaker ==
  ASSUME NEW N, NEW t, Good(t, N, TRUE), NEW full
  PROVE  Good(t, N, full)
  BY DEF Good

LEMMA ClearIs ==
  ASSUME hash \in HashFunctions, NEW N \in PowersOfTwo, NEW full, NEW t, Good(t, N, full)
  PROVE  \E M \in PowersOfTwo : Good(clear(t), M, TRUE)
<1>1. min_buckets(0, 0) \in PowersOfTwo
  <2>1. PICK sz \in PowersOfTwo : sz \in Nat /\ 0 < enlarge_size(sz)
    BY RoomExists, SizeAssumption, SizeIs
  <2>2. sz >= 0
    BY <2>1
  <2> QED
    BY <2>1, <2>2, MinBucketsIs
<1>2. Good(ClearedTo(min_buckets(0, 0)), min_buckets(0, 0), TRUE)
  BY <1>1, ClearedIs
<1>3. CASE t.num_elements = 0 /\ bucket_count(t) = min_buckets(0, 0)
  BY <1>3, NothingIsMissing DEF clear
<1>4. CASE ~(t.num_elements = 0 /\ bucket_count(t) = min_buckets(0, 0))
  BY <1>1, <1>2, <1>4 DEF clear
<1> QED
  BY <1>3, <1>4

\* A table as large as is wanted first, and one with few items, can be copied.
LEMMA CopyFits ==
  ASSUME NEW t, size(t) \in Nat, size(t) <= 2 * MaxBuckets,
         NEW wanted \in {HT_MIN_BUCKETS, HT_DEFAULT_STARTING_BUCKETS}
  PROVE  \E sz \in PowersOfTwo : Fits(t, wanted, sz)
<1>1. PICK sz \in PowersOfTwo : enlarge_size(sz) > 2 * MaxBuckets /\ sz > 2 * MaxBuckets
  BY RoomExists
<1>2. HT_MIN_BUCKETS \in Nat /\ HT_DEFAULT_STARTING_BUCKETS \in Nat /\ MaxBuckets \in Nat
      /\ HT_MIN_BUCKETS <= sz /\ HT_DEFAULT_STARTING_BUCKETS <= MaxBuckets
      /\ sz \in Nat /\ enlarge_size(sz) \in Nat
  BY SizeIs, TableAssumption, SizeAssumption
<1>3. wanted \in Nat /\ wanted <= sz
  BY <1>1, <1>2
<1>4. size(t) < enlarge_size(sz)
  BY <1>1, <1>2
<1> QED
  BY <1>2, <1>3, <1>4 DEF Fits

LEMMA CopyIs ==
  ASSUME hash \in HashFunctions, NEW N \in PowersOfTwo, NEW full, NEW t, Good(t, N, full),
         size(t) <= 2 * MaxBuckets, NEW wanted \in {HT_MIN_BUCKETS, HT_DEFAULT_STARTING_BUCKETS}
  PROVE  \E M \in PowersOfTwo : Good(copy_from(t, wanted), M, full) /\ IsCopied(copy_from(t, wanted), t, M)
<1>1. size(t) \in Nat
  BY TableIs
<1>2. PICK sz \in PowersOfTwo : Fits(t, wanted, sz)
  BY <1>1, CopyFits
<1> QED
  BY <1>2, CopiedIs

LEMMA SquashedIs ==
  ASSUME hash \in HashFunctions, NEW N \in PowersOfTwo, NEW full, NEW t, Good(t, N, full),
         N <= MaxBuckets
  PROVE  \E M \in PowersOfTwo : /\ Good(squash_deleted(t), M, full)
                                /\ Items(squash_deleted(t).buckets) = Items(t.buckets)
                                /\ Cardinality(Used(squash_deleted(t).buckets)) = Cardinality(Used(t.buckets))
<1>1. /\ size(t) \in Nat /\ size(t) <= t.num_elements /\ t.num_elements < N /\ N \in Nat
      /\ t.num_elements \in Nat /\ MaxBuckets \in Nat
  BY TableIs, SizeIs, SizeAssumption
<1>2. size(t) <= 2 * MaxBuckets
  BY <1>1
<1>3. CASE t.num_deleted > 0
  <2>1. squash_deleted(t) = copy_from(t, HT_DEFAULT_STARTING_BUCKETS)
    BY <1>3 DEF squash_deleted
  <2> QED
    BY <1>2, <2>1, CopyIs DEF IsCopied
<1>4. CASE ~(t.num_deleted > 0)
  BY <1>4 DEF squash_deleted
<1> QED
  BY <1>3, <1>4

LEMMA ResizeIs ==
  ASSUME hash \in HashFunctions, NEW N \in PowersOfTwo, NEW full, NEW t, Good(t, N, full),
         N <= MaxBuckets, NEW n \in 0 .. HT_MIN_BUCKETS
  PROVE  (\E M \in PowersOfTwo : Good(resize(t, n), M, full)) /\ Items(resize(t, n).buckets) = Items(t.buckets)
<1> DEFINE s == IF t.consider_shrink \/ n = 0 THEN maybe_shrink(t) ELSE t
<1>1. PICK N1 \in PowersOfTwo : N1 <= N /\ Good(s, N1, full) /\ Items(s.buckets) = Items(t.buckets)
  <2>1. N <= N
    BY SizeIs
  <2> QED
    BY <2>1, ShrunkIs
<1>2. resize(t, n) = IF n > s.num_elements THEN resize_delta(s, n - s.num_elements) ELSE s
  BY DEF resize
<1> HIDE DEF s
<1>3. /\ s.num_elements \in Nat /\ N1 \in Nat /\ N \in Nat /\ MaxBuckets \in Nat
      /\ HT_MIN_BUCKETS \in Nat /\ HT_MIN_BUCKETS <= MaxBuckets
  <2>1. HT_DEFAULT_STARTING_BUCKETS \in PowersOfTwo /\ HT_DEFAULT_STARTING_BUCKETS <= MaxBuckets
        /\ HT_MIN_BUCKETS \in Nat /\ MaxBuckets \in Nat
    BY TableAssumption, SizeAssumption
  <2> QED
    BY <1>1, <2>1, TableIs, SizeIs
<1>4. CASE n > s.num_elements
  <2> DEFINE delta == n - s.num_elements
  <2>1. delta \in Nat /\ s.num_elements + delta <= 2 * MaxBuckets /\ N1 <= MaxBuckets
    BY <1>1, <1>3, <1>4
  <2> HIDE DEF delta
  <2>2. \E M \in PowersOfTwo : /\ Good(resize_delta(s, delta), M, full)
                                /\ Items(resize_delta(s, delta).buckets) = Items(s.buckets)
    BY <1>1, <2>1, ResizedIs
  <2> QED
    BY <1>1, <1>2, <1>4, <2>2 DEF delta
<1>5. CASE ~(n > s.num_elements)
  BY <1>1, <1>2, <1>5
<1> QED
  BY <1>4, <1>5

\* What insert_range makes of the items I of a table and the items J of another.
MergedItems(I, J) == I \union {j \in J : \A i \in I : i.key # j.key}

IsMerged(t, full, I, J) == full => Items(t.buckets) = MergedItems(I, J)

HasOneMore(y, x, full, K, J, k, v) ==
  /\ full => Items(y.buckets) = WithItem(Items(x.buckets), k, v)
  /\ K = J \union {[key |-> k, value |-> v]} /\ \A j \in J : j.key # k

LEMMA MergesOneMore ==
  ASSUME NEW x, NEW y, NEW full, NEW I, NEW J, NEW K, NEW k, NEW v,
         IsMerged(x, full, I, J), HasOneMore(y, x, full, K, J, k, v)
  PROVE  IsMerged(y, full, I, K)
<1> USE DEF HasOneMore
<1> DEFINE item == [key |-> k, value |-> v]
<1>1. item.key = k
  OBVIOUS
<1> HIDE DEF item
<1>2. (\E i \in MergedItems(I, J) : i.key = k) <=> (\E i \in I : i.key = k)
  BY DEF MergedItems
<1>3. CASE \E i \in I : i.key = k
  <2>1. MergedItems(I, J \union {item}) = MergedItems(I, J)
    BY <1>1, <1>3 DEF MergedItems
  <2>2. WithItem(MergedItems(I, J), k, v) = MergedItems(I, J)
    BY <1>2, <1>3 DEF WithItem
  <2> QED
    BY <2>1, <2>2 DEF IsMerged, item
<1>4. CASE ~\E i \in I : i.key = k
  <2>1. MergedItems(I, J \union {item}) = MergedItems(I, J) \union {item}
    BY <1>1, <1>4 DEF MergedItems
  <2>2. WithItem(MergedItems(I, J), k, v) = MergedItems(I, J) \union {item}
    BY <1>2, <1>4 DEF WithItem, item
  <2> QED
    BY <2>1, <2>2 DEF IsMerged, item
<1> QED
  BY <1>3, <1>4

LEMMA FewElements ==
  ASSUME hash \in HashFunctions, NEW N \in PowersOfTwo, NEW full, NEW t, Good(t, N, full)
  PROVE  t.num_elements \in Nat /\ t.num_elements <= N /\ N \in Nat
<1>1. t.num_elements \in Nat /\ t.num_elements < N
  BY TableIs
<1> QED
  BY <1>1, SizeIs

\* The loop of insert_range: there is room for what is still to come.
LEMMA InsertRangeIs ==
  ASSUME hash \in HashFunctions, NEW N \in PowersOfTwo, NEW full, NEW t, Good(t, N, full),
         N <= MaxBuckets, NEW L \in PowersOfTwo, NEW u, Good(u, L, TRUE),
         Cardinality(Used(u.buckets)) <= MaxBuckets
  PROVE  /\ \E M \in PowersOfTwo : Good(insert_range(t, u), M, full)
         /\ IsMerged(insert_range(t, u), full, Items(t.buckets), Items(u.buckets))
<1> DEFINE ub == u.buckets
           all == Cardinality(Used(ub))
           start == resize_delta(t, all)
           Is(f) == f = [b \in 0 .. L |-> IF b = 0 THEN start
                                          ELSE IF b - 1 \in Used(ub) THEN insert_noresize(f[b - 1], ub[b - 1])
                                          ELSE f[b - 1]]
           after == CHOOSE f : Is(f)
<1>1. /\ bucket_count(u) = L /\ ub \in [0 .. L - 1 -> Bucket] /\ LiveBuckets(u) = Used(ub)
      /\ DOMAIN ub = 0 .. L - 1 /\ L \in Nat /\ IsFiniteSet(Used(ub)) /\ all \in Nat
  BY TableIs, SizeIs, BucketsAre, FS_CardinalityType
<1>2. insert_range(t, u) = after[L]
  <2>1. insert_range(t, u) = ForEachItem(u, insert_noresize, start)
    BY <1>1 DEF insert_range
  <2> HIDE DEF start
  <2>2. ForEachItem(u, insert_noresize, start) = after[L]
    BY <1>1 DEF ForEachItem
  <2> QED
    BY <2>1, <2>2
<1>2a. t.num_elements \in Nat /\ t.num_elements <= N /\ N \in Nat /\ MaxBuckets \in Nat
  BY FewElements, SizeAssumption
<1>2b. all <= MaxBuckets
  OBVIOUS
<1> HIDE DEF all
<1>3. t.num_elements + all <= 2 * MaxBuckets
  BY <1>1, <1>2a, <1>2b
<1>4. PICK M \in PowersOfTwo : /\ Good(start, M, full) /\ start.num_elements + all <= enlarge_size(M)
                               /\ Items(start.buckets) = Items(t.buckets)
  BY <1>1, <1>3, ResizedIs
<1>4a. \A b, c \in Used(ub) : ub[b].key = ub[c].key => b = c
  BY DEF Good, IsPlaced
<1> HIDE DEF start
<1> DEFINE S == [buckets : [0 .. M - 1 -> Bucket], num_elements : Int, num_deleted : Int,
                 consider_shrink : BOOLEAN]
<1>5. \A x \in S, b \in 0 .. L - 1 : insert_noresize(x, ub[b]) \in S
  <2> TAKE x \in S, b \in 0 .. L - 1
  <2> DEFINE e == find_position(x, ub[b].key).bucket
             item == ub[b]
             r == insert_at(x, e, item)
  <2>1. item \in Bucket
    BY <1>1
  <2>2. insert_noresize(x, item) = x \/ insert_noresize(x, item) = r
    BY DEF insert_noresize
  <2> DEFINE nb == [x.buckets EXCEPT ![e] = item]
             nd == IF test_deleted(x, e) THEN x.num_deleted - 1 ELSE x.num_deleted
             ne == IF test_deleted(x, e) THEN x.num_elements ELSE x.num_elements + 1
  <2>3. nb \in [0 .. M - 1 -> Bucket] /\ nd \in Int /\ ne \in Int
    <3>1. x.buckets \in [0 .. M - 1 -> Bucket] /\ x.num_elements \in Int /\ x.num_deleted \in Int
      OBVIOUS
    <3> HIDE DEF item, e, S
    <3>2. nb \in [0 .. M - 1 -> Bucket]
      BY <2>1, <3>1
    <3>3. nd \in Int /\ ne \in Int
      BY <3>1
    <3> QED
      BY <3>2, <3>3
  <2>4. r = [x EXCEPT !.buckets = nb, !.num_deleted = nd, !.num_elements = ne]
    BY DEF insert_at
  <2> HIDE DEF nb, nd, ne, r
  <2>5. r \in S
    BY <2>3, <2>4
  <2> HIDE DEF S
  <2> QED
    BY <2>2, <2>5
<1>6. start \in S
  BY <1>4 DEF Good, Table
<1> HIDE DEF S, ub
<1>7. Is(after)
  <2> DEFINE G == [b \in 0 .. L - 1 |-> [x \in S |-> IF b \in Used(ub) THEN insert_noresize(x, ub[b]) ELSE x]]
  <2>1. G \in [0 .. L - 1 -> [S -> S]]
    BY <1>5
  <2>2. PICK f \in [0 .. L -> S] : IsLoop(f, L, start, G)
    <3> HIDE DEF G
    <3> QED
      BY <1>1, <1>6, <2>1, LoopExists
  <2>3. ASSUME NEW b \in 0 .. L, b # 0
        PROVE  G[b - 1][f[b - 1]] = IF b - 1 \in Used(ub) THEN insert_noresize(f[b - 1], ub[b - 1]) ELSE f[b - 1]
    <3>1. b - 1 \in 0 .. L - 1 /\ b - 1 \in 0 .. L
      BY <1>1, <2>3
    <3>2. f[b - 1] \in S
      BY <3>1
    <3> QED
      BY <3>1, <3>2
  <2>4. Is(f)
    <3> HIDE DEF G
    <3> QED
      BY <2>2, <2>3 DEF IsLoop
  <2> HIDE DEF Is
  <2> QED
    BY <2>4
<1> HIDE DEF after
<1> DEFINE Below(b) == {c \in Used(ub) : c < b}
           ItemsBelow(b) == {ub[c] : c \in Below(b)}
           rest(b) == all - Cardinality(Below(b))
           Merges(b) == IsMerged(after[b], full, Items(t.buckets), ItemsBelow(b))
           X == {b \in 0 .. L : /\ Good(after[b], M, full) /\ Merges(b)
                                /\ after[b].num_elements + rest(b) <= enlarge_size(M)}
<1>8. 0 \in X
  <2>1. after[0] = start /\ 0 \in 0 .. L
    BY <1>1, <1>7
  <2>2. Below(0) = {}
    BY <1>1, BucketsAre
  <2>3. rest(0) = all
    <3>1. Cardinality(Below(0)) = 0
      BY <2>2, FS_EmptySet
    <3> HIDE DEF Below
    <3> QED
      BY <1>1, <3>1
  <2>4. ItemsBelow(0) = {}
    BY <2>2
  <2> HIDE DEF ItemsBelow
  <2>5. Merges(0)
    BY <1>4, <2>1, <2>4 DEF IsMerged, MergedItems
  <2> QED
    BY <1>4, <2>1, <2>3, <2>5
<1>9. \A b \in 0 .. L - 1 : b \in X => b + 1 \in X
  <2> SUFFICES ASSUME NEW b \in 0 .. L - 1, Good(after[b], M, full), Merges(b),
                      after[b].num_elements + rest(b) <= enlarge_size(M)
               PROVE  b + 1 \in X
    OBVIOUS
  <2> DEFINE x == after[b]
             y == after[b + 1]
  <2>1. b + 1 \in 0 .. L /\ y = IF b \in Used(ub) THEN insert_noresize(x, ub[b]) ELSE x
    <3>1. b + 1 \in 0 .. L /\ b + 1 # 0 /\ (b + 1) - 1 = b /\ b \in 0 .. L
      BY <1>1
    <3> QED
      BY <1>7, <3>1
  <2>2. Good(x, M, full) /\ x.num_elements + rest(b) <= enlarge_size(M)
    OBVIOUS
  <2>2a. IsMerged(x, full, Items(t.buckets), ItemsBelow(b))
    OBVIOUS
  <2>3. /\ Good(y, M, full) /\ y.num_elements + rest(b + 1) <= enlarge_size(M)
        /\ IsMerged(y, full, Items(t.buckets), ItemsBelow(b + 1))
    <3> HIDE DEF x, y, Below, Merges
    <3>1. CASE b \notin Used(ub)
      <4>1. y = x
        BY <2>1, <3>1
      <4>2. Below(b + 1) = Below(b)
        BY <1>1, <3>1, BucketsAre DEF Below
      <4> QED
        BY <2>2, <2>2a, <4>1, <4>2
    <3>2. CASE b \in Used(ub)
      <4>1. PICK k \in DOMAIN hash, v \in Values : ub[b] = [key |-> k, value |-> v]
        BY <1>1, <3>2 DEF Used, Bucket
      <4>2. /\ Below(b + 1) = Below(b) \union {b} /\ b \notin Below(b)
            /\ Below(b) \subseteq Used(ub) /\ Below(b + 1) \subseteq Used(ub)
        <5>1. Used(ub) \subseteq 0 .. L - 1
          BY <1>1, BucketsAre
        <5>2. \A c \in 0 .. L - 1 : c < b + 1 <=> c < b \/ c = b
          BY <1>1
        <5>3. ~(b < b)
          BY <1>1
        <5> QED
          BY <3>2, <5>1, <5>2, <5>3 DEF Below
      <4>3. IsFiniteSet(Below(b)) /\ Cardinality(Below(b + 1)) <= all
        BY <1>1, <4>2, FS_Subset DEF all
      <4>4. Cardinality(Below(b + 1)) = Cardinality(Below(b)) + 1 /\ Cardinality(Below(b)) \in Nat
        BY <4>2, <4>3, FS_AddElement, FS_CardinalityType
      <4>4a. all \in Nat
        BY <1>1
      <4>5. rest(b) = rest(b + 1) + 1 /\ rest(b + 1) \in Nat
        <5> DEFINE low  == Cardinality(Below(b))
                   more == Cardinality(Below(b + 1))
        <5>1. all \in Nat /\ low \in Nat /\ more = low + 1 /\ more <= all
          BY <4>3, <4>4, <4>4a
        <5> HIDE DEF low, more
        <5>2. all - low = (all - more) + 1 /\ all - more \in Nat
          BY <5>1
        <5> QED
          BY <5>2 DEF low, more
      <4> HIDE DEF rest
      <4>5a. /\ ItemsBelow(b + 1) = ItemsBelow(b) \union {[key |-> k, value |-> v]}
             /\ \A i \in ItemsBelow(b) : i.key # k
        BY <1>4a, <3>2, <4>1, <4>2
      <4> HIDE DEF ItemsBelow
      <4>6. x.num_elements \in Nat /\ enlarge_size(M) \in Nat
        BY <2>2, TableIs, SizeIs
      <4>7. x.num_elements + 1 <= enlarge_size(M)
        BY <2>2, <4>5, <4>6
      <4>8. /\ Good(y, M, full) /\ y.num_elements <= x.num_elements + 1
            /\ full => Items(y.buckets) = WithItem(Items(x.buckets), k, v)
        BY <2>1, <2>2, <3>2, <4>1, <4>7, InsertNoResizeIs
      <4>9. y.num_elements \in Nat
        BY <4>8, TableIs
      <4>10. IsMerged(y, full, Items(t.buckets), ItemsBelow(b + 1))
        <5>1. HasOneMore(y, x, full, ItemsBelow(b + 1), ItemsBelow(b), k, v)
          BY <4>5a, <4>8 DEF HasOneMore
        <5> QED
          BY <2>2a, <5>1, MergesOneMore
      <4> QED
        BY <2>2, <4>5, <4>6, <4>8, <4>9, <4>10
    <3> QED
      BY <3>1, <3>2
  <2> QED
    BY <2>1, <2>3
<1>10. 0 .. L \subseteq X
  <2> HIDE DEF X
  <2> QED
    BY <1>1, <1>8, <1>9, StepByStep
<1>11. Good(after[L], M, full) /\ Merges(L)
  <2>1. L \in X
    <3> HIDE DEF X
    <3> QED
      BY <1>1, <1>10
  <2> QED
    BY <2>1
<1>12. ItemsBelow(L) = Items(ub)
  BY <1>1, BucketsAre DEF Items
<1> HIDE DEF ItemsBelow
<1> QED
  BY <1>2, <1>11, <1>12 DEF ub

\* Where it stands beside Good of another table.
Whole(t, N) == Good(t, N, TRUE)

\* A file that is read to its end gives the table that it was written from.
LEMMA UnserializedIs ==
  ASSUME hash \in HashFunctions, NEW N \in PowersOfTwo, NEW full, NEW t, Good(t, N, full),
         NEW K \in PowersOfTwo, NEW file_, Whole(file_, K), file_.num_deleted = 0,
         NEW items_read \in -2 .. Cardinality(LiveBuckets(file_)),
         NEW ends, ends <=> items_read = Cardinality(LiveBuckets(file_))
  PROVE  /\ \E M \in PowersOfTwo : Good(unserialize(t, file_, items_read), M, ends)
         /\ ends => Items(unserialize(t, file_, items_read).buckets) = Items(file_.buckets)
<1> USE DEF Whole
<1> DEFINE fb == file_.buckets
           all == Cardinality(LiveBuckets(file_))
<1>1. /\ bucket_count(file_) = K /\ LiveBuckets(file_) = Used(fb) /\ fb \in [0 .. K - 1 -> Bucket]
      /\ DOMAIN fb = 0 .. K - 1 /\ IsFiniteSet(Used(fb)) /\ all \in Nat /\ Used(fb) \subseteq 0 .. K - 1
      /\ K \in Nat
  <2>1. bucket_count(file_) = K /\ LiveBuckets(file_) = Used(fb) /\ fb \in [0 .. K - 1 -> Bucket]
    BY TableIs
  <2> HIDE DEF fb
  <2>2. DOMAIN fb = 0 .. K - 1 /\ IsFiniteSet(Used(fb)) /\ Used(fb) \subseteq 0 .. K - 1
        /\ Cardinality(Used(fb)) \in Nat /\ K \in Nat
    BY <2>1, BucketsAre, SizeIs
  <2> QED
    BY <2>1, <2>2
<1>2. CASE items_read = -2
  <2>1. unserialize(t, file_, items_read) = clear(t) /\ ~ends
    BY <1>1, <1>2 DEF unserialize
  <2> QED
    BY <2>1, ClearIs, Weaker
<1>3. CASE items_read = -1
  <2>1. unserialize(t, file_, items_read) = ClearedTo(K) /\ ~ends
    BY <1>1, <1>3 DEF unserialize
  <2> QED
    BY <2>1, ClearedIs
<1>4. CASE items_read \in 0 .. all
  <2> DEFINE read == {b \in LiveBuckets(file_) : Cardinality({c \in LiveBuckets(file_) : c < b}) < items_read}
             bk == [b \in 0 .. K - 1 |-> IF b \in read THEN fb[b] ELSE EmptyBuckets(K)[b]]
             r == unserialize(t, file_, items_read)
  <2>1. r = [ClearedTo(K) EXCEPT !.buckets = [b \in DOMAIN @ |-> IF b \in read THEN fb[b] ELSE @[b]],
                                 !.num_elements = file_.num_elements]
    BY <1>1, <1>4 DEF unserialize
  <2>2. read \subseteq Used(fb)
    BY <1>1
  <2>3. ends => read = Used(fb)
    <3> SUFFICES ASSUME ends, NEW b \in Used(fb)
                 PROVE  Cardinality({c \in Used(fb) : c < b}) < all
      BY <1>1, <2>2
    <3> DEFINE low == {c \in Used(fb) : c < b}
    <3>1. low \subseteq Used(fb) \ {b} /\ b \in Nat
      BY <1>1
    <3>2. IsFiniteSet(Used(fb) \ {b}) /\ Cardinality(Used(fb) \ {b}) = Cardinality(Used(fb)) - 1
      BY <1>1, FS_RemoveElement
    <3> HIDE DEF low
    <3>3. Cardinality(low) <= Cardinality(Used(fb) \ {b}) /\ Cardinality(low) \in Nat
      BY <3>1, <3>2, FS_Subset, FS_CardinalityType
    <3> QED
      BY <1>1, <3>2, <3>3 DEF low
  <2> HIDE DEF read
  <2>4. /\ r = [buckets |-> bk, num_elements |-> file_.num_elements, num_deleted |-> 0, consider_shrink |-> FALSE]
        /\ DOMAIN EmptyBuckets(K) = 0 .. K - 1
        /\ \A b \in 0 .. K - 1 : EmptyBuckets(K)[b].key = EMPTY_KEY /\ EmptyBuckets(K)[b] \in Bucket
    <3>1. /\ DOMAIN EmptyBuckets(K) = 0 .. K - 1
          /\ \A b \in 0 .. K - 1 : EmptyBuckets(K)[b].key = EMPTY_KEY /\ EmptyBuckets(K)[b] \in Bucket
      BY KeysDiffer DEF EmptyBuckets, Bucket
    <3>2. bk = [b \in DOMAIN EmptyBuckets(K) |-> IF b \in read THEN fb[b] ELSE EmptyBuckets(K)[b]]
      BY <3>1
    <3> HIDE DEF bk, r
    <3>3. r = [ClearedTo(K) EXCEPT !.buckets = bk, !.num_elements = file_.num_elements]
      BY <2>1, <3>2 DEF ClearedTo
    <3>4. r = [buckets |-> bk, num_elements |-> file_.num_elements, num_deleted |-> 0, consider_shrink |-> FALSE]
      BY <3>3 DEF ClearedTo
    <3> QED
      BY <3>1, <3>4
  <2>5. bk \in [0 .. K - 1 -> Bucket]
    BY <1>1, <2>4
  <2>6. \A b \in 0 .. K - 1 : bk[b].key = IF b \in read THEN fb[b].key ELSE EMPTY_KEY
    BY <2>4
  <2>7. r.buckets = bk /\ r.num_elements = file_.num_elements /\ r.num_deleted = 0 /\ r.consider_shrink = FALSE
    BY <2>4
  <2> HIDE DEF bk, r
  <2>8. Used(bk) = read /\ NonEmpty(bk) = read /\ Deleted(bk) = {}
    BY <1>1, <2>2, <2>5, <2>6, KeysDiffer DEF Used, NonEmpty, Deleted
  <2>9. /\ Cardinality(read) <= Cardinality(Used(fb)) /\ Cardinality(Used(fb)) \in Nat /\ Cardinality(read) \in Nat
    BY <1>1, <2>2, FS_Subset, FS_CardinalityType
  <2>10. /\ file_.num_elements \in Nat /\ file_.num_elements = Cardinality(NonEmpty(fb))
         /\ file_.num_elements <= enlarge_size(K) /\ Cardinality(Deleted(fb)) = 0
         /\ IsPlaced(fb, K)
    BY TableIs DEF Good
  <2>11. Deleted(fb) = {} /\ NonEmpty(fb) = Used(fb)
    <3> HIDE DEF fb
    <3>1. IsFiniteSet(Deleted(fb)) /\ NonEmpty(fb) = Used(fb) \union Deleted(fb)
      BY <1>1, BucketsAre
    <3>2. Deleted(fb) = {}
      BY <2>10, <3>1, FS_EmptySet
    <3> QED
      BY <3>1, <3>2
  <2>12. r \in Table(K)
    <3> DEFINE n == file_.num_elements
    <3>1. r = [buckets |-> bk, num_elements |-> n, num_deleted |-> 0, consider_shrink |-> FALSE] /\ n \in Nat
      BY <2>4, <2>10
    <3> HIDE DEF n
    <3> QED
      BY <2>5, <3>1 DEF Table
  <2>13. ends => IsPlaced(bk, K)
    <3> SUFFICES ASSUME read = Used(fb) PROVE IsPlaced(bk, K)
      BY <2>3
    <3>1. \A b \in 0 .. K - 1 : bk[b].key = fb[b].key
      <4>1. \A b \in 0 .. K - 1 : b \notin Used(fb) => fb[b].key = EMPTY_KEY
        BY <1>1, <2>11 DEF NonEmpty
      <4> QED
        BY <2>6, <4>1
    <3>2. ASSUME NEW b \in Used(fb)
          PROVE  Leads(bk, K, bk[b].key, b)
      <4>1. bk[b].key = fb[b].key /\ fb[b].key \in DOMAIN hash /\ Leads(fb, K, fb[b].key, b)
        BY <1>1, <2>10, <3>1 DEF Used, IsPlaced
      <4>2. \A m \in Nat : bk[Probe(fb[b].key, m, K)].key = fb[Probe(fb[b].key, m, K)].key
        BY <3>1, <4>1, ProbeIs
      <4> QED
        BY <4>1, <4>2 DEF Leads
    <3>3. \A b, c \in Used(fb) : bk[b].key = bk[c].key => b = c
      BY <1>1, <2>10, <3>1 DEF IsPlaced
    <3> QED
      BY <2>8, <3>2, <3>3 DEF IsPlaced
  <2>14. Good(r, K, ends)
    <3>1. r.num_deleted = Cardinality(Deleted(r.buckets))
      BY <2>7, <2>8, FS_EmptySet
    <3>2. Cardinality(NonEmpty(r.buckets)) <= r.num_elements /\ r.num_elements <= enlarge_size(K)
      BY <2>7, <2>8, <2>9, <2>10, <2>11
    <3>3. ends => r.num_elements = Cardinality(NonEmpty(r.buckets))
      BY <2>3, <2>7, <2>8, <2>10, <2>11
    <3>4. ends => IsPlaced(r.buckets, K)
      BY <2>7, <2>13
    <3> QED
      BY <2>12, <3>1, <3>2, <3>3, <3>4 DEF Good
  <2>15. ends => Items(r.buckets) = Items(fb)
    <3> SUFFICES ASSUME read = Used(fb) PROVE Items(bk) = Items(fb)
      BY <2>3, <2>7
    <3>1. \A b \in Used(fb) : bk[b] = fb[b]
      BY <1>1 DEF bk
    <3> QED
      BY <2>8, <3>1 DEF Items
  <2> QED
    BY <2>14, <2>15 DEF r
<1> QED
  <2>1. items_read = -2 \/ items_read = -1 \/ items_read \in 0 .. all
    BY <1>1
  <2> QED
    BY <1>2, <1>3, <1>4, <2>1

-----------------------------------------------------------------------------
(***************************************************************************)
(* The invariant of the counters. The file that kept may be has no more    *)
(* items than a table of the model.                                        *)
(***************************************************************************)
AreGood(t, full, u) ==
  /\ \E N \in PowersOfTwo : N <= MaxBuckets /\ Good(t, N, full)
  /\ \E N \in PowersOfTwo : Good(u, N, TRUE) /\ Cardinality(Used(u.buckets)) <= MaxBuckets

CountersInv == hash \in HashFunctions /\ complete \in BOOLEAN /\ AreGood(ht, complete, kept)

LEMMA InitIsGood == ASSUME InitTable PROVE CountersInv
<1> DEFINE D == HT_DEFAULT_STARTING_BUCKETS
<1>1. D \in PowersOfTwo /\ D <= MaxBuckets /\ MaxBuckets \in Nat
  BY TableAssumption, SizeAssumption
<1>2. hash \in HashFunctions /\ complete = TRUE /\ ht = ClearedTo(D) /\ kept = ClearedTo(D)
  BY DEF InitTable
<1> HIDE DEF D
<1>3. Good(ClearedTo(D), D, TRUE)
  BY <1>1, <1>2, ClearedIs
<1>4. Cardinality(Used(ClearedTo(D).buckets)) <= MaxBuckets
  <2>1. Used(ClearedTo(D).buckets) = {}
    BY <1>1, <1>2, ClearedIs DEF ClearedTo
  <2>2. Cardinality(Used(ClearedTo(D).buckets)) = 0
    BY <2>1, FS_EmptySet
  <2> QED
    BY <1>1, <2>2
<1> QED
  BY <1>1, <1>2, <1>3, <1>4 DEF CountersInv, AreGood

\* What of the two tables has changed, and is good.
LEMMA TableChanges ==
  ASSUME CountersInv, kept' = kept, bucket_count(ht') <= MaxBuckets,
         \E M \in PowersOfTwo : Good(ht', M, complete')
  PROVE  AreGood(ht', complete', kept')
  BY TableIs DEF CountersInv, AreGood

LEMMA FewItems ==
  ASSUME hash \in HashFunctions, NEW N \in PowersOfTwo, NEW full, NEW t, Good(t, N, full), N <= MaxBuckets
  PROVE  size(t) <= 2 * MaxBuckets /\ Cardinality(Used(t.buckets)) <= MaxBuckets
<1>1. /\ size(t) \in Nat /\ size(t) <= t.num_elements /\ t.num_elements < N /\ t.num_elements \in Nat
      /\ Cardinality(Used(t.buckets)) <= size(t) /\ Cardinality(Used(t.buckets)) \in Nat
  BY TableIs, BucketsAre
<1>2. N \in Nat /\ MaxBuckets \in Nat
  BY SizeIs, SizeAssumption
<1> QED
  BY <1>1, <1>2

LEMMA CountIsGood ==
  ASSUME CountersInv, NEW k \in DOMAIN hash, Count(k)
  PROVE  \E M \in PowersOfTwo : Good(ht', M, complete')
<1> DEFINE t == find_or_insert(ht, k)
           b == find_position(t, k).bucket
           v == t.buckets[b].value + 1
<1>1. hash \in HashFunctions /\ complete' = complete
  BY DEF CountersInv, Count
<1>2. PICK M \in PowersOfTwo : Good(t, M, complete)
  BY FindOrInsertIs DEF CountersInv, AreGood
<1> HIDE DEF t
<1>3. b \in 0 .. M - 1 /\ t.buckets \in [0 .. M - 1 -> Bucket]
  BY <1>1, <1>2, SearchIs, TableIs
<1>4. t.buckets[b].value < MaxValue /\ ht' = [t EXCEPT !.buckets[b].value = v]
  BY DEF Count, t
<1> HIDE DEF b
<1>5. v \in Values
  <2>1. t.buckets[b].value \in Values
    BY <1>3 DEF Bucket
  <2> QED
    BY <1>4, <2>1, TableAssumption DEF Values
<1> HIDE DEF v
<1>6. Good(ht', M, complete)
  BY <1>1, <1>2, <1>3, <1>4, <1>5, RecountedIs DEF HasValue
<1> QED
  BY <1>1, <1>6

LEMMA MadePatient ==
  ASSUME hash \in HashFunctions, NEW N \in PowersOfTwo, NEW t, Good(t, N, TRUE)
  PROVE  LET s == [t EXCEPT !.consider_shrink = FALSE] IN Good(s, N, TRUE) /\ s.buckets = t.buckets
<1> DEFINE s == [t EXCEPT !.consider_shrink = FALSE]
<1>1. /\ s.buckets = t.buckets /\ s.num_elements = t.num_elements /\ s.num_deleted = t.num_deleted
      /\ s \in Table(N)
  BY DEF Good, Table
<1> HIDE DEF s
<1>2. Good(s, N, TRUE)
  BY <1>1 DEF Good
<1> QED
  BY <1>1, <1>2 DEF s

LEMMA StepIsGood ==
  ASSUME CountersInv, NextTable
  PROVE  hash' = hash /\ complete' \in BOOLEAN /\ AreGood(ht', complete', kept')
<1>1. hash \in HashFunctions /\ complete \in BOOLEAN /\ hash' = hash /\ bucket_count(ht') <= MaxBuckets
  BY DEF CountersInv, NextTable, Step, Count, Insert, Erase, EraseAt, EraseRange, Swap, Clear, ClearNoResize,
         SetDeletedKey, Resize, Copy, Assign, InsertRange, Serialize, Unserialize
<1>2. PICK N \in PowersOfTwo : N <= MaxBuckets /\ Good(ht, N, complete)
  BY DEF CountersInv, AreGood
<1>3. PICK K \in PowersOfTwo : Good(kept, K, TRUE) /\ Cardinality(Used(kept.buckets)) <= MaxBuckets
  BY DEF CountersInv, AreGood
<1>4. LiveBuckets(ht) = Used(ht.buckets) /\ LiveBuckets(kept) = Used(kept.buckets)
  BY <1>1, <1>2, <1>3, TableIs
<1>5. size(ht) <= 2 * MaxBuckets /\ Cardinality(Used(ht.buckets)) <= MaxBuckets
  BY <1>1, <1>2, FewItems
<1>6. ASSUME kept' = kept, complete' \in BOOLEAN, \E M \in PowersOfTwo : Good(ht', M, complete')
      PROVE  hash' = hash /\ complete' \in BOOLEAN /\ AreGood(ht', complete', kept')
  BY <1>1, <1>6, TableChanges
<1>7. ASSUME NEW k \in DOMAIN hash, Count(k)
      PROVE  \E M \in PowersOfTwo : Good(ht', M, complete')
  BY <1>7, CountIsGood
<1>8. ASSUME NEW k \in DOMAIN hash, Insert(k)
      PROVE  \E M \in PowersOfTwo : Good(ht', M, complete')
  <2>1. MaxValue \in Values
    BY TableAssumption DEF Values
  <2> QED
    BY <1>1, <1>2, <1>8, <2>1, InsertIs DEF Insert
<1>9. ASSUME NEW k \in DOMAIN hash, Erase(k)
      PROVE  \E M \in PowersOfTwo : Good(ht', M, complete')
  BY <1>1, <1>2, <1>9, EraseIs DEF Erase
<1>10. ASSUME NEW b \in LiveBuckets(ht), EraseAt(b)
       PROVE  \E M \in PowersOfTwo : Good(ht', M, complete')
  BY <1>1, <1>2, <1>4, <1>10, SetDeletedIs DEF EraseAt
<1>11. ASSUME EraseRange PROVE \E M \in PowersOfTwo : Good(ht', M, complete')
  <2>1. PICK f, l : ht' = erase_range(ht, f, l)
    BY <1>11 DEF EraseRange
  <2>2. complete' = complete
    BY <1>11 DEF EraseRange
  <2> QED
    BY <1>1, <1>2, <2>1, <2>2, EraseRangeIs
<1>12. ASSUME Clear PROVE \E M \in PowersOfTwo : Good(ht', M, complete')
  BY <1>1, <1>2, <1>12, ClearIs DEF Clear
<1>13. ASSUME ClearNoResize PROVE \E M \in PowersOfTwo : Good(ht', M, complete')
  <2>1. ht' = ClearedTo(N)
    BY <1>1, <1>2, <1>13, TableIs DEF ClearNoResize, clear_no_resize
  <2> QED
    BY <1>1, <2>1, ClearedIs
<1>14. ASSUME SetDeletedKey PROVE \E M \in PowersOfTwo : Good(ht', M, complete')
  BY <1>1, <1>2, <1>14, SquashedIs DEF SetDeletedKey
<1>15. ASSUME NEW n \in {0, HT_MIN_BUCKETS}, Resize(n)
       PROVE  \E M \in PowersOfTwo : Good(ht', M, complete')
  <2>1. n \in 0 .. HT_MIN_BUCKETS
    BY TableAssumption
  <2> QED
    BY <1>1, <1>2, <1>15, <2>1, ResizeIs DEF Resize
<1>16. ASSUME Assign PROVE \E M \in PowersOfTwo : Good(ht', M, complete')
  <2>1. size(kept) <= 2 * MaxBuckets
    <3>1. size(kept) = Cardinality(Used(kept.buckets)) /\ size(kept) \in Nat /\ MaxBuckets \in Nat
      BY <1>1, <1>3, TableIs, SizeAssumption
    <3> QED
      BY <1>3, <3>1
  <2>2. \E M \in PowersOfTwo : Good(copy_from(kept, HT_MIN_BUCKETS), M, TRUE)
    BY <1>1, <1>3, <2>1, CopyIs
  <2> QED
    BY <1>16, <2>2 DEF Assign
<1>17. ASSUME InsertRange PROVE \E M \in PowersOfTwo : Good(ht', M, complete')
  BY <1>1, <1>2, <1>3, <1>17, InsertRangeIs DEF InsertRange
<1>18. ASSUME Unserialize PROVE \E M \in PowersOfTwo : Good(ht', M, complete')
  <2>1. PICK items_read \in -2 .. Cardinality(LiveBuckets(kept)) :
           /\ ht' = unserialize(ht, kept, items_read)
           /\ complete' = (items_read = Cardinality(LiveBuckets(kept)))
    BY <1>18 DEF Unserialize
  <2>2. kept.num_deleted = 0
    BY <1>18 DEF Unserialize
  <2>3. (complete' <=> items_read = Cardinality(LiveBuckets(kept))) /\ Whole(kept, K)
    BY <1>3, <2>1 DEF Whole
  <2> QED
    BY <1>1, <1>2, <2>1, <2>2, <2>3, UnserializedIs
<1>19. ASSUME Swap PROVE complete' \in BOOLEAN /\ AreGood(ht', complete', kept')
  <2>1. /\ complete = TRUE /\ complete' = complete
        /\ ht' = [kept EXCEPT !.consider_shrink = FALSE] /\ kept' = [ht EXCEPT !.consider_shrink = FALSE]
    BY <1>1, <1>19 DEF Swap, MayCopy
  <2>2. Good(ht', K, TRUE) /\ bucket_count(ht') = K
    BY <1>1, <1>3, <2>1, PatientIs
  <2>3. Good(ht, N, TRUE)
    BY <1>2, <2>1
  <2>4. Good(kept', N, TRUE) /\ kept'.buckets = ht.buckets
    BY <1>1, <2>1, <2>3, MadePatient
  <2> QED
    BY <1>1, <1>5, <2>1, <2>2, <2>4 DEF AreGood
<1>20. ASSUME Copy PROVE complete' \in BOOLEAN /\ AreGood(ht', complete', kept')
  <2>1. /\ complete = TRUE /\ complete' = complete /\ ht' = ht
        /\ kept' = copy_from(ht, HT_DEFAULT_STARTING_BUCKETS)
    BY <1>1, <1>20 DEF Copy, MayCopy
  <2>2. PICK M \in PowersOfTwo : Good(kept', M, TRUE) /\ IsCopied(kept', ht, M)
    BY <1>1, <1>2, <1>5, <2>1, CopyIs
  <2>3. Cardinality(Used(kept'.buckets)) <= MaxBuckets
    BY <1>5, <2>2 DEF IsCopied
  <2> QED
    BY <1>2, <2>1, <2>2, <2>3 DEF AreGood
<1>21. ASSUME Serialize PROVE complete' \in BOOLEAN /\ AreGood(ht', complete', kept')
  <2>1. /\ complete = TRUE /\ complete' = complete /\ ht' = squash_deleted(ht)
        /\ kept' = [ht' EXCEPT !.consider_shrink = FALSE]
    BY <1>1, <1>21 DEF Serialize, MayCopy
  <2>2. PICK M \in PowersOfTwo : /\ Good(ht', M, TRUE)
                                 /\ Cardinality(Used(ht'.buckets)) = Cardinality(Used(ht.buckets))
    BY <1>1, <1>2, <2>1, SquashedIs
  <2>3. bucket_count(ht') = M
    BY <1>1, <2>2, TableIs
  <2> DEFINE t == ht'
             s == kept'
  <2>4. Good(t, M, TRUE) /\ s = [t EXCEPT !.consider_shrink = FALSE]
    BY <2>1, <2>2
  <2> HIDE DEF t, s
  <2>5. Good(s, M, TRUE) /\ s.buckets = t.buckets
    BY <1>1, <2>4, MadePatient
  <2>6. Good(kept', M, TRUE) /\ Cardinality(Used(kept'.buckets)) <= MaxBuckets
    BY <1>5, <2>2, <2>5 DEF t, s
  <2> QED
    BY <1>1, <2>1, <2>2, <2>3, <2>6 DEF AreGood
<1>22. CASE \E k \in DOMAIN hash : Count(k) \/ Insert(k) \/ Erase(k)
  BY <1>1, <1>6, <1>7, <1>8, <1>9, <1>22 DEF Count, Insert, Erase
<1>23. CASE \E b \in LiveBuckets(ht) : EraseAt(b)
  BY <1>1, <1>6, <1>10, <1>23 DEF EraseAt
<1>24. CASE \E n \in {0, HT_MIN_BUCKETS} : Resize(n)
  BY <1>1, <1>6, <1>15, <1>24 DEF Resize
<1>25. CASE EraseRange \/ Clear \/ ClearNoResize \/ SetDeletedKey \/ Assign \/ InsertRange
  <2>1. kept' = kept /\ complete' \in BOOLEAN
    BY <1>1, <1>25 DEF EraseRange, Clear, ClearNoResize, SetDeletedKey, Assign, InsertRange
  <2> QED
    BY <1>6, <1>11, <1>12, <1>13, <1>14, <1>16, <1>17, <1>25, <2>1
<1>26. CASE Unserialize
  <2>1. kept' = kept /\ complete' \in BOOLEAN
    BY <1>26 DEF Unserialize
  <2> QED
    BY <1>6, <1>18, <1>26, <2>1
<1>27. CASE Swap \/ Copy \/ Serialize
  BY <1>1, <1>19, <1>20, <1>21, <1>27
<1> QED
  BY <1>22, <1>23, <1>24, <1>25, <1>26, <1>27 DEF NextTable, Step

-----------------------------------------------------------------------------
(***************************************************************************)
(* What a good table says of its items.                                    *)
(***************************************************************************)
LEMMA ItemsAre ==
  ASSUME hash \in HashFunctions, NEW N \in PowersOfTwo, NEW t, Good(t, N, TRUE)
  PROVE  /\ LiveBuckets(t) = Used(t.buckets) /\ IsFiniteSet(Used(t.buckets)) /\ Used(t.buckets) \subseteq 0 .. N - 1
         /\ size(t) = Cardinality(Used(t.buckets)) /\ bucket_count(t) = N /\ N \in Nat \ {0}
         /\ \A b \in Used(t.buckets) : t.buckets[b].key \in DOMAIN hash
         /\ \A b, c \in Used(t.buckets) : t.buckets[b].key = t.buckets[c].key => b = c
<1>1. /\ LiveBuckets(t) = Used(t.buckets) /\ t.buckets \in [0 .. N - 1 -> Bucket] /\ bucket_count(t) = N
      /\ size(t) = Cardinality(Used(t.buckets))
  BY TableIs
<1>2. IsFiniteSet(Used(t.buckets)) /\ Used(t.buckets) \subseteq 0 .. N - 1
  BY <1>1, BucketsAre
<1>3. /\ \A b \in Used(t.buckets) : t.buckets[b].key \in DOMAIN hash
      /\ \A b, c \in Used(t.buckets) : t.buckets[b].key = t.buckets[c].key => b = c
  BY DEF Used, Good, IsPlaced
<1> QED
  BY <1>1, <1>2, <1>3, SizeIs

LEMMA SearchOf ==
  ASSUME hash \in HashFunctions, NEW N \in PowersOfTwo, NEW t, Good(t, N, TRUE), NEW k \in DOMAIN hash,
         NEW pos, pos = find_position(t, k)
  PROVE  /\ pos = [found |-> pos.found, bucket |-> pos.bucket] /\ pos.found \in BOOLEAN
         /\ pos.found => pos.bucket \in Used(t.buckets) /\ t.buckets[pos.bucket].key = k
         /\ ~pos.found => HasNo(t.buckets, k)
<1> DEFINE full == TRUE
           bk == t.buckets
<1>1. Good(t, N, full) /\ full /\ bk = t.buckets
  OBVIOUS
<1> HIDE DEF full, bk
<1>2. pos.found \in BOOLEAN
  BY DEF find_position
<1>3. ASSUME pos.found PROVE pos.bucket \in Used(bk) /\ bk[pos.bucket].key = k
  <2>1. pos.bucket \in Used(bk)
    BY <1>1, <1>3, SearchIs
  <2>2. bk[pos.bucket].key = k
    BY <1>1, <1>3 DEF find_position
  <2> QED
    BY <2>1, <2>2
<1>4. pos = [found |-> pos.found, bucket |-> pos.bucket]
  BY DEF find_position
<1>5. ~pos.found => (full => HasNo(bk, k))
  BY <1>1, SearchIs
<1>6. ~pos.found => HasNo(bk, k)
  BY <1>1, <1>5
<1> QED
  BY <1>1, <1>2, <1>3, <1>4, <1>6

\* A key is found where its item is, and if it has none not at all.
LEMMA KeyIsFound ==
  ASSUME hash \in HashFunctions, NEW N \in PowersOfTwo, NEW t, Good(t, N, TRUE), NEW b \in Used(t.buckets)
  PROVE  find_position(t, t.buckets[b].key) = [found |-> TRUE, bucket |-> b]
<1> DEFINE bk == t.buckets
           k == t.buckets[b].key
           pos == find_position(t, k)
<1>1. k \in DOMAIN hash
  BY ItemsAre
<1> HIDE DEF pos
<1>2. /\ pos = [found |-> pos.found, bucket |-> pos.bucket] /\ pos.found \in BOOLEAN
      /\ pos.found => pos.bucket \in Used(t.buckets) /\ t.buckets[pos.bucket].key = k
      /\ ~pos.found => HasNo(t.buckets, k)
  BY <1>1, SearchOf DEF pos
<1>3. ~HasNo(t.buckets, k)
  BY DEF HasNo
<1>4. pos.found = TRUE /\ pos.bucket = b
  BY <1>2, <1>3, ItemsAre
<1>5. pos = [found |-> TRUE, bucket |-> b]
  BY <1>2, <1>4
<1> QED
  BY <1>5 DEF pos

LEMMA KeyIsNotFound ==
  ASSUME hash \in HashFunctions, NEW N \in PowersOfTwo, NEW t, Good(t, N, TRUE), NEW k \in DOMAIN hash,
         HasNo(t.buckets, k)
  PROVE  find_position(t, k).found = FALSE
<1> DEFINE pos == find_position(t, k)
<1> HIDE DEF pos
<1>1. /\ pos = [found |-> pos.found, bucket |-> pos.bucket] /\ pos.found \in BOOLEAN
      /\ pos.found => pos.bucket \in Used(t.buckets) /\ t.buckets[pos.bucket].key = k
      /\ ~pos.found => HasNo(t.buckets, k)
  BY SearchOf DEF pos
<1>2. pos.found = FALSE
  BY <1>1 DEF HasNo
<1> QED
  BY <1>2 DEF pos

LEMMA ContentsAre ==
  ASSUME hash \in HashFunctions, NEW N \in PowersOfTwo, NEW t, Good(t, N, TRUE)
  PROVE  /\ DOMAIN Contents(t) = {t.buckets[b].key : b \in Used(t.buckets)}
         /\ \A b \in Used(t.buckets) : Contents(t)[t.buckets[b].key] = t.buckets[b].value
         /\ \A k \in DOMAIN hash : k \in DOMAIN Contents(t) <=> ~HasNo(t.buckets, k)
         /\ IsFiniteSet(DOMAIN Contents(t)) /\ Cardinality(DOMAIN Contents(t)) = size(t)
<1> DEFINE bk == t.buckets
           items == {bk[b] : b \in Used(bk)}
           keys == {bk[b].key : b \in Used(bk)}
           f == [b \in Used(bk) |-> bk[b].key]
<1>1. LiveBuckets(t) = Used(bk) /\ (\A b, c \in Used(bk) : bk[b].key = bk[c].key => b = c)
      /\ IsFiniteSet(Used(bk)) /\ size(t) = Cardinality(Used(bk))
  BY ItemsAre
<1>2. Contents(t) = [k \in {i.key : i \in items} |-> (CHOOSE i \in items : i.key = k).value]
  BY <1>1 DEF Contents
<1>3. {i.key : i \in items} = keys
  OBVIOUS
<1>4. DOMAIN Contents(t) = keys
  BY <1>2, <1>3
<1>5. \A b \in Used(bk) : Contents(t)[bk[b].key] = bk[b].value
  <2> TAKE b \in Used(bk)
  <2> DEFINE i0 == CHOOSE i \in items : i.key = bk[b].key
  <2>1. bk[b] \in items /\ bk[b].key \in keys
    OBVIOUS
  <2>2. i0 \in items /\ i0.key = bk[b].key
    BY <2>1
  <2>3. PICK c \in Used(bk) : i0 = bk[c]
    BY <2>2
  <2>4. i0 = bk[b]
    BY <1>1, <2>2, <2>3
  <2>5. Contents(t)[bk[b].key] = i0.value
    BY <1>2, <1>3, <2>1
  <2> QED
    BY <2>4, <2>5
<1>6. \A k \in DOMAIN hash : k \in keys <=> ~HasNo(bk, k)
  BY DEF HasNo
<1>7. f \in Bijection(Used(bk), keys)
  <2>1. f \in [Used(bk) -> keys] /\ \A k \in keys : \E b \in Used(bk) : f[b] = k
    OBVIOUS
  <2>2. \A b, c \in Used(bk) : f[b] = f[c] => b = c
    BY <1>1
  <2> QED
    BY <2>1, <2>2 DEF Bijection, Injection, Surjection, IsInjective
<1> HIDE DEF keys
<1>8. IsFiniteSet(keys) /\ Cardinality(keys) = Cardinality(Used(bk))
  BY <1>1, <1>7, FS_Bijection DEF ExistsBijection
<1> QED
  BY <1>1, <1>4, <1>5, <1>6, <1>8 DEF keys

LEMMA RangeIs ==
  ASSUME hash \in HashFunctions, NEW N \in PowersOfTwo, NEW t, Good(t, N, TRUE), NEW k \in DOMAIN hash
  PROVE  {t.buckets[b].key : b \in LiveBuckets(t) \cap (equal_range(t, k)[1] .. equal_range(t, k)[2] - 1)}
           = {k} \cap DOMAIN Contents(t)
<1> DEFINE bk == t.buckets
<1>1. /\ LiveBuckets(t) = Used(bk) /\ IsFiniteSet(Used(bk)) /\ Used(bk) \subseteq 0 .. N - 1
      /\ size(t) = Cardinality(Used(bk)) /\ bucket_count(t) = N /\ N \in Nat
  BY ItemsAre
<1>2. k \in DOMAIN Contents(t) <=> ~HasNo(bk, k)
  BY ContentsAre
<1>3. CASE HasNo(bk, k)
  <2>1. ~Found(t, k)
    BY <1>3, KeyIsNotFound DEF Found
  <2>2. equal_range(t, k) = <<N, N>>
    BY <1>1, <2>1 DEF equal_range
  <2>3. N .. N - 1 = {}
    BY <1>1
  <2> QED
    BY <1>2, <1>3, <2>2, <2>3
<1>4. CASE ~HasNo(bk, k)
  <2>1. PICK b \in Used(bk) : bk[b].key = k
    BY <1>4 DEF HasNo
  <2>2. find_position(t, k) = [found |-> TRUE, bucket |-> b]
    BY <2>1, KeyIsFound
  <2>3. Found(t, k)
    <3>1. Cardinality(Used(bk)) # 0
      BY <1>1, <2>1, FS_EmptySet
    <3> QED
      BY <1>1, <2>2, <3>1 DEF Found
  <2> DEFINE after == {c \in Used(bk) : c > b} \union {N}
  <2>4. equal_range(t, k) = <<b, Min(after)>>
    BY <1>1, <2>2, <2>3 DEF equal_range
  <2>5. Min(after) \in after /\ \A c \in after : Min(after) <= c
    <3>1. after \in SUBSET Nat /\ after # {}
      BY <1>1
    <3> HIDE DEF after
    <3> QED
      BY <3>1, LeastExists
  <2>6. Used(bk) \cap (b .. Min(after) - 1) = {b}
    <3> DEFINE m == Min(after)
    <3>1. m \in Nat /\ b < m /\ b \in Nat /\ \A c \in Used(bk) : c \in Nat /\ (c > b => m <= c)
      BY <1>1, <2>5
    <3> HIDE DEF m
    <3>2. \A c \in Used(bk) : c \in b .. m - 1 <=> c = b
      BY <3>1
    <3>3. Used(bk) \cap (b .. m - 1) = {b}
      BY <3>2
    <3> QED
      BY <3>3 DEF m
  <2> HIDE DEF after
  <2>7. LiveBuckets(t) \cap (equal_range(t, k)[1] .. equal_range(t, k)[2] - 1) = {b}
    BY <1>1, <2>4, <2>6
  <2> QED
    BY <1>2, <1>4, <2>1, <2>7
<1> QED
  BY <1>3, <1>4

LEMMA TableIsInPlace ==
  ASSUME hash \in HashFunctions, NEW N \in PowersOfTwo, NEW t, Good(t, N, TRUE)
  PROVE  ItemsAreFound(t) /\ CountersAreExact(t)
<1>1. LiveBuckets(t) = Used(t.buckets) /\ size(t) = Cardinality(Used(t.buckets))
  BY ItemsAre
<1>2. \A b \in LiveBuckets(t) : find_position(t, t.buckets[b].key) = [found |-> TRUE, bucket |-> b]
  BY <1>1, KeyIsFound
<1>3. \A k \in DOMAIN hash \ DOMAIN Contents(t) : count(t, k) = 0
  BY ContentsAre, KeyIsNotFound DEF count
<1>4. \A k \in DOMAIN hash :
        {t.buckets[b].key : b \in LiveBuckets(t) \cap (equal_range(t, k)[1] .. equal_range(t, k)[2] - 1)}
          = {k} \cap DOMAIN Contents(t)
  BY RangeIs
<1>5. t.num_deleted = Cardinality({b \in DOMAIN t.buckets : t.buckets[b].key = DELETED_KEY})
  BY DEF Good, Deleted
<1> QED
  BY <1>1, <1>2, <1>3, <1>4, <1>5 DEF ItemsAreFound, CountersAreExact

\* operator== compares the maps.
LEMMA EqualIs ==
  ASSUME hash \in HashFunctions, NEW N \in PowersOfTwo, NEW t, Good(t, N, TRUE),
         NEW M \in PowersOfTwo, NEW u, Good(u, M, TRUE)
  PROVE  operator_equal(t, u) <=> Contents(t) = Contents(u)
<1> DEFINE T == DOMAIN Contents(t)
           U == DOMAIN Contents(u)
<1>1. /\ T = {t.buckets[b].key : b \in Used(t.buckets)} /\ U = {u.buckets[b].key : b \in Used(u.buckets)}
      /\ \A b \in Used(t.buckets) : Contents(t)[t.buckets[b].key] = t.buckets[b].value
      /\ \A b \in Used(u.buckets) : Contents(u)[u.buckets[b].key] = u.buckets[b].value
      /\ IsFiniteSet(T) /\ Cardinality(T) = size(t) /\ IsFiniteSet(U) /\ Cardinality(U) = size(u)
  <2>1. /\ T = {t.buckets[b].key : b \in Used(t.buckets)} /\ IsFiniteSet(T) /\ Cardinality(T) = size(t)
        /\ \A b \in Used(t.buckets) : Contents(t)[t.buckets[b].key] = t.buckets[b].value
    BY ContentsAre
  <2>2. /\ U = {u.buckets[b].key : b \in Used(u.buckets)} /\ IsFiniteSet(U) /\ Cardinality(U) = size(u)
        /\ \A b \in Used(u.buckets) : Contents(u)[u.buckets[b].key] = u.buckets[b].value
    BY ContentsAre
  <2> QED
    BY <2>1, <2>2
<1>2. LiveBuckets(t) = Used(t.buckets) /\ \A b \in Used(t.buckets) : t.buckets[b].key \in DOMAIN hash
  BY ItemsAre
<1>3. \A k \in DOMAIN hash : k \in U <=> ~HasNo(u.buckets, k)
  BY ContentsAre
<1>4. \A k \in DOMAIN hash : Found(u, k) <=> k \in U
  <2> TAKE k \in DOMAIN hash
  <2>1. CASE HasNo(u.buckets, k)
    BY <1>3, <2>1, KeyIsNotFound DEF Found
  <2>2. CASE ~HasNo(u.buckets, k)
    <3>1. PICK b \in Used(u.buckets) : u.buckets[b].key = k
      BY <2>2 DEF HasNo
    <3>2. find_position(u, k) = [found |-> TRUE, bucket |-> b]
      BY <3>1, KeyIsFound
    <3>3. k \in U
      BY <1>3, <2>2
    <3>4. size(u) # 0
      BY <1>1, <3>3, FS_EmptySet
    <3> QED
      BY <3>2, <3>3, <3>4 DEF Found
  <2> QED
    BY <2>1, <2>2
<1>5. \A k \in DOMAIN hash : k \in U => Lookup(u, k) = Contents(u)[k]
  <2> SUFFICES ASSUME NEW k \in DOMAIN hash, k \in U PROVE Lookup(u, k) = Contents(u)[k]
    OBVIOUS
  <2>1. PICK b \in Used(u.buckets) : u.buckets[b].key = k
    BY <1>1
  <2>2. find_position(u, k) = [found |-> TRUE, bucket |-> b]
    BY <2>1, KeyIsFound
  <2> QED
    BY <1>1, <2>1, <2>2 DEF Lookup
<1>6. Contents(t) = [k \in T |-> Contents(t)[k]] /\ Contents(u) = [k \in U |-> Contents(u)[k]]
  BY DEF Contents
<1> HIDE DEF T, U
<1>7. ASSUME operator_equal(t, u) PROVE Contents(t) = Contents(u)
  <2>1. size(t) = size(u) /\ \A b \in Used(t.buckets) :
                    Found(u, t.buckets[b].key) /\ Lookup(u, t.buckets[b].key) = t.buckets[b].value
    BY <1>2, <1>7 DEF operator_equal
  <2>2. T \subseteq U
    BY <1>1, <1>2, <1>4, <2>1
  <2>3. T = U
    <3>1. Cardinality(T) = Cardinality(U)
      BY <1>1, <2>1
    <3> QED
      BY <1>1, <2>2, <3>1, FS_Subset, FS_CardinalityType
  <2>4. \A k \in T : Contents(t)[k] = Contents(u)[k]
    <3> TAKE k \in T
    <3>1. PICK b \in Used(t.buckets) : k = t.buckets[b].key
      BY <1>1
    <3>2. k \in DOMAIN hash /\ k \in U
      BY <1>2, <2>3, <3>1
    <3> QED
      BY <1>1, <1>5, <2>1, <3>1, <3>2
  <2>5. [k \in T |-> Contents(t)[k]] = [k \in U |-> Contents(u)[k]]
    BY <2>3, <2>4
  <2> QED
    BY <1>6, <2>5
<1>8. ASSUME Contents(t) = Contents(u) PROVE operator_equal(t, u)
  <2>1. T = U
    BY <1>8 DEF T, U
  <2>2. size(t) = size(u)
    BY <1>1, <2>1
  <2>3. \A b \in Used(t.buckets) :
          Found(u, t.buckets[b].key) /\ Lookup(u, t.buckets[b].key) = t.buckets[b].value
    <3> TAKE b \in Used(t.buckets)
    <3>1. t.buckets[b].key \in DOMAIN hash /\ t.buckets[b].key \in U
      BY <1>1, <1>2, <2>1
    <3> QED
      BY <1>1, <1>4, <1>5, <1>8, <3>1
  <2> QED
    BY <1>2, <2>2, <2>3 DEF operator_equal
<1> QED
  BY <1>7, <1>8

LEMMA CountersAre ==
  ASSUME CountersInv
  PROVE  /\ \A t \in {ht, kept} : \A k \in DOMAIN hash : SearchEnds(t, k)
         /\ CountersAreInPlace
<1>1. PICK N \in PowersOfTwo : Good(ht, N, complete)
  BY DEF CountersInv, AreGood
<1>2. PICK K \in PowersOfTwo : Good(kept, K, TRUE)
  BY DEF CountersInv, AreGood
<1>3. hash \in HashFunctions
  BY DEF CountersInv
<1>4. \A k \in DOMAIN hash : SearchEnds(ht, k)
  BY <1>1, <1>3, SearchIs
<1>5. \A k \in DOMAIN hash : SearchEnds(kept, k)
  BY <1>2, <1>3, SearchIs
<1>6. ItemsAreFound(kept) /\ CountersAreExact(kept)
  BY <1>2, <1>3, TableIsInPlace
<1>7. ASSUME complete
      PROVE  /\ ItemsAreFound(ht) /\ CountersAreExact(ht)
             /\ operator_equal(ht, kept) = (Contents(ht) = Contents(kept))
  <2>1. complete = TRUE
    BY <1>7 DEF CountersInv
  <2>2. Good(ht, N, TRUE)
    BY <1>1, <2>1
  <2>3. ItemsAreFound(ht) /\ CountersAreExact(ht)
    BY <1>3, <2>2, TableIsInPlace
  <2>4. operator_equal(ht, kept) = (Contents(ht) = Contents(kept))
    <3> DEFINE t == ht
               u == kept
    <3>1. Good(t, N, TRUE) /\ Good(u, K, TRUE)
      BY <1>2, <2>2
    <3> HIDE DEF t, u
    <3>2. operator_equal(t, u) <=> Contents(t) = Contents(u)
      BY <1>3, <3>1, EqualIs
    <3> QED
      BY <3>2 DEF t, u, operator_equal
  <2> QED
    BY <2>3, <2>4
<1> QED
  BY <1>4, <1>5, <1>6, <1>7 DEF CountersAreInPlace

\* What is good stays so as long as the hash function does.
LEMMA SameIsGood ==
  ASSUME hash' = hash
  PROVE  /\ \A t, N, full : Good(t, N, full)' = Good(t, N, full)
         /\ \A bk : Used(bk)' = Used(bk)
<1>1. Bucket' = Bucket
  BY DEF Bucket
<1>2. \A N : Table(N)' = Table(N)
  BY <1>1 DEF Table
<1>3. \A bk : Used(bk)' = Used(bk)
  BY DEF Used
<1>4. \A bk, N, k, b : Leads(bk, N, k, b)' = Leads(bk, N, k, b)
  BY DEF Leads, Probe
<1>5. \A bk, N : IsPlaced(bk, N)' = IsPlaced(bk, N)
  BY <1>3, <1>4 DEF IsPlaced
<1>6. \A t, N, full : Good(t, N, full)' = Good(t, N, full)
  BY <1>2, <1>5 DEF Good, NonEmpty, Deleted
<1> QED
  BY <1>3, <1>6

LEMMA CountersStay ==
  ASSUME CountersInv, NextTable \/ UNCHANGED <<hash, ht, kept, complete>>
  PROVE  CountersInv'
<1>1. hash' = hash /\ complete' \in BOOLEAN /\ AreGood(ht', complete', kept')
  <2>1. CASE NextTable
    BY <2>1, StepIsGood
  <2>2. CASE UNCHANGED <<hash, ht, kept, complete>>
    BY <2>2 DEF CountersInv
  <2> QED
    BY <2>1, <2>2
<1>2. hash \in HashFunctions
  BY DEF CountersInv
<1>3. /\ \A t, N, full : Good(t, N, full)' = Good(t, N, full)
      /\ \A bk : Used(bk)' = Used(bk)
  BY <1>1, SameIsGood
<1>4. hash' \in HashFunctions /\ complete' \in BOOLEAN
  BY <1>1, <1>2
<1>5. AreGood(ht', complete', kept')
  BY <1>1
<1>6. AreGood(ht, complete, kept)'
  BY <1>3, <1>5 DEF AreGood
<1> QED
  BY <1>4, <1>6 DEF CountersInv

-----------------------------------------------------------------------------
(***************************************************************************)
(* The map that a set of items stands for, if no two have the same key.    *)
(***************************************************************************)
KeysIn(I) == {i.key : i \in I}
MapOf(I) == [k \in KeysIn(I) |-> (CHOOSE i \in I : i.key = k).value]
IsMap(I) == \A i, j \in I : i.key = j.key => i = j

LEMMA ContentsOf ==
  ASSUME hash \in HashFunctions, NEW N \in PowersOfTwo, NEW full, NEW t, Good(t, N, full)
  PROVE  Contents(t) = MapOf(Items(t.buckets))
<1>1. LiveBuckets(t) = Used(t.buckets)
  BY TableIs
<1> QED
  BY <1>1 DEF Contents, MapOf, KeysIn, Items

LEMMA ItemsAreMap ==
  ASSUME hash \in HashFunctions, NEW N \in PowersOfTwo, NEW t, Good(t, N, TRUE)
  PROVE  IsMap(Items(t.buckets))
  BY ItemsAre DEF IsMap, Items

LEMMA MapIs ==
  ASSUME NEW I, IsMap(I)
  PROVE  /\ DOMAIN MapOf(I) = KeysIn(I)
         /\ \A i \in I : MapOf(I)[i.key] = i.value
<1>1. DOMAIN MapOf(I) = KeysIn(I)
  BY DEF MapOf
<1>2. \A i \in I : MapOf(I)[i.key] = i.value
  <2> TAKE i \in I
  <2> DEFINE j == CHOOSE j \in I : j.key = i.key
  <2>1. j \in I /\ j.key = i.key
    OBVIOUS
  <2>2. j = i
    BY <2>1 DEF IsMap
  <2>3. i.key \in KeysIn(I)
    BY DEF KeysIn
  <2> QED
    BY <2>2, <2>3 DEF MapOf
<1> QED
  BY <1>1, <1>2

LEMMA IsMapOf ==
  ASSUME NEW I, NEW w, w = [k \in KeysIn(I) |-> w[k]], \A i \in I : w[i.key] = i.value
  PROVE  w = MapOf(I)
<1>1. \A k \in KeysIn(I) : w[k] = (CHOOSE i \in I : i.key = k).value
  <2> TAKE k \in KeysIn(I)
  <2>1. PICK i \in I : i.key = k
    BY DEF KeysIn
  <2>2. (CHOOSE j \in I : j.key = k) \in I /\ (CHOOSE j \in I : j.key = k).key = k
    BY <2>1
  <2> QED
    BY <2>2
<1>2. [k \in KeysIn(I) |-> w[k]] = [k \in KeysIn(I) |-> (CHOOSE i \in I : i.key = k).value]
  BY <1>1
<1> QED
  BY <1>2 DEF MapOf

LEMMA WithIs ==
  ASSUME NEW I, IsMap(I), NEW k, NEW v
  PROVE  MapOf(WithItem(I, k, v)) = With(MapOf(I), k, v) /\ IsMap(WithItem(I, k, v))
<1> DEFINE J == WithItem(I, k, v)
           item == [key |-> k, value |-> v]
           m == MapOf(I)
           w == With(m, k, v)
<1>1. J = (IF \E i \in I : i.key = k THEN I ELSE I \union {item}) /\ item.key = k /\ item.value = v
  BY DEF WithItem
<1>2. DOMAIN m = KeysIn(I) /\ \A i \in I : m[i.key] = i.value
  BY MapIs
<1> HIDE DEF item, J, m
<1>3. IsMap(J) /\ KeysIn(J) = KeysIn(I) \union {k}
  BY <1>1 DEF IsMap, KeysIn
<1>4. w = [j \in KeysIn(I) \union {k} |-> IF j \in KeysIn(I) THEN m[j] ELSE v]
  BY <1>2 DEF With
<1> HIDE DEF w
<1>5. w = [j \in KeysIn(J) |-> w[j]]
  BY <1>3, <1>4
<1>6. \A i \in J : w[i.key] = i.value
  BY <1>1, <1>2, <1>3, <1>4 DEF KeysIn
<1>7. w = MapOf(J)
  BY <1>5, <1>6, IsMapOf
<1> QED
  BY <1>3, <1>7 DEF J, w, m

LEMMA WithoutIs ==
  ASSUME NEW I, IsMap(I), NEW K, NEW J, \A i : i \in J <=> i \in I /\ i.key \notin K
  PROVE  MapOf(J) = Without(MapOf(I), K)
<1> DEFINE m == MapOf(I)
           w == Without(m, K)
<1>1. DOMAIN m = KeysIn(I) /\ \A i \in I : m[i.key] = i.value
  BY MapIs
<1> HIDE DEF m
<1>2. KeysIn(J) = KeysIn(I) \ K
  BY DEF KeysIn
<1>3. w = [k \in KeysIn(J) |-> m[k]]
  BY <1>1, <1>2 DEF Without, Restrict
<1> HIDE DEF w
<1>4. w = [k \in KeysIn(J) |-> w[k]]
  BY <1>3
<1>5. \A i \in J : w[i.key] = i.value
  BY <1>1, <1>2, <1>3 DEF KeysIn
<1>6. w = MapOf(J)
  BY <1>4, <1>5, IsMapOf
<1> QED
  BY <1>6 DEF w, m

LEMMA MergedIs ==
  ASSUME NEW I, IsMap(I), NEW J, IsMap(J)
  PROVE  MapOf(MergedItems(I, J)) = Merged(MapOf(I), MapOf(J))
<1> DEFINE m == MapOf(I)
           n == MapOf(J)
           M == MergedItems(I, J)
           w == Merged(m, n)
<1>1. DOMAIN m = KeysIn(I) /\ \A i \in I : m[i.key] = i.value
  BY MapIs
<1>2. DOMAIN n = KeysIn(J) /\ \A i \in J : n[i.key] = i.value
  BY MapIs
<1>3. M = I \union {j \in J : j.key \notin KeysIn(I)}
  BY DEF MergedItems, KeysIn
<1> HIDE DEF m, n, M
<1>4. KeysIn(M) = KeysIn(I) \union KeysIn(J)
  BY <1>3 DEF KeysIn
<1>5. w = [k \in KeysIn(M) |-> IF k \in KeysIn(I) THEN m[k] ELSE n[k]]
  BY <1>1, <1>2, <1>4 DEF Merged
<1> HIDE DEF w
<1>6. w = [k \in KeysIn(M) |-> w[k]]
  BY <1>5
<1>7. \A i \in M : w[i.key] = i.value
  <2> TAKE i \in M
  <2>1. i.key \in KeysIn(M)
    BY DEF KeysIn
  <2>2. CASE i \in I
    <3>1. i.key \in KeysIn(I)
      BY <2>2 DEF KeysIn
    <3> QED
      BY <1>1, <1>5, <2>1, <2>2, <3>1
  <2>3. CASE i \in J /\ i.key \notin KeysIn(I)
    BY <1>2, <1>5, <2>1, <2>3
  <2> QED
    BY <1>3, <2>2, <2>3
<1>8. w = MapOf(M)
  BY <1>6, <1>7, IsMapOf
<1> QED
  BY <1>8 DEF w, m, n, M

\* What the operations make of the map of a table.
LEMMA OneKeyIs ==
  ASSUME hash \in HashFunctions, NEW N \in PowersOfTwo, NEW full, NEW t, Good(t, N, full), N <= MaxBuckets,
         full, IsMap(Items(t.buckets)), NEW k \in DOMAIN hash
  PROVE  /\ Contents(find_or_insert(t, k)) = With(Contents(t), k, 0)
         /\ Contents(insert(t, [key |-> k, value |-> MaxValue])) = With(Contents(t), k, MaxValue)
         /\ Contents(erase(t, k)) = Without(Contents(t), {k})
<1> DEFINE I == Items(t.buckets)
           r == find_or_insert(t, k)
           s == insert(t, [key |-> k, value |-> MaxValue])
           u == erase(t, k)
<1>1. Contents(t) = MapOf(I)
  BY ContentsOf
<1>2. (\E M \in PowersOfTwo : Good(r, M, full)) /\ Items(r.buckets) = WithItem(I, k, 0)
  BY FindOrInsertIs
<1>3. MaxValue \in Values
  BY TableAssumption DEF Values
<1>4. (\E M \in PowersOfTwo : Good(s, M, full)) /\ Items(s.buckets) = WithItem(I, k, MaxValue)
  BY <1>3, InsertIs
<1>5. Good(u, N, full) /\ Items(u.buckets) = WithoutKey(I, k)
  BY EraseIs
<1> HIDE DEF r, s, u
<1>6. /\ Contents(r) = MapOf(Items(r.buckets)) /\ Contents(s) = MapOf(Items(s.buckets))
      /\ Contents(u) = MapOf(Items(u.buckets))
  BY <1>2, <1>4, <1>5, ContentsOf
<1> DEFINE J == Items(u.buckets)
<1>7. \A i : i \in J <=> i \in I /\ i.key \notin {k}
  BY <1>5 DEF WithoutKey
<1>8. IsMap(I)
  OBVIOUS
<1> HIDE DEF I, J
<1>9. MapOf(J) = Without(MapOf(I), {k})
  BY <1>7, <1>8, WithoutIs
<1>10. MapOf(WithItem(I, k, 0)) = With(MapOf(I), k, 0) /\ MapOf(WithItem(I, k, MaxValue)) = With(MapOf(I), k, MaxValue)
  BY <1>8, WithIs
<1> QED
  BY <1>1, <1>2, <1>4, <1>6, <1>9, <1>10 DEF r, s, u, J

LEMMA RangeErasedIs ==
  ASSUME hash \in HashFunctions, NEW N \in PowersOfTwo, NEW full, NEW t, Good(t, N, full), Whole(t, N),
         NEW f, NEW l
  PROVE  Contents(erase_range(t, f, l)) = Without(Contents(t), KeysOf(t, f .. l - 1))
<1> USE DEF Whole
<1> DEFINE I == Items(t.buckets)
           J == Items(erase_range(t, f, l).buckets)
           R == f .. l - 1
           K == KeysOf(t, R)
<1>1. Contents(t) = MapOf(I) /\ IsMap(I)
  BY ContentsOf, ItemsAreMap
<1>2. Good(erase_range(t, f, l), N, full) /\ J = ItemsBut(t.buckets, R)
  BY EraseRangeIs
<1>3. Contents(erase_range(t, f, l)) = MapOf(J)
  BY <1>2, ContentsOf
<1>4. LiveBuckets(t) = Used(t.buckets) /\ \A b, c \in Used(t.buckets) : t.buckets[b].key = t.buckets[c].key => b = c
  BY ItemsAre
<1>5. K = {t.buckets[b].key : b \in Used(t.buckets) \cap R}
  BY <1>4 DEF KeysOf
<1> HIDE DEF R, J, K
<1>6. \A i : i \in J <=> i \in I /\ i.key \notin K
  BY <1>2, <1>4, <1>5 DEF Items, ItemsBut
<1> HIDE DEF I
<1>7. MapOf(J) = Without(MapOf(I), K)
  BY <1>1, <1>6, WithoutIs
<1> QED
  BY <1>1, <1>3, <1>7 DEF K, R

LEMMA SameItemsSameMap ==
  ASSUME hash \in HashFunctions, NEW N \in PowersOfTwo, NEW full, NEW t, Good(t, N, full),
         NEW M \in PowersOfTwo, NEW whole, NEW u, Good(u, M, whole), Items(u.buckets) = Items(t.buckets)
  PROVE  Contents(u) = Contents(t)
<1>1. Contents(t) = MapOf(Items(t.buckets))
  BY ContentsOf
<1>2. Contents(u) = MapOf(Items(u.buckets))
  BY ContentsOf
<1> QED
  BY <1>1, <1>2

LEMMA OperationsAct == ASSUME CountersInv PROVE OperationsActOnMap
<1>0. SUFFICES ASSUME complete PROVE OperationsActOnMap
  BY DEF OperationsActOnMap
<1>1. hash \in HashFunctions
  BY DEF CountersInv
<1>2. PICK N \in PowersOfTwo : N <= MaxBuckets /\ Good(ht, N, complete)
  BY DEF CountersInv, AreGood
<1>3. PICK L \in PowersOfTwo : Good(kept, L, TRUE) /\ Cardinality(Used(kept.buckets)) <= MaxBuckets
  BY DEF CountersInv, AreGood
<1> DEFINE I == Items(ht.buckets)
           J == Items(kept.buckets)
<1>4. Good(ht, N, TRUE)
  <2>1. complete = TRUE
    BY <1>0 DEF CountersInv
  <2> QED
    BY <1>2, <2>1
<1>5. IsMap(I) /\ IsMap(J) /\ Contents(ht) = MapOf(I) /\ Contents(kept) = MapOf(J)
  BY <1>1, <1>3, <1>4, ItemsAreMap, ContentsOf
<1>6. size(ht) <= 2 * MaxBuckets
  BY <1>1, <1>2, FewItems
<1>7. \A k \in DOMAIN hash :
        /\ Contents(find_or_insert(ht, k)) = With(Contents(ht), k, 0)
        /\ Contents(insert(ht, [key |-> k, value |-> MaxValue])) = With(Contents(ht), k, MaxValue)
        /\ Contents(erase(ht, k)) = Without(Contents(ht), {k})
  <2> TAKE k \in DOMAIN hash
  <2>1. complete /\ hash \in HashFunctions /\ N \in PowersOfTwo /\ N <= MaxBuckets /\ Good(ht, N, complete)
    BY <1>0, <1>1, <1>2
  <2>2. IsMap(Items(ht.buckets))
    BY <1>5
  <2> HIDE DEF I, J
  <2> QED
    BY <2>1, <2>2, OneKeyIs
<1>8. \A f, l : Contents(erase_range(ht, f, l)) = Without(Contents(ht), KeysOf(ht, f .. l - 1))
  <2> TAKE f, l
  <2> DEFINE t == ht
             whole == complete
  <2>1. Good(t, N, whole) /\ Whole(t, N)
    BY <1>2, <1>4 DEF Whole
  <2> HIDE DEF t, whole
  <2>2. Contents(erase_range(t, f, l)) = Without(Contents(t), KeysOf(t, f .. l - 1))
    BY <1>1, <2>1, RangeErasedIs
  <2> QED
    BY <2>2 DEF t
<1>9. \A n \in {0, HT_MIN_BUCKETS} : Contents(resize(ht, n)) = Contents(ht)
  <2> TAKE n \in {0, HT_MIN_BUCKETS}
  <2>1. n \in 0 .. HT_MIN_BUCKETS
    BY TableAssumption
  <2>2. /\ \E M \in PowersOfTwo : Good(resize(ht, n), M, complete)
        /\ Items(resize(ht, n).buckets) = Items(ht.buckets)
    BY <1>1, <1>2, <2>1, ResizeIs
  <2> QED
    BY <1>1, <1>2, <2>2, SameItemsSameMap
<1>10. Contents(squash_deleted(ht)) = Contents(ht)
  <2>1. \E M \in PowersOfTwo : /\ Good(squash_deleted(ht), M, complete)
                                /\ Items(squash_deleted(ht).buckets) = Items(ht.buckets)
    BY <1>1, <1>2, SquashedIs
  <2> QED
    BY <1>1, <1>2, <2>1, SameItemsSameMap
<1>11. Contents(copy_from(ht, HT_DEFAULT_STARTING_BUCKETS)) = Contents(ht)
  <2> DEFINE r == copy_from(ht, HT_DEFAULT_STARTING_BUCKETS)
  <2>1. PICK M \in PowersOfTwo : Good(r, M, complete) /\ IsCopied(r, ht, M)
    BY <1>1, <1>2, <1>6, CopyIs
  <2> HIDE DEF r
  <2>2. Items(r.buckets) = Items(ht.buckets)
    BY <2>1 DEF IsCopied
  <2>3. Contents(r) = Contents(ht)
    BY <1>1, <1>2, <2>1, <2>2, SameItemsSameMap
  <2> QED
    BY <2>3 DEF r
<1>12. Contents(insert_range(ht, kept)) = Merged(Contents(ht), Contents(kept))
  <2> DEFINE r == insert_range(ht, kept)
  <2>1. (\E M \in PowersOfTwo : Good(r, M, complete)) /\ IsMerged(r, complete, I, J)
    BY <1>1, <1>2, <1>3, InsertRangeIs
  <2> HIDE DEF r, I, J
  <2>2. Items(r.buckets) = MergedItems(I, J)
    BY <1>0, <2>1 DEF IsMerged
  <2>3. Contents(r) = MapOf(Items(r.buckets))
    BY <1>1, <2>1, ContentsOf
  <2> QED
    BY <1>5, <2>2, <2>3, MergedIs DEF r
<1>13. kept.num_deleted = 0 => Contents(unserialize(ht, kept, Cardinality(LiveBuckets(kept)))) = Contents(kept)
  <2> SUFFICES ASSUME kept.num_deleted = 0
               PROVE  Contents(unserialize(ht, kept, Cardinality(LiveBuckets(kept)))) = Contents(kept)
    OBVIOUS
  <2> DEFINE items_read == Cardinality(LiveBuckets(kept))
             r == unserialize(ht, kept, items_read)
  <2>1. items_read \in -2 .. Cardinality(LiveBuckets(kept))
    <3>1. LiveBuckets(kept) = Used(kept.buckets) /\ IsFiniteSet(Used(kept.buckets))
      BY <1>1, <1>3, ItemsAre
    <3>2. items_read \in Nat
      BY <3>1, FS_CardinalityType
    <3> QED
      BY <3>2
  <2>2. complete <=> items_read = Cardinality(LiveBuckets(kept))
    BY <1>0
  <2> HIDE DEF items_read
  <2>3. (\E M \in PowersOfTwo : Good(r, M, complete)) /\ (complete => Items(r.buckets) = Items(kept.buckets))
    <3> DEFINE t == ht
               u == kept
               whole == complete
    <3>1. Good(t, N, whole)
      BY <1>2
    <3>2. Whole(u, L) /\ u.num_deleted = 0
      BY <1>3 DEF Whole
    <3>3. items_read \in -2 .. Cardinality(LiveBuckets(u)) /\ (whole <=> items_read = Cardinality(LiveBuckets(u)))
      BY <2>1, <2>2
    <3> HIDE DEF t, u, whole
    <3>4. /\ \E M \in PowersOfTwo : Good(unserialize(t, u, items_read), M, whole)
          /\ whole => Items(unserialize(t, u, items_read).buckets) = Items(u.buckets)
      BY <1>1, <3>1, <3>2, <3>3, UnserializedIs
    <3> QED
      BY <3>4 DEF t, u, whole, r
  <2> HIDE DEF r
  <2>4. Contents(r) = Contents(kept)
    BY <1>0, <1>1, <1>3, <2>3, SameItemsSameMap
  <2> QED
    BY <2>4 DEF r, items_read
<1> HIDE DEF I, J
<1> QED
  BY <1>7, <1>8, <1>9, <1>10, <1>11, <1>12, <1>13 DEF OperationsActOnMap

-----------------------------------------------------------------------------
(***************************************************************************)
(* The counters implement the map, step by step.                           *)
(***************************************************************************)
LEMMA CountedIs ==
  /\ Counted = (IF complete THEN Contents(ht) ELSE <<>>) /\ CountedInCopy = Contents(kept)
  /\ Counted' = (IF complete' THEN Contents(ht') ELSE <<>>) /\ CountedInCopy' = Contents(kept')
  BY DEF Counted, CountedInCopy, Contents, LiveBuckets, test_empty, test_deleted

LEMMA ContentsAreMap == \A t : Contents(t) = [k \in DOMAIN Contents(t) |-> Contents(t)[k]]
  BY DEF Contents

LEMMA EmptyIs ==
  ASSUME NEW m, m = [k \in DOMAIN m |-> m[k]], DOMAIN m = {}
  PROVE  m = <<>>
  OBVIOUS

\* One key has a value that it had not before, and the others keep theirs.
IsPut(n, m, k) == k \in DOMAIN n /\ n = [j \in DOMAIN m \union {k} |-> IF j = k THEN n[k] ELSE m[j]]

\* The bucket of a counter is found where operator[] left it.
Replaced(m, k, v) == [j \in DOMAIN m |-> IF j = k THEN v ELSE m[j]]

LEMMA RecountedMap ==
  ASSUME hash \in HashFunctions, NEW N \in PowersOfTwo, NEW full, NEW t, Good(t, N, full), Whole(t, N),
         NEW b \in Used(t.buckets), NEW k, k = t.buckets[b].key, NEW v \in Values, NEW r, HasValue(r, t, b, v)
  PROVE  Contents(r) = Replaced(Contents(t), k, v)
<1> DEFINE m == Contents(t)
           I == Items(t.buckets)
           J == Items(r.buckets)
           w == [j \in DOMAIN m |-> IF j = k THEN v ELSE m[j]]
<1>1. /\ Used(t.buckets) \subseteq 0 .. N - 1
      /\ \A c, d \in Used(t.buckets) : t.buckets[c].key = t.buckets[d].key => c = d
  BY ItemsAre DEF Whole
<1>2. m = MapOf(I) /\ IsMap(I)
  BY ContentsOf, ItemsAreMap DEF Whole
<1>3. DOMAIN m = KeysIn(I) /\ \A i \in I : m[i.key] = i.value
  BY <1>2, MapIs
<1>4. b \in 0 .. N - 1
  BY <1>1
<1>5. /\ Good(r, N, full) /\ Used(r.buckets) = Used(t.buckets)
      /\ \A c \in 0 .. N - 1 : /\ r.buckets[c].key = t.buckets[c].key
                              /\ r.buckets[c].value = IF c = b THEN v ELSE t.buckets[c].value
  BY <1>4, RecountedIs
<1>6. Contents(r) = MapOf(J)
  BY <1>5, ContentsOf
<1>7. KeysIn(J) = KeysIn(I)
  BY <1>1, <1>5 DEF KeysIn, Items
<1> HIDE DEF m
<1>8. \A j \in J : w[j.key] = j.value
  <2> SUFFICES ASSUME NEW c \in Used(t.buckets) PROVE w[r.buckets[c].key] = r.buckets[c].value
    BY <1>5 DEF Items
  <2>1. t.buckets[c] \in I /\ t.buckets[c].key \in DOMAIN m /\ m[t.buckets[c].key] = t.buckets[c].value
    BY <1>3 DEF Items, KeysIn
  <2>2. r.buckets[c].key = t.buckets[c].key /\ r.buckets[c].value = IF c = b THEN v ELSE t.buckets[c].value
    BY <1>1, <1>5
  <2>3. t.buckets[c].key = k <=> c = b
    BY <1>1
  <2> QED
    BY <2>1, <2>2, <2>3
<1>9. w = [j \in KeysIn(J) |-> w[j]]
  BY <1>3, <1>7
<1> HIDE DEF w, J
<1>10. w = MapOf(J)
  BY <1>8, <1>9, IsMapOf
<1> QED
  BY <1>6, <1>10 DEF w, m, Replaced

LEMMA CountIsPut ==
  ASSUME CountersInv, complete, NEW k \in DOMAIN hash, Count(k)
  PROVE  k \in Keys /\ Counted'[k] \in Values /\ IsPut(Counted', Counted, k)
<1> DEFINE t == find_or_insert(ht, k)
           b == find_position(t, k).bucket
           v == t.buckets[b].value + 1
           m == Contents(ht)
<1>1. complete = TRUE
  BY DEF CountersInv
<1>1a. hash \in HashFunctions
  BY DEF CountersInv
<1>2. Contents(t) = With(m, k, 0)
  BY OperationsAct DEF OperationsActOnMap
<1>3. PICK M \in PowersOfTwo : Good(t, M, complete)
  BY <1>1a, FindOrInsertIs DEF CountersInv, AreGood
<1>3a. k \in Keys
  BY <1>1a, TableAssumption
<1>4. Whole(t, M)
  BY <1>1, <1>3 DEF Whole
<1>5. t.buckets[b].value < MaxValue /\ ht' = [t EXCEPT !.buckets[b].value = v] /\ complete' = complete
  BY DEF Count
<1> HIDE DEF t, m
<1>6. DOMAIN Contents(t) = DOMAIN m \union {k} /\ \A j \in DOMAIN m : Contents(t)[j] = m[j]
  BY <1>2 DEF With
<1>7. k \in DOMAIN Contents(t)
  BY <1>6
<1>8. t.buckets[b].value \in Values
  <2>1. Good(t, M, TRUE)
    BY <1>4 DEF Whole
  <2>2. b \in 0 .. M - 1 /\ t.buckets \in [0 .. M - 1 -> Bucket]
    BY <1>1a, <2>1, SearchIs, TableIs
  <2> HIDE DEF b
  <2> QED
    BY <2>2 DEF Bucket
<1>9. v \in Values
  <2> HIDE DEF b
  <2> QED
    BY <1>5, <1>8, TableAssumption DEF Values
<1> DEFINE r == ht'
<1>10. HasValue(r, t, b, v)
  BY <1>5 DEF HasValue
<1> HIDE DEF v, r
<1>11. Contents(r) = Replaced(Contents(t), k, v)
  <2>1. PICK c \in Used(t.buckets) : t.buckets[c].key = k
    <3>1. Contents(t) = MapOf(Items(t.buckets))
      BY <1>1a, <1>3, ContentsOf
    <3>2. k \in KeysIn(Items(t.buckets))
      BY <1>7, <3>1 DEF MapOf
    <3> QED
      BY <3>2 DEF KeysIn, Items
  <2>2. b = c
    <3>1. find_position(t, t.buckets[c].key) = [found |-> TRUE, bucket |-> c]
      BY <1>1a, <1>4, KeyIsFound DEF Whole
    <3> QED
      BY <2>1, <3>1
  <2> HIDE DEF b
  <2>3. HasValue(r, t, c, v)
    BY <1>10, <2>2
  <2>4. M \in PowersOfTwo /\ Good(t, M, complete) /\ Whole(t, M)
    BY <1>3, <1>4
  <2>5. c \in Used(t.buckets) /\ k = t.buckets[c].key
    BY <2>1
  <2> QED
    BY <1>1a, <1>9, <2>3, <2>4, <2>5, RecountedMap, ZenonT(30)
<1>12. Counted = m /\ Counted' = Contents(r)
  BY <1>1, <1>5, CountedIs DEF m, r
<1>13. Counted' = [j \in DOMAIN m \union {k} |-> IF j = k THEN v ELSE m[j]]
  BY <1>6, <1>11, <1>12 DEF Replaced
<1>14. Counted'[k] = v /\ k \in DOMAIN Counted'
  BY <1>13
<1> QED
  BY <1>3a, <1>9, <1>12, <1>13, <1>14 DEF IsPut

\* The actions of the map, of the map that the counters stand for.
LEMMA CountersStart == ASSUME InitTable PROVE Counters!Init
<1> DEFINE D == HT_DEFAULT_STARTING_BUCKETS
           t == ClearedTo(D)
<1>1. D \in PowersOfTwo /\ hash \in HashFunctions /\ complete = TRUE /\ ht = t /\ kept = t
  BY TableAssumption DEF InitTable
<1> HIDE DEF D
<1>2. Good(t, D, TRUE) /\ Used(t.buckets) = {}
  BY <1>1, ClearedIs DEF ClearedTo
<1> HIDE DEF t
<1>3. DOMAIN Contents(t) = {}
  BY <1>1, <1>2, ContentsAre
<1>4. Contents(t) = <<>>
  <2> DEFINE m == Contents(t)
  <2>1. m = [k \in DOMAIN m |-> m[k]] /\ DOMAIN m = {}
    BY <1>3, ContentsAreMap
  <2> HIDE DEF m
  <2>2. m = <<>>
    BY <2>1, EmptyIs
  <2> QED
    BY <2>2 DEF m
<1> QED
  BY <1>1, <1>4, CountedIs DEF Counters!Init

LEMMA PutsCounted ==
  ASSUME UNCHANGED CountedInCopy, NEW k \in Keys, Counted'[k] \in Values, IsPut(Counted', Counted, k)
  PROVE  Counters!Next
  BY DEF IsPut, Counters!Next, Counters!Change, Counters!Put

LEMMA RemovesCounted ==
  ASSUME UNCHANGED CountedInCopy, NEW K, Counted' = Without(Counted, K)
  PROVE  Counters!Next
<1> DEFINE R == DOMAIN Counted \cap K
<1>1. R \in SUBSET DOMAIN Counted /\ DOMAIN Counted \ R = DOMAIN Counted \ K
  OBVIOUS
<1>2. Counters!Remove(R)
  BY <1>1 DEF Counters!Remove, Counters!Restrict, Without, Restrict
<1> QED
  BY <1>1, <1>2 DEF Counters!Next, Counters!Change

LEMMA ForgetsCounted ==
  ASSUME UNCHANGED CountedInCopy, Counted' = <<>>
  PROVE  Counters!Next
<1> DEFINE w == Without(Counted, DOMAIN Counted)
<1>1. w = [k \in DOMAIN Counted \ DOMAIN Counted |-> Counted[k]]
  BY DEF Without, Restrict
<1>2. DOMAIN Counted \ DOMAIN Counted = {}
  OBVIOUS
<1> HIDE DEF w
<1>3. w = [k \in DOMAIN w |-> w[k]] /\ DOMAIN w = {}
  BY <1>1, <1>2
<1>4. w = <<>>
  BY <1>3, EmptyIs
<1> QED
  BY <1>4, RemovesCounted DEF w

LEMMA LoadsCounted ==
  ASSUME UNCHANGED CountedInCopy, Counted' = CountedInCopy
  PROVE  Counters!Next
<1> DEFINE m == CountedInCopy
<1>1. m = [k \in DOMAIN m |-> m[k]]
  BY ContentsAreMap, CountedIs
<1> HIDE DEF m
<1>2. Counted' = m
  BY DEF m
<1>3. DOMAIN m \cap DOMAIN Counted' = DOMAIN m
  BY <1>2
<1>4. Counted' = [k \in DOMAIN m \cap DOMAIN Counted' |-> m[k]]
  BY <1>1, <1>2, <1>3
<1>5. Counters!Load(DOMAIN Counted')
  BY <1>4 DEF m, Counters!Load, Counters!Restrict
<1> QED
  BY <1>5 DEF Counters!Next, Counters!Change

LEMMA MergesCounted ==
  ASSUME UNCHANGED CountedInCopy, Counted' = Merged(Counted, CountedInCopy)
  PROVE  Counters!Next
  BY DEF Merged, Counters!Next, Counters!Change, Counters!Merge

LEMMA ClearForgets ==
  ASSUME CountersInv, Clear \/ ClearNoResize
  PROVE  Counters!Next
<1>1. hash \in HashFunctions
  BY DEF CountersInv
<1>2. PICK N \in PowersOfTwo : Good(ht, N, complete)
  BY DEF CountersInv, AreGood
<1>3. complete' = TRUE /\ kept' = kept
  BY DEF Clear, ClearNoResize
<1> DEFINE t == ht'
<1>4. (\E M \in PowersOfTwo : Good(t, M, TRUE)) /\ t.num_elements = 0
  <2>1. CASE Clear
    <3>1. \E M \in PowersOfTwo : Good(clear(ht), M, TRUE)
      BY <1>1, <1>2, ClearIs
    <3> QED
      BY <2>1, <3>1 DEF Clear, clear, ClearedTo
  <2>2. CASE ClearNoResize
    <3>1. t = ClearedTo(N)
      BY <1>1, <1>2, <2>2, TableIs DEF ClearNoResize, clear_no_resize
    <3> QED
      BY <1>1, <3>1, ClearedIs DEF ClearedTo
  <2> QED
    BY <2>1, <2>2
<1> HIDE DEF t
<1>5. Used(t.buckets) = {}
  BY <1>1, <1>4, NothingIsMissing
<1> DEFINE m == Contents(t)
<1>6. m = [k \in DOMAIN m |-> m[k]] /\ DOMAIN m = {}
  <2>1. DOMAIN Contents(t) = {t.buckets[b].key : b \in Used(t.buckets)}
    BY <1>1, <1>4, ContentsAre
  <2>2. DOMAIN m = {}
    BY <1>5, <2>1
  <2>3. m = [k \in DOMAIN m |-> m[k]]
    BY ContentsAreMap
  <2> QED
    BY <2>2, <2>3
<1> HIDE DEF m
<1>7. m = <<>>
  BY <1>6, EmptyIs
<1>8. Counted' = <<>> /\ UNCHANGED CountedInCopy
  BY <1>3, <1>7, CountedIs DEF m, t
<1> QED
  BY <1>8, ForgetsCounted

LEMMA ReadingLoads ==
  ASSUME CountersInv, Assign \/ Unserialize
  PROVE  Counters!Next
<1>1. hash \in HashFunctions
  BY DEF CountersInv
<1>2. PICK N \in PowersOfTwo : Good(ht, N, complete)
  BY DEF CountersInv, AreGood
<1>3. PICK L \in PowersOfTwo : Good(kept, L, TRUE) /\ Cardinality(Used(kept.buckets)) <= MaxBuckets
  BY DEF CountersInv, AreGood
<1>4. kept' = kept
  BY DEF Assign, Unserialize
<1>5. ASSUME complete' = TRUE, NEW M \in PowersOfTwo, NEW full, Good(ht', M, full),
             Items(ht'.buckets) = Items(kept.buckets)
      PROVE  Counters!Next
  <2>1. Contents(ht') = Contents(kept)
    BY <1>1, <1>3, <1>5, SameItemsSameMap
  <2>2. Counted' = CountedInCopy /\ UNCHANGED CountedInCopy
    BY <1>4, <1>5, <2>1, CountedIs
  <2> QED
    BY <2>2, LoadsCounted
<1>6. CASE Assign
  <2>1. ht' = copy_from(kept, HT_MIN_BUCKETS) /\ complete' = TRUE
    BY <1>6 DEF Assign
  <2>2. size(kept) <= 2 * MaxBuckets
    <3>1. size(kept) = Cardinality(Used(kept.buckets)) /\ size(kept) \in Nat /\ MaxBuckets \in Nat
      BY <1>1, <1>3, TableIs, SizeAssumption
    <3> QED
      BY <1>3, <3>1
  <2>3. PICK M \in PowersOfTwo : Good(ht', M, TRUE) /\ IsCopied(ht', kept, M)
    BY <1>1, <1>3, <2>1, <2>2, CopyIs
  <2> QED
    BY <1>5, <2>1, <2>3 DEF IsCopied
<1>7. CASE Unserialize
  <2>1. PICK items_read \in -2 .. Cardinality(LiveBuckets(kept)) :
           /\ ht' = unserialize(ht, kept, items_read)
           /\ complete' = (items_read = Cardinality(LiveBuckets(kept)))
    BY <1>7 DEF Unserialize
  <2>2. kept.num_deleted = 0
    BY <1>7 DEF Unserialize
  <2>3. CASE complete' = TRUE
    <3>1. (complete' <=> items_read = Cardinality(LiveBuckets(kept))) /\ Whole(kept, L)
      BY <1>3, <2>1 DEF Whole
    <3>2. /\ \E M \in PowersOfTwo : Good(ht', M, complete')
          /\ complete' => Items(ht'.buckets) = Items(kept.buckets)
      BY <1>1, <1>2, <2>1, <2>2, <3>1, UnserializedIs
    <3>3. PICK M \in PowersOfTwo : Good(ht', M, complete')
      BY <3>2
    <3> QED
      BY <1>5, <2>3, <3>2, <3>3
  <2>4. CASE complete' = FALSE
    BY <1>4, <2>4, CountedIs, ForgetsCounted
  <2> QED
    BY <2>1, <2>3, <2>4
<1> QED
  BY <1>6, <1>7

\* Nothing is promised of a table that was read in part, so nothing happens.
LEMMA NothingCounted ==
  ASSUME ~complete, ~complete', kept' = kept
  PROVE  UNCHANGED <<Counted, CountedInCopy>>
  BY CountedIs

LEMMA SameCounted ==
  ASSUME complete, complete', kept' = kept, Contents(ht') = Contents(ht)
  PROVE  UNCHANGED <<Counted, CountedInCopy>>
  BY CountedIs

LEMMA OneKeyActs ==
  ASSUME CountersInv, complete, NEW k \in DOMAIN hash, Count(k) \/ Insert(k) \/ Erase(k)
  PROVE  Counters!Next \/ UNCHANGED <<Counted, CountedInCopy>>
<1>1. k \in Keys /\ MaxValue \in Values
  BY TableAssumption DEF CountersInv, Values
<1>2. kept' = kept /\ complete' /\ UNCHANGED CountedInCopy
  BY CountedIs DEF Count, Insert, Erase
<1>3. /\ Contents(insert(ht, [key |-> k, value |-> MaxValue])) = With(Contents(ht), k, MaxValue)
      /\ Contents(erase(ht, k)) = Without(Contents(ht), {k})
  BY OperationsAct DEF OperationsActOnMap
<1>4. Counted = Contents(ht) /\ Counted' = Contents(ht')
  BY <1>2, CountedIs
<1>5. CASE Count(k)
  BY <1>2, <1>5, CountIsPut, PutsCounted
<1>6. CASE Insert(k)
  <2> DEFINE m == Counted
             n == Counted'
  <2>1. n = [j \in DOMAIN m \union {k} |-> IF j \in DOMAIN m THEN m[j] ELSE MaxValue]
    BY <1>3, <1>4, <1>6 DEF Insert, With
  <2>2. m = [j \in DOMAIN m |-> m[j]]
    BY <1>4, ContentsAreMap
  <2> HIDE DEF m, n
  <2>3. CASE k \in DOMAIN m
    <3>1. DOMAIN m \union {k} = DOMAIN m
      BY <2>3
    <3>2. n = m
      BY <2>1, <2>2, <3>1
    <3> QED
      BY <1>2, <3>2 DEF m, n
  <2>4. CASE k \notin DOMAIN m
    <3>1. k \in DOMAIN n /\ n[k] = MaxValue
      BY <2>1, <2>4
    <3>2. IsPut(n, m, k)
      BY <2>1, <2>4, <3>1 DEF IsPut
    <3> QED
      BY <1>1, <1>2, <3>1, <3>2, PutsCounted DEF m, n
  <2> QED
    BY <2>3, <2>4
<1>7. CASE Erase(k)
  <2>1. Counted' = Without(Counted, {k})
    BY <1>3, <1>4, <1>7 DEF Erase
  <2> QED
    BY <1>2, <2>1, RemovesCounted
<1> QED
  BY <1>5, <1>6, <1>7

LEMMA IteratorsErase ==
  ASSUME CountersInv, complete, EraseRange \/ \E b \in LiveBuckets(ht) : EraseAt(b)
  PROVE  Counters!Next
<1>1. hash \in HashFunctions /\ kept' = kept /\ complete' /\ UNCHANGED CountedInCopy
  BY CountedIs DEF CountersInv, EraseRange, EraseAt
<1> DEFINE whole == complete
<1>2. PICK N \in PowersOfTwo : N <= MaxBuckets /\ Good(ht, N, whole)
  BY DEF CountersInv, AreGood
<1>2a. whole = TRUE
  BY DEF CountersInv
<1> HIDE DEF whole
<1>2b. Good(ht, N, TRUE)
  BY <1>2, <1>2a
<1>3. Counted = Contents(ht) /\ Counted' = Contents(ht')
  BY <1>1, CountedIs
<1>4. CASE EraseRange
  <2>1. PICK f \in LiveBuckets(ht), l \in LiveBuckets(ht) \union {bucket_count(ht)} :
          ht' = erase_range(ht, f, l)
    BY <1>4 DEF EraseRange
  <2>2. Counted' = Without(Counted, KeysOf(ht, f .. l - 1))
    BY <1>3, <2>1, OperationsAct DEF OperationsActOnMap
  <2> QED
    BY <1>1, <2>2, RemovesCounted
<1>5. CASE \E b \in LiveBuckets(ht) : EraseAt(b)
  <2>1. PICK b \in LiveBuckets(ht) : ht' = set_deleted(ht, b)
    BY <1>5 DEF EraseAt
  <2> DEFINE t == ht
             u == ht'
             I == Items(t.buckets)
             J == Items(u.buckets)
             key == t.buckets[b].key
  <2>2. b \in Used(t.buckets) /\ \A c \in Used(t.buckets) : t.buckets[c].key = key => c = b
    BY <1>1, <1>2b, <2>1, ItemsAre
  <2>3. Good(u, N, whole) /\ J = ItemsBut(t.buckets, {b})
    <3>1. /\ Good(set_deleted(ht, b), N, whole)
          /\ Items(set_deleted(ht, b).buckets) = ItemsBut(ht.buckets, {b})
      BY <1>1, <1>2, <2>2, SetDeletedIs
    <3> QED
      BY <2>1, <3>1
  <2>4. Contents(t) = MapOf(I) /\ IsMap(I) /\ Contents(u) = MapOf(J)
    BY <1>1, <1>2, <1>2b, <2>3, ContentsOf, ItemsAreMap
  <2> DEFINE K == {key}
  <2> HIDE DEF t, u, J
  <2>5. \A i : i \in J <=> i \in I /\ i.key \notin K
    BY <2>2, <2>3 DEF Items, ItemsBut
  <2> HIDE DEF I, K
  <2>6. MapOf(J) = Without(MapOf(I), K)
    BY <2>4, <2>5, WithoutIs
  <2>7. Counted' = Without(Counted, K)
    BY <1>3, <2>4, <2>6 DEF t, u
  <2> QED
    BY <1>1, <2>7, RemovesCounted
<1> QED
  BY <1>4, <1>5

LEMMA CopyingSaves ==
  ASSUME CountersInv, complete, Swap \/ Copy \/ Serialize
  PROVE  Counters!Next
<1>1. hash \in HashFunctions /\ complete'
  BY DEF CountersInv, Swap, Copy, Serialize
<1> DEFINE whole == complete
<1>2. PICK N \in PowersOfTwo : N <= MaxBuckets /\ Good(ht, N, whole)
  BY DEF CountersInv, AreGood
<1>2a. whole = TRUE
  BY DEF CountersInv
<1> HIDE DEF whole
<1>2b. Good(ht, N, TRUE)
  BY <1>2, <1>2a
<1>3. PICK L \in PowersOfTwo : Good(kept, L, TRUE)
  BY DEF CountersInv, AreGood
<1>4. /\ Counted = Contents(ht) /\ Counted' = Contents(ht')
      /\ CountedInCopy = Contents(kept) /\ CountedInCopy' = Contents(kept')
  BY <1>1, CountedIs
<1>5. ASSUME NEW t, NEW M \in PowersOfTwo, Good(t, M, TRUE)
      PROVE  Contents([t EXCEPT !.consider_shrink = FALSE]) = Contents(t)
  <2> DEFINE s == [t EXCEPT !.consider_shrink = FALSE]
  <2>1. Good(s, M, TRUE) /\ s.buckets = t.buckets
    BY <1>1, <1>5, MadePatient
  <2> HIDE DEF s
  <2>2. Contents(s) = Contents(t)
    BY <1>1, <1>5, <2>1, SameItemsSameMap
  <2> QED
    BY <2>2 DEF s
<1>6. CASE Swap
  <2>1. ht' = [kept EXCEPT !.consider_shrink = FALSE] /\ kept' = [ht EXCEPT !.consider_shrink = FALSE]
    BY <1>6 DEF Swap
  <2>2. Counted' = CountedInCopy /\ CountedInCopy' = Counted
    BY <1>2b, <1>3, <1>4, <1>5, <2>1
  <2> QED
    BY <2>2 DEF Counters!Next, Counters!Swap
<1>7. CASE Copy
  <2>1. ht' = ht /\ kept' = copy_from(ht, HT_DEFAULT_STARTING_BUCKETS)
    BY <1>7 DEF Copy
  <2>2. CountedInCopy' = Counted /\ Counted' = Counted
    BY <1>4, <2>1, OperationsAct DEF OperationsActOnMap
  <2> QED
    BY <2>2 DEF Counters!Next, Counters!Save
<1>8. CASE Serialize
  <2>1. ht' = squash_deleted(ht) /\ kept' = [ht' EXCEPT !.consider_shrink = FALSE]
    BY <1>8 DEF Serialize
  <2>2. Contents(ht') = Contents(ht)
    BY <2>1, OperationsAct DEF OperationsActOnMap
  <2>3. PICK M \in PowersOfTwo : Good(ht', M, TRUE)
    <3>1. \E M \in PowersOfTwo : Good(squash_deleted(ht), M, whole)
      BY <1>1, <1>2, SquashedIs
    <3> QED
      BY <1>2a, <2>1, <3>1
  <2> DEFINE t == ht'
  <2>4. Good(t, M, TRUE) /\ kept' = [t EXCEPT !.consider_shrink = FALSE]
    BY <2>1, <2>3
  <2> HIDE DEF t
  <2>5. Contents(kept') = Contents(t)
    BY <1>5, <2>4
  <2>6. CountedInCopy' = Counted /\ Counted' = Counted
    BY <1>4, <2>2, <2>5 DEF t
  <2> QED
    BY <2>6 DEF Counters!Next, Counters!Save
<1> QED
  BY <1>6, <1>7, <1>8

LEMMA CountersAct ==
  ASSUME CountersInv, NextTable
  PROVE  Counters!Next \/ UNCHANGED <<Counted, CountedInCopy>>
<1>1. CASE ~complete /\ ~complete'
  <2>1. kept' = kept \/ Clear \/ ClearNoResize \/ Assign \/ Unserialize
    BY <1>1 DEF NextTable, Step, Count, Insert, Erase, EraseAt, EraseRange, Swap, SetDeletedKey, Resize,
                Copy, InsertRange, Serialize, MayCopy
  <2> QED
    BY <1>1, <2>1, NothingCounted, ClearForgets, ReadingLoads
<1>2. CASE Clear \/ ClearNoResize \/ Assign \/ Unserialize
  BY <1>2, ClearForgets, ReadingLoads
<1>3. CASE complete /\ ~(Clear \/ ClearNoResize \/ Assign \/ Unserialize)
  <2>1. CASE \E k \in DOMAIN hash : Count(k) \/ Insert(k) \/ Erase(k)
    BY <1>3, <2>1, OneKeyActs
  <2>2. CASE EraseRange \/ \E b \in LiveBuckets(ht) : EraseAt(b)
    BY <1>3, <2>2, IteratorsErase
  <2>3. CASE Swap \/ Copy \/ Serialize
    BY <1>3, <2>3, CopyingSaves
  <2>4. CASE SetDeletedKey \/ \E n \in {0, HT_MIN_BUCKETS} : Resize(n)
    <3>1. Contents(ht') = Contents(ht)
      BY <1>3, <2>4, OperationsAct DEF OperationsActOnMap, SetDeletedKey, Resize
    <3> QED
      BY <1>3, <2>4, <3>1, SameCounted DEF SetDeletedKey, Resize
  <2>5. CASE InsertRange
    <3>1. Contents(ht') = Merged(Contents(ht), Contents(kept)) /\ complete' /\ kept' = kept
      BY <1>3, <2>5, OperationsAct DEF OperationsActOnMap, InsertRange
    <3>2. Counted' = Merged(Counted, CountedInCopy) /\ UNCHANGED CountedInCopy
      BY <1>3, <3>1, CountedIs
    <3> QED
      BY <3>2, MergesCounted
  <2> QED
    BY <1>3, <2>1, <2>2, <2>3, <2>4, <2>5 DEF NextTable, Step
<1>4. CASE ~complete /\ complete' /\ ~(Clear \/ ClearNoResize \/ Assign \/ Unserialize)
  BY <1>4 DEF NextTable, Step, Count, Insert, Erase, EraseAt, EraseRange, Swap, SetDeletedKey, Resize,
              Copy, InsertRange, Serialize, MayCopy
<1> QED
  BY <1>1, <1>2, <1>3, <1>4

-----------------------------------------------------------------------------
(***************************************************************************)
(* Resizing settles: a table that was copied to another size has items     *)
(* enough to stay there.                                                   *)
(***************************************************************************)
\* Half of the size is too small for the items: then the size is not too large.
LEMMA EnoughToStay ==
  ASSUME NEW m \in Nat, NEW n \in Nat, n >= enlarge_size(m)
  PROVE  n >= shrink_size(2 * m)
<1> DEFINE p == m * HT_OCCUPANCY_PCT
           q == (2 * m) * HT_EMPTY_PCT
<1>1. HT_OCCUPANCY_PCT \in Nat /\ HT_EMPTY_PCT \in Nat /\ 2 * HT_EMPTY_PCT <= HT_OCCUPANCY_PCT
  BY TableAssumption
<1>2. p \in Nat /\ q \in Nat /\ q <= p
  <2>1. q = m * (2 * HT_EMPTY_PCT)
    BY <1>1
  <2>2. m * (2 * HT_EMPTY_PCT) <= m * HT_OCCUPANCY_PCT
    BY <1>1
  <2> QED
    BY <1>1, <2>1, <2>2
<1>3. enlarge_size(m) = p \div 100 /\ shrink_size(2 * m) = q \div 100
  BY DEF enlarge_size, shrink_size
<1> HIDE DEF p, q
<1>4. q \div 100 <= p \div 100 /\ p \div 100 \in Int /\ q \div 100 \in Int
  BY <1>2
<1> QED
  BY <1>3, <1>4

LEMMA TightIs ==
  ASSUME NEW n \in Nat, NEW wanted \in PowersOfTwo, NEW m \in PowersOfTwo, m >= wanted,
         \A y \in PowersOfTwo : y >= wanted /\ n < enlarge_size(y) => m <= y
  PROVE  m = wanted \/ n >= shrink_size(m)
<1>1. m \in Nat \ {0} /\ wanted \in Nat \ {0} /\ IsPowerOfTwo(m) /\ IsPowerOfTwo(wanted)
      /\ HT_MIN_BUCKETS <= wanted /\ m <= MaxSize /\ HT_MIN_BUCKETS \in Nat /\ MaxSize \in Nat
  BY SizeIs, TableAssumption, SizeAssumption
<1> SUFFICES ASSUME m # wanted PROVE n >= shrink_size(m)
  OBVIOUS
<1>2. wanted < m /\ m > 1
  BY <1>1
<1>3. PICK h \in Nat : m = 2 * h /\ IsPowerOfTwo(h)
  BY <1>1, <1>2, PowerHalves
<1>4. 2 * wanted <= m
  BY <1>1, <1>2, PowersAreFarApart
<1>5. wanted <= h /\ h < m
  BY <1>1, <1>3, <1>4
<1>6. h \in PowersOfTwo
  BY <1>1, <1>3, <1>5 DEF PowersOfTwo
<1>7. ~(n < enlarge_size(h))
  BY <1>1, <1>3, <1>5, <1>6
<1>8. n >= enlarge_size(h)
  BY <1>6, <1>7, SizeIs
<1> QED
  BY <1>3, <1>8, EnoughToStay

LEMMA CopySettles ==
  ASSUME hash \in HashFunctions, NEW N \in PowersOfTwo, NEW t, Whole(t, N),
         NEW wanted \in PowersOfTwo, NEW sz, Fits(t, wanted, sz), NEW r, r = copy_from(t, wanted)
  PROVE  /\ \E M \in PowersOfTwo : Whole(r, M)
         /\ bucket_count(r) \in PowersOfTwo /\ size(r) = size(t) /\ size(t) < enlarge_size(bucket_count(r))
         /\ bucket_count(r) >= wanted /\ bucket_count(r) <= sz
         /\ bucket_count(r) = wanted \/ size(t) >= shrink_size(bucket_count(r))
<1>1. PICK M \in PowersOfTwo : /\ M >= wanted /\ M <= sz /\ Good(r, M, TRUE) /\ IsCopied(r, t, M)
                               /\ M = min_buckets(size(t), wanted)
  <2> DEFINE full == TRUE
  <2>1. Good(t, N, full)
    BY DEF Whole
  <2> HIDE DEF full
  <2>2. PICK M \in PowersOfTwo : /\ M >= wanted /\ M <= sz /\ Good(copy_from(t, wanted), M, full)
                                 /\ IsCopied(copy_from(t, wanted), t, M)
                                 /\ M = min_buckets(size(t), wanted)
    BY <2>1, CopiedIs
  <2> QED
    BY <2>2 DEF full
<1>2. size(t) \in Nat /\ size(t) = Cardinality(Used(t.buckets)) /\ bucket_count(r) = M
  BY <1>1, TableIs DEF Whole
<1>3. size(r) = size(t)
  BY <1>1, <1>2 DEF IsCopied, size
<1>4. wanted \in Nat /\ sz \in PowersOfTwo /\ sz >= wanted /\ size(t) < enlarge_size(sz)
  BY DEF Fits
<1>5. \A y \in PowersOfTwo : y >= wanted /\ size(t) < enlarge_size(y) => M <= y
  BY <1>1, <1>2, <1>4, MinBucketsIs
<1>6. M = wanted \/ size(t) >= shrink_size(M)
  BY <1>1, <1>2, <1>5, TightIs
<1> QED
  BY <1>1, <1>2, <1>3, <1>6 DEF IsCopied, Whole

\* Enough items for its size, or so few buckets that it is never made smaller.
Enough(n, m) == m <= HT_DEFAULT_STARTING_BUCKETS \/ n >= shrink_size(m)

LEMMA ShrinkSettles ==
  ASSUME hash \in HashFunctions, NEW N \in PowersOfTwo, NEW t, Whole(t, N), NEW r, r = AfterShrink(t)
  PROVE  /\ size(r) = size(t)
         /\ bucket_count(r) = N \/ Enough(size(t), bucket_count(r))
<1>1. /\ bucket_count(t) = N /\ size(t) \in Nat /\ N \in Nat \ {0} /\ IsPowerOfTwo(N)
      /\ HT_DEFAULT_STARTING_BUCKETS \in PowersOfTwo
  BY TableIs, SizeIs, TableAssumption DEF Whole
<1>2. CASE ~t.consider_shrink
  BY <1>1, <1>2 DEF AfterShrink
<1>3. CASE t.consider_shrink /\ ~WouldShrink(t)
  <2>1. r = [t EXCEPT !.consider_shrink = FALSE]
    BY <1>3 DEF AfterShrink, maybe_shrink
  <2>2. r.buckets = t.buckets /\ r.num_elements = t.num_elements /\ r.num_deleted = t.num_deleted
    BY <2>1 DEF Whole, Good, Table
  <2> QED
    BY <1>1, <2>2 DEF size, bucket_count
<1>4. CASE t.consider_shrink /\ WouldShrink(t)
  <2> DEFINE smaller == {sz \in PowersOfTwo : 2 * sz <= N}
             enough  == {sz \in smaller : \/ sz <= HT_DEFAULT_STARTING_BUCKETS
                                          \/ 100 * size(t) >= sz * HT_EMPTY_PCT}
             wanted == Max(enough)
  <2>1. r = copy_from(t, wanted)
    BY <1>1, <1>4 DEF AfterShrink, maybe_shrink
  <2>2. HT_DEFAULT_STARTING_BUCKETS \in enough
    <3> DEFINE D == HT_DEFAULT_STARTING_BUCKETS
    <3>1. D \in Nat \ {0} /\ IsPowerOfTwo(D) /\ D < N
      BY <1>1, <1>4, SizeIs DEF WouldShrink
    <3>2. 2 * D <= N
      BY <1>1, <3>1, PowersAreFarApart
    <3> QED
      BY <1>1, <3>1, <3>2
  <2>3. enough \in SUBSET Nat /\ \A y \in enough : y <= N
    <3>1. \A y \in enough : y \in Nat /\ 2 * y <= N
      BY SizeIs
    <3> HIDE DEF enough
    <3> QED
      BY <1>1, <3>1
  <2>4. wanted \in enough
    <3> HIDE DEF enough, smaller
    <3> QED
      BY <1>1, <2>2, <2>3, GreatestExists
  <2>5. /\ wanted \in PowersOfTwo /\ wanted \in Nat /\ wanted <= N
        /\ wanted <= HT_DEFAULT_STARTING_BUCKETS \/ 100 * size(t) >= wanted * HT_EMPTY_PCT
    BY <2>3, <2>4
  <2> HIDE DEF wanted, enough
  <2>6. Fits(t, wanted, N)
    BY <1>1, <1>4, <2>5, PatienceIs DEF WouldShrink, Fits
  <2>7. /\ size(r) = size(t) /\ bucket_count(r) \in PowersOfTwo
        /\ bucket_count(r) = wanted \/ size(t) >= shrink_size(bucket_count(r))
    BY <2>1, <2>5, <2>6, CopySettles
  <2>8. 100 * size(t) >= wanted * HT_EMPTY_PCT => size(t) >= shrink_size(wanted)
    <3> DEFINE p == wanted * HT_EMPTY_PCT
    <3>1. p \in Nat
      BY <2>5, TableAssumption
    <3>2. shrink_size(wanted) = p \div 100
      BY DEF shrink_size
    <3> HIDE DEF p
    <3>3. 100 * size(t) >= p => size(t) >= p \div 100
      BY <1>1, <3>1
    <3> QED
      BY <3>2, <3>3 DEF p
  <2> QED
    BY <2>5, <2>7, <2>8 DEF Enough
<1> QED
  BY <1>2, <1>3, <1>4

LEMMA ResizeSettles ==
  ASSUME hash \in HashFunctions, NEW N \in PowersOfTwo, NEW t, Whole(t, N),
         N <= MaxBuckets, NEW r, r = resize_delta(t, 1)
  PROVE  /\ size(r) = size(t)
         /\ bucket_count(r) = N \/ Enough(size(t) + 1, bucket_count(r))
<1> DEFINE s == AfterShrink(t)
<1>1. size(s) = size(t) /\ (bucket_count(s) = N \/ Enough(size(t), bucket_count(s)))
  BY ShrinkSettles
<1>2. PICK L \in PowersOfTwo : L <= N /\ Whole(s, L) /\ s.num_elements <= t.num_elements
  BY AfterShrinkIs DEF Whole
<1>3. r = IF IsLargeEnough(s, 1) THEN s ELSE copy_from(s, resize_to(s, 1))
  BY DEF resize_delta, Resizes
<1> HIDE DEF s
<1>4. /\ bucket_count(s) = L /\ size(s) \in Nat /\ L \in Nat /\ N \in Nat /\ MaxBuckets \in Nat
      /\ s.num_elements \in Nat /\ s.num_elements < L
  BY <1>2, TableIs, SizeIs, SizeAssumption DEF Whole
<1>5. L = N \/ Enough(size(t) + 1, L)
  <2>1. shrink_size(L) \in Int
    <3>1. L * HT_EMPTY_PCT \in Nat
      BY <1>4, TableAssumption
    <3> QED
      BY <3>1 DEF shrink_size
  <2> QED
    BY <1>1, <1>4, <2>1 DEF Enough
<1>6. CASE IsLargeEnough(s, 1)
  BY <1>1, <1>3, <1>4, <1>5, <1>6
<1>7. CASE ~IsLargeEnough(s, 1)
  <2> DEFINE w == resize_to(s, 1)
             fitting == min_buckets(size(s) + 1, L)
  <2>1. s.num_elements + 1 <= 2 * MaxBuckets /\ L <= MaxBuckets
    BY <1>2, <1>4
  <2>2. w \in PowersOfTwo /\ size(s) + 1 < enlarge_size(w)
    BY <1>2, <2>1, ResizeToIs DEF Whole
  <2>3. \/ w = fitting
        \/ w = 2 * fitting /\ size(s) + 1 >= shrink_size(w)
    BY <1>4 DEF resize_to
  <2>4. fitting = L \/ size(s) + 1 >= shrink_size(fitting)
    <3>1. PICK sz \in PowersOfTwo : enlarge_size(sz) > 2 * MaxBuckets /\ sz > 2 * MaxBuckets
      BY RoomExists
    <3>2. sz >= L /\ size(s) + 1 < enlarge_size(sz) /\ size(s) + 1 \in Nat
      <4>1. sz \in Nat /\ enlarge_size(sz) \in Nat
        BY SizeIs
      <4>2. size(s) <= s.num_elements
        BY <1>2, TableIs DEF Whole
      <4> QED
        BY <1>4, <2>1, <3>1, <4>1, <4>2
    <3>3. /\ fitting \in PowersOfTwo /\ fitting >= L
          /\ \A y \in PowersOfTwo : y >= L /\ size(s) + 1 < enlarge_size(y) => fitting <= y
      BY <1>4, <3>2, MinBucketsIs
    <3> DEFINE n == size(s) + 1
    <3>4. n \in Nat /\ \A y \in PowersOfTwo : y >= L /\ n < enlarge_size(y) => fitting <= y
      BY <3>2, <3>3
    <3> HIDE DEF fitting, n
    <3>5. fitting = L \/ n >= shrink_size(fitting)
      BY <3>3, <3>4, TightIs
    <3> QED
      BY <3>5 DEF n
  <2>5. r = copy_from(s, w)
    BY <1>3, <1>7
  <2> HIDE DEF w, fitting
  <2>6. w \in Nat /\ enlarge_size(w) \in Nat
    BY <2>2, SizeIs
  <2>7. Fits(s, w, w)
    BY <1>4, <2>2, <2>6 DEF Fits
  <2>8. size(r) = size(s) /\ bucket_count(r) >= w /\ bucket_count(r) <= w /\ bucket_count(r) \in PowersOfTwo
    BY <1>2, <2>2, <2>5, <2>7, CopySettles
  <2>9. bucket_count(r) = w
    BY <2>6, <2>8, SizeIs
  <2>10. w = L \/ size(s) + 1 >= shrink_size(w)
    BY <2>3, <2>4
  <2> QED
    BY <1>1, <1>5, <2>8, <2>9, <2>10 DEF Enough
<1> QED
  BY <1>6, <1>7

LEMMA InsertKeepsSize ==
  ASSUME hash \in HashFunctions, NEW M \in PowersOfTwo, NEW s, Whole(s, M), NEW item, NEW r,
         r = insert_noresize(s, item) \/ \E b : r = insert_at(s, b, item)
  PROVE  bucket_count(r) = bucket_count(s)
<1>1. \A b : bucket_count(insert_at(s, b, item)) = bucket_count(s)
  <2> TAKE b
  <2> DEFINE x == insert_at(s, b, item)
  <2>1. x.buckets = [s.buckets EXCEPT ![b] = item]
    BY DEF insert_at, Whole, Good, Table
  <2> HIDE DEF x
  <2>2. DOMAIN x.buckets = DOMAIN s.buckets
    BY <2>1
  <2> QED
    BY <2>2 DEF bucket_count, x
<1> QED
  BY <1>1 DEF insert_noresize

LEMMA CountSettles ==
  ASSUME CountersInv, complete, NEW k \in DOMAIN hash, Count(k), bucket_count(ht') # bucket_count(ht)
  PROVE  IsSettled(ht')
<1> DEFINE t == find_or_insert(ht, k)
           b == find_position(t, k).bucket
           v == t.buckets[b].value + 1
           pos == find_position(ht, k)
           s == resize_delta(ht, 1)
           item == [key |-> k, value |-> 0]
<1>1. hash \in HashFunctions /\ complete = TRUE
  BY DEF CountersInv
<1>2. PICK N \in PowersOfTwo : N <= MaxBuckets /\ Whole(ht, N)
  BY <1>1 DEF CountersInv, AreGood, Whole
<1>3. PICK M \in PowersOfTwo : Good(ht', M, TRUE)
  BY <1>1, CountIsGood DEF Count
<1>4. ht' = [t EXCEPT !.buckets[b].value = v]
  BY DEF Count
<1>5. PICK L \in PowersOfTwo : Whole(t, L)
  BY <1>1, FindOrInsertIs DEF CountersInv, AreGood, Whole
<1> HIDE DEF v
<1>6. /\ L = M /\ bucket_count(ht') = M /\ size(ht') = size(t) /\ bucket_count(t) = L /\ bucket_count(ht) = N
      /\ ht'.num_elements < M /\ ht'.num_elements <= enlarge_size(M)
  <2>1. /\ t \in Table(L) /\ bucket_count(t) = L
    BY <1>1, <1>5, TableIs DEF Whole, Good
  <2> HIDE DEF t, b
  <2>2. /\ ht'.buckets = [t.buckets EXCEPT ![b].value = v]
        /\ ht'.num_elements = t.num_elements /\ ht'.num_deleted = t.num_deleted
    BY <1>4, <2>1 DEF Table
  <2>3. DOMAIN ht'.buckets = DOMAIN t.buckets
    BY <2>2
  <2>4. bucket_count(ht') = bucket_count(t) /\ size(ht') = size(t)
    BY <2>2, <2>3 DEF bucket_count, size
  <2>5. bucket_count(ht') = M /\ ht'.num_elements < M
    BY <1>1, <1>3, TableIs
  <2>6. ht'.num_elements <= enlarge_size(M)
    BY <1>3 DEF Good
  <2>7. bucket_count(ht) = N
    BY <1>1, <1>2, TableIs DEF Whole
  <2> QED
    BY <2>1, <2>4, <2>5, <2>6, <2>7
<1>7. t = IF pos.found THEN ht
          ELSE IF did_resize(ht, 1) THEN insert_noresize(s, item) ELSE insert_at(s, pos.bucket, item)
  BY DEF find_or_insert
<1>8. ~pos.found
  <2> HIDE DEF t
  <2>1. pos.found => t = ht
    BY <1>7
  <2> QED
    BY <1>6, <2>1
<1>9. size(t) = size(ht) + 1
  <2> DEFINE m == Contents(ht)
             n == Contents(t)
  <2>1. n = With(m, k, 0)
    BY OperationsAct DEF OperationsActOnMap
  <2>2. DOMAIN n = DOMAIN m \union {k}
    BY <2>1 DEF With
  <2>3. /\ IsFiniteSet(DOMAIN m) /\ Cardinality(DOMAIN m) = size(ht)
        /\ k \in DOMAIN m <=> ~HasNo(ht.buckets, k)
    BY <1>1, <1>2, ContentsAre DEF Whole
  <2>4. Cardinality(DOMAIN n) = size(t)
    BY <1>1, <1>5, ContentsAre DEF Whole
  <2>5. HasNo(ht.buckets, k)
    BY <1>1, <1>2, <1>8, SearchOf DEF Whole
  <2> HIDE DEF m, n
  <2> QED
    BY <2>2, <2>3, <2>4, <2>5, FS_AddElement
<1>10. PICK K \in PowersOfTwo : Whole(s, K)
  <2>1. ht.num_elements + 1 <= 2 * MaxBuckets
    <3>1. ht.num_elements \in Nat /\ ht.num_elements < N /\ N \in Nat /\ MaxBuckets \in Nat
      BY <1>1, <1>2, TableIs, SizeIs, SizeAssumption DEF Whole
    <3> QED
      BY <1>2, <3>1
  <2> DEFINE full == TRUE
  <2>2. Good(ht, N, full)
    BY <1>2 DEF Whole
  <2> HIDE DEF full
  <2>3. \E K \in PowersOfTwo : Good(s, K, full)
    BY <1>1, <1>2, <2>1, <2>2, ResizedIs
  <2> QED
    BY <2>3 DEF full, Whole
<1>11. bucket_count(t) = bucket_count(s)
  <2> HIDE DEF t, s, item
  <2>1. t = insert_noresize(s, item) \/ \E c : t = insert_at(s, c, item)
    BY <1>7, <1>8
  <2> QED
    BY <1>1, <1>10, <2>1, InsertKeepsSize
<1>12. bucket_count(s) = N \/ Enough(size(ht) + 1, bucket_count(s))
  BY <1>1, <1>2, ResizeSettles
<1> HIDE DEF t, s
<1>13. Enough(size(ht'), M)
  BY <1>6, <1>9, <1>11, <1>12
<1>14. ~WouldShrink(ht')
  <2>1. HT_DEFAULT_STARTING_BUCKETS \in Nat /\ M \in Nat /\ size(ht') \in Nat
    BY <1>1, <1>3, SizeIs, TableIs, TableAssumption
  <2>2. shrink_size(M) \in Int
    <3>1. M * HT_EMPTY_PCT \in Nat
      BY <2>1, TableAssumption
    <3> QED
      BY <3>1 DEF shrink_size
  <2> QED
    BY <1>6, <1>13, <2>1, <2>2 DEF WouldShrink, Enough
<1> QED
  BY <1>6, <1>14 DEF IsSettled

-----------------------------------------------------------------------------
(***************************************************************************)
(* The strings: where each one starts does not depend on those after it,   *)
(* and no two of them start at the same place.                             *)
(***************************************************************************)
LEMMA EndsAre ==
  ASSUME NEW data \in Seq(Strings), NEW end, end = Names!Ends(data)
  PROVE  /\ end \in [0 .. Len(data) -> Nat] /\ end[0] = 0
         /\ \A i \in 1 .. Len(data) : end[i] = end[i - 1] + Length[data[i]] + 1
<1> DEFINE n == Len(data)
           Is(f) == f = [i \in 0 .. n |-> IF i = 0 THEN 0 ELSE f[i - 1] + Length[data[i]] + 1]
<1>1. n \in Nat /\ \A i \in 1 .. n : Length[data[i]] \in Nat
  BY StringAssumption
<1>2. end = CHOOSE f : Is(f)
  BY DEF Names!Ends
<1> HIDE DEF n
<1>3. Is(end)
  <2> DEFINE G == [i \in 0 .. n - 1 |-> [x \in Nat |-> x + Length[data[i + 1]] + 1]]
  <2>1. G \in [0 .. n - 1 -> [Nat -> Nat]]
    <3>1. \A i \in 0 .. n - 1 : i + 1 \in 1 .. n
      BY <1>1
    <3>2. \A i \in 0 .. n - 1 : Length[data[i + 1]] \in Nat
      BY <1>1, <3>1
    <3> QED
      BY <3>2
  <2>2. PICK f \in [0 .. n -> Nat] : IsLoop(f, n, 0, G)
    <3> HIDE DEF G
    <3> QED
      BY <1>1, <2>1, LoopExists
  <2>3. ASSUME NEW i \in 0 .. n, i # 0
        PROVE  G[i - 1][f[i - 1]] = f[i - 1] + Length[data[i]] + 1
    <3>1. i - 1 \in 0 .. n - 1 /\ i - 1 \in 0 .. n /\ (i - 1) + 1 = i
      BY <1>1, <2>3
    <3>2. f[i - 1] \in Nat
      BY <3>1
    <3> QED
      BY <3>1, <3>2
  <2>4. Is(f)
    <3> HIDE DEF G
    <3> QED
      BY <2>2, <2>3 DEF IsLoop
  <2> HIDE DEF Is
  <2> QED
    BY <1>2, <2>4
<1>4. end[0] = 0 /\ \A i \in 1 .. n : end[i] = end[i - 1] + Length[data[i]] + 1
  <2>1. 0 \in 0 .. n /\ \A i \in 1 .. n : i \in 0 .. n /\ i # 0
    BY <1>1
  <2> QED
    BY <1>3, <2>1
<1>5. \A i \in 0 .. n : end[i] \in Nat
  <2> DEFINE X == {i \in 0 .. n : end[i] \in Nat}
  <2>1. ASSUME NEW i \in 0 .. n - 1, i \in X PROVE i + 1 \in X
    <3>1. i + 1 \in 1 .. n /\ (i + 1) - 1 = i
      BY <1>1
    <3>2. end[i + 1] = end[i] + Length[data[i + 1]] + 1
      BY <1>4, <3>1
    <3> QED
      BY <1>1, <2>1, <3>1, <3>2
  <2>2. 0 \in X
    BY <1>1, <1>4
  <2> HIDE DEF X
  <2>3. 0 .. n \subseteq X
    BY <1>1, <2>1, <2>2, StepByStep
  <2> QED
    BY <2>3 DEF X
<1>6. end \in [0 .. n -> Nat]
  BY <1>3, <1>5
<1> QED
  BY <1>4, <1>6 DEF n

LEMMA EndsIncrease ==
  ASSUME NEW data \in Seq(Strings), NEW end, end = Names!Ends(data),
         NEW i \in 0 .. Len(data), NEW j \in 0 .. Len(data), i < j
  PROVE  end[i] < end[j]
<1> DEFINE n == Len(data)
           X == {k \in 0 .. n : i < k => end[i] < end[k]}
<1>1. /\ n \in Nat /\ end \in [0 .. n -> Nat]
      /\ \A k \in 1 .. n : end[k] = end[k - 1] + Length[data[k]] + 1 /\ Length[data[k]] \in Nat
  BY EndsAre, StringAssumption
<1>2. ASSUME NEW k \in 0 .. n - 1, k \in X PROVE k + 1 \in X
  <2>1. k + 1 \in 1 .. n /\ (k + 1) - 1 = k /\ k \in 0 .. n
    BY <1>1
  <2>2. end[k + 1] = end[k] + Length[data[k + 1]] + 1 /\ Length[data[k + 1]] \in Nat /\ end[k] \in Nat /\ end[i] \in Nat
    BY <1>1, <2>1
  <2>3. i < k + 1 => i = k \/ i < k
    BY <1>1
  <2>4. i < k => end[i] < end[k]
    BY <1>2
  <2> HIDE DEF n
  <2>5. ASSUME i < k + 1 PROVE end[i] < end[k + 1]
    <3> DEFINE a == end[i]
               b == end[k]
               c == end[k + 1]
               l == Length[data[k + 1]]
    <3>1. a \in Nat /\ b \in Nat /\ l \in Nat /\ c = b + l + 1
      BY <2>2
    <3>2. a = b \/ a < b
      BY <2>3, <2>4, <2>5
    <3> HIDE DEF a, b, c, l
    <3>3. a < c
      BY ONLY <3>1, <3>2
    <3> QED
      BY <3>3 DEF a, c
  <2>6. k + 1 \in 0 .. n
    BY <1>1, <2>1
  <2> QED
    BY <2>5, <2>6
<1>3. 0 \in X
  BY <1>1
<1> HIDE DEF X
<1>4. 0 .. n \subseteq X
  BY <1>1, <1>2, <1>3, StepByStep
<1> QED
  BY <1>4 DEF X

LEMMA EndsOfPrefix ==
  ASSUME NEW data \in Seq(Strings), NEW longer \in Seq(Strings), Len(data) <= Len(longer),
         \A i \in 1 .. Len(data) : longer[i] = data[i], NEW i \in 0 .. Len(data)
  PROVE  Names!Ends(longer)[i] = Names!Ends(data)[i]
<1> DEFINE n == Len(data)
           e == Names!Ends(data)
           f == Names!Ends(longer)
           X == {k \in 0 .. n : f[k] = e[k]}
<1>1. n \in Nat /\ e[0] = 0 /\ \A k \in 1 .. n : e[k] = e[k - 1] + Length[data[k]] + 1
  BY EndsAre
<1>2. f[0] = 0 /\ \A k \in 1 .. n : f[k] = f[k - 1] + Length[data[k]] + 1
  <2>1. f[0] = 0 /\ \A k \in 1 .. Len(longer) : f[k] = f[k - 1] + Length[longer[k]] + 1
    BY EndsAre
  <2>2. \A k \in 1 .. n : k \in 1 .. Len(longer)
    BY <1>1
  <2> QED
    BY <2>1, <2>2
<1> HIDE DEF e, f
<1>3. ASSUME NEW k \in 0 .. n - 1, k \in X PROVE k + 1 \in X
  <2>1. k + 1 \in 1 .. n /\ (k + 1) - 1 = k
    BY <1>1
  <2> QED
    BY <1>1, <1>2, <1>3, <2>1
<1>4. 0 \in X
  BY <1>1, <1>2
<1> HIDE DEF X
<1>5. 0 .. n \subseteq X
  BY <1>1, <1>3, <1>4, StepByStep
<1> QED
  BY <1>5 DEF X, e, f

LEMMA StartsAre ==
  ASSUME NEW data \in Seq(Strings)
  PROVE  /\ \A i \in DOMAIN data : Names!Start(data, i) \in Nat
         /\ \A i, j \in DOMAIN data : Names!Start(data, i) = Names!Start(data, j) => i = j
         /\ \A i \in DOMAIN data : Names!getString(data, Names!Start(data, i)) = data[i]
<1> DEFINE n == Len(data)
           e == Names!Ends(data)
<1>1. n \in Nat /\ DOMAIN data = 1 .. n /\ e \in [0 .. n -> Nat]
  BY EndsAre
<1>2. \A i \in 1 .. n : Names!Start(data, i) = e[i - 1]
  BY DEF Names!Start
<1>3. \A i, j \in 0 .. n : i < j => e[i] < e[j]
  BY EndsIncrease
<1> HIDE DEF e
<1>4. \A i \in 1 .. n : i - 1 \in 0 .. n
  BY <1>1
<1>5. \A i \in 1 .. n : Names!Start(data, i) \in Nat
  BY <1>1, <1>2, <1>4
<1>6. ASSUME NEW i \in 1 .. n, NEW j \in 1 .. n, Names!Start(data, i) = Names!Start(data, j)
      PROVE  i = j
  <2>1. e[i - 1] = e[j - 1] /\ e[i - 1] \in Nat
    BY <1>1, <1>2, <1>4, <1>6
  <2>2. ~(i - 1 < j - 1) /\ ~(j - 1 < i - 1)
    BY <1>3, <1>4, <2>1
  <2> QED
    BY <1>1, <2>2
<1>7. ASSUME NEW i \in 1 .. n PROVE Names!getString(data, Names!Start(data, i)) = data[i]
  <2> DEFINE c == CHOOSE j \in DOMAIN data : Names!Start(data, j) = Names!Start(data, i)
  <2>1. c \in 1 .. n /\ Names!Start(data, c) = Names!Start(data, i)
    BY <1>1
  <2> HIDE DEF c
  <2>2. c = i
    BY <1>6, <2>1
  <2> QED
    BY <2>2 DEF Names!getString, c
<1> QED
  BY <1>1, <1>5, <1>6, <1>7

LEMMA StartsStay ==
  ASSUME NEW data \in Seq(Strings), NEW s \in Strings
  PROVE  /\ \A i \in DOMAIN data : Names!Start(Append(data, s), i) = Names!Start(data, i)
         /\ Names!Start(Append(data, s), Len(data) + 1) = Names!DataSize(data)
<1>1. Len(data) \in Nat /\ DOMAIN data = 1 .. Len(data)
  OBVIOUS
<1>2. \A i \in 1 .. Len(data) + 1 : i - 1 \in 0 .. Len(data)
  BY <1>1
<1>3. \A i \in 1 .. Len(data) + 1 : Names!Start(Append(data, s), i) = Names!Ends(data)[i - 1]
  <2> DEFINE d == Append(data, s)
  <2>1. d \in Seq(Strings) /\ Len(data) <= Len(d) /\ \A i \in 1 .. Len(data) : d[i] = data[i]
    BY <1>1
  <2> HIDE DEF d
  <2>2. \A i \in 0 .. Len(data) : Names!Ends(d)[i] = Names!Ends(data)[i]
    BY <2>1, EndsOfPrefix
  <2> QED
    BY <1>2, <2>2 DEF Names!Start, d
<1>4. (Len(data) + 1) - 1 = Len(data) /\ Len(data) + 1 \in 1 .. Len(data) + 1
  BY <1>1
<1>5. Names!Start(Append(data, s), Len(data) + 1) = Names!DataSize(data)
  BY <1>3, <1>4 DEF Names!DataSize
<1>6. \A i \in 1 .. Len(data) : i \in 1 .. Len(data) + 1
  BY <1>1
<1> QED
  BY <1>1, <1>3, <1>5, <1>6 DEF Names!Start

-----------------------------------------------------------------------------
(***************************************************************************)
(* The table of the strings, of which the first k are in it: the places    *)
(* from the one of its hash value to that of a string are taken.           *)
(***************************************************************************)
At(s, n, N) == (stringHash[s] + n) % N

Taken(hashes) == {p \in DOMAIN hashes : hashes[p] # -1}

Reached(hashes, N, s, p) ==
  \E n \in 0 .. N - 1 : At(s, n, N) = p /\ \A m \in 0 .. n - 1 : hashes[At(s, m, N)] # -1

Holds(data, k, hashes, N) ==
  /\ hashes \in [0 .. N - 1 -> Int]
  /\ Cardinality(Taken(hashes)) = k
  /\ \A p \in Taken(hashes) : \E i \in 1 .. k : hashes[p] = Names!Start(data, i)
  /\ \A i \in 1 .. k : \E p \in Taken(hashes) :
        hashes[p] = Names!Start(data, i) /\ Reached(hashes, N, data[i], p)

LEMMA SameCardinality == \A S : Names!Cardinality(S) = Cardinality(S)
  BY DEF Names!Cardinality, Cardinality

LEMMA PlacesAre ==
  ASSUME stringHash \in StringHashes, NEW N \in Nat \ {0}, NEW hashes \in [0 .. N - 1 -> Int],
         NEW s \in Strings, NEW n \in Nat
  PROVE  /\ Names!HashSize(hashes) = N /\ Names!Slot(s, n, hashes) = At(s, n, N)
         /\ At(s, n, N) \in 0 .. N - 1
         /\ Names!IsFree(s, n, hashes) <=> hashes[At(s, n, N)] = -1
<1>1. Names!HashSize(hashes) = N
  <2>1. DOMAIN hashes = 0 .. N - 1 /\ Cardinality(0 .. N - 1) = N
    BY FS_Interval
  <2> QED
    BY <2>1, SameCardinality DEF Names!HashSize
<1>2. stringHash[s] + n \in Nat
  BY StringAssumption
<1> QED
  BY <1>1, <1>2 DEF Names!Slot, Names!IsFree, At

LEMMA SameMinimum == \A S : Names!Min(S) = Min(S)
  BY DEF Names!Min, Min

\* A search comes to every place.
LEMMA EveryPlaceIsReached ==
  ASSUME stringHash \in StringHashes, NEW N \in Nat \ {0}, NEW s \in Strings, NEW p \in 0 .. N - 1
  PROVE  \E n \in 0 .. N - 1 : At(s, n, N) = p
<1> DEFINE h == stringHash[s]
           q == h \div N
           r == h % N
<1>1. h \in Nat
  BY StringAssumption
<1> HIDE DEF h
<1>2. h = N * q + r /\ q \in Nat /\ r \in 0 .. N - 1
  BY <1>1, Division
<1> HIDE DEF q, r
<1>3. CASE r <= p
  <2>1. p - r \in 0 .. N - 1 /\ h + (p - r) = N * q + p /\ h + (p - r) \in Nat
    BY <1>1, <1>2, <1>3
  <2>2. (h + (p - r)) % N = p
    BY <1>2, <2>1, DivisionIs
  <2> QED
    BY <2>1, <2>2 DEF At, h
<1>4. CASE p < r
  <2>1. p - r + N \in 0 .. N - 1 /\ h + (p - r + N) = N * (q + 1) + p /\ h + (p - r + N) \in Nat /\ q + 1 \in Int
    BY <1>1, <1>2, <1>4
  <2>2. (h + (p - r + N)) % N = p
    BY <2>1, DivisionIs
  <2> QED
    BY <2>1, <2>2 DEF At, h
<1> QED
  BY <1>2, <1>3, <1>4

LEMMA TakenIs ==
  ASSUME NEW N \in Nat, NEW hashes \in [0 .. N - 1 -> Int]
  PROVE  /\ Taken(hashes) \subseteq 0 .. N - 1 /\ IsFiniteSet(Taken(hashes))
         /\ Cardinality(Taken(hashes)) \in Nat /\ Cardinality(Taken(hashes)) <= N
         /\ Cardinality(Taken(hashes)) < N => \E p \in 0 .. N - 1 : hashes[p] = -1
<1>1. Taken(hashes) \subseteq 0 .. N - 1 /\ IsFiniteSet(0 .. N - 1) /\ Cardinality(0 .. N - 1) = N
  BY FS_Interval DEF Taken
<1>2. /\ IsFiniteSet(Taken(hashes)) /\ Cardinality(Taken(hashes)) \in Nat
      /\ Cardinality(Taken(hashes)) <= N
  BY <1>1, FS_Subset, FS_CardinalityType
<1>3. Cardinality(Taken(hashes)) < N => Taken(hashes) # 0 .. N - 1
  BY <1>1, <1>2
<1>4. Taken(hashes) # 0 .. N - 1 => \E p \in 0 .. N - 1 : hashes[p] = -1
  BY DEF Taken
<1> QED
  BY <1>1, <1>2, <1>3, <1>4

LEMMA AddHashIs ==
  ASSUME stringHash \in StringHashes, NEW data \in Seq(Strings), NEW N \in Nat \ {0},
         NEW k \in Nat, k < Len(data), k < N, NEW hashes, Holds(data, k, hashes, N),
         NEW new, new = Names!addHashNoRehash(hashes, data[k + 1], Names!Start(data, k + 1))
  PROVE  Holds(data, k + 1, new, N)
<1> DEFINE s == data[k + 1]
           v == Names!Start(data, k + 1)
           free == {n \in 0 .. N - 1 : hashes[At(s, n, N)] = -1}
           first == Min(free)
           b == At(s, first, N)
<1>1. /\ hashes \in [0 .. N - 1 -> Int] /\ DOMAIN hashes = 0 .. N - 1 /\ k + 1 \in DOMAIN data
      /\ s \in Strings /\ DOMAIN data = 1 .. Len(data) /\ Len(data) \in Nat
  BY DEF Holds
<1>2. v \in Nat /\ \A i \in DOMAIN data : Names!Start(data, i) \in Nat
  BY <1>1, StartsAre
<1> HIDE DEF v
<1>3. \A n \in Nat : At(s, n, N) \in 0 .. N - 1 /\ (Names!IsFree(s, n, hashes) <=> hashes[At(s, n, N)] = -1)
                     /\ Names!Slot(s, n, hashes) = At(s, n, N)
  <2> HIDE DEF s
  <2> TAKE n \in Nat
  <2> QED
    BY <1>1, PlacesAre
<1>4. first \in free /\ \A n \in free : first <= n
  <2>1. PICK p \in 0 .. N - 1 : hashes[p] = -1
    BY <1>1, TakenIs DEF Holds
  <2>2. \E n \in 0 .. N - 1 : At(s, n, N) = p
    BY <1>1, EveryPlaceIsReached
  <2>3. free \in SUBSET Nat /\ free # {}
    BY <2>1, <2>2
  <2> HIDE DEF free
  <2> QED
    BY <2>3, LeastExists
<1>5. {n \in DOMAIN hashes : Names!IsFree(s, n, hashes)} = free
  <2>1. \A n \in 0 .. N - 1 : n \in Nat
    OBVIOUS
  <2>2. \A n \in 0 .. N - 1 : Names!IsFree(s, n, hashes) <=> hashes[At(s, n, N)] = -1
    BY <1>3, <2>1
  <2> QED
    BY <1>1, <2>2
<1>6. first \in 0 .. N - 1 /\ b \in 0 .. N - 1 /\ hashes[b] = -1
      /\ \A m \in 0 .. first - 1 : hashes[At(s, m, N)] # -1
  <2>1. first \in 0 .. N - 1 /\ hashes[b] = -1
    BY <1>4
  <2>2. ASSUME NEW m \in 0 .. first - 1 PROVE hashes[At(s, m, N)] # -1
    <3>1. m \in 0 .. N - 1 /\ ~(first <= m)
      BY <2>1
    <3> QED
      BY <1>4, <3>1
  <2>3. first \in Nat
    BY <2>1
  <2> HIDE DEF first
  <2>4. b \in 0 .. N - 1
    BY <1>3, <2>3
  <2> QED
    BY <2>1, <2>2, <2>4
<1>7. new = [hashes EXCEPT ![b] = v]
  <2>1. Names!Min({n \in DOMAIN hashes : Names!IsFree(s, n, hashes)}) = first
    BY <1>5, SameMinimum
  <2>2. first \in Nat
    BY <1>6
  <2>3. Names!Slot(s, first, hashes) = b
    BY <1>3, <2>2
  <2> QED
    BY <2>1, <2>3 DEF Names!addHashNoRehash, v
<1> HIDE DEF first, free
<1> HIDE DEF b
<1>8. /\ new \in [0 .. N - 1 -> Int] /\ DOMAIN new = 0 .. N - 1 /\ new[b] = v /\ v # -1
      /\ \A p \in 0 .. N - 1 : p # b => new[p] = hashes[p]
  <2>1. b \in 0 .. N - 1 /\ v \in Int /\ v # -1
    BY <1>2, <1>6
  <2> HIDE DEF Holds, s
  <2> QED
    BY ONLY <1>1, <1>7, <2>1
<1>9. Taken(new) = Taken(hashes) \union {b} /\ b \notin Taken(hashes)
  BY <1>1, <1>6, <1>8 DEF Taken
<1>10. Cardinality(Taken(new)) = k + 1
  <2>1. IsFiniteSet(Taken(hashes)) /\ Cardinality(Taken(hashes)) = k
    BY <1>1, TakenIs DEF Holds
  <2> QED
    BY <1>9, <2>1, FS_AddElement
<1>11. \A p \in 0 .. N - 1 : hashes[p] # -1 => new[p] # -1
  BY <1>8
<1>12. ASSUME NEW p \in Taken(new)
       PROVE  \E i \in 1 .. k + 1 : new[p] = Names!Start(data, i)
  <2>1. CASE p = b
    <3>1. k + 1 \in 1 .. k + 1
      OBVIOUS
    <3> QED
      BY <1>8, <2>1, <3>1 DEF v
  <2>2. CASE p # b
    <3>1. p \in Taken(hashes) /\ p \in 0 .. N - 1
      BY <1>1, <1>9, <2>2, TakenIs
    <3>2. PICK i \in 1 .. k : hashes[p] = Names!Start(data, i)
      BY <3>1 DEF Holds
    <3>3. i \in 1 .. k + 1
      OBVIOUS
    <3> QED
      BY <1>8, <2>2, <3>1, <3>2, <3>3
  <2> QED
    BY <2>1, <2>2
<1>13. ASSUME NEW i \in 1 .. k + 1
       PROVE  \E p \in Taken(new) : new[p] = Names!Start(data, i) /\ Reached(new, N, data[i], p)
  <2>1. CASE i = k + 1
    <3>1. Reached(new, N, s, b)
      <4>1. \A m \in 0 .. first - 1 : m \in Nat /\ At(s, m, N) \in 0 .. N - 1
        <5>1. \A m \in 0 .. first - 1 : m \in Nat
          BY <1>6
        <5> QED
          BY <1>3, <5>1
      <4>2. \A m \in 0 .. first - 1 : new[At(s, m, N)] # -1
        BY <1>6, <1>11, <4>1
      <4> QED
        BY <1>6, <4>2 DEF Reached, b
    <3> QED
      BY <1>8, <1>9, <2>1, <3>1 DEF v
  <2>2. CASE i # k + 1
    <3>1. i \in 1 .. k /\ i \in DOMAIN data /\ data[i] \in Strings
      BY <1>1, <2>2
    <3>2. PICK p \in Taken(hashes) : hashes[p] = Names!Start(data, i) /\ Reached(hashes, N, data[i], p)
      BY <3>1 DEF Holds
    <3>3. p \in 0 .. N - 1 /\ p # b /\ p \in Taken(new) /\ new[p] = hashes[p]
      BY <1>1, <1>8, <1>9, TakenIs
    <3>4. PICK n \in 0 .. N - 1 : At(data[i], n, N) = p
                                  /\ \A m \in 0 .. n - 1 : hashes[At(data[i], m, N)] # -1
      BY <3>2 DEF Reached
    <3>5. \A m \in 0 .. n - 1 : At(data[i], m, N) \in 0 .. N - 1
      <4>1. \A m \in Nat : At(data[i], m, N) \in 0 .. N - 1
        BY <1>1, <3>1, PlacesAre
      <4>2. \A m \in 0 .. n - 1 : m \in Nat
        OBVIOUS
      <4> QED
        BY <4>1, <4>2
    <3>6. \A m \in 0 .. n - 1 : new[At(data[i], m, N)] # -1
      BY <1>11, <3>4, <3>5
    <3> QED
      BY <3>2, <3>3, <3>4, <3>6 DEF Reached
  <2> QED
    BY <2>1, <2>2
<1> QED
  BY <1>8, <1>10, <1>12, <1>13 DEF Holds

LEMMA NothingIsHeld ==
  ASSUME NEW data, NEW N \in Nat
  PROVE  Holds(data, 0, Names!NoHashes(N), N)
<1> DEFINE hashes == Names!NoHashes(N)
<1>1. hashes \in [0 .. N - 1 -> Int] /\ Taken(hashes) = {}
  BY DEF Names!NoHashes, Taken
<1>2. Cardinality(Taken(hashes)) = 0
  BY <1>1, FS_EmptySet
<1>3. 1 .. 0 = {}
  OBVIOUS
<1> HIDE DEF hashes
<1>4. Holds(data, 0, hashes, N)
  BY <1>1, <1>2, <1>3 DEF Holds
<1> QED
  BY <1>4 DEF hashes

SizeFor(data, N) == N \in Nat /\ ((N = 0 /\ Len(data) = 0) \/ (N >= 3 /\ Len(data) < N))

LEMMA RehashIs ==
  ASSUME stringHash \in StringHashes, NEW data \in Seq(Strings), NEW N \in Nat,
         Len(data) < N \/ Len(data) = 0
  PROVE  Holds(data, Len(data), Names!rehashAll(data, N), N)
<1> DEFINE n == Len(data)
           S == [0 .. N - 1 -> Int]
           start == Names!NoHashes(N)
           Add(x, i) == Names!addHashNoRehash(x, data[i], Names!Start(data, i))
           Is(f) == f = [i \in 0 .. n |-> IF i = 0 THEN start ELSE Add(f[i - 1], i)]
           after == CHOOSE f : Is(f)
<1>1. n \in Nat /\ DOMAIN data = 1 .. n /\ Names!rehashAll(data, N) = after[n]
  BY DEF Names!rehashAll
<1>2. start \in S /\ Holds(data, 0, start, N)
  <2>1. Holds(data, 0, start, N)
    BY NothingIsHeld
  <2> QED
    BY <2>1 DEF Holds
<1>3. \A x \in S, i \in 1 .. n : Add(x, i) \in S
  <2> TAKE x \in S, i \in 1 .. n
  <2> DEFINE v == Names!Start(data, i)
  <2>1. v \in Int
    BY <1>1, StartsAre
  <2> HIDE DEF v
  <2>2. \A b : [x EXCEPT ![b] = v] \in S
    BY <2>1
  <2> QED
    BY <2>2 DEF Names!addHashNoRehash, v
<1> HIDE DEF n, S, start, Add
<1>4. Is(after)
  <2> DEFINE G == [i \in 0 .. n - 1 |-> [x \in S |-> Add(x, i + 1)]]
  <2>1. G \in [0 .. n - 1 -> [S -> S]]
    <3>1. \A i \in 0 .. n - 1 : i + 1 \in 1 .. n
      BY <1>1
    <3> QED
      BY <1>3, <3>1
  <2>2. PICK f \in [0 .. n -> S] : IsLoop(f, n, start, G)
    <3> HIDE DEF G
    <3> QED
      BY <1>1, <1>2, <2>1, LoopExists
  <2>3. ASSUME NEW i \in 0 .. n, i # 0
        PROVE  G[i - 1][f[i - 1]] = Add(f[i - 1], i)
    <3>1. i - 1 \in 0 .. n - 1 /\ i - 1 \in 0 .. n /\ (i - 1) + 1 = i
      BY <1>1, <2>3
    <3>2. f[i - 1] \in S
      BY <3>1
    <3> QED
      BY <3>1, <3>2
  <2>4. Is(f)
    <3> HIDE DEF G
    <3> QED
      BY <2>2, <2>3 DEF IsLoop
  <2> HIDE DEF Is
  <2> QED
    BY <2>4
<1> HIDE DEF after
<1> DEFINE X == {i \in 0 .. n : Holds(data, i, after[i], N)}
<1>5. 0 \in X
  <2>1. after[0] = start /\ 0 \in 0 .. n
    BY <1>1, <1>4
  <2> QED
    BY <1>2, <2>1
<1>6. ASSUME NEW i \in 0 .. n - 1, i \in X PROVE i + 1 \in X
  <2>1. i + 1 \in 0 .. n /\ i + 1 # 0 /\ (i + 1) - 1 = i /\ i \in Nat /\ i < n /\ i < N /\ N # 0
    BY <1>1 DEF n
  <2>2. after[i + 1] = Add(after[i], i + 1)
    BY <1>4, <2>1
  <2> DEFINE x == after[i]
             y == after[i + 1]
  <2>3. Holds(data, i, x, N) /\ y = Names!addHashNoRehash(x, data[i + 1], Names!Start(data, i + 1))
    BY <1>6, <2>2 DEF Add
  <2> HIDE DEF x, y
  <2>4. i < Len(data) /\ N \in Nat \ {0}
    BY <2>1 DEF n
  <2>5. Holds(data, i + 1, y, N)
    BY <2>1, <2>3, <2>4, AddHashIs
  <2> QED
    BY <2>1, <2>5 DEF y
<1> HIDE DEF X
<1>7. 0 .. n \subseteq X
  BY <1>1, <1>5, <1>6, StepByStep
<1>8. Holds(data, n, after[n], N)
  BY <1>1, <1>7 DEF X
<1> QED
  BY <1>1, <1>8 DEF n

\* A string is found if and only if it is one of data.
LEMMA FindIs ==
  ASSUME stringHash \in StringHashes, NEW data \in Seq(Strings), NEW N, SizeFor(data, N),
         NEW hashes, Holds(data, Len(data), hashes, N), NEW s \in Strings
  PROVE  /\ \/ Names!HashSize(hashes) = 0
            \/ \E n \in DOMAIN hashes : Names!IsFreeOrFound(s, n, data, hashes)
         /\ \/ \E i \in DOMAIN data : data[i] = s /\ Names!findString(data, hashes, s) = Names!Start(data, i)
            \/ (\A i \in DOMAIN data : data[i] # s) /\ Names!findString(data, hashes, s) = -1
<1> DEFINE id == Names!findString(data, hashes, s)
<1>1. /\ hashes \in [0 .. N - 1 -> Int] /\ DOMAIN hashes = 0 .. N - 1 /\ N \in Nat
      /\ DOMAIN data = 1 .. Len(data) /\ Len(data) \in Nat
  BY DEF Holds, SizeFor
<1>2. CASE N = 0
  <2>1. Names!HashSize(hashes) = 0
    <3>1. DOMAIN hashes = {}
      BY <1>1, <1>2
    <3>2. Cardinality(DOMAIN hashes) = 0
      BY <3>1, FS_EmptySet
    <3> QED
      BY <3>2, SameCardinality DEF Names!HashSize
  <2>2. id = -1
    BY <2>1 DEF Names!findString
  <2>3. DOMAIN data = {}
    BY <1>1, <1>2 DEF SizeFor
  <2> QED
    BY <2>1, <2>2, <2>3
<1>3. CASE N # 0
  <2> DEFINE ends == {n \in 0 .. N - 1 : Names!IsFreeOrFound(s, n, data, hashes)}
             last == Min(ends)
             p == At(s, last, N)
  <2>1. N \in Nat \ {0} /\ Len(data) < N
    BY <1>1, <1>3 DEF SizeFor
  <2>2. Names!HashSize(hashes) = N
    BY <1>1, <2>1, PlacesAre
  <2>3. ASSUME NEW n \in 0 .. N - 1
        PROVE  /\ At(s, n, N) \in 0 .. N - 1
               /\ Names!IsFreeOrFound(s, n, data, hashes) <=>
                    \/ hashes[At(s, n, N)] = -1
                    \/ Names!getString(data, hashes[At(s, n, N)]) = s
    <3>1. n \in Nat
      OBVIOUS
    <3>2. /\ Names!Slot(s, n, hashes) = At(s, n, N) /\ At(s, n, N) \in 0 .. N - 1
          /\ Names!IsFree(s, n, hashes) <=> hashes[At(s, n, N)] = -1
      BY <1>1, <2>1, <3>1, PlacesAre
    <3> QED
      BY <3>2 DEF Names!IsFreeOrFound
  <2>4. \E n \in 0 .. N - 1 : n \in ends
    <3>1. PICK q \in 0 .. N - 1 : hashes[q] = -1
      BY <1>1, <2>1, TakenIs DEF Holds
    <3>2. PICK n \in 0 .. N - 1 : At(s, n, N) = q
      BY <2>1, EveryPlaceIsReached
    <3> QED
      BY <2>3, <3>1, <3>2
  <2>5. last \in ends /\ \A n \in ends : last <= n
    <3>1. ends \in SUBSET Nat /\ ends # {}
      BY <2>4
    <3> HIDE DEF ends
    <3> QED
      BY <3>1, LeastExists
  <2>6. \E n \in DOMAIN hashes : Names!IsFreeOrFound(s, n, data, hashes)
    BY <1>1, <2>4
  <2>7. id = hashes[p]
    <3>1. {n \in DOMAIN hashes : Names!IsFreeOrFound(s, n, data, hashes)} = ends
      BY <1>1
    <3>2. last \in Nat /\ last \in 0 .. N - 1
      BY <2>5
    <3> HIDE DEF ends, last
    <3>3. Names!Slot(s, last, hashes) = p
      BY <1>1, <2>1, <3>2, PlacesAre
    <3>4. Names!Min(ends) = last
      BY SameMinimum DEF last
    <3> QED
      BY <2>1, <2>2, <3>1, <3>3, <3>4 DEF Names!findString
  <2>8. last \in 0 .. N - 1
    BY <2>5
  <2>9. p \in 0 .. N - 1 /\ (hashes[p] = -1 \/ Names!getString(data, hashes[p]) = s)
    BY <2>3, <2>5, <2>8
  <2> HIDE DEF id
  <2>10. CASE \E i \in DOMAIN data : data[i] = s
    <3>1. PICK i \in DOMAIN data : data[i] = s
      BY <2>10
    <3>2. i \in 1 .. Len(data)
      BY <1>1
    <3>3. PICK q \in Taken(hashes) : hashes[q] = Names!Start(data, i) /\ Reached(hashes, N, data[i], q)
      BY <3>2 DEF Holds
    <3>4. PICK n \in 0 .. N - 1 : At(s, n, N) = q /\ \A m \in 0 .. n - 1 : hashes[At(s, m, N)] # -1
      BY <3>1, <3>3 DEF Reached
    <3>5. Names!getString(data, hashes[q]) = s
      BY <3>1, <3>3, StartsAre
    <3>6. n \in ends
      BY <2>3, <3>4, <3>5
    <3>7. last <= n
      BY <2>5, <3>6
    <3> HIDE DEF last
    <3>8. hashes[p] # -1
      <4>1. last = n \/ last \in 0 .. n - 1
        BY <2>8, <3>7
      <4>2. hashes[q] # -1
        BY DEF Taken
      <4> QED
        BY <3>4, <4>1, <4>2
    <3>9. PICK j \in 1 .. Len(data) : hashes[p] = Names!Start(data, j)
      <4>1. p \in Taken(hashes)
        BY <1>1, <2>9, <3>8 DEF Taken
      <4> QED
        BY <4>1 DEF Holds
    <3>10. data[j] = s
      BY <1>1, <2>9, <3>8, <3>9, StartsAre
    <3> QED
      BY <1>1, <2>6, <2>7, <3>9, <3>10 DEF id
  <2>11. CASE \A i \in DOMAIN data : data[i] # s
    <3>1. ASSUME hashes[p] # -1 PROVE FALSE
      <4>1. p \in Taken(hashes)
        BY <1>1, <2>9, <3>1 DEF Taken
      <4>2. PICK j \in 1 .. Len(data) : hashes[p] = Names!Start(data, j)
        BY <4>1 DEF Holds
      <4>3. data[j] = s
        BY <1>1, <2>9, <3>1, <4>2, StartsAre
      <4> QED
        BY <1>1, <2>11, <4>3
    <3> QED
      BY <2>6, <2>7, <2>11, <3>1 DEF id
  <2> QED
    BY <2>10, <2>11
<1> QED
  BY <1>2, <1>3

-----------------------------------------------------------------------------
(***************************************************************************)
(* The invariant of the names.                                             *)
(***************************************************************************)
IsDistinct(data) == \A i, j \in DOMAIN data : data[i] = data[j] => i = j

AreHeld(data, load, hashes) ==
  /\ data \in Seq(Strings) /\ IsDistinct(data) /\ load = Len(data)
  /\ \E N \in Nat : SizeFor(data, N) /\ Holds(data, Len(data), hashes, N)

NamesInv ==
  /\ stringHash \in StringHashes /\ intact \in BOOLEAN
  /\ file.data \in Seq(Strings) /\ IsDistinct(file.data) /\ SizeFor(file.data, file.hash_size)
  /\ intact => AreHeld(m_data, m_hashTableLoad, m_hashes)

LEMMA InitIsHeld == ASSUME Names!Init PROVE NamesInv
<1>1. /\ stringHash \in StringHashes /\ intact = TRUE /\ m_data = <<>> /\ m_hashes = Names!NoHashes(0)
      /\ m_hashTableLoad = 0 /\ file.data = <<>> /\ file.hash_size = 0
  BY DEF Names!Init, Names!NoFile
<1>2. /\ <<>> \in Seq(Strings) /\ IsDistinct(<<>>) /\ SizeFor(<<>>, 0) /\ Len(<<>>) = 0
  <2>1. <<>> \in Seq(Strings) /\ Len(<<>>) = 0 /\ DOMAIN <<>> = {}
    OBVIOUS
  <2> QED
    BY <2>1 DEF IsDistinct, SizeFor
<1>3. Holds(<<>>, 0, Names!NoHashes(0), 0)
  BY NothingIsHeld
<1>4. AreHeld(m_data, m_hashTableLoad, m_hashes)
  BY <1>1, <1>2, <1>3 DEF AreHeld
<1> QED
  BY <1>1, <1>2, <1>4 DEF NamesInv

\* A string that is not there yet is put into a table that has room for it.
LEMMA HeldBefore ==
  ASSUME NEW data \in Seq(Strings), NEW s \in Strings, NEW hashes, NEW N, Holds(data, Len(data), hashes, N)
  PROVE  Holds(Append(data, s), Len(data), hashes, N)
<1> DEFINE d == Append(data, s)
<1>1. \A i \in 1 .. Len(data) : d[i] = data[i] /\ Names!Start(d, i) = Names!Start(data, i)
  BY StartsStay
<1> HIDE DEF d
<1>2. Holds(d, Len(data), hashes, N)
  BY <1>1 DEF Holds
<1> QED
  BY <1>2 DEF d

LEMMA AddStringIs ==
  ASSUME stringHash \in StringHashes, NEW data \in Seq(Strings), IsDistinct(data),
         NEW N, SizeFor(data, N), NEW hashes, Holds(data, Len(data), hashes, N),
         NEW s \in Strings, Names!findString(data, hashes, s) = -1,
         NEW grown, grown = IF Names!NeedsToGrow(Len(data), hashes)
                            THEN Names!rehashAll(data, 2 * Names!HashSize(hashes) + 3) ELSE hashes
  PROVE  AreHeld(Append(data, s), Len(data) + 1, Names!addHashNoRehash(grown, s, Names!DataSize(data)))
<1> DEFINE d == Append(data, s)
           n == Len(data)
           new == Names!addHashNoRehash(grown, s, Names!DataSize(data))
<1>1. /\ d \in Seq(Strings) /\ Len(d) = n + 1 /\ n \in Nat /\ d[n + 1] = s
      /\ DOMAIN data = 1 .. n /\ DOMAIN d = 1 .. n + 1 /\ \A i \in 1 .. n : d[i] = data[i]
  OBVIOUS
<1>2. N \in Nat /\ ((N = 0 /\ n = 0) \/ (N >= 3 /\ n < N)) /\ hashes \in [0 .. N - 1 -> Int]
  BY DEF SizeFor, Holds
<1>3. Names!HashSize(hashes) = N
  <2>1. DOMAIN hashes = 0 .. N - 1 /\ Cardinality(0 .. N - 1) = N
    BY <1>2, FS_Interval
  <2> QED
    BY <2>1, SameCardinality DEF Names!HashSize
<1>4. IsDistinct(d)
  <2>1. \A i \in DOMAIN data : data[i] # s
    <3>1. \A i \in DOMAIN data : Names!Start(data, i) # -1
      BY StartsAre
    <3> QED
      BY <3>1, FindIs
  <2> HIDE DEF d
  <2>2. \A i \in 1 .. n + 1 : i = n + 1 \/ i \in 1 .. n
    BY <1>1
  <2> QED
    BY <1>1, <2>1, <2>2 DEF IsDistinct
<1>5. Names!Start(d, n + 1) = Names!DataSize(data)
  BY StartsStay
<1> HIDE DEF d
<1>6. PICK M \in Nat : M >= 3 /\ n + 1 < M /\ Holds(data, n, grown, M)
  <2>1. CASE Names!NeedsToGrow(n, hashes)
    <3>1. 2 * n >= N /\ grown = Names!rehashAll(data, 2 * N + 3)
      BY <1>3, <2>1 DEF Names!NeedsToGrow
    <3>2. 2 * N + 3 \in Nat /\ n + 1 < 2 * N + 3
      BY <1>1, <1>2
    <3>3. Holds(data, n, grown, 2 * N + 3)
      BY <1>1, <3>1, <3>2, RehashIs
    <3> QED
      BY <1>2, <3>2, <3>3
  <2>2. CASE ~Names!NeedsToGrow(n, hashes)
    <3>1. 2 * n < N /\ grown = hashes
      BY <1>1, <1>2, <1>3, <2>2 DEF Names!NeedsToGrow
    <3>2. N >= 3 /\ n + 1 < N
      BY <1>1, <1>2, <3>1
    <3> QED
      BY <1>2, <3>1, <3>2
  <2> QED
    BY <2>1, <2>2
<1>7. Holds(d, n, grown, M)
  BY <1>6, HeldBefore DEF d
<1>8. new = Names!addHashNoRehash(grown, d[n + 1], Names!Start(d, n + 1))
  BY <1>1, <1>5
<1> HIDE DEF new, n
<1>9. Holds(d, n + 1, new, M)
  <2>1. n < Len(d) /\ n < M /\ M \in Nat \ {0}
    BY <1>1, <1>6
  <2> QED
    BY <1>1, <1>7, <1>8, <2>1, AddHashIs
<1>10. SizeFor(d, M)
  BY <1>1, <1>6 DEF SizeFor
<1>11. AreHeld(d, n + 1, new)
  BY <1>1, <1>4, <1>9, <1>10 DEF AreHeld
<1> QED
  BY <1>11 DEF d, n, new

LEMMA NamesStepIsHeld ==
  ASSUME NamesInv, Names!Next
  PROVE  /\ stringHash' = stringHash /\ intact' \in BOOLEAN
         /\ file'.data \in Seq(Strings) /\ IsDistinct(file'.data) /\ SizeFor(file'.data, file'.hash_size)
         /\ intact' => AreHeld(m_data', m_hashTableLoad', m_hashes')
<1>1. /\ stringHash \in StringHashes /\ intact \in BOOLEAN
      /\ file.data \in Seq(Strings) /\ IsDistinct(file.data) /\ SizeFor(file.data, file.hash_size)
      /\ intact => AreHeld(m_data, m_hashTableLoad, m_hashes)
  BY DEF NamesInv
<1>2. CASE \E s \in Strings : Names!addString(s)
  <2>1. PICK s \in Strings : Names!addString(s)
    BY <1>2
  <2>2. /\ intact /\ Names!findString(m_data, m_hashes, s) = -1
        /\ m_data' = Append(m_data, s) /\ m_hashTableLoad' = m_hashTableLoad + 1
        /\ stringHash' = stringHash /\ file' = file /\ intact' = intact
    BY <2>1 DEF Names!addString
  <2>3. m_data \in Seq(Strings) /\ IsDistinct(m_data) /\ m_hashTableLoad = Len(m_data)
    BY <1>1, <2>2 DEF AreHeld
  <2>4. PICK N \in Nat : SizeFor(m_data, N) /\ Holds(m_data, Len(m_data), m_hashes, N)
    BY <1>1, <2>2 DEF AreHeld
  <2> DEFINE grown == IF Names!NeedsToGrow(Len(m_data), m_hashes)
                      THEN Names!rehashAll(m_data, 2 * Names!HashSize(m_hashes) + 3) ELSE m_hashes
  <2>5. m_hashes' = Names!addHashNoRehash(grown, s, Names!DataSize(m_data))
    BY <2>1, <2>3 DEF Names!addString
  <2> HIDE DEF grown
  <2>6. AreHeld(Append(m_data, s), Len(m_data) + 1, Names!addHashNoRehash(grown, s, Names!DataSize(m_data)))
    BY <1>1, <2>2, <2>3, <2>4, AddStringIs DEF grown
  <2> QED
    BY <1>1, <2>2, <2>3, <2>5, <2>6
<1>3. CASE Names!saveToFile
  <2>1. /\ intact /\ intact' = intact /\ stringHash' = stringHash /\ m_data' = m_data /\ m_hashes' = m_hashes
        /\ m_hashTableLoad' = m_hashTableLoad
        /\ file'.data = m_data /\ file'.hash_size = Names!HashSize(m_hashes)
    BY <1>3 DEF Names!saveToFile
  <2>2. PICK N \in Nat : SizeFor(m_data, N) /\ Holds(m_data, Len(m_data), m_hashes, N)
    BY <1>1, <2>1 DEF AreHeld
  <2>3. Names!HashSize(m_hashes) = N
    <3>1. DOMAIN m_hashes = 0 .. N - 1 /\ Cardinality(0 .. N - 1) = N
      BY <2>2, FS_Interval DEF Holds
    <3> QED
      BY <3>1, SameCardinality DEF Names!HashSize
  <2> QED
    BY <1>1, <2>1, <2>2, <2>3 DEF AreHeld
<1>4. CASE Names!loadFromFile
  <2> DEFINE d == file.data
             N == file.hash_size
  <2>1. /\ m_data' = d /\ m_hashes' = Names!rehashAll(d, N) /\ m_hashTableLoad' = Len(d) /\ intact' = TRUE
        /\ stringHash' = stringHash /\ file' = file
    BY <1>4 DEF Names!loadFromFile
  <2>2. d \in Seq(Strings) /\ IsDistinct(d) /\ SizeFor(d, N)
    BY <1>1
  <2> HIDE DEF d, N
  <2>3. N \in Nat /\ (Len(d) < N \/ Len(d) = 0)
    BY <2>2 DEF SizeFor
  <2>4. Holds(d, Len(d), Names!rehashAll(d, N), N)
    BY <1>1, <2>2, <2>3, RehashIs
  <2>5. AreHeld(d, Len(d), Names!rehashAll(d, N))
    BY <2>2, <2>3, <2>4 DEF AreHeld
  <2> QED
    BY <1>1, <2>1, <2>5
<1>5. CASE Names!loadFails
  BY <1>1, <1>5 DEF Names!loadFails
<1> QED
  BY <1>2, <1>3, <1>4, <1>5 DEF Names!Next

LEMMA NamesStay ==
  ASSUME NamesInv, Names!Next
  PROVE  NamesInv'
<1>1. /\ stringHash' = stringHash /\ intact' \in BOOLEAN
      /\ file'.data \in Seq(Strings) /\ IsDistinct(file'.data) /\ SizeFor(file'.data, file'.hash_size)
      /\ intact' => AreHeld(m_data', m_hashTableLoad', m_hashes')
  BY NamesStepIsHeld
<1>2. stringHash \in StringHashes
  BY DEF NamesInv
<1>3. \A hashes, N, s, p : Reached(hashes, N, s, p)' = Reached(hashes, N, s, p)
  BY <1>1 DEF Reached, At
<1>4. \A data, k, hashes, N : Holds(data, k, hashes, N)' = Holds(data, k, hashes, N)
  BY <1>3 DEF Holds, Taken
<1> QED
  BY <1>1, <1>2, <1>4 DEF NamesInv, AreHeld

LEMMA NamesAre ==
  ASSUME NamesInv
  PROVE  /\ intact => \A s \in Strings : Names!SearchEnds(s)
         /\ NamesAreInPlace
<1> SUFFICES ASSUME intact = TRUE
             PROVE  /\ \A s \in Strings : Names!SearchEnds(s)
                    /\ m_hashTableLoad = Len(m_data)
                    /\ Range(m_hashes) \ {-1} = Names!getAllStrings(m_data)
                    /\ \A s \in Range(m_data) :
                         LET id == Names!findString(m_data, m_hashes, s)
                         IN id # -1 /\ Names!getString(m_data, id) = s
  BY DEF NamesInv, NamesAreInPlace
<1>1. stringHash \in StringHashes /\ m_data \in Seq(Strings) /\ m_hashTableLoad = Len(m_data) /\ IsDistinct(m_data)
  BY DEF NamesInv, AreHeld
<1>2. PICK N \in Nat : SizeFor(m_data, N) /\ Holds(m_data, Len(m_data), m_hashes, N)
  BY DEF NamesInv, AreHeld
<1>3. DOMAIN m_data = 1 .. Len(m_data) /\ Len(m_data) \in Nat
  BY <1>1
<1>4. \A s \in Strings : Names!SearchEnds(s)
  BY <1>1, <1>2, FindIs DEF Names!SearchEnds
<1>5. Range(m_hashes) \ {-1} = Names!getAllStrings(m_data)
  <2>1. \A p \in DOMAIN m_hashes : m_hashes[p] # -1 => \E i \in DOMAIN m_data : m_hashes[p] = Names!Start(m_data, i)
    BY <1>2, <1>3 DEF Holds, Taken
  <2>2. \A i \in DOMAIN m_data : \E p \in DOMAIN m_hashes : m_hashes[p] = Names!Start(m_data, i)
    BY <1>2, <1>3 DEF Holds, Taken
  <2>3. \A i \in DOMAIN m_data : Names!Start(m_data, i) # -1
    BY <1>1, StartsAre
  <2> QED
    BY <2>1, <2>2, <2>3 DEF Range, Names!getAllStrings
<1>6. ASSUME NEW s \in Range(m_data)
      PROVE  /\ Names!findString(m_data, m_hashes, s) # -1
             /\ Names!getString(m_data, Names!findString(m_data, m_hashes, s)) = s
  <2>1. PICK k \in DOMAIN m_data : m_data[k] = s
    BY DEF Range
  <2>2. s \in Strings
    BY <1>1, <2>1
  <2>3. PICK i \in DOMAIN m_data : /\ m_data[i] = s
                                   /\ Names!findString(m_data, m_hashes, s) = Names!Start(m_data, i)
    BY <1>1, <1>2, <2>1, <2>2, FindIs
  <2> QED
    BY <1>1, <2>3, StartsAre
<1> QED
  BY <1>1, <1>4, <1>5, <1>6

-----------------------------------------------------------------------------
(***************************************************************************)
(* The names implement the map, step by step.                              *)
(***************************************************************************)
\* The numbers that the strings have by where they start.
NumbersIn(data) ==
  [s \in Range(data) |-> Names!Start(data, CHOOSE i \in DOMAIN data : data[i] = s)]

LEMMA NumbersInIs ==
  ASSUME NEW data \in Seq(Strings), IsDistinct(data), NEW m, m = NumbersIn(data)
  PROVE  /\ m = [s \in DOMAIN m |-> m[s]] /\ DOMAIN m = Range(data)
         /\ \A i \in DOMAIN data : m[data[i]] = Names!Start(data, i)
<1>1. m = [s \in Range(data) |-> Names!Start(data, CHOOSE i \in DOMAIN data : data[i] = s)]
  BY DEF NumbersIn
<1>2. ASSUME NEW i \in DOMAIN data PROVE m[data[i]] = Names!Start(data, i)
  <2> DEFINE j == CHOOSE j \in DOMAIN data : data[j] = data[i]
  <2>1. j \in DOMAIN data /\ data[j] = data[i]
    OBVIOUS
  <2>2. j = i
    BY <2>1 DEF IsDistinct
  <2>3. data[i] \in Range(data)
    BY DEF Range
  <2> QED
    BY <1>1, <2>2, <2>3
<1>3. DOMAIN m = Range(data) /\ m = [s \in DOMAIN m |-> m[s]]
  BY <1>1
<1> QED
  BY <1>2, <1>3

LEMMA NumbersOfAre ==
  ASSUME stringHash \in StringHashes, NEW data, NEW load, NEW hashes, AreHeld(data, load, hashes)
  PROVE  NumbersOf(data, hashes) = NumbersIn(data)
<1> DEFINE id(s) == Names!findString(data, hashes, s)
           found == {s \in Strings : id(s) # -1}
           m == NumbersIn(data)
<1>1. data \in Seq(Strings) /\ IsDistinct(data)
  BY DEF AreHeld
<1>2. PICK N \in Nat : SizeFor(data, N) /\ Holds(data, Len(data), hashes, N)
  BY DEF AreHeld
<1>3. \A s \in Strings : \/ \E i \in DOMAIN data : data[i] = s /\ id(s) = Names!Start(data, i)
                         \/ (\A i \in DOMAIN data : data[i] # s) /\ id(s) = -1
  BY <1>1, <1>2, FindIs
<1>4. \A i \in DOMAIN data : data[i] \in Strings /\ Names!Start(data, i) \in Nat
  BY <1>1, StartsAre
<1>5. /\ m = [s \in DOMAIN m |-> m[s]] /\ DOMAIN m = Range(data)
      /\ \A i \in DOMAIN data : m[data[i]] = Names!Start(data, i)
  BY <1>1, NumbersInIs
<1>6. NumbersOf(data, hashes) = [s \in found |-> id(s)]
  BY DEF NumbersOf
<1> HIDE DEF id, m
<1>7. found = Range(data)
  BY <1>3, <1>4 DEF Range
<1>8. \A s \in Range(data) : id(s) = m[s]
  BY <1>3, <1>4, <1>5 DEF Range
<1> HIDE DEF found
<1>9. [s \in found |-> id(s)] = [s \in DOMAIN m |-> m[s]]
  BY <1>5, <1>7, <1>8
<1> QED
  BY <1>5, <1>6, <1>9 DEF m

\* A new string starts where the others end, and these stay where they are.
LEMMA OneMoreNumber ==
  ASSUME NEW data \in Seq(Strings), IsDistinct(data), NEW s \in Strings, \A i \in DOMAIN data : data[i] # s,
         NEW longer, longer = Append(data, s)
  PROVE  IsPut(NumbersIn(longer), NumbersIn(data), s) /\ NumbersIn(longer)[s] \in Nat
<1> DEFINE m == NumbersIn(data)
           n == NumbersIn(longer)
           l == Len(data)
<1>1. /\ longer \in Seq(Strings) /\ l \in Nat /\ DOMAIN data = 1 .. l /\ DOMAIN longer = 1 .. l + 1
      /\ longer[l + 1] = s /\ \A i \in 1 .. l : longer[i] = data[i]
  OBVIOUS
<1>2. \A i \in DOMAIN longer : i = l + 1 \/ i \in DOMAIN data
  BY <1>1
<1>3. IsDistinct(longer)
  BY <1>1, <1>2 DEF IsDistinct
<1>4. Range(longer) = Range(data) \union {s}
  <2>1. l + 1 \in DOMAIN longer /\ \A i \in DOMAIN data : i \in DOMAIN longer
    BY <1>1
  <2> QED
    BY <1>1, <1>2, <2>1 DEF Range
<1>5. /\ m = [j \in DOMAIN m |-> m[j]] /\ DOMAIN m = Range(data)
      /\ \A i \in DOMAIN data : m[data[i]] = Names!Start(data, i)
  BY NumbersInIs
<1>6. /\ n = [j \in DOMAIN n |-> n[j]] /\ DOMAIN n = Range(longer)
      /\ \A i \in DOMAIN longer : n[longer[i]] = Names!Start(longer, i)
  <2>1. longer \in Seq(Strings)
    BY <1>1
  <2> HIDE DEF n
  <2>2. n = NumbersIn(longer)
    BY DEF n
  <2> QED
    BY <1>3, <2>1, <2>2, NumbersInIs, ZenonT(30)
<1>7. \A i \in DOMAIN data : Names!Start(longer, i) = Names!Start(data, i)
  BY StartsStay, Zenon
<1>8. n[s] \in Nat
  <2>1. l + 1 \in DOMAIN longer
    BY <1>1
  <2>2. Names!Start(longer, l + 1) \in Nat
    BY <1>1, <2>1, StartsAre
  <2> HIDE DEF n
  <2> QED
    BY <1>1, <1>6, <2>1, <2>2
<1> HIDE DEF m, n, l
<1>9. \A j \in DOMAIN m : j # s /\ n[j] = m[j]
  <2> SUFFICES ASSUME NEW i \in DOMAIN data PROVE data[i] # s /\ n[data[i]] = m[data[i]]
    BY <1>5 DEF Range
  <2>1. i \in DOMAIN longer /\ longer[i] = data[i]
    BY <1>1
  <2> QED
    BY <1>5, <1>6, <1>7, <2>1
<1>10. DOMAIN n = DOMAIN m \union {s}
  BY <1>4, <1>5, <1>6
<1>11. n = [j \in DOMAIN m \union {s} |-> IF j = s THEN n[s] ELSE m[j]]
  BY <1>6, <1>9, <1>10
<1> QED
  BY <1>8, <1>10, <1>11 DEF m, n, IsPut

LEMMA NumberedIs ==
  ASSUME stringHash' = stringHash
  PROVE  /\ Numbered = (IF intact THEN NumbersOf(m_data, m_hashes) ELSE <<>>)
         /\ Numbered' = (IF intact' THEN NumbersOf(m_data', m_hashes') ELSE <<>>)
         /\ NumberedInFile = NumbersIn(file.data) /\ NumberedInFile' = NumbersIn(file'.data)
  BY DEF Numbered, NumberedInFile, NumbersIn, NumbersOf, Names!findString, Names!HashSize, Names!Slot,
         Names!IsFreeOrFound, Names!IsFree

LEMMA PutsNumbered ==
  ASSUME UNCHANGED NumberedInFile, NEW s \in Strings, Numbered'[s] \in Nat, IsPut(Numbered', Numbered, s)
  PROVE  NumberOf!Next
  BY DEF IsPut, NumberOf!Next, NumberOf!Change, NumberOf!Put

LEMMA LoadsNumbered ==
  ASSUME UNCHANGED NumberedInFile, Numbered' = NumberedInFile
  PROVE  NumberOf!Next
<1> DEFINE m == NumberedInFile
<1>1. m = [s \in DOMAIN m |-> m[s]]
  BY DEF NumberedInFile
<1> HIDE DEF m
<1>2. Numbered' = m
  BY DEF m
<1>3. DOMAIN m \cap DOMAIN Numbered' = DOMAIN m
  BY <1>2
<1>4. Numbered' = [s \in DOMAIN m \cap DOMAIN Numbered' |-> m[s]]
  BY <1>1, <1>2, <1>3
<1>5. NumberOf!Load(DOMAIN Numbered')
  BY <1>4 DEF m, NumberOf!Load, NumberOf!Restrict
<1> QED
  BY <1>5 DEF NumberOf!Next, NumberOf!Change

LEMMA ForgetsNumbered ==
  ASSUME UNCHANGED NumberedInFile, Numbered' = <<>>
  PROVE  NumberOf!Next
<1> DEFINE w == NumberOf!Restrict(NumberedInFile, DOMAIN NumberedInFile \cap DOMAIN Numbered')
<1>1. w = [s \in DOMAIN NumberedInFile \cap DOMAIN Numbered' |-> NumberedInFile[s]]
  BY DEF NumberOf!Restrict
<1>2. DOMAIN NumberedInFile \cap DOMAIN Numbered' = {}
  OBVIOUS
<1> HIDE DEF w
<1>3. w = [s \in DOMAIN w |-> w[s]] /\ DOMAIN w = {}
  BY <1>1, <1>2
<1>4. w = <<>>
  BY <1>3, EmptyIs
<1>5. NumberOf!Load(DOMAIN Numbered')
  BY <1>4 DEF w, NumberOf!Load
<1> QED
  BY <1>5 DEF NumberOf!Next, NumberOf!Change

LEMMA NamesStart == ASSUME Names!Init PROVE NumberOf!Init
<1>1. /\ stringHash \in StringHashes /\ intact = TRUE /\ m_data = <<>> /\ file.data = <<>>
  BY DEF Names!Init, Names!NoFile
<1>2. NumbersOf(m_data, m_hashes) = NumbersIn(m_data)
  BY <1>1, InitIsHeld, NumbersOfAre DEF NamesInv
<1> DEFINE m == NumbersIn(<<>>)
<1>3. m = [s \in DOMAIN m |-> m[s]] /\ DOMAIN m = {}
  <2>1. DOMAIN <<>> = {}
    OBVIOUS
  <2>2. Range(<<>>) = {}
    BY <2>1 DEF Range
  <2> QED
    BY <2>2 DEF NumbersIn
<1> HIDE DEF m
<1>4. m = <<>>
  BY <1>3, EmptyIs
<1>5. Numbered = m /\ NumberedInFile = m
  BY <1>1, <1>2 DEF m, Numbered, NumberedInFile, NumbersIn
<1> QED
  BY <1>4, <1>5 DEF NumberOf!Init

LEMMA NamesAct ==
  ASSUME NamesInv, Names!Next
  PROVE  NumberOf!Next \/ UNCHANGED <<Numbered, NumberedInFile>>
<1>1. /\ stringHash \in StringHashes /\ stringHash' = stringHash /\ file.data \in Seq(Strings)
      /\ intact' => AreHeld(m_data', m_hashTableLoad', m_hashes')
  BY NamesStepIsHeld DEF NamesInv
<1>2. NumberedInFile = NumbersIn(file.data) /\ NumberedInFile' = NumbersIn(file'.data)
  BY <1>1, NumberedIs
<1>3. ASSUME intact PROVE AreHeld(m_data, m_hashTableLoad, m_hashes) /\ Numbered = NumbersIn(m_data)
  <2>1. AreHeld(m_data, m_hashTableLoad, m_hashes)
    BY <1>3 DEF NamesInv
  <2> QED
    BY <1>1, <1>3, <2>1, NumbersOfAre, NumberedIs
<1>4. ASSUME intact' PROVE Numbered' = NumbersIn(m_data')
  <2> DEFINE d == m_data'
             load == m_hashTableLoad'
             g == m_hashes'
  <2>1. AreHeld(d, load, g)
    BY <1>1, <1>4
  <2>2. Numbered' = NumbersOf(d, g)
    BY <1>1, <1>4, NumberedIs
  <2> HIDE DEF d, load, g
  <2>3. NumbersOf(d, g) = NumbersIn(d)
    BY <1>1, <2>1, NumbersOfAre
  <2> QED
    BY <2>2, <2>3 DEF d
<1>5. CASE \E s \in Strings : Names!addString(s)
  <2>1. PICK s \in Strings : Names!addString(s)
    BY <1>5
  <2>2. /\ intact /\ intact' = intact /\ Names!findString(m_data, m_hashes, s) = -1
        /\ m_data' = Append(m_data, s) /\ file' = file
    BY <2>1 DEF Names!addString
  <2>3. m_data \in Seq(Strings) /\ IsDistinct(m_data)
    BY <1>3, <2>2 DEF AreHeld
  <2>4. \A i \in DOMAIN m_data : m_data[i] # s
    <3>1. PICK N \in Nat : SizeFor(m_data, N) /\ Holds(m_data, Len(m_data), m_hashes, N)
      BY <1>3, <2>2 DEF AreHeld
    <3>2. \A i \in DOMAIN m_data : Names!Start(m_data, i) # -1
      BY <2>3, StartsAre
    <3> QED
      BY <1>1, <2>2, <2>3, <3>1, <3>2, FindIs
  <2> DEFINE longer == m_data'
  <2>5. longer = Append(m_data, s)
    BY <2>2
  <2> HIDE DEF longer
  <2>6. IsPut(NumbersIn(longer), NumbersIn(m_data), s) /\ NumbersIn(longer)[s] \in Nat
    BY <2>3, <2>4, <2>5, OneMoreNumber
  <2>7. Numbered = NumbersIn(m_data) /\ Numbered' = NumbersIn(longer) /\ UNCHANGED NumberedInFile
    BY <1>2, <1>3, <1>4, <2>2 DEF longer
  <2> QED
    BY <2>6, <2>7, PutsNumbered
<1>6. CASE Names!saveToFile
  <2>1. intact /\ intact' = intact /\ m_data' = m_data /\ file'.data = m_data
    BY <1>6 DEF Names!saveToFile
  <2>2. NumberedInFile' = Numbered /\ Numbered' = Numbered
    BY <1>2, <1>3, <1>4, <2>1
  <2> QED
    BY <2>2 DEF NumberOf!Next, NumberOf!Save
<1>7. CASE Names!loadFromFile
  <2>1. intact' = TRUE /\ m_data' = file.data /\ file' = file
    BY <1>7 DEF Names!loadFromFile
  <2>2. Numbered' = NumberedInFile /\ UNCHANGED NumberedInFile
    BY <1>2, <1>4, <2>1
  <2> QED
    BY <2>2, LoadsNumbered
<1>8. CASE Names!loadFails
  <2>1. intact' = FALSE /\ file' = file
    BY <1>8 DEF Names!loadFails
  <2>2. Numbered' = <<>> /\ UNCHANGED NumberedInFile
    BY <1>1, <1>2, <2>1, NumberedIs
  <2> QED
    BY <2>2, ForgetsNumbered
<1> QED
  BY <1>5, <1>6, <1>7, <1>8 DEF Names!Next

-----------------------------------------------------------------------------
(***************************************************************************)
(* Both tables, of which a behavior is about one.                          *)
(***************************************************************************)
TablesInv == CountersInv /\ NamesInv

\* The inductive invariant of the hash tables: what is in a table, and where.
THEOREM TablesInvHolds == TablesSpec => []TablesInv
<1>1. InitTables => TablesInv
  BY InitIsGood, InitIsHeld DEF InitTables, TablesInv
<1>2. TablesInv /\ [NextTables]_allVars => TablesInv'
  <2> SUFFICES ASSUME TablesInv, [NextTables]_allVars PROVE TablesInv'
    OBVIOUS
  <2>1. CountersInv /\ NamesInv
    BY DEF TablesInv
  <2>2. ASSUME UNCHANGED <<stringHash, m_data, m_hashes, m_hashTableLoad, file, intact>> PROVE NamesInv'
    <3>1. AreHeld(m_data, m_hashTableLoad, m_hashes)' = AreHeld(m_data, m_hashTableLoad, m_hashes)
      BY <2>2 DEF AreHeld, Holds, Reached, At, Taken
    <3> QED
      BY <2>1, <2>2, <3>1 DEF NamesInv
  <2>3. ASSUME UNCHANGED <<hash, ht, kept, complete>> PROVE CountersInv'
    BY <2>1, <2>3, CountersStay
  <2>4. CASE NextTable /\ UNCHANGED nameVars
    BY <2>1, <2>2, <2>4, CountersStay DEF TablesInv, nameVars
  <2>5. CASE Names!Next /\ UNCHANGED tableVars
    BY <2>1, <2>3, <2>5, NamesStay DEF TablesInv, tableVars
  <2>6. CASE UNCHANGED allVars
    BY <2>2, <2>3, <2>6 DEF TablesInv, allVars, tableVars, nameVars
  <2> QED
    BY <2>4, <2>5, <2>6 DEF NextTables
<1> QED
  BY <1>1, <1>2, PTL DEF TablesSpec

\* Every search ends, every item of the counters and every name is found
\* where it is and nowhere else, the counters of both tables are exact, and
\* each operation of the counters does to the map what its name says.
THEOREM TablesAreMapsHolds == TablesSpec => []TablesAreMaps
<1>1. TablesInv => TablesAreMaps
  <2>1. TablesInv => OperationsActOnMap
    BY OperationsAct DEF TablesInv
  <2> QED
    BY <2>1, CountersAre, NamesAre DEF TablesInv, TablesAreMaps, SearchesEnd
<1> QED
  BY <1>1, TablesInvHolds, PTL

\* Both tables are maps, whatever is inserted, erased, copied, saved and
\* loaded in which order: every step is one of the map, or changes nothing.
THEOREM ImplementsMapHolds == TablesSpec => ImplementsMap
<1>1. InitTables => Counters!Init /\ NumberOf!Init
  BY CountersStart, NamesStart DEF InitTables
<1>2. TablesInv /\ [NextTables]_allVars
        => [Counters!Next]_<<Counted, CountedInCopy>> /\ [NumberOf!Next]_<<Numbered, NumberedInFile>>
  <2> SUFFICES ASSUME TablesInv, [NextTables]_allVars
               PROVE  /\ Counters!Next \/ UNCHANGED <<Counted, CountedInCopy>>
                      /\ NumberOf!Next \/ UNCHANGED <<Numbered, NumberedInFile>>
    OBVIOUS
  <2>1. CountersInv /\ NamesInv
    BY DEF TablesInv
  <2>2. ASSUME UNCHANGED tableVars PROVE UNCHANGED <<Counted, CountedInCopy>>
    BY <2>2, CountedIs DEF tableVars
  <2>3. ASSUME UNCHANGED nameVars PROVE UNCHANGED <<Numbered, NumberedInFile>>
    BY <2>3, NumberedIs DEF nameVars
  <2>4. CASE NextTable /\ UNCHANGED nameVars
    BY <2>1, <2>3, <2>4, CountersAct
  <2>5. CASE Names!Next /\ UNCHANGED tableVars
    BY <2>1, <2>2, <2>5, NamesAct
  <2>6. CASE UNCHANGED allVars
    BY <2>2, <2>3, <2>6 DEF allVars
  <2> QED
    BY <2>4, <2>5, <2>6 DEF NextTables
<1> QED
  BY <1>1, <1>2, TablesInvHolds, PTL DEF TablesSpec, ImplementsMap, Counters!Spec, NumberOf!Spec

\* When operator[] has resized the table, for the insertion or because items
\* were erased before, the next one does not make it smaller again.
THEOREM ResizingSettlesHolds == TablesSpec => ResizingSettles
<1> DEFINE A == bucket_count(ht') # bucket_count(ht) /\ complete /\ complete' /\ ~IsSettled(ht')
                  => \A k \in DOMAIN hash : ~Count(k)
<1>1. TablesInv /\ [NextTables]_allVars => [A]_allVars
  <2> SUFFICES ASSUME TablesInv, complete, bucket_count(ht') # bucket_count(ht), NEW k \in DOMAIN hash, Count(k)
               PROVE  IsSettled(ht')
    OBVIOUS
  <2> QED
    BY CountSettles DEF TablesInv
<1> QED
  BY <1>1, TablesInvHolds, PTL DEF TablesSpec, ResizingSettles

\* A name keeps its number, also when the names are read from a file that
\* has more of them.
THEOREM NumbersStayValidHolds == TablesSpec => NumbersStayValid
<1> DEFINE A == m_data' # m_data /\ intact /\ intact' /\ IsPrefix(m_data, m_data')
                  => \A s \in Range(m_data) :
                       Names!findString(m_data', m_hashes', s) = Names!findString(m_data, m_hashes, s)
<1>1. TablesInv /\ [NextTables]_allVars => [A]_allVars
  <2> SUFFICES ASSUME TablesInv, NextTables, m_data' # m_data, intact, intact', IsPrefix(m_data, m_data'),
                      NEW s \in Range(m_data)
               PROVE  Names!findString(m_data', m_hashes', s) = Names!findString(m_data, m_hashes, s)
    OBVIOUS
  <2>1. Names!Next
    BY DEF NextTables, nameVars
  <2>2. NamesInv
    BY DEF TablesInv
  <2>3. /\ stringHash \in StringHashes /\ AreHeld(m_data, m_hashTableLoad, m_hashes)
        /\ AreHeld(m_data', m_hashTableLoad', m_hashes')
    BY <2>1, <2>2, NamesStepIsHeld DEF NamesInv
  <2> DEFINE d == m_data
             h == m_hashes
             e == m_data'
             g == m_hashes'
  <2>4. IsPrefix(d, e)
    OBVIOUS
  <2>5. PICK i \in DOMAIN d : d[i] = s
    BY DEF Range
  <2>6. d \in Seq(Strings) /\ IsDistinct(d) /\ \E N \in Nat : SizeFor(d, N) /\ Holds(d, Len(d), h, N)
    BY <2>3 DEF AreHeld
  <2>7. e \in Seq(Strings) /\ IsDistinct(e) /\ \E N \in Nat : SizeFor(e, N) /\ Holds(e, Len(e), g, N)
    BY <2>3 DEF AreHeld
  <2> HIDE DEF d, h, e, g
  <2>8. Len(d) <= Len(e) /\ \A j \in 1 .. Len(d) : e[j] = d[j]
    <3>1. Len(d) <= Len(e) /\ SubSeq(d, 1, Len(d)) = SubSeq(e, 1, Len(d))
      BY <2>4 DEF IsPrefix
    <3>2. \A j \in 1 .. Len(d) : SubSeq(d, 1, Len(d))[j] = d[j] /\ SubSeq(e, 1, Len(d))[j] = e[j]
      BY <2>6, <2>7, <3>1
    <3> QED
      BY <3>1, <3>2
  <2>9. s \in Strings /\ i \in 1 .. Len(d) /\ i \in DOMAIN e /\ e[i] = s
    BY <2>5, <2>6, <2>7, <2>8
  <2>10. Names!findString(d, h, s) = Names!Start(d, i)
    <3>1. PICK j \in DOMAIN d : d[j] = s /\ Names!findString(d, h, s) = Names!Start(d, j)
      BY <2>3, <2>5, <2>6, <2>9, FindIs
    <3> QED
      BY <2>5, <2>6, <3>1 DEF IsDistinct
  <2>11. Names!findString(e, g, s) = Names!Start(e, i)
    <3>1. PICK j \in DOMAIN e : e[j] = s /\ Names!findString(e, g, s) = Names!Start(e, j)
      BY <2>3, <2>7, <2>9, FindIs
    <3> QED
      BY <2>7, <2>9, <3>1 DEF IsDistinct
  <2>12. Names!Start(e, i) = Names!Start(d, i)
    <3>1. i - 1 \in 0 .. Len(d)
      BY <2>6, <2>9
    <3> QED
      BY <2>6, <2>7, <2>8, <3>1, EndsOfPrefix DEF Names!Start
  <2> QED
    BY <2>10, <2>11, <2>12 DEF d, h, e, g
<1> QED
  BY <1>1, TablesInvHolds, PTL DEF TablesSpec, NumbersStayValid

-----------------------------------------------------------------------------
(***************************************************************************)
(* The containers leave each other alone: a behavior of all of them is one *)
(* of the pool and one of the tables, and what was shown of these holds.   *)
(***************************************************************************)
THEOREM ContainersAreCorrect ==
  ContainersSpec => /\ []FreeListIsExact /\ LiveNodesUntouched
                    /\ []TablesAreMaps /\ ImplementsMap /\ ResizingSettles /\ NumbersStayValid
<1>1. InitContainers => Init /\ InitTables
  BY DEF InitContainers
<1>2. [NextContainers]_containerVars => [Next]_vars /\ [NextTables]_allVars
  BY DEF NextContainers, containerVars
<1>3. ContainersSpec => Spec /\ TablesSpec
  BY <1>1, <1>2, PTL DEF ContainersSpec, Spec, TablesSpec
<1>4. QED
  BY <1>3, FreeListExact, NodeIdsStable, TablesAreMapsHolds, ImplementsMapHolds,
     ResizingSettlesHolds, NumbersStayValidHolds
=============================================================================
