--------------------------- MODULE TreeComparison ---------------------------
(***************************************************************************)
(* CompareTrees (phog/tree/tree.cpp): two cursors walk over two trees in   *)
(* step. Labels are compared at the nodes that both trees have; what only  *)
(* one of them has is measured with TreeSize. An iteration of a loop is a  *)
(* step. What comes out is added to statistics that all threads share, a   *)
(* lock being held while it is added.                                      *)
(***************************************************************************)
EXTENDS SyntaxTree, Functions, SequencesExt

CONSTANTS
  Trees,      \* the trees that are compared
  MaxDepths,  \* the arguments max_depth
  Predictors, \* the keys of the statistics
  MaxReports  \* bound on what is added to them

VARIABLES
  t1, t2,          \* the two storages, fixed
  start1, start2,  \* where the two cursors start, fixed
  only_types,      \* an argument, fixed
  max_depth,       \* an argument, fixed
  p1, p2,          \* the two cursors
  info,            \* the TreeCompareInfo
  depth,
  pc,              \* at a pair of nodes, leaving one, or returned
  statistics,      \* TreeTrainingStatistics and PerTreeSizeTrainingStatistics
  reported         \* history: what has been added to them

inputs == <<t1, t2, start1, start2, only_types, max_depth>>
reports == <<statistics, reported>>
vars == <<inputs, p1, p2, info, depth, pc, reports>>

\* A default TreeCompareInfo counts one tree.
NoInfo ==
  [num_type_equalities |-> 0, num_type_diffs |-> 0, num_value_equalities |-> 0,
   num_value_diffs |-> 0, num_size_greater_diffs |-> 0, num_size_smaller_diffs |-> 0,
   num_aggregated_trees |-> 1]

Init ==
  /\ t1 \in Trees /\ t2 \in Trees
  /\ start1 \in DOMAIN t1 /\ start2 \in DOMAIN t2
  /\ only_types \in BOOLEAN
  /\ max_depth \in MaxDepths
  /\ p1 = start1 /\ p2 = start2
  /\ info = NoInfo
  /\ depth = 0
  /\ pc = "compare"
  /\ statistics = [stats_ |-> NoInfo, stats_per_predictor_ |-> <<>>, per_size |-> <<>>,
                   num_correct |-> 0, total_count |-> 0]
  /\ reported = <<>>

-----------------------------------------------------------------------------
(* TreeSize: a walk over a subtree, without a stack.                       *)

RECURSIVE LeaveNode(_, _, _)
LeaveNode(t, n, start) ==
  IF n = start THEN -1
  ELSE IF t[n].right_sib >= 0 THEN t[n].right_sib
  ELSE LeaveNode(t, t[n].parent, start)

RECURSIVE NodesFrom(_, _, _)
NodesFrom(t, n, start) ==
  IF n < 0 THEN 0
  ELSE 1 + NodesFrom(t, IF t[n].first_child >= 0 THEN t[n].first_child
                        ELSE LeaveNode(t, n, start), start)

TreeSize(t, n) == NodesFrom(t, n, n)

\* The sizes of the children of n, added up.
RECURSIVE SizeRightOf(_, _)
SizeRightOf(t, n) ==
  IF n < 0 THEN 0 ELSE TreeSize(t, n) + SizeRightOf(t, t[n].right_sib)
SizeBelow(t, n) == SizeRightOf(t, t[n].first_child)

Count(b) == IF b THEN 1 ELSE 0

\* info after the labels at the two cursors have been compared.
Compared ==
  LET same_type  == t1[p1].type = t2[p2].type
      same_value == t1[p1].value = t2[p2].value
  IN [info EXCEPT
        !.num_type_equalities  = @ + Count(same_type),
        !.num_type_diffs       = @ + Count(~same_type),
        !.num_value_equalities = @ + Count(~only_types /\ same_value),
        !.num_value_diffs      = @ + Count(~only_types /\ ~same_value)]

\* ConstLocalTreeTraversal: a move is made along a link that is not negative.
Moves(t, n, link) == t[n][link] >= 0

HasChild1 == Moves(t1, p1, "first_child")
HasChild2 == Moves(t2, p2, "first_child")

\* Both have children: the cursors go down.
CompareAndDescend ==
  /\ pc = "compare" /\ depth < max_depth
  /\ HasChild1 /\ HasChild2
  /\ info' = Compared
  /\ p1' = t1[p1].first_child /\ p2' = t2[p2].first_child
  /\ depth' = depth + 1
  /\ UNCHANGED <<inputs, pc, reports>>

\* One has children: they are counted, the cursor being back up in the end.
CompareAndCountBelow ==
  /\ pc = "compare" /\ depth < max_depth
  /\ HasChild1 # HasChild2
  /\ info' = [Compared EXCEPT
                !.num_size_greater_diffs = @ + 2 * SizeBelow(t1, p1),
                !.num_size_smaller_diffs = @ + 2 * SizeBelow(t2, p2)]
  /\ pc' = "leave"
  /\ UNCHANGED <<inputs, p1, p2, depth, reports>>

\* At two leaves the depth has been increased and is not decreased.
CompareLeaves ==
  /\ pc = "compare" /\ depth < max_depth
  /\ ~HasChild1 /\ ~HasChild2
  /\ info' = Compared
  /\ depth' = depth + 1
  /\ pc' = "leave"
  /\ UNCHANGED <<inputs, p1, p2, reports>>

CompareAtMaxDepth ==
  /\ pc = "compare" /\ depth >= max_depth
  /\ info' = Compared
  /\ pc' = "leave"
  /\ UNCHANGED <<inputs, p1, p2, depth, reports>>

Leaving == pc = "leave" /\ p1 # start1
Right1 == t1[p1].right_sib
Right2 == t2[p2].right_sib
MovesRight1 == Moves(t1, p1, "right_sib")
MovesRight2 == Moves(t2, p2, "right_sib")

Return ==
  /\ pc = "leave" /\ p1 = start1
  /\ pc' = "returned"
  /\ UNCHANGED <<inputs, p1, p2, info, depth, reports>>

BothRight ==
  /\ Leaving /\ MovesRight1 /\ MovesRight2
  /\ p1' = Right1 /\ p2' = Right2
  /\ pc' = "compare"
  /\ UNCHANGED <<inputs, info, depth, reports>>

\* A bug: the cursor is not moved past the subtree.
OnlyRight1_Waits ==
  /\ Leaving /\ MovesRight1 /\ ~MovesRight2
  /\ UNCHANGED vars

\* A bug: the subtrees are left out that are right of the last common one.
OnlyRight1_Skips ==
  /\ Leaving /\ MovesRight1 /\ ~MovesRight2
  /\ p1' = Right1
  /\ UNCHANGED <<inputs, p2, info, depth, pc, reports>>

OnlyRight1 ==
  /\ Leaving /\ MovesRight1 /\ ~MovesRight2
  /\ p1' = Right1
  /\ info' = [info EXCEPT !.num_size_greater_diffs = @ + 2 * TreeSize(t1, Right1)]
  /\ UNCHANGED <<inputs, p2, depth, pc, reports>>

\* The code measures the subtree at the first cursor, which has not moved.
OnlyRight2 ==
  /\ Leaving /\ ~MovesRight1 /\ MovesRight2
  /\ p2' = Right2
  /\ info' = [info EXCEPT !.num_size_smaller_diffs = @ + 2 * TreeSize(t1, p1)]
  /\ UNCHANGED <<inputs, p1, depth, pc, reports>>

BothUp ==
  /\ Leaving /\ ~MovesRight1 /\ ~MovesRight2
  /\ p1' = t1[p1].parent /\ p2' = t2[p2].parent
  /\ depth' = depth - 1
  /\ UNCHANGED <<inputs, info, pc, reports>>

-----------------------------------------------------------------------------
(* The statistics *)

GetEqualities(i) == i.num_type_equalities + i.num_value_equalities
GetDifferences(i) ==
  i.num_type_diffs + i.num_value_diffs + i.num_size_greater_diffs + i.num_size_smaller_diffs

\* Labels and links of two nodes, by themselves.
CompareLabels(n, m) ==
  LET Has(x, link) == x[link] # -1
      Only(x, y) == Count(Has(x, "first_child") /\ ~Has(y, "first_child"))
                      + Count(Has(x, "right_sib") /\ ~Has(y, "right_sib"))
  IN [NoInfo EXCEPT
        !.num_type_equalities    = Count(n.type = m.type),
        !.num_type_diffs         = Count(n.type # m.type),
        !.num_value_equalities   = Count(n.value = m.value),
        !.num_value_diffs        = Count(n.value # m.value),
        !.num_size_greater_diffs = Only(n, m),
        !.num_size_smaller_diffs = Only(m, n)]

\* A bug: what is equal is added only when nothing is different.
Add_Correct(sum, other) ==
  [f \in DOMAIN sum |->
     CASE f = "num_aggregated_trees" -> sum[f] + 1
       [] f = "num_type_equalities" -> IF GetDifferences(other) = 0 THEN sum[f] + other[f] ELSE sum[f]
       [] OTHER -> sum[f] + other[f]]

Add(sum, other) ==
  [f \in DOMAIN sum |-> IF f = "num_aggregated_trees" THEN sum[f] + 1 ELSE sum[f] + other[f]]

\* The operator [] of std::map puts a default value where there is none.
AddAt(map, key, other) ==
  [k \in DOMAIN map \union {key} |->
     LET old == IF k \in DOMAIN map THEN map[k] ELSE NoInfo
     IN IF k = key THEN Add(old, other) ELSE old]

AddTreeStats(key, tree_size, other) ==
  statistics' =
    [stats_               |-> Add(statistics.stats_, other),
     stats_per_predictor_ |-> AddAt(statistics.stats_per_predictor_, key, other),
     per_size             |-> AddAt(statistics.per_size, <<key, tree_size>>, other),
     num_correct          |-> statistics.num_correct + Count(GetDifferences(other) = 0),
     total_count          |-> statistics.total_count + 1]

\* One of the threads adds what it has found out about the trees.
Report ==
  /\ pc = "returned" /\ Len(reported) < MaxReports
  /\ \E key \in Predictors, other \in {info, CompareLabels(t1[start1], t2[start2])} :
       /\ AddTreeStats(key, TreeSize(t2, start2), other)
       /\ reported' = Append(reported, <<key, other>>)
  /\ UNCHANGED <<inputs, p1, p2, info, depth, pc>>

-----------------------------------------------------------------------------
(* What is printed of the statistics: a table, each row of numbers.        *)

\* Rounded towards zero.
Half(n) == IF n >= 0 THEN n \div 2 ELSE - ((- n) \div 2)

\* A fraction. The sizes count for types and for values.
AvgNodeDifference(i) ==
  <<Half(i.num_size_greater_diffs - i.num_size_smaller_diffs), i.num_aggregated_trees>>

Row(key, i) ==
  [key |-> key, count |-> i.num_aggregated_trees,
   type |-> <<i.num_type_equalities, i.num_type_diffs>>,
   value |-> <<i.num_value_equalities, i.num_value_diffs>>,
   size |-> <<i.num_size_greater_diffs, i.num_size_smaller_diffs>>,
   avg |-> AvgNodeDifference(i)]

\* The line on all predictors.
DebugStringShort == Row(-1, statistics.stats_)

\* PerTreeSizeTrainingStatistics: the rows of a predictor by size.
SizeRows(key) ==
  LET sizes == {e[2] : e \in {d \in DOMAIN statistics.per_size : d[1] = key}}
      ordered == SetToSortSeq(sizes, <)
  IN [k \in DOMAIN ordered |-> Row(ordered[k], statistics.per_size[<<key, ordered[k]>>])]

\* TreeTrainingStatistics: those with the most labels come first, and of two
\* with as many the one with the greater key.
PredictorRows ==
  LET map == statistics.stats_per_predictor_
      Labels(key) == GetDifferences(map[key]) + GetEqualities(map[key])
      Before(j, k) == Labels(j) > Labels(k) \/ (Labels(j) = Labels(k) /\ j > k)
      ordered == SetToSortSeq(DOMAIN map, Before)
  IN [k \in DOMAIN ordered |-> Row(ordered[k], map[ordered[k]])]

Step ==
  \/ CompareAndDescend \/ CompareAndCountBelow \/ CompareLeaves \/ CompareAtMaxDepth
  \/ Return \/ BothRight \/ OnlyRight1 \/ OnlyRight2 \/ BothUp

Returned == pc = "returned" /\ UNCHANGED vars

Next == Step \/ Report \/ Returned

Spec == Init /\ [][Next]_vars

\* The function runs until it returns.
FairSpec == Spec /\ WF_vars(Step)

-----------------------------------------------------------------------------
Below(t, n) == {m \in DOMAIN t : t[m].parent = n}

\* The pairs of nodes that have the same place under the two start nodes.
RECURSIVE Matched(_, _)
Matched(m, n) ==
  {<<m, n>>} \union
  UNION {IF t1[c].child_index = t2[d].child_index THEN Matched(c, d) ELSE {} :
           c \in Below(t1, m), d \in Below(t2, n)}

RECURSIVE Subtree(_, _)
Subtree(t, n) == {n} \union UNION {Subtree(t, c) : c \in Below(t, n)}

\* The CHECKs on the way back.
ChecksHold ==
  pc = "leave" =>
    /\ p1 = start1 => p2 = start2
    /\ Leaving /\ ~MovesRight1 /\ ~MovesRight2 => Moves(t1, p1, "parent") /\ Moves(t2, p2, "parent")

\* The depth, which drifts, stays below this limit.
Unlimited == max_depth >= Cardinality(DOMAIN t1)

(***************************************************************************)
(* With no limit on the depth, every pair of nodes at the same place has   *)
(* been compared, once, and every node of the first tree that the second   *)
(* lacks has been counted, twice, in num_size_greater_diffs. Whatever the  *)
(* limit, the cursors get back to where they started together, and neither *)
(* goes up where there is no parent.                                       *)
(***************************************************************************)
EveryPlaceCounted ==
  /\ ChecksHold
  /\ pc = "returned" /\ Unlimited =>
       LET pairs == Matched(start1, start2)
           Agree(same(_, _)) == Cardinality({pair \in pairs : same(t1[pair[1]], t2[pair[2]])})
           SameType(m, n) == m.type = n.type
           SameValue(m, n) == m.value = n.value
       IN /\ info.num_type_equalities = Agree(SameType)
          /\ info.num_type_diffs = Cardinality(pairs) - Agree(SameType)
          /\ info.num_value_equalities = IF only_types THEN 0 ELSE Agree(SameValue)
          /\ info.num_value_diffs = IF only_types THEN 0 ELSE Cardinality(pairs) - Agree(SameValue)
          /\ info.num_size_greater_diffs =
               2 * Cardinality(Subtree(t1, start1) \ {pair[1] : pair \in pairs})

(***************************************************************************)
(* CompareTrees returns, whatever the trees.                               *)
(***************************************************************************)
ComparisonEnds == <>(pc = "returned")

\* Nodes m and n have the same label, and so have the nodes below them.
RECURSIVE Identical(_, _)
Identical(m, n) ==
  /\ t1[m].type = t2[n].type /\ (only_types \/ t1[m].value = t2[n].value)
  /\ Cardinality(Below(t1, m)) = Cardinality(Below(t2, n))
  /\ \A c \in Below(t1, m), d \in Below(t2, n) :
       t1[c].child_index = t2[d].child_index => Identical(c, d)

Sum(f) == FoldFunction(+, 0, f)
Reports(Test(_)) == SelectSeq(reported, Test)
SumOf(rs, field) == Sum([i \in DOMAIN rs |-> rs[i][2][field]])

\* The sum of a column of a table.
Column(rows, field, n) == Sum([k \in DOMAIN rows |-> rows[k][field][n]])

Columns(rows) ==
  [field \in {"type", "value", "size"} |-> <<Column(rows, field, 1), Column(rows, field, 2)>>]

TablesAddUp ==
  LET rows == PredictorRows
      all  == DebugStringShort
  IN /\ {rows[k].key : k \in DOMAIN rows} = {reported[i][1] : i \in DOMAIN reported}
     /\ Columns(rows) = Restrict(all, {"type", "value", "size"})
     /\ \A k \in DOMAIN rows :
          LET row == rows[k]
              sizes == SizeRows(row.key)
          IN /\ Columns(sizes) = Restrict(row, {"type", "value", "size"})
             /\ row.size[1] - row.size[2] - 2 * row.avg[1] \in -1 .. 1

(***************************************************************************)
(* A completion counts as correct if and only if the two trees are the     *)
(* same, and the statistics, in all and of every predictor, are the sums   *)
(* of what was reported. The tables that are printed have a row for every  *)
(* predictor and add up: the sizes to the predictors, and these to the     *)
(* line on all of them; what an average is taken of loses at most half a   *)
(* node. Of the number of trees, see CompletionsCounted.                   *)
(***************************************************************************)
StatisticsAreExact ==
  pc = "returned" =>
    /\ Unlimited => (GetDifferences(info) = 0 <=> Identical(start1, start2))
    /\ TablesAddUp
    /\ statistics.total_count = Len(reported)
    /\ statistics.num_correct = Len(Reports(LAMBDA r : GetDifferences(r[2]) = 0))
    /\ \A field \in DOMAIN NoInfo \ {"num_aggregated_trees"} :
         /\ statistics.stats_[field] = SumOf(reported, field)
         /\ \A key \in DOMAIN statistics.stats_per_predictor_ :
              LET sizes == {e \in DOMAIN statistics.per_size : e[1] = key}
                  total == SumOf(Reports(LAMBDA r : r[1] = key), field)
              IN /\ statistics.stats_per_predictor_[key][field] = total
                 /\ Sum([e \in sizes |-> statistics.per_size[e][field]]) = total

(***************************************************************************)
(* The legend of the table by sizes, "count -> number of completions of    *)
(* given size in the evaluation": the count in the row of a predictor and  *)
(* a size is that of the completions that were reported for them. But the  *)
(* default TreeCompareInfo that a row starts with counts a tree already.   *)
(***************************************************************************)
CompletionsCounted ==
  \A key \in Predictors :
    LET rows == SizeRows(key)
        completions == Reports(LAMBDA r : r[1] = key)
    IN \A k \in DOMAIN rows :
         rows[k].key = TreeSize(t2, start2) /\ rows[k].count = Len(completions)

(***************************************************************************)
(* The assertion at the end of CompareTrees, which is never reached: the   *)
(* depth is zero again when the comparison is over. Every pair of leaves   *)
(* increases the depth for good.                                           *)
(***************************************************************************)
DepthRestored == pc = "returned" => depth = 0
=============================================================================
