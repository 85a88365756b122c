------------------------- MODULE PrettyPrintProofs -------------------------
(***************************************************************************)
(* The calls of a printer share one cursor, and each of them leaves it     *)
(* where it found it. The invariant says where the cursor is at every move *)
(* of every call on the stack: so many steps below the node of the call.   *)
(* That a handler ends at the step where it began is a fact about its list *)
(* of moves, shown once for each list of the two tables.                   *)
(***************************************************************************)
EXTENDS PrettyPrint, SequenceTheorems, TLAPS

-----------------------------------------------------------------------------
(* Lists of moves with the level of the cursor before each of them *)

\* Moves after which the cursor is where it was.
Flat ==
  {"print", "GREEN", "DEFAULT", "visit", "visit_filled", "loop", "fi", "to_last", "abstract?",
   "end", "leaf", "value", "name", "body", "clause", "block_ends", "unhandled",
   "one", "two", "three", "two?", "four?"}

\* Moves among the children of a node.
Sideways == {"right", "try_right", "right_or_bodiless", "right?", "again", "rest"}

Moves == Flat \union Sideways \union {"down", "last", "down?", "last?", "up", "back"}

\* The i-th move leads from its level to that of the next one; place has the
\* moves to which others jump.
IsStep(moves, level, place, i) ==
  /\ level[i] \in 0 .. 2
  /\ moves[i] \in Flat \union Sideways => level[i + 1] = level[i]
  /\ moves[i] \in Sideways => level[i] > 0
  /\ moves[i] = "rest" => level[i] = 1
  /\ moves[i] \in {"two?", "four?"} => level[i] = 0
  /\ moves[i] \in {"down", "last", "down?", "last?"} => level[i + 1] = level[i] + 1
  /\ moves[i] \in {"down?", "last?"} =>
       /\ place.up \in DOMAIN moves /\ moves[place.up] = "up"
       /\ level[place.up + 1] = level[i]
  /\ moves[i] = "up" =>
       /\ level[i] = level[i + 1] + 1
       /\ place.up \in DOMAIN moves /\ i <= place.up
  /\ moves[i] = "right?" =>
       /\ place.fi \in DOMAIN moves /\ i < place.fi /\ moves[place.fi] = "fi"
       /\ level[place.fi + 1] = level[i]
  /\ moves[i] = "fi" => i = place.fi
  /\ moves[i] = "again" =>
       /\ place.loop \in DOMAIN moves /\ place.loop < i /\ moves[place.loop] = "loop"
       /\ level[place.loop] = level[i]
  /\ moves[i] = "loop" => i = place.loop
  /\ moves[i] = "to_last" =>
       /\ i = place.to_last
       /\ place.back \in DOMAIN moves /\ i < place.back /\ moves[place.back] = "back"
       /\ level[place.back + 1] = level[i]
  /\ moves[i] = "back" =>
       /\ i = place.back
       /\ place.to_last \in DOMAIN moves /\ place.to_last < i /\ moves[place.to_last] = "to_last"
       /\ level[place.to_last] = level[i]

IsWalk(moves, level, place) ==
  /\ level[1] = 0 /\ level[Len(moves) + 1] = 0
  /\ \A i \in DOMAIN moves : IsStep(moves, level, place, i)

\* What is printed of a node ends where it began.
Balanced(moves) ==
  /\ moves \in Seq(Moves)
  /\ \E level, place : IsWalk(moves, level, place)

AllBalanced(table) == \A row \in table : Balanced(row.moves)

\* The lists that several types have are balanced.
LEMMA SharedLists ==
  \A moves \in {Leaf, One, Two, Three, Optional, All, FirstAndOthers, Unary, Binary} :
    Balanced(moves)
<1>1. Balanced(Leaf)
  <2>1. IsWalk(Leaf, <<0>>, [up |-> 0])
    BY DEF Leaf, IsWalk, IsStep, Flat, Sideways
  <2> QED
    BY <2>1 DEF Balanced, Leaf, Moves, Flat, Sideways
<1>2. Balanced(One)
  <2>1. IsWalk(One, <<0, 1, 1, 1, 0>>, [up |-> 4])
    BY DEF One, IsWalk, IsStep, Flat, Sideways
  <2> QED
    BY <2>1 DEF Balanced, One, Moves, Flat, Sideways
<1>3. Balanced(Two)
  <2>1. IsWalk(Two, <<0, 1, 1, 1, 1, 1, 0>>, [up |-> 6])
    BY DEF Two, IsWalk, IsStep, Flat, Sideways
  <2> QED
    BY <2>1 DEF Balanced, Two, Moves, Flat, Sideways
<1>4. Balanced(Three)
  <2>1. IsWalk(Three, <<0, 1, 1, 1, 1, 1, 1, 1, 0>>, [up |-> 8])
    BY DEF Three, IsWalk, IsStep, Flat, Sideways
  <2> QED
    BY <2>1 DEF Balanced, Three, Moves, Flat, Sideways
<1>5. Balanced(Optional)
  <2>1. IsWalk(Optional, <<0, 1, 1, 1, 0>>, [up |-> 4])
    BY DEF Optional, IsWalk, IsStep, Flat, Sideways
  <2> QED
    BY <2>1 DEF Balanced, Optional, Moves, Flat, Sideways
<1>6. Balanced(All)
  <2>1. IsWalk(All, <<0, 1, 1, 1, 1, 0>>, [up |-> 5, loop |-> 2])
    BY DEF All, IsWalk, IsStep, Flat, Sideways
  <2> QED
    BY <2>1 DEF Balanced, All, Moves, Flat, Sideways
<1>7. Balanced(FirstAndOthers)
  <2>1. IsWalk(FirstAndOthers, <<0, 1, 1, 1, 1, 1, 1, 1, 0>>, [up |-> 8, fi |-> 7, loop |-> 4])
    BY DEF FirstAndOthers, IsWalk, IsStep, Flat, Sideways
  <2> QED
    BY <2>1 DEF Balanced, FirstAndOthers, Moves, Flat, Sideways
<1>8. Balanced(Unary)
  <2>1. IsWalk(Unary, <<0, 0, 1, 1, 0>>, [up |-> 4])
    BY DEF Unary, IsWalk, IsStep, Flat, Sideways
  <2> QED
    BY <2>1 DEF Balanced, Unary, Moves, Flat, Sideways
<1>9. Balanced(Binary)
  <2>1. IsWalk(Binary, <<0, 0, 1, 1, 1, 1, 0>>, [up |-> 6])
    BY DEF Binary, IsWalk, IsStep, Flat, Sideways
  <2> QED
    BY <2>1 DEF Balanced, Binary, Moves, Flat, Sideways
<1> QED
  BY <1>1, <1>2, <1>3, <1>4, <1>5, <1>6, <1>7, <1>8, <1>9

\* Those of JavaUnits (PrettyPrintTraverseJava).
LEMMA JavaUnitsBalanced == AllBalanced(JavaUnits)
<1>1. Balanced(<<"leaf">>)
  <2>1. IsWalk(<<"leaf">>, <<0, 0>>, [up |-> 0])
    BY DEF IsWalk, IsStep, Flat, Sideways
  <2> QED
    BY <2>1 DEF Balanced, Moves, Flat, Sideways
<1>2. Balanced(<<"down?", "loop", "visit", "again", "up", "one">>)
  <2>1. IsWalk(<<"down?", "loop", "visit", "again", "up", "one">>,
               <<0, 1, 1, 1, 1, 0, 0>>, [up |-> 5, loop |-> 2])
    BY DEF IsWalk, IsStep, Flat, Sideways
  <2> QED
    BY <2>1 DEF Balanced, Moves, Flat, Sideways
<1> QED
  BY <1>1, <1>2, SharedLists DEF AllBalanced, Kinds, JavaUnits

\* Those of JavaNames (PrettyPrintTraverseJava).
LEMMA JavaNamesBalanced == AllBalanced(JavaNames)
  BY SharedLists DEF AllBalanced, Kinds, JavaNames

\* Those of JavaDeclarations (PrettyPrintTraverseJava).
LEMMA JavaDeclarationsBalanced == AllBalanced(JavaDeclarations)
<1>1. Balanced(<<"down", "visit", "right", "visit", "rest", "visit", "up">>)
  <2>1. IsWalk(<<"down", "visit", "right", "visit", "rest", "visit", "up">>,
               <<0, 1, 1, 1, 1, 1, 1, 0>>, [up |-> 7])
    BY DEF IsWalk, IsStep, Flat, Sideways
  <2> QED
    BY <2>1 DEF Balanced, Moves, Flat, Sideways
<1>2. Balanced(<<"down", "visit", "right", "visit", "right", "loop", "visit", "again", "up">>)
  <2>1. IsWalk(<<"down", "visit", "right", "visit", "right", "loop", "visit", "again", "up">>,
               <<0, 1, 1, 1, 1, 1, 1, 1, 1, 0>>, [up |-> 9, loop |-> 6])
    BY DEF IsWalk, IsStep, Flat, Sideways
  <2> QED
    BY <2>1 DEF Balanced, Moves, Flat, Sideways
<1>3. Balanced(<<"down", "visit", "right?", "visit", "fi", "up">>)
  <2>1. IsWalk(<<"down", "visit", "right?", "visit", "fi", "up">>,
               <<0, 1, 1, 1, 1, 1, 0>>, [up |-> 6, fi |-> 5])
    BY DEF IsWalk, IsStep, Flat, Sideways
  <2> QED
    BY <2>1 DEF Balanced, Moves, Flat, Sideways
<1> QED
  BY <1>1, <1>2, <1>3, SharedLists DEF AllBalanced, Kinds, JavaDeclarations

\* Those of JavaMethods (PrettyPrintTraverseJava).
LEMMA JavaMethodsBalanced == AllBalanced(JavaMethods)
<1>1. Balanced(<<"down", "visit", "abstract?", "right", "visit", "right_or_bodiless", "to_last",
                 "visit", "right", "back", "visit", "up">>)
  <2>1. IsWalk(<<"down", "visit", "abstract?", "right", "visit", "right_or_bodiless", "to_last",
                 "visit", "right", "back", "visit", "up">>,
               <<0, 1, 1, 1, 1, 1, 1, 1, 1, 1, 1, 1, 0>>, [up |-> 12, to_last |-> 7, back |-> 10])
    BY DEF IsWalk, IsStep, Flat, Sideways
  <2> QED
    BY <2>1 DEF Balanced, Moves, Flat, Sideways
<1>2. Balanced(<<"down", "visit", "abstract?", "right", "visit", "right", "visit",
                 "right_or_bodiless", "to_last", "visit", "right", "back", "visit", "up">>)
  <2>1. IsWalk(<<"down", "visit", "abstract?", "right", "visit", "right", "visit",
                 "right_or_bodiless", "to_last", "visit", "right", "back", "visit", "up">>,
               <<0, 1, 1, 1, 1, 1, 1, 1, 1, 1, 1, 1, 1, 1, 0>>,
               [up |-> 14, to_last |-> 9, back |-> 12])
    BY DEF IsWalk, IsStep, Flat, Sideways
  <2> QED
    BY <2>1 DEF Balanced, Moves, Flat, Sideways
<1> QED
  BY <1>1, <1>2 DEF AllBalanced, Kinds, JavaMethods

\* Those of JavaJumps (PrettyPrintTraverseJava).
LEMMA JavaJumpsBalanced == AllBalanced(JavaJumps)
<1>1. Balanced(<<"down", "visit", "right", "visit", "right?", "loop", "visit", "again", "fi",
                 "up">>)
  <2>1. IsWalk(<<"down", "visit", "right", "visit", "right?", "loop", "visit", "again", "fi",
                 "up">>, <<0, 1, 1, 1, 1, 1, 1, 1, 1, 1, 0>>, [up |-> 10, fi |-> 9, loop |-> 6])
    BY DEF IsWalk, IsStep, Flat, Sideways
  <2> QED
    BY <2>1 DEF Balanced, Moves, Flat, Sideways
<1> QED
  BY <1>1, SharedLists DEF AllBalanced, Kinds, JavaJumps

\* Those of JavaLoops (PrettyPrintTraverseJava).
LEMMA JavaLoopsBalanced == AllBalanced(JavaLoops)
<1>1. Balanced(<<"down", "visit", "right", "visit", "right?", "visit", "fi", "end", "up">>)
  <2>1. IsWalk(<<"down", "visit", "right", "visit", "right?", "visit", "fi", "end", "up">>,
               <<0, 1, 1, 1, 1, 1, 1, 1, 1, 0>>, [up |-> 9, fi |-> 7])
    BY DEF IsWalk, IsStep, Flat, Sideways
  <2> QED
    BY <2>1 DEF Balanced, Moves, Flat, Sideways
<1>2. Balanced(<<"down", "loop", "visit", "block_ends", "again", "up">>)
  <2>1. IsWalk(<<"down", "loop", "visit", "block_ends", "again", "up">>,
               <<0, 1, 1, 1, 1, 1, 0>>, [up |-> 6, loop |-> 2])
    BY DEF IsWalk, IsStep, Flat, Sideways
  <2> QED
    BY <2>1 DEF Balanced, Moves, Flat, Sideways
<1> QED
  BY <1>1, <1>2, SharedLists DEF AllBalanced, Kinds, JavaLoops

\* Those of JavaExpressions (PrettyPrintTraverseJava).
LEMMA JavaExpressionsBalanced == AllBalanced(JavaExpressions)
<1>1. Balanced(<<"leaf">>)
  <2>1. IsWalk(<<"leaf">>, <<0, 0>>, [up |-> 0])
    BY DEF IsWalk, IsStep, Flat, Sideways
  <2> QED
    BY <2>1 DEF Balanced, Moves, Flat, Sideways
<1>2. Balanced(<<"down?", "visit", "up">>)
  <2>1. IsWalk(<<"down?", "visit", "up">>, <<0, 1, 1, 0>>, [up |-> 3])
    BY DEF IsWalk, IsStep, Flat, Sideways
  <2> QED
    BY <2>1 DEF Balanced, Moves, Flat, Sideways
<1>3. Balanced(<<"down", "visit", "right?", "loop", "clause", "visit", "again", "fi", "up">>)
  <2>1. IsWalk(<<"down", "visit", "right?", "loop", "clause", "visit", "again", "fi", "up">>,
               <<0, 1, 1, 1, 1, 1, 1, 1, 1, 0>>, [up |-> 9, fi |-> 8, loop |-> 4])
    BY DEF IsWalk, IsStep, Flat, Sideways
  <2> QED
    BY <2>1 DEF Balanced, Moves, Flat, Sideways
<1>4. Balanced(<<"down?", "right?", "loop", "visit", "again", "fi", "up">>)
  <2>1. IsWalk(<<"down?", "right?", "loop", "visit", "again", "fi", "up">>,
               <<0, 1, 1, 1, 1, 1, 1, 0>>, [up |-> 7, fi |-> 6, loop |-> 3])
    BY DEF IsWalk, IsStep, Flat, Sideways
  <2> QED
    BY <2>1 DEF Balanced, Moves, Flat, Sideways
<1> QED
  BY <1>1, <1>2, <1>3, <1>4, SharedLists DEF AllBalanced, Kinds, JavaExpressions

\* Every handler of the language is balanced.
LEMMA JavaTable == AllBalanced(Java)
  BY JavaUnitsBalanced, JavaNamesBalanced, JavaDeclarationsBalanced, JavaMethodsBalanced,
     JavaJumpsBalanced, JavaLoopsBalanced, JavaExpressionsBalanced
  DEF AllBalanced, Java

\* Those of JSFunctions (PrettyPrintTraverseJS).
LEMMA JSFunctionsBalanced == AllBalanced(JSFunctions)
<1>1. Balanced(<<"down", "name", "visit", "right", "to_last", "visit", "try_right", "back",
                 "body", "visit", "up">>)
  <2>1. IsWalk(<<"down", "name", "visit", "right", "to_last", "visit", "try_right", "back",
                 "body", "visit", "up">>,
               <<0, 1, 1, 1, 1, 1, 1, 1, 1, 1, 1, 0>>, [up |-> 11, to_last |-> 5, back |-> 8])
    BY DEF IsWalk, IsStep, Flat, Sideways
  <2> QED
    BY <2>1 DEF Balanced, Moves, Flat, Sideways
<1>2. Balanced(<<"down", "to_last", "visit", "try_right", "back", "body", "visit", "up">>)
  <2>1. IsWalk(<<"down", "to_last", "visit", "try_right", "back", "body", "visit", "up">>,
               <<0, 1, 1, 1, 1, 1, 1, 1, 0>>, [up |-> 8, to_last |-> 2, back |-> 5])
    BY DEF IsWalk, IsStep, Flat, Sideways
  <2> QED
    BY <2>1 DEF Balanced, Moves, Flat, Sideways
<1> QED
  BY <1>1, <1>2 DEF AllBalanced, Kinds, JSFunctions

\* Those of JSBlocks (PrettyPrintTraverseJS).
LEMMA JSBlocksBalanced == AllBalanced(JSBlocks)
<1>1. Balanced(<<"down?", "visit", "right?", "loop", "visit", "again", "fi", "up">>)
  <2>1. IsWalk(<<"down?", "visit", "right?", "loop", "visit", "again", "fi", "up">>,
               <<0, 1, 1, 1, 1, 1, 1, 1, 0>>, [up |-> 8, fi |-> 7, loop |-> 4])
    BY DEF IsWalk, IsStep, Flat, Sideways
  <2> QED
    BY <2>1 DEF Balanced, Moves, Flat, Sideways
<1>2. Balanced(<<"two?", "down", "visit", "right", "visit", "end", "up">>)
  <2>1. IsWalk(<<"two?", "down", "visit", "right", "visit", "end", "up">>,
               <<0, 0, 1, 1, 1, 1, 1, 0>>, [up |-> 7])
    BY DEF IsWalk, IsStep, Flat, Sideways
  <2> QED
    BY <2>1 DEF Balanced, Moves, Flat, Sideways
<1>3. Balanced(<<"down?", "loop", "visit", "down", "visit", "up", "again", "up">>)
  <2>1. IsWalk(<<"down?", "loop", "visit", "down", "visit", "up", "again", "up">>,
               <<0, 1, 1, 1, 2, 2, 1, 1, 0>>, [up |-> 8, loop |-> 2])
    BY DEF IsWalk, IsStep, Flat, Sideways
  <2> QED
    BY <2>1 DEF Balanced, Moves, Flat, Sideways
<1> QED
  BY <1>1, <1>2, <1>3, SharedLists DEF AllBalanced, Kinds, JSBlocks

\* Those of JSOperands (PrettyPrintTraverseJS).
LEMMA JSOperandsBalanced == AllBalanced(JSOperands)
<1>1. Balanced(<<"two", "down", "visit", "up", "last", "visit", "up">>)
  <2>1. IsWalk(<<"two", "down", "visit", "up", "last", "visit", "up">>,
               <<0, 0, 1, 1, 0, 1, 1, 0>>, [up |-> 7])
    BY DEF IsWalk, IsStep, Flat, Sideways
  <2> QED
    BY <2>1 DEF Balanced, Moves, Flat, Sideways
<1>2. Balanced(<<"value">>)
  <2>1. IsWalk(<<"value">>, <<0, 0>>, [up |-> 0])
    BY DEF IsWalk, IsStep, Flat, Sideways
  <2> QED
    BY <2>1 DEF Balanced, Moves, Flat, Sideways
<1>3. Balanced(<<"two?", "down", "visit", "right", "visit", "up">>)
  <2>1. IsWalk(<<"two?", "down", "visit", "right", "visit", "up">>,
               <<0, 0, 1, 1, 1, 1, 0>>, [up |-> 6])
    BY DEF IsWalk, IsStep, Flat, Sideways
  <2> QED
    BY <2>1 DEF Balanced, Moves, Flat, Sideways
<1>4. Balanced(<<"one", "value", "down", "visit", "up">>)
  <2>1. IsWalk(<<"one", "value", "down", "visit", "up">>, <<0, 0, 0, 1, 1, 0>>, [up |-> 5])
    BY DEF IsWalk, IsStep, Flat, Sideways
  <2> QED
    BY <2>1 DEF Balanced, Moves, Flat, Sideways
<1> QED
  BY <1>1, <1>2, <1>3, <1>4, SharedLists DEF AllBalanced, Kinds, JSOperands

\* Those of JSConditions (PrettyPrintTraverseJS).
LEMMA JSConditionsBalanced == AllBalanced(JSConditions)
<1>1. Balanced(<<"three", "down", "visit", "right", "visit", "right", "visit", "up">>)
  <2>1. IsWalk(<<"three", "down", "visit", "right", "visit", "right", "visit", "up">>,
               <<0, 0, 1, 1, 1, 1, 1, 1, 0>>, [up |-> 8])
    BY DEF IsWalk, IsStep, Flat, Sideways
  <2> QED
    BY <2>1 DEF Balanced, Moves, Flat, Sideways
<1>2. Balanced(<<"four?", "down", "visit", "right", "visit", "right", "visit", "right", "visit",
                 "up">>)
  <2>1. IsWalk(<<"four?", "down", "visit", "right", "visit", "right", "visit", "right", "visit",
                 "up">>, <<0, 0, 1, 1, 1, 1, 1, 1, 1, 1, 0>>, [up |-> 10])
    BY DEF IsWalk, IsStep, Flat, Sideways
  <2> QED
    BY <2>1 DEF Balanced, Moves, Flat, Sideways
<1>3. Balanced(<<"down", "visit", "right", "visit", "right?", "visit", "fi", "up">>)
  <2>1. IsWalk(<<"down", "visit", "right", "visit", "right?", "visit", "fi", "up">>,
               <<0, 1, 1, 1, 1, 1, 1, 1, 0>>, [up |-> 8, fi |-> 7])
    BY DEF IsWalk, IsStep, Flat, Sideways
  <2> QED
    BY <2>1 DEF Balanced, Moves, Flat, Sideways
<1> QED
  BY <1>1, <1>2, <1>3, SharedLists DEF AllBalanced, Kinds, JSConditions

\* Those of JSLoops (PrettyPrintTraverseJS).
LEMMA JSLoopsBalanced == AllBalanced(JSLoops)
<1>1. Balanced(<<"two", "down", "visit", "up", "value", "last", "visit", "up">>)
  <2>1. IsWalk(<<"two", "down", "visit", "up", "value", "last", "visit", "up">>,
               <<0, 0, 1, 1, 0, 0, 1, 1, 0>>, [up |-> 8])
    BY DEF IsWalk, IsStep, Flat, Sideways
  <2> QED
    BY <2>1 DEF Balanced, Moves, Flat, Sideways
<1>2. Balanced(<<"two", "last", "visit", "up", "down", "visit", "up">>)
  <2>1. IsWalk(<<"two", "last", "visit", "up", "down", "visit", "up">>,
               <<0, 0, 1, 1, 0, 1, 1, 0>>, [up |-> 7])
    BY DEF IsWalk, IsStep, Flat, Sideways
  <2> QED
    BY <2>1 DEF Balanced, Moves, Flat, Sideways
<1>3. Balanced(<<"last?", "visit", "end", "up">>)
  <2>1. IsWalk(<<"last?", "visit", "end", "up">>, <<0, 1, 1, 1, 0>>, [up |-> 4])
    BY DEF IsWalk, IsStep, Flat, Sideways
  <2> QED
    BY <2>1 DEF Balanced, Moves, Flat, Sideways
<1>4. Balanced(<<"one", "value", "down", "visit", "up">>)
  <2>1. IsWalk(<<"one", "value", "down", "visit", "up">>, <<0, 0, 0, 1, 1, 0>>, [up |-> 5])
    BY DEF IsWalk, IsStep, Flat, Sideways
  <2> QED
    BY <2>1 DEF Balanced, Moves, Flat, Sideways
<1> QED
  BY <1>1, <1>2, <1>3, <1>4, SharedLists DEF AllBalanced, Kinds, JSLoops

\* Those of JSClauses (PrettyPrintTraverseJS).
LEMMA JSClausesBalanced == AllBalanced(JSClauses)
<1>1. Balanced(<<"two", "down", "visit_filled", "right", "body", "visit", "up">>)
  <2>1. IsWalk(<<"two", "down", "visit_filled", "right", "body", "visit", "up">>,
               <<0, 0, 1, 1, 1, 1, 1, 0>>, [up |-> 7])
    BY DEF IsWalk, IsStep, Flat, Sideways
  <2> QED
    BY <2>1 DEF Balanced, Moves, Flat, Sideways
<1>2. Balanced(<<"three", "down", "visit", "right", "visit_filled", "right", "visit_filled",
                 "up">>)
  <2>1. IsWalk(<<"three", "down", "visit", "right", "visit_filled", "right", "visit_filled",
                 "up">>, <<0, 0, 1, 1, 1, 1, 1, 1, 0>>, [up |-> 8])
    BY DEF IsWalk, IsStep, Flat, Sideways
  <2> QED
    BY <2>1 DEF Balanced, Moves, Flat, Sideways
<1>3. Balanced(<<"leaf">>)
  <2>1. IsWalk(<<"leaf">>, <<0, 0>>, [up |-> 0])
    BY DEF IsWalk, IsStep, Flat, Sideways
  <2> QED
    BY <2>1 DEF Balanced, Moves, Flat, Sideways
<1> QED
  BY <1>1, <1>2, <1>3, SharedLists DEF AllBalanced, Kinds, JSClauses

\* Every handler of the language is balanced.
LEMMA JSTable == AllBalanced(JS)
  BY JSFunctionsBalanced, JSBlocksBalanced, JSOperandsBalanced, JSConditionsBalanced,
     JSLoopsBalanced, JSClausesBalanced
  DEF AllBalanced, JS

-----------------------------------------------------------------------------
(* The moves of a call *)

\* The marks of a highlight do not move the cursor.
LEMMA HighlightBalanced == Balanced(Highlight)
<1>1. IsWalk(Highlight, <<0, 0, 0, 0>>, [up |-> 0])
  BY DEF Highlight, IsWalk, IsStep, Flat, Sideways
<1> QED
  BY <1>1 DEF Balanced, Highlight, Moves, Flat, Sideways

\* A type that is not known is a failed CHECK, which moves nothing.
LEMMA UnhandledBalanced == Balanced(<<"unhandled">>)
<1>1. IsWalk(<<"unhandled">>, <<0, 0>>, [up |-> 0])
  BY DEF IsWalk, IsStep, Flat, Sideways
<1> QED
  BY <1>1 DEF Balanced, Moves, Flat, Sideways

\* Printing the node first changes nothing about where the cursor is.
LEMMA PrintFirst ==
  ASSUME NEW moves, Balanced(moves)
  PROVE  Balanced(<<"print">> \o moves)
<1> DEFINE longer == <<"print">> \o moves
<1>1. moves \in Seq(Moves) /\ <<"print">> \in Seq(Moves) /\ Len(<<"print">>) = 1
  BY DEF Balanced, Moves, Flat
<1>2. /\ longer \in Seq(Moves) /\ Len(longer) = Len(moves) + 1
      /\ longer[1] = "print"
      /\ \A i \in DOMAIN moves : longer[i + 1] = moves[i]
      /\ DOMAIN moves = 1 .. Len(moves) /\ DOMAIN longer = 1 .. Len(moves) + 1
  BY <1>1, ConcatProperties, LenProperties
<1>3. PICK level, place : IsWalk(moves, level, place)
  BY DEF Balanced
<1> DEFINE later  == [i \in 1 .. Len(moves) + 2 |-> IF i = 1 THEN 0 ELSE level[i - 1]]
           places == [up |-> place.up + 1, fi |-> place.fi + 1, loop |-> place.loop + 1,
                      to_last |-> place.to_last + 1, back |-> place.back + 1]
<1>4. Len(moves) \in Nat
  BY <1>1, LenProperties
<1>5. /\ later[1] = 0
      /\ \A i \in 1 .. Len(moves) + 1 : later[i + 1] = level[i]
      /\ places.up = place.up + 1 /\ places.fi = place.fi + 1 /\ places.loop = place.loop + 1
      /\ places.to_last = place.to_last + 1 /\ places.back = place.back + 1
  BY <1>4
<1> HIDE DEF longer, later, places
<1>6. IsStep(longer, later, places, 1)
  <2>1. later[2] = 0
    BY <1>3, <1>4, <1>5 DEF IsWalk
  <2> QED
    BY <2>1, <1>2, <1>5 DEF IsStep, Flat, Sideways
<1>7. ASSUME NEW i \in DOMAIN moves
      PROVE  IsStep(longer, later, places, i + 1)
  <2>1. IsStep(moves, level, place, i)
    BY <1>3 DEF IsWalk
  <2>1a. i \in 1 .. Len(moves) /\ i \in 1 .. Len(moves) + 1 /\ i + 1 \in 1 .. Len(moves) + 1
    BY <1>2, <1>4
  <2>2. /\ longer[i + 1] = moves[i] /\ later[i + 1] = level[i] /\ later[i + 1 + 1] = level[i + 1]
        /\ i \in Nat
    BY <1>2, <1>5, <2>1a
  <2>3. \A k \in DOMAIN moves :
          /\ k \in Nat /\ k + 1 \in DOMAIN longer /\ longer[k + 1] = moves[k]
          /\ later[k + 1] = level[k] /\ later[k + 1 + 1] = level[k + 1]
    BY <1>2, <1>4, <1>5
  <2> QED
    BY <2>1, <2>2, <2>3, <1>5 DEF IsStep
<1>8. IsWalk(longer, later, places)
  <2>1. ASSUME NEW i \in DOMAIN longer
        PROVE  IsStep(longer, later, places, i)
    <3>1. i = 1 \/ i - 1 \in DOMAIN moves
      BY <1>2, <1>4
    <3>2. i = 1 \/ i - 1 + 1 = i
      BY <1>2, <1>4
    <3> QED
      BY <3>1, <3>2, <1>6, <1>7
  <2>2. later[Len(longer) + 1] = 0
    <3>1. level[Len(moves) + 1] = 0
      BY <1>3 DEF IsWalk
    <3> QED
      BY <3>1, <1>2, <1>4, <1>5
  <2> QED
    BY <2>1, <2>2, <1>5 DEF IsWalk
<1> QED
  BY <1>2, <1>8 DEF Balanced, longer

\* A call begins with a balanced list, which it has not begun.
LEMMA CallIsBalanced ==
  ASSUME NEW n, NEW is_highlighting
  PROVE  Balanced(Call(n, is_highlighting).moves)
<1> DEFINE kind == nodes[n].type
           highlights == n = input.highlighted_position /\ ~is_highlighting
<1>1. Call(n, is_highlighting).moves
        = IF highlights THEN Highlight
          ELSE <<"print">> \o IF kind \in Types(Handlers) THEN MovesOf(Handlers, kind)
                              ELSE <<"unhandled">>
  BY DEF Call
<1>2. AllBalanced(Handlers)
  BY JavaTable, JSTable DEF Handlers
<1>3. ASSUME kind \in Types(Handlers)
      PROVE  Balanced(MovesOf(Handlers, kind))
  <2>1. \E row \in Handlers : kind \in row.kinds
    BY <1>3 DEF Types
  <2> QED
    BY <2>1, <1>2 DEF MovesOf, AllBalanced
<1> QED
  BY <1>1, <1>3, HighlightBalanced, UnhandledBalanced, PrintFirst

-----------------------------------------------------------------------------
(* The cursor in the tree *)

\* cursor is level steps below n.
Under(tree, level, cursor, n) ==
  /\ cursor \in DOMAIN tree
  /\ level = 0 => cursor = n
  /\ level = 1 => tree[cursor].parent = n
  /\ level = 2 => /\ tree[cursor].parent \in DOMAIN tree
                  /\ tree[tree[cursor].parent].parent = n

\* A call whose cursor is where its next move expects it.
IsAt(tree, f, cursor) ==
  /\ f.pc \in 1 .. Len(f.moves) + 1
  /\ \E level, place :
       IsWalk(f.moves, level, place) /\ Under(tree, level[f.pc], cursor, f.position)

Frames(tree) ==
  [position : DOMAIN tree, is_highlighting : BOOLEAN, is_abstract : BOOLEAN,
   moves : Seq(Moves), pc : Int]

\* Where the cursor is for the i-th call: a caller finds it at the node of
\* the call that it waits for.
Cursor(i) == IF i = Len(calls) THEN t ELSE calls[i + 1].position

(***************************************************************************)
(* The invariant: while the printer runs, every call on the stack, and not *)
(* only the running one, has the cursor so many steps below its node as    *)
(* its next move expects. It is what makes a call return the cursor.       *)
(***************************************************************************)
PrintInv ==
  /\ input \in Inputs
  /\ t \in DOMAIN nodes
  /\ calls \in Seq(Frames(nodes))
  /\ status = "running" => \A i \in 1 .. Len(calls) : IsAt(nodes, calls[i], Cursor(i))

\* The links of a tree that is printed.
LEMMA Links ==
  ASSUME input \in Inputs
  PROVE  /\ 0 \in DOMAIN nodes
         /\ \A n \in DOMAIN nodes :
              /\ n \in Nat
              /\ nodes[n].parent \in DOMAIN nodes \union {-1}
              /\ nodes[n].first_child >= 0 =>
                   /\ nodes[n].first_child \in DOMAIN nodes
                   /\ nodes[nodes[n].first_child].parent = n
              /\ nodes[n].last_child >= 0 =>
                   /\ nodes[n].last_child \in DOMAIN nodes
                   /\ nodes[nodes[n].last_child].parent = n
              /\ nodes[n].right_sib >= 0 =>
                   /\ nodes[n].right_sib \in DOMAIN nodes
                   /\ nodes[nodes[n].right_sib].parent = nodes[n].parent
              /\ (nodes[n].first_child >= 0) = (nodes[n].last_child >= 0)
              /\ nodes[n].parent >= 0 => nodes[nodes[n].parent].last_child >= 0
<1>1. /\ 0 \in DOMAIN nodes /\ DOMAIN nodes \subseteq Nat
      /\ \A n \in DOMAIN nodes : LinksConsistent(nodes, n)
      /\ \A n \in DOMAIN nodes :
           nodes[n].parent >= 0 => nodes[nodes[n].parent].last_child >= 0
  BY InputsAssumption DEF InputsAssumption, nodes
<1>2. ASSUME NEW n \in DOMAIN nodes
      PROVE  /\ nodes[n].parent \in DOMAIN nodes \union {-1}
             /\ nodes[n].first_child >= 0 =>
                  /\ nodes[n].first_child \in DOMAIN nodes
                  /\ nodes[nodes[n].first_child].parent = n
             /\ nodes[n].last_child >= 0 =>
                  /\ nodes[n].last_child \in DOMAIN nodes
                  /\ nodes[nodes[n].last_child].parent = n
             /\ (nodes[n].first_child >= 0) = (nodes[n].last_child >= 0)
             /\ nodes[n].right_sib \in DOMAIN nodes \union {-1}
             /\ nodes[n].right_sib >= 0 => nodes[nodes[n].right_sib].left_sib = n
  <2>1. LinksConsistent(nodes, n)
    BY <1>1
  <2> QED
    BY <2>1, <1>1 DEF LinksConsistent
<1>3. ASSUME NEW n \in DOMAIN nodes, nodes[n].right_sib >= 0
      PROVE  nodes[nodes[n].right_sib].parent = nodes[n].parent
  <2> DEFINE m == nodes[n].right_sib
  <2>1. m \in DOMAIN nodes /\ nodes[m].left_sib = n /\ n \in Nat
    BY <1>1, <1>2, <1>3
  <2>2. LinksConsistent(nodes, m)
    BY <1>1, <2>1
  <2> QED
    BY <2>1, <2>2 DEF LinksConsistent
<1>4. ASSUME NEW n \in DOMAIN nodes, nodes[n].right_sib >= 0
      PROVE  nodes[n].right_sib \in DOMAIN nodes
  BY <1>2, <1>4
<1> QED
  BY <1>1, <1>2, <1>3, <1>4

\* The levels of a walk are 0, 1 or 2.
LEMMA LevelsOf ==
  ASSUME NEW moves, moves \in Seq(Moves), NEW level, NEW place, IsWalk(moves, level, place),
         NEW i \in 1 .. Len(moves) + 1
  PROVE  level[i] \in 0 .. 2
<1>1. Len(moves) \in Nat /\ DOMAIN moves = 1 .. Len(moves)
  BY LenProperties
<1>2. CASE i = Len(moves) + 1
  BY <1>2 DEF IsWalk
<1>3. CASE i \in DOMAIN moves
  BY <1>3 DEF IsWalk, IsStep
<1> QED
  BY <1>1, <1>2, <1>3

-----------------------------------------------------------------------------
(* Steps of the running call *)

\* A stack without its last call.
LEMMA FrontOf ==
  ASSUME NEW F, NEW stack \in Seq(F), stack # <<>>
  PROVE  /\ Len(stack) \in Nat /\ Len(stack) # 0
         /\ Front(stack) \in Seq(F) /\ Len(Front(stack)) = Len(stack) - 1
         /\ \A i \in 1 .. Len(stack) - 1 : Front(stack)[i] = stack[i]
<1>1. Len(stack) \in Nat /\ Len(stack) # 0
  BY LenProperties, EmptySeq
<1>2. PICK n \in Nat : n = Len(stack) - 1
  BY <1>1
<1>3. \A i \in 1 .. n : stack[i] \in F
  BY <1>1, <1>2, LenProperties
<1>4. SubSeq(stack, 1, n) \in Seq(F)
  BY <1>3, SubSeqProperties
<1>5. Len(SubSeq(stack, 1, n)) = n
  BY <1>3, SubSeqProperties
<1>6. \A i \in 1 .. n : SubSeq(stack, 1, n)[i] = stack[i]
  BY <1>3, SubSeqProperties
<1> QED
  BY <1>1, <1>2, <1>4, <1>5, <1>6 DEF Front

\* What a stack is after its last call has been replaced, or another one has
\* been put on it.
LEMMA LastReplaced ==
  ASSUME NEW F, NEW stack \in Seq(F), stack # <<>>, NEW f \in F
  PROVE  LET new == Front(stack) \o <<f>> IN
         /\ new \in Seq(F) /\ Len(new) = Len(stack)
         /\ new[Len(stack)] = f
         /\ \A i \in 1 .. Len(stack) - 1 : new[i] = stack[i]
<1>1. /\ Len(stack) \in Nat /\ Len(stack) # 0
      /\ Front(stack) \in Seq(F) /\ Len(Front(stack)) = Len(stack) - 1
      /\ \A i \in 1 .. Len(stack) - 1 : Front(stack)[i] = stack[i]
  BY FrontOf
<1>2. <<f>> \in Seq(F) /\ Len(<<f>>) = 1 /\ <<f>>[1] = f
  OBVIOUS
<1> QED
  BY <1>1, <1>2, ConcatProperties

LEMMA LastFollowed ==
  ASSUME NEW F, NEW stack \in Seq(F), stack # <<>>, NEW f \in F, NEW g \in F
  PROVE  LET new == Front(stack) \o <<f, g>> IN
         /\ new \in Seq(F) /\ Len(new) = Len(stack) + 1
         /\ new[Len(stack)] = f /\ new[Len(stack) + 1] = g
         /\ \A i \in 1 .. Len(stack) - 1 : new[i] = stack[i]
<1>1. /\ Len(stack) \in Nat /\ Len(stack) # 0
      /\ Front(stack) \in Seq(F) /\ Len(Front(stack)) = Len(stack) - 1
      /\ \A i \in 1 .. Len(stack) - 1 : Front(stack)[i] = stack[i]
  BY FrontOf
<1>2. <<f, g>> \in Seq(F) /\ Len(<<f, g>>) = 2 /\ <<f, g>>[1] = f /\ <<f, g>>[2] = g
  OBVIOUS
<1> QED
  BY <1>1, <1>2, ConcatProperties

\* The running call is the last one of the stack.
LEMMA RunningCall ==
  ASSUME PrintInv, Running
  PROVE  /\ call \in Frames(nodes) /\ call = calls[Len(calls)]
         /\ Len(calls) \in Nat /\ Len(calls) # 0
         /\ Len(call.moves) \in Nat /\ DOMAIN call.moves = 1 .. Len(call.moves)
         /\ IsAt(nodes, call, t)
<1>1. Len(calls) \in Nat /\ Len(calls) # 0 /\ calls \in [1 .. Len(calls) -> Frames(nodes)]
  BY LenProperties, EmptySeq DEF PrintInv, Running
<1>2. call = calls[Len(calls)] /\ call \in Frames(nodes)
  BY <1>1 DEF call, Last
<1>3. call.moves \in Seq(Moves)
  BY <1>2 DEF Frames
<1>4. Len(call.moves) \in Nat /\ DOMAIN call.moves = 1 .. Len(call.moves)
  BY <1>3, LenProperties
<1>5. Len(calls) \in 1 .. Len(calls) /\ Cursor(Len(calls)) = t
  BY <1>1 DEF Cursor
<1>6. IsAt(nodes, calls[Len(calls)], t)
  BY <1>5 DEF PrintInv, Running
<1> QED
  BY <1>1, <1>2, <1>4, <1>6

\* The running call is at a move of its list, and the cursor so many steps
\* below its node as the move expects.
LEMMA RunningMove ==
  ASSUME PrintInv, NEW moves, At(moves)
  PROVE  /\ Running /\ Move \in moves
         /\ call.pc \in DOMAIN call.moves
         /\ \E level, place :
              /\ IsWalk(call.moves, level, place)
              /\ IsStep(call.moves, level, place, call.pc)
              /\ Under(nodes, level[call.pc], t, call.position)
              /\ level[call.pc + 1] \in 0 .. 2
<1>1. Running /\ call.pc \in DOMAIN call.moves /\ Move \in moves
  BY DEF At, Move
<1>2. /\ IsAt(nodes, call, t) /\ Len(call.moves) \in Nat
      /\ DOMAIN call.moves = 1 .. Len(call.moves) /\ call.moves \in Seq(Moves)
  BY <1>1, RunningCall DEF Frames
<1>3. PICK level, place : /\ IsWalk(call.moves, level, place)
                          /\ Under(nodes, level[call.pc], t, call.position)
  BY <1>2 DEF IsAt
<1>4. IsStep(call.moves, level, place, call.pc)
  BY <1>1, <1>3 DEF IsWalk
<1>5. call.pc + 1 \in 1 .. Len(call.moves) + 1
  BY <1>1, <1>2
<1>6. level[call.pc + 1] \in 0 .. 2
  BY <1>2, <1>3, <1>5, LevelsOf
<1> QED
  BY <1>1, <1>3, <1>4, <1>6

\* A step of the running call keeps the invariant when the cursor is where
\* the call goes on: its callers have not moved.
LEMMA CallGoesOn ==
  ASSUME PrintInv, Running, UNCHANGED input, NEW frame \in Frames(nodes),
         frame.position = call.position, calls' = Front(calls) \o <<frame>>,
         t' \in DOMAIN nodes, status' = "running" => IsAt(nodes, frame, t')
  PROVE  PrintInv'
<1>1. nodes' = nodes
  BY DEF nodes
<1>2. /\ Len(calls) \in Nat /\ Len(calls) # 0 /\ calls # <<>> /\ calls \in Seq(Frames(nodes))
      /\ call = calls[Len(calls)]
  BY RunningCall DEF PrintInv, Running
<1>3. /\ calls' \in Seq(Frames(nodes)) /\ Len(calls') = Len(calls)
      /\ calls'[Len(calls)] = frame
      /\ \A i \in 1 .. Len(calls) - 1 : calls'[i] = calls[i]
  BY <1>2, LastReplaced
<1>4. ASSUME status' = "running", NEW i \in 1 .. Len(calls')
      PROVE  IsAt(nodes', calls'[i], Cursor(i)')
  <2>1. CASE i = Len(calls)
    BY <1>1, <1>3, <1>4, <2>1 DEF Cursor
  <2>2. CASE i # Len(calls)
    <3>1. i \in 1 .. Len(calls) - 1 /\ i + 1 \in 1 .. Len(calls)
      BY <1>2, <1>3, <2>2
    <3>2. calls'[i] = calls[i] /\ calls'[i + 1].position = calls[i + 1].position
      <4>1. CASE i + 1 = Len(calls)
        BY <1>2, <1>3, <3>1, <4>1
      <4>2. CASE i + 1 # Len(calls)
        <5>1. i + 1 \in 1 .. Len(calls) - 1
          BY <1>2, <3>1, <4>2
        <5> QED
          BY <1>3, <3>1, <5>1
      <4> QED
        BY <4>1, <4>2
    <3>3. Cursor(i)' = Cursor(i)
      BY <1>3, <2>2, <3>2 DEF Cursor
    <3>4. IsAt(nodes, calls[i], Cursor(i))
      BY <1>2, <3>1 DEF PrintInv, Running
    <3> QED
      BY <1>1, <3>2, <3>3, <3>4
  <2> QED
    BY <2>1, <2>2
<1> QED
  BY <1>1, <1>3, <1>4 DEF PrintInv

\* The node of the running call does not change when its list goes on.
LEMMA CallWith ==
  ASSUME PrintInv, Running, NEW pc \in Int
  PROVE  /\ [call EXCEPT !.pc = pc] \in Frames(nodes)
         /\ [call EXCEPT !.pc = pc].position = call.position
         /\ [call EXCEPT !.pc = pc].moves = call.moves
         /\ [call EXCEPT !.pc = pc].pc = pc
<1>1. call \in Frames(nodes)
  BY RunningCall
<1> QED
  BY <1>1 DEF Frames

\* The same, for a step that only moves the cursor and the place in the list.
LEMMA CallGoesTo ==
  ASSUME PrintInv, Running, UNCHANGED input, NEW pc \in Int, Goto(pc), t' \in DOMAIN nodes,
         status' = "running" =>
           /\ pc \in 1 .. Len(call.moves) + 1
           /\ \E level, place : /\ IsWalk(call.moves, level, place)
                                /\ Under(nodes, level[pc], t', call.position)
  PROVE  PrintInv'
<1> DEFINE frame == [call EXCEPT !.pc = pc]
<1>1. /\ frame \in Frames(nodes) /\ frame.position = call.position
      /\ frame.moves = call.moves /\ frame.pc = pc
  BY CallWith
<1>2. calls' = Front(calls) \o <<frame>>
  BY DEF Goto
<1> HIDE DEF frame
<1>3. status' = "running" => IsAt(nodes, frame, t')
  BY <1>1 DEF IsAt
<1> QED
  BY <1>1, <1>2, <1>3, CallGoesOn

\* Steps along the list that leave the cursor alone: what is written or
\* checked, and moves that are not made.
LEMMA FlatStep ==
  ASSUME PrintInv, NEW moves, moves \subseteq Flat, At(moves), GoOn, UNCHANGED <<input, t>>
  PROVE  PrintInv'
<1>1. /\ Running /\ Move \in Flat /\ call.pc \in DOMAIN call.moves
      /\ DOMAIN call.moves = 1 .. Len(call.moves) /\ Len(call.moves) \in Nat
  BY RunningMove, RunningCall
<1>2. PICK level, place : /\ IsWalk(call.moves, level, place)
                          /\ IsStep(call.moves, level, place, call.pc)
                          /\ Under(nodes, level[call.pc], t, call.position)
  BY RunningMove
<1>3. level[call.pc + 1] = level[call.pc]
  BY <1>1, <1>2 DEF IsStep, Move
<1>4. call.pc + 1 \in 1 .. Len(call.moves) + 1 /\ call.pc + 1 \in Int
  BY <1>1
<1>5. Goto(call.pc + 1) /\ t' = t /\ t \in DOMAIN nodes
  BY DEF GoOn, PrintInv
<1>6. Under(nodes, level[call.pc + 1], t', call.position)
  BY <1>2, <1>3, <1>5
<1> QED
  BY <1>1, <1>2, <1>4, <1>5, <1>6, CallGoesTo

LEMMA WriteStep == PrintInv /\ Write => PrintInv'
<1>1. {"print", "GREEN", "DEFAULT"} \subseteq Flat
  BY DEF Flat
<1> QED
  BY <1>1, FlatStep DEF Write

LEMMA VisitNothingStep == PrintInv /\ VisitNothing => PrintInv'
<1>1. {"visit_filled"} \subseteq Flat
  BY DEF Flat
<1> QED
  BY <1>1, FlatStep DEF VisitNothing

LEMMA MarkStep == PrintInv /\ Mark => PrintInv'
<1>1. {"loop", "fi"} \subseteq Flat
  BY DEF Flat
<1> QED
  BY <1>1, FlatStep DEF Mark

LEMMA CheckStep == PrintInv /\ Check => PrintInv'
<1>1. {"end", "leaf", "value", "name", "body", "clause", "block_ends", "unhandled"}
        \union DOMAIN NumberOfChildren \subseteq Flat
  BY DEF Flat, NumberOfChildren
<1> QED
  BY <1>1, FlatStep DEF Check, CheckThat

-----------------------------------------------------------------------------
(* Steps that move the cursor *)

\* One step towards the root, and the steps away from it.
LEMMA StepDown ==
  ASSUME NEW tree, NEW level \in 0 .. 2, level + 1 \in 0 .. 2, NEW cursor, NEW child, NEW n,
         Under(tree, level, cursor, n), child \in DOMAIN tree, tree[child].parent = cursor
  PROVE  Under(tree, level + 1, child, n)
  BY DEF Under

LEMMA StepUp ==
  ASSUME NEW tree, NEW level \in 0 .. 1, NEW cursor, NEW n,
         Under(tree, level + 1, cursor, n),
         tree[cursor].parent \in DOMAIN tree
  PROVE  Under(tree, level, tree[cursor].parent, n)
  BY DEF Under

LEMMA StepSideways ==
  ASSUME NEW tree, NEW level \in 0 .. 2, level > 0, NEW cursor, NEW sibling, NEW n,
         Under(tree, level, cursor, n), sibling \in DOMAIN tree,
         tree[sibling].parent = tree[cursor].parent
  PROVE  Under(tree, level, sibling, n)
  BY DEF Under

\* Down to a child that is there; without one the program stops.
LEMMA DownStep == PrintInv /\ Down => PrintInv'
<1> SUFFICES ASSUME PrintInv, Down PROVE PrintInv'
  OBVIOUS
<1> DEFINE child == IF Move \in {"down", "down?"} THEN nodes[t].first_child
                    ELSE nodes[t].last_child
<1>1. /\ At({"down", "last", "down?", "last?"})
      /\ t' = IF child >= 0 THEN child ELSE t
      /\ status' = IF child >= 0 THEN status ELSE "aborted"
      /\ Goto(call.pc + 1) /\ UNCHANGED input
  BY DEF Down, CheckThat, GoOn
<1>2. /\ Running /\ Move \in {"down", "last", "down?", "last?"}
      /\ call.pc \in DOMAIN call.moves
      /\ DOMAIN call.moves = 1 .. Len(call.moves) /\ Len(call.moves) \in Nat
  BY <1>1, RunningMove, RunningCall
<1>3. PICK level, place : /\ IsWalk(call.moves, level, place)
                          /\ IsStep(call.moves, level, place, call.pc)
                          /\ Under(nodes, level[call.pc], t, call.position)
                          /\ level[call.pc + 1] \in 0 .. 2
  BY <1>1, RunningMove
<1>4. level[call.pc + 1] = level[call.pc] + 1 /\ level[call.pc] \in 0 .. 2
  BY <1>2, <1>3 DEF IsStep, Move
<1>5. child >= 0 => child \in DOMAIN nodes /\ nodes[child].parent = t
  BY Links DEF PrintInv
<1>6. t' \in DOMAIN nodes
  BY <1>1, <1>5 DEF PrintInv
<1>7. call.pc + 1 \in 1 .. Len(call.moves) + 1 /\ call.pc + 1 \in Int
  BY <1>2
<1> HIDE DEF child
<1>8. ASSUME status' = "running"
      PROVE  Under(nodes, level[call.pc + 1], t', call.position)
  <2>1. child >= 0 /\ t' = child
    BY <1>1, <1>8
  <2> QED
    BY <2>1, <1>3, <1>4, <1>5, StepDown
<1> QED
  BY <1>1, <1>2, <1>3, <1>6, <1>7, <1>8, CallGoesTo

\* Up from below the node of the call, never past it.
LEMMA UpStep == PrintInv /\ Up => PrintInv'
<1> SUFFICES ASSUME PrintInv, Up PROVE PrintInv'
  OBVIOUS
<1>1. /\ At({"up"}) /\ Goto(call.pc + 1) /\ UNCHANGED input
      /\ t' = IF nodes[t].parent >= 0 THEN nodes[t].parent ELSE t
  BY DEF Up, GoOn
<1>2. /\ Running /\ Move = "up" /\ call.pc \in DOMAIN call.moves
      /\ DOMAIN call.moves = 1 .. Len(call.moves) /\ Len(call.moves) \in Nat
      /\ call \in Frames(nodes)
  BY <1>1, RunningMove, RunningCall
<1>3. PICK level, place : /\ IsWalk(call.moves, level, place)
                          /\ IsStep(call.moves, level, place, call.pc)
                          /\ Under(nodes, level[call.pc], t, call.position)
                          /\ level[call.pc + 1] \in 0 .. 2
  BY <1>1, RunningMove
<1>4. level[call.pc] = level[call.pc + 1] + 1 /\ level[call.pc + 1] \in 0 .. 1
  BY <1>2, <1>3 DEF IsStep, Move
<1>5. nodes[t].parent \in DOMAIN nodes
  BY <1>2, <1>3, <1>4 DEF Under, Frames
<1>6. t' = nodes[t].parent
  <2>1. nodes[t].parent \in Nat
    BY <1>5, Links DEF PrintInv
  <2> QED
    BY <2>1, <1>1
<1>7. Under(nodes, level[call.pc + 1], t', call.position)
  BY <1>3, <1>4, <1>5, <1>6, StepUp
<1>8. call.pc + 1 \in 1 .. Len(call.moves) + 1 /\ call.pc + 1 \in Int
  BY <1>2
<1> QED
  BY <1>1, <1>2, <1>3, <1>5, <1>6, <1>7, <1>8, CallGoesTo

-----------------------------------------------------------------------------
(* Steps that jump in the list *)

LEMMA MaxIs ==
  ASSUME NEW S, S \subseteq Int, NEW m \in S, \A n \in S : n <= m
  PROVE  Max(S) = m
<1>1. \A y \in S : m >= y
  OBVIOUS
<1>2. \A x \in S : (\A y \in S : x >= y) => x = m
  OBVIOUS
<1> QED
  BY <1>1, <1>2 DEF Max

LEMMA MinIs ==
  ASSUME NEW S, S \subseteq Int, NEW m \in S, \A n \in S : m <= n
  PROVE  Min(S) = m
<1>1. \A x \in S : (\A y \in S : x =< y) => x = m
  OBVIOUS
<1> QED
  BY <1>1 DEF Min

\* Where the jumps of a walk lead: each mark is there once, and the last up
\* is the one that the levels know.
LEMMA Jumps ==
  ASSUME PrintInv, Running, call.pc \in DOMAIN call.moves,
         NEW level, NEW place, IsWalk(call.moves, level, place)
  PROVE  /\ Move \in {"down?", "last?"} =>
              /\ AfterLast("up") = place.up + 1
              /\ place.up \in DOMAIN call.moves /\ level[place.up + 1] = level[call.pc]
         /\ Move = "right?" =>
              /\ After("fi") = place.fi + 1
              /\ place.fi \in DOMAIN call.moves /\ level[place.fi + 1] = level[call.pc]
         /\ Move = "again" =>
              /\ Before("loop") = place.loop
              /\ place.loop \in DOMAIN call.moves /\ level[place.loop] = level[call.pc]
         /\ Move = "to_last" =>
              /\ After("back") = place.back + 1
              /\ place.back \in DOMAIN call.moves /\ level[place.back + 1] = level[call.pc]
         /\ Move = "back" =>
              /\ Before("to_last") = place.to_last
              /\ place.to_last \in DOMAIN call.moves /\ level[place.to_last] = level[call.pc]
<1>1. /\ DOMAIN call.moves = 1 .. Len(call.moves) /\ Len(call.moves) \in Nat
      /\ DOMAIN call.moves \subseteq Int
  BY RunningCall
<1>2. \A i \in DOMAIN call.moves : IsStep(call.moves, level, place, i)
  BY DEF IsWalk
<1>3. IsStep(call.moves, level, place, call.pc)
  BY <1>2
<1>4. \A move : Places(move) \subseteq Int /\ Places(move) \subseteq DOMAIN call.moves
  BY <1>1 DEF Places
<1>5. ASSUME Move \in {"down?", "last?"}
      PROVE  /\ AfterLast("up") = place.up + 1
             /\ place.up \in DOMAIN call.moves /\ level[place.up + 1] = level[call.pc]
  <2>1. /\ place.up \in DOMAIN call.moves /\ call.moves[place.up] = "up"
        /\ level[place.up + 1] = level[call.pc]
    BY <1>3, <1>5 DEF IsStep, Move
  <2>2. place.up \in Places("up")
    BY <2>1 DEF Places
  <2>3. \A i \in Places("up") : i <= place.up
    BY <1>2 DEF Places, IsStep
  <2>4. Max(Places("up")) = place.up
    BY <1>4, <2>2, <2>3, MaxIs
  <2> QED
    BY <2>1, <2>4 DEF AfterLast
<1>6. ASSUME Move = "right?"
      PROVE  /\ After("fi") = place.fi + 1
             /\ place.fi \in DOMAIN call.moves /\ level[place.fi + 1] = level[call.pc]
  <2>1. /\ place.fi \in DOMAIN call.moves /\ call.moves[place.fi] = "fi" /\ call.pc < place.fi
        /\ level[place.fi + 1] = level[call.pc]
    BY <1>3, <1>6 DEF IsStep, Move
  <2> DEFINE S == {i \in Places("fi") : i > call.pc}
  <2>2. place.fi \in S /\ S \subseteq Int
    BY <1>1, <1>4, <2>1 DEF Places
  <2>3. \A i \in S : place.fi <= i
    BY <1>1, <1>2, <2>1 DEF Places, IsStep
  <2>4. Min(S) = place.fi
    BY <2>2, <2>3, MinIs
  <2> QED
    BY <2>1, <2>4 DEF After
<1>7. ASSUME Move = "again"
      PROVE  /\ Before("loop") = place.loop
             /\ place.loop \in DOMAIN call.moves /\ level[place.loop] = level[call.pc]
  <2>1. /\ place.loop \in DOMAIN call.moves /\ call.moves[place.loop] = "loop"
        /\ place.loop < call.pc /\ level[place.loop] = level[call.pc]
    BY <1>3, <1>7 DEF IsStep, Move
  <2> DEFINE S == {i \in Places("loop") : i < call.pc}
  <2>2. place.loop \in S /\ S \subseteq Int
    BY <1>1, <1>4, <2>1 DEF Places
  <2>3. \A i \in S : i <= place.loop
    BY <1>1, <1>2, <2>1 DEF Places, IsStep
  <2>4. Max(S) = place.loop
    BY <2>2, <2>3, MaxIs
  <2> QED
    BY <2>1, <2>4 DEF Before
<1>8. ASSUME Move = "to_last"
      PROVE  /\ After("back") = place.back + 1
             /\ place.back \in DOMAIN call.moves /\ level[place.back + 1] = level[call.pc]
  <2>1. /\ place.back \in DOMAIN call.moves /\ call.moves[place.back] = "back"
        /\ call.pc < place.back /\ level[place.back + 1] = level[call.pc]
    BY <1>3, <1>8 DEF IsStep, Move
  <2> DEFINE S == {i \in Places("back") : i > call.pc}
  <2>2. place.back \in S /\ S \subseteq Int
    BY <1>1, <1>4, <2>1 DEF Places
  <2>3. \A i \in S : place.back <= i
    BY <1>1, <1>2, <2>1 DEF Places, IsStep
  <2>4. Min(S) = place.back
    BY <2>2, <2>3, MinIs
  <2> QED
    BY <2>1, <2>4 DEF After
<1>9. ASSUME Move = "back"
      PROVE  /\ Before("to_last") = place.to_last
             /\ place.to_last \in DOMAIN call.moves /\ level[place.to_last] = level[call.pc]
  <2>1. /\ place.to_last \in DOMAIN call.moves /\ call.moves[place.to_last] = "to_last"
        /\ place.to_last < call.pc /\ level[place.to_last] = level[call.pc]
    BY <1>3, <1>9 DEF IsStep, Move
  <2> DEFINE S == {i \in Places("to_last") : i < call.pc}
  <2>2. place.to_last \in S /\ S \subseteq Int
    BY <1>1, <1>4, <2>1 DEF Places
  <2>3. \A i \in S : i <= place.to_last
    BY <1>1, <1>2, <2>1 DEF Places, IsStep
  <2>4. Max(S) = place.to_last
    BY <2>2, <2>3, MaxIs
  <2> QED
    BY <2>1, <2>4 DEF Before
<1> QED
  BY <1>5, <1>6, <1>7, <1>8, <1>9

\* A step that jumps, or goes on, to where the level is the same.
LEMMA LevelStep ==
  ASSUME PrintInv, Running, UNCHANGED <<input, t>>, NEW pc \in 1 .. Len(call.moves) + 1, Goto(pc),
         NEW level, NEW place, IsWalk(call.moves, level, place),
         Under(nodes, level[call.pc], t, call.position), level[pc] = level[call.pc]
  PROVE  PrintInv'
<1>1. pc \in Int /\ t' = t /\ t \in DOMAIN nodes
  BY RunningCall DEF PrintInv
<1>2. Under(nodes, level[pc], t', call.position)
  BY <1>1
<1> QED
  BY <1>1, <1>2, CallGoesTo

LEMMA NoChildStep == PrintInv /\ NoChild => PrintInv'
<1> SUFFICES ASSUME PrintInv, NoChild PROVE PrintInv'
  OBVIOUS
<1>1. At({"down?", "last?"}) /\ Goto(AfterLast("up")) /\ UNCHANGED <<input, t>>
  BY DEF NoChild
<1>2. /\ Running /\ Move \in {"down?", "last?"} /\ call.pc \in DOMAIN call.moves
      /\ DOMAIN call.moves = 1 .. Len(call.moves) /\ Len(call.moves) \in Nat
  BY <1>1, RunningMove, RunningCall
<1>3. PICK level, place : /\ IsWalk(call.moves, level, place)
                          /\ Under(nodes, level[call.pc], t, call.position)
  BY <1>1, RunningMove
<1>4. /\ AfterLast("up") = place.up + 1 /\ place.up \in DOMAIN call.moves
      /\ level[place.up + 1] = level[call.pc]
  BY <1>2, <1>3, Jumps
<1>5. place.up + 1 \in 1 .. Len(call.moves) + 1
  BY <1>2, <1>4
<1> QED
  BY <1>1, <1>2, <1>3, <1>4, <1>5, LevelStep

LEMMA NoRightStep == PrintInv /\ NoRight => PrintInv'
<1> SUFFICES ASSUME PrintInv, NoRight PROVE PrintInv'
  OBVIOUS
<1>1. /\ At({"right?", "again"}) /\ UNCHANGED <<input, t>>
      /\ Goto(IF Move = "again" THEN call.pc + 1 ELSE After("fi"))
  BY DEF NoRight, GoOn
<1>2. /\ Running /\ Move \in {"right?", "again"} /\ call.pc \in DOMAIN call.moves
      /\ DOMAIN call.moves = 1 .. Len(call.moves) /\ Len(call.moves) \in Nat
  BY <1>1, RunningMove, RunningCall
<1>3. PICK level, place : /\ IsWalk(call.moves, level, place)
                          /\ IsStep(call.moves, level, place, call.pc)
                          /\ Under(nodes, level[call.pc], t, call.position)
  BY <1>1, RunningMove
<1>4. CASE Move = "again"
  <2>1. level[call.pc + 1] = level[call.pc]
    BY <1>3, <1>4 DEF IsStep, Move, Sideways
  <2>2. call.pc + 1 \in 1 .. Len(call.moves) + 1 /\ Goto(call.pc + 1)
    BY <1>1, <1>2, <1>4
  <2> QED
    BY <1>1, <1>2, <1>3, <2>1, <2>2, LevelStep
<1>5. CASE Move = "right?"
  <2>1. /\ After("fi") = place.fi + 1 /\ place.fi \in DOMAIN call.moves
        /\ level[place.fi + 1] = level[call.pc]
    BY <1>2, <1>3, <1>5, Jumps
  <2>2. place.fi + 1 \in 1 .. Len(call.moves) + 1 /\ Goto(place.fi + 1)
    BY <1>1, <1>2, <1>5, <2>1
  <2> QED
    BY <1>1, <1>2, <1>3, <2>1, <2>2, LevelStep
<1> QED
  BY <1>2, <1>4, <1>5

LEMMA ToLastStep == PrintInv /\ ToLast => PrintInv'
<1> SUFFICES ASSUME PrintInv, ToLast PROVE PrintInv'
  OBVIOUS
<1>1. /\ At({"to_last"}) /\ UNCHANGED <<input, t>>
      /\ Goto(After("back")) \/ Goto(call.pc + 1)
  BY DEF ToLast, GoOn
<1>2. /\ Running /\ Move = "to_last" /\ call.pc \in DOMAIN call.moves
      /\ DOMAIN call.moves = 1 .. Len(call.moves) /\ Len(call.moves) \in Nat
  BY <1>1, RunningMove, RunningCall
<1>3. PICK level, place : /\ IsWalk(call.moves, level, place)
                          /\ IsStep(call.moves, level, place, call.pc)
                          /\ Under(nodes, level[call.pc], t, call.position)
  BY <1>1, RunningMove
<1>4. /\ After("back") = place.back + 1 /\ place.back \in DOMAIN call.moves
      /\ level[place.back + 1] = level[call.pc]
  BY <1>2, <1>3, Jumps
<1>5. level[call.pc + 1] = level[call.pc]
  BY <1>2, <1>3 DEF IsStep, Move, Flat
<1>6. place.back + 1 \in 1 .. Len(call.moves) + 1 /\ call.pc + 1 \in 1 .. Len(call.moves) + 1
  BY <1>2, <1>4
<1>7. CASE Goto(After("back"))
  BY <1>1, <1>2, <1>3, <1>4, <1>6, <1>7, LevelStep
<1>8. CASE Goto(call.pc + 1)
  BY <1>1, <1>2, <1>3, <1>5, <1>6, <1>8, LevelStep
<1> QED
  BY <1>1, <1>7, <1>8

LEMMA BackStep == PrintInv /\ Back => PrintInv'
<1> SUFFICES ASSUME PrintInv, Back PROVE PrintInv'
  OBVIOUS
<1>1. At({"back"}) /\ Goto(Before("to_last")) /\ UNCHANGED <<input, t>>
  BY DEF Back
<1>2. /\ Running /\ Move = "back" /\ call.pc \in DOMAIN call.moves
      /\ DOMAIN call.moves = 1 .. Len(call.moves) /\ Len(call.moves) \in Nat
  BY <1>1, RunningMove, RunningCall
<1>3. PICK level, place : /\ IsWalk(call.moves, level, place)
                          /\ Under(nodes, level[call.pc], t, call.position)
  BY <1>1, RunningMove
<1>4. /\ Before("to_last") = place.to_last /\ place.to_last \in DOMAIN call.moves
      /\ level[place.to_last] = level[call.pc]
  BY <1>2, <1>3, Jumps
<1>5. place.to_last \in 1 .. Len(call.moves) + 1
  BY <1>2, <1>4
<1> QED
  BY <1>1, <1>2, <1>3, <1>4, <1>5, LevelStep

\* A type that has not so many children ends its call where it began.
LEMMA OrNothingStep == PrintInv /\ OrNothing => PrintInv'
<1> SUFFICES ASSUME PrintInv, OrNothing PROVE PrintInv'
  OBVIOUS
<1>1. /\ At({"two?", "four?"}) /\ UNCHANGED <<input, t>>
      /\ Goto(call.pc + 1) \/ Goto(Len(call.moves) + 1)
  BY DEF OrNothing, GoOn
<1>2. /\ Running /\ Move \in {"two?", "four?"} /\ call.pc \in DOMAIN call.moves
      /\ DOMAIN call.moves = 1 .. Len(call.moves) /\ Len(call.moves) \in Nat
  BY <1>1, RunningMove, RunningCall
<1>3. PICK level, place : /\ IsWalk(call.moves, level, place)
                          /\ IsStep(call.moves, level, place, call.pc)
                          /\ Under(nodes, level[call.pc], t, call.position)
  BY <1>1, RunningMove
<1>4. level[call.pc + 1] = level[call.pc] /\ level[call.pc] = 0
  BY <1>2, <1>3 DEF IsStep, Move, Flat
<1>5. level[Len(call.moves) + 1] = 0
  BY <1>3 DEF IsWalk
<1>6. /\ call.pc + 1 \in 1 .. Len(call.moves) + 1
      /\ Len(call.moves) + 1 \in 1 .. Len(call.moves) + 1
  BY <1>2
<1>7. CASE Goto(call.pc + 1)
  BY <1>1, <1>2, <1>3, <1>4, <1>6, <1>7, LevelStep
<1>8. CASE Goto(Len(call.moves) + 1)
  BY <1>1, <1>2, <1>3, <1>4, <1>5, <1>6, <1>8, LevelStep
<1> QED
  BY <1>1, <1>7, <1>8

-----------------------------------------------------------------------------
(* Steps among the children, calls and returns *)

\* The cursor among the children of a node stays among them.
LEMMA SidewaysStep ==
  ASSUME PrintInv, Running, UNCHANGED input, t' \in DOMAIN nodes,
         nodes[t'].parent = nodes[t].parent,
         NEW pc \in 1 .. Len(call.moves) + 1, Goto(pc),
         NEW level, NEW place, IsWalk(call.moves, level, place),
         Under(nodes, level[call.pc], t, call.position),
         level[call.pc] \in 0 .. 2, level[call.pc] > 0, level[pc] = level[call.pc]
  PROVE  PrintInv'
<1>1. pc \in Int
  BY RunningCall
<1>2. Under(nodes, level[pc], t', call.position)
  BY StepSideways
<1> QED
  BY <1>1, <1>2, CallGoesTo

LEMMA RightStep == PrintInv /\ Right => PrintInv'
<1> SUFFICES ASSUME PrintInv, Right PROVE PrintInv'
  OBVIOUS
<1>1. /\ At({"right", "try_right", "right_or_bodiless", "right?", "again"})
      /\ t' = IF right_sib >= 0 THEN right_sib ELSE t
      /\ UNCHANGED input
      /\ Goto(IF Move = "again" THEN Before("loop") ELSE call.pc + 1)
  BY DEF Right, CheckThat, GoOn
<1>2. /\ Running /\ Move \in Sideways /\ call.pc \in DOMAIN call.moves
      /\ DOMAIN call.moves = 1 .. Len(call.moves) /\ Len(call.moves) \in Nat
  BY <1>1, RunningMove, RunningCall DEF Sideways
<1>3. PICK level, place : /\ IsWalk(call.moves, level, place)
                          /\ IsStep(call.moves, level, place, call.pc)
                          /\ Under(nodes, level[call.pc], t, call.position)
  BY <1>1, RunningMove
<1>4. /\ level[call.pc] \in 0 .. 2 /\ level[call.pc] > 0
      /\ level[call.pc + 1] = level[call.pc]
  BY <1>2, <1>3 DEF IsStep, Move
<1>5. t' \in DOMAIN nodes /\ nodes[t'].parent = nodes[t].parent
  BY <1>1, Links DEF PrintInv, right_sib
<1>6. CASE Move = "again"
  <2>1. /\ Before("loop") = place.loop /\ place.loop \in DOMAIN call.moves
        /\ level[place.loop] = level[call.pc]
    BY <1>2, <1>3, <1>6, Jumps
  <2>2. place.loop \in 1 .. Len(call.moves) + 1 /\ Goto(place.loop)
    BY <1>1, <1>2, <1>6, <2>1
  <2> QED
    BY <1>1, <1>2, <1>3, <1>4, <1>5, <2>1, <2>2, SidewaysStep
<1>7. CASE Move # "again"
  <2>1. call.pc + 1 \in 1 .. Len(call.moves) + 1 /\ Goto(call.pc + 1)
    BY <1>1, <1>2, <1>7
  <2> QED
    BY <1>1, <1>2, <1>3, <1>4, <1>5, <2>1, SidewaysStep
<1> QED
  BY <1>6, <1>7

LEMMA RightMostStep == PrintInv /\ RightMost => PrintInv'
<1> SUFFICES ASSUME PrintInv, RightMost PROVE PrintInv'
  OBVIOUS
<1>1. /\ At({"rest"}) /\ Goto(call.pc + 1) /\ UNCHANGED input
      /\ t' = IF nodes[t].parent >= 0 THEN nodes[nodes[t].parent].last_child ELSE t
  BY DEF RightMost, GoOn
<1>2. /\ Running /\ Move \in Sideways /\ call.pc \in DOMAIN call.moves
      /\ DOMAIN call.moves = 1 .. Len(call.moves) /\ Len(call.moves) \in Nat
  BY <1>1, RunningMove, RunningCall DEF Sideways
<1>3. PICK level, place : /\ IsWalk(call.moves, level, place)
                          /\ IsStep(call.moves, level, place, call.pc)
                          /\ Under(nodes, level[call.pc], t, call.position)
  BY <1>1, RunningMove
<1>4. /\ level[call.pc] \in 0 .. 2 /\ level[call.pc] > 0
      /\ level[call.pc + 1] = level[call.pc]
  BY <1>2, <1>3 DEF IsStep, Move
<1>5. t' \in DOMAIN nodes /\ nodes[t'].parent = nodes[t].parent
  <2>1. CASE nodes[t].parent >= 0
    <3>1. nodes[t].parent \in DOMAIN nodes /\ nodes[nodes[t].parent].last_child >= 0
      BY <2>1, Links DEF PrintInv
    <3> QED
      BY <1>1, <2>1, <3>1, Links DEF PrintInv
  <2>2. CASE ~(nodes[t].parent >= 0)
    BY <1>1, <2>2 DEF PrintInv
  <2> QED
    BY <2>1, <2>2
<1>6. call.pc + 1 \in 1 .. Len(call.moves) + 1
  BY <1>2
<1> QED
  BY <1>1, <1>2, <1>3, <1>4, <1>5, <1>6, SidewaysStep

LEMMA IsAbstractStep == PrintInv /\ IsAbstract => PrintInv'
<1> SUFFICES ASSUME PrintInv, IsAbstract PROVE PrintInv'
  OBVIOUS
<1>1. PICK abstract \in BOOLEAN :
        calls' = Front(calls) \o <<[call EXCEPT !.pc = @ + 1, !.is_abstract = abstract]>>
  BY DEF IsAbstract
<1> DEFINE frame == [call EXCEPT !.pc = @ + 1, !.is_abstract = abstract]
<1>2. At({"abstract?"}) /\ UNCHANGED <<input, t, status>>
  BY DEF IsAbstract
<1>3. /\ Running /\ Move = "abstract?" /\ call.pc \in DOMAIN call.moves
      /\ DOMAIN call.moves = 1 .. Len(call.moves) /\ Len(call.moves) \in Nat
      /\ call \in Frames(nodes)
  BY <1>2, RunningMove, RunningCall
<1>4. PICK level, place : /\ IsWalk(call.moves, level, place)
                          /\ IsStep(call.moves, level, place, call.pc)
                          /\ Under(nodes, level[call.pc], t, call.position)
  BY <1>2, RunningMove
<1>5. level[call.pc + 1] = level[call.pc]
  BY <1>3, <1>4 DEF IsStep, Move, Flat
<1>6. /\ frame \in Frames(nodes) /\ frame.position = call.position
      /\ frame.moves = call.moves /\ frame.pc = call.pc + 1
  <2>1. call.pc + 1 \in Int
    BY <1>3
  <2>2. PICK next : next = [call EXCEPT !.pc = call.pc + 1]
    OBVIOUS
  <2>3. /\ next \in Frames(nodes) /\ next.position = call.position
        /\ next.moves = call.moves /\ next.pc = call.pc + 1
    BY <1>3, <2>1, <2>2, CallWith
  <2>4. frame = [next EXCEPT !.is_abstract = abstract]
    BY <2>2
  <2> HIDE DEF frame
  <2> QED
    BY <2>3, <2>4 DEF Frames
<1>7. calls' = Front(calls) \o <<frame>>
  BY <1>1
<1> HIDE DEF frame
<1>8. call.pc + 1 \in 1 .. Len(call.moves) + 1
  BY <1>3
<1>9. IsAt(nodes, frame, t)
  BY <1>4, <1>5, <1>6, <1>8 DEF IsAt
<1>10. t' = t /\ t \in DOMAIN nodes
  BY <1>2 DEF PrintInv
<1> QED
  BY <1>2, <1>3, <1>6, <1>7, <1>9, <1>10, CallGoesOn

\* A new call begins at its node, which is where its caller has the cursor.
LEMMA NewCall ==
  ASSUME NEW n \in DOMAIN nodes, NEW is_highlighting \in BOOLEAN
  PROVE  /\ Call(n, is_highlighting) \in Frames(nodes)
         /\ Call(n, is_highlighting).position = n
         /\ IsAt(nodes, Call(n, is_highlighting), n)
<1> DEFINE new == Call(n, is_highlighting)
<1>1. Balanced(new.moves)
  BY CallIsBalanced
<1>2. new.moves \in Seq(Moves) /\ Len(new.moves) \in Nat
  BY <1>1, LenProperties DEF Balanced
<1>3. PICK highlights \in BOOLEAN :
        new = [position |-> n, is_highlighting |-> highlights, is_abstract |-> FALSE,
               moves |-> new.moves, pc |-> 1]
  BY DEF Call
<1> HIDE DEF new
<1>4. new.position = n /\ new.pc = 1
  BY <1>3
<1>5. new \in Frames(nodes)
  <2>1. PICK moves \in Seq(Moves) : moves = new.moves
    BY <1>2
  <2>2. new = [position |-> n, is_highlighting |-> highlights, is_abstract |-> FALSE,
               moves |-> moves, pc |-> 1]
    BY <1>3, <2>1
  <2> QED
    BY <2>2 DEF Frames
<1>6. PICK level, place : IsWalk(new.moves, level, place)
  BY <1>1 DEF Balanced
<1>7. Under(nodes, level[new.pc], n, n)
  BY <1>4, <1>6 DEF IsWalk, Under
<1>8. IsAt(nodes, new, n)
  BY <1>2, <1>4, <1>6, <1>7 DEF IsAt
<1> QED
  BY <1>4, <1>5, <1>8 DEF new

LEMMA VisitStep == PrintInv /\ Visit => PrintInv'
<1> SUFFICES ASSUME PrintInv, Visit PROVE PrintInv'
  OBVIOUS
<1> DEFINE frame == [call EXCEPT !.pc = call.pc + 1]
           new   == Call(t, call.is_highlighting)
<1>1. /\ At({"visit", "visit_filled"}) /\ UNCHANGED <<input, t, status>>
      /\ calls' = Front(calls) \o <<frame, new>>
  BY DEF Visit
<1>2. /\ Running /\ Move \in {"visit", "visit_filled"} /\ call.pc \in DOMAIN call.moves
      /\ DOMAIN call.moves = 1 .. Len(call.moves) /\ Len(call.moves) \in Nat
      /\ call \in Frames(nodes) /\ call = calls[Len(calls)]
      /\ Len(calls) \in Nat /\ Len(calls) # 0
  BY <1>1, RunningMove, RunningCall
<1>3. PICK level, place : /\ IsWalk(call.moves, level, place)
                          /\ IsStep(call.moves, level, place, call.pc)
                          /\ Under(nodes, level[call.pc], t, call.position)
  BY <1>1, RunningMove
<1>4. level[call.pc + 1] = level[call.pc]
  BY <1>2, <1>3 DEF IsStep, Move, Flat
<1>5. call.pc + 1 \in Int /\ call.pc + 1 \in 1 .. Len(call.moves) + 1
  BY <1>2
<1>6. /\ frame \in Frames(nodes) /\ frame.position = call.position
      /\ frame.moves = call.moves /\ frame.pc = call.pc + 1
  BY <1>2, <1>5, CallWith
<1>7. t \in DOMAIN nodes /\ call.is_highlighting \in BOOLEAN
  BY <1>2 DEF PrintInv, Frames
<1>8. new \in Frames(nodes) /\ new.position = t /\ IsAt(nodes, new, t)
  BY <1>7, NewCall
<1> HIDE DEF frame, new
<1>9. IsAt(nodes, frame, t)
  BY <1>3, <1>4, <1>5, <1>6 DEF IsAt
<1>10. calls \in Seq(Frames(nodes)) /\ calls # <<>>
  BY <1>2 DEF PrintInv, Running
<1>11. /\ calls' \in Seq(Frames(nodes)) /\ Len(calls') = Len(calls) + 1
       /\ calls'[Len(calls)] = frame /\ calls'[Len(calls) + 1] = new
       /\ \A i \in 1 .. Len(calls) - 1 : calls'[i] = calls[i]
  BY <1>1, <1>6, <1>8, <1>10, LastFollowed
<1>12. nodes' = nodes /\ t' = t /\ status' = status /\ input' = input
  BY <1>1 DEF nodes
<1>13. ASSUME NEW i \in 1 .. Len(calls')
       PROVE  IsAt(nodes', calls'[i], Cursor(i)')
  <2>1. CASE i = Len(calls) + 1
    BY <1>8, <1>11, <1>12, <2>1 DEF Cursor
  <2>2. CASE i = Len(calls)
    <3>1. Cursor(i)' = t
      BY <1>2, <1>8, <1>11, <2>2 DEF Cursor
    <3> QED
      BY <1>9, <1>11, <1>12, <2>2, <3>1
  <2>3. CASE i \in 1 .. Len(calls) - 1
    <3>1. i + 1 \in 1 .. Len(calls) /\ i # Len(calls) /\ i # Len(calls')
      BY <1>2, <1>11, <2>3
    <3>2. calls'[i] = calls[i] /\ calls'[i + 1].position = calls[i + 1].position
      <4>1. CASE i + 1 = Len(calls)
        BY <1>2, <1>6, <1>11, <2>3, <4>1
      <4>2. CASE i + 1 # Len(calls)
        <5>1. i + 1 \in 1 .. Len(calls) - 1
          BY <1>2, <3>1, <4>2
        <5> QED
          BY <1>11, <2>3, <5>1
      <4> QED
        BY <4>1, <4>2
    <3>3. Cursor(i)' = Cursor(i)
      BY <3>1, <3>2 DEF Cursor
    <3>4. i \in 1 .. Len(calls)
      BY <1>2, <2>3
    <3>5. IsAt(nodes, calls[i], Cursor(i))
      BY <1>2, <3>4 DEF PrintInv, Running
    <3> QED
      BY <1>12, <3>2, <3>3, <3>5
  <2>4. i = Len(calls) + 1 \/ i = Len(calls) \/ i \in 1 .. Len(calls) - 1
    BY <1>2, <1>11
  <2> QED
    BY <2>1, <2>2, <2>3, <2>4
<1> QED
  BY <1>7, <1>11, <1>12, <1>13 DEF PrintInv

\* A call that returns has the cursor at its node: its list has come to its
\* end, where the level is 0.
LEMMA ReturnsCursor == PrintInv => CursorRestored
<1> SUFFICES ASSUME PrintInv, AtReturn PROVE t = call.position
  BY DEF CursorRestored
<1>1. IsAt(nodes, call, t) /\ call.pc = Len(call.moves) + 1
  BY RunningCall DEF AtReturn
<1>2. PICK level, place : /\ IsWalk(call.moves, level, place)
                          /\ Under(nodes, level[call.pc], t, call.position)
  BY <1>1 DEF IsAt
<1>3. level[call.pc] = 0
  BY <1>1, <1>2 DEF IsWalk
<1> QED
  BY <1>2, <1>3 DEF Under

LEMMA ReturnStep == PrintInv /\ Return => PrintInv'
<1> SUFFICES ASSUME PrintInv, Return PROVE PrintInv'
  OBVIOUS
<1>1. /\ AtReturn /\ calls' = Front(calls) /\ UNCHANGED <<input, t>>
      /\ status' = "running" => status = "running"
  BY DEF Return
<1>2. /\ Running /\ t = call.position
  BY <1>1, ReturnsCursor DEF CursorRestored, AtReturn
<1>3. /\ call = calls[Len(calls)] /\ calls \in Seq(Frames(nodes)) /\ calls # <<>>
      /\ status = "running"
  BY <1>2, RunningCall DEF PrintInv, Running
<1>4. /\ Len(calls) \in Nat /\ Len(calls) # 0
      /\ calls' \in Seq(Frames(nodes)) /\ Len(calls') = Len(calls) - 1
      /\ \A i \in 1 .. Len(calls) - 1 : calls'[i] = calls[i]
  BY <1>1, <1>3, FrontOf
<1>5. nodes' = nodes /\ t' = t /\ input' = input
  BY <1>1 DEF nodes
<1>6. ASSUME NEW i \in 1 .. Len(calls')
      PROVE  IsAt(nodes', calls'[i], Cursor(i)')
  <2>1. i \in 1 .. Len(calls) /\ i # Len(calls) /\ calls'[i] = calls[i]
    BY <1>4
  <2>2. IsAt(nodes, calls[i], calls[i + 1].position)
    BY <1>3, <2>1 DEF PrintInv, Cursor
  <2>3. Cursor(i)' = calls[i + 1].position
    <3>1. CASE i = Len(calls) - 1
      BY <1>2, <1>3, <1>4, <1>5, <3>1 DEF Cursor
    <3>2. CASE i # Len(calls) - 1
      <4>1. i + 1 \in 1 .. Len(calls) - 1
        BY <1>4, <3>2
      <4> QED
        BY <1>4, <3>2, <4>1 DEF Cursor
    <3> QED
      BY <3>1, <3>2
  <2> QED
    BY <1>5, <2>1, <2>2, <2>3
<1> QED
  BY <1>3, <1>4, <1>5, <1>6 DEF PrintInv

-----------------------------------------------------------------------------
(* The invariant and what it gives *)

LEMMA InitHolds == Init => PrintInv
<1> SUFFICES ASSUME Init PROVE PrintInv
  OBVIOUS
<1>1. input \in Inputs /\ t = 0 /\ calls = <<Call(0, FALSE)>>
  BY DEF Init
<1>2. 0 \in DOMAIN nodes
  BY <1>1, Links
<1> DEFINE new == Call(0, FALSE)
<1>3. new \in Frames(nodes) /\ IsAt(nodes, new, 0)
  BY <1>2, NewCall
<1> HIDE DEF new
<1>4. calls = <<new>>
  BY <1>1 DEF new
<1>5. calls \in Seq(Frames(nodes)) /\ Len(calls) = 1 /\ calls[1] = new
  BY <1>3, <1>4
<1>6. \A i \in 1 .. Len(calls) : i = 1 /\ Cursor(i) = 0
  BY <1>1, <1>5 DEF Cursor
<1> QED
  BY <1>1, <1>2, <1>3, <1>5, <1>6 DEF PrintInv

(***************************************************************************)
(* The invariant of the printers: whatever is printed, every call on the   *)
(* stack will find the shared cursor where its next move expects it.       *)
(***************************************************************************)
THEOREM PrintInvariance == Spec => []PrintInv
<1>1. Init => PrintInv
  BY InitHolds
<1>2. PrintInv /\ [Next]_vars => PrintInv'
  <2> SUFFICES ASSUME PrintInv, [Next]_vars PROVE PrintInv'
    OBVIOUS
  <2>1. CASE UNCHANGED vars
    BY <2>1 DEF vars, PrintInv, nodes, Cursor
  <2>2. CASE Terminated
    BY <2>1, <2>2 DEF Terminated
  <2>3. CASE Next
    BY <2>2, <2>3, WriteStep, VisitStep, VisitNothingStep, DownStep, NoChildStep, UpStep,
       RightStep, NoRightStep, RightMostStep, MarkStep, ToLastStep, BackStep, IsAbstractStep,
       CheckStep, OrNothingStep, ReturnStep
    DEF Next
  <2> QED
    BY <2>1, <2>3
<1> QED
  BY <1>1, <1>2, PTL DEF Spec

(***************************************************************************)
(* A call of a printer that returns leaves the cursor at the node it was   *)
(* called for, for every tree and every type in it (PrettyPrintTraverseJava*)
(* and PrettyPrintTraverseJS, which move one cursor by reference).         *)
(***************************************************************************)
THEOREM CallsRestoreCursor == Spec => []CursorRestored
<1>1. PrintInv => CursorRestored
  BY ReturnsCursor
<1> QED
  BY <1>1, PrintInvariance, PTL
=============================================================================
