---------------------------- MODULE PrettyPrint ----------------------------
(***************************************************************************)
(* DebugStringAsSource (tree.cpp): a tree is printed as a program by a     *)
(* function that calls itself at every node it prints. All calls share one *)
(* cursor. What is written is abstracted to the nodes that are printed and *)
(* to the two marks around the node that is highlighted.                   *)
(***************************************************************************)
EXTENDS SyntaxTree, FiniteSetsExt, SequencesExt

-----------------------------------------------------------------------------
(***************************************************************************)
(* How PrettyPrintTraverseJava and PrettyPrintTraverseJS (tree.cpp) walk   *)
(* over a node of each type. A table gives types the moves of the shared   *)
(* cursor t, in their order; the actions below say what each of them does:  *)
(*   visit       the recursive call;     up, rest   t.up(), while t.right()*)
(*   down last right   CHECK that the cursor can move so, and move it      *)
(*   down? last?       if it moves, go on to the last up, else after it    *)
(*   right? fi         if (t.right()) ...                                  *)
(*   loop again        do ... while (t.right())                            *)
(*   to_last back      while (t.position() != last_child) ...              *)
(*   end, leaf, one, value, body ...   a CHECK of this name                *)
(***************************************************************************)
Kinds(kinds, moves) == [kinds |-> kinds, moves |-> moves]
Types(table) == UNION {row.kinds : row \in table}
MovesOf(table, kind) == (CHOOSE row \in table : kind \in row.kinds).moves

\* Handlers that many types have.
Leaf == <<>>
One == <<"down", "visit", "end", "up">>
Two == <<"down", "visit", "right", "visit", "end", "up">>
Three == <<"down", "visit", "right", "visit", "right", "visit", "end", "up">>
Optional == <<"down?", "visit", "end", "up">>
All == <<"down?", "loop", "visit", "again", "up">>
FirstAndOthers == <<"down", "visit", "right?", "loop", "visit", "again", "fi", "up">>

-----------------------------------------------------------------------------
(* Lombok *)

JavaUnits == {
  Kinds({"AnnotationDeclaration", "Annotation", "TypeVariable", "EnumDeclaration"}, Leaf),
  Kinds({"EmptyStatement"}, <<"leaf">>),
  Kinds({"SuperConstructorInvocation", "AlternateConstructorInvocation"}, All),
  Kinds({"VariableDeclaration", "ExpressionStatement"},
        <<"down?", "loop", "visit", "again", "up", "one">>),
  Kinds({"CompilationUnit", "InstanceInitializer", "StaticInitializer", "Modifiers",
         "TypeRefSignature"}, All)}

\* Those that print their value.
JavaNames == {
  Kinds({"KeywordModifier", "Identifier", "IntegralLiteral", "BooleanLiteral", "NullLiteral",
         "StringLiteral", "FloatingPointLiteral", "CharLiteral", "TypeReference",
         "VariableReference"}, Leaf)}

\* Between the name and the body of a class nothing is printed.
JavaDeclarations == {
  Kinds({"ClassDeclaration", "InterfaceDeclaration"},
        <<"down", "visit", "right", "visit", "rest", "visit", "up">>),
  Kinds({"NormalTypeBody", "Block"}, All),
  Kinds({"VariableDefinition"},
        <<"down", "visit", "right", "visit", "right", "loop", "visit", "again", "up">>),
  Kinds({"VariableDefinitionEntry"}, <<"down", "visit", "right?", "visit", "fi", "up">>)}

\* Modifiers, a result, a name, parameters, and a body, or none.
JavaMethods == {
  Kinds({"ConstructorDeclaration"},
        <<"down", "visit", "abstract?", "right", "visit", "right_or_bodiless",
          "to_last", "visit", "right", "back", "visit", "up">>),
  Kinds({"MethodDeclaration"},
        <<"down", "visit", "abstract?", "right", "visit", "right", "visit", "right_or_bodiless",
          "to_last", "visit", "right", "back", "visit", "up">>)}

JavaJumps == {
  Kinds({"Select"}, Two), Kinds({"Throw"}, One), Kinds({"This", "Super", "Continue"}, Leaf),
  Kinds({"Break"}, Optional),
  Kinds({"ConstructorInvocation"}, FirstAndOthers),
  Kinds({"MethodInvocation"},
        <<"down", "visit", "right", "visit", "right?", "loop", "visit", "again", "fi", "up">>),
  Kinds({"InstanceOf", "BinaryExpression"}, Two), Kinds({"UnaryExpression"}, One)}

JavaLoops == {
  Kinds({"Synchronized", "DoWhile", "While", "LabelledStatement", "Switch"}, Two),
  Kinds({"If"}, <<"down", "visit", "right", "visit", "right?", "visit", "fi", "end", "up">>),
  Kinds({"For"}, <<"down", "loop", "visit", "block_ends", "again", "up">>),
  Kinds({"ForEach"}, Three)}

\* What ArrayInitializer prints starts with its second child.
JavaExpressions == {
  Kinds({"Case", "ClassLiteral", "Assert"}, One),
  Kinds({"Default"}, <<"leaf">>),
  Kinds({"Return"}, <<"down?", "visit", "up">>),
  Kinds({"Cast", "Catch", "ArrayAccess"}, Two),
  Kinds({"InlineIfExpression"}, Three),
  Kinds({"Try"}, <<"down", "visit", "right?", "loop", "clause", "visit", "again", "fi", "up">>),
  Kinds({"ArrayCreation"}, FirstAndOthers),
  Kinds({"ArrayDimension"}, Optional),
  Kinds({"ArrayInitializer"},
        <<"down?", "right?", "loop", "visit", "again", "fi", "up">>)}

Java ==
  UNION {JavaUnits, JavaNames, JavaDeclarations, JavaMethods, JavaJumps, JavaLoops,
         JavaExpressions}

-----------------------------------------------------------------------------
(* SpiderMonkey *)

\* Where the number of children is checked first.
Unary == <<"one", "down", "visit", "up">>
Binary == <<"two", "down", "visit", "right", "visit", "up">>

\* A bug: the cursor stays at the body.
JSFunctions_StaysDown == {
  Kinds({"FunctionDeclaration"},
        <<"down", "name", "visit", "right", "to_last", "visit", "try_right", "back", "body",
          "visit">>),
  Kinds({"FunctionExpression"},
        <<"down", "to_last", "visit", "try_right", "back", "body", "visit">>)}

JSFunctions == {
  Kinds({"FunctionDeclaration"},
        <<"down", "name", "visit", "right", "to_last", "visit", "try_right", "back", "body",
          "visit", "up">>),
  Kinds({"FunctionExpression"},
        <<"down", "to_last", "visit", "try_right", "back", "body", "visit", "up">>)}

JSBlocks == {
  Kinds({"BlockStatement", "Program", "VariableDeclaration", "VariableDeclarator"}, All),
  Kinds({"CallExpression", "NewExpression"},
        <<"down?", "visit", "right?", "loop", "visit", "again", "fi", "up">>),
  Kinds({"AssignmentExpression"},
        <<"two?", "down", "visit", "right", "visit", "end", "up">>),
  Kinds({"ObjectExpression"},
        <<"down?", "loop", "visit", "down", "visit", "up", "again", "up">>)}

JSOperands == {
  Kinds({"UnaryExpression", "ExpressionStatement"}, Unary),
  Kinds({"BinaryExpression"}, <<"two", "down", "visit", "up", "last", "visit", "up">>),
  Kinds({"MemberExpression"}, Binary),
  Kinds({"Identifier", "Property", "Literal", "ThisExpression", "LiteralNull",
         "EmptyStatement"}, Leaf),
  Kinds({"LiteralBoolean", "LiteralRegExp", "LiteralNumber", "LiteralString"}, <<"value">>),
  Kinds({"ArrayExpression"}, All),
  Kinds({"ArrayAccess"}, <<"two?", "down", "visit", "right", "visit", "up">>),
  Kinds({"UpdateExpression"}, <<"one", "value", "down", "visit", "up">>)}

JSConditions == {
  Kinds({"ForInStatement", "ConditionalExpression"},
        <<"three", "down", "visit", "right", "visit", "right", "visit", "up">>),
  Kinds({"ForStatement"},
        <<"four?", "down", "visit", "right", "visit", "right", "visit", "right", "visit", "up">>),
  Kinds({"SequenceExpression"}, All),
  Kinds({"IfStatement"}, <<"down", "visit", "right", "visit", "right?", "visit", "fi", "up">>)}

\* The body of a do is its last child and is printed first.
JSLoops == {
  Kinds({"LogicalExpression"},
        <<"two", "down", "visit", "up", "value", "last", "visit", "up">>),
  Kinds({"WhileStatement"}, Binary),
  Kinds({"DoWhileStatement"}, <<"two", "last", "visit", "up", "down", "visit", "up">>),
  Kinds({"ReturnStatement"}, <<"last?", "visit", "end", "up">>),
  Kinds({"LabeledStatement"}, <<"one", "value", "down", "visit", "up">>)}

JSClauses == {
  Kinds({"CatchClause"}, Binary),
  Kinds({"ThrowStatement"}, Unary),
  Kinds({"SwitchStatement"}, FirstAndOthers),
  Kinds({"SwitchCase"}, <<"two", "down", "visit_filled", "right", "body", "visit", "up">>),
  Kinds({"TryStatement"},
        <<"three", "down", "visit", "right", "visit_filled", "right", "visit_filled", "up">>),
  Kinds({"ContinueStatement", "BreakStatement"}, <<"leaf">>)}

JS == UNION {JSFunctions, JSBlocks, JSOperands, JSConditions, JSLoops, JSClauses}

-----------------------------------------------------------------------------
CONSTANT Inputs      \* ast_format, nodes, highlighted_position

\* What Parse has made: the nodes are linked and the root is the first one.
ASSUME InputsAssumption ==
  \A i \in Inputs :
    LET nodes == i.nodes IN
    /\ 0 \in DOMAIN nodes /\ DOMAIN nodes \subseteq Nat
    /\ \A n \in DOMAIN nodes : LinksConsistent(nodes, n)
    /\ \A n \in DOMAIN nodes : nodes[n].parent >= 0 => nodes[nodes[n].parent].last_child >= 0

\* What is written that is no node, and the label of the modifier abstract.
GREEN == -1
DEFAULT == -2
ABSTRACT == 0

VARIABLES
  input,     \* fixed
  t,         \* the cursor
  calls,     \* the stack, the running call last
  s,         \* what is written
  status     \* running, done, or aborted by a CHECK

vars == <<input, t, calls, s, status>>

nodes == input.nodes
Handlers == IF input.ast_format = "Lombok" THEN Java ELSE JS
NumNodeChildren(n) == Cardinality({m \in DOMAIN nodes : nodes[m].parent = n})

\* A call of the workaround for highlighting only calls itself again.
Highlight == <<"GREEN", "visit", "DEFAULT">>
Call(n, is_highlighting) ==
  LET highlights == n = input.highlighted_position /\ ~is_highlighting
      kind       == nodes[n].type
  IN [position        |-> n,
      is_highlighting |-> highlights \/ is_highlighting,
      is_abstract     |-> FALSE,
      moves           |-> IF highlights THEN Highlight
                          ELSE <<"print">> \o IF kind \in Types(Handlers) THEN MovesOf(Handlers, kind)
                                              ELSE <<"unhandled">>,
      pc              |-> 1]

call == Last(calls)
Running == status = "running" /\ calls # <<>>
At(moves) == Running /\ call.pc \in DOMAIN call.moves /\ call.moves[call.pc] \in moves
Move == call.moves[call.pc]

Goto(pc) == calls' = Front(calls) \o <<[call EXCEPT !.pc = pc]>>
GoOn == Goto(call.pc + 1)
Places(move) == {i \in DOMAIN call.moves : call.moves[i] = move}
After(move) == Min({i \in Places(move) : i > call.pc}) + 1
Before(move) == Max({i \in Places(move) : i < call.pc})
AfterLast(move) == Max(Places(move)) + 1

\* A CHECK, and what follows when it holds.
CheckThat(condition) ==
  /\ status' = IF condition THEN status ELSE "aborted"
  /\ GoOn

Init ==
  /\ input \in Inputs
  /\ t = 0
  /\ calls = <<Call(0, FALSE)>>
  /\ s = <<>>
  /\ status = "running"

Write ==
  /\ At({"print", "GREEN", "DEFAULT"})
  /\ s' = Append(s, CASE Move = "print" -> call.position
                      [] Move = "GREEN" -> GREEN
                      [] OTHER -> DEFAULT)
  /\ GoOn
  /\ UNCHANGED <<input, t, status>>

\* EmptyStatement stands for a clause that is not there.
Visit ==
  /\ At({"visit", "visit_filled"}) /\ (Move = "visit_filled" => nodes[t].type # "EmptyStatement")
  /\ calls' = Front(calls) \o <<[call EXCEPT !.pc = @ + 1], Call(t, call.is_highlighting)>>
  /\ UNCHANGED <<input, t, s, status>>

VisitNothing ==
  /\ At({"visit_filled"}) /\ nodes[t].type = "EmptyStatement"
  /\ GoOn
  /\ UNCHANGED <<input, t, s, status>>

Down ==
  LET child == IF Move \in {"down", "down?"} THEN nodes[t].first_child ELSE nodes[t].last_child
  IN /\ At({"down", "last", "down?", "last?"}) /\ (Move \in {"down?", "last?"} => child >= 0)
     /\ t' = IF child >= 0 THEN child ELSE t
     /\ CheckThat(child >= 0)
     /\ UNCHANGED <<input, s>>

NoChild ==
  /\ At({"down?", "last?"}) /\ nodes[t].first_child < 0
  /\ Goto(AfterLast("up"))
  /\ UNCHANGED <<input, t, s, status>>

\* The cursor is at the root of the storage or below it.
Up ==
  /\ At({"up"})
  /\ t' = IF nodes[t].parent >= 0 THEN nodes[t].parent ELSE t
  /\ GoOn
  /\ UNCHANGED <<input, s, status>>

right_sib == nodes[t].right_sib

\* Below a declaration of an interface, whatever is between, but a class.
is_interface ==
  LET up[n \in {-1} \union DOMAIN nodes] ==
        IF n = -1 \/ nodes[n].type = "ClassDeclaration" THEN FALSE
        ELSE nodes[n].type = "InterfaceDeclaration" \/ up[nodes[n].parent]
  IN up[nodes[t].parent]

Right ==
  /\ At({"right", "try_right", "right_or_bodiless", "right?", "again"})
  /\ Move \in {"right?", "again"} => right_sib >= 0
  /\ t' = IF right_sib >= 0 THEN right_sib ELSE t
  /\ IF Move = "again" THEN Goto(Before("loop")) /\ UNCHANGED status
     ELSE CheckThat(\/ right_sib >= 0 \/ Move = "try_right"
                    \/ Move = "right_or_bodiless" /\ (call.is_abstract \/ is_interface))
  /\ UNCHANGED <<input, s>>

NoRight ==
  /\ At({"right?", "again"}) /\ right_sib < 0
  /\ IF Move = "again" THEN GoOn ELSE Goto(After("fi"))
  /\ UNCHANGED <<input, t, s, status>>

\* while (t.right()) {}
RightMost ==
  /\ At({"rest"})
  /\ t' = IF nodes[t].parent >= 0 THEN nodes[nodes[t].parent].last_child ELSE t
  /\ GoOn
  /\ UNCHANGED <<input, s, status>>

Mark ==
  /\ At({"loop", "fi"})
  /\ GoOn
  /\ UNCHANGED <<input, t, s, status>>

\* The loop over parameters, up to the last child.
ToLast ==
  /\ At({"to_last"})
  /\ IF t = nodes[call.position].last_child THEN Goto(After("back")) ELSE GoOn
  /\ UNCHANGED <<input, t, s, status>>

Back ==
  /\ At({"back"})
  /\ Goto(Before("to_last"))
  /\ UNCHANGED <<input, t, s, status>>

\* Whether abstract is among what the modifiers have written.
IsAbstract ==
  /\ At({"abstract?"})
  /\ LET start == Max({i \in DOMAIN s : s[i] = call.position})
         words == {s[i] : i \in {j \in DOMAIN s : j > start /\ s[j] >= 0}}
     IN calls' = Front(calls) \o
          <<[call EXCEPT !.pc = @ + 1,
                         !.is_abstract = \E n \in words : /\ nodes[n].type \in Types(JavaNames)
                                                          /\ nodes[n].value = ABSTRACT]>>
  /\ UNCHANGED <<input, t, s, status>>

NumberOfChildren == [one |-> 1, two |-> 2, three |-> 3]

Checked(check) ==
  CASE check = "end"        -> right_sib < 0
    [] check = "leaf"       -> nodes[t].first_child < 0
    [] check = "value"      -> nodes[t].value # -1
    [] check = "name"       -> nodes[t].type = "Identifier"
    [] check = "body"       -> nodes[t].type = "BlockStatement"
    [] check = "clause"     -> nodes[t].type = "Catch" \/ right_sib < 0
    [] check = "block_ends" -> nodes[t].type = "Block" => right_sib < 0
    [] check = "unhandled"  -> FALSE
    [] OTHER                -> NumNodeChildren(t) = NumberOfChildren[check]

Check ==
  /\ At({"end", "leaf", "value", "name", "body", "clause", "block_ends", "unhandled"}
        \union DOMAIN NumberOfChildren)
  /\ CheckThat(Checked(Move))
  /\ UNCHANGED <<input, t, s>>

\* Some types are not printed unless they have so many children.
OrNothing ==
  /\ At({"two?", "four?"})
  /\ IF NumNodeChildren(t) = (IF Move = "two?" THEN 2 ELSE 4) THEN GoOn
     ELSE Goto(Len(call.moves) + 1)
  /\ UNCHANGED <<input, t, s, status>>

AtReturn == Running /\ call.pc = Len(call.moves) + 1

Return ==
  /\ AtReturn
  /\ calls' = Front(calls)
  /\ status' = IF Len(calls) = 1 THEN "done" ELSE status
  /\ UNCHANGED <<input, t, s>>

Terminated == status # "running" /\ UNCHANGED vars

Next ==
  \/ Write \/ Visit \/ VisitNothing \/ Down \/ NoChild \/ Up \/ Right \/ NoRight \/ RightMost
  \/ Mark \/ ToLast \/ Back \/ IsAbstract \/ Check \/ OrNothing \/ Return \/ Terminated

Spec == Init /\ [][Next]_vars

-----------------------------------------------------------------------------
(***************************************************************************)
(* DebugStringAsSourceWindow: the lines around what is highlighted. The    *)
(* places where lines end are any.                                         *)
(***************************************************************************)
NEWLINE == -3
npos == 0

TextOf(line_ends) ==
  FlattenSeq([i \in DOMAIN s |-> IF i \in line_ends THEN <<s[i], NEWLINE>> ELSE <<s[i]>>])

Occurrences(text, x) == {i \in DOMAIN text : text[i] = x}
find(text, x) == Min(Occurrences(text, x))
find_last_of(text, x, pos) == Max({npos} \union {i \in Occurrences(text, x) : i <= pos})
find_first_of(text, x, pos) ==
  LET later == {i \in Occurrences(text, x) : i >= pos} IN IF later = {} THEN npos ELSE Min(later)

\* The index before the first one is the largest number there is.
Previous(text, i) == IF i = 1 THEN Len(text) ELSE i - 1

\* A bug: a line end is found again and again.
LinesBack_Stays(text, window_size) ==
  LET begin_idx[n \in 0 .. window_size] ==
        IF n = 0 THEN find(text, GREEN)
        ELSE IF begin_idx[n - 1] = npos THEN npos
        ELSE find_last_of(text, NEWLINE, begin_idx[n - 1])
  IN begin_idx[window_size]

LinesBack(text, window_size) ==
  LET begin_idx[n \in 0 .. window_size] ==
        IF n = 0 THEN find(text, GREEN)
        ELSE IF begin_idx[n - 1] = npos THEN npos
        ELSE find_last_of(text, NEWLINE, Previous(text, begin_idx[n - 1]))
  IN begin_idx[window_size]

LinesForward(text, window_size) ==
  LET end_idx[n \in 0 .. window_size] ==
        IF n = 0 THEN find(text, DEFAULT)
        ELSE IF end_idx[n - 1] = npos THEN npos
        ELSE find_first_of(text, NEWLINE, end_idx[n - 1] + 1)
  IN end_idx[window_size]

\* substr takes what is left when the length is negative, that is, huge.
DebugStringAsSourceWindow(text, window_size) ==
  IF Occurrences(text, GREEN) = {} \/ Occurrences(text, DEFAULT) = {} THEN text
  ELSE LET begin_idx == Max({1, LinesBack(text, window_size)})
           found     == LinesForward(text, window_size)
           end_idx   == IF found = npos THEN Len(text) + 1 ELSE found
       IN SubSeq(text, begin_idx, IF end_idx < begin_idx THEN Len(text) ELSE end_idx - 1)

-----------------------------------------------------------------------------
(***************************************************************************)
(* A call that returns leaves the cursor, which it shares with its caller, *)
(* at the node it was called for, whatever the tree is like: the caller's  *)
(* next move starts from there.                                            *)
(***************************************************************************)
CursorRestored == AtReturn => t = call.position

\* What the printing of a node twice is known for: a declaration with
\* nothing after its name, as an abstract method without parameters is, has
\* its name printed again, and so has an object the first child of what is
\* no property in it.
Regular ==
  LET needs == [MethodDeclaration |-> 4, ConstructorDeclaration |-> 3,
                ClassDeclaration |-> 3, InterfaceDeclaration |-> 3]
  IN \A n \in DOMAIN nodes :
       IF input.ast_format = "Lombok"
       THEN nodes[n].type \in DOMAIN needs => NumNodeChildren(n) >= needs[nodes[n].type]
       ELSE n # 0 /\ nodes[nodes[n].parent].type = "ObjectExpression" =>
              nodes[n].type = "Property"

\* The node and those below it; the value of a property is no part of it,
\* since the object prints it.
Below(n) ==
  {m \in DOMAIN nodes : /\ n \in DOMAIN nodes /\ m >= n
                        /\ \A k \in n + 1 .. m : nodes[k].parent >= n
                        /\ nodes[n].type = "Property" => m = n}

HighlightIsExact ==
  Regular =>
    LET Marks(mark) == {i \in DOMAIN s : s[i] = mark}
        below       == {i \in DOMAIN s : s[i] \in Below(input.highlighted_position)}
    IN /\ IsInjective(s)
       /\ Marks(DEFAULT) # {} => Marks(GREEN) # {}
       /\ \A i \in DOMAIN s \ (Marks(GREEN) \union Marks(DEFAULT)) :
            i \in below <=> /\ \E g \in Marks(GREEN) : g < i
                           /\ \A d \in Marks(DEFAULT) : i < d

WindowShowsHighlight ==
  status = "done" /\ GREEN \in ToSet(s) /\ s[1] # GREEN =>
    \A line_ends \in kSubset(2, DOMAIN s), window_size \in 1 .. 2 :
      LET text   == TextOf(line_ends)
          window == DebugStringAsSourceWindow(text, window_size)
          Lines(txt, from, to) == Cardinality({i \in Occurrences(txt, NEWLINE) : from <= i /\ i <= to})
          LinesBefore(txt) == Lines(txt, 1, find(txt, GREEN))
          LinesAfter(txt)  == Lines(txt, find(txt, DEFAULT), Len(txt))
          Highlighted(txt) == SubSeq(txt, find(txt, GREEN), find(txt, DEFAULT))
      IN /\ Occurrences(window, GREEN) # {} /\ Occurrences(window, DEFAULT) # {}
         /\ Highlighted(window) = Highlighted(text)
         /\ LinesBefore(window) = Min({window_size, LinesBefore(text)})
         /\ LinesAfter(window) = Min({window_size - 1, LinesAfter(text)})

(***************************************************************************)
(* The marks enclose exactly what is printed of the highlighted node: they *)
(* come once, and between them, and nowhere else, is what is below it; and *)
(* nothing is printed twice. Around what is highlighted a window shows as  *)
(* many lines as it should, or all there are, and nothing of it is cut off.*)
(* For the root this does not hold: the text starts with the mark, and the *)
(* search for a line end before it starts from the end of the text.        *)
(***************************************************************************)
HighlightIsShown == HighlightIsExact /\ WindowShowsHighlight
=============================================================================
