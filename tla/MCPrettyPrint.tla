--------------------------- MODULE MCPrettyPrint ---------------------------
(* A node of every type, with up to four children that are a name or a     *)
(* block, between a block above it and a name after it; and programs with  *)
(* the types whose children have to be of special ones.                    *)
EXTENDS TreeDump, TreeUniverse

Word == 1

Program(par, kinds) ==
  TreeOf([n \in 0 .. Len(par) - 1 |-> par[n + 1]],
         [n \in 0 .. Len(par) - 1 |->
            IF kinds[n + 1] = "abstract" THEN <<"KeywordModifier", ABSTRACT>>
            ELSE <<kinds[n + 1], Word>>])

Around(block, kind, children) ==
  Program(<<-1, 0>> \o [i \in DOMAIN children |-> 1] \o <<0>>,
          <<block, kind>> \o children \o <<"Identifier">>)

ChildLists(kinds) == UNION {[1 .. n -> kinds] : n \in 0 .. 4}

JavaPrograms ==
  {Around("Block", kind, cs) : kind \in Types(Java) \union {"Unknown"},
                               cs \in ChildLists({"Identifier", "Block"})}
  \union
  {Program(<<-1, 0, 0, 0, 3, 4, 5, 4, 4, 3>>,
           <<"InterfaceDeclaration", "Modifiers", "Identifier", "NormalTypeBody",
             "MethodDeclaration", modifier, "abstract", "TypeReference", "Identifier",
             "VariableDeclaration">>) : modifier \in {"Modifiers", "Annotation"}}
  \union
  {Program(<<-1, 0, 0, 0, 0, 4, 5, 6, 5, 5, 5, 5>>,
           <<class, "Modifiers", "Identifier", "TypeReference", "NormalTypeBody",
             method, "Modifiers", modifier, "TypeReference", "Identifier", "Identifier", "Block">>) :
     class \in {"ClassDeclaration", "InterfaceDeclaration"},
     method \in {"MethodDeclaration", "ConstructorDeclaration"},
     modifier \in {"abstract", "KeywordModifier"}}
  \union
  {Program(<<-1, 0, 0, 2, 2, 0, 5, 5, 0>>,
           <<"Try", "Block", "Catch", "Identifier", "Block", "Catch", "Identifier", "Block",
             last>>) : last \in {"Block", "Catch"}}

JSPrograms ==
  {Around("BlockStatement", kind, cs) : kind \in Types(JS) \union {"Unknown"},
                                        cs \in ChildLists({"Identifier", "BlockStatement"})}
  \union
  {Around("Program", kind, cs) : kind \in {"SwitchCase", "TryStatement", "ForStatement"},
                                 cs \in ChildLists({"EmptyStatement", "BlockStatement"})}
  \union
  {Program(<<-1, 0, 1, 2, 1, 4, 5, 5, 0>>,
           <<"Program", "ObjectExpression", property, "Literal", "Property",
             "FunctionExpression", "Identifier", "BlockStatement", "ThisExpression">>) :
     property \in {"Property", "Identifier"}}
  \union
  {Around("Program", kind, <<"Identifier">>) : kind \in {"Property", "LabeledStatement"}}

\* Nothing is highlighted, or one of the first nodes.
MCInputs ==
  {[ast_format |-> "Lombok", nodes |-> p, highlighted_position |-> h] :
     p \in JavaPrograms, h \in -1 .. 2}
  \union
  {[ast_format |-> "SpiderMonkey", nodes |-> p, highlighted_position |-> h] :
     p \in JSPrograms, h \in -1 .. 2}
=============================================================================
