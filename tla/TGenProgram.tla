---------------------------- MODULE TGenProgram ----------------------------
(***************************************************************************)
(* A TGen program (phog/dsl/tgen_program.h, branched_cond.h): a sequence   *)
(* of entries that an id addresses from 0. A simple one holds the two TCond*)
(* programs of a submodel; a branched one runs a TCond program and goes to *)
(* the entry that its case names. And the file that such a program is read *)
(* from and written to.                                                    *)
(*                                                                         *)
(* A text is a sequence of symbols: a character that means something, a    *)
(* number without its sign, or a word. What parsing a text may give is a   *)
(* set: empty when a CHECK fails, one program in general, and more where   *)
(* the code leaves a member uninitialized.                                 *)
(***************************************************************************)
EXTENDS Integers, SequencesExt

CONSTANTS
  MaxNumber,       \* bound on the numbers in a text
  Uninitialized    \* what an int that nothing has been assigned to may be

SimpleProgram(eq, context) ==
  [type |-> "SIMPLE_PROGRAM", eq_program |-> eq, context_program |-> context]

\* A switch without an else leaves p_default uninitialized: any int.
BranchedProgram(cond, cases, default) ==
  [type |-> "BRANCHED_PROGRAM", cond |-> cond, per_case_p |-> cases, p_default |-> default]

Ids(program) == 0 .. Len(program) - 1
Entry(program, id) == program[id + 1]
IsBranched(program, id) == Entry(program, id).type = "BRANCHED_PROGRAM"

GetReferencedPrograms(entry) == Range(entry.per_case_p) \union {entry.p_default}

\* Where entry goes when its condition has written branch_context.
BranchTarget(entry, branch_context) ==
  IF branch_context \in DOMAIN entry.per_case_p THEN entry.per_case_p[branch_context]
  ELSE entry.p_default

\* Every goto names an entry that comes before it in the file.
BackwardGotos(program) ==
  \A id \in Ids(program) :
    IsBranched(program, id) =>
      GetReferencedPrograms(Entry(program, id)) \subseteq 0 .. id - 1
-----------------------------------------------------------------------------
(* Characters, strings and numbers: strutil.cpp *)

Blank == {" ", "\t", "\n", "\r"}

TrimLeadingAndTrailingSpaces(s) ==
  LET ink == {i \in DOMAIN s : s[i] \notin Blank}
  IN IF ink = {} THEN <<>> ELSE SubSeq(s, Min(ink), Max(ink))

SplitStringUsing(s, delim) ==
  FoldLeft(LAMBDA pieces, c : IF c = delim THEN Append(pieces, <<>>)
                              ELSE [pieces EXCEPT ![Len(pieces)] = Append(@, c)],
           <<<<>>>>, s)

JoinStrings(strs, separator) ==
  IF strs = <<>> THEN <<>>
  ELSE FoldLeft(LAMBDA joined, s : joined \o <<separator>> \o s, Head(strs), Tail(strs))

EscapeOf ==
  [x \in {","} |-> "c"] @@ [x \in {" "} |-> "s"] @@ [x \in {"\n"} |-> "n"] @@ [x \in {"\t"} |-> "t"]
  @@ [x \in {"\\"} |-> "\\"] @@ [x \in {"+"} |-> "p"] @@ [x \in {"-"} |-> "m"] @@ [x \in {"="} |-> "e"]
  @@ [x \in {"|"} |-> "o"] @@ [x \in {"&"} |-> "a"] @@ [x \in {"@"} |-> "x"] @@ [x \in {":"} |-> "f"]
  @@ [x \in {";"} |-> "r"] @@ [x \in {"\""} |-> "d"] @@ [x \in {"'"} |-> "q"]

\* A bug: the separator of the cases is written as it is.
EscapeStrSeparators_NoBar(s) ==
  FlattenSeq([i \in DOMAIN s |-> IF s[i] \in DOMAIN EscapeOf \ {"|"} THEN <<"\\", EscapeOf[s[i]]>>
                                 ELSE <<s[i]>>])

EscapeStrSeparators(s) ==
  FlattenSeq([i \in DOMAIN s |-> IF s[i] \in DOMAIN EscapeOf THEN <<"\\", EscapeOf[s[i]]>>
                                 ELSE <<s[i]>>])

\* An escape that is none, and a backslash at the end, are dropped.
UnEscapeStrSeparators(s) ==
  FoldLeft(LAMBDA r, c :
             IF r.escaped
             THEN [escaped |-> FALSE,
                   text    |-> r.text \o SetToSeq({x \in DOMAIN EscapeOf : EscapeOf[x] = c})]
             ELSE IF c = "\\" THEN [r EXCEPT !.escaped = TRUE]
             ELSE [r EXCEPT !.text = Append(@, c)],
           [escaped |-> FALSE, text |-> <<>>], s).text

\* "%d", and the number that a text starts with, as sscanf and stoi read it.
ToDecimal(n) == IF n < 0 THEN <<"-", ToString(-n)>> ELSE <<ToString(n)>>
NumberAt(s) == {n \in -MaxNumber .. MaxNumber : IsPrefix(ToDecimal(n), s)}
ParseInt32(s) == {n \in NumberAt(s) : ToDecimal(n) = s}

-----------------------------------------------------------------------------
(* TCond programs: tcond_language.cpp, simple_cond.cpp *)

OpCmds == {"WRITE_TYPE", "WRITE_VALUE", "WRITE_POS", "UP", "LEFT", "RIGHT", "DOWN_FIRST",
           "DOWN_LAST", "PREV_DFS", "PREV_LEAF", "NEXT_LEAF", "PREV_NODE_VALUE",
           "PREV_NODE_TYPE", "PREV_NODE_CONTEXT"}

Op(cmd) == [cmd |-> cmd, extra_data |-> -1]

ProgramToString(p) ==
  JoinStrings([i \in DOMAIN p |->
                 <<p[i].cmd>> \o IF p[i].extra_data = -1 THEN <<>>
                                 ELSE <<"@">> \o ToDecimal(p[i].extra_data)], " ")

ParseOp(s) ==
  LET parts == SplitStringUsing(s, "@")
  IN {[cmd |-> c, extra_data |-> n] :
        c \in {x \in OpCmds : parts[1] = <<x>>},
        n \in IF Len(parts) > 1 THEN NumberAt(parts[2]) ELSE {-1}}

ParseStringToProgram(s) ==
  LET ops == [i \in DOMAIN SplitStringUsing(s, " ") |-> ParseOp(SplitStringUsing(s, " ")[i])]
  IN IF s = <<>> THEN {<<>>}
     ELSE IF \E i \in DOMAIN ops : ops[i] = {} THEN {}
     ELSE {[i \in DOMAIN ops |-> CHOOSE op \in ops[i] : TRUE]}

\* Where a text occurs in s.
Places(s, text) ==
  {i \in 1 .. Len(s) - Len(text) + 1 : SubSeq(s, i, i + Len(text) - 1) = text}
From(s, i) == SubSeq(s, i, Len(s))

ParseSimple(s) ==
  LET eq == Places(s, <<"=", "eq", "=">>)
  IN IF s = <<"empty">> THEN {SimpleProgram(<<>>, <<>>)}
     ELSE IF eq = {} THEN {SimpleProgram(<<>>, p) : p \in ParseStringToProgram(s)}
     ELSE {SimpleProgram(e, c) :
             e \in ParseStringToProgram(TrimLeadingAndTrailingSpaces(SubSeq(s, 1, Min(eq) - 1))),
             c \in ParseStringToProgram(TrimLeadingAndTrailingSpaces(From(s, Min(eq) + 3)))}

SimpleToString(p) ==
  IF p.eq_program # <<>>
  THEN ProgramToString(p.eq_program) \o <<" ", "=", "eq", "=", " ">>
         \o ProgramToString(p.context_program)
  ELSE IF p.context_program = <<>> THEN <<"empty">>
  ELSE ProgramToString(p.context_program)

-----------------------------------------------------------------------------
(* Branched programs: branched_cond.cpp. The names are those of a StringSet,
   in the order of their ids. *)

addString(names, name) == IF name \in Range(names) THEN names ELSE Append(names, name)
IdOf(names, name) == (CHOOSE i \in DOMAIN names : names[i] = name) - 1

CaseToString(values, names) ==
  JoinStrings([i \in DOMAIN values |->
                 IF values[i] < 0 THEN ToDecimal(values[i])
                 ELSE EscapeStrSeparators(names[values[i] + 1])], " ")

\* The order of std::map.
Before(v, w) ==
  \/ IsStrictPrefix(v, w)
  \/ \E i \in DOMAIN v \cap DOMAIN w : v[i] < w[i] /\ \A j \in 1 .. i - 1 : v[j] = w[j]

BranchToString(p, names, target) ==
  IF target = p.p_default THEN <<" ", "else", " ", "goto", " ">> \o ToDecimal(target)
  ELSE LET cases == SetToSortSeq({c \in DOMAIN p.per_case_p : p.per_case_p[c] = target}, Before)
       IN <<" ", "on", " ", "\"">>
            \o JoinStrings([i \in DOMAIN cases |-> CaseToString(cases[i], names)], "|")
            \o <<"\"", " ", "goto", " ">> \o ToDecimal(target) \o <<";">>

ToStringAsProgramLine(p, names) ==
  LET programs == SetToSortSeq(GetReferencedPrograms(p) \ {p.p_default}, <)
  IN <<"switch", " ">> \o ProgramToString(p.cond) \o <<":">>
       \o FlattenSeq([i \in DOMAIN programs |-> BranchToString(p, names, programs[i])])
       \o BranchToString(p, names, p.p_default)

ParseCond(s) ==
  CASE s = <<"type">> -> {<<Op("WRITE_TYPE")>>}
    [] s = <<"parent_type">> -> {<<Op("UP"), Op("WRITE_TYPE")>>}
    [] s = <<"type_parent_type">> -> {<<Op("WRITE_TYPE"), Op("UP"), Op("WRITE_TYPE")>>}
    [] OTHER -> ParseStringToProgram(s)

\* The values of a case, the names among them that it adds, and their ids.
Commands(value) == SplitStringUsing(TrimLeadingAndTrailingSpaces(value), " ")
IsNumber(cmd) == cmd # <<>> /\ Head(cmd) = "-"
AddNames(names, value) ==
  FoldLeft(LAMBDA known, cmd : IF cmd = <<>> \/ IsNumber(cmd) THEN known
                               ELSE addString(known, UnEscapeStrSeparators(cmd)),
           names, Commands(value))
CommandId(cmd, names) ==
  IF IsNumber(cmd) THEN ParseInt32(cmd) ELSE {IdOf(names, UnEscapeStrSeparators(cmd))}

\* An empty command clears the ids. Those that follow it are written behind
\* the end of the vector, whose size remains 0.
CommandIds(value, names) ==
  LET cmds == Commands(value) IN
  IF \E i \in DOMAIN cmds : cmds[i] # <<>> /\ CommandId(cmds[i], names) = {} THEN {}
  ELSE IF <<>> \in Range(cmds) THEN {<<>>}
  ELSE {[i \in DOMAIN cmds |-> CHOOSE id \in CommandId(cmds[i], names) : TRUE]}

\* The cases of a switch, each with its values and where it goes.
WithoutBlanks(s) == SelectSeq(s, LAMBDA c : c \notin Blank)
ElseTarget(s) ==
  LET w == WithoutBlanks(s)
  IN IF IsPrefix(<<"else", "goto">>, w) THEN NumberAt(From(w, 3)) ELSE {}
ParseCase(s) ==
  LET quotes == Places(s, <<"\"">>)
      second == Min(quotes \ {Min(quotes)})
      goto   == WithoutBlanks(From(s, second + 1))
  IN IF IsPrefix(<<"on", " ">>, s) /\ Cardinality(quotes) >= 2 /\ IsPrefix(<<"goto">>, goto)
     THEN {[values |-> SplitStringUsing(SubSeq(s, Min(quotes) + 1, second - 1), "|"), target |-> n] :
             n \in NumberAt(Tail(goto))}
     ELSE {}

AddCases(per_case_p, c, names) ==
  FoldLeft(LAMBDA m, value : [x \in CommandIds(value, names) |-> c.target] @@ m, per_case_p, c.values)

\* After "switch ": the condition, a colon, and the cases.
Condition(s) ==
  LET colon == Places(s, <<":">>)
  IN IF colon = {} THEN {} ELSE ParseCond(TrimLeadingAndTrailingSpaces(SubSeq(s, 3, Min(colon) - 1)))
Cases(s) ==
  LET cases == SplitStringUsing(From(s, Min(Places(s, <<":">>)) + 1), ";")
  IN [i \in DOMAIN cases |-> TrimLeadingAndTrailingSpaces(cases[i])]
CasesRead(s) ==
  LET on == SelectSeq(Cases(s), LAMBDA c : ElseTarget(c) = {})
  IN [i \in DOMAIN on |-> ParseCase(on[i])]
NamesOfLine(names, s) ==
  FoldLeft(LAMBDA known, c : IF c = {} THEN known
                           ELSE FoldLeft(AddNames, known, (CHOOSE x \in c : TRUE).values),
           names, CasesRead(s))

\* The names are those that NamesOfLine has added.
ParseAsProgramLine(s, names) ==
  LET on    == CasesRead(s)
      elses == SelectSeq(Cases(s), LAMBDA c : ElseTarget(c) # {})
      All(i) == CHOOSE c \in on[i] : TRUE
      Readable(c) == \A i \in DOMAIN c.values : CommandIds(c.values[i], names) # {}
  IN IF ~IsPrefix(<<"switch", " ">>, s) \/ Condition(s) = {} THEN {}
     ELSE IF \E i \in DOMAIN on : on[i] = {} \/ ~Readable(All(i)) THEN {}
     ELSE {BranchedProgram(cond,
             FoldLeft(LAMBDA m, i : AddCases(m, All(i), names), <<>>, [i \in DOMAIN on |-> i]), d) :
             cond \in Condition(s),
             d \in IF elses = <<>> THEN Uninitialized ELSE ElseTarget(Last(elses))}

\* A filter goes to 1 when the condition has one of its values, and else to 0.
FilterValues(s) == SplitStringUsing(From(s, Min(Places(s, <<"=", "=">>)) + 2), "|")
NamesOfFilter(names, s) == FoldLeft(AddNames, names, FilterValues(s))
ParseAsSimpleFilter(s, names) ==
  LET eq == Places(s, <<"=", "=">>)
      values == FilterValues(s)
      IsFilled(value) == <<>> \notin Range(Commands(value)) /\ CommandIds(value, names) # {}
  IN IF eq = {} THEN {}
     ELSE IF \E i \in DOMAIN values : ~IsFilled(values[i]) THEN {}
     ELSE {BranchedProgram(cond, AddCases(<<>>, [values |-> values, target |-> 1], names), 0) :
             cond \in ParseCond(TrimLeadingAndTrailingSpaces(SubSeq(s, 1, Min(eq) - 1)))}

-----------------------------------------------------------------------------
(* The whole program: tgen_program.cpp *)

SaveProgramAtPosToString(program, id, names) ==
  LET entry == Entry(program, id)
  IN IF IsBranched(program, id) THEN ToStringAsProgramLine(entry, names) ELSE SimpleToString(entry)

SaveToString(program, names) ==
  [i \in DOMAIN program |-> SaveProgramAtPosToString(program, i - 1, names)]

LinesOf(text) ==
  SelectSeq([i \in DOMAIN text |-> TrimLeadingAndTrailingSpaces(text[i])], LAMBDA s : s # <<>>)
IsSwitch(s) == Head(s) = "switch"

NamesOfText(names, text) ==
  FoldLeft(LAMBDA known, s : IF IsSwitch(s) /\ Condition(s) # {} THEN NamesOfLine(known, s) ELSE known,
           names, LinesOf(text))

\* With the names of the text among the names.
LoadFromString(text, names) ==
  FoldLeft(LAMBDA programs, s :
             {Append(p, entry) :
                p \in programs,
                entry \in IF IsSwitch(s) THEN ParseAsProgramLine(s, names) ELSE ParseSimple(s)},
           {<<>>}, LinesOf(text))

AddProgram(program, entry) == Append(program, entry)
FindProgram(program, entry) ==
  LET found == {id \in Ids(program) : Entry(program, id) = entry}
  IN IF found = {} THEN -1 ELSE Min(found)
AddProgramNoDuplicates(program, entry) ==
  IF FindProgram(program, entry) # -1 THEN program ELSE AddProgram(program, entry)
=============================================================================
