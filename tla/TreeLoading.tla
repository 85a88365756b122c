---------------------------- MODULE TreeLoading ----------------------------
(***************************************************************************)
(* What becomes of a line of a file of trees: the loader looks at the line *)
(* (ParseTreesInFileWithParallelJSONParse), Reader::parse makes a value of *)
(* it, TreeStorage::Parse makes a tree of the value, and an ActorIndex is  *)
(* built on the tree. Texts are also given to the reader directly, and     *)
(* values to Parse, as the tests do. ParallelParse has the threads of the  *)
(* loader and its counts; here is one thread and one line.                 *)
(*                                                                         *)
(* Reader::parse copies the whole capacity of the string it is given: the  *)
(* document is the line, the character 0 after it, and what an earlier and *)
(* longer line has left there.                                             *)
(***************************************************************************)
EXTENDS JsonReader, ActorIndex

CONSTANTS
  rightMargin_,   \* StyledWriter: how long a line may get
  Lines,     \* lines of the file, and texts that are given to the reader:
  Texts,     \* [symbols, value (that was written), damaged]
  Values,    \* values that are given to Parse
  Compared,  \* those of them that are compared with each other
  Leftovers, \* what may follow a text
  Words      \* the symbols that are more than two characters

-----------------------------------------------------------------------------
(* The two writers of values (json/jsoncpp.cpp): FastWriter, all on one line,
   and StyledWriter, which toStyledString uses. What they write is a document
   of JsonReader. Comments are left out. *)

Joined(parts, separator) ==
  FlattenSeq([k \in DOMAIN parts |-> IF k = 1 THEN parts[k] ELSE separator \o parts[k]])

RECURSIVE uintToString(_)
uintToString(n) ==
  IF n < 10 THEN <<Digits[n + 1]>>
  ELSE Append(uintToString(n \div 10), Digits[(n % 10) + 1])

\* Digits of an integer, and of a double without or with a half.
valueToString(v) ==
  LET twice == Twice(v)
      abs   == IF twice < 0 THEN - twice ELSE twice
  IN (IF twice < 0 THEN <<"-">> ELSE <<>>) \o uintToString(abs \div 2)
       \o (IF IsIntegral(twice) THEN <<>> ELSE <<".", "5">>)

\* A slash is not escaped; a control character without a letter is written in
\* four digits.
UpperHexDigit(n) == HexDigits[IF n < 10 THEN n + 1 ELSE n + 7]
LettersOf(symbol) == {c \in DOMAIN Escapes \ {"/"} : Escapes[c] = symbol}
IsControlCharacter(symbol) == symbol \in DOMAIN Codes /\ Codes[symbol] < 32

Escaped(symbol) ==
  IF LettersOf(symbol) # {} THEN <<"\\", CHOOSE c \in LettersOf(symbol) : TRUE>>
  ELSE IF IsControlCharacter(symbol)
  THEN <<"\\", "u", "0", "0", HexDigits[Codes[symbol] \div 16 + 1], UpperHexDigit(Codes[symbol] % 16)>>
  ELSE <<symbol>>

valueToQuotedString(s) ==
  <<"\"">> \o FlattenSeq([k \in DOMAIN s |-> Escaped(s[k])]) \o <<"\"">>

\* A name that StyledWriter takes for a C string: it ends at its first NUL.
quotedCString(name) ==
  LET end == Min({k \in DOMAIN name : name[k] = NUL} \union {Len(name) + 1})
  IN valueToQuotedString(SubSeq(name, 1, end - 1))

ScalarText(v) ==
  CASE isNull(v) -> <<"null">>
    [] isBool(v) -> IF v.bool THEN <<"true">> ELSE <<"false">>
    [] isString(v) -> valueToQuotedString(v.string)
    [] IsStoredAsNumber(v) -> valueToString(v)

-----------------------------------------------------------------------------
\* FastWriter::writeValue
RECURSIVE FastWrite(_)
FastWrite(v) ==
  CASE isArray(v) ->
         <<"[">> \o Joined([k \in 1 .. size(v) |-> FastWrite(At(v, k - 1))], <<",">>) \o <<"]">>
    [] isObject(v) ->
         LET names == getMemberNames(v)
             member(k) == valueToQuotedString(names[k]) \o <<":">> \o FastWrite(At(v, names[k]))
         IN <<"{">> \o Joined([k \in DOMAIN names |-> member(k)], <<",">>) \o <<"}">>
    [] OTHER -> ScalarText(v)

FastWriter_write(v) == Append(FastWrite(v), "newline")

-----------------------------------------------------------------------------
(* StyledWriter. Its members are the record w; an indentation is a blank   *)
(* per level.                                                              *)

Writes(w, text) == [w EXCEPT !.document_ = @ \o text]

pushValue(w, text) ==
  IF w.addChildValues_ THEN [w EXCEPT !.childValues_ = Append(@, text)] ELSE Writes(w, text)

writeIndent(w) ==
  LET last == IF w.document_ = <<>> THEN "newline" ELSE w.document_[Len(w.document_)]
      line == IF last = "newline" THEN w ELSE Writes(w, <<"newline">>)
  IN IF last = " " THEN w ELSE Writes(line, [k \in 1 .. w.indent |-> " "])

writeWithIndent(w, text) == Writes(writeIndent(w), text)
indent(w) == [w EXCEPT !.indent = @ + 1]
unindent(w) == [w EXCEPT !.indent = @ - 1]

IsFullContainer(v) == (isArray(v) \/ isObject(v)) /\ size(v) > 0

RECURSIVE writeValue(_, _)

\* isMultineArray, which leaves the texts of the elements in childValues_.
ChildValues(w, v) ==
  IF \/ size(v) * 3 >= rightMargin_
     \/ \E k \in 0 .. size(v) - 1 : IsFullContainer(At(v, k))
  THEN [w EXCEPT !.childValues_ = <<>>]
  ELSE [FoldLeft(writeValue, [w EXCEPT !.childValues_ = <<>>, !.addChildValues_ = TRUE], Elements(v))
          EXCEPT !.addChildValues_ = FALSE]

\* Is the array written with a line per element?
isMultineArray(w) ==
  LET n == Len(w.childValues_)
  IN n = 0 \/ 4 + (n - 1) * 2 + Len(FlattenSeq(w.childValues_)) >= rightMargin_

Separator(k, n) == IF k = n THEN <<>> ELSE <<",">>

writeArrayValue(w, v) ==
  LET values  == ChildValues(w, v)
      texts   == values.childValues_
      element(x, k) ==
        Writes(IF texts # <<>> THEN writeWithIndent(x, texts[k])
               ELSE writeValue(writeIndent(x), At(v, k - 1)),
               Separator(k, size(v)))
  IN IF size(v) = 0 THEN pushValue(w, <<"[", "]">>)
     ELSE IF isMultineArray(values)
     THEN writeWithIndent(
            unindent(FoldLeftDomain(element, indent(writeWithIndent(values, <<"[">>)), Elements(v))),
            <<"]">>)
     ELSE Writes(values, <<"[", " ">> \o Joined(texts, <<",", " ">>) \o <<" ", "]">>)

writeObjectValue(w, v) ==
  LET names == getMemberNames(v)
      member(x, k) ==
        Writes(writeValue(Writes(writeWithIndent(x, quotedCString(names[k])),
                                 <<" ", ":", " ">>),
                          At(v, names[k])),
               Separator(k, Len(names)))
  IN IF names = <<>> THEN pushValue(w, <<"{", "}">>)
     ELSE writeWithIndent(
            unindent(FoldLeftDomain(member, indent(writeWithIndent(w, <<"{">>)), names)), <<"}">>)

writeValue(w, v) ==
  CASE isArray(v) -> writeArrayValue(w, v)
    [] isObject(v) -> writeObjectValue(w, v)
    [] OTHER -> pushValue(w, ScalarText(v))

StyledWriter_write(v) ==
  writeValue([document_ |-> <<>>, indent |-> 0, childValues_ |-> <<>>, addChildValues_ |-> FALSE],
             v).document_ \o <<"newline">>

-----------------------------------------------------------------------------
\* The same values of JSON, which knows no holes and one type of numbers.
RECURSIVE SameJson(_, _)
SameJson(a, b) ==
  CASE IsStoredAsNumber(a) -> IsStoredAsNumber(b) /\ Twice(a) = Twice(b)
    [] isArray(a) ->
         /\ isArray(b) /\ size(a) = size(b)
         /\ \A k \in 0 .. size(a) - 1 : SameJson(At(a, k), At(b, k))
    [] isObject(a) ->
         /\ isObject(b) /\ DOMAIN Map(a) = DOMAIN Map(b)
         /\ \A name \in DOMAIN Map(a) : SameJson(At(a, name), At(b, name))
    [] OTHER -> a = b

-----------------------------------------------------------------------------
VARIABLES
  given,     \* fixed
  strings, node_id, i, last_child_id, parse_pc

\* `tree' of ActorIndex is what Parse makes.
parseVars == <<strings, tree, node_id, i, last_child_id, parse_pc>>
indexVars == <<actor_kind, symbol_sequences_, symbol_predecessors_, current_node, index_pc>>
vars == <<given, readerVars, parseVars, indexVars>>

Tree == INSTANCE TreeParse WITH
  v <- currentValue, nodes <- tree, pc <- parse_pc, Zero <- NUL,
  TypeField <- <<"type">>, ValueField <- <<"value">>, IdField <- <<"id">>,
  ChildrenField <- <<"children">>

Document(leftover) == given.symbols \o <<NUL>> \o leftover
NoText == [symbols |-> <<>>, value |-> nullRef, damaged |-> TRUE]

Init ==
  /\ \/ given \in Lines /\ \E leftover \in Leftovers : StartsAt(Document(leftover), "line", nullRef)
     \/ given \in Texts /\ \E leftover \in Leftovers : StartsAt(Document(leftover), "readValue", nullRef)
     \/ given = NoText /\ \E x \in Values : StartsAt(<<>>, "parsed", x)
  /\ Tree!InitParse
  /\ NotBuilt

-----------------------------------------------------------------------------
IsShort == Len(given.symbols) <= 2 /\ Range(given.symbols) \cap Words = {}

\* Empty lines, empty trees, and lines that do not end an array.
IsSkipped == IsShort \/ Last(given.symbols) # "]"

TakeLine ==
  /\ pc = "line"
  /\ pc' = IF IsSkipped THEN "skipped" ELSE "readValue"
  /\ UNCHANGED <<document_, current_, nodes_, currentValue, stackDepth_g, errors_>>

Read == (TakeLine \/ ReadStep) /\ UNCHANGED <<given, parseVars, indexVars>>

\* A line that is no JSON ends the process; otherwise the value is parsed.
Parse == pc = "parsed" /\ Tree!ParseStep /\ UNCHANGED <<given, readerVars, indexVars>>

\* The index is for trees whose nodes are in the order of the walk.
Build ==
  /\ parse_pc = "parsed" /\ CanonicalTree(tree)
  /\ BuildStep
  /\ UNCHANGED <<given, readerVars, strings, node_id, i, last_child_id, parse_pc>>

Ended ==
  \/ pc \in {"skipped", "failed", "threw"}
  \/ parse_pc \in {"failed", "undefined"}
  \/ parse_pc = "parsed" /\ ~CanonicalTree(tree)
  \/ index_pc = "built"

Next == Read \/ Parse \/ Build \/ (Ended /\ UNCHANGED vars)

Spec == Init /\ [][Next]_vars

\* A thread that is not blocked goes on, and here nothing blocks. The reader
\* needs no fairness for what is said of it.
FairSpec == Spec /\ WF_vars(Parse) /\ WF_vars(Build)

-----------------------------------------------------------------------------
RECURSIVE Depth(_)
Depth(x) ==
  1 + Max({0} \union {Depth(Map(x)[k]) : k \in DOMAIN Map(x)})

(***************************************************************************)
(* Reading is the inverse of writing: what either writer writes of a value *)
(* is read as this value, with the numbers at the limits of their types,   *)
(* the escapes, the holes of arrays and the blanks of the styled text,     *)
(* whatever follows in the buffer; only a nesting deeper than the limit    *)
(* throws.                                                                 *)
(***************************************************************************)
ReadsWhatIsWritten ==
  pc \in {"parsed", "failed", "threw"} /\ parse_pc = "assign" /\ ~given.damaged =>
    IF Depth(given.value) <= stackLimit_g
    THEN pc = "parsed" /\ SameJson(currentValue, given.value) ELSE pc = "threw"

RECURSIVE Names(_)
Names(x) ==
  (IF isObject(x) THEN DOMAIN Map(x) ELSE {})
    \union UNION {Names(Map(x)[k]) : k \in DOMAIN Map(x)}

\* What tells texts apart, without their blanks and numbers.
Skeleton(text) ==
  SelectSeq(text, LAMBDA s : s \notin Blank \union {"-", "."} /\ ~IsDigit(s))
Occurrences(text) == [s \in Range(text) |-> Cardinality({k \in DOMAIN text : text[k] = s})]

\* Does a line and a column lead to the place p?
IsPlaceOf(where, p) ==
  LET start == p - (where.column - 1)
      EndsLine(k) ==
        \/ document_[k] = "newline"
        \/ document_[k] = "return" /\ (k < Len(document_) => document_[k + 1] # "newline")
  IN /\ start >= 0
     /\ Range(Text(start, p)) \intersect {"newline", "return"} = {}
     /\ start > 0 => EndsLine(start)
     /\ where.line = 1 + Cardinality({k \in 1 .. start : EndsLine(k)})

(***************************************************************************)
(* The reader is strict enough: when it accepts a text, damaged or not,    *)
(* every bracket, comma, colon, quote and word that it has consumed is in  *)
(* the value, and the value needs no other. There are two exceptions, which*)
(* the code has: after a comment behind a member anything is a comma, and a*)
(* member with an empty name may be followed by a comma and no member. A   *)
(* text that it refuses has one error, however many containers it leaves   *)
(* on the way out, and the error is about a place that has been read, which*)
(* the line and the column of its message name.                            *)
(***************************************************************************)
AcceptedTextIsKept ==
  given # NoText =>
    /\ pc = "parsed" /\ parse_pc = "assign" =>
         LET consumed == Text(0, current_)
         IN Comment \in Range(consumed) \/ <<>> \in Names(currentValue) \/ Range(consumed) \intersect {"u"} # {} \/
              Occurrences(Skeleton(consumed)) = Occurrences(Skeleton(FastWrite(currentValue)))
    /\ pc \in {"parsed", "skipped"} => errors_ = <<>>
    /\ pc = "failed" =>
         /\ Len(errors_) = 1 /\ errors_[1] \in 0 .. current_
         /\ IsPlaceOf(getLocationLineAndColumn(errors_[1]), errors_[1])

-----------------------------------------------------------------------------
\* Whatever is at name, x and y have the same members.
SameButFor(name, x, y) ==
  \A other \in (DOMAIN Map(x) \union DOMAIN Map(y)) \ {name} :
    isMember(x, other) /\ isMember(y, other) /\ At(x, other) = At(y, other)

\* The object or null x is a map from names, and what is read from it without
\* a default is null.
ObjectsAreMaps(x) ==
  \A name \in DOMAIN Map(x) \union {<<>>, <<"x">>} :
    LET one == BooleanValue(TRUE)
        set == SetMember(x, name, one)
    IN /\ isMember(x, name) <=> get(x, name, one) = get(x, name, nullRef)
       /\ get(resolveReference(x, name), name, one) = At(x, name)
       /\ size(resolveReference(x, name)) = size(x) + IF isMember(x, name) THEN 0 ELSE 1
       /\ SameButFor(name, set, x) /\ At(set, name) = one
       /\ SameButFor(name, removeMember(x, name), x) /\ ~isMember(removeMember(x, name), name)
       /\ isObject(x) => removeMember(set, name) = removeMember(x, name)
       /\ empty(x) <=> getMemberNames(x) = <<>>
       /\ empty(clear(x)) /\ clear(x).type = x.type

\* The array a reads like the sequence s.
ReadsLike(a, s) ==
  \A k \in 0 .. size(a) + Len(s) : At(a, k) = IF k < Len(s) THEN s[k + 1] ELSE nullRef

Filled(s, n) == [k \in 1 .. n |-> IF k <= Len(s) THEN s[k] ELSE nullRef]

ArraysAreSequences(a) ==
  /\ append(a, nullRef) = SetElement(a, size(a), nullRef)
  /\ ReadsLike(append(a, BooleanValue(TRUE)), Append(Elements(a), BooleanValue(TRUE)))
  /\ \A n \in 0 .. size(a) + 2 : CanResize(a, n) =>
       size(resize(a, n)) = n /\ ReadsLike(resize(a, n), Filled(Elements(a), n))
  /\ \A k \in DOMAIN Map(a) :
       /\ ReadsLike(removeIndex(a, k), RemoveAt(Elements(a), k + 1))
       /\ size(removeIndex(a, k)) < size(a)

ConversionsAgree(x) ==
  /\ isConvertibleTo(x, "intValue") <=> HasInt(x)
  /\ isConvertibleTo(x, "uintValue") <=> HasUInt(x)
  /\ isConvertibleTo(x, "realValue") <=> HasDouble(x)
  /\ isConvertibleTo(x, "stringValue") <=> HasString(x)
  /\ HasInt(x) => asInt(x) \in minInt .. maxInt
  /\ HasUInt(x) => asUInt(x) \in 0 .. maxUInt
  /\ HasInt(x) => HasInt64(x)
  /\ HasUInt(x) => HasUInt64(x)
  /\ HasInt64(x) /\ asDouble(x) # 2 * maxLargestIntAsDouble => asInt64(x) \in minLargestInt .. maxLargestInt
  /\ HasUInt64(x) /\ asDouble(x) # 2 * maxUInt64AsDouble => asUInt64(x) \in 0 .. maxLargestUInt
  /\ isInt64(x) => HasInt64(x) /\ 2 * asInt64(x) = asDouble(x)
  /\ isInt(x) => HasInt(x) /\ 2 * asInt(x) = asDouble(x)
  /\ isConvertibleTo(x, "nullValue") /\ HasDouble(x) => ~asBool(x)

Comparison == [p \in Compared \X Compared |-> compare(p[1], p[2])]
OrderIsTotal(x) ==
  \A y \in Compared :
    /\ Comparison[x, y] = - Comparison[y, x]
    /\ Comparison[x, y] = 0 <=> ValuesEqual(x, y)
    /\ Comparison[x, y] <= 0 => \A z \in Compared : Comparison[y, z] <= 0 => Comparison[x, z] <= 0

(***************************************************************************)
(* The operations of values agree with each other. Arrays, which are maps  *)
(* with holes, are edited like the sequences they stand for: append, resize*)
(* and removeIndex leave every other element in its order; resize leaves as*)
(* many elements as it is asked for, unless an assertion of it fails, and  *)
(* removing the last one takes the hole before it. isConvertibleTo tells   *)
(* the conversions that do not throw, and asInt and asUInt return numbers  *)
(* of their types: no value gets through that wraps. And < is a total order*)
(* whose ties are the equal values, though it looks at sizes first.        *)
(***************************************************************************)
ValuesAreConsistent ==
  pc = "parsed" /\ parse_pc = "assign" =>
    /\ isArray(currentValue) => ArraysAreSequences(currentValue)
    /\ isObject(currentValue) \/ isNull(currentValue) => ObjectsAreMaps(currentValue)
    /\ ConversionsAgree(currentValue)
    /\ currentValue \in Compared => OrderIsTotal(currentValue)

TreesAreParsed == Tree!TreesAreParsed

(***************************************************************************)
(* What has been read is parsed or refused, and a tree is indexed: the     *)
(* loops over nodes and children end, and so does the walk of Build, which *)
(* keeps no stack.                                                         *)
(***************************************************************************)
LoadingEnds == pc = "parsed" ~> Ended
=============================================================================
