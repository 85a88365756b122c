--------------------------- MODULE MCTreeLoading ---------------------------
(* Texts: what the writers make of a set of values, and these with one     *)
(* symbol dropped or replaced. Values for Parse: arrays of at most three   *)
(* elements, of all sorts, and canonical trees.                            *)
EXTENDS TreeLoading
CONSTANTS MaxChildren, LabelledNodes, ShapeNodes

Universe == INSTANCE TreeUniverse

MCSymbols ==
  <<"NUL", "backspace", "tab", "newline", "formfeed", "return", "unit", " ", "\"", ",", "-", ".", "/", "/**/", "0", "1", "2", "3", "4", "5", "6",
    "7", "8", "9", ":", "[", "\\", "]", "b", "children", "false", "id", "null", "true", "type",
    "value", "x", "y", "{", "}", "delete">>
MCWords == {"/**/", "children", "false", "id", "null", "true", "type", "value"}

-----------------------------------------------------------------------------
(* Values.                                                                 *)

Array(seq) == ArrayValue([k \in 0 .. Len(seq) - 1 |-> seq[k + 1]])
Member(word, x) == ObjectValue([name \in {<<word>>} |-> x])
Both(a, b) == ObjectValue(Map(a) @@ Map(b))

NodeValue(id, type, value, children) ==
  LET required == Both(Member("id", id), Member("type", StringValue(type)))
      labelled == IF value = <<>> THEN required
                  ELSE Both(required, Member("value", StringValue(value)))
  IN IF size(children) = 0 THEN labelled ELSE Both(labelled, Member("children", children))

\* A tree of TreeUniverse, whose labels are sequences of symbols.
ValueOf(t) ==
  Array([k \in 1 .. Cardinality(DOMAIN t) |->
    NodeValue(IntValue(k - 1), t[k - 1].type, t[k - 1].value,
      Array([c \in 1 .. Cardinality({n \in DOMAIN t : t[n].parent = k - 1}) |->
        IntValue(CHOOSE n \in DOMAIN t : t[n].parent = k - 1 /\ t[n].child_index = c - 1)]))])

MCLabels == {<<<<"x">>, <<>>>>, <<<<"y">>, <<>>>>, <<<<"x">>, <<"y">>>>, <<<<"y">>, <<"x">>>>}
Labelled == {ValueOf(t) : t \in Universe!TreesUpTo(LabelledNodes, MCLabels)}
Shapes ==
  {ValueOf(Universe!TreeOf(par, [n \in DOMAIN par |-> <<IF n % 2 = 0 THEN <<"x">> ELSE <<"y">>,
                                                        IF n % 3 = 0 THEN <<"y">> ELSE <<>>>>])) :
     par \in Universe!ParentFunctions(ShapeNodes)}

Ids(last) == {IntValue(k) : k \in 0 .. last}
ChildLists(ids, maxLen) == UNION {[1 .. len -> ids] : len \in 0 .. maxLen}

Strange(n) ==
  {nullRef, IntValue(n), NodeValue(IntValue(n + 1), <<"x">>, <<>>, nullRef),
   Member("type", StringValue(<<"x">>)), Member("id", IntValue(n)),
   Both(Member("type", StringValue(<<"x", "NUL", "y">>)), Member("value", IntValue(1))),
   NodeValue(RealValue(2 * n + 1), <<"x">>, <<"y">>, Member("id", IntValue(2))),
   NodeValue(IntValue(n), <<"x">>, <<>>, Array(<<StringValue(<<"1">>)>>)),
   NodeValue(IntValue(n), <<"x">>, <<>>, Array(<<UIntValue(maxInt + 1)>>)),
   NodeValue(IntValue(n), <<"x">>, <<>>, Array(<<BooleanValue(TRUE)>>)),
   NodeValue(IntValue(n), <<"x">>, <<>>, ArrayValue(2 :> IntValue(2)))}

Plain(n, last, maxLen) ==
  {NodeValue(IntValue(n), <<"x">>, <<"y">>, Array(children)) :
     children \in ChildLists(Ids(last), maxLen)}

Nodes(n, last, maxLen) == Strange(n) \union Plain(n, last, maxLen)
FewNodes(n, last, maxLen) == {nullRef, Member("id", IntValue(n))} \union Plain(n, last, maxLen)

Arrays ==
  {Array(<<a>>) : a \in Nodes(0, 1, MaxChildren)}
  \union {Array(<<a, b>>) : a \in Nodes(0, 2, MaxChildren), b \in Nodes(1, 2, MaxChildren)}
  \union {Array(<<a, b, c>>) :
            a \in Nodes(0, 3, MaxChildren), b \in FewNodes(1, 3, 1), c \in FewNodes(2, 3, 1)}

Scalars ==
  {nullRef, BooleanValue(TRUE), BooleanValue(FALSE), StringValue(<<>>), StringValue(<<"1">>),
   ObjectValue(Nothing), ArrayValue(Nothing)}
  \union {IntValue(n) : n \in {minLargestInt, minInt - 1, minInt, -1, 0, maxInt, maxInt + 1}}
  \union {UIntValue(n) : n \in {0, maxInt, maxInt + 1, maxUInt, maxUInt + 1, maxLargestUInt}}
  \union {RealValue(n) : n \in {-3, 0, 1, 2 * minInt - 1, 2 * maxInt + 1, 2 * maxUInt + 2, 2 * maxLargestUInt + 2}}

Holed == {ArrayValue([k \in places |-> IntValue(k)]) : places \in SUBSET (0 .. 4)}

MCCompared ==
  Scalars \union {ArrayValue([k \in places |-> IntValue(7 - k)]) : places \in SUBSET (0 .. 2)}
  \union {Array(<<x>>) : x \in {nullRef, Array(<<nullRef>>), Member("x", nullRef), StringValue(<<"x">>)}}
  \union {Array(<<nullRef, nullRef>>), Member("y", nullRef), Member("x", IntValue(1)),
          Both(Member("x", IntValue(1)), Member("y", nullRef)), Both(Member("x", IntValue(0)), Member("y", IntValue(1))),
          ObjectValue(<<"x", "x">> :> nullRef), StringValue(<<"x">>), StringValue(<<"x", "x">>), StringValue(<<"x", "NUL">>)}

MCValues == Labelled \union Shapes \union Arrays \union Scalars \union Holed \union MCCompared

-----------------------------------------------------------------------------
(* Texts.                                                                  *)

TwoNodes == Array(<<NodeValue(IntValue(0), <<"x">>, <<>>, Array(<<IntValue(1)>>)),
                    NodeValue(IntValue(1), <<"y">>, <<"x", "\"", "\\">>, nullRef)>>)
Mixed == Array(<<ArrayValue(1 :> BooleanValue(FALSE)), Member("x", ArrayValue(Nothing)),
                 RealValue(-3)>>)

RECURSIVE Nested(_)
Nested(n) == IF n = 0 THEN ArrayValue(Nothing) ELSE Array(<<Nested(n - 1)>>)

Numbers == (minLargestInt - 1) .. (maxLargestInt + 1) \union (maxLargestUInt - 2) .. (maxLargestUInt + 9)
Number(n) ==
  IF n \notin minLargestInt .. maxLargestUInt THEN RealValue(2 * n)
  ELSE IF n > maxLargestInt THEN UIntValue(n) ELSE IntValue(n)

WrittenValues ==
  Scalars \union Holed \union {TwoNodes, Mixed} \union {Nested(n) : n \in 1 .. stackLimit_g}
  \union {Array(<<Number(n), Member("y", Number(n))>>) : n \in Numbers}
  \union {Array(<<StringValue(s), ObjectValue(s :> StringValue(s))>>) :
            s \in UNION {[1 .. len -> {"x", "\"", "\\"}] : len \in 0 .. 2}}
  \union {Array(<<StringValue(<<"x", c>>), ObjectValue(<<c, "x">> :> nullRef)>>) :
            c \in {"NUL", "backspace", "tab", "newline", "formfeed", "return", "unit", "delete", "/"}}

\* StyledWriter takes a name for a C string.
HasNul(name) == "NUL" \in Range(name)
IsStyled(x) == \A name \in Names(x) : ~HasNul(name)

Whole(x) ==
  {[symbols |-> t, value |-> x, damaged |-> FALSE] :
     t \in {FastWriter_write(x), FastWrite(x)} \union (IF IsStyled(x) THEN {StyledWriter_write(x)} ELSE {})}

\* Code points at the limits of the four lengths, as the standard encodes them.
Encodings ==
  {[codes |-> <<<<"0", "0", "7", "f">>>>, bytes |-> <<"delete">>],
   [codes |-> <<<<"0", "0", "8", "0">>>>, bytes |-> <<"194", "128">>],
   [codes |-> <<<<"0", "7", "F", "F">>>>, bytes |-> <<"223", "191">>],
   [codes |-> <<<<"0", "8", "0", "0">>>>, bytes |-> <<"224", "160", "128">>],
   [codes |-> <<<<"d", "7", "f", "f">>>>, bytes |-> <<"237", "159", "191">>],
   [codes |-> <<<<"E", "0", "0", "0">>>>, bytes |-> <<"238", "128", "128">>],
   [codes |-> <<<<"f", "F", "f", "F">>>>, bytes |-> <<"239", "191", "191">>],
   [codes |-> <<<<"D", "8", "0", "0">>, <<"D", "C", "0", "0">>>>, bytes |-> <<"240", "144", "128", "128">>],
   [codes |-> <<<<"d", "b", "F", "F">>, <<"d", "F", "f", "f">>>>, bytes |-> <<"244", "143", "191", "191">>]}

EscapeText(codes) == FlattenSeq([k \in DOMAIN codes |-> <<"\\", "u">> \o codes[k]])
Quoted(text) == <<"[", "\"">> \o text \o <<"\"", "]">>

Escapings ==
  {[symbols |-> Quoted(<<"x">> \o EscapeText(e.codes) \o <<"y">>),
    value |-> Array(<<StringValue(<<"x">> \o e.bytes \o <<"y">>)>>), damaged |-> FALSE] : e \in Encodings}

\* Escapes that are cut short, and the first half of a pair without a second.
BadEscapes ==
  {[NoText EXCEPT !.symbols = Quoted(text)] :
     text \in {SubSeq(EscapeText(<<<<"0", "7", "F", "F">>>>), 1, n) : n \in 2 .. 5}
            \union {SubSeq(EscapeText(<<<<"D", "8", "0", "0">>, <<"D", "C", "0", "0">>>>), 1, n) : n \in 6 .. 11}
            \union {EscapeText(<<<<"D", "8", "0", "0">>>>) \o <<"x", "y", "x", "y", "x", "y">>, <<"\\", "u", "0", "0", "x", "1">>, <<"\\", "x">>}}

\* Errors behind the ends of lines.
OnLines ==
  {[NoText EXCEPT !.symbols = <<"[">> \o ends \o <<" ", "x">>] :
     ends \in UNION {[1 .. n -> {"return", "newline", "tab"}] : n \in 1 .. 3}}

Damaged(t) ==
  {[symbols |-> s, value |-> nullRef, damaged |-> TRUE] :
     s \in {RemoveAt(t, k) : k \in DOMAIN t} \union
          {[t EXCEPT ![k] = s] : k \in DOMAIN t,
             s \in {"{", "}", "[", "]", ",", ":", "\"", "\\", "-", "1", "/**/", "true", " "}}}

ShortLines == {<<>>, <<"[", "]">>, <<"x", "]">>, <<"true", "]">>}
MCLines ==
  {[NoText EXCEPT !.symbols = s] : s \in ShortLines}
  \union Whole(TwoNodes) \union Damaged(FastWrite(TwoNodes))
MCTexts ==
  UNION {Whole(x) : x \in WrittenValues} \union Damaged(FastWrite(Mixed)) \union Escapings \union BadEscapes \union OnLines
MCLeftovers == {<<>>, <<",", "\"", "type", "\"", ":", "\"", "x", "\"", "}", "]">>}
=============================================================================
