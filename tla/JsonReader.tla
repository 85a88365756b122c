----------------------------- MODULE JsonReader -----------------------------
(***************************************************************************)
(* Json::Reader (json/jsoncpp.cpp): how parse makes a value of a document, *)
(* with the features of the default reader and collectComments = false.    *)
(* readValue, readObject and readArray call each other; `nodes_' holds the *)
(* containers that are being read, from the outermost to the innermost,    *)
(* and takes the place of their recursion. A step reads a token and does   *)
(* what comes before the next one.                                         *)
(*                                                                         *)
(* A document is a sequence of symbols: characters, the words true, false, *)
(* null and names, and a whole comment. Characters that are not written    *)
(* have names, and bytes that are not ASCII are their numbers.             *)
(***************************************************************************)
EXTENDS JsonValue, TLC

CONSTANT stackLimit_g

VARIABLES
  document_,      \* fixed
  current_,       \* how many symbols have been consumed
  nodes_,         \* containers: [value, name (of the member that is read last)]
  currentValue,   \* what the last call of readValue has read
  stackDepth_g,
  errors_,        \* the places of the tokens that the errors are about
  pc              \* before a call of readValue, at a place in a loop, or the end

readerVars == <<document_, current_, nodes_, currentValue, stackDepth_g, errors_, pc>>

Digits == <<"0", "1", "2", "3", "4", "5", "6", "7", "8", "9">>
DigitOf(symbol) == (CHOOSE d \in DOMAIN Digits : Digits[d] = symbol) - 1
IsDigit(symbol) == symbol \in {Digits[d] : d \in DOMAIN Digits}
Blank == {" ", "tab", "return", "newline"}
Comment == "/**/"
NUL == "NUL"

End == Len(document_)
\* The symbol after p consumed ones; at the end, the 0 that ends a C string.
Symbol(p) == IF p < End THEN document_[p + 1] ELSE NUL
getNextChar(p) == IF p < End THEN p + 1 ELSE p

\* The place after the longest run of symbols in S from p on.
SkipAll(S, p) ==
  CHOOSE q \in p .. End :
    /\ \A k \in p .. q - 1 : Symbol(k) \in S
    /\ q < End => Symbol(q) \notin S

-----------------------------------------------------------------------------
(* Tokens. A token is its type and the places where it starts and ends.    *)

\* Is the symbol after q, in a string that starts at p, part of an escape?
IsEscaped(p, q) ==
  LET run == {r \in p .. q : \A k \in r .. q - 1 : Symbol(k) = "\\"}
  IN (q - Min(run)) % 2 = 1

Closes(p, q) == Symbol(q) = "\"" /\ ~IsEscaped(p, q)

\* readString, from behind the opening quote: the place of the closing one.
ClosingQuotes(p) == {q \in p .. End - 1 : Closes(p, q)}

readNumber(p) ==
  LET integral == SkipAll({Digits[d] : d \in DOMAIN Digits}, p)
  IN IF Symbol(integral) = "." THEN SkipAll({Digits[d] : d \in DOMAIN Digits}, integral + 1)
     ELSE integral

Token(type, start, end) == [type |-> type, start |-> start, end |-> end]

readToken(p) ==
  LET start == SkipAll(Blank, p)
      c     == Symbol(start)
      next  == getNextChar(start)
  IN CASE c \in {"{", "}", "[", "]", ",", ":", "true", "false", "null", Comment} ->
            Token(c, start, next)
       [] c = "\"" ->
            IF ClosingQuotes(next) = {} THEN Token("error", start, End)
            ELSE Token("string", start, Min(ClosingQuotes(next)) + 1)
       [] IsDigit(c) \/ c = "-" -> Token("number", start, readNumber(next))
       [] c = NUL -> Token("endOfStream", start, next)
       [] OTHER -> Token("error", start, next)

\* readToken until it is no comment (skipCommentTokens and the loops).
TokenAfterComments(p) == readToken(SkipAll(Blank \union {Comment}, p))

\* What is between two places.
Text(from, to) == SubSeq(document_, from + 1, to)

-----------------------------------------------------------------------------
(* Values of tokens.                                                       *)

\* What a letter behind a backslash stands for.
Escapes ==
  ("\"" :> "\"") @@ ("\\" :> "\\") @@ ("/" :> "/") @@ ("b" :> "backspace") @@ ("f" :> "formfeed")
    @@ ("n" :> "newline") @@ ("r" :> "return") @@ ("t" :> "tab")

\* The characters of the models that are not written as themselves, or whose
\* codes matter.
Codes ==
  ("NUL" :> 0) @@ ("backspace" :> 8) @@ ("tab" :> 9) @@ ("newline" :> 10) @@ ("formfeed" :> 12)
    @@ ("return" :> 13) @@ ("unit" :> 31) @@ ("\"" :> 34) @@ ("x" :> 120) @@ ("delete" :> 127)

Byte(n) == IF n \in Range(Codes) THEN CHOOSE c \in DOMAIN Codes : Codes[c] = n ELSE ToString(n)

HexDigits ==
  <<"0", "1", "2", "3", "4", "5", "6", "7", "8", "9", "a", "b", "c", "d", "e", "f",
    "A", "B", "C", "D", "E", "F">>
HexDigitOf(symbol) ==
  LET h == CHOOSE k \in DOMAIN HexDigits : HexDigits[k] = symbol IN IF h > 16 THEN h - 7 ELSE h - 1

\* decodeUnicodeEscapeSequence: four digits from p on, or nothing.
UnicodeAt(p, end) ==
  IF end - p < 4 \/ \E k \in p .. p + 3 : Symbol(k) \notin Range(HexDigits) THEN {}
  ELSE {FoldLeft(LAMBDA n, k : 16 * n + HexDigitOf(Symbol(p + k - 1)), 0, <<1, 2, 3, 4>>)}

IsSurrogate(unicode) == unicode \in 55296 .. 56319

\* decodeUnicodeCodePoint: the code point and where it ends, or nothing. What
\* follows a high surrogate need not be a low one.
CodePointAt(p, end) ==
  {[unicode |-> u, current |-> p + 4] : u \in {w \in UnicodeAt(p, end) : ~IsSurrogate(w)}}
  \union
  {[unicode |-> 65536 + (u % 1024) * 1024 + (w % 1024), current |-> p + 10] :
     u \in {h \in UnicodeAt(p, end) : IsSurrogate(h)},
     w \in IF end - p >= 10 /\ Symbol(p + 4) = "\\" /\ Symbol(p + 5) = "u"
           THEN UnicodeAt(p + 6, end) ELSE {}}

\* The bytes of a code point: six bits each but for the first, from the last.
codePointToUTF8(cp) ==
  LET rest(n) == Byte(128 + ((cp \div n) % 64))
  IN CASE cp <= 127 -> <<Byte(cp)>>
       [] cp \in 128 .. 2047 -> <<Byte(192 + ((cp \div 64) % 32)), rest(1)>>
       [] cp \in 2048 .. 65535 -> <<Byte(224 + ((cp \div 4096) % 16)), rest(64), rest(1)>>
       [] OTHER -> <<Byte(240 + ((cp \div 262144) % 8)), rest(4096), rest(64), rest(1)>>

\* The strings that are read from p on: one, or none after a bad escape.
RECURSIVE StringsFrom(_, _)
StringsFrom(p, end) ==
  LET After(text, rest) == {text \o s : s \in rest}
      escape == Symbol(p + 1)
  IN IF p >= end THEN {<<>>}
     ELSE IF Symbol(p) # "\\" THEN After(<<Symbol(p)>>, StringsFrom(p + 1, end))
     ELSE IF escape = "u"
     THEN UNION {After(codePointToUTF8(c.unicode), StringsFrom(c.current, end)) : c \in CodePointAt(p + 2, end)}
     ELSE IF escape \in DOMAIN Escapes THEN After(<<Escapes[escape]>>, StringsFrom(p + 2, end))
     ELSE {}

StringsOf(token) == StringsFrom(token.start + 1, token.end - 1)
decodeString(token) == CHOOSE s \in StringsOf(token) : TRUE
HasBadEscape(token) == StringsOf(token) = {}

\* A bug: the last digit is not looked at when the limit is near.
FitsWithDigit_AnyLast(value, digit, isLast, max) ==
  value < max \div 10 \/ (value = max \div 10 /\ isLast)

\* Does the value with one more digit stay in the type, as the loop of
\* decodeNumber finds without computing it?
FitsWithDigit(value, digit, isLast, max) ==
  value < max \div 10 \/ (value = max \div 10 /\ isLast /\ digit <= max % 10)

\* The loop over the digits; -1 when the number has to become a double.
Decoded(digits, max) ==
  FoldLeftDomain(
    LAMBDA value, k :
      IF value # -1 /\ FitsWithDigit(value, DigitOf(digits[k]), k = Len(digits), max)
      THEN (10 * value + DigitOf(digits[k])) % (maxLargestUInt + 1) ELSE -1,
    0, digits)

AllDigits(digits) == FoldLeft(LAMBDA value, d : 10 * value + DigitOf(d), 0, digits)

\* A point without a digit is no double.
IsNumber(token) ==
  LET text == Text(token.start, token.end)
  IN (\E k \in DOMAIN text : text[k] = ".") => (\E k \in DOMAIN text : IsDigit(text[k]))

\* The double of a number; its fraction is empty, 0 or 5.
decodeDouble(negative, integral, fraction) ==
  LET twice == 2 * AllDigits(integral) + (IF fraction = <<"5">> THEN 1 ELSE 0)
  IN RealValue(IF negative THEN - twice ELSE twice)

decodeNumber(token) ==
  LET isNegative == Symbol(token.start) = "-"
      text == Text(IF isNegative THEN token.start + 1 ELSE token.start, token.end)
      points == {k \in DOMAIN text : text[k] = "."}
      max == IF isNegative THEN maxLargestInt + 1 ELSE maxLargestUInt
      value == Decoded(text, max)
  IN IF points # {}
     THEN decodeDouble(isNegative, SubSeq(text, 1, Min(points) - 1),
                       SubSeq(text, Min(points) + 1, Len(text)))
     ELSE IF value = -1 THEN decodeDouble(isNegative, text, <<>>)
     ELSE IF isNegative THEN IntValue(- value)
     ELSE IF value <= maxInt THEN IntValue(value)
     ELSE UIntValue(value)

-----------------------------------------------------------------------------
\* parse of a document, and the reader before it or without one.
StartsAt(document, place, v) ==
  /\ document_ = document
  /\ current_ = 0
  /\ nodes_ = <<>>
  /\ currentValue = v
  /\ stackDepth_g = 0
  /\ errors_ = <<>>
  /\ pc = place

Innermost == nodes_[Len(nodes_)]
Reading(type) == nodes_ # <<>> /\ Innermost.value.type = type

Returns(v, depth) ==
  /\ currentValue' = v
  /\ stackDepth_g' = depth
  /\ pc' = "returned"
  /\ UNCHANGED errors_

\* Of a place: both signs of an end of line together are one.
getLocationLineAndColumn(location) ==
  LET RECURSIVE Scan(_, _, _)
      Scan(current, lastLineStart, line) ==
        IF current >= location \/ current = Len(document_)
        THEN [line |-> line + 1, column |-> location - lastLineStart + 1]
        ELSE LET isBoth == current + 2 <= Len(document_) /\ Text(current, current + 2) = <<"return", "newline">>
                 next == IF isBoth THEN current + 2 ELSE current + 1
             IN IF document_[current + 1] \in {"return", "newline"}
                THEN Scan(next, next, line + 1) ELSE Scan(next, lastLineStart, line)
  IN Scan(0, 0, 0)

addError(token) == errors_' = Append(errors_, token.start)

\* readValue returns false; its caller, if it is a container, recovers. What
\* does not start a value leaves stackDepth_g incremented.
Fails(token, depth) ==
  /\ stackDepth_g' = depth
  /\ addError(token)
  /\ pc' = IF nodes_ = <<>> THEN "failed" ELSE "recover"
  /\ UNCHANGED <<nodes_, currentValue>>

Enter(container) ==
  /\ nodes_' = Append(nodes_, [value |-> container, name |-> <<>>])
  /\ stackDepth_g' = stackDepth_g + 1
  /\ UNCHANGED <<currentValue, errors_>>

readValue ==
  /\ pc = "readValue" /\ stackDepth_g < stackLimit_g
  /\ UNCHANGED document_
  /\ LET token == TokenAfterComments(current_)
         closing == SkipAll(Blank, token.end)
     IN CASE token.type = "{" ->
               current_' = token.end /\ Enter(ObjectValue(Nothing)) /\ pc' = "readName"
          [] token.type = "[" /\ Symbol(closing) = "]" ->
               /\ current_' = closing + 1
               /\ Returns(ArrayValue(Nothing), stackDepth_g) /\ UNCHANGED nodes_
          [] token.type = "[" /\ Symbol(closing) # "]" ->
               /\ current_' = closing
               /\ Enter(ArrayValue(Nothing)) /\ pc' = "readValue"
          [] token.type = "number" /\ IsNumber(token) ->
               /\ current_' = token.end
               /\ Returns(decodeNumber(token), stackDepth_g) /\ UNCHANGED nodes_
          [] token.type = "string" /\ ~HasBadEscape(token) ->
               /\ current_' = token.end
               /\ Returns(StringValue(decodeString(token)), stackDepth_g) /\ UNCHANGED nodes_
          [] \/ token.type = "number" /\ ~IsNumber(token)
             \/ token.type = "string" /\ HasBadEscape(token) ->
               current_' = token.end /\ Fails(token, stackDepth_g)
          [] token.type \in {"true", "false"} ->
               /\ current_' = token.end
               /\ Returns(BooleanValue(token.type = "true"), stackDepth_g) /\ UNCHANGED nodes_
          [] token.type = "null" ->
               /\ current_' = token.end
               /\ Returns(nullRef, stackDepth_g) /\ UNCHANGED nodes_
          [] OTHER -> current_' = token.end /\ Fails(token, stackDepth_g + 1)

\* throwRuntimeError("Exceeded stackLimit in readValue().")
ExceedsLimit ==
  /\ pc = "readValue" /\ stackDepth_g >= stackLimit_g
  /\ pc' = "threw"
  /\ UNCHANGED <<document_, current_, nodes_, currentValue, stackDepth_g, errors_>>

\* The innermost container is complete.
Leave(container) ==
  /\ nodes_' = Front(nodes_)
  /\ Returns(container, stackDepth_g - 1)

\* addErrorAndRecover
ErrorAt(token) ==
  /\ current_' = token.end
  /\ addError(token)
  /\ pc' = "recover"
  /\ UNCHANGED <<nodes_, currentValue, stackDepth_g>>

\* The loop of readObject up to the value of a member. A '}' ends it when the
\* name before is empty, which it is at the start.
readName ==
  /\ pc = "readName"
  /\ UNCHANGED document_
  /\ LET token == TokenAfterComments(current_)
         colon == readToken(token.end)
     IN CASE token.type = "}" /\ Innermost.name = <<>> ->
               current_' = token.end /\ Leave(Innermost.value)
          [] token.type = "string" /\ ~HasBadEscape(token) /\ colon.type = ":" ->
               /\ current_' = colon.end
               /\ nodes_' = [nodes_ EXCEPT ![Len(nodes_)].name = decodeString(token)]
               /\ pc' = "readValue"
               /\ UNCHANGED <<currentValue, stackDepth_g, errors_>>
          [] token.type = "string" /\ ~HasBadEscape(token) /\ colon.type # ":" ->
               ErrorAt(colon)
          [] OTHER -> ErrorAt(token)

\* A bug: any token may come between two members.
afterMember_AnyToken ==
  /\ pc = "returned" /\ Reading("objectValue")
  /\ UNCHANGED document_
  /\ LET object == SetMember(Innermost.value, Innermost.name, currentValue)
         token == readToken(current_)
         last  == TokenAfterComments(current_)
     IN IF last.type = "}" THEN current_' = last.end /\ Leave(object)
        ELSE /\ current_' = last.end
             /\ nodes_' = [nodes_ EXCEPT ![Len(nodes_)].value = object]
             /\ pc' = "readName"
             /\ UNCHANGED <<currentValue, stackDepth_g, errors_>>

\* The rest of the loop. After a comment any token is taken for a comma.
afterMember ==
  /\ pc = "returned" /\ Reading("objectValue")
  /\ UNCHANGED document_
  /\ LET object == SetMember(Innermost.value, Innermost.name, currentValue)
         token == readToken(current_)
         last  == TokenAfterComments(current_)
     IN CASE token.type \notin {"}", ",", Comment} -> ErrorAt(token)
          [] token.type \in {"}", ",", Comment} /\ last.type = "}" ->
               current_' = last.end /\ Leave(object)
          [] OTHER ->
               /\ current_' = last.end
               /\ nodes_' = [nodes_ EXCEPT ![Len(nodes_)].value = object]
               /\ pc' = "readName"
               /\ UNCHANGED <<currentValue, stackDepth_g, errors_>>

\* The loop of readArray, after an element.
afterElement ==
  /\ pc = "returned" /\ Reading("arrayValue")
  /\ UNCHANGED document_
  /\ LET array == append(Innermost.value, currentValue)
         token == TokenAfterComments(current_)
     IN CASE token.type = "]" -> current_' = token.end /\ Leave(array)
          [] token.type = "," ->
               /\ current_' = token.end
               /\ nodes_' = [nodes_ EXCEPT ![Len(nodes_)].value = array]
               /\ pc' = "readValue"
               /\ UNCHANGED <<currentValue, stackDepth_g, errors_>>
          [] OTHER -> ErrorAt(token)

SkipUntil == IF isObject(Innermost.value) THEN "}" ELSE "]"

\* One token of the loop; after it readValue returns false to its caller.
recoverFromError ==
  /\ pc = "recover"
  /\ LET token == readToken(current_)
         done  == token.type \in {SkipUntil, "endOfStream"}
     IN /\ current_' = token.end
        /\ nodes_' = IF done THEN Front(nodes_) ELSE nodes_
        /\ stackDepth_g' = IF done THEN stackDepth_g - 1 ELSE stackDepth_g
        /\ pc' = IF done /\ Len(nodes_) = 1 THEN "failed" ELSE "recover"
  /\ UNCHANGED <<document_, currentValue, errors_>>

\* parse returns true, whatever comes after the value.
parseReturns ==
  /\ pc = "returned" /\ nodes_ = <<>>
  /\ pc' = "parsed"
  /\ UNCHANGED <<document_, current_, nodes_, currentValue, stackDepth_g, errors_>>

ReadStep ==
  \/ readValue \/ ExceedsLimit \/ readName \/ afterMember \/ afterElement
  \/ recoverFromError \/ parseReturns
=============================================================================
