----------------------------- MODULE JsonValue -----------------------------
(***************************************************************************)
(* Json::Value (json/jsoncpp.cpp). An array is a map from indices to       *)
(* values in which an index may be missing: its size is the last index plus*)
(* one, and what is missing reads as null. An object is a map from names.  *)
(*                                                                         *)
(* A string is a sequence of symbols: characters, and words whose letters  *)
(* make no difference. A real is held as its double, `twice', so that there*)
(* is one that is not integral; the numbers of the models are small enough *)
(* to be exact. Comments and offsets of values are left out.               *)
(***************************************************************************)
EXTENDS Integers, SequencesExt

CONSTANTS
  IntBits, LargestBits,   \* the widths of Int and LargestInt
  Symbols                 \* every symbol, in the order of memcmp

ASSUME WidthsAssumption ==
  /\ IntBits \in Nat \ {0} /\ LargestBits \in Nat \ {0} /\ IntBits <= LargestBits

minInt == - 2 ^ (IntBits - 1)
maxInt == 2 ^ (IntBits - 1) - 1
maxUInt == 2 ^ IntBits - 1
minLargestInt == - 2 ^ (LargestBits - 1)
maxLargestInt == 2 ^ (LargestBits - 1) - 1
maxLargestUInt == 2 ^ LargestBits - 1

-----------------------------------------------------------------------------
nullRef == [type |-> "nullValue"]
IntValue(n) == [type |-> "intValue", number |-> n]
UIntValue(n) == [type |-> "uintValue", number |-> n]
RealValue(twice) == [type |-> "realValue", twice |-> twice]
StringValue(s) == [type |-> "stringValue", string |-> s]
BooleanValue(b) == [type |-> "booleanValue", bool |-> b]
ArrayValue(map) == [type |-> "arrayValue", elements |-> map]
ObjectValue(map) == [type |-> "objectValue", members |-> map]

Nothing == [k \in {} |-> nullRef]
Map(v) ==
  CASE v.type = "arrayValue" -> v.elements
    [] v.type = "objectValue" -> v.members
    [] OTHER -> Nothing

isNull(v) == v.type = "nullValue"
isBool(v) == v.type = "booleanValue"
isString(v) == v.type = "stringValue"
isArray(v) == v.type = "arrayValue"
isObject(v) == v.type = "objectValue"

IsStoredAsNumber(v) == v.type \in {"intValue", "uintValue", "realValue"}
Twice(v) == IF v.type = "realValue" THEN v.twice ELSE 2 * v.number
IsIntegral(twice) == twice % 2 = 0

\* Is the number of v an integer of a type with these limits?
IsIn(v, min, max) ==
  /\ IsStoredAsNumber(v)
  /\ IsIntegral(Twice(v)) /\ 2 * min <= Twice(v) /\ Twice(v) <= 2 * max

isInt(v) == IsIn(v, minInt, maxInt)
isUInt(v) == IsIn(v, 0, maxUInt)
isInt64(v) == IsIn(v, minLargestInt, maxLargestInt)
isUInt64(v) == IsIn(v, 0, maxLargestUInt)
isIntegral(v) == isInt64(v) \/ isUInt64(v)
isDouble(v) == v.type = "realValue" \/ isIntegral(v)
isNumeric(v) == isIntegral(v) \/ isDouble(v)

InRange(twice, min, max) == 2 * min <= twice /\ twice <= 2 * max

\* The limits of the widest types as doubles, which have fewer bits and round
\* them up.
maxLargestIntAsDouble == maxLargestInt + 1
maxUInt64AsDouble == maxLargestUInt + 1

-----------------------------------------------------------------------------
(* The as functions, each with the values it does not throw for.           *)

Truncated(twice) == IF twice >= 0 THEN twice \div 2 ELSE - ((- twice) \div 2)

HasInt(v) ==
  \/ v.type \in {"intValue", "uintValue"} /\ isInt(v)
  \/ v.type = "realValue" /\ InRange(v.twice, minInt, maxInt)
  \/ isNull(v) \/ isBool(v)
HasUInt(v) ==
  \/ v.type \in {"intValue", "uintValue"} /\ isUInt(v)
  \/ v.type = "realValue" /\ InRange(v.twice, 0, maxUInt)
  \/ isNull(v) \/ isBool(v)
HasInt64(v) ==
  \/ v.type \in {"intValue", "uintValue"} /\ isInt64(v)
  \/ v.type = "realValue" /\ InRange(v.twice, minLargestInt, maxLargestIntAsDouble)
  \/ isNull(v) \/ isBool(v)
HasUInt64(v) ==
  \/ v.type \in {"intValue", "uintValue"} /\ isUInt64(v)
  \/ v.type = "realValue" /\ InRange(v.twice, 0, maxUInt64AsDouble)
  \/ isNull(v) \/ isBool(v)
HasDouble(v) == IsStoredAsNumber(v) \/ isNull(v) \/ isBool(v)
HasString(v) == isNull(v) \/ isString(v) \/ isBool(v) \/ IsStoredAsNumber(v)

asInt(v) ==
  CASE v.type \in {"intValue", "uintValue"} -> v.number
    [] v.type = "realValue" -> Truncated(v.twice)
    [] isNull(v) -> 0
    [] isBool(v) -> IF v.bool THEN 1 ELSE 0
asUInt(v) == asInt(v)
asInt64(v) == asInt(v)
asUInt64(v) == asInt(v)
asDouble(v) == IF IsStoredAsNumber(v) THEN Twice(v) ELSE 2 * asInt(v)
asBool(v) == asDouble(v) # 0

isConvertibleTo(v, type) ==
  CASE type = "nullValue" ->
         \/ isNumeric(v) /\ asDouble(v) = 0
         \/ isBool(v) /\ ~v.bool
         \/ isString(v) /\ v.string = <<>>
         \/ (isArray(v) \/ isObject(v)) /\ Map(v) = Nothing
         \/ isNull(v)
    [] type = "intValue" ->
         \/ isInt(v) \/ isBool(v) \/ isNull(v)
         \/ v.type = "realValue" /\ InRange(v.twice, minInt, maxInt)
    [] type = "uintValue" ->
         \/ isUInt(v) \/ isBool(v) \/ isNull(v)
         \/ v.type = "realValue" /\ InRange(v.twice, 0, maxUInt)
    [] type \in {"realValue", "booleanValue"} -> isNumeric(v) \/ isBool(v) \/ isNull(v)
    [] type = "stringValue" -> isNumeric(v) \/ isBool(v) \/ isString(v) \/ isNull(v)
    [] type = "arrayValue" -> isArray(v) \/ isNull(v)
    [] type = "objectValue" -> isObject(v) \/ isNull(v)

-----------------------------------------------------------------------------
(* Arrays and objects; null turns into either when it is written to.       *)

size(v) ==
  CASE isArray(v) -> IF Map(v) = Nothing THEN 0 ELSE Max(DOMAIN Map(v)) + 1
    [] isObject(v) -> Cardinality(DOMAIN Map(v))
    [] OTHER -> 0

\* operator[] const, which finds null where there is nothing.
At(v, key) == IF key \in DOMAIN Map(v) THEN Map(v)[key] ELSE nullRef
isMember(v, name) == name \in DOMAIN Map(v)
get(v, key, default) == IF key \in DOMAIN Map(v) THEN Map(v)[key] ELSE default
empty(v) == (isNull(v) \/ isArray(v) \/ isObject(v)) /\ size(v) = 0

With(map, key, x) == [k \in DOMAIN map \union {key} |-> IF k = key THEN x ELSE map[k]]
Without(map, keys) == [k \in DOMAIN map \ keys |-> map[k]]

\* operator[]: what it refers to is created when it is not there.
Element(v, i) == ArrayValue(With(Map(v), i, At(v, i)))
SetElement(v, i, x) == ArrayValue(With(Map(v), i, x))
SetMember(v, name, x) == ObjectValue(With(Map(v), name, x))
resolveReference(v, name) == SetMember(v, name, At(v, name))
append(v, x) == SetElement(v, size(v), x)

\* An assertion of resize fails when there is a hole where the last element
\* comes to be.
CanResize(v, newSize) ==
  newSize = 0 \/ newSize >= size(v) \/ newSize - 1 \in DOMAIN Map(v)

resize(v, newSize) ==
  CASE newSize = 0 -> ArrayValue(Nothing)
    [] newSize > size(v) -> Element(v, newSize - 1)
    [] OTHER -> ArrayValue(Without(Map(v), newSize .. size(v) - 1))

\* What remains on the left, and the elements from the right, moved one by
\* one; what is missing among these is created as null.
Shifted(v, i, last) ==
  [k \in {j \in DOMAIN Map(v) : j < i} \union (i .. last) |->
     IF k < i THEN Map(v)[k] ELSE At(v, k + 1)]

\* A bug: the place of the last element stays.
removeIndex_KeepLast(v, i) ==
  IF i \notin DOMAIN Map(v) THEN v ELSE ArrayValue(Shifted(v, i, size(v) - 1))

removeIndex(v, i) ==
  IF i \notin DOMAIN Map(v) THEN v ELSE ArrayValue(Shifted(v, i, size(v) - 2))

removeMember(v, name) == IF isMember(v, name) THEN ObjectValue(Without(Map(v), {name})) ELSE v
clear(v) == CASE isArray(v) -> ArrayValue(Nothing) [] isObject(v) -> ObjectValue(Nothing) [] OTHER -> v

Code(symbol) == CHOOSE k \in DOMAIN Symbols : Symbols[k] = symbol

\* memcmp of the common length, then the shorter one.
NameLess(a, b) ==
  \E n \in 0 .. Len(a) :
    /\ \A k \in 1 .. n : k <= Len(b) /\ a[k] = b[k]
    /\ IF n = Len(a) THEN n < Len(b)
       ELSE n < Len(b) /\ Code(a[n + 1]) < Code(b[n + 1])

-----------------------------------------------------------------------------
(* The order of values: by type, then by how many elements there are, then  *)
(* as the maps are ordered, by their first pairs that differ.              *)

Types == <<"nullValue", "intValue", "uintValue", "realValue", "stringValue", "booleanValue",
           "arrayValue", "objectValue">>
TypeCode(v) == CHOOSE k \in DOMAIN Types : Types[k] = v.type

KeyLess(v, k, j) == IF isArray(v) THEN k < j ELSE NameLess(k, j)

\* The keys of a map in its order.
Keys(v) ==
  LET Rank(key) == Cardinality({k \in DOMAIN Map(v) : KeyLess(v, k, key)}) + 1
  IN [n \in 1 .. Cardinality(DOMAIN Map(v)) |-> CHOOSE key \in DOMAIN Map(v) : Rank(key) = n]

\* operator<.
RECURSIVE ValueLess(_, _)
ValueLess(v, w) ==
  LET a == Keys(v)
      b == Keys(w)
      Precedes(n) ==
        \/ KeyLess(v, a[n], b[n])
        \/ ~KeyLess(v, b[n], a[n]) /\ ValueLess(Map(v)[a[n]], Map(w)[b[n]])
      Follows(n) ==
        \/ KeyLess(v, b[n], a[n])
        \/ ~KeyLess(v, a[n], b[n]) /\ ValueLess(Map(w)[b[n]], Map(v)[a[n]])
  IN CASE v.type # w.type -> TypeCode(v) < TypeCode(w)
       [] v.type = w.type /\ isNull(v) -> FALSE
       [] v.type = w.type /\ isBool(v) -> ~v.bool /\ w.bool
       [] v.type = w.type /\ isString(v) -> NameLess(v.string, w.string)
       [] v.type = w.type /\ IsStoredAsNumber(v) -> Twice(v) < Twice(w)
       [] OTHER ->
            \/ Len(a) < Len(b)
            \/ /\ Len(a) = Len(b)
               /\ \E n \in DOMAIN a : Precedes(n) /\ \A k \in 1 .. n - 1 : ~Follows(k)

\* operator==.
RECURSIVE ValuesEqual(_, _)
ValuesEqual(v, w) ==
  /\ v.type = w.type
  /\ CASE isNull(v) -> TRUE
       [] isBool(v) -> v.bool = w.bool
       [] isString(v) -> v.string = w.string
       [] IsStoredAsNumber(v) -> Twice(v) = Twice(w)
       [] OTHER ->
            /\ DOMAIN Map(v) = DOMAIN Map(w)
            /\ \A k \in DOMAIN Map(v) : ValuesEqual(Map(v)[k], Map(w)[k])

compare(v, w) == IF ValueLess(v, w) THEN -1 ELSE IF ValueLess(w, v) THEN 1 ELSE 0

getMemberNames(v) ==
  LET names == DOMAIN Map(v)
      Rank(name) == Cardinality({other \in names : NameLess(other, name)}) + 1
  IN [k \in 1 .. Cardinality(names) |-> CHOOSE name \in names : Rank(name) = k]

-----------------------------------------------------------------------------
\* What the elements of an array or null are to its users.
Elements(v) == [i \in 1 .. size(v) |-> At(v, i - 1)]
=============================================================================
