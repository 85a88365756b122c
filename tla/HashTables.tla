----------------------------- MODULE HashTables -----------------------------
(***************************************************************************)
(* The two hash tables of the program, each of which has to be a map: the  *)
(* table of the counters (DenseHashtable), and the names of the labels     *)
(* (StringSet), where the map is from strings to their numbers.            *)
(***************************************************************************)
EXTENDS DenseHashtable, SequencesExt

CONSTANTS Strings, Length, StringHashes

ASSUME StringAssumption ==
  /\ \A s \in Strings : Length[s] \in Nat
  /\ \A h \in StringHashes : \A s \in Strings : h[s] \in Nat

VARIABLES
  kind,          \* which of the two a behavior is about
  stringHash, m_data, m_hashes, m_hashTableLoad, file, intact

Names == INSTANCE StringSet

nameVars == <<stringHash, m_data, m_hashes, m_hashTableLoad, file, intact>>
allVars == <<kind, tableVars, nameVars>>

InitTables ==
  /\ InitTable /\ Names!Init
  /\ \/ kind = "counters" /\ stringHash = CHOOSE h \in StringHashes : TRUE
     \/ kind = "names" /\ hash = CHOOSE h \in HashFunctions : TRUE

NextTables ==
  \/ kind = "counters" /\ NextTable /\ UNCHANGED <<kind, nameVars>>
  \/ kind = "names" /\ Names!Next /\ UNCHANGED <<kind, tableVars>>

TablesSpec == InitTables /\ [][NextTables]_allVars

-----------------------------------------------------------------------------
\* The numbers of the strings that findString finds.
NumbersOf(data, hashes) ==
  LET found == {s \in Strings : Names!findString(data, hashes, s) # -1}
  IN [s \in found |-> Names!findString(data, hashes, s)]

\* Of the items of a file that is cut some may be where no search comes by.
Counted == IF complete THEN Contents(ht) ELSE <<>>
CountedInCopy == Contents(kept)

Counters == INSTANCE KeyValueMap WITH map <- Counted, saved <- CountedInCopy

Numbered == IF intact THEN NumbersOf(m_data, m_hashes) ELSE <<>>
NumberedInFile ==
  [s \in Range(file.data) |-> Names!Start(file.data, CHOOSE i \in DOMAIN file.data : file.data[i] = s)]

NumberOf == INSTANCE KeyValueMap WITH
  Keys <- Strings, Values <- Nat, map <- Numbered, saved <- NumberedInFile

(***************************************************************************)
(* Both are maps, whatever is inserted, erased, copied, saved and loaded   *)
(* in which order: no operation loses, doubles or changes an item that is  *)
(* none of its business. Of a file that is cut nothing is promised, until  *)
(* the table is cleared, assigned to or read again.                        *)
(***************************************************************************)
ImplementsMap == Counters!Spec /\ NumberOf!Spec

\* What a map is after a key gets a value if it has none, without some of its
\* keys, and with the items of another one that it has not.
With(map, k, v) == [j \in DOMAIN map \union {k} |-> IF j \in DOMAIN map THEN map[j] ELSE v]
Without(map, keys) == Restrict(map, DOMAIN map \ keys)
Merged(map, other) ==
  [k \in DOMAIN map \union DOMAIN other |-> IF k \in DOMAIN map THEN map[k] ELSE other[k]]

KeysOf(t, range) == {t.buckets[b].key : b \in LiveBuckets(t) \cap range}

\* operator[] and insert leave the value of a key that is there alone; what is
\* erased are the items asked for; resizing and copying change nothing; a file
\* is read back as it was written.
OperationsActOnMap ==
  complete =>
    LET map   == Contents(ht)
        other == Contents(kept)
    IN /\ \A k \in DOMAIN hash :
            /\ Contents(find_or_insert(ht, k)) = With(map, k, 0)
            /\ Contents(insert(ht, [key |-> k, value |-> MaxValue])) = With(map, k, MaxValue)
            /\ Contents(erase(ht, k)) = Without(map, {k})
       /\ \A f, l \in LiveBuckets(ht) \union {bucket_count(ht)} :
            Contents(erase_range(ht, f, l)) = Without(map, KeysOf(ht, f .. l - 1))
       /\ \A n \in {0, HT_MIN_BUCKETS} : Contents(resize(ht, n)) = map
       /\ Contents(squash_deleted(ht)) = map
       /\ Contents(copy_from(ht, HT_DEFAULT_STARTING_BUCKETS)) = map
       /\ Contents(insert_range(ht, kept)) = Merged(map, other)
       /\ kept.num_deleted = 0 =>
            Contents(unserialize(ht, kept, Cardinality(LiveBuckets(kept)))) = other

\* The assertion "Hashtable is full" of find_position holds; findStringL asserts
\* nothing.
SearchesEnd ==
  /\ \A t \in {ht, kept} : \A k \in DOMAIN hash : SearchEnds(t, k)
  /\ intact => \A s \in Strings : Names!SearchEnds(s)

CountersAreInPlace ==
  /\ ItemsAreFound(kept) /\ CountersAreExact(kept)
  /\ complete => /\ ItemsAreFound(ht) /\ CountersAreExact(ht)
                 /\ operator_equal(ht, kept) = (Contents(ht) = Contents(kept))

NamesAreInPlace ==
  intact =>
    /\ m_hashTableLoad = Len(m_data)
    /\ Range(m_hashes) \ {-1} = Names!getAllStrings(m_data)
    /\ \A s \in Range(m_data) :
         LET id == Names!findString(m_data, m_hashes, s)
         IN id # -1 /\ Names!getString(m_data, id) = s

(***************************************************************************)
(* Every search ends at an empty place, also among tombstones, and also in *)
(* a table that was read from a file that is cut; in the others every item *)
(* is where a search for its key ends, and the counters of items and       *)
(* tombstones are right. A string that is found has the number under which *)
(* getString knows it, and the table has the numbers that getAllStrings    *)
(* counts. And each operation would do to the map of the counters what its *)
(* name says, and nothing else, whatever came before.                      *)
(***************************************************************************)
TablesAreMaps == SearchesEnd /\ CountersAreInPlace /\ NamesAreInPlace /\ OperationsActOnMap

(***************************************************************************)
(* A table that operator[] resized is not too full, and full enough not to *)
(* be made smaller again at once ("or we thrash resizing"); insert, which  *)
(* resizes before it looks whether the key is there, promises less.        *)
(***************************************************************************)
ResizingSettles ==
  [][bucket_count(ht') # bucket_count(ht) /\ complete /\ complete' /\ ~IsSettled(ht')
       => \A k \in DOMAIN hash : ~Count(k)]_allVars

(***************************************************************************)
(* The number of a string is good for as long as the set lives: adding     *)
(* other strings, and growing, changes none.                               *)
(***************************************************************************)
NumbersStayValid ==
  [][m_data' # m_data /\ intact /\ intact' /\ IsPrefix(m_data, m_data')
       => \A s \in Range(m_data) :
            Names!findString(m_data', m_hashes', s) = Names!findString(m_data, m_hashes, s)]_allVars
=============================================================================
