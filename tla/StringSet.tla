----------------------------- MODULE StringSet -----------------------------
(***************************************************************************)
(* StringSet (base/stringset.cpp): the strings of types and values, one    *)
(* after the other in m_data, and a hash table of where they are. Where a  *)
(* string starts is the number by which the program knows it.              *)
(***************************************************************************)
EXTENDS Integers, Sequences, FiniteSets, FiniteSetsExt

CONSTANTS
  Strings,
  Length,             \* of a string, without the zero at its end
  StringHashes        \* the functions stringHash may be

VARIABLES stringHash, m_data, m_hashes, m_hashTableLoad, file, intact

vars == <<stringHash, m_data, m_hashes, m_hashTableLoad, file, intact>>

NoFile == [data |-> <<>>, hash_size |-> 0]

\* Where each string ends and the next one starts, in bytes.
Ends(data) ==
  LET end[i \in 0 .. Len(data)] == IF i = 0 THEN 0 ELSE end[i - 1] + Length[data[i]] + 1
  IN end

DataSize(data) == Ends(data)[Len(data)]
Start(data, i) == Ends(data)[i - 1]
getAllStrings(data) == {Start(data, i) : i \in DOMAIN data}

getString(data, index) == data[CHOOSE i \in DOMAIN data : Start(data, i) = index]

-----------------------------------------------------------------------------
\* A table is a function from 0 .. size - 1 to the starts of strings or -1.
NoHashes(n) == [p \in 0 .. n - 1 |-> -1]
HashSize(hashes) == Cardinality(DOMAIN hashes)
Slot(s, n, hashes) == (stringHash[s] + n) % HashSize(hashes)

\* What ends the loops of findStringL and of addHashNoRehash.
IsFree(s, n, hashes) == hashes[Slot(s, n, hashes)] = -1
IsFreeOrFound(s, n, data, hashes) ==
  \/ IsFree(s, n, hashes)
  \/ getString(data, hashes[Slot(s, n, hashes)]) = s

SearchEnds(s) ==
  \/ HashSize(m_hashes) = 0
  \/ \E n \in DOMAIN m_hashes : IsFreeOrFound(s, n, m_data, m_hashes)

\* A bug: the search does not go on at the start of the table.
findString_NoWrap(data, hashes, s) ==
  IF HashSize(hashes) = 0 THEN -1
  ELSE LET ends == {n \in DOMAIN hashes : /\ (stringHash[s] % HashSize(hashes)) + n \in DOMAIN hashes
                                          /\ IsFreeOrFound(s, n, data, hashes)}
       IN IF ends = {} THEN -1 ELSE hashes[Slot(s, Min(ends), hashes)]

findString(data, hashes, s) ==
  IF HashSize(hashes) = 0 THEN -1
  ELSE hashes[Slot(s, Min({n \in DOMAIN hashes : IsFreeOrFound(s, n, data, hashes)}), hashes)]

addHashNoRehash(hashes, s, value) ==
  [hashes EXCEPT ![Slot(s, Min({n \in DOMAIN hashes : IsFree(s, n, hashes)}), hashes)] = value]

\* The strings are put into an empty table, one after the other.
rehashAll(data, size) ==
  LET after[i \in 0 .. Len(data)] ==
        IF i = 0 THEN NoHashes(size)
        ELSE addHashNoRehash(after[i - 1], data[i], Start(data, i))
  IN after[Len(data)]

\* At most half of the slots are used when a string is added; once is enough.
NeedsToGrow(load, hashes) == 2 * load >= HashSize(hashes)

-----------------------------------------------------------------------------
Init ==
  /\ stringHash \in StringHashes
  /\ m_data = <<>> /\ m_hashes = NoHashes(0) /\ m_hashTableLoad = 0
  /\ file = NoFile /\ intact = TRUE

\* The table grows before the string is in m_data, where rehashAll goes by.
addString(s) ==
  /\ intact /\ findString(m_data, m_hashes, s) = -1
  /\ LET size == 2 * HashSize(m_hashes) + 3
         hashes == IF NeedsToGrow(m_hashTableLoad, m_hashes) THEN rehashAll(m_data, size)
                   ELSE m_hashes
     IN m_hashes' = addHashNoRehash(hashes, s, DataSize(m_data))
  /\ m_data' = Append(m_data, s)
  /\ m_hashTableLoad' = m_hashTableLoad + 1
  /\ UNCHANGED <<stringHash, file, intact>>

saveToFile ==
  /\ intact
  /\ file' = [data |-> m_data, hash_size |-> HashSize(m_hashes)]
  /\ UNCHANGED <<stringHash, m_data, m_hashes, m_hashTableLoad, intact>>

loadFromFile ==
  /\ m_data' = file.data
  /\ m_hashes' = rehashAll(file.data, file.hash_size)
  /\ m_hashTableLoad' = Len(file.data)
  /\ intact' = TRUE
  /\ UNCHANGED <<stringHash, file>>

\* The file is cut: false is returned, and the table stays that of the old
\* strings, where no string can be looked for any more.
loadFails ==
  /\ \/ \E i \in 0 .. Len(file.data) : m_data' = SubSeq(file.data, 1, i)
     \/ UNCHANGED m_data
  /\ intact' = FALSE
  /\ UNCHANGED <<stringHash, m_hashes, m_hashTableLoad, file>>

Next ==
  \/ \E s \in Strings : addString(s)
  \/ saveToFile \/ loadFromFile \/ loadFails

Spec == Init /\ [][Next]_vars
=============================================================================
