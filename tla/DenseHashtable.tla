--------------------------- MODULE DenseHashtable ---------------------------
(***************************************************************************)
(* dense_hashtable (base/sparsehash/internal/densehashtable.h), the open   *)
(* addressing hash table in which the counters of the model are kept. An   *)
(* erased item leaves a tombstone; the table is copied to another size, or *)
(* to the same, to get rid of them. ht is the table, kept a copy of it: a  *)
(* table, or what serialize has written of one.                            *)
(***************************************************************************)
EXTENDS Integers, FiniteSetsExt

CONSTANTS
  Keys, MaxValue,            \* values are counts, from 0 to this bound
  EMPTY_KEY, DELETED_KEY,    \* two keys that no item has
  HashFunctions,             \* what std::hash may be, for the keys of a behavior
  HT_MIN_BUCKETS, HT_DEFAULT_STARTING_BUCKETS,
  HT_OCCUPANCY_PCT, HT_EMPTY_PCT,
  MaxSize,                   \* bound: of size_type, where resizing overflows
  MaxBuckets, MaxCopiedKeys  \* bounds: the largest table of the model, and the
                             \* keys of a behavior in which copies are made

VARIABLES
  hash,          \* fixed
  ht, kept,
  complete       \* history: the last file was read to its end

tableVars == <<hash, ht, kept, complete>>

Values == 0 .. MaxValue

\* The sizes of tables. No odd number but 1 divides a power of two.
IsPowerOfTwo(n) == \A d \in 1 .. n : n % d = 0 /\ d % 2 # 0 => d = 1
PowersOfTwo == {sz \in HT_MIN_BUCKETS .. MaxSize : IsPowerOfTwo(sz)}

enlarge_size(n) == (n * HT_OCCUPANCY_PCT) \div 100
shrink_size(n)  == (n * HT_EMPTY_PCT) \div 100

ASSUME TableAssumption ==
  /\ {EMPTY_KEY, DELETED_KEY} \cap Keys = {} /\ EMPTY_KEY # DELETED_KEY
  /\ \A h \in HashFunctions : DOMAIN h \subseteq Keys /\ \A k \in DOMAIN h : h[k] \in Nat
  /\ HT_OCCUPANCY_PCT \in 1 .. 99 /\ HT_EMPTY_PCT \in 0 .. HT_OCCUPANCY_PCT \div 2
  /\ HT_MIN_BUCKETS \in Nat /\ HT_MIN_BUCKETS * HT_OCCUPANCY_PCT >= 200
  /\ {HT_MIN_BUCKETS, HT_DEFAULT_STARTING_BUCKETS} \subseteq PowersOfTwo
  /\ MaxValue \in Nat

\* What the tables of the model are resized to is far from the overflow.
ASSUME SizeAssumption ==
  /\ MaxSize \in Nat /\ MaxBuckets \in Nat /\ HT_DEFAULT_STARTING_BUCKETS <= MaxBuckets
  /\ \E sz \in PowersOfTwo : 2 * sz <= MaxSize /\ enlarge_size(sz) > 2 * MaxBuckets

-----------------------------------------------------------------------------
(***************************************************************************)
(* A table and its sizes.                                                  *)
(***************************************************************************)
bucket_count(t) == Cardinality(DOMAIN t.buckets)
size(t) == t.num_elements - t.num_deleted

min_buckets(num_elts, min_buckets_wanted) ==
  Min({sz \in PowersOfTwo : sz >= min_buckets_wanted /\ num_elts < enlarge_size(sz)})

EmptyBuckets(n) == [b \in 0 .. n - 1 |-> [key |-> EMPTY_KEY, value |-> 0]]

ClearedTo(n) ==
  [buckets |-> EmptyBuckets(n), num_elements |-> 0, num_deleted |-> 0, consider_shrink |-> FALSE]

test_empty(t, b)   == t.buckets[b].key = EMPTY_KEY
test_deleted(t, b) == t.num_deleted > 0 /\ t.buckets[b].key = DELETED_KEY

\* An iterator goes over the other buckets, in order.
LiveBuckets(t) == {b \in DOMAIN t.buckets : ~test_empty(t, b) /\ ~test_deleted(t, b)}
ForEachItem(t, Do(_, _), start) ==
  LET live == LiveBuckets(t)
      after[b \in 0 .. bucket_count(t)] ==
        IF b = 0 THEN start
        ELSE IF b - 1 \in live THEN Do(after[b - 1], t.buckets[b - 1])
        ELSE after[b - 1]
  IN after[bucket_count(t)]

-----------------------------------------------------------------------------
(***************************************************************************)
(* Looking for a key: JUMP_ is the number of probes, so the n-th probe is  *)
(* n (n + 1) / 2 buckets from the first.                                   *)
(***************************************************************************)
Probe(k, n, num_buckets) == (hash[k] + (n * (n + 1)) \div 2) % num_buckets

StopsAt(t, k, n) ==
  LET b == Probe(k, n, bucket_count(t)) IN test_empty(t, b) \/ t.buckets[b].key = k

\* The assertion in the loop: "Hashtable is full".
SearchEnds(t, k) == \E n \in 0 .. bucket_count(t) - 1 : StopsAt(t, k, n)

\* Where the item is, if it is there, and where it would go otherwise: the
\* first tombstone on the way, if there is one.
find_position(t, k) ==
  LET probe(n) == Probe(k, n, bucket_count(t))
      last     == Min({n \in 0 .. bucket_count(t) - 1 : StopsAt(t, k, n)})
      deleted  == {n \in 0 .. last - 1 : test_deleted(t, probe(n))}
  IN [found  |-> t.buckets[probe(last)].key = k,
      bucket |-> IF t.buckets[probe(last)].key = k \/ deleted = {} THEN probe(last)
                 ELSE probe(Min(deleted))]

Found(t, k) == size(t) # 0 /\ find_position(t, k).found
count(t, k) == IF find_position(t, k).found THEN 1 ELSE 0

\* equal_range: from the item to the next one, or nothing.
equal_range(t, k) ==
  LET b == find_position(t, k).bucket
  IN IF Found(t, k) THEN <<b, Min({c \in LiveBuckets(t) : c > b} \union {bucket_count(t)})>>
     ELSE <<bucket_count(t), bucket_count(t)>>

Lookup(t, k) == t.buckets[find_position(t, k).bucket].value

-----------------------------------------------------------------------------
(***************************************************************************)
(* Copying a table, which leaves the tombstones behind, and the sizes that *)
(* it is copied to.                                                        *)
(***************************************************************************)
Place(buckets, item) ==
  LET num_buckets == Cardinality(DOMAIN buckets)
      free(n)     == buckets[Probe(item.key, n, num_buckets)].key = EMPTY_KEY
      b           == Probe(item.key, Min({n \in 0 .. num_buckets - 1 : free(n)}), num_buckets)
  IN [buckets EXCEPT ![b] = item]

\* A bug: tombstones are copied as if they were items, but not counted.
copy_from_Tombstones(t, min_buckets_wanted) ==
  LET n == min_buckets(size(t), min_buckets_wanted)
  IN [ClearedTo(n) EXCEPT
        !.buckets = [b \in 0 .. n - 1 |-> IF b \in DOMAIN t.buckets THEN t.buckets[b] ELSE @[b]],
        !.num_elements = Cardinality({b \in DOMAIN t.buckets : ~test_empty(t, b)})]

copy_from(t, min_buckets_wanted) ==
  [ClearedTo(min_buckets(size(t), min_buckets_wanted)) EXCEPT
     !.buckets = ForEachItem(t, Place, @), !.num_elements = Cardinality(LiveBuckets(t))]

squash_deleted(t) ==
  IF t.num_deleted > 0 THEN copy_from(t, HT_DEFAULT_STARTING_BUCKETS) ELSE t

WouldShrink(t) ==
  /\ size(t) < shrink_size(bucket_count(t))
  /\ bucket_count(t) > HT_DEFAULT_STARTING_BUCKETS

\* The table is halved while fewer than HT_EMPTY_PCT of its buckets are used.
maybe_shrink(t) ==
  LET smaller == {sz \in PowersOfTwo : 2 * sz <= bucket_count(t)}
      enough  == {sz \in smaller : \/ sz <= HT_DEFAULT_STARTING_BUCKETS
                                   \/ 100 * size(t) >= sz * HT_EMPTY_PCT}
  IN IF WouldShrink(t) THEN copy_from(t, Max(enough))
     ELSE [t EXCEPT !.consider_shrink = FALSE]

AfterShrink(t) == IF t.consider_shrink THEN maybe_shrink(t) ELSE t

IsLargeEnough(t, delta) ==
  \/ t.num_elements + delta <= enlarge_size(bucket_count(t))
  \/ min_buckets(t.num_elements + delta, 0) <= bucket_count(t)

\* A bug: a table with many tombstones grows, however few items it has.
resize_to_Roomy(t, delta) ==
  LET fitting == min_buckets(size(t) + delta, bucket_count(t))
      roomy   == min_buckets(t.num_elements - t.num_deleted \div 4 + delta, 0)
  IN IF fitting < roomy THEN 2 * fitting ELSE fitting

\* Tombstones count when it is decided to grow, and not in the new size;
\* unless the table would be full again soon.
resize_to(t, delta) ==
  LET items    == size(t) + delta
      fitting  == min_buckets(items, bucket_count(t))
      roomy    == min_buckets(t.num_elements - t.num_deleted \div 4 + delta, 0)
  IN IF fitting < roomy /\ items >= shrink_size(2 * fitting) THEN 2 * fitting ELSE fitting

Resizes(t, delta) == ~IsLargeEnough(AfterShrink(t), delta)

\* What resize_delta returns: whether buckets found before are still valid.
did_resize(t, delta) == (t.consider_shrink /\ WouldShrink(t)) \/ Resizes(t, delta)

resize_delta(t, delta) ==
  IF Resizes(t, delta) THEN copy_from(AfterShrink(t), resize_to(AfterShrink(t), delta))
  ELSE AfterShrink(t)

resize(t, req_elements) ==
  LET shrunk == IF t.consider_shrink \/ req_elements = 0 THEN maybe_shrink(t) ELSE t
  IN IF req_elements > shrunk.num_elements
     THEN resize_delta(shrunk, req_elements - shrunk.num_elements)
     ELSE shrunk

-----------------------------------------------------------------------------
(***************************************************************************)
(* Inserting, erasing, clearing.                                           *)
(***************************************************************************)
insert_at(t, b, item) ==
  [t EXCEPT !.buckets[b]   = item,
            !.num_deleted  = IF test_deleted(t, b) THEN @ - 1 ELSE @,
            !.num_elements = IF test_deleted(t, b) THEN @ ELSE @ + 1]

insert_noresize(t, item) ==
  LET pos == find_position(t, item.key)
  IN IF pos.found THEN t ELSE insert_at(t, pos.bucket, item)

insert(t, item) == insert_noresize(resize_delta(t, 1), item)

\* A bug: the bucket that was found before the table was copied is used.
find_or_insert_StaleBucket(t, k) ==
  LET pos == find_position(t, k)
  IN IF pos.found THEN t
     ELSE insert_at(resize_delta(t, 1), pos.bucket, [key |-> k, value |-> 0])

\* operator[]: the bucket is looked for again if the table was copied.
find_or_insert(t, k) ==
  LET pos  == find_position(t, k)
      item == [key |-> k, value |-> 0]
  IN IF pos.found THEN t
     ELSE IF did_resize(t, 1) THEN insert_noresize(resize_delta(t, 1), item)
     ELSE insert_at(resize_delta(t, 1), pos.bucket, item)

Tombstone == [key |-> DELETED_KEY, value |-> 0]

set_deleted(t, b) ==
  [t EXCEPT !.buckets[b] = Tombstone, !.num_deleted = @ + 1, !.consider_shrink = TRUE]

erase(t, k) == IF Found(t, k) THEN set_deleted(t, find_position(t, k).bucket) ELSE t

\* Of iterators: no shrinking before the next insertion, so that they stay
\* good, and the range may be empty.
erase_range(t, from, to) ==
  LET range == LiveBuckets(t) \cap (from .. to - 1)
  IN [t EXCEPT !.buckets = [b \in DOMAIN @ |-> IF b \in range THEN Tombstone ELSE @[b]],
               !.num_deleted = @ + Cardinality(range), !.consider_shrink = TRUE]

clear(t) ==
  IF t.num_elements = 0 /\ bucket_count(t) = min_buckets(0, 0) THEN t
  ELSE ClearedTo(min_buckets(0, 0))

clear_no_resize(t) == ClearedTo(bucket_count(t))

\* The range is resized for once; items that are there already are skipped.
insert_range(t, u) ==
  ForEachItem(u, insert_noresize, resize_delta(t, Cardinality(LiveBuckets(u))))

-----------------------------------------------------------------------------
(***************************************************************************)
(* The file that serialize writes: the sizes and the items by bucket.      *)
(* items_read of them are read; -1 and -2: a part of the header only.      *)
(***************************************************************************)
unserialize(t, file, items_read) ==
  IF items_read = -2 THEN clear(t)
  ELSE IF items_read = -1 THEN ClearedTo(bucket_count(file))
  ELSE LET live == LiveBuckets(file)
           read == {b \in live : Cardinality({c \in live : c < b}) < items_read}
       IN [ClearedTo(bucket_count(file)) EXCEPT
             !.buckets = [b \in DOMAIN @ |-> IF b \in read THEN file.buckets[b] ELSE @[b]],
             !.num_elements = file.num_elements]

\* The loop of operator== over the items of one table.
operator_equal(t, u) ==
  /\ size(t) = size(u)
  /\ \A b \in LiveBuckets(t) :
       LET item == t.buckets[b] IN Found(u, item.key) /\ Lookup(u, item.key) = item.value

-----------------------------------------------------------------------------
InitTable ==
  /\ hash \in HashFunctions
  /\ ht = ClearedTo(HT_DEFAULT_STARTING_BUCKETS)
  /\ kept = ClearedTo(HT_DEFAULT_STARTING_BUCKETS)
  /\ complete = TRUE

\* AddValue: the counter that operator[] returns is increased.
Count(k) ==
  /\ LET t == find_or_insert(ht, k)
         b == find_position(t, k).bucket
     IN /\ t.buckets[b].value < MaxValue
        /\ ht' = [t EXCEPT !.buckets[b].value = @ + 1]
  /\ UNCHANGED <<hash, kept, complete>>

Insert(k) ==
  /\ ht' = insert(ht, [key |-> k, value |-> MaxValue])
  /\ UNCHANGED <<hash, kept, complete>>

Erase(k) == ht' = erase(ht, k) /\ UNCHANGED <<hash, kept, complete>>
\* kept is copied from a complete table only.
MayCopy == complete /\ Cardinality(DOMAIN hash) <= MaxCopiedKeys

EraseAt(b) == ht' = set_deleted(ht, b) /\ UNCHANGED <<hash, kept, complete>>

\* erase(f, l), where l may be end().
EraseRange ==
  /\ \E f \in LiveBuckets(ht), l \in LiveBuckets(ht) \union {bucket_count(ht)} :
       f <= l /\ ht' = erase_range(ht, f, l)
  /\ UNCHANGED <<hash, kept, complete>>

\* The thresholds are computed anew, and that forgets that a table might shrink.
Swap ==
  /\ MayCopy
  /\ ht' = [kept EXCEPT !.consider_shrink = FALSE]
  /\ kept' = [ht EXCEPT !.consider_shrink = FALSE]
  /\ UNCHANGED <<hash, complete>>

Clear == ht' = clear(ht) /\ complete' = TRUE /\ UNCHANGED <<hash, kept>>
ClearNoResize == ht' = clear_no_resize(ht) /\ complete' = TRUE /\ UNCHANGED <<hash, kept>>
SetDeletedKey == ht' = squash_deleted(ht) /\ UNCHANGED <<hash, kept, complete>>

Resize(n) == ht' = resize(ht, n) /\ UNCHANGED <<hash, kept, complete>>

\* The copy constructor, operator=, and insert(begin(), end()).
Copy ==
  /\ MayCopy
  /\ kept' = copy_from(ht, HT_DEFAULT_STARTING_BUCKETS)
  /\ UNCHANGED <<hash, ht, complete>>

Assign ==
  /\ ht' = copy_from(kept, HT_MIN_BUCKETS) /\ complete' = TRUE
  /\ UNCHANGED <<hash, kept>>
InsertRange ==
  /\ ht' = insert_range(ht, kept)
  /\ UNCHANGED <<hash, kept, complete>>

Serialize ==
  /\ MayCopy
  /\ ht' = squash_deleted(ht)
  /\ kept' = [ht' EXCEPT !.consider_shrink = FALSE]
  /\ UNCHANGED <<hash, complete>>

\* The file, in which there are no tombstones, may be cut anywhere.
Unserialize ==
  /\ kept.num_deleted = 0
  /\ \E items_read \in -2 .. Cardinality(LiveBuckets(kept)) :
       /\ ht' = unserialize(ht, kept, items_read)
       /\ complete' = (items_read = Cardinality(LiveBuckets(kept)))
  /\ UNCHANGED <<hash, kept>>

Step ==
  \/ \E k \in DOMAIN hash : Count(k) \/ Insert(k) \/ Erase(k)
  \/ \E b \in LiveBuckets(ht) : EraseAt(b)
  \/ EraseRange \/ Swap \/ Clear \/ ClearNoResize \/ SetDeletedKey
  \/ \E n \in {0, HT_MIN_BUCKETS} : Resize(n)
  \/ Copy \/ Assign \/ InsertRange \/ Serialize \/ Unserialize

NextTable == Step /\ bucket_count(ht') <= MaxBuckets

TableSpec == InitTable /\ [][NextTable]_tableVars

-----------------------------------------------------------------------------
\* The map that a table stands for, item by item.
Contents(t) ==
  LET items == {t.buckets[b] : b \in LiveBuckets(t)}
  IN [k \in {i.key : i \in items} |-> (CHOOSE i \in items : i.key = k).value]

\* An item is found where it is, so it is there once; no other key is found.
ItemsAreFound(t) ==
  /\ \A b \in LiveBuckets(t) :
       find_position(t, t.buckets[b].key) = [found |-> TRUE, bucket |-> b]
  /\ \A k \in DOMAIN hash \ DOMAIN Contents(t) : count(t, k) = 0
  /\ \A k \in DOMAIN hash :
       {t.buckets[b].key : b \in LiveBuckets(t) \cap (equal_range(t, k)[1] .. equal_range(t, k)[2] - 1)}
         = {k} \cap DOMAIN Contents(t)

\* num_elements counts the items and the tombstones, num_deleted these.
CountersAreExact(t) ==
  /\ t.num_deleted = Cardinality({b \in DOMAIN t.buckets : t.buckets[b].key = DELETED_KEY})
  /\ size(t) = Cardinality(LiveBuckets(t))

\* There is room, and not so much that the table would be made smaller.
IsSettled(t) ==
  /\ t.num_elements < bucket_count(t) /\ t.num_elements <= enlarge_size(bucket_count(t))
  /\ ~WouldShrink(t)
=============================================================================
