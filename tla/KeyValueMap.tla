---------------------------- MODULE KeyValueMap ----------------------------
(***************************************************************************)
(* What the program expects of a hash table: a map from keys to values,    *)
(* with one action for every operation that its clients call, and a second *)
(* map, which is a copy of it, in memory or on disk.                       *)
(***************************************************************************)
EXTENDS Functions

CONSTANTS Keys, Values

VARIABLES map, saved

Maps == UNION {[keys -> Values] : keys \in SUBSET Keys}

TypeOK == map \in Maps /\ saved \in Maps

Init == map = <<>> /\ saved = <<>>

Put(k, v) == map' = [j \in DOMAIN map \union {k} |-> IF j = k THEN v ELSE map[j]]
Remove(keys) == map' = Restrict(map, DOMAIN map \ keys)
Merge ==
  map' = [k \in DOMAIN map \union DOMAIN saved |-> IF k \in DOMAIN map THEN map[k] ELSE saved[k]]

\* Reading a copy gives it back, or a part of it if it is cut short; removing
\* everything gives an empty part.
Load(keys) == map' = Restrict(saved, DOMAIN saved \cap keys)

Save == saved' = map /\ UNCHANGED map
Swap == map' = saved /\ saved' = map

Change ==
  \/ Load(DOMAIN map') \/ Merge
  \/ \E keys \in SUBSET DOMAIN map : Remove(keys)
  \/ \E k \in Keys \cap DOMAIN map' : map'[k] \in Values /\ Put(k, map'[k])

Next == (UNCHANGED saved /\ Change) \/ Save \/ Swap

Spec == Init /\ [][Next]_<<map, saved>>
=============================================================================
