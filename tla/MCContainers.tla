---- MODULE MCContainers ----
(* Five keys and four strings, and hash values that collide in tables of some sizes. *)
EXTENDS Containers, TLC

CONSTANTS k1, k2, k3, k4, k5, s1, s2, s3, s4

\* Three keys, of which two or three collide, also in the last bucket of a table,
\* so that the search goes on in the first one, or five, so that tombstones of
\* others fill a table.
MCHashFunctions == {
  k1 :> 0 @@ k2 :> 4 @@ k3 :> 8,
  k1 :> 3 @@ k2 :> 7 @@ k3 :> 1,
  k1 :> 0 @@ k2 :> 1 @@ k3 :> 2 @@ k4 :> 3 @@ k5 :> 8}

MCLength == s1 :> 0 @@ s2 :> 1 @@ s3 :> 1 @@ s4 :> 2

\* In a table of three, of nine, and of both; and all different.
MCStringHashes == {
  s1 :> 2 @@ s2 :> 5 @@ s3 :> 8 @@ s4 :> 11,
  s1 :> 8 @@ s2 :> 8 @@ s3 :> 8 @@ s4 :> 8,
  s1 :> 0 @@ s2 :> 1 @@ s3 :> 2 @@ s4 :> 3}
====
