----------------------------- MODULE MCAddrMan -----------------------------
(* Four addresses and three sources; three new buckets of one, in which every  *)
(* address can be, two at a time, and one tried bucket of two.                 *)
EXTENDS AddrMan, TLC

CONSTANTS s1, s2, s3, u1, u2, u3, k1

MCBucketOf == s1 :> u1 @@ s2 :> u2 @@ s3 :> u3
MCGetNewBucket == [a \in NetAddr |-> MCBucketOf]
MCGetTriedBucket == [a \in NetAddr |-> k1]
(* the addresses are alike, and so are the sources with their buckets *)
MCSymmetry ==
    {p @@ q @@ [u \in NewBucket |-> MCBucketOf[q[CHOOSE s \in Source : MCBucketOf[s] = u]]]
       : p \in Permutations(NetAddr), q \in Permutations(Source)}
MCnNodes == [n \in 0..Cardinality(NetAddr) |-> IF n > 3 THEN 1 ELSE 0]
=============================================================================
