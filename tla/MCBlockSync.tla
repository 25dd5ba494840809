---------------------------- MODULE MCBlockSync ----------------------------
(* A chain g <- a <- b <- c <- d in which c is refused: with room for two     *)
(* orphans, blocks arrive in every order and evict one another, and both      *)
(* peers are asked for a and b, one at a time.                                *)
EXTENDS BlockSync, TLC

CONSTANTS p1, p2, g, a, b, c, d

MCParent == a :> g @@ b :> a @@ c :> b @@ d :> c

(* For the liveness property: two blocks and no orphans, both refused, so    *)
(* that they are asked for again and again.                                  *)
MCSiblings == a :> g @@ b :> g
=============================================================================
