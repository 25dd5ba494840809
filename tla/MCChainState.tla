---------------------------- MODULE MCChainState ----------------------------
(* A tree of blocks for TLC, with reorganisations of two blocks for two (a2 *)
(* and c2) and attempts at three, an invalid block below the tip of a       *)
(* branch (b2), and a block that is damaged on disk (a3):                   *)
(*                                                                         *)
(*       g --- a1 --- a2 --- a3                                            *)
(*         \-- b1 --- b2 --- b3                                            *)
(*               \--- c2                                                   *)
EXTENDS ChainState

CONSTANTS g, a1, a2, a3, b1, b2, b3, c2

MCParent ==
    [b \in Block |->
        CASE b = g -> None
          [] b \in {a1, b1} -> g
          [] b = a2 -> a1
          [] b = a3 -> a2
          [] b \in {b2, c2} -> b1
          [] b = b3 -> b2]

MCChainWork ==
    [b \in Block |-> CASE b = g -> 1
                       [] b \in {a1, b1} -> 2
                       [] b \in {a2, b2, c2} -> 3
                       [] b \in {a3, b3} -> 4]

(* Two layouts of the heap: ties fall one way or the other. *)
MCAddresses ==
    LET up == [b \in Block |->
                CASE b = g -> 1 [] b = a1 -> 2 [] b = a2 -> 3 [] b = b1 -> 4
                  [] b = b2 -> 5 [] b = b3 -> 6 [] b = c2 -> 7 [] b = a3 -> 8]
    IN  {up, [b \in Block |-> 9 - up[b]]}
=============================================================================
