---------------------------- MODULE MCBlockFiles ----------------------------
(* A chain b0 <- b1 <- b2 and a fork b0 <- c1, with room for two blocks in a   *)
(* file.                                                                       *)
EXTENDS BlockFiles, TLC

CONSTANTS b0, b1, b2, c1, none

MCParent == [k \in Block |-> IF k = b2 THEN b1 ELSE b0]
MCSize == [k \in Block \cup {b0} |-> 1]
MCUndoSize == [k \in Block |-> 1]

(* Three stops and failures while b1 is alone, fewer with more blocks. *)
MCMaxFailures ==
    [S \in SUBSET (Block \cup {b0}) |->
        IF Block \subseteq S THEN 0 ELSE IF c1 \in S THEN 1 ELSE IF b2 \in S THEN 2 ELSE 3]
=============================================================================
