----------------------------- MODULE BestChain -----------------------------
(***************************************************************************)
(* What the node promises of its block chain, without saying how: it       *)
(* learns blocks and never forgets one; its tip moves along the tree one   *)
(* block at a time and only onto valid chains; and it comes to rest only   *)
(* on a chain with the most work among the valid ones it knows.  A stop,   *)
(* orderly or not, may lose recent moves of the tip but nothing else.      *)
(***************************************************************************)
EXTENDS BlockTree

VARIABLES
    known,    \* the blocks on record
    tip,      \* the tip of the active chain, None when there is none
    resting   \* nothing is left to do

vars == <<known, tip, resting>>

Init == known = {} /\ tip = None /\ resting = FALSE

Learn(b) ==
    /\ b \notin known /\ Parent[b] \in known \cup {None}
    /\ known' = known \cup {b}
    /\ resting' = FALSE
    /\ UNCHANGED tip

Extend(b) ==
    /\ b \in known /\ Parent[b] = tip /\ Valid(b)
    /\ ~resting
    /\ tip' = b
    /\ UNCHANGED <<known, resting>>

Retreat ==
    /\ tip # None /\ ~resting
    /\ tip' = Parent[tip]
    /\ UNCHANGED <<known, resting>>

Rest ==
    /\ tip # None /\ Valid(tip)
    /\ \A b \in known : Valid(b) => ChainWork[b] <= ChainWork[tip]
    /\ resting' = TRUE
    /\ UNCHANGED <<known, tip>>

(* A failure leaves work undone. *)
GiveUp == resting' = FALSE /\ UNCHANGED <<known, tip>>

Stop == tip' = None /\ resting' = FALSE /\ UNCHANGED known

Start(b) ==
    /\ tip = None
    /\ b \in known /\ Valid(b)
    /\ tip' = b
    /\ UNCHANGED <<known, resting>>

Next ==
    \/ \E b \in Block : Learn(b) \/ Extend(b) \/ Start(b)
    \/ Retreat \/ Rest \/ GiveUp \/ Stop

Spec == Init /\ [][Next]_vars
=============================================================================
