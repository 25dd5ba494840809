----------------------------- MODULE BlockTree -----------------------------
(***************************************************************************)
(* The tree of blocks the node may hear of, as CBlockIndex records it:     *)
(* pprev, nChainWork, and what ConnectBlock would find in each block       *)
(* (src/main.h, src/main.cpp).                                             *)
(***************************************************************************)
EXTENDS Naturals

CONSTANTS
    Block,       \* every block that passes CheckBlock and AcceptBlock's rules
    Genesis,
    None,        \* the NULL CBlockIndex pointer
    Parent,      \* CBlockIndex::pprev
    ChainWork,   \* CBlockIndex::nChainWork
    Invalid,     \* blocks that break a rule only ConnectBlock can check
    Corrupt      \* blocks whose data reads back from disk with a wrong merkle root

ASSUME BlockAssumption ==
    /\ Genesis \in Block /\ None \notin Block
    /\ Invalid \subseteq Block \ {Genesis} /\ Corrupt \subseteq Block \ {Genesis}

ASSUME ParentAssumption ==
    /\ Parent \in [Block -> Block \cup {None}]
    /\ \A b \in Block : Parent[b] = None <=> b = Genesis

(* nChainWork adds GetBlockWork, which is positive, to the parent's; a      *)
(* chain of parents therefore never returns to a block.                     *)
ASSUME WorkAssumption ==
    /\ ChainWork \in [Block -> Nat]
    /\ \A b \in Block \ {Genesis} : ChainWork[b] > ChainWork[Parent[b]]

-----------------------------------------------------------------------------
(* A set of blocks a walk along pprev cannot leave. *)
Closed(S) == \A b \in S : Parent[b] \in S \cup {None}

(* The vector of a CChain whose tip is b: what SetTip collects by following *)
(* pprev, that is, the smallest closed set with b in it.                    *)
Path == [b \in Block |-> {c \in Block : \A S \in SUBSET Block : b \in S /\ Closed(S) => c \in S}]

ChainTo(b) == IF b = None THEN {} ELSE Path[b]

(* The block ConnectBlock accepts, if its ancestors were accepted. *)
Connectable(b) == b \notin Invalid \cup Corrupt

Valid(b) == \A c \in Path[b] : Connectable(c)
=============================================================================
