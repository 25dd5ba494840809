-------------------------- MODULE WalletBranches --------------------------
(***************************************************************************)
(* The merkle branches that SetMerkleBranch (src/main.cpp) stores with the *)
(* wallet's transactions, made of the blocks of WalletTx as MerkleTree     *)
(* makes them.                                                             *)
(***************************************************************************)
EXTENDS WalletTx, MerkleTree

(* The branch that SetMerkleBranch stores with a transaction leads to the root *)
(* of its block, as GetDepthInMainChainINTERNAL tests before it counts it.     *)
StoredBranchesVerify ==
    \A t \in DOMAIN mapWallet : mapWallet[t].hashBlock # None =>
        LET vtx == Last(mapWallet[t].hashBlock)
            i == CHOOSE i \in DOMAIN vtx : vtx[i] = t
        IN  CheckMerkleBranch(vtx[i], GetMerkleBranch(vtx, i - 1), i - 1) = Last(BuildMerkleTree(vtx))

(* "Make sure the merkle branch connects to this block": it does for each      *)
(* transaction of the wallet, and for blocks of any size; a block's partial    *)
(* tree gives back what was chosen from it, and a damaged one nothing.         *)
BranchesConnect == StoredBranchesVerify /\ BranchesVerify /\ PartialTreesExtract
=============================================================================
