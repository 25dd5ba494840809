----------------------------- MODULE MerkleTree -----------------------------
(***************************************************************************)
(* Merkle trees: CBlock's tree and branches (src/core.cpp), by which a     *)
(* wallet transaction proves its block, and CPartialMerkleTree             *)
(* (src/main.cpp, src/main.h), which tells a peer with a filter which      *)
(* transactions of a block match.                                          *)
(*                                                                         *)
(* A hash of two others is their pair.  Positions count from 0, as in the  *)
(* code; sequences from 1.  The bound on nTransactions in ExtractMatches,  *)
(* far above MaxTransactions, is left out.                                 *)
(***************************************************************************)
EXTENDS Integers, Sequences, SequencesExt

CONSTANTS
    MaxTransactions,  \* how many transactions a block has at most
    Bad               \* what a failed extraction returns

ASSUME MerkleAssumption == MaxTransactions \in Nat \ {0}

Hash(left, right) == <<left, right>>

LOCAL Min2(a, b) == IF a < b THEN a ELSE b

(* the txids of a block with n transactions *)
vTxid(n) == [i \in 1 .. n |-> <<i>>]

-----------------------------------------------------------------------------
(* The variants named "Slip..." are not part of the model: each is a mistake   *)
(* that could be made in the definition it precedes, and that one of the       *)
(* properties below tells from the real code.                                  *)

(* One level after the other; a hash that has no neighbour is its own.  The    *)
(* level of nSize hashes begins after the first j.                             *)
RECURSIVE Levels(_, _, _)
Levels(tree, j, nSize) ==
    IF nSize <= 1 THEN tree
    ELSE LET half == (nSize + 1) \div 2
             next == [i \in 1 .. half |-> Hash(tree[j + 2 * i - 1], tree[j + Min2(2 * i, nSize)])]
         IN  Levels(tree \o next, j + nSize, half)

BuildMerkleTree(vtx) == Levels(vtx, 0, Len(vtx))

Neighbour(i) == IF i % 2 = 0 THEN i + 1 ELSE i - 1

(* the neighbour's index is not halved *)
RECURSIVE SlipBranchFrom(_, _, _, _)
SlipBranchFrom(tree, j, nSize, nIndex) ==
    IF nSize <= 1 THEN <<>>
    ELSE <<tree[j + Min2(nIndex, nSize - 1) + 1]>>
             \o SlipBranchFrom(tree, j + nSize, (nSize + 1) \div 2, Neighbour(nIndex \div 2))

RECURSIVE BranchFrom(_, _, _, _)
BranchFrom(tree, j, nSize, nIndex) ==
    IF nSize <= 1 THEN <<>>
    ELSE <<tree[j + Min2(Neighbour(nIndex), nSize - 1) + 1]>>
             \o BranchFrom(tree, j + nSize, (nSize + 1) \div 2, nIndex \div 2)

SlipGetMerkleBranch(vtx, nIndex) == SlipBranchFrom(BuildMerkleTree(vtx), 0, Len(vtx), nIndex)

GetMerkleBranch(vtx, nIndex) == BranchFrom(BuildMerkleTree(vtx), 0, Len(vtx), nIndex)

CheckMerkleBranch(hash, vMerkleBranch, nIndex) ==
    FoldLeft(LAMBDA acc, otherside :
                 [hash |-> IF acc.n % 2 = 1 THEN Hash(otherside, acc.hash) ELSE Hash(acc.hash, otherside),
                  n    |-> acc.n \div 2],
             [hash |-> hash, n |-> nIndex], vMerkleBranch).hash

-----------------------------------------------------------------------------
CalcTreeWidth(n, height) == (n + 2 ^ height - 1) \div (2 ^ height)

nHeight(n) == CHOOSE h \in 0 .. n : CalcTreeWidth(n, h) = 1 /\ \A k \in 0 .. h - 1 : CalcTreeWidth(n, k) > 1

RECURSIVE CalcHash(_, _, _)
CalcHash(height, pos, txids) ==
    IF height = 0 THEN txids[pos + 1]
    ELSE LET left == CalcHash(height - 1, pos * 2, txids)
         IN  Hash(left, IF pos * 2 + 1 < CalcTreeWidth(Len(txids), height - 1)
                        THEN CalcHash(height - 1, pos * 2 + 1, txids) ELSE left)

(* vMatch is the set of the positions that match. *)
RECURSIVE TraverseAndBuild(_, _, _, _)
TraverseAndBuild(height, pos, txids, vMatch) ==
    LET below == {p \in 0 .. Len(txids) - 1 : pos * (2 ^ height) <= p /\ p < (pos + 1) * (2 ^ height)}
        fParentOfMatch == below \cap vMatch # {}
        left == TraverseAndBuild(height - 1, pos * 2, txids, vMatch)
        right == IF pos * 2 + 1 < CalcTreeWidth(Len(txids), height - 1)
                 THEN TraverseAndBuild(height - 1, pos * 2 + 1, txids, vMatch)
                 ELSE [vBits |-> <<>>, vHash |-> <<>>]
    IN  IF height = 0 \/ ~fParentOfMatch
        THEN [vBits |-> <<fParentOfMatch>>, vHash |-> <<CalcHash(height, pos, txids)>>]
        ELSE [vBits |-> <<TRUE>> \o left.vBits \o right.vBits, vHash |-> left.vHash \o right.vHash]

(* What is sent: the bits are filled up to whole bytes. *)
Padded(vBits) == vBits \o [p \in 1 .. (8 - (Len(vBits) % 8)) % 8 |-> FALSE]

PartialMerkleTree(txids, vMatch) ==
    LET tree == TraverseAndBuild(nHeight(Len(txids)), 0, txids, vMatch)
    IN  [nTransactions |-> Len(txids), vBits |-> Padded(tree.vBits), vHash |-> tree.vHash]

(* The traversal carries how many bits and hashes it has used, what matched    *)
(* and whether it ran out; it returns the hash of its node.                    *)
RECURSIVE TraverseAndExtract(_, _, _, _)
TraverseAndExtract(height, pos, t, st) ==
    LET fParentOfMatch == t.vBits[st.nBitsUsed + 1]
        bit == [st EXCEPT !.nBitsUsed = @ + 1]
        hash == t.vHash[st.nHashUsed + 1]
        left == TraverseAndExtract(height - 1, pos * 2, t, bit)
        right == TraverseAndExtract(height - 1, pos * 2 + 1, t, left)
    IN  IF st.nBitsUsed >= Len(t.vBits) THEN [st EXCEPT !.fBad = TRUE, !.hash = <<0>>]
        ELSE IF height = 0 \/ ~fParentOfMatch
        THEN IF st.nHashUsed >= Len(t.vHash) THEN [bit EXCEPT !.fBad = TRUE, !.hash = <<0>>]
             ELSE [bit EXCEPT !.nHashUsed = @ + 1, !.hash = hash,
                              !.vMatch = IF height = 0 /\ fParentOfMatch THEN Append(@, hash) ELSE @]
        ELSE IF pos * 2 + 1 < CalcTreeWidth(t.nTransactions, height - 1)
        THEN [right EXCEPT !.hash = Hash(left.hash, right.hash)]
        ELSE [left EXCEPT !.hash = Hash(left.hash, left.hash)]

ExtractMatches(t) ==
    LET st == TraverseAndExtract(nHeight(t.nTransactions), 0, t,
                  [nBitsUsed |-> 0, nHashUsed |-> 0, vMatch |-> <<>>, fBad |-> FALSE, hash |-> <<0>>])
    IN  IF \/ Len(t.vHash) > t.nTransactions \/ Len(t.vBits) < Len(t.vHash)
           \/ st.fBad
           \/ (st.nBitsUsed + 7) \div 8 # (Len(t.vBits) + 7) \div 8
           \/ st.nHashUsed # Len(t.vHash)
        THEN Bad ELSE [root |-> st.hash, vMatch |-> st.vMatch]

-----------------------------------------------------------------------------
Root(n) == Last(BuildMerkleTree(vTxid(n)))

(* The branch of a transaction leads to the block's root, and no other         *)
(* transaction does by it, however many the block has.                         *)
BranchesVerify ==
    \A n \in 1 .. MaxTransactions : \A i \in 0 .. n - 1 : \A j \in 1 .. n :
        LET branch == GetMerkleBranch(vTxid(n), i)
        IN  CheckMerkleBranch(vTxid(n)[j], branch, i) = Root(n) <=> j = i + 1

(* The partial tree of any choice of transactions gives back their txids in    *)
(* order, and the root that BuildMerkleTree computes; with a hash or a byte of *)
(* bits more or less it gives nothing.                                         *)
PartialTreesExtract ==
    \A n \in 1 .. MaxTransactions : \A vMatch \in SUBSET (0 .. n - 1) :
        LET t == PartialMerkleTree(vTxid(n), vMatch)
            chosen == SelectSeq(vTxid(n), LAMBDA id : id[1] - 1 \in vMatch)
        IN  /\ ExtractMatches(t) = [root |-> Root(n), vMatch |-> chosen]
            /\ ExtractMatches([t EXCEPT !.vHash = Front(@)]) = Bad
            /\ ExtractMatches([t EXCEPT !.vHash = Append(@, <<0>>)]) = Bad
            /\ ExtractMatches([t EXCEPT !.vBits = SubSeq(@, 1, Len(@) - 8)]) = Bad
            /\ ExtractMatches([t EXCEPT !.vBits = @ \o [p \in 1 .. 8 |-> FALSE]]) = Bad
=============================================================================
