----------------------------- MODULE CoinsCodec -----------------------------
(***************************************************************************)
(* How coins, undo data and amounts are written to disk and read back:     *)
(* CCoins and CTxInUndo (src/coins.h, src/core.h), CTxOutCompressor's      *)
(* amounts (src/core.cpp) and VARINT (src/serialize.h).                    *)
(*                                                                         *)
(* A stream is a sequence of bytes and of whole outputs, which their       *)
(* script's compression writes as a unit; a byte of the spentness mask is  *)
(* the set of its bits.  nVersion, another VARINT, is left out.            *)
(***************************************************************************)
EXTENDS Ledger, Order, Integers, FiniteSets

CONSTANTS
    Outputs,  \* the indices of outputs a transaction may have
    Numbers,  \* heights and other numbers that VARINT writes
    Amounts   \* amounts of outputs

ASSUME CodecAssumption ==
    /\ Outputs \subseteq Nat /\ IsFiniteSet(Outputs) /\ \A t \in Tx : IsFiniteSet(Spendable[t])
    /\ Numbers \subseteq Nat /\ Amounts \subseteq Nat

Number(b) == IF b THEN 1 ELSE 0

-----------------------------------------------------------------------------
(* The variants named "Slip..." are not part of the model: each is a mistake   *)
(* that could be made in the definition it precedes, and that one of the       *)
(* properties below tells from the real code.                                  *)

(* WriteVarInt: seven bits to a byte, the lowest last; every byte but the last *)
(* has its high bit set, and stands for one more than its bits.                *)
WriteVarInt(number) ==
    LET n[len \in 0 .. number] == IF len = 0 THEN number ELSE (n[len - 1] \div 128) - 1
        last == CHOOSE len \in 0 .. number : n[len] <= 127 /\ \A k \in 0 .. len - 1 : n[k] > 127
    IN  [i \in 1 .. last + 1 |-> (n[last + 1 - i] % 128) + 128 * Number(i <= last)]

(* ReadVarInt: the number, and what follows it in the stream. *)
ReadVarInt(s) ==
    LET last == CHOOSE i \in DOMAIN s : s[i] < 128 /\ \A k \in 1 .. i - 1 : s[k] >= 128
        n[i \in 0 .. last] == IF i = 0 THEN 0 ELSE n[i - 1] * 128 + (s[i] % 128) + Number(s[i] >= 128)
    IN  [n |-> n[last], rest |-> SubSeq(s, last + 1, Len(s))]

(* CompressAmount: the number of trailing zeros, up to 9, then what is left *)
(* with its last digit, which is not 0.                                     *)
CompressAmount(amount) ==
    LET n[e \in 0 .. 9] == IF e = 0 THEN amount ELSE n[e - 1] \div 10
        e == CHOOSE e \in 0 .. 9 : (e = 9 \/ n[e] % 10 # 0) /\ \A d \in 0 .. e - 1 : n[d] % 10 = 0
    IN  IF amount = 0 THEN 0
        ELSE IF e < 9 THEN 1 + ((n[e] \div 10) * 9 + (n[e] % 10) - 1) * 10 + e
                      ELSE 1 + (n[e] - 1) * 10 + 9

DecompressAmount(x) ==
    LET e == (x - 1) % 10
        y == (x - 1) \div 10
        n[i \in 0 .. e] == IF i > 0 THEN n[i - 1] * 10 ELSE IF e < 9 THEN (y \div 9) * 10 + (y % 9) + 1 ELSE y + 1
    IN  IF x = 0 THEN 0 ELSE n[e]

-----------------------------------------------------------------------------
(* The mask's byte b, for the outputs from the third on. *)
chAvail(vout, b) == {i \in 0 .. 7 : 2 + 8 * b + i \in vout}

(* CalcMaskSize: the bytes that are not zero, and all up to the last of them. *)
NonzeroBytes(vout) == {(n - 2) \div 8 : n \in vout \ {0, 1}}
nMaskSize(vout) ==
    IF NonzeroBytes(vout) = {} THEN 0 ELSE 1 + CHOOSE b \in NonzeroBytes(vout) : \A c \in NonzeroBytes(vout) : c <= b
nMaskCode(vout) == Cardinality(NonzeroBytes(vout))

fFirstOrSecond(vout) == vout \cap {0, 1} # {}

(* the flags of the first two outputs change places *)
SlipnCode(c, fCoinBase) ==
    8 * (nMaskCode(c.vout) - Number(~fFirstOrSecond(c.vout)))
        + Number(fCoinBase) + 2 * Number(1 \in c.vout) + 4 * Number(0 \in c.vout)

(* The number of mask bytes that are not zero, less the one there must be if  *)
(* the first two outputs are spent; and the three flags.                      *)
nCode(c, fCoinBase) ==
    8 * (nMaskCode(c.vout) - Number(~fFirstOrSecond(c.vout)))
        + Number(fCoinBase) + 2 * Number(0 \in c.vout) + 4 * Number(1 \in c.vout)

CTxOut(n) == [output |-> n]

(* the outputs in their order *)
InOrder(S) == [i \in 1 .. Cardinality(S) |-> At(S, i - 1)]

SerializeCoins(c, fCoinBase) ==
    WriteVarInt(nCode(c, fCoinBase))
        \o [b \in 1 .. nMaskSize(c.vout) |-> chAvail(c.vout, b - 1)]
        \o [i \in 1 .. Cardinality(c.vout) |-> CTxOut(InOrder(c.vout)[i])]
        \o WriteVarInt(c.nHeight)

(* GetSerializeSize, with an output counted as one. *)
SizeOfCoins(c, fCoinBase) ==
    Len(WriteVarInt(nCode(c, fCoinBase))) + nMaskSize(c.vout) + Cardinality(c.vout)
        + Len(WriteVarInt(c.nHeight))

(* The mask is read until nMaskCode bytes that are not zero were found. *)
BytesRead(s, count) ==
    CHOOSE n \in 0 .. Len(s) : Cardinality({b \in 1 .. n : s[b] # {}}) = count /\ (n > 0 => s[n] # {})

UnserializeCoins(s) ==
    LET code == ReadVarInt(s)
        flag(bit) == (code.n \div bit) % 2 = 1
        n == BytesRead(code.rest, (code.n \div 8) + Number(~flag(2) /\ ~flag(4)))
        vAvail == {i \in {0, 1} : flag(2 + 2 * i)} \cup UNION {{2 + 8 * (b - 1) + p : p \in code.rest[b]} : b \in 1 .. n}
        next == n + Cardinality(vAvail)
        height == ReadVarInt(SubSeq(code.rest, next + 1, Len(code.rest)))
    IN  [vout      |-> {<<InOrder(vAvail)[i], code.rest[n + i]>> : i \in 1 .. Cardinality(vAvail)},
         fCoinBase |-> flag(1), nHeight |-> height.n, rest |-> height.rest]

(* CTxInUndo: a height of zero stands for none. *)
SerializeUndo(u) == WriteVarInt(u.nHeight * 2 + Number(u.fCoinBase)) \o <<u.txout>>

UnserializeUndo(s) ==
    LET code == ReadVarInt(s)
    IN  [undo |-> [nHeight |-> code.n \div 2, fCoinBase |-> code.n % 2 = 1, txout |-> Head(code.rest)],
         rest |-> Tail(code.rest)]

-----------------------------------------------------------------------------
(* A VARINT is read back, whatever comes after it; so is a compressed amount. *)
NumbersReadBack ==
    /\ \A n \in Numbers : ReadVarInt(WriteVarInt(n) \o <<127, 0>>) = [n |-> n, rest |-> <<127, 0>>]
    /\ \A n \in Amounts : DecompressAmount(CompressAmount(n)) = n

(* Unspent coins of any shape are read back as they were written, each output  *)
(* at its index, and nothing of what follows is consumed; they take the space  *)
(* that GetSerializeSize said.  So is undo data.                               *)
ShapesReadBack ==
    \A n \in Numbers : \A fCoinBase \in BOOLEAN :
        /\ \A S \in (SUBSET Outputs) \ {{}} :
               LET c == [vout |-> S, nHeight |-> n]
                   s == SerializeCoins(c, fCoinBase)
               IN  /\ UnserializeCoins(s \o <<0>>) = [vout |-> {<<i, CTxOut(i)>> : i \in S}, rest |-> <<0>>,
                                                     fCoinBase |-> fCoinBase, nHeight |-> n]
                   /\ Len(s) = SizeOfCoins(c, fCoinBase)
        /\ LET u == [nHeight |-> n, fCoinBase |-> fCoinBase, txout |-> CTxOut(0)]
           IN  UnserializeUndo(SerializeUndo(u) \o <<0>>) = [undo |-> u, rest |-> <<0>>]

CoinsReadBack ==
    \A t \in DOMAIN coinsdb :
        LET c == coinsdb[t]
        IN  UnserializeCoins(SerializeCoins(c, t \in CoinBase)) =
                [vout |-> {<<n, CTxOut(n)>> : n \in c.vout}, rest |-> <<>>,
                 fCoinBase |-> t \in CoinBase, nHeight |-> c.nHeight]

(* "every (infinite) byte sequence corresponds to a list of encoded integers": *)
(* what the coin database has can be read back whatever led to it, and so can  *)
(* coins and undo data of every other shape, and the numbers they consist of.  *)
StoredFormsReadBack == CoinsReadBack /\ ShapesReadBack /\ NumbersReadBack
=============================================================================
