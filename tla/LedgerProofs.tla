----------------------------- MODULE LedgerProofs ----------------------------
(***************************************************************************)
(* Proofs about the coins (module Ledger) and the memory pool over them    *)
(* (module TxMemPool), for every set of transactions, with any inputs and  *)
(* outputs, for every set of blocks and every height:                      *)
(*                                                                         *)
(*   CoinsAreTheChainsAlways  the coins of the cache are the unspent       *)
(*                            outputs of the chain, and those on the disk  *)
(*                            of the chain last flushed;                   *)
(*   DisconnectIsCleanAlways  disconnecting the tip is always clean, and   *)
(*                            gives back the coins of the chain before it; *)
(*   LedgerIsKept             the memory pool implements the ledger;       *)
(*   IndexIsExactAlways       mapNextTx names the one that spends each     *)
(*                            outpoint, and no two of the pool spend the   *)
(*                            same;                                        *)
(*   PoolIsConsistentAlways   and every input of the pool exists, as long  *)
(*                            as no coinbase is twice in the chain;        *)
(*   StoredFormsReadBackAlways  what the coin database has can be read     *)
(*                            back as it was written (module CoinsCodec).  *)
(*                                                                         *)
(* That the coins are the chain's is not inductive: it does not say that   *)
(* the undo data of a block is that of its connection to the chain below   *)
(* it, which DisconnectBlock relies on, nor that the chain the database    *)
(* names is as sound as the active one, which a restart relies on.  LInv   *)
(* adds both.  Of a transaction that was repeated when all its outputs     *)
(* were spent (BIP30) only the last place counts.  HInv adds the pool to   *)
(* it.  It holds across a disconnected block only if no coinbase is at two *)
(* places of the chain: one that leaves the chain at its second place has  *)
(* its outputs spent at the first, and what spends them in the pool is     *)
(* left without them.                                                      *)
(*                                                                         *)
(* The code goes through inputs and transactions in order, one after the   *)
(* other, so each recursive function of the model (Spending, Restoring,    *)
(* Connecting, Disconnecting, Confirming, Resurrecting) is first shown to  *)
(* satisfy its equation, by taking the least number where it would not,    *)
(* and what holds at every step of it is then shown by Upward or Downward. *)
(*                                                                         *)
(* What is stored is read back because the code at its front says how much *)
(* comes next: the number of bytes of the mask that are not zero (MaskIs,  *)
(* BytesReadIs), hence which outputs there are and how many (AvailIs).  It *)
(* counts on there being one, which is so since spent coins are pruned.    *)
(***************************************************************************)
EXTENDS TxMemPool, CoinsCodec, Counting, SequenceTheorems

-----------------------------------------------------------------------------
(* UpdateCoins spends the inputs of a transaction one after the other. *)
LEMMA SpendingIs ==
    ASSUME NEW view, NEW t \in Tx \ CoinBase
    PROVE  /\ Spending(view, t)[0] = [view |-> view, undo |-> <<>>]
           /\ \A n \in 1 .. Len(vin[t]) :
                 Spending(view, t)[n] = SpendInput(Spending(view, t)[n - 1], vin[t][n])
<1> DEFINE N == Len(vin[t])
           base == [view |-> view, undo |-> <<>>]
           Is(g, m) == g = [n \in 0 .. m |-> IF n = 0 THEN base ELSE SpendInput(g[n - 1], vin[t][n])]
           f == CHOOSE g : Is(g, N)
<1>1. N \in Nat
  BY TxAssumption
<1>2. Spending(view, t) = f
  BY DEF Spending
<1> HIDE DEF N, base
<1>3. ASSUME NEW m \in Nat, NEW g, Is(g, m) PROVE \E e : Is(e, m + 1)
  <2> DEFINE e == [n \in 0 .. m + 1 |-> IF n = 0 THEN base ELSE SpendInput(g[n - 1], vin[t][n])]
  <2>1. \A n \in 0 .. m : e[n] = g[n]
    BY <1>3
  <2>2. \A n \in 1 .. m + 1 : n - 1 \in 0 .. m
    OBVIOUS
  <2>3. \A n \in 0 .. m + 1 : (IF n = 0 THEN base ELSE SpendInput(e[n - 1], vin[t][n])) = (IF n = 0 THEN base ELSE SpendInput(g[n - 1], vin[t][n]))
    <3> HIDE DEF e
    <3>1. \A n \in 1 .. m + 1 : e[n - 1] = g[n - 1]
      BY <2>1, <2>2
    <3>2. \A n \in 0 .. m + 1 : n = 0 \/ n \in 1 .. m + 1
      OBVIOUS
    <3>3. QED
      BY <3>1, <3>2
  <2>4. e = [n \in 0 .. m + 1 |-> IF n = 0 THEN base ELSE SpendInput(e[n - 1], vin[t][n])]
    BY <2>3, Zenon
  <2>5. QED
    BY <2>4
<1>4. \E e : Is(e, 0)
  <2> DEFINE e == [n \in 0 .. 0 |-> base]
  <2>1. e = [n \in 0 .. 0 |-> IF n = 0 THEN base ELSE SpendInput(e[n - 1], vin[t][n])]
    OBVIOUS
  <2>2. QED
    BY <2>1
<1>5. \E g : Is(g, N)
  <2> DEFINE S == {m \in 0 .. N : \E g : Is(g, m)}
  <2>1. 0 \in S
    BY <1>1, <1>4
  <2>2. ASSUME NEW n \in 1 .. N, n - 1 \in S PROVE n \in S
    <3> DEFINE l == n - 1
    <3>1. l \in Nat /\ l + 1 = n /\ n \in 0 .. N /\ \E g : Is(g, l)
      BY <1>1, <2>2
    <3> HIDE DEF l, Is
    <3>2. \E g : Is(g, l + 1)
      BY <1>3, <3>1
    <3>3. QED
      BY <3>1, <3>2
  <2> HIDE DEF S
  <2>3. N \in 0 .. N /\ \A n \in 0 .. N : n \in S
    BY <1>1, <2>1, <2>2, Upward
  <2>4. QED
    BY <2>3 DEF S
<1>6. Is(f, N)
  BY <1>5
<1> HIDE DEF f
<1>7. f[0] = base /\ \A n \in 1 .. N : f[n] = SpendInput(f[n - 1], vin[t][n])
  BY <1>1, <1>6
<1>8. QED
  BY <1>2, <1>7 DEF N, base

(* ConnectBlock starts with the BIP30 rule and goes through the transactions *)
(* in order.                                                                 *)
LEMMA ConnectingIs ==
    ASSUME NEW view, NEW vtx, Len(vtx) \in Nat, NEW h
    PROVE  /\ Connecting(view, vtx, h)[0] =
                 [ok |-> \A i \in DOMAIN vtx : IsPruned(Get(view, vtx[i])), view |-> view, vtxundo |-> <<>>]
           /\ \A n \in 1 .. Len(vtx) :
                 Connecting(view, vtx, h)[n] = ConnectTx(Connecting(view, vtx, h)[n - 1], vtx, n, h)
<1> DEFINE N == Len(vtx)
           base == [ok |-> \A i \in DOMAIN vtx : IsPruned(Get(view, vtx[i])), view |-> view, vtxundo |-> <<>>]
           Is(g, m) == g = [n \in 0 .. m |-> IF n = 0 THEN base ELSE ConnectTx(g[n - 1], vtx, n, h)]
           f == CHOOSE g : Is(g, N)
<1>1. N \in Nat
  OBVIOUS
<1>2. Connecting(view, vtx, h) = f
  BY DEF Connecting
<1> HIDE DEF N, base
<1>3. ASSUME NEW m \in Nat, NEW g, Is(g, m) PROVE \E e : Is(e, m + 1)
  <2> DEFINE e == [n \in 0 .. m + 1 |-> IF n = 0 THEN base ELSE ConnectTx(g[n - 1], vtx, n, h)]
  <2>1. \A n \in 0 .. m : e[n] = g[n]
    BY <1>3
  <2>2. \A n \in 1 .. m + 1 : n - 1 \in 0 .. m
    OBVIOUS
  <2>3. \A n \in 0 .. m + 1 : (IF n = 0 THEN base ELSE ConnectTx(e[n - 1], vtx, n, h)) = (IF n = 0 THEN base ELSE ConnectTx(g[n - 1], vtx, n, h))
    <3> HIDE DEF e
    <3>1. \A n \in 1 .. m + 1 : e[n - 1] = g[n - 1]
      BY <2>1, <2>2
    <3>2. \A n \in 0 .. m + 1 : n = 0 \/ n \in 1 .. m + 1
      OBVIOUS
    <3>3. QED
      BY <3>1, <3>2
  <2>4. e = [n \in 0 .. m + 1 |-> IF n = 0 THEN base ELSE ConnectTx(e[n - 1], vtx, n, h)]
    BY <2>3, Zenon
  <2>5. QED
    BY <2>4
<1>4. \E e : Is(e, 0)
  <2> DEFINE e == [n \in 0 .. 0 |-> base]
  <2>1. e = [n \in 0 .. 0 |-> IF n = 0 THEN base ELSE ConnectTx(e[n - 1], vtx, n, h)]
    OBVIOUS
  <2>2. QED
    BY <2>1
<1>5. \E g : Is(g, N)
  <2> DEFINE S == {m \in 0 .. N : \E g : Is(g, m)}
  <2>1. 0 \in S
    BY <1>1, <1>4
  <2>2. ASSUME NEW n \in 1 .. N, n - 1 \in S PROVE n \in S
    <3> DEFINE l == n - 1
    <3>1. l \in Nat /\ l + 1 = n /\ n \in 0 .. N /\ \E g : Is(g, l)
      BY <1>1, <2>2
    <3> HIDE DEF l, Is
    <3>2. \E g : Is(g, l + 1)
      BY <1>3, <3>1
    <3>3. QED
      BY <3>1, <3>2
  <2> HIDE DEF S
  <2>3. N \in 0 .. N /\ \A n \in 0 .. N : n \in S
    BY <1>1, <2>1, <2>2, Upward
  <2>4. QED
    BY <2>3 DEF S
<1>6. Is(f, N)
  BY <1>5
<1> HIDE DEF f
<1>7. f[0] = base /\ \A n \in 1 .. N : f[n] = ConnectTx(f[n - 1], vtx, n, h)
  BY <1>1, <1>6
<1>8. QED
  BY <1>2, <1>7 DEF N, base

(* DisconnectBlock restores the inputs of a transaction, the last first. *)
LEMMA RestoringIs ==
    ASSUME NEW acc, NEW t \in Tx \ CoinBase, NEW undo
    PROVE  /\ Restoring(acc, t, undo)[Len(vin[t]) + 1] = acc
           /\ \A j \in 1 .. Len(vin[t]) :
                 Restoring(acc, t, undo)[j] = RestoreInput(Restoring(acc, t, undo)[j + 1], vin[t][j], undo[j])
<1> DEFINE N == Len(vin[t])
           base == acc
           Is(g, m) == g = [j \in m .. N + 1 |-> IF j = N + 1 THEN base ELSE RestoreInput(g[j + 1], vin[t][j], undo[j])]
           f == CHOOSE g : Is(g, 1)
<1>1. N \in Nat
  BY TxAssumption
<1>2. Restoring(acc, t, undo) = f
  BY DEF Restoring
<1> HIDE DEF N, base
<1>3. ASSUME NEW m \in 1 .. N, NEW g, Is(g, m + 1) PROVE \E e : Is(e, m)
  <2> DEFINE e == [j \in m .. N + 1 |-> IF j = N + 1 THEN base ELSE RestoreInput(g[j + 1], vin[t][j], undo[j])]
  <2>1. \A j \in m + 1 .. N + 1 : e[j] = g[j]
    BY <1>1, <1>3
  <2>2. \A j \in m .. N : j + 1 \in m + 1 .. N + 1
    BY <1>1
  <2>3. \A j \in m .. N + 1 : (IF j = N + 1 THEN base ELSE RestoreInput(e[j + 1], vin[t][j], undo[j])) = (IF j = N + 1 THEN base ELSE RestoreInput(g[j + 1], vin[t][j], undo[j]))
    <3> HIDE DEF e
    <3>1. \A j \in m .. N : e[j + 1] = g[j + 1]
      BY <2>1, <2>2
    <3>2. \A j \in m .. N + 1 : j = N + 1 \/ j \in m .. N
      BY <1>1
    <3>3. QED
      BY <3>1, <3>2
  <2>4. e = [j \in m .. N + 1 |-> IF j = N + 1 THEN base ELSE RestoreInput(e[j + 1], vin[t][j], undo[j])]
    BY <2>3, Zenon
  <2>5. QED
    BY <2>4
<1>4. \E e : Is(e, N + 1)
  <2> DEFINE e == [j \in N + 1 .. N + 1 |-> base]
  <2>1. e = [j \in N + 1 .. N + 1 |-> IF j = N + 1 THEN base ELSE RestoreInput(e[j + 1], vin[t][j], undo[j])]
    BY <1>1
  <2>2. QED
    BY <2>1
<1>5. \E g : Is(g, 1)
  <2> DEFINE S == {m \in 1 .. N + 1 : \E g : Is(g, m)}
  <2>1. N + 1 \in S
    BY <1>1, <1>4
  <2>2. ASSUME NEW n \in 1 .. N, n + 1 \in S PROVE n \in S
    <3>1. \E g : Is(g, n + 1)
      BY <2>2
    <3>2. n \in 1 .. N + 1
      BY <1>1
    <3> HIDE DEF Is
    <3>3. QED
      BY <1>3, <3>1, <3>2
  <2> HIDE DEF S
  <2>3. 1 \in 1 .. N + 1 /\ \A n \in 1 .. N + 1 : n \in S
    BY <1>1, <2>1, <2>2, Downward
  <2>4. QED
    BY <2>3 DEF S
<1>6. Is(f, 1)
  BY <1>5
<1> HIDE DEF f
<1>7. f[N + 1] = base /\ \A j \in 1 .. N : f[j] = RestoreInput(f[j + 1], vin[t][j], undo[j])
  BY <1>1, <1>6
<1>8. QED
  BY <1>2, <1>7 DEF N, base

(* DisconnectBlock goes through the transactions, the last first. *)
LEMMA DisconnectingIs ==
    ASSUME NEW view, NEW block, Len(block.vtx) \in Nat, NEW h
    PROVE  /\ Disconnecting(view, block, h)[Len(block.vtx) + 1] = [view |-> view, clean |-> TRUE]
           /\ \A i \in 1 .. Len(block.vtx) :
                 Disconnecting(view, block, h)[i] = DisconnectTx(Disconnecting(view, block, h)[i + 1], block, i, h)
<1> DEFINE N == Len(block.vtx)
           base == [view |-> view, clean |-> TRUE]
           Is(g, m) == g = [j \in m .. N + 1 |-> IF j = N + 1 THEN base ELSE DisconnectTx(g[j + 1], block, j, h)]
           f == CHOOSE g : Is(g, 1)
<1>1. N \in Nat
  OBVIOUS
<1>2. Disconnecting(view, block, h) = f
  BY DEF Disconnecting
<1> HIDE DEF N, base
<1>3. ASSUME NEW m \in 1 .. N, NEW g, Is(g, m + 1) PROVE \E e : Is(e, m)
  <2> DEFINE e == [j \in m .. N + 1 |-> IF j = N + 1 THEN base ELSE DisconnectTx(g[j + 1], block, j, h)]
  <2>1. \A j \in m + 1 .. N + 1 : e[j] = g[j]
    BY <1>1, <1>3
  <2>2. \A j \in m .. N : j + 1 \in m + 1 .. N + 1
    BY <1>1
  <2>3. \A j \in m .. N + 1 : (IF j = N + 1 THEN base ELSE DisconnectTx(e[j + 1], block, j, h)) = (IF j = N + 1 THEN base ELSE DisconnectTx(g[j + 1], block, j, h))
    <3> HIDE DEF e
    <3>1. \A j \in m .. N : e[j + 1] = g[j + 1]
      BY <2>1, <2>2
    <3>2. \A j \in m .. N + 1 : j = N + 1 \/ j \in m .. N
      BY <1>1
    <3>3. QED
      BY <3>1, <3>2
  <2>4. e = [j \in m .. N + 1 |-> IF j = N + 1 THEN base ELSE DisconnectTx(e[j + 1], block, j, h)]
    BY <2>3, Zenon
  <2>5. QED
    BY <2>4
<1>4. \E e : Is(e, N + 1)
  <2> DEFINE e == [j \in N + 1 .. N + 1 |-> base]
  <2>1. e = [j \in N + 1 .. N + 1 |-> IF j = N + 1 THEN base ELSE DisconnectTx(e[j + 1], block, j, h)]
    BY <1>1
  <2>2. QED
    BY <2>1
<1>5. \E g : Is(g, 1)
  <2> DEFINE S == {m \in 1 .. N + 1 : \E g : Is(g, m)}
  <2>1. N + 1 \in S
    BY <1>1, <1>4
  <2>2. ASSUME NEW n \in 1 .. N, n + 1 \in S PROVE n \in S
    <3>1. \E g : Is(g, n + 1)
      BY <2>2
    <3>2. n \in 1 .. N + 1
      BY <1>1
    <3> HIDE DEF Is
    <3>3. QED
      BY <1>3, <3>1, <3>2
  <2> HIDE DEF S
  <2>3. 1 \in 1 .. N + 1 /\ \A n \in 1 .. N + 1 : n \in S
    BY <1>1, <2>1, <2>2, Downward
  <2>4. QED
    BY <2>3 DEF S
<1>6. Is(f, 1)
  BY <1>5
<1> HIDE DEF f
<1>7. f[N + 1] = base /\ \A j \in 1 .. N : f[j] = DisconnectTx(f[j + 1], block, j, h)
  BY <1>1, <1>6
<1>8. QED
  BY <1>2, <1>7 DEF N, base

-----------------------------------------------------------------------------
(* Coins and views *)

(* The coins that can be left of a transaction. *)
CoinSet(t) == [vout : SUBSET Spendable[t], nHeight : Nat]

(* Coins have a height unless they are all spent. *)
CoinOK(t, c) == c \in CoinSet(t) /\ (c.vout # {} => c.nHeight # 0)

(* A view whose coins are all possible ones. *)
ViewOK(v) == DOMAIN v \subseteq Tx /\ \A t \in DOMAIN v : CoinOK(t, v[t])

(* Two views that answer alike to whoever asks them for coins. *)
Alike(v, w) == \A t \in Tx : Same(Get(v, t), Get(w, t))

(* To have no coins of a transaction is possible. *)
LEMMA EmptyIsOK == \A t : CoinOK(t, Empty)
BY TxAssumption DEF CoinOK, CoinSet, Empty

(* What a view answers is possible coins. *)
LEMMA GetIsOK ==
    ASSUME NEW v, ViewOK(v), NEW t
    PROVE  CoinOK(t, Get(v, t))
BY EmptyIsOK DEF ViewOK, Get

(* SetCoins adds a transaction to a view. *)
LEMMA SetDomain == ASSUME NEW v, NEW u, NEW c PROVE DOMAIN Set(v, u, c) = DOMAIN v \cup {u}
BY DEF Set

(* SetCoins changes the answer for that transaction and for no other. *)
LEMMA SetShows ==
    ASSUME NEW v, NEW u, NEW c, NEW t
    PROVE  Get(Set(v, u, c), t) = IF t = u THEN c ELSE Get(v, t)
BY DEF Set, Get

(* A view stays one when possible coins are set. *)
LEMMA SetIsOK ==
    ASSUME NEW v, ViewOK(v), NEW u \in Tx, NEW c, CoinOK(u, c)
    PROVE  ViewOK(Set(v, u, c))
BY DEF ViewOK, Set

(* Views are alike both ways. *)
LEMMA AlikeIsSymmetric == ASSUME NEW v, NEW w, Alike(v, w) PROVE Alike(w, v)
BY DEF Alike, Same

(* Views that are like the same view are alike. *)
LEMMA AlikeIsTransitive == ASSUME NEW v, NEW w, NEW x, Alike(v, w), Alike(w, x) PROVE Alike(v, x)
BY DEF Alike, Same

(* Coins without an output. *)
Less(c, n) == [c EXCEPT !.vout = @ \ {n}]

(* The undo record of that output: it has a height if the output is the      *)
(* last.                                                                     *)
Record(c, n) == IF c.vout = {n} THEN c.nHeight ELSE 0

(* Coins without an output are possible ones. *)
LEMMA LessIsOK ==
    ASSUME NEW t, NEW c, CoinOK(t, c), NEW n
    PROVE  CoinOK(t, Less(c, n)) /\ Less(c, n).vout = c.vout \ {n} /\ Less(c, n).nHeight = c.nHeight
BY DEF CoinOK, CoinSet, Less

(* Spending an available output takes it from the view and appends its undo  *)
(* record.                                                                   *)
LEMMA SpendOne ==
    ASSUME NEW acc, ViewOK(acc.view), NEW out \in Tx \X Nat, IsAvailable(acc.view, out)
    PROVE  LET c == Get(acc.view, out[1])
               a == SpendInput(acc, out)
           IN /\ a.view = Set(acc.view, out[1], Less(c, out[2]))
              /\ a.undo = Append(acc.undo, Record(c, out[2]))
              /\ ViewOK(a.view) /\ DOMAIN a.view = DOMAIN acc.view
<1> DEFINE c == Get(acc.view, out[1])
           a == SpendInput(acc, out)
<1>1. out[1] \in Tx /\ out[2] \in Nat /\ out[2] \in c.vout
  BY DEF IsAvailable
<1>2. out[1] \in DOMAIN acc.view
  BY <1>1 DEF Get, Empty
<1>3. c = acc.view[out[1]]
  BY <1>2 DEF Get
<1>4. a.view = Set(acc.view, out[1], Less(c, out[2])) /\ a.undo = Append(acc.undo, Record(c, out[2]))
  BY <1>3 DEF SpendInput, Spend, Less, Record
<1>5. CoinOK(out[1], c)
  BY GetIsOK
<1> HIDE DEF c, a
<1>6. CoinOK(out[1], Less(c, out[2]))
  BY <1>5, LessIsOK
<1>7. ViewOK(a.view) /\ DOMAIN a.view = DOMAIN acc.view
  <2> DEFINE x == out[1]
             y == Less(c, out[2])
             w == acc.view
  <2>1. x \in Tx /\ CoinOK(x, y) /\ ViewOK(w) /\ x \in DOMAIN w
    BY <1>1, <1>2, <1>6
  <2>2. a.view = Set(w, x, y)
    BY <1>4
  <2> HIDE DEF x, y, w
  <2>3. ViewOK(Set(w, x, y)) 
    BY <2>1, SetIsOK
  <2>4. DOMAIN Set(w, x, y) = DOMAIN w \cup {x}
    BY SetDomain
  <2>5. QED
    BY <2>1, <2>2, <2>3, <2>4 DEF w
<1>8. QED
  BY <1>4, <1>7 DEF c, a

(* Restoring an output from the undo record of its spending is clean and     *)
(* undoes the spending.                                                      *)
LEMMA RestoreOne ==
    ASSUME NEW v, ViewOK(v), NEW out \in Tx \X Nat, IsAvailable(v, out),
           NEW acc, ViewOK(acc.view), acc.clean = TRUE,
           Alike(acc.view, Set(v, out[1], Less(Get(v, out[1]), out[2])))
    PROVE  LET a == RestoreInput(acc, out, Record(Get(v, out[1]), out[2])) IN
           /\ a.clean = TRUE /\ ViewOK(a.view) /\ Alike(a.view, v)
           /\ DOMAIN acc.view \subseteq DOMAIN a.view
<1> DEFINE u == out[1]
           n == out[2]
           c == Get(v, u)
           d == Get(acc.view, u)
           undo == Record(c, n)
           r == Unspend(d, n, undo)
           a == RestoreInput(acc, out, undo)
<1>1. u \in Tx /\ n \in Nat /\ n \in c.vout
  BY DEF IsAvailable
<1>2. CoinOK(u, c) /\ CoinOK(u, d)
  BY GetIsOK
<1>3. c \in CoinSet(u) /\ d \in CoinSet(u) /\ c.nHeight # 0
  BY <1>1, <1>2 DEF CoinOK
<1>4. /\ Same(d, Less(c, n))
      /\ \A t \in Tx \ {u} : Same(Get(acc.view, t), Get(v, t))
  BY <1>1, SetShows DEF Alike
<1>5. Less(c, n).vout = c.vout \ {n} /\ Less(c, n).nHeight = c.nHeight
  BY <1>2, LessIsOK
<1>6. a.view = Set(acc.view, u, r.coins) /\ a.clean = (acc.clean /\ r.clean)
  BY DEF RestoreInput
<1> HIDE DEF c, d
<1>7. r.coins = c /\ r.clean = TRUE
  <2>1. CASE c.vout = {n}
    <3>1. undo = c.nHeight /\ undo # 0
      BY <1>3, <2>1 DEF Record
    <3>2. r.coins = [vout |-> {n}, nHeight |-> undo] /\ r.clean = IsPruned(d)
      BY <3>1 DEF Unspend
    <3>3. IsPruned(d)
      BY <1>4, <1>5, <2>1 DEF Same, IsPruned
    <3>4. c = [vout |-> {n}, nHeight |-> c.nHeight]
      BY <1>3, <2>1 DEF CoinSet
    <3>5. QED
      BY <3>1, <3>2, <3>3, <3>4
  <2>2. CASE c.vout # {n}
    <3>1. undo = 0
      BY <2>2 DEF Record
    <3>2. r.coins = [d EXCEPT !.vout = @ \cup {n}] /\ r.clean = (~IsPruned(d) /\ n \notin d.vout)
      BY <3>1 DEF Unspend
    <3>3. ~IsPruned(Less(c, n))
      BY <1>1, <1>5, <2>2 DEF IsPruned
    <3>4. d = Less(c, n)
      BY <1>4, <3>3 DEF Same
    <3>5. d.vout = c.vout \ {n} /\ d.nHeight = c.nHeight
      BY <1>5, <3>4
    <3>6. [d EXCEPT !.vout = @ \cup {n}] = c
      BY <1>1, <1>3, <3>5 DEF CoinSet
    <3>7. ~IsPruned(d) /\ n \notin d.vout
      BY <3>3, <3>4, <3>5
    <3>8. QED
      BY <3>2, <3>6, <3>7
  <2>3. QED
    BY <2>1, <2>2
<1> HIDE DEF r, a, undo, u, n
<1>8. ViewOK(a.view) /\ DOMAIN acc.view \subseteq DOMAIN a.view
  <2> DEFINE w == acc.view
  <2>1. ViewOK(w) /\ a.view = Set(w, u, c)
    BY <1>6, <1>7
  <2> HIDE DEF w
  <2>2. ViewOK(Set(w, u, c))
    BY <1>1, <1>2, <2>1, SetIsOK
  <2>3. DOMAIN Set(w, u, c) = DOMAIN w \cup {u}
    BY SetDomain
  <2>4. QED
    BY <2>1, <2>2, <2>3 DEF w
<1>9. \A t \in Tx : Get(a.view, t) = IF t = u THEN c ELSE Get(acc.view, t)
  BY <1>6, <1>7, SetShows
<1>10. Alike(a.view, v)
  BY <1>4, <1>9 DEF Alike, Same, c
<1>11. QED
  BY <1>6, <1>7, <1>8, <1>10 DEF c, r, a, undo, u, n

-----------------------------------------------------------------------------
(* Spending the inputs of a transaction *)

(* The outputs of u that the first n inputs of t spend. *)
Gone(t, u, n) == {m \in Nat : \E k \in 1 .. n : vin[t][k] = <<u, m>>}

(* The coins after n inputs of t have been spent from v. *)
SpentTo(v, t, a, n) ==
    /\ ViewOK(a.view) /\ DOMAIN a.view = DOMAIN v
    /\ \A u \in Tx : /\ Get(a.view, u).vout = Get(v, u).vout \ Gone(t, u, n)
                     /\ Get(a.view, u).nHeight = Get(v, u).nHeight

(* The undo records of n inputs of t. *)
UndoTo(v, t, a, n) ==
    /\ a.undo \in Seq(Nat) /\ Len(a.undo) = n
    /\ \A k \in 1 .. n : LET w == Spending(v, t)[k - 1].view IN
                            a.undo[k] = Record(Get(w, vin[t][k][1]), vin[t][k][2])

(* The inputs of a transaction are distinct outpoints. *)
LEMMA InputsAre ==
    ASSUME NEW t \in Tx \ CoinBase
    PROVE  /\ Len(vin[t]) \in Nat /\ DOMAIN vin[t] = 1 .. Len(vin[t])
           /\ \A k \in 1 .. Len(vin[t]) : vin[t][k] \in Tx \X Nat
           /\ \A k, l \in 1 .. Len(vin[t]) : vin[t][k] = vin[t][l] => k = l
<1>1. vin[t] \in Seq(Tx \X Nat) /\ IsInjective(vin[t])
  BY TxAssumption
<1>2. QED
  BY <1>1 DEF IsInjective

(* The next input is still available when those before it are spent, and     *)
(* spending it takes just that from the coins.                               *)
LEMMA SpendStep ==
    ASSUME NEW v, ViewOK(v), NEW t \in Tx \ CoinBase, HaveInputs(v, t),
           NEW n \in 1 .. Len(vin[t]), NEW a, SpentTo(v, t, a, n - 1)
    PROVE  /\ IsAvailable(a.view, vin[t][n])
           /\ SpentTo(v, t, SpendInput(a, vin[t][n]), n)
<1> DEFINE out == vin[t][n]
           b == SpendInput(a, out)
           c == Get(a.view, out[1])
<1>1. out \in Tx \X Nat /\ n \in Nat
  BY InputsAre
<1>2. out = <<out[1], out[2]>> /\ out[1] \in Tx /\ out[2] \in Nat
  BY <1>1
<1>3. IsAvailable(v, out)
  BY InputsAre DEF HaveInputs
<1>4. out[2] \notin Gone(t, out[1], n - 1)
  <2>1. SUFFICES ASSUME NEW k \in 1 .. n - 1, vin[t][k] = <<out[1], out[2]>> PROVE FALSE
    BY DEF Gone
  <2>2. k \in 1 .. Len(vin[t]) /\ k # n
    BY InputsAre
  <2>3. QED
    BY <1>2, <2>1, <2>2, InputsAre
<1>5. IsAvailable(a.view, out)
  BY <1>2, <1>3, <1>4 DEF IsAvailable, SpentTo
<1>6. ViewOK(a.view) /\ DOMAIN a.view = DOMAIN v
  BY DEF SpentTo
<1>7. /\ b.view = Set(a.view, out[1], Less(c, out[2]))
      /\ ViewOK(b.view) /\ DOMAIN b.view = DOMAIN a.view
  <2> HIDE DEF out
  <2>1. QED
    BY <1>1, <1>5, <1>6, SpendOne
<1>8. \A u \in Tx : Gone(t, u, n) = Gone(t, u, n - 1) \cup (IF u = out[1] THEN {out[2]} ELSE {})
  <2>1. \A k : k \in 1 .. n <=> (k \in 1 .. n - 1 \/ k = n)
    BY <1>1, InputsAre
  <2> HIDE DEF out
  <2>2. vin[t][n] = out
    BY DEF out
  <2>3. QED
    BY <1>2, <2>1, <2>2 DEF Gone
<1>9. CoinOK(out[1], c)
  BY <1>6, GetIsOK
<1>10. Less(c, out[2]).vout = c.vout \ {out[2]} /\ Less(c, out[2]).nHeight = c.nHeight
  BY <1>9, LessIsOK
<1>11. ASSUME NEW u \in Tx
       PROVE  Get(b.view, u).vout = Get(v, u).vout \ Gone(t, u, n) /\ Get(b.view, u).nHeight = Get(v, u).nHeight
  <2>1. Get(a.view, u).vout = Get(v, u).vout \ Gone(t, u, n - 1) /\ Get(a.view, u).nHeight = Get(v, u).nHeight
    BY DEF SpentTo
  <2>2. Get(b.view, u) = IF u = out[1] THEN Less(c, out[2]) ELSE Get(a.view, u)
    BY <1>7, SetShows
  <2>3. CASE u = out[1]
    <3>1. Gone(t, u, n) = Gone(t, u, n - 1) \cup {out[2]}
      BY <1>8, <2>3
    <3>2. Get(b.view, u).vout = Get(a.view, u).vout \ {out[2]} /\ Get(b.view, u).nHeight = Get(a.view, u).nHeight
      BY <1>10, <2>2, <2>3
    <3> HIDE DEF b, out
    <3>3. QED
      BY <2>1, <3>1, <3>2
  <2>4. CASE u # out[1]
    <3>1. Gone(t, u, n) = Gone(t, u, n - 1)
      BY <1>8, <2>4
    <3>2. Get(b.view, u) = Get(a.view, u)
      BY <2>2, <2>4
    <3> HIDE DEF b, out
    <3>3. QED
      BY <2>1, <3>1, <3>2
  <2>5. QED
    BY <2>3, <2>4
<1> HIDE DEF b, out
<1>12. SpentTo(v, t, b, n)
  BY <1>6, <1>7, <1>11 DEF SpentTo
<1>13. QED
  BY <1>5, <1>12 DEF b, out

(* UpdateCoins spends just the inputs, and its undo data has a record of     *)
(* each.                                                                     *)
LEMMA SpendingAll ==
    ASSUME NEW v, ViewOK(v), NEW t \in Tx \ CoinBase, HaveInputs(v, t)
    PROVE  \A n \in 0 .. Len(vin[t]) :
              SpentTo(v, t, Spending(v, t)[n], n) /\ UndoTo(v, t, Spending(v, t)[n], n)
<1> DEFINE N == Len(vin[t])
           s == Spending(v, t)
           S == {n \in 0 .. N : SpentTo(v, t, s[n], n) /\ UndoTo(v, t, s[n], n)}
<1>1. N \in Nat
  BY InputsAre
<1>2. s[0] = [view |-> v, undo |-> <<>>] /\ \A n \in 1 .. N : s[n] = SpendInput(s[n - 1], vin[t][n])
  BY SpendingIs
<1> HIDE DEF N, s
<1>3. 0 \in S
  <2>1. \A u \in Tx : Gone(t, u, 0) = {}
    BY DEF Gone
  <2>2. SpentTo(v, t, s[0], 0)
    BY <1>2, <2>1 DEF SpentTo
  <2>3. UndoTo(v, t, s[0], 0)
    BY <1>2 DEF UndoTo
  <2>4. QED
    BY <1>1, <2>2, <2>3
<1>4. ASSUME NEW n \in 1 .. N, n - 1 \in S PROVE n \in S
  <2> DEFINE a == s[n - 1]
             out == vin[t][n]
  <2>1. SpentTo(v, t, a, n - 1) /\ UndoTo(v, t, a, n - 1) /\ s[n] = SpendInput(a, out) /\ out \in Tx \X Nat
    BY <1>2, <1>4, InputsAre DEF N
  <2>2. n \in 1 .. Len(vin[t]) /\ n - 1 \in Nat
    BY DEF N
  <2> HIDE DEF a
  <2>4. IsAvailable(a.view, out) /\ SpentTo(v, t, s[n], n)
    BY <2>1, <2>2, SpendStep
  <2>5. ViewOK(a.view)
    BY <2>1 DEF SpentTo
  <2>6. s[n].undo = Append(a.undo, Record(Get(a.view, out[1]), out[2]))
    <3> HIDE DEF out
    <3>1. QED
      BY <2>1, <2>4, <2>5, SpendOne
  <2>7. UndoTo(v, t, s[n], n)
    <3> DEFINE r == Record(Get(a.view, out[1]), out[2])
    <3>1. a.undo \in Seq(Nat) /\ Len(a.undo) = n - 1
      BY <2>1 DEF UndoTo
    <3>2. r \in Nat
      <4>1. CoinOK(out[1], Get(a.view, out[1]))
        BY <2>5, GetIsOK
      <4>2. QED
        BY <4>1, TxAssumption DEF CoinOK, CoinSet, Record
    <3> HIDE DEF r
    <3>3. s[n].undo = Append(a.undo, r)
      BY <2>6 DEF r
    <3>4. s[n].undo \in Seq(Nat) /\ Len(s[n].undo) = n /\ s[n].undo[n] = r /\ \A k \in 1 .. n - 1 : s[n].undo[k] = a.undo[k]
      BY <2>2, <3>1, <3>2, <3>3
    <3>5. r = Record(Get(Spending(v, t)[n - 1].view, vin[t][n][1]), vin[t][n][2])
      BY DEF r, a, s
    <3>6. \A k \in 1 .. n : k \in 1 .. n - 1 \/ k = n
      OBVIOUS
    <3>7. QED
      BY <2>1, <3>4, <3>5, <3>6 DEF UndoTo
  <2>8. QED
    BY <2>4, <2>7
<1> HIDE DEF S
<1>5. \A n \in 0 .. N : n \in S
  BY <1>1, <1>3, <1>4, Upward
<1>6. QED
  BY <1>5 DEF S, s, N

(* The outputs of u that t spends. *)
SpentIn(t, u) == {m \in Nat : Spends(t, <<u, m>>)}

(* What UpdateCoins leaves of v for t at height h: the outputs of t, and of  *)
(* the others what t does not spend.                                         *)
Updated(v, t, h, w) ==
    /\ ViewOK(w) /\ DOMAIN w = DOMAIN v \cup {t}
    /\ Get(w, t) = Coins(t, h)
    /\ \A u \in Tx \ {t} : /\ Get(w, u).vout = Get(v, u).vout \ SpentIn(t, u)
                           /\ Get(w, u).nHeight = Get(v, u).nHeight

(* What a transaction spends is what all of its inputs spend. *)
LEMMA SpentInIs ==
    ASSUME NEW t \in Tx \ CoinBase, NEW u
    PROVE  SpentIn(t, u) = Gone(t, u, Len(vin[t]))
<1>1. ToSet(vin[t]) = {vin[t][k] : k \in 1 .. Len(vin[t])}
  BY InputsAre DEF ToSet
<1>2. QED
  BY <1>1 DEF SpentIn, Gone, Spends

(* UpdateCoins before it adds the outputs of the transaction. *)
SpentOf(v, t) == IF t \in CoinBase THEN [view |-> v, undo |-> <<>>] ELSE Spending(v, t)[Len(vin[t])]

(* It takes what the transaction spends from the coins, and adds nothing. *)
LEMMA SpentOfIs ==
    ASSUME NEW v, ViewOK(v), NEW t \in Tx, HaveInputs(v, t), NEW h
    PROVE  LET a == SpentOf(v, t) IN
           /\ UpdateCoins(v, t, h).view = Set(a.view, t, Coins(t, h))
           /\ UpdateCoins(v, t, h).undo = a.undo
           /\ ViewOK(a.view) /\ DOMAIN a.view = DOMAIN v /\ a.undo \in Seq(Nat)
           /\ \A u \in Tx : /\ Get(a.view, u).vout = Get(v, u).vout \ SpentIn(t, u)
                            /\ Get(a.view, u).nHeight = Get(v, u).nHeight
<1> DEFINE a == SpentOf(v, t)
           U == UpdateCoins(v, t, h)
<1>1. /\ ViewOK(a.view) /\ DOMAIN a.view = DOMAIN v /\ a.undo \in Seq(Nat)
      /\ \A u \in Tx : /\ Get(a.view, u).vout = Get(v, u).vout \ SpentIn(t, u)
                       /\ Get(a.view, u).nHeight = Get(v, u).nHeight
  <2>1. CASE t \in CoinBase
    <3>1. a = [view |-> v, undo |-> <<>>]
      BY <2>1 DEF SpentOf
    <3>2. \A u \in Tx : SpentIn(t, u) = {}
      BY <2>1 DEF SpentIn, Spends
    <3> HIDE DEF a
    <3>3. QED
      BY <3>1, <3>2
  <2>2. CASE t \notin CoinBase
    <3>1. a = Spending(v, t)[Len(vin[t])]
      BY <2>2 DEF SpentOf
    <3>2. Len(vin[t]) \in 0 .. Len(vin[t])
      BY <2>2, InputsAre
    <3>3. SpentTo(v, t, a, Len(vin[t])) /\ UndoTo(v, t, a, Len(vin[t]))
      BY <2>2, <3>1, <3>2, SpendingAll
    <3>4. \A u \in Tx : SpentIn(t, u) = Gone(t, u, Len(vin[t]))
      BY <2>2, SpentInIs
    <3> HIDE DEF a
    <3>5. QED
      BY <3>3, <3>4 DEF SpentTo, UndoTo
  <2>3. QED
    BY <2>1, <2>2
<1>2. \E x, y : a = [view |-> x, undo |-> y]
  <2>1. CASE t \in CoinBase
    BY <2>1 DEF SpentOf
  <2>2. CASE t \notin CoinBase
    <3> DEFINE N == Len(vin[t])
    <3>1. N \in Nat /\ a = Spending(v, t)[N]
      BY <2>2, InputsAre DEF SpentOf
    <3>2. Spending(v, t)[0] = [view |-> v, undo |-> <<>>] /\ \A n \in 1 .. N : Spending(v, t)[n] = SpendInput(Spending(v, t)[n - 1], vin[t][n])
      BY <2>2, SpendingIs
    <3> HIDE DEF N, a
    <3>3. CASE N = 0
      BY <3>1, <3>2, <3>3
    <3>4. CASE N # 0
      <4>1. N \in 1 .. N
        BY <3>1, <3>4
      <4>2. QED
        BY <3>1, <3>2, <4>1 DEF SpendInput
    <3>5. QED
      BY <3>3, <3>4
  <2>3. QED
    BY <2>1, <2>2
<1>3. U = [a EXCEPT !.view = Set(@, t, Coins(t, h))]
  BY DEF UpdateCoins, SpentOf
<1> HIDE DEF a, U
<1>4. U.view = Set(a.view, t, Coins(t, h)) /\ U.undo = a.undo
  BY <1>2, <1>3
<1>5. QED
  BY <1>1, <1>4, Zenon DEF a, U

(* The outputs of a transaction at a height are possible coins. *)
LEMMA CoinsAreOK ==
    ASSUME NEW t \in Tx, NEW h \in Nat \ {0}
    PROVE  CoinOK(t, Coins(t, h))
BY TxAssumption DEF CoinOK, CoinSet, Coins

(* UpdateCoins leaves of a view with the inputs just what it should. *)
LEMMA UpdateIs ==
    ASSUME NEW v, ViewOK(v), NEW t \in Tx, HaveInputs(v, t), NEW h \in Nat \ {0}
    PROVE  Updated(v, t, h, UpdateCoins(v, t, h).view) /\ UpdateCoins(v, t, h).undo \in Seq(Nat)
<1> DEFINE a == SpentOf(v, t)
           U == UpdateCoins(v, t, h)
           c == Coins(t, h)
           x == a.view
<1>1. /\ U.view = Set(x, t, c) /\ U.undo = a.undo
      /\ ViewOK(x) /\ DOMAIN x = DOMAIN v /\ a.undo \in Seq(Nat)
      /\ \A u \in Tx : /\ Get(x, u).vout = Get(v, u).vout \ SpentIn(t, u)
                       /\ Get(x, u).nHeight = Get(v, u).nHeight
  BY SpentOfIs, ZenonT(60)
<1>2. CoinOK(t, c)
  BY CoinsAreOK
<1> HIDE DEF U, a, x
<1>3. ViewOK(Set(x, t, c)) /\ DOMAIN Set(x, t, c) = DOMAIN x \cup {t}
  <2> HIDE DEF c
  <2>1. ViewOK(Set(x, t, c))
    BY <1>1, <1>2, SetIsOK
  <2>2. DOMAIN Set(x, t, c) = DOMAIN x \cup {t}
    BY SetDomain
  <2>3. QED
    BY <2>1, <2>2
<1>4. \A u \in Tx : Get(Set(x, t, c), u) = IF u = t THEN c ELSE Get(x, u)
  BY SetShows
<1>5. Updated(v, t, h, U.view)
  BY <1>1, <1>3, <1>4 DEF Updated
<1>6. QED
  BY <1>1, <1>5 DEF U

(* Restoring all inputs of a transaction, the last first, from their undo    *)
(* records is clean and gives back the coins there were.                     *)
LEMMA RestoringAll ==
    ASSUME NEW v, ViewOK(v), NEW t \in Tx \ CoinBase, HaveInputs(v, t),
           NEW acc, ViewOK(acc.view), acc.clean = TRUE,
           Alike(acc.view, Spending(v, t)[Len(vin[t])].view),
           NEW undo, undo = Spending(v, t)[Len(vin[t])].undo
    PROVE  LET a == Restoring(acc, t, undo)[1] IN
           /\ a.clean = TRUE /\ ViewOK(a.view) /\ Alike(a.view, v)
           /\ DOMAIN acc.view \subseteq DOMAIN a.view
<1> DEFINE N == Len(vin[t])
           s == Spending(v, t)
           r == Restoring(acc, t, undo)
           Good(a, w) == /\ a.clean = TRUE /\ ViewOK(a.view) /\ Alike(a.view, w)
                         /\ DOMAIN acc.view \subseteq DOMAIN a.view
           S == {j \in 1 .. N + 1 : Good(r[j], s[j - 1].view)}
<1>1. N \in Nat
  BY InputsAre
<1>2. s[0] = [view |-> v, undo |-> <<>>] /\ \A n \in 1 .. N : s[n] = SpendInput(s[n - 1], vin[t][n])
  BY SpendingIs
<1>3. r[N + 1] = acc /\ \A j \in 1 .. N : r[j] = RestoreInput(r[j + 1], vin[t][j], undo[j])
  BY RestoringIs
<1>4. \A n \in 0 .. N : SpentTo(v, t, s[n], n) /\ UndoTo(v, t, s[n], n)
  BY SpendingAll
<1>5. Alike(acc.view, s[N].view) /\ undo = s[N].undo
  OBVIOUS
<1> HIDE DEF N, s, r
<1>6. N + 1 \in S
  <2>1. N + 1 - 1 = N /\ N + 1 \in 1 .. N + 1
    BY <1>1
  <2>2. Good(acc, s[N].view)
    BY <1>5
  <2>3. r[N + 1] = acc /\ s[N + 1 - 1] = s[N]
    BY <1>3, <2>1
  <2>4. Good(r[N + 1], s[N + 1 - 1].view)
    BY <2>2, <2>3
  <2>5. QED
    BY <1>1, <2>1, <2>4
<1>7. ASSUME NEW j \in 1 .. N, j + 1 \in S PROVE j \in S
  <2> DEFINE out == vin[t][j]
             b == s[j - 1]
             w == b.view
             a == r[j + 1]
  <2>1. j + 1 - 1 = j /\ j - 1 \in 0 .. N /\ j \in 1 .. N + 1 /\ N \in 0 .. N /\ j \in 1 .. Len(vin[t])
    BY <1>1 DEF N
  <2>2. Good(a, s[j].view) /\ r[j] = RestoreInput(a, out, undo[j]) /\ s[j] = SpendInput(b, out)
    BY <1>2, <1>3, <1>7, <2>1
  <2>3. SpentTo(v, t, b, j - 1) /\ undo[j] = Record(Get(w, out[1]), out[2])
    BY <1>4, <1>5, <2>1 DEF UndoTo, s
  <2>4. out \in Tx \X Nat
    BY <2>1, InputsAre
  <2>5. IsAvailable(w, out) /\ ViewOK(w)
    <3> HIDE DEF b
    <3>1. IsAvailable(b.view, vin[t][j])
      BY <2>1, <2>3, SpendStep
    <3>2. QED
      BY <2>3, <3>1 DEF SpentTo
  <2>6. s[j].view = Set(w, out[1], Less(Get(w, out[1]), out[2]))
    <3> HIDE DEF b, out
    <3>1. QED
      BY <2>2, <2>4, <2>5, SpendOne
  <2> HIDE DEF w, out, a, b
  <2>7. /\ ViewOK(a.view) /\ a.clean = TRUE
        /\ Alike(a.view, Set(w, out[1], Less(Get(w, out[1]), out[2])))
    BY <2>2, <2>6
  <2>8. LET e == RestoreInput(a, out, Record(Get(w, out[1]), out[2])) IN
        /\ e.clean = TRUE /\ ViewOK(e.view) /\ Alike(e.view, w) /\ DOMAIN a.view \subseteq DOMAIN e.view
    BY <2>4, <2>5, <2>7, RestoreOne
  <2>9. Good(r[j], w)
    BY <2>2, <2>3, <2>8
  <2>10. QED
    BY <2>1, <2>9 DEF w, b
<1> HIDE DEF S
<1>8. \A j \in 1 .. N + 1 : j \in S
  BY <1>1, <1>6, <1>7, Downward
<1>9. Good(r[1], s[0].view)
  <2>1. 1 \in 1 .. N + 1 /\ 1 - 1 = 0
    BY <1>1
  <2>2. 1 \in S
    BY <1>8, <2>1
  <2>3. QED
    BY <2>1, <2>2 DEF S
<1>10. Good(r[1], v)
  <2> HIDE DEF Good
  <2>1. QED
    BY <1>2, <1>9
<1>11. QED
  BY <1>10 DEF r

-----------------------------------------------------------------------------
(* Connecting a block, transaction by transaction *)

(* A state of ConnectBlock. *)
IsAcc(a) == a = [ok |-> a.ok, view |-> a.view, vtxundo |-> a.vtxundo]

(* A block that ConnectBlock accepts on a view. *)
Fits(v, vtx, h) == ViewOK(v) /\ vtx \in Blocks /\ h \in Nat \ {0} /\ ConnectBlock(v, vtx, h).ok

(* A block has a coinbase first and no transaction twice. *)
LEMMA BlockIs ==
    ASSUME NEW vtx \in Blocks
    PROVE  /\ Len(vtx) \in Nat \ {0} /\ DOMAIN vtx = 1 .. Len(vtx) /\ vtx[1] \in CoinBase
           /\ \A i \in 1 .. Len(vtx) : vtx[i] \in Tx
           /\ \A i, j \in 1 .. Len(vtx) : vtx[i] = vtx[j] => i = j
<1>1. vtx \in Seq(Tx) /\ Len(vtx) > 0 /\ vtx[1] \in CoinBase /\ IsInjective(vtx)
  BY BlocksAssumption
<1>2. QED
  BY <1>1 DEF IsInjective

(* If ConnectBlock accepts after a transaction it has accepted before it,    *)
(* the inputs were there, and UpdateCoins has been called.                   *)
LEMMA ConnectTxIs ==
    ASSUME NEW a, IsAcc(a), NEW vtx, NEW i, NEW h
    PROVE  LET b == ConnectTx(a, vtx, i, h)
               u == UpdateCoins(a.view, vtx[i], h)
           IN /\ IsAcc(b)
              /\ b.ok => /\ a.ok /\ HaveInputs(a.view, vtx[i]) /\ b.view = u.view
                         /\ b.vtxundo = IF i = 1 THEN a.vtxundo ELSE Append(a.vtxundo, u.undo)
<1> DEFINE b == ConnectTx(a, vtx, i, h)
           u == UpdateCoins(a.view, vtx[i], h)
           z == IF i = 1 THEN a.vtxundo ELSE Append(a.vtxundo, u.undo)
<1>1. CASE ~a.ok \/ ~HaveInputs(a.view, vtx[i])
  <2>1. b = [a EXCEPT !.ok = FALSE]
    BY <1>1 DEF ConnectTx
  <2>2. b = [ok |-> FALSE, view |-> a.view, vtxundo |-> a.vtxundo]
    BY <2>1 DEF IsAcc
  <2> HIDE DEF b
  <2>3. IsAcc(b) /\ b.ok = FALSE
    BY <2>2 DEF IsAcc
  <2>4. QED
    BY <2>3 DEF b
<1>2. CASE ~(~a.ok \/ ~HaveInputs(a.view, vtx[i]))
  <2>1. b = [a EXCEPT !.view = u.view, !.vtxundo = z]
    BY <1>2 DEF ConnectTx
  <2> HIDE DEF z, u
  <2>2. b = [ok |-> a.ok, view |-> u.view, vtxundo |-> z]
    BY <2>1 DEF IsAcc
  <2> HIDE DEF b
  <2>3. IsAcc(b) /\ b.ok = a.ok /\ b.view = u.view /\ b.vtxundo = z
    BY <2>2 DEF IsAcc
  <2>4. QED
    BY <1>2, <2>3 DEF b, z, u
<1>3. QED
  BY <1>1, <1>2

(* If ConnectBlock accepts the block it accepts all the way. *)
LEMMA ConnectingOk ==
    ASSUME NEW v, NEW vtx, NEW h, Fits(v, vtx, h)
    PROVE  \A n \in 0 .. Len(vtx) : IsAcc(Connecting(v, vtx, h)[n]) /\ Connecting(v, vtx, h)[n].ok
<1> DEFINE N == Len(vtx)
           c == Connecting(v, vtx, h)
           S == {n \in 0 .. N : IsAcc(c[n])}
           T == {n \in 1 .. N + 1 : c[n - 1].ok}
<1>1. N \in Nat /\ c[N].ok
  BY BlockIs DEF Fits, ConnectBlock
<1>2. /\ c[0] = [ok |-> \A i \in DOMAIN vtx : IsPruned(Get(v, vtx[i])), view |-> v, vtxundo |-> <<>>]
      /\ \A n \in 1 .. N : c[n] = ConnectTx(c[n - 1], vtx, n, h)
  BY <1>1, ConnectingIs
<1> HIDE DEF N, c
<1>3. 0 \in S
  BY <1>1, <1>2 DEF IsAcc
<1>4. ASSUME NEW n \in 1 .. N, n - 1 \in S PROVE n \in S
  BY <1>2, <1>4, ConnectTxIs
<1>5. \A n \in 0 .. N : n \in S
  <2> HIDE DEF S
  <2>1. QED
    BY <1>1, <1>3, <1>4, Upward
<1>6. N + 1 \in T
  <2>1. N + 1 - 1 = N /\ N + 1 \in 1 .. N + 1
    BY <1>1
  <2>2. c[N + 1 - 1].ok
    BY <1>1, <2>1
  <2>3. QED
    BY <1>1, <2>1, <2>2
<1>7. ASSUME NEW n \in 1 .. N, n + 1 \in T PROVE n \in T
  <2>1. n + 1 - 1 = n /\ n \in 1 .. N + 1 /\ n - 1 \in 0 .. N
    BY <1>1
  <2>2. c[n].ok
    BY <1>7, <2>1
  <2>3. IsAcc(c[n - 1])
    BY <1>5, <2>1
  <2>4. c[n - 1].ok
    BY <1>2, <2>2, <2>3, ConnectTxIs
  <2>5. QED
    BY <2>1, <2>4
<1>8. \A n \in 1 .. N + 1 : n \in T
  <2> HIDE DEF T
  <2>1. QED
    BY <1>1, <1>6, <1>7, Downward
<1>9. ASSUME NEW n \in 0 .. N PROVE c[n].ok
  <2>1. n + 1 \in 1 .. N + 1 /\ n + 1 - 1 = n
    BY <1>1
  <2>2. n + 1 \in T
    BY <1>8, <2>1
  <2>3. QED
    BY <2>1, <2>2
<1>10. QED
  BY <1>5, <1>9 DEF c, N

(* The state of ConnectBlock after n transactions: the later ones have no    *)
(* coins yet, and there is undo data of each but the first.                  *)
ConnectedTo(v, vtx, h, a, n) ==
    /\ ViewOK(a.view) /\ DOMAIN a.view = DOMAIN v \cup {vtx[k] : k \in 1 .. n}
    /\ \A k \in n + 1 .. Len(vtx) : IsPruned(Get(a.view, vtx[k]))
    /\ a.vtxundo \in Seq(Seq(Nat)) /\ Len(a.vtxundo) = IF n = 0 THEN 0 ELSE n - 1
    /\ \A m \in 2 .. n : a.vtxundo[m - 1] = UpdateCoins(Connecting(v, vtx, h)[m - 1].view, vtx[m], h).undo

(* The next transaction has its inputs, and the state after it is as it      *)
(* should be.                                                                *)
LEMMA ConnectStep ==
    ASSUME NEW v, NEW vtx, NEW h, Fits(v, vtx, h), NEW n \in 1 .. Len(vtx),
           ConnectedTo(v, vtx, h, Connecting(v, vtx, h)[n - 1], n - 1)
    PROVE  /\ HaveInputs(Connecting(v, vtx, h)[n - 1].view, vtx[n])
           /\ Connecting(v, vtx, h)[n].view = UpdateCoins(Connecting(v, vtx, h)[n - 1].view, vtx[n], h).view
           /\ ConnectedTo(v, vtx, h, Connecting(v, vtx, h)[n], n)
<1> DEFINE c == Connecting(v, vtx, h)
           a == c[n - 1]
           b == c[n]
           t == vtx[n]
           u == UpdateCoins(a.view, t, h)
<1>1. /\ vtx \in Blocks /\ h \in Nat \ {0} /\ t \in Tx
      /\ Len(vtx) \in Nat /\ n - 1 \in 0 .. Len(vtx) /\ n \in 0 .. Len(vtx)
  BY BlockIs DEF Fits
<1>2. IsAcc(a) /\ b.ok
  BY <1>1, ConnectingOk
<1>3. b = ConnectTx(a, vtx, n, h)
  BY <1>1, ConnectingIs
<1>4. ConnectedTo(v, vtx, h, a, n - 1)
  OBVIOUS
<1> HIDE DEF c, a, b
<1>5. /\ HaveInputs(a.view, t) /\ b.view = u.view
      /\ b.vtxundo = IF n = 1 THEN a.vtxundo ELSE Append(a.vtxundo, u.undo)
  BY <1>2, <1>3, ConnectTxIs
<1>6. ViewOK(a.view) /\ DOMAIN a.view = DOMAIN v \cup {vtx[k] : k \in 1 .. n - 1}
  BY <1>4 DEF ConnectedTo
<1> HIDE DEF t
<1>7. Updated(a.view, t, h, u.view) /\ u.undo \in Seq(Nat)
  <2> DEFINE w == a.view
  <2>1. ViewOK(w) /\ HaveInputs(w, t)
    BY <1>5, <1>6
  <2> HIDE DEF w
  <2>2. Updated(w, t, h, UpdateCoins(w, t, h).view) /\ UpdateCoins(w, t, h).undo \in Seq(Nat)
    BY <1>1, <2>1, UpdateIs
  <2>3. QED
    BY <2>2 DEF w
<1> HIDE DEF u
<1>8. ViewOK(b.view) /\ DOMAIN b.view = DOMAIN v \cup {vtx[k] : k \in 1 .. n}
  <2>1. ViewOK(b.view) /\ DOMAIN b.view = DOMAIN a.view \cup {t}
    BY <1>5, <1>7 DEF Updated
  <2>2. \A k : k \in 1 .. n <=> (k \in 1 .. n - 1 \/ k = n)
    BY <1>1
  <2>3. {vtx[k] : k \in 1 .. n} = {vtx[k] : k \in 1 .. n - 1} \cup {t}
    BY <2>2 DEF t
  <2>4. QED
    BY <1>6, <2>1, <2>3
<1>9. ASSUME NEW k \in n + 1 .. Len(vtx) PROVE IsPruned(Get(b.view, vtx[k]))
  <2>1. k \in (n - 1) + 1 .. Len(vtx) /\ k \in 1 .. Len(vtx) /\ k # n
    BY <1>1
  <2>2. IsPruned(Get(a.view, vtx[k]))
    BY <1>4, <2>1 DEF ConnectedTo
  <2>3. vtx[k] \in Tx \ {t}
    BY <1>1, <2>1, BlockIs DEF t
  <2>4. Get(b.view, vtx[k]).vout = Get(a.view, vtx[k]).vout \ SpentIn(t, vtx[k])
    BY <1>5, <1>7, <2>3 DEF Updated
  <2>5. QED
    BY <2>2, <2>4 DEF IsPruned
<1>10. /\ b.vtxundo \in Seq(Seq(Nat)) /\ Len(b.vtxundo) = n - 1
       /\ \A m \in 2 .. n : b.vtxundo[m - 1] = UpdateCoins(c[m - 1].view, vtx[m], h).undo
  <2>1. a.vtxundo \in Seq(Seq(Nat)) /\ Len(a.vtxundo) = IF n - 1 = 0 THEN 0 ELSE n - 1 - 1
    BY <1>4 DEF ConnectedTo
  <2>2. \A m \in 2 .. n - 1 : a.vtxundo[m - 1] = UpdateCoins(c[m - 1].view, vtx[m], h).undo
    BY <1>4 DEF ConnectedTo, c
  <2>3. CASE n = 1
    <3>1. b.vtxundo = a.vtxundo /\ \A m \in 2 .. n : FALSE
      BY <1>5, <2>3
    <3>2. QED
      BY <2>1, <2>3, <3>1
  <2>4. CASE n # 1
    <3>1. n \in Nat /\ n - 1 # 0 /\ n - 1 \in Nat /\ n - 2 \in Nat /\ n - 1 - 1 = n - 2
      BY <1>1, <2>4
    <3>2. b.vtxundo = Append(a.vtxundo, u.undo) /\ Len(a.vtxundo) = n - 2
      BY <1>5, <2>1, <2>4, <3>1
    <3>3. b.vtxundo \in Seq(Seq(Nat)) /\ Len(b.vtxundo) = n - 1 /\ b.vtxundo[n - 1] = u.undo
      BY <1>7, <2>1, <3>1, <3>2
    <3>4. \A i \in 1 .. n - 2 : b.vtxundo[i] = a.vtxundo[i]
      BY <1>7, <2>1, <3>1, <3>2
    <3>5. u.undo = UpdateCoins(c[n - 1].view, vtx[n], h).undo
      BY DEF u, a, t
    <3>6. \A m \in 2 .. n : m = n \/ (m \in 2 .. n - 1 /\ m - 1 \in 1 .. n - 2)
      BY <3>1
    <3> HIDE DEF u
    <3>7. \A m \in 2 .. n : b.vtxundo[m - 1] = UpdateCoins(c[m - 1].view, vtx[m], h).undo
      BY <2>2, <3>3, <3>4, <3>5, <3>6
    <3>8. QED
      BY <3>3, <3>7
  <2>5. QED
    BY <2>3, <2>4
<1>11. ConnectedTo(v, vtx, h, b, n)
  <2>1. n # 0
    OBVIOUS
  <2>2. QED
    BY <1>8, <1>9, <1>10, <2>1 DEF ConnectedTo, c
<1>12. QED
  BY <1>5, <1>11 DEF u, t, a, b, c

(* So it is after every transaction. *)
LEMMA ConnectingAll ==
    ASSUME NEW v, NEW vtx, NEW h, Fits(v, vtx, h)
    PROVE  \A n \in 0 .. Len(vtx) : ConnectedTo(v, vtx, h, Connecting(v, vtx, h)[n], n)
<1> DEFINE N == Len(vtx)
           c == Connecting(v, vtx, h)
           S == {n \in 0 .. N : ConnectedTo(v, vtx, h, c[n], n)}
<1>1. N \in Nat /\ vtx \in Blocks /\ 0 \in 0 .. N
  BY BlockIs DEF Fits
<1>2. c[0] = [ok |-> \A i \in DOMAIN vtx : IsPruned(Get(v, vtx[i])), view |-> v, vtxundo |-> <<>>]
  BY <1>1, ConnectingIs
<1>3. c[0].ok
  BY <1>1, ConnectingOk
<1>4. ConnectedTo(v, vtx, h, c[0], 0)
  <2> HIDE DEF c
  <2>1. c[0].view = v /\ c[0].vtxundo = <<>> /\ \A i \in DOMAIN vtx : IsPruned(Get(v, vtx[i]))
    BY <1>2, <1>3
  <2>2. DOMAIN vtx = 0 + 1 .. Len(vtx) /\ \A m \in 2 .. 0 : FALSE
    BY <1>1, BlockIs
  <2>3. ViewOK(v)
    BY DEF Fits
  <2>4. DOMAIN c[0].view = DOMAIN v \cup {vtx[k] : k \in 1 .. 0}
    <3>1. {vtx[k] : k \in 1 .. 0} = {}
      OBVIOUS
    <3>2. QED
      BY <2>1, <3>1
  <2>5. QED
    BY <2>1, <2>2, <2>3, <2>4 DEF ConnectedTo
<1>5. 0 \in S
  BY <1>1, <1>4
<1>6. ASSUME NEW n \in 1 .. N, n - 1 \in S PROVE n \in S
  <2>1. ConnectedTo(v, vtx, h, c[n - 1], n - 1) /\ n \in 0 .. N
    BY <1>1, <1>6
  <2>2. ConnectedTo(v, vtx, h, c[n], n)
    BY <2>1, ConnectStep
  <2>3. QED
    BY <2>1, <2>2
<1> HIDE DEF S, N
<1>7. \A n \in 0 .. N : n \in S
  BY <1>1, <1>5, <1>6, Upward
<1>8. QED
  BY <1>7 DEF S, N

-----------------------------------------------------------------------------
(* Disconnecting it *)

(* DisconnectBlock removes the outputs of a transaction, cleanly if they are *)
(* all there and its height is right.                                        *)
LEMMA RemovedIs ==
    ASSUME NEW acc, ViewOK(acc.view), NEW t \in Tx, NEW h
    PROVE  LET r == Removed(acc, t, h) IN
           /\ ViewOK(r.view) /\ DOMAIN r.view = DOMAIN acc.view
           /\ \A u \in Tx : Get(r.view, u) = IF u = t THEN Empty ELSE Get(acc.view, u)
           /\ r.clean = (acc.clean /\ Same(Get(acc.view, t), Coins(t, h)))
<1> DEFINE w == acc.view
           x == IF t \in DOMAIN w THEN Set(w, t, Empty) ELSE w
           r == Removed(acc, t, h)
<1>1. r.view = x /\ r.clean = (acc.clean /\ Same(Get(acc.view, t), Coins(t, h)))
  BY DEF Removed
<1>2. ViewOK(w) /\ CoinOK(t, Empty)
  BY EmptyIsOK
<1>3. ViewOK(x) /\ DOMAIN x = DOMAIN w /\ \A u \in Tx : Get(x, u) = IF u = t THEN Empty ELSE Get(w, u)
  <2> HIDE DEF w
  <2>1. CASE t \in DOMAIN w
    <3>1. x = Set(w, t, Empty)
      BY <2>1
    <3>2. ViewOK(Set(w, t, Empty))
      BY <1>2, SetIsOK
    <3>3. DOMAIN Set(w, t, Empty) = DOMAIN w \cup {t}
      BY SetDomain
    <3>4. \A u \in Tx : Get(Set(w, t, Empty), u) = IF u = t THEN Empty ELSE Get(w, u)
      BY SetShows
    <3> HIDE DEF x
    <3>5. QED
      BY <2>1, <3>1, <3>2, <3>3, <3>4
  <2>2. CASE t \notin DOMAIN w
    <3>1. x = w /\ Get(w, t) = Empty
      BY <2>2 DEF Get
    <3> HIDE DEF x
    <3>2. QED
      BY <1>2, <3>1
  <2>3. QED
    BY <2>1, <2>2
<1> HIDE DEF r, x
<1>4. QED
  BY <1>1, <1>3 DEF r

(* Disconnecting from w has cleanly gone back to coins like v's. *)
GoneBack(w, a, v) ==
    a.clean = TRUE /\ ViewOK(a.view) /\ Alike(a.view, v) /\ DOMAIN w \subseteq DOMAIN a.view

(* The view v has the inputs of t and no coins of it, and acc has come back  *)
(* to what UpdateCoins made of v.                                            *)
Ready(v, t, h, acc) ==
    /\ ViewOK(v) /\ HaveInputs(v, t) /\ IsPruned(Get(v, t)) /\ h \in Nat \ {0}
    /\ ViewOK(acc.view) /\ acc.clean = TRUE /\ Alike(acc.view, UpdateCoins(v, t, h).view)

(* Removing the outputs of a transaction is clean and leaves what            *)
(* UpdateCoins had before it added them.                                     *)
LEMMA RemovedIsClean ==
    ASSUME NEW v, NEW t \in Tx, NEW h, NEW acc, Ready(v, t, h, acc)
    PROVE  GoneBack(acc.view, Removed(acc, t, h), SpentOf(v, t).view)
<1> DEFINE r == Removed(acc, t, h)
           a == SpentOf(v, t)
           x == a.view
           y == UpdateCoins(v, t, h).view
<1>0. ViewOK(v) /\ HaveInputs(v, t) /\ IsPruned(Get(v, t)) /\ ViewOK(acc.view) /\ acc.clean = TRUE
  BY DEF Ready
<1>1. /\ y = Set(x, t, Coins(t, h))
      /\ ViewOK(x)
      /\ Get(x, t).vout = Get(v, t).vout \ SpentIn(t, t)
  BY <1>0, SpentOfIs
<1>2. /\ ViewOK(r.view) /\ DOMAIN r.view = DOMAIN acc.view
      /\ \A u \in Tx : Get(r.view, u) = IF u = t THEN Empty ELSE Get(acc.view, u)
      /\ r.clean = (acc.clean /\ Same(Get(acc.view, t), Coins(t, h)))
  BY <1>0, RemovedIs
<1>3. Alike(acc.view, y)
  BY DEF Ready
<1> HIDE DEF r, x, y
<1>4. \A u \in Tx : Get(y, u) = IF u = t THEN Coins(t, h) ELSE Get(x, u)
  BY <1>1, SetShows
<1>5. Same(Get(acc.view, t), Coins(t, h))
  BY <1>3, <1>4 DEF Alike
<1>6. Alike(r.view, x)
  <2>1. SUFFICES ASSUME NEW u \in Tx PROVE Same(Get(r.view, u), Get(x, u))
    BY DEF Alike
  <2>2. CASE u = t
    <3>1. IsPruned(Get(r.view, u)) /\ IsPruned(Get(x, u))
      BY <1>0, <1>1, <1>2, <2>2 DEF IsPruned, Empty
    <3>2. QED
      BY <3>1 DEF Same
  <2>3. CASE u # t
    <3>1. Get(r.view, u) = Get(acc.view, u) /\ Get(y, u) = Get(x, u)
      BY <1>2, <1>4, <2>3
    <3>2. QED
      BY <1>3, <3>1 DEF Alike
  <2>4. QED
    BY <2>2, <2>3
<1>7. r.clean = TRUE
  BY <1>0, <1>2, <1>5
<1>8. QED
  BY <1>2, <1>6, <1>7 DEF r, x, GoneBack

(* Restoring its inputs then gives back the coins before the transaction. *)
LEMMA RestoredIsClean ==
    ASSUME NEW v, NEW t \in Tx \ CoinBase, NEW h, NEW acc, Ready(v, t, h, acc)
    PROVE  GoneBack(acc.view, Restoring(Removed(acc, t, h), t, UpdateCoins(v, t, h).undo)[1], v)
<1> DEFINE r == Removed(acc, t, h)
           undo == UpdateCoins(v, t, h).undo
           e == Restoring(r, t, undo)[1]
<1>1. GoneBack(acc.view, r, SpentOf(v, t).view)
  BY RemovedIsClean
<1>2. ViewOK(v) /\ HaveInputs(v, t)
  BY DEF Ready
<1>3. undo = SpentOf(v, t).undo
  BY <1>2, SpentOfIs
<1>4. SpentOf(v, t) = Spending(v, t)[Len(vin[t])]
  BY DEF SpentOf
<1> HIDE DEF r, undo, e
<1>5. /\ r.clean = TRUE /\ ViewOK(r.view) /\ DOMAIN acc.view \subseteq DOMAIN r.view
      /\ Alike(r.view, Spending(v, t)[Len(vin[t])].view) /\ undo = Spending(v, t)[Len(vin[t])].undo
  BY <1>1, <1>3, <1>4 DEF GoneBack
<1>6. /\ e.clean = TRUE /\ ViewOK(e.view) /\ Alike(e.view, v)
      /\ DOMAIN r.view \subseteq DOMAIN e.view
  BY <1>2, <1>5, RestoringAll DEF e
<1>7. QED
  BY <1>5, <1>6 DEF GoneBack, r, undo, e

(* A block on disk with the undo data that ConnectBlock made on v. *)
MadeOn(block, v, vtx, h) == block.vtx = vtx /\ block.vtxundo = ConnectBlock(v, vtx, h).vtxundo

(* Disconnecting a transaction is clean and gives back the coins that        *)
(* ConnectBlock had before it.                                               *)
LEMMA DisconnectStep ==
    ASSUME NEW v, NEW vtx, NEW h, Fits(v, vtx, h), NEW block, MadeOn(block, v, vtx, h),
           NEW i \in 1 .. Len(vtx), NEW w, NEW a, GoneBack(w, a, Connecting(v, vtx, h)[i].view)
    PROVE  GoneBack(w, DisconnectTx(a, block, i, h), Connecting(v, vtx, h)[i - 1].view)
<1> DEFINE c == Connecting(v, vtx, h)
           x == c[i - 1].view
           t == vtx[i]
           b == DisconnectTx(a, block, i, h)
           undo == block.vtxundo[i - 1]
<1>1. /\ vtx \in Blocks /\ h \in Nat \ {0} /\ t \in Tx /\ block.vtx[i] = t
      /\ Len(vtx) \in Nat /\ i - 1 \in 0 .. Len(vtx) /\ Len(vtx) \in 0 .. Len(vtx)
  BY BlockIs DEF Fits, MadeOn
<1>2. ConnectedTo(v, vtx, h, c[i - 1], i - 1) /\ ConnectedTo(v, vtx, h, c[Len(vtx)], Len(vtx))
  BY <1>1, ConnectingAll
<1>3. HaveInputs(x, t) /\ c[i].view = UpdateCoins(x, t, h).view
  BY <1>2, ConnectStep
<1>4. ViewOK(x) /\ IsPruned(Get(x, t))
  <2>1. i \in i - 1 + 1 .. Len(vtx)
    BY <1>1
  <2>2. QED
    BY <1>2, <2>1 DEF ConnectedTo
<1>5. i # 1 => undo = UpdateCoins(x, t, h).undo
  <2>1. SUFFICES ASSUME i # 1 PROVE undo = UpdateCoins(x, t, h).undo
    OBVIOUS
  <2>2. i \in 2 .. Len(vtx)
    BY <1>1, <2>1
  <2>3. block.vtxundo = c[Len(vtx)].vtxundo
    BY DEF MadeOn, ConnectBlock
  <2>4. QED
    BY <1>2, <2>2, <2>3 DEF ConnectedTo
<1>6. b = IF i = 1 \/ t \in CoinBase THEN Removed(a, t, h) ELSE Restoring(Removed(a, t, h), t, undo)[1]
  BY <1>1 DEF DisconnectTx
<1>7. Ready(x, t, h, a) /\ DOMAIN w \subseteq DOMAIN a.view
  BY <1>1, <1>3, <1>4 DEF GoneBack, Ready
<1> HIDE DEF b, undo
<1>8. GoneBack(a.view, b, x)
  <2> HIDE DEF x
  <2>1. CASE i = 1 \/ t \in CoinBase
    <3>1. t \in CoinBase
      BY <1>1, <2>1, BlockIs
    <3>2. SpentOf(x, t).view = x
      BY <3>1 DEF SpentOf
    <3>3. GoneBack(a.view, Removed(a, t, h), SpentOf(x, t).view)
      BY <1>1, <1>7, RemovedIsClean
    <3>4. b = Removed(a, t, h)
      BY <1>6, <2>1
    <3>5. QED
      BY <3>2, <3>3, <3>4
  <2>2. CASE ~(i = 1 \/ t \in CoinBase)
    <3>1. t \in Tx \ CoinBase /\ undo = UpdateCoins(x, t, h).undo
      BY <1>1, <1>5, <2>2
    <3>2. GoneBack(a.view, Restoring(Removed(a, t, h), t, UpdateCoins(x, t, h).undo)[1], x)
      <4> HIDE DEF t
      <4>1. QED
        BY <1>7, <3>1, RestoredIsClean
    <3>3. b = Restoring(Removed(a, t, h), t, UpdateCoins(x, t, h).undo)[1]
      BY <1>6, <2>2, <3>1
    <3>4. QED
      BY <3>2, <3>3
  <2>3. QED
    BY <2>1, <2>2
<1>9. QED
  BY <1>7, <1>8 DEF GoneBack, b

(* DisconnectBlock undoes ConnectBlock. *)
LEMMA DisconnectBlockIs ==
    ASSUME NEW v, NEW vtx, NEW h, Fits(v, vtx, h), NEW block, MadeOn(block, v, vtx, h),
           NEW w, ViewOK(w), Alike(w, ConnectBlock(v, vtx, h).view)
    PROVE  GoneBack(w, DisconnectBlock(w, block, h), v)
<1> DEFINE N == Len(vtx)
           c == Connecting(v, vtx, h)
           d == Disconnecting(w, block, h)
           S == {j \in 1 .. N + 1 : GoneBack(w, d[j], c[j - 1].view)}
<1>1. N \in Nat /\ vtx \in Blocks /\ block.vtx = vtx
  BY BlockIs DEF Fits, MadeOn
<1>2. c[0].view = v
  <2>1. c[0] = [ok |-> \A i \in DOMAIN vtx : IsPruned(Get(v, vtx[i])), view |-> v, vtxundo |-> <<>>]
    BY <1>1, ConnectingIs
  <2> HIDE DEF c
  <2>2. QED
    BY <2>1
<1>3. d[N + 1] = [view |-> w, clean |-> TRUE] /\ \A i \in 1 .. N : d[i] = DisconnectTx(d[i + 1], block, i, h)
  BY <1>1, DisconnectingIs
<1>4. Alike(w, c[N].view)
  BY DEF ConnectBlock
<1>5. DisconnectBlock(w, block, h) = d[1]
  BY DEF DisconnectBlock
<1> HIDE DEF d
<1>6. N + 1 \in S
  <2>1. N + 1 - 1 = N /\ N + 1 \in 1 .. N + 1
    BY <1>1
  <2>2. GoneBack(w, d[N + 1], c[N].view)
    BY <1>3, <1>4 DEF GoneBack
  <2>3. GoneBack(w, d[N + 1], c[N + 1 - 1].view)
    BY <2>1, <2>2
  <2>4. QED
    BY <1>1, <2>1, <2>3
<1>7. ASSUME NEW i \in 1 .. N, i + 1 \in S PROVE i \in S
  <2>1. i + 1 - 1 = i /\ i \in 1 .. N + 1
    BY <1>1
  <2>2. GoneBack(w, d[i + 1], c[i].view)
    BY <1>7, <2>1
  <2>3. GoneBack(w, DisconnectTx(d[i + 1], block, i, h), c[i - 1].view)
    BY <2>2, DisconnectStep
  <2>4. GoneBack(w, d[i], c[i - 1].view)
    BY <1>3, <2>3
  <2>5. QED
    BY <2>1, <2>4
<1> HIDE DEF S, N
<1>8. \A j \in 1 .. N + 1 : j \in S
  BY <1>1, <1>6, <1>7, Downward
<1>9. GoneBack(w, d[1], c[0].view)
  <2>1. 1 \in 1 .. N + 1 /\ 1 - 1 = 0
    BY <1>1
  <2>2. 1 \in S
    BY <1>8, <2>1
  <2>3. QED
    BY <2>1, <2>2 DEF S
<1>10. QED
  BY <1>2, <1>5, <1>9

-----------------------------------------------------------------------------
(* What a set of places leaves unspent *)

(* The last of the places P of a chain where t is. *)
LastIn(P, c, t) ==
    {p \in P : TxAt(c, p) = t /\ \A q \in P : TxAt(c, q) = t => ~Before(p, q)}

(* The outputs of t that nothing at a later one of these places spends. *)
UnspentIn(P, c, t) ==
    {n \in Spendable[t] : \E p \in LastIn(P, c, t) : \A q \in P :
                             Before(p, q) => ~Spends(TxAt(c, q), <<t, n>>)}

(* The coins that the places leave of t. *)
LeftIn(coins, P, c, t) ==
    /\ coins.vout = UnspentIn(P, c, t)
    /\ ~IsPruned(coins) => \E p \in LastIn(P, c, t) : coins.nHeight = p[1]

(* The coins of a view are those that the places leave. *)
ShowsIn(view, P, c) == \A t \in Tx : LeftIn(Get(view, t), P, c, t)

(* A chain of blocks with undo data. *)
ChainOK(c) == c \in Seq([vtx : Blocks, vtxundo : Seq(Seq(Nat))])

(* A view shows a chain if its coins are those that all places of it leave. *)
LEMMA ShowsIsIn == ASSUME NEW view, NEW c PROVE Shows(view, c) <=> ShowsIn(view, Places(c), c)
BY DEF Shows, IsLeft, Unspent, LastPlaces, ShowsIn, LeftIn, UnspentIn, LastIn

(* Outputs are numbers. *)
LEMMA SpendableIs == ASSUME NEW t \in Tx PROVE Spendable[t] \subseteq Nat
BY TxAssumption

(* One more place at the end leaves what UpdateCoins makes of the coins. *)
LEMMA AddPlace ==
    ASSUME NEW P \in SUBSET (Nat \X Nat), NEW p \in Nat \X Nat, \A q \in P : Before(q, p),
           NEW c, TxAt(c, p) \in Tx, NEW v, ShowsIn(v, P, c), NEW w, Updated(v, TxAt(c, p), p[1], w)
    PROVE  ShowsIn(w, P \cup {p}, c)
<1> DEFINE t == TxAt(c, p)
           Q == P \cup {p}
<1>1. \A q \in Q : ~Before(p, q)
  <2>1. \A q \in P : p[1] \in Nat /\ p[2] \in Nat /\ q[1] \in Nat /\ q[2] \in Nat
    OBVIOUS
  <2>2. \A q \in P : ~Before(p, q)
    BY <2>1 DEF Before
  <2>3. ~Before(p, p)
    BY DEF Before
  <2>4. QED
    BY <2>2, <2>3
<1> HIDE DEF t
<1>2. TxAt(c, p) = t /\ t \in Tx
  BY DEF t
<1>3. SUFFICES ASSUME NEW u \in Tx PROVE LeftIn(Get(w, u), Q, c, u)
  BY DEF ShowsIn
<1>4. CASE u = t
  <2>1. LastIn(Q, c, t) = {p}
    BY <1>1, <1>2 DEF LastIn
  <2>2. UnspentIn(Q, c, t) = Spendable[t]
    <3> HIDE DEF Q
    <3>1. QED
      BY <1>1, <2>1 DEF UnspentIn
  <2>3. Get(w, t) = Coins(t, p[1])
    BY <1>2 DEF Updated
  <2>4. QED
    BY <1>4, <2>1, <2>2, <2>3 DEF LeftIn, Coins
<1>5. CASE u # t
  <2>1. LastIn(Q, c, u) = LastIn(P, c, u)
    BY <1>2, <1>5 DEF LastIn
  <2>2. \A q \in LastIn(P, c, u) : Before(q, p)
    BY DEF LastIn
  <2>3. UnspentIn(Q, c, u) = UnspentIn(P, c, u) \ SpentIn(t, u)
    <3>1. ASSUME NEW n \in UnspentIn(Q, c, u) PROVE n \in UnspentIn(P, c, u) /\ n \notin SpentIn(t, u)
      <4>1. PICK q \in LastIn(P, c, u) : \A r \in Q : Before(q, r) => ~Spends(TxAt(c, r), <<u, n>>)
        BY <2>1 DEF UnspentIn
      <4>2. ~Spends(t, <<u, n>>)
        BY <1>2, <2>2, <4>1
      <4>3. n \in Spendable[u]
        BY DEF UnspentIn
      <4>4. n \in UnspentIn(P, c, u)
        BY <4>1, <4>3 DEF UnspentIn
      <4>5. QED
        BY <4>2, <4>4 DEF SpentIn
    <3>2. ASSUME NEW n \in UnspentIn(P, c, u), n \notin SpentIn(t, u) PROVE n \in UnspentIn(Q, c, u)
      <4>1. PICK q \in LastIn(P, c, u) : \A r \in P : Before(q, r) => ~Spends(TxAt(c, r), <<u, n>>)
        BY DEF UnspentIn
      <4>2. n \in Spendable[u] /\ n \in Nat
        BY SpendableIs DEF UnspentIn
      <4>3. ~Spends(t, <<u, n>>)
        BY <3>2, <4>2 DEF SpentIn
      <4>4. \A r \in Q : Before(q, r) => ~Spends(TxAt(c, r), <<u, n>>)
        BY <1>2, <4>1, <4>3
      <4> HIDE DEF Q
      <4>5. QED
        BY <2>1, <4>1, <4>2, <4>4 DEF UnspentIn
    <3> HIDE DEF Q
    <3>3. QED
      BY <3>1, <3>2
  <2>4. Get(w, u).vout = Get(v, u).vout \ SpentIn(t, u) /\ Get(w, u).nHeight = Get(v, u).nHeight
    BY <1>2, <1>5 DEF Updated
  <2>5. LeftIn(Get(v, u), P, c, u)
    BY DEF ShowsIn
  <2> HIDE DEF Q
  <2>6. QED
    BY <2>1, <2>3, <2>4, <2>5 DEF LeftIn, IsPruned
<1>6. QED
  BY <1>4, <1>5

(* A place is a height and a position in the block there. *)
LEMMA PlacesAre ==
    ASSUME NEW c
    PROVE  \A p : p \in Places(c) <=> \E h \in DOMAIN c : \E i \in DOMAIN c[h].vtx : p = <<h, i>>
<1>1. ASSUME NEW p, p \in Places(c) PROVE \E h \in DOMAIN c : \E i \in DOMAIN c[h].vtx : p = <<h, i>>
  <2>1. PICK h \in DOMAIN c : p \in {h} \X DOMAIN c[h].vtx
    BY <1>1 DEF Places
  <2>2. QED
    BY <2>1
<1>2. ASSUME NEW h \in DOMAIN c, NEW i \in DOMAIN c[h].vtx PROVE <<h, i>> \in Places(c)
  <2>1. <<h, i>> \in {h} \X DOMAIN c[h].vtx
    OBVIOUS
  <2>2. QED
    BY <2>1 DEF Places
<1>3. QED
  BY <1>1, <1>2

(* The blocks of a chain, and its places. *)
LEMMA ChainIs ==
    ASSUME NEW c, ChainOK(c)
    PROVE  /\ Len(c) \in Nat /\ DOMAIN c = 1 .. Len(c)
           /\ \A h \in 1 .. Len(c) : /\ c[h] = [vtx |-> c[h].vtx, vtxundo |-> c[h].vtxundo]
                                     /\ c[h].vtx \in Blocks /\ c[h].vtxundo \in Seq(Seq(Nat))
           /\ Places(c) \subseteq Nat \X Nat
           /\ \A p \in Places(c) : p[1] \in 1 .. Len(c)
<1> DEFINE R == [vtx : Blocks, vtxundo : Seq(Seq(Nat))]
<1>0. c \in Seq(R)
  BY DEF ChainOK
<1>1. Len(c) \in Nat /\ DOMAIN c = 1 .. Len(c) /\ \A h \in 1 .. Len(c) : c[h] \in R
  <2> HIDE DEF R
  <2>1. QED
    BY <1>0
<1>2. \A h \in 1 .. Len(c) : /\ c[h] = [vtx |-> c[h].vtx, vtxundo |-> c[h].vtxundo]
                             /\ c[h].vtx \in Blocks /\ c[h].vtxundo \in Seq(Seq(Nat))
  BY <1>1
<1>3. \A h \in 1 .. Len(c) : DOMAIN c[h].vtx = 1 .. Len(c[h].vtx) /\ Len(c[h].vtx) \in Nat
  BY <1>2, BlockIs
<1>4. ASSUME NEW p \in Places(c) PROVE p \in Nat \X Nat /\ p[1] \in 1 .. Len(c)
  <2>1. PICK h \in 1 .. Len(c) : \E i \in DOMAIN c[h].vtx : p = <<h, i>>
    BY <1>1, PlacesAre
  <2>2. PICK i \in DOMAIN c[h].vtx : p = <<h, i>>
    BY <2>1
  <2>3. h \in Nat /\ i \in Nat
    BY <1>1, <1>3
  <2>4. QED
    BY <2>2, <2>3
<1>5. QED
  BY <1>1, <1>2, <1>4

(* What places leave depends only on the transactions there. *)
LEMMA SamePlaces ==
    ASSUME NEW P, NEW c, NEW e, \A p \in P : TxAt(c, p) = TxAt(e, p), NEW v, ShowsIn(v, P, c)
    PROVE  ShowsIn(v, P, e)
<1>1. \A t \in Tx : LastIn(P, c, t) = LastIn(P, e, t)
  BY DEF LastIn
<1>2. ASSUME NEW t \in Tx PROVE UnspentIn(P, c, t) = UnspentIn(P, e, t)
  <2>1. LastIn(P, c, t) = LastIn(P, e, t)
    BY <1>1
  <2>2. \A q \in P : TxAt(c, q) = TxAt(e, q)
    OBVIOUS
  <2>3. ASSUME NEW n \in Spendable[t], NEW p
        PROVE  (\A q \in P : Before(p, q) => ~Spends(TxAt(c, q), <<t, n>>)) <=> (\A q \in P : Before(p, q) => ~Spends(TxAt(e, q), <<t, n>>))
    BY <2>2
  <2>4. QED
    BY <2>1, <2>3 DEF UnspentIn
<1>3. QED
  BY <1>1, <1>2 DEF ShowsIn, LeftIn

(* A block added to a chain adds the places of its transactions, behind all  *)
(* others.                                                                   *)
LEMMA PlacesAppend ==
    ASSUME NEW c, ChainOK(c), NEW b, b.vtx \in Blocks
    PROVE  /\ Places(Append(c, b)) = Places(c) \cup {<<Len(c) + 1, i>> : i \in 1 .. Len(b.vtx)}
           /\ \A p \in Places(c) : TxAt(Append(c, b), p) = TxAt(c, p) /\ p[1] < Len(c) + 1
           /\ \A i \in 1 .. Len(b.vtx) : TxAt(Append(c, b), <<Len(c) + 1, i>>) = b.vtx[i]
<1> DEFINE h == Len(c) + 1
           e == Append(c, b)
           N == Len(b.vtx)
           Q == Places(c) \cup {<<h, i>> : i \in 1 .. N}
<1>1. Len(c) \in Nat /\ DOMAIN c = 1 .. Len(c) /\ h \in Nat /\ \A p \in Places(c) : p[1] \in 1 .. Len(c)
  BY ChainIs
<1>2. N \in Nat /\ DOMAIN b.vtx = 1 .. N
  BY BlockIs
<1>3. c \in Seq([vtx : Blocks, vtxundo : Seq(Seq(Nat))])
  BY DEF ChainOK
<1>4. DOMAIN e = 1 .. h /\ e[h] = b /\ \A g \in 1 .. Len(c) : e[g] = c[g]
  BY <1>1, <1>3
<1> HIDE DEF e, N
<1>5. ASSUME NEW p, p \in Places(e) PROVE p \in Q
  <2>1. PICK g \in DOMAIN e : \E i \in DOMAIN e[g].vtx : p = <<g, i>>
    BY <1>5, PlacesAre
  <2>2. CASE g = h
    BY <1>2, <1>4, <2>1, <2>2
  <2>3. CASE g # h
    <3>1. g \in 1 .. Len(c)
      BY <1>1, <1>4, <2>3
    <3>2. \E i \in DOMAIN c[g].vtx : p = <<g, i>>
      BY <1>4, <2>1, <3>1
    <3>3. p \in Places(c)
      BY <1>1, <3>1, <3>2, PlacesAre
    <3>4. QED
      BY <3>3
  <2>4. QED
    BY <2>2, <2>3
<1>6. ASSUME NEW p, p \in Q PROVE p \in Places(e)
  <2>1. CASE p \in Places(c)
    <3>1. PICK g \in 1 .. Len(c) : \E i \in DOMAIN c[g].vtx : p = <<g, i>>
      BY <1>1, <2>1, PlacesAre
    <3>2. g \in DOMAIN e /\ e[g] = c[g]
      BY <1>1, <1>4
    <3>3. \E i \in DOMAIN e[g].vtx : p = <<g, i>>
      BY <3>1, <3>2
    <3>4. QED
      BY <3>2, <3>3, PlacesAre
  <2>2. CASE p \notin Places(c)
    <3>1. PICK i \in 1 .. N : p = <<h, i>>
      BY <1>6, <2>2
    <3>2. h \in DOMAIN e /\ i \in DOMAIN e[h].vtx
      BY <1>1, <1>2, <1>4, <3>1
    <3> HIDE DEF h
    <3>3. QED
      BY <3>1, <3>2, PlacesAre
  <2>3. QED
    BY <2>1, <2>2
<1>7. Places(e) = Q
  <2> HIDE DEF Q
  <2>1. QED
    BY <1>5, <1>6
<1>8. \A p \in Places(c) : TxAt(e, p) = TxAt(c, p) /\ p[1] < h
  BY <1>1, <1>4 DEF TxAt
<1>9. \A i \in 1 .. N : TxAt(e, <<h, i>>) = b.vtx[i]
  BY <1>4 DEF TxAt
<1>10. QED
  BY <1>7, <1>8, <1>9 DEF e, N

(* A block connected to coins that show a chain leaves, after n of its       *)
(* transactions, the coins of the chain with those n.                        *)
LEMMA ConnectingShows ==
    ASSUME NEW c, ChainOK(c), NEW v, Shows(v, c), NEW vtx, Fits(v, vtx, Len(c) + 1), NEW b, b.vtx = vtx
    PROVE  \A n \in 0 .. Len(vtx) :
              ShowsIn(Connecting(v, vtx, Len(c) + 1)[n].view,
                      Places(c) \cup {<<Len(c) + 1, i>> : i \in 1 .. n}, Append(c, b))
<1> DEFINE h == Len(c) + 1
           e == Append(c, b)
           N == Len(vtx)
           k == Connecting(v, vtx, h)
           P == [n \in 0 .. N |-> Places(c) \cup {<<h, i>> : i \in 1 .. n}]
           S == {n \in 0 .. N : ShowsIn(k[n].view, P[n], e)}
<1>1. /\ Len(c) \in Nat /\ DOMAIN c = 1 .. Len(c) /\ h \in Nat
      /\ Places(c) \subseteq Nat \X Nat /\ \A p \in Places(c) : p[1] \in 1 .. Len(c)
  BY ChainIs
<1>2. vtx \in Blocks /\ N \in Nat /\ DOMAIN vtx = 1 .. N /\ \A i \in 1 .. N : vtx[i] \in Tx
  BY BlockIs DEF Fits
<1>3. Places(e) = Places(c) \cup {<<h, i>> : i \in 1 .. N}
  BY <1>2, PlacesAppend
<1>4. /\ \A p \in Places(c) : TxAt(e, p) = TxAt(c, p) /\ p[1] < h
      /\ \A i \in 1 .. N : TxAt(e, <<h, i>>) = vtx[i]
  BY <1>2, PlacesAppend
<1>5. k[0].view = v
  <2>1. k[0] = [ok |-> \A i \in DOMAIN vtx : IsPruned(Get(v, vtx[i])), view |-> v, vtxundo |-> <<>>]
    BY <1>2, ConnectingIs
  <2> HIDE DEF k
  <2>2. QED
    BY <2>1
<1>6. Fits(v, vtx, h)
  OBVIOUS
<1> HIDE DEF h, e, N
<1>7. 0 \in S
  <2>1. P[0] = Places(c)
    BY <1>2
  <2>2. ShowsIn(v, Places(c), c)
    BY ShowsIsIn
  <2>3. \A p \in Places(c) : TxAt(c, p) = TxAt(e, p)
    BY <1>4
  <2>4. ShowsIn(v, Places(c), e)
    BY <2>2, <2>3, SamePlaces
  <2> HIDE DEF P, k
  <2>5. QED
    BY <1>2, <1>5, <2>1, <2>4
<1>8. ASSUME NEW n \in 1 .. N, n - 1 \in S PROVE n \in S
  <2> DEFINE p == <<h, n>>
             t == vtx[n]
             Q == P[n - 1]
             x == k[n - 1].view
             y == k[n].view
  <2>1. ShowsIn(x, Q, e)
    BY <1>8
  <2>0. Q = Places(c) \cup {<<h, i>> : i \in 1 .. n - 1} /\ P[n] = Places(c) \cup {<<h, i>> : i \in 1 .. n}
    BY <1>2
  <2> HIDE DEF P, Q
  <2>2. TxAt(e, p) = t /\ t \in Tx /\ p[1] = h /\ p \in Nat \X Nat
    BY <1>1, <1>2, <1>4
  <2>3. \A q \in Q : Before(q, p)
    <3>1. \A q \in Places(c) : q[1] < h
      BY <1>4
    <3>2. \A i \in 1 .. n - 1 : i < n
      BY <1>2
    <3>3. QED
      BY <2>0, <3>1, <3>2 DEF Before
  <2>4. Q \in SUBSET (Nat \X Nat)
    <3>1. \A i \in 1 .. n - 1 : i \in Nat
      OBVIOUS
    <3>2. QED
      BY <1>1, <2>0, <3>1
  <2>5. P[n] = Q \cup {p}
    <3>1. \A i : i \in 1 .. n <=> (i \in 1 .. n - 1 \/ i = n)
      BY <1>2
    <3>2. QED
      BY <2>0, <3>1
  <2>6. Updated(x, t, h, y)
    <3>1. n \in 1 .. Len(vtx) /\ n - 1 \in 0 .. Len(vtx)
      BY <1>2 DEF N
    <3>2. ConnectedTo(v, vtx, h, k[n - 1], n - 1)
      BY <1>6, <3>1, ConnectingAll
    <3>3. HaveInputs(x, t) /\ y = UpdateCoins(x, t, h).view
      BY <1>6, <3>1, <3>2, ConnectStep
    <3>4. ViewOK(x) /\ h \in Nat \ {0}
      BY <1>6, <3>2 DEF ConnectedTo, Fits
    <3> HIDE DEF x, y, t
    <3>5. QED
      BY <2>2, <3>3, <3>4, UpdateIs
  <2> HIDE DEF p, x, y, t
  <2>7. ShowsIn(y, Q \cup {p}, e)
    BY <2>1, <2>2, <2>3, <2>4, <2>6, AddPlace
  <2>8. ShowsIn(k[n].view, P[n], e)
    BY <2>5, <2>7 DEF y
  <2>9. QED
    BY <1>2, <2>8
<1>9. \A n \in 0 .. N : n \in S
  <2> HIDE DEF S
  <2>1. QED
    BY <1>2, <1>7, <1>8, Upward
<1>10. ASSUME NEW n \in 0 .. N PROVE ShowsIn(k[n].view, Places(c) \cup {<<h, i>> : i \in 1 .. n}, e)
  <2>1. n \in S
    <3> HIDE DEF S
    <3>1. QED
      BY <1>9
  <2>2. P[n] = Places(c) \cup {<<h, i>> : i \in 1 .. n}
    OBVIOUS
  <2> HIDE DEF P
  <2>3. QED
    BY <2>1, <2>2
<1>11. QED
  BY <1>10 DEF N, e, h

(* A block connected to coins that show a chain leaves those that show the   *)
(* longer chain.                                                             *)
LEMMA ConnectShows ==
    ASSUME NEW c, ChainOK(c), NEW v, Shows(v, c), NEW vtx, Fits(v, vtx, Len(c) + 1), NEW b, b.vtx = vtx
    PROVE  Shows(ConnectBlock(v, vtx, Len(c) + 1).view, Append(c, b))
<1> DEFINE h == Len(c) + 1
           e == Append(c, b)
           N == Len(vtx)
           Q == Places(c) \cup {<<h, i>> : i \in 1 .. N}
<1>1. vtx \in Blocks /\ N \in 0 .. N
  BY BlockIs DEF Fits
<1>2. Places(e) = Q
  BY <1>1, PlacesAppend
<1>3. ShowsIn(ConnectBlock(v, vtx, h).view, Q, e)
  BY <1>1, ConnectingShows DEF ConnectBlock
<1> HIDE DEF h, e, Q
<1>4. Shows(ConnectBlock(v, vtx, h).view, e)
  BY <1>2, <1>3, ShowsIsIn
<1>5. QED
  BY <1>4 DEF h, e

(* A view like one that shows a chain shows it. *)
LEMMA ShowsAlike ==
    ASSUME NEW c, NEW v, NEW w, Shows(v, c), Alike(v, w)
    PROVE  Shows(w, c)
<1>1. SUFFICES ASSUME NEW t \in Tx PROVE IsLeft(Get(w, t), c, t)
  BY DEF Shows
<1>2. IsLeft(Get(v, t), c, t) /\ Same(Get(v, t), Get(w, t))
  BY DEF Shows, Alike
<1>3. QED
  BY <1>2 DEF IsLeft, Same, IsPruned

(* Two views that show the same chain are alike: a transaction has at most   *)
(* one last place.                                                           *)
LEMMA ShowsOnce ==
    ASSUME NEW c, ChainOK(c), NEW v, ViewOK(v), Shows(v, c), NEW w, ViewOK(w), Shows(w, c)
    PROVE  Alike(v, w)
<1>1. SUFFICES ASSUME NEW t \in Tx PROVE Same(Get(v, t), Get(w, t))
  BY DEF Alike
<1> DEFINE x == Get(v, t)
           y == Get(w, t)
<1>2. IsLeft(x, c, t) /\ IsLeft(y, c, t)
  BY DEF Shows
<1>3. CoinOK(t, x) /\ CoinOK(t, y)
  BY GetIsOK
<1> HIDE DEF x, y
<1>4. x.vout = y.vout
  BY <1>2 DEF IsLeft
<1>5. CASE IsPruned(x)
  BY <1>4, <1>5 DEF IsPruned, Same, x, y
<1>6. CASE ~IsPruned(x)
  <2>1. ~IsPruned(y)
    BY <1>4, <1>6 DEF IsPruned
  <2>2. PICK p \in LastPlaces(c, t) : x.nHeight = p[1]
    BY <1>2, <1>6 DEF IsLeft
  <2>3. PICK q \in LastPlaces(c, t) : y.nHeight = q[1]
    BY <1>2, <2>1 DEF IsLeft
  <2>4. ~Before(p, q) /\ ~Before(q, p) /\ p \in Places(c) /\ q \in Places(c)
    BY DEF LastPlaces
  <2>5. p[1] \in Nat /\ q[1] \in Nat
    BY <2>4, ChainIs
  <2>6. p[1] = q[1]
    BY <2>4, <2>5 DEF Before
  <2>7. x = y
    BY <1>3, <1>4, <2>2, <2>3, <2>6 DEF CoinOK, CoinSet
  <2>8. QED
    BY <2>7 DEF Same, x, y
<1>7. QED
  BY <1>5, <1>6

-----------------------------------------------------------------------------
(* The cache and the database *)

(* A cache over a view is a view. *)
LEMMA OverIs ==
    ASSUME NEW a, ViewOK(a), NEW b, ViewOK(b)
    PROVE  ViewOK(Over(a, b)) /\ DOMAIN Over(a, b) = DOMAIN a \cup DOMAIN b
BY DEF ViewOK, Over

(* What is in the cache hides what is below. *)
LEMMA OverShows ==
    ASSUME NEW a, NEW b, NEW t
    PROVE  Get(Over(a, b), t) = IF t \in DOMAIN a THEN a[t] ELSE Get(b, t)
BY DEF Over, Get

(* What a view that was filled from pcoinsTip writes to the cache makes      *)
(* pcoinsTip answer as the view does.                                        *)
LEMMA MergeIs ==
    ASSUME ViewOK(cacheCoins), ViewOK(coinsdb), NEW view, ViewOK(view), DOMAIN pcoinsTip \subseteq DOMAIN view
    PROVE  /\ ViewOK(Merge(view))
           /\ \A t : Get(Over(Merge(view), coinsdb), t) = Get(view, t)
<1> DEFINE m == Merge(view)
<1>1. DOMAIN pcoinsTip = DOMAIN cacheCoins \cup DOMAIN coinsdb
  BY DEF pcoinsTip, Over
<1>2. \A t \in DOMAIN pcoinsTip : t \notin DOMAIN cacheCoins => pcoinsTip[t] = coinsdb[t]
  BY DEF pcoinsTip, Over
<1>3. /\ DOMAIN m = DOMAIN cacheCoins \cup {t \in DOMAIN view : t \notin DOMAIN pcoinsTip \/ view[t] # pcoinsTip[t]}
      /\ \A t \in DOMAIN m : m[t] = view[t]
  BY DEF Merge
<1> HIDE DEF m
<1>4. DOMAIN m \subseteq DOMAIN view
  BY <1>1, <1>3
<1>5. ViewOK(m)
  BY <1>3, <1>4 DEF ViewOK
<1>6. ASSUME NEW t PROVE Get(Over(m, coinsdb), t) = Get(view, t)
  <2>1. Get(Over(m, coinsdb), t) = IF t \in DOMAIN m THEN m[t] ELSE Get(coinsdb, t)
    BY <1>5, OverShows
  <2>2. CASE t \in DOMAIN m
    BY <1>3, <1>4, <2>1, <2>2 DEF Get
  <2>3. CASE t \notin DOMAIN m
    <3>1. t \notin DOMAIN cacheCoins /\ (t \in DOMAIN view => t \in DOMAIN pcoinsTip /\ view[t] = pcoinsTip[t])
      BY <1>3, <2>3
    <3>2. CASE t \in DOMAIN view
      BY <1>1, <1>2, <2>1, <2>3, <3>1, <3>2 DEF Get
    <3>3. CASE t \notin DOMAIN view
      <4>1. t \notin DOMAIN coinsdb
        BY <1>1, <3>3
      <4>2. QED
        BY <2>1, <2>3, <3>3, <4>1 DEF Get
    <3>4. QED
      BY <3>2, <3>3
  <2>4. QED
    BY <2>2, <2>3
<1>7. QED
  BY <1>5, <1>6 DEF m

(* BatchWrite leaves a database like the cache over the old one, without     *)
(* spent coins.                                                              *)
LEMMA WrittenIs ==
    ASSUME NEW cache, ViewOK(cache), ViewOK(coinsdb)
    PROVE  /\ ViewOK(Written(cache)) /\ Alike(Over(cache, coinsdb), Written(cache))
           /\ \A t \in DOMAIN Written(cache) : ~IsPruned(Written(cache)[t])
<1> DEFINE all == Over(cache, coinsdb)
           w == Written(cache)
<1>1. w = [t \in {u \in DOMAIN all : ~IsPruned(all[u])} |-> all[t]]
  BY DEF Written
<1>2. ViewOK(all)
  BY OverIs
<1> HIDE DEF all, w
<1>3. ViewOK(w) /\ \A t \in DOMAIN w : ~IsPruned(w[t])
  BY <1>1, <1>2 DEF ViewOK
<1>4. Alike(all, w)
  BY <1>1 DEF Alike, Same, Get, IsPruned, Empty
<1>5. QED
  BY <1>3, <1>4 DEF all, w

-----------------------------------------------------------------------------
(* The invariant *)

(* The undo data of every block is that of ConnectBlock on coins that show   *)
(* the chain below it.                                                       *)
Legit(c) ==
    \A h \in 1 .. Len(c) : \E v :
        /\ Shows(v, SubSeq(c, 1, h - 1)) /\ Fits(v, c[h].vtx, h)
        /\ c[h].vtxundo = ConnectBlock(v, c[h].vtx, h).vtxundo

(* What the invariant says of a chain. *)
ChainInv(c) == ChainOK(c) /\ Len(c) <= MaxHeight /\ Legit(c)

(* The cache over the database shows the chain c, the database the chain f,  *)
(* and the database has no spent coins.                                      *)
CoinsInv(cache, db, c, f) ==
    /\ ViewOK(cache) /\ ViewOK(db)
    /\ Shows(Over(cache, db), c) /\ Shows(db, f)
    /\ \A t \in DOMAIN db : ~IsPruned(db[t])

(* The inductive invariant of the ledger, with all of it for the chain the   *)
(* database names.                                                           *)
LInv == ChainInv(chain) /\ ChainInv(flushed) /\ CoinsInv(cacheCoins, coinsdb, chain, flushed)

(* An empty cache hides nothing. *)
LEMMA NoCoinsOver == ASSUME NEW d PROVE ViewOK(NoCoins) /\ Over(NoCoins, d) = [t \in DOMAIN d |-> d[t]]
BY DEF ViewOK, NoCoins, Over

(* With an empty cache pcoinsTip answers as the database. *)
LEMMA NoCoinsAlike == ASSUME NEW d PROVE Alike(d, Over(NoCoins, d))
<1>1. DOMAIN Over(NoCoins, d) = DOMAIN d /\ \A t \in DOMAIN d : Over(NoCoins, d)[t] = d[t]
  BY NoCoinsOver
<1>2. QED
  BY <1>1 DEF Alike, Same, Get

(* When pcoinsTip has taken up a view that shows the new chain, cache and    *)
(* database show what they should, flushed or not.                           *)
LEMMA ApplyIs ==
    ASSUME LInv, NEW fFlush \in BOOLEAN, NEW view, ViewOK(view), DOMAIN pcoinsTip \subseteq DOMAIN view,
           Shows(view, chain'), Apply(view, fFlush)
    PROVE  CoinsInv(cacheCoins', coinsdb', chain', flushed') /\ flushed' \in {flushed, chain'}
<1> DEFINE m == Merge(view)
           all == Over(m, coinsdb)
<1>1. ViewOK(cacheCoins) /\ ViewOK(coinsdb) /\ Shows(coinsdb, flushed) /\ \A t \in DOMAIN coinsdb : ~IsPruned(coinsdb[t])
  BY DEF LInv, CoinsInv
<1>2. ViewOK(m) /\ \A t : Get(all, t) = Get(view, t)
  BY <1>1, MergeIs
<1> HIDE DEF m, all
<1>3. Alike(view, all)
  BY <1>2 DEF Alike, Same
<1>4. Shows(all, chain')
  BY <1>3, ShowsAlike
<1>5. CASE fFlush
  <2> DEFINE w == Written(m)
  <2>1. coinsdb' = w /\ cacheCoins' = NoCoins /\ flushed' = chain'
    BY <1>5 DEF Apply, m
  <2>2. ViewOK(w) /\ Alike(all, w) /\ \A t \in DOMAIN w : ~IsPruned(w[t])
    BY <1>1, <1>2, WrittenIs DEF all
  <2> HIDE DEF w
  <2>3. Shows(w, chain')
    BY <1>4, <2>2, ShowsAlike
  <2>4. Alike(w, Over(NoCoins, w)) /\ ViewOK(NoCoins)
    BY NoCoinsAlike, NoCoinsOver
  <2>5. Shows(Over(NoCoins, w), chain')
    BY <2>3, <2>4, ShowsAlike
  <2>6. QED
    BY <2>1, <2>2, <2>3, <2>4, <2>5 DEF CoinsInv
<1>6. CASE ~fFlush
  <2>1. cacheCoins' = m /\ coinsdb' = coinsdb /\ flushed' = flushed
    BY <1>6 DEF Apply, m
  <2>2. QED
    BY <1>1, <1>2, <1>4, <2>1 DEF CoinsInv, all
<1>7. QED
  BY <1>5, <1>6

(* What pcoinsTip shows when it has taken up a view is like the view. *)
LEMMA ShowingIs ==
    ASSUME ViewOK(cacheCoins), ViewOK(coinsdb), NEW fFlush \in BOOLEAN,
           NEW view, ViewOK(view), DOMAIN pcoinsTip \subseteq DOMAIN view
    PROVE  ViewOK(Showing(view, fFlush)) /\ Alike(view, Showing(view, fFlush))
<1> DEFINE m == Merge(view)
           all == Over(m, coinsdb)
<1>1. ViewOK(m) /\ \A t : Get(all, t) = Get(view, t)
  BY MergeIs
<1> HIDE DEF m
<1>2. ViewOK(all)
  BY <1>1, OverIs
<1> HIDE DEF all
<1>3. Alike(view, all)
  BY <1>1 DEF Alike, Same
<1>4. ViewOK(Written(m)) /\ Alike(all, Written(m))
  BY <1>1, WrittenIs DEF all
<1>5. Alike(view, Written(m))
  BY <1>3, <1>4, AlikeIsTransitive
<1>6. CASE fFlush
  BY <1>4, <1>5, <1>6 DEF Showing, m
<1>7. CASE ~fFlush
  BY <1>2, <1>3, <1>7 DEF Showing, m, all
<1>8. QED
  BY <1>6, <1>7

(* The beginnings of a beginning are beginnings. *)
LEMMA Prefix ==
    ASSUME NEW R, NEW c \in Seq(R), NEW n \in 0 .. Len(c)
    PROVE  /\ SubSeq(c, 1, n) \in Seq(R) /\ Len(SubSeq(c, 1, n)) = n
           /\ \A i \in 1 .. n : SubSeq(c, 1, n)[i] = c[i]
           /\ \A k \in 0 .. n : SubSeq(SubSeq(c, 1, n), 1, k) = SubSeq(c, 1, k)
<1>1. SubSeq(c, 1, n) \in Seq(R) /\ Len(SubSeq(c, 1, n)) = n /\ \A i \in 1 .. n : SubSeq(c, 1, n)[i] = c[i]
  OBVIOUS
<1>2. ASSUME NEW k \in 0 .. n PROVE SubSeq(SubSeq(c, 1, n), 1, k) = SubSeq(c, 1, k)
  <2> DEFINE d == SubSeq(c, 1, n)
             x == SubSeq(d, 1, k)
             y == SubSeq(c, 1, k)
  <2>1. x \in Seq(R) /\ Len(x) = k /\ \A i \in 1 .. k : x[i] = d[i]
    <3>1. d \in Seq(R) /\ k \in 0 .. Len(d)
      BY <1>1
    <3> HIDE DEF d
    <3>2. QED
      BY <3>1
  <2>2. y \in Seq(R) /\ Len(y) = k /\ \A i \in 1 .. k : y[i] = c[i]
    OBVIOUS
  <2>3. \A i \in 1 .. k : x[i] = y[i]
    BY <1>1, <2>1, <2>2
  <2> HIDE DEF x, y
  <2>4. x = y
    BY <2>1, <2>2, <2>3
  <2>5. QED
    BY <2>4 DEF x, y, d
<1>3. QED
  BY <1>1, <1>2

(* What is appended does not change the beginnings. *)
LEMMA Appended ==
    ASSUME NEW R, NEW c \in Seq(R), NEW b \in R
    PROVE  /\ Append(c, b) \in Seq(R) /\ Len(Append(c, b)) = Len(c) + 1 /\ Append(c, b)[Len(c) + 1] = b
           /\ \A i \in 1 .. Len(c) : Append(c, b)[i] = c[i]
           /\ \A k \in 0 .. Len(c) : SubSeq(Append(c, b), 1, k) = SubSeq(c, 1, k)
<1>1. /\ Append(c, b) \in Seq(R) /\ Len(Append(c, b)) = Len(c) + 1 /\ Append(c, b)[Len(c) + 1] = b
      /\ \A i \in 1 .. Len(c) : Append(c, b)[i] = c[i]
  OBVIOUS
<1>2. ASSUME NEW k \in 0 .. Len(c) PROVE SubSeq(Append(c, b), 1, k) = SubSeq(c, 1, k)
  <2> DEFINE d == Append(c, b)
             x == SubSeq(d, 1, k)
             y == SubSeq(c, 1, k)
  <2>1. x \in Seq(R) /\ Len(x) = k /\ \A i \in 1 .. k : x[i] = d[i]
    <3>1. d \in Seq(R) /\ k \in 0 .. Len(d)
      BY <1>1
    <3> HIDE DEF d
    <3>2. QED
      BY <3>1
  <2>2. y \in Seq(R) /\ Len(y) = k /\ \A i \in 1 .. k : y[i] = c[i]
    OBVIOUS
  <2>3. \A i \in 1 .. k : x[i] = y[i]
    BY <1>1, <2>1, <2>2
  <2> HIDE DEF x, y
  <2>4. x = y
    BY <2>1, <2>2, <2>3
  <2>5. QED
    BY <2>4 DEF x, y, d
<1>3. QED
  BY <1>1, <1>2

(* A sequence is all of it, and its last is appended to the rest. *)
LEMMA WholeIs ==
    ASSUME NEW R, NEW c \in Seq(R)
    PROVE  /\ SubSeq(c, 1, Len(c)) = c
           /\ c # <<>> => Append(SubSeq(c, 1, Len(c) - 1), c[Len(c)]) = c
<1>1. SubSeq(c, 1, Len(c)) = c
  OBVIOUS
<1>2. ASSUME c # <<>> PROVE Append(SubSeq(c, 1, Len(c) - 1), c[Len(c)]) = c
  <2> DEFINE d == SubSeq(c, 1, Len(c) - 1)
             e == Append(d, c[Len(c)])
  <2>1. Len(c) \in Nat /\ Len(c) # 0 /\ Len(c) - 1 \in 0 .. Len(c) /\ c[Len(c)] \in R
    BY <1>2
  <2>2. d \in Seq(R) /\ Len(d) = Len(c) - 1 /\ \A i \in 1 .. Len(c) - 1 : d[i] = c[i]
    BY <2>1, Prefix
  <2> HIDE DEF d
  <2>3. e \in Seq(R) /\ Len(e) = Len(c) /\ e[Len(c)] = c[Len(c)] /\ \A i \in 1 .. Len(c) - 1 : e[i] = c[i]
    BY <2>1, <2>2, Appended
  <2> HIDE DEF e
  <2>4. \A i \in 1 .. Len(c) : e[i] = c[i]
    BY <2>1, <2>3
  <2>5. e = c
    BY <2>3, <2>4
  <2>6. QED
    BY <2>5 DEF e, d
<1>3. QED
  BY <1>1, <1>2

-----------------------------------------------------------------------------
(* What connecting and disconnecting do to the chain and to its coins *)

(* In the invariant pcoinsTip shows the chain. *)
LEMMA TipIsOK ==
    ASSUME LInv
    PROVE  /\ ViewOK(pcoinsTip) /\ Shows(pcoinsTip, chain)
           /\ ChainOK(chain) /\ Legit(chain) /\ Len(chain) \in Nat
<1>1. ViewOK(cacheCoins) /\ ViewOK(coinsdb) /\ Shows(pcoinsTip, chain) /\ ChainOK(chain) /\ Legit(chain)
  BY DEF LInv, CoinsInv, ChainInv, pcoinsTip
<1>2. ViewOK(pcoinsTip)
  BY <1>1, OverIs DEF pcoinsTip
<1>3. QED
  BY <1>1, <1>2, ChainIs

(* A chain stays sound when blocks are disconnected. *)
LEMMA LegitPrefix ==
    ASSUME NEW c, ChainInv(c), NEW n \in 0 .. Len(c)
    PROVE  ChainInv(SubSeq(c, 1, n))
<1> DEFINE R == [vtx : Blocks, vtxundo : Seq(Seq(Nat))]
           d == SubSeq(c, 1, n)
<1>1. c \in Seq(R) /\ Len(c) \in Nat /\ Len(c) <= MaxHeight /\ Legit(c)
  BY DEF ChainInv, ChainOK
<1>2. /\ d \in Seq(R) /\ Len(d) = n /\ \A i \in 1 .. n : d[i] = c[i]
      /\ \A k \in 0 .. n : SubSeq(d, 1, k) = SubSeq(c, 1, k)
  <2> HIDE DEF R
  <2>1. QED
    BY <1>1, Prefix
<1> HIDE DEF d
<1>3. ChainOK(d)
  BY <1>2 DEF ChainOK
<1>4. Len(d) <= MaxHeight
  BY <1>1, <1>2, TxAssumption
<1>5. ASSUME NEW h \in 1 .. Len(d)
      PROVE  \E v : /\ Shows(v, SubSeq(d, 1, h - 1)) /\ Fits(v, d[h].vtx, h)
                    /\ d[h].vtxundo = ConnectBlock(v, d[h].vtx, h).vtxundo
  <2>1. h \in 1 .. Len(c) /\ d[h] = c[h] /\ SubSeq(d, 1, h - 1) = SubSeq(c, 1, h - 1)
    BY <1>1, <1>2
  <2>2. QED
    BY <1>1, <2>1 DEF Legit
<1>6. QED
  BY <1>3, <1>4, <1>5 DEF ChainInv, Legit, d

(* A chain stays sound when a block is connected. *)
LEMMA LegitAppend ==
    ASSUME NEW c, ChainInv(c), Len(c) < MaxHeight,
           NEW v, Shows(v, c), NEW vtx, Fits(v, vtx, Len(c) + 1),
           NEW b, b = [vtx |-> vtx, vtxundo |-> ConnectBlock(v, vtx, Len(c) + 1).vtxundo]
    PROVE  ChainInv(Append(c, b))
<1> DEFINE R == [vtx : Blocks, vtxundo : Seq(Seq(Nat))]
           d == Append(c, b)
<1>1. c \in Seq(R) /\ Len(c) \in Nat /\ Legit(c)
  BY DEF ChainInv, ChainOK
<1>2. b \in R
  <2>1. vtx \in Blocks /\ Len(vtx) \in 0 .. Len(vtx)
    BY BlockIs DEF Fits
  <2>2. ConnectBlock(v, vtx, Len(c) + 1).vtxundo \in Seq(Seq(Nat))
    BY <2>1, ConnectingAll DEF ConnectedTo, ConnectBlock
  <2>3. QED
    BY <2>1, <2>2
<1>3. /\ d \in Seq(R) /\ Len(d) = Len(c) + 1 /\ d[Len(c) + 1] = b /\ \A i \in 1 .. Len(c) : d[i] = c[i]
      /\ \A k \in 0 .. Len(c) : SubSeq(d, 1, k) = SubSeq(c, 1, k)
  <2> HIDE DEF R
  <2>1. QED
    BY <1>1, <1>2, Appended
<1> HIDE DEF d
<1>4. ChainOK(d)
  BY <1>3 DEF ChainOK
<1>5. Len(d) <= MaxHeight
  BY <1>1, <1>3, TxAssumption
<1>6. ASSUME NEW h \in 1 .. Len(d)
      PROVE  \E w : /\ Shows(w, SubSeq(d, 1, h - 1)) /\ Fits(w, d[h].vtx, h)
                    /\ d[h].vtxundo = ConnectBlock(w, d[h].vtx, h).vtxundo
  <2>1. CASE h = Len(c) + 1
    <3>1. h - 1 = Len(c) /\ Len(c) \in 0 .. Len(c) /\ d[h] = b
      BY <1>1, <1>3, <2>1
    <3>2. SubSeq(d, 1, h - 1) = c
      <4>1. SubSeq(c, 1, Len(c)) = c
        BY <1>1
      <4>2. QED
        BY <1>3, <3>1, <4>1
    <3>3. b.vtx = vtx /\ b.vtxundo = ConnectBlock(v, vtx, Len(c) + 1).vtxundo
      OBVIOUS
    <3>4. QED
      BY <2>1, <3>1, <3>2, <3>3
  <2>2. CASE h # Len(c) + 1
    <3>1. h \in 1 .. Len(c) /\ h - 1 \in 0 .. Len(c)
      BY <1>1, <1>3, <2>2
    <3>2. d[h] = c[h] /\ SubSeq(d, 1, h - 1) = SubSeq(c, 1, h - 1)
      BY <1>3, <3>1
    <3>3. QED
      BY <1>1, <3>1, <3>2 DEF Legit
  <2>3. QED
    BY <2>1, <2>2
<1>7. QED
  BY <1>4, <1>5, <1>6 DEF ChainInv, Legit, d

(* Connecting a block that ConnectBlock accepts gives a sound chain and the  *)
(* coins that show it.                                                       *)
LEMMA ConnectedIs ==
    ASSUME LInv, NEW vtx \in Blocks, Connected(vtx).ok
    PROVE  LET c == Append(chain, [vtx |-> vtx, vtxundo |-> Connected(vtx).vtxundo]) IN
           /\ Height < MaxHeight => ChainInv(c)
           /\ Shows(Connected(vtx).view, c) /\ ViewOK(Connected(vtx).view)
           /\ DOMAIN Connected(vtx).view = DOMAIN pcoinsTip \cup {vtx[k] : k \in 1 .. Len(vtx)}
           /\ Fits(pcoinsTip, vtx, Len(chain) + 1)
<1> DEFINE v == pcoinsTip
           h == Len(chain) + 1
           b == [vtx |-> vtx, vtxundo |-> ConnectBlock(v, vtx, h).vtxundo]
<1>1. ViewOK(v) /\ Shows(v, chain) /\ ChainInv(chain) /\ ChainOK(chain) /\ Len(chain) \in Nat
  BY TipIsOK DEF LInv
<1>2. Connected(vtx) = ConnectBlock(v, vtx, h)
  BY DEF Connected, Height
<1>3. h \in Nat \ {0}
  BY <1>1
<1> HIDE DEF v
<1>4. Fits(v, vtx, Len(chain) + 1)
  BY <1>1, <1>2, <1>3 DEF Fits
<1>5. b.vtx = vtx
  OBVIOUS
<1> HIDE DEF b
<1>6. Shows(ConnectBlock(v, vtx, Len(chain) + 1).view, Append(chain, b))
  BY <1>1, <1>4, <1>5, ConnectShows
<1>7. Height < MaxHeight => ChainInv(Append(chain, b))
  BY <1>1, <1>4, LegitAppend DEF b, Height
<1>8. ConnectedTo(v, vtx, h, ConnectBlock(v, vtx, h), Len(vtx))
  <2>1. Len(vtx) \in 0 .. Len(vtx)
    BY BlockIs
  <2>2. QED
    BY <1>4, <2>1, ConnectingAll DEF ConnectBlock
<1>9. /\ ViewOK(ConnectBlock(v, vtx, h).view)
      /\ DOMAIN ConnectBlock(v, vtx, h).view = DOMAIN v \cup {vtx[k] : k \in 1 .. Len(vtx)}
  BY <1>8 DEF ConnectedTo
<1>10. QED
  BY <1>2, <1>4, <1>6, <1>7, <1>9 DEF b, v

(* Disconnecting the tip is clean, and gives a sound chain and the coins     *)
(* that show it.                                                             *)
LEMMA DisconnectedIs ==
    ASSUME LInv, chain # <<>>
    PROVE  /\ Disconnected.clean /\ Shows(Disconnected.view, SubSeq(chain, 1, Height - 1))
           /\ ViewOK(Disconnected.view) /\ DOMAIN pcoinsTip \subseteq DOMAIN Disconnected.view
           /\ ChainInv(SubSeq(chain, 1, Height - 1))
<1> DEFINE R == [vtx : Blocks, vtxundo : Seq(Seq(Nat))]
           c == chain
           h == Len(c)
           d == SubSeq(c, 1, h - 1)
           b == c[h]
           vtx == b.vtx
           w == pcoinsTip
<1>1. ViewOK(w) /\ Shows(w, c) /\ ChainInv(c) /\ ChainOK(c) /\ Legit(c) /\ h \in Nat
  BY TipIsOK DEF LInv
<1>2. c \in Seq(R)
  BY <1>1 DEF ChainOK
<1>3. h \in 1 .. Len(c) /\ h - 1 \in 0 .. Len(c) /\ h - 1 + 1 = h
  BY <1>1, <1>2
<1>4. d \in Seq(R) /\ Len(d) = h - 1
  <2> HIDE DEF R
  <2>1. QED
    BY <1>2, <1>3, Prefix
<1>5. Append(d, b) = c
  <2> HIDE DEF R
  <2>1. QED
    BY <1>2, WholeIs
<1>6. ChainInv(d)
  BY <1>1, <1>3, LegitPrefix
<1>7. Disconnected = DisconnectBlock(w, b, h) /\ SubSeq(chain, 1, Height - 1) = d
  BY DEF Disconnected, Height
<1>8. PICK v : Shows(v, d) /\ Fits(v, vtx, h) /\ b.vtxundo = ConnectBlock(v, vtx, h).vtxundo
  BY <1>1, <1>3 DEF Legit
<1>9. ChainOK(d)
  BY <1>4 DEF ChainOK
<1> HIDE DEF R, d, h, b, w
<1>10. Fits(v, vtx, Len(d) + 1) /\ b.vtx = vtx
  BY <1>3, <1>4, <1>8
<1> HIDE DEF vtx
<1>11. Shows(ConnectBlock(v, vtx, h).view, Append(d, b))
  <2>1. Shows(ConnectBlock(v, vtx, Len(d) + 1).view, Append(d, b))
    BY <1>8, <1>9, <1>10, ConnectShows
  <2>2. QED
    BY <1>3, <1>4, <2>1
<1> DEFINE k == ConnectBlock(v, vtx, h)
<1>12. ViewOK(k.view)
  <2>1. Len(vtx) \in 0 .. Len(vtx)
    BY <1>8, BlockIs DEF Fits
  <2>2. QED
    BY <1>8, <2>1, ConnectingAll DEF ConnectBlock, ConnectedTo
<1>13. Alike(w, k.view)
  <2> HIDE DEF k
  <2>1. Shows(k.view, c)
    BY <1>5, <1>11 DEF k
  <2>2. QED
    BY <1>1, <1>12, <2>1, ShowsOnce
<1>14. MadeOn(b, v, vtx, h)
  BY <1>8, <1>10 DEF MadeOn
<1>15. GoneBack(w, DisconnectBlock(w, b, h), v)
  BY <1>1, <1>8, <1>13, <1>14, DisconnectBlockIs
<1> DEFINE e == DisconnectBlock(w, b, h)
<1>16. e.clean = TRUE /\ ViewOK(e.view) /\ Alike(v, e.view) /\ DOMAIN w \subseteq DOMAIN e.view
  BY <1>15, AlikeIsSymmetric DEF GoneBack
<1> HIDE DEF e
<1>17. Shows(e.view, d)
  BY <1>8, <1>16, ShowsAlike
<1>18. QED
  BY <1>6, <1>7, <1>16, <1>17 DEF e, w

-----------------------------------------------------------------------------
(* The invariant is inductive *)

(* No coins show the empty chain, which is sound. *)
LEMMA NoChain == ChainInv(<<>>) /\ \A v : DOMAIN v = {} => Shows(v, <<>>)
<1>1. ChainInv(<<>>)
  BY TxAssumption DEF ChainInv, ChainOK, Legit
<1>2. Places(<<>>) = {}
  BY DEF Places
<1>3. ASSUME NEW v, DOMAIN v = {} PROVE Shows(v, <<>>)
  <2>1. \A t : Get(v, t) = Empty
    BY <1>3 DEF Get
  <2>2. \A t : LastPlaces(<<>>, t) = {}
    BY <1>2 DEF LastPlaces
  <2>3. \A t : Unspent(<<>>, t) = {}
    BY <2>2 DEF Unspent
  <2>4. Empty.vout = {} /\ IsPruned(Empty)
    BY DEF Empty, IsPruned
  <2>5. \A t : IsLeft(Empty, <<>>, t)
    BY <2>3, <2>4 DEF IsLeft
  <2>6. QED
    BY <2>1, <2>5 DEF Shows
<1>4. QED
  BY <1>1, <1>3

(* The invariant holds before the first block. *)
LEMMA InitIs == LedgerInit => LInv
<1> SUFFICES ASSUME LedgerInit PROVE LInv
  OBVIOUS
<1>1. chain = <<>> /\ cacheCoins = NoCoins /\ coinsdb = NoCoins /\ flushed = <<>>
  BY DEF LedgerInit
<1>2. DOMAIN NoCoins = {} /\ ViewOK(NoCoins)
  BY DEF NoCoins, ViewOK
<1>3. DOMAIN Over(NoCoins, NoCoins) = {}
  BY <1>2 DEF Over
<1>4. Shows(NoCoins, <<>>) /\ Shows(Over(NoCoins, NoCoins), <<>>) /\ ChainInv(<<>>)
  BY <1>2, <1>3, NoChain
<1>5. QED
  BY <1>1, <1>2, <1>4 DEF LInv, CoinsInv

(* Every step of the ledger preserves the invariant. *)
LEMMA StepIs == LInv /\ [LedgerNext]_ledger => LInv'
<1> SUFFICES ASSUME LInv, [LedgerNext]_ledger PROVE LInv'
  OBVIOUS
<1>1. /\ ChainInv(chain) /\ ChainInv(flushed)
      /\ CoinsInv(cacheCoins, coinsdb, chain, flushed)
  BY DEF LInv
<1>2. ASSUME NEW fFlush \in BOOLEAN, NEW vtx \in Blocks, ConnectCoins(vtx, fFlush) PROVE LInv'
  <2> DEFINE u == Connected(vtx)
             w == u.view
  <2>1. /\ Height < MaxHeight /\ u.ok /\ chain' = Append(chain, [vtx |-> vtx, vtxundo |-> u.vtxundo])
        /\ Apply(w, fFlush)
    BY <1>2 DEF ConnectCoins
  <2>2. ChainInv(chain') /\ Shows(w, chain') /\ ViewOK(w) /\ DOMAIN pcoinsTip \subseteq DOMAIN w
    BY <2>1, ConnectedIs
  <2> HIDE DEF u, w
  <2>3. CoinsInv(cacheCoins', coinsdb', chain', flushed') /\ flushed' \in {flushed, chain'}
    BY <2>1, <2>2, ApplyIs
  <2>4. QED
    BY <1>1, <2>2, <2>3 DEF LInv
<1>3. ASSUME NEW fFlush \in BOOLEAN, DisconnectCoins(fFlush) PROVE LInv'
  <2> DEFINE w == Disconnected.view
  <2>1. chain # <<>> /\ chain' = SubSeq(chain, 1, Height - 1) /\ Apply(w, fFlush)
    BY <1>3 DEF DisconnectCoins
  <2>2. ChainInv(chain') /\ Shows(w, chain') /\ ViewOK(w) /\ DOMAIN pcoinsTip \subseteq DOMAIN w
    BY <2>1, DisconnectedIs
  <2> HIDE DEF w
  <2>3. CoinsInv(cacheCoins', coinsdb', chain', flushed') /\ flushed' \in {flushed, chain'}
    BY <2>1, <2>2, ApplyIs
  <2>4. QED
    BY <1>1, <2>2, <2>3 DEF LInv
<1>4. CASE RestartCoins
  <2>1. chain' = flushed /\ cacheCoins' = NoCoins /\ coinsdb' = coinsdb /\ flushed' = flushed
    BY <1>4 DEF RestartCoins
  <2>2. ViewOK(coinsdb) /\ Shows(coinsdb, flushed) /\ \A t \in DOMAIN coinsdb : ~IsPruned(coinsdb[t])
    BY <1>1 DEF CoinsInv
  <2>3. Alike(coinsdb, Over(NoCoins, coinsdb)) /\ ViewOK(NoCoins)
    BY NoCoinsAlike, NoCoinsOver
  <2>4. Shows(Over(NoCoins, coinsdb), flushed)
    BY <2>2, <2>3, ShowsAlike
  <2>5. QED
    BY <1>1, <2>1, <2>2, <2>3, <2>4 DEF LInv, CoinsInv
<1>5. CASE StopCoins
  <2> DEFINE w == Written(cacheCoins)
  <2>1. coinsdb' = w /\ cacheCoins' = NoCoins /\ flushed' = chain /\ chain' = chain
    BY <1>5 DEF StopCoins
  <2>2. ViewOK(cacheCoins) /\ ViewOK(coinsdb) /\ Shows(Over(cacheCoins, coinsdb), chain)
    BY <1>1 DEF CoinsInv
  <2>3. ViewOK(w) /\ Alike(Over(cacheCoins, coinsdb), w) /\ \A t \in DOMAIN w : ~IsPruned(w[t])
    BY <2>2, WrittenIs
  <2> HIDE DEF w
  <2>4. Shows(w, chain)
    BY <2>2, <2>3, ShowsAlike
  <2>5. Alike(w, Over(NoCoins, w)) /\ ViewOK(NoCoins)
    BY NoCoinsAlike, NoCoinsOver
  <2>6. Shows(Over(NoCoins, w), chain)
    BY <2>4, <2>5, ShowsAlike
  <2>7. QED
    BY <1>1, <2>1, <2>3, <2>4, <2>5, <2>6 DEF LInv, CoinsInv
<1>6. CASE UNCHANGED ledger
  BY <1>1, <1>6 DEF LInv, ledger
<1>7. QED
  BY <1>2, <1>3, <1>4, <1>5, <1>6 DEF LedgerNext

(* The invariant has the coins of the chain, and the clean disconnection of  *)
(* its tip.                                                                  *)
LEMMA InvImplies == LInv => CoinsAreTheChains /\ DisconnectIsClean
<1> SUFFICES ASSUME LInv PROVE CoinsAreTheChains /\ DisconnectIsClean
  OBVIOUS
<1>1. /\ ChainInv(chain) /\ ChainInv(flushed) /\ ViewOK(cacheCoins) /\ ViewOK(coinsdb)
      /\ Shows(pcoinsTip, chain) /\ Shows(coinsdb, flushed)
      /\ \A t \in DOMAIN coinsdb : ~IsPruned(coinsdb[t])
  BY DEF LInv, CoinsInv, pcoinsTip
<1>2. LedgerTypeOK
  <2>1. \A i \in DOMAIN chain : chain[i].vtx \in Blocks
    BY <1>1, ChainIs DEF ChainInv
  <2>2. Height <= MaxHeight
    BY <1>1 DEF ChainInv, Height
  <2>3. ASSUME NEW view \in {cacheCoins, coinsdb}
        PROVE  /\ DOMAIN view \subseteq Tx
               /\ \A t \in DOMAIN view : view[t].vout \subseteq Spendable[t] /\ view[t].nHeight \in Nat
    BY <1>1 DEF ViewOK, CoinOK, CoinSet
  <2>4. ASSUME NEW c \in {chain, flushed}, NEW v, Shows(v, c), NEW t \in Tx, ~IsPruned(Get(v, t))
        PROVE  Get(v, t).nHeight \in 1 .. MaxHeight
    <3>1. PICK p \in LastPlaces(c, t) : Get(v, t).nHeight = p[1]
      BY <2>4 DEF Shows, IsLeft
    <3>2. p \in Places(c) /\ ChainOK(c) /\ Len(c) <= MaxHeight
      BY <1>1, <2>4 DEF LastPlaces, ChainInv
    <3>3. p[1] \in 1 .. Len(c) /\ Len(c) \in Nat
      BY <3>2, ChainIs
    <3>4. QED
      BY <3>1, <3>2, <3>3, TxAssumption
  <2>5. \A t \in DOMAIN coinsdb : ~IsPruned(coinsdb[t]) => coinsdb[t].nHeight \in 1 .. MaxHeight
    BY <1>1, <2>3, <2>4 DEF Get
  <2>6. \A t \in DOMAIN cacheCoins : ~IsPruned(cacheCoins[t]) => cacheCoins[t].nHeight \in 1 .. MaxHeight
    <3>1. \A t \in DOMAIN cacheCoins : Get(pcoinsTip, t) = cacheCoins[t]
      BY OverShows DEF pcoinsTip
    <3>2. QED
      BY <1>1, <2>3, <2>4, <3>1
  <2>7. QED
    BY <2>1, <2>2, <2>3, <2>5, <2>6 DEF LedgerTypeOK
<1>3. CoinsAreTheChains
  BY <1>1, <1>2 DEF CoinsAreTheChains, CacheIsTheChains, DatabaseIsAChains
<1>4. DisconnectIsClean
  BY DisconnectedIs DEF DisconnectIsClean
<1>5. QED
  BY <1>3, <1>4

-----------------------------------------------------------------------------

(* The invariant holds in every behaviour of the ledger. *)
THEOREM LedgerInvariant == LedgerSpec => []LInv
BY InitIs, StepIs, PTL DEF LedgerSpec

(* In every behaviour the coins that pcoinsTip shows are exactly the unspent *)
(* outputs of the active chain, and those in the coin database are those of  *)
(* the chain its best block names, with heights and across flushes,          *)
(* reorganisations and restarts (ConnectBlock, DisconnectBlock,              *)
(* CCoinsViewCache).                                                         *)
THEOREM CoinsAreTheChainsAlways == LedgerSpec => []CoinsAreTheChains
BY LedgerInvariant, InvImplies, PTL

(* In every behaviour DisconnectBlock of the tip is clean and gives back the *)
(* coins of the chain before it: the undo data restores what was spent,      *)
(* whatever has been connected since.                                        *)
THEOREM DisconnectIsCleanAlways == LedgerSpec => []DisconnectIsClean
BY LedgerInvariant, InvImplies, PTL

-----------------------------------------------------------------------------
(* The pool's index *)

(* mapNextTx has exactly the outpoints that transactions of the pool spend,  *)
(* each with the one that spends it; loose coinbases share the null          *)
(* outpoint.                                                                 *)
PoolInv(p) ==
    /\ p.mapTx \subseteq Tx
    /\ \A out \in DOMAIN p.mapNextTx :
          p.mapNextTx[out] \in p.mapTx /\ out \in prevouts(p.mapNextTx[out])
    /\ \A t \in p.mapTx \ CoinBase : \A out \in prevouts(t) :
          out \in DOMAIN p.mapNextTx /\ p.mapNextTx[out] = t

(* A coinbase spends the null outpoint, other transactions outputs. *)
LEMMA PrevoutsAre ==
    ASSUME NEW t \in Tx
    PROVE  /\ t \in CoinBase => prevouts(t) = {Null}
           /\ t \notin CoinBase => prevouts(t) \subseteq Tx \X Nat /\ Null \notin prevouts(t)
<1>1. CASE t \in CoinBase
  BY <1>1 DEF prevouts
<1>2. CASE t \notin CoinBase
  <2>1. prevouts(t) = {vin[t][k] : k \in 1 .. Len(vin[t])}
    BY <1>2, InputsAre DEF prevouts, ToSet
  <2>2. \A k \in 1 .. Len(vin[t]) : vin[t][k] \in Tx \X Nat
    BY <1>2, InputsAre
  <2>3. QED
    BY <1>2, <2>1, <2>2, PoolAssumption
<1>3. QED
  BY <1>1, <1>2

(* The index stays exact when a transaction without conflicts is added       *)
(* (addUnchecked).                                                           *)
LEMMA AddedIsExact ==
    ASSUME NEW p, PoolInv(p), NEW t \in Tx, t \notin CoinBase => prevouts(t) \cap DOMAIN p.mapNextTx = {}
    PROVE  PoolInv(addUnchecked(p, t)) /\ addUnchecked(p, t).mapTx = p.mapTx \cup {t}
<1> DEFINE q == addUnchecked(p, t)
<1>1. /\ q.mapTx = p.mapTx \cup {t}
      /\ DOMAIN q.mapNextTx = DOMAIN p.mapNextTx \cup prevouts(t)
      /\ \A out \in DOMAIN q.mapNextTx : q.mapNextTx[out] = IF out \in prevouts(t) THEN t ELSE p.mapNextTx[out]
  BY DEF addUnchecked
<1> HIDE DEF q
<1>2. q.mapTx \subseteq Tx
  BY <1>1 DEF PoolInv
<1>3. \A out \in DOMAIN q.mapNextTx : q.mapNextTx[out] \in q.mapTx /\ out \in prevouts(q.mapNextTx[out])
  BY <1>1 DEF PoolInv
<1>4. ASSUME NEW u \in q.mapTx \ CoinBase, NEW out \in prevouts(u)
      PROVE  out \in DOMAIN q.mapNextTx /\ q.mapNextTx[out] = u
  <2>1. CASE u = t
    BY <1>1, <2>1
  <2>2. CASE u # t
    <3>1. u \in p.mapTx /\ u \in Tx /\ out \in DOMAIN p.mapNextTx /\ p.mapNextTx[out] = u
      BY <1>1, <1>2, <2>2 DEF PoolInv
    <3>2. out \notin prevouts(t)
      <4>1. CASE t \in CoinBase
        BY <3>1, <4>1, PrevoutsAre
      <4>2. CASE t \notin CoinBase
        BY <3>1, <4>2
      <4>3. QED
        BY <4>1, <4>2
    <3>3. QED
      BY <1>1, <3>1, <3>2
  <2>3. QED
    BY <2>1, <2>2
<1>5. QED
  BY <1>1, <1>2, <1>3, <1>4 DEF PoolInv, q

(* The index stays exact when transactions are removed (remove). *)
LEMMA RemoveIsExact ==
    ASSUME NEW p, PoolInv(p), NEW S
    PROVE  PoolInv(remove(p, S)) /\ remove(p, S).mapTx = p.mapTx \ S
<1> DEFINE q == remove(p, S)
           gone == S \cap p.mapTx
           lost == UNION {prevouts(t) : t \in gone}
<1>1. /\ q.mapTx = p.mapTx \ gone
      /\ DOMAIN q.mapNextTx = DOMAIN p.mapNextTx \ lost
      /\ \A out \in DOMAIN q.mapNextTx : q.mapNextTx[out] = p.mapNextTx[out]
  BY DEF remove
<1>2. \A out : out \in lost <=> \E t \in gone : out \in prevouts(t)
  OBVIOUS
<1> HIDE DEF q, lost
<1>3. q.mapTx = p.mapTx \ S /\ q.mapTx \subseteq Tx
  BY <1>1 DEF PoolInv
<1>4. ASSUME NEW out \in DOMAIN q.mapNextTx
      PROVE  q.mapNextTx[out] \in q.mapTx /\ out \in prevouts(q.mapNextTx[out])
  <2>1. p.mapNextTx[out] \in p.mapTx /\ out \in prevouts(p.mapNextTx[out]) /\ q.mapNextTx[out] = p.mapNextTx[out]
    BY <1>1 DEF PoolInv
  <2>2. p.mapNextTx[out] \notin gone
    BY <1>1, <1>2, <2>1
  <2>3. QED
    BY <1>1, <2>1, <2>2
<1>5. ASSUME NEW u \in q.mapTx \ CoinBase, NEW out \in prevouts(u)
      PROVE  out \in DOMAIN q.mapNextTx /\ q.mapNextTx[out] = u
  <2>1. u \in p.mapTx /\ u \notin gone /\ u \in Tx /\ out \in DOMAIN p.mapNextTx /\ p.mapNextTx[out] = u
    BY <1>1, <1>3 DEF PoolInv
  <2>2. out \notin lost
    <3>1. SUFFICES ASSUME NEW t \in gone, out \in prevouts(t) PROVE FALSE
      BY <1>2
    <3>2. t \in p.mapTx /\ t \in Tx /\ t # u
      BY <2>1 DEF PoolInv
    <3>3. CASE t \in CoinBase
      BY <2>1, <3>1, <3>2, <3>3, PrevoutsAre
    <3>4. CASE t \notin CoinBase
      BY <2>1, <3>1, <3>2, <3>4 DEF PoolInv
    <3>5. QED
      BY <3>3, <3>4
  <2>3. QED
    BY <1>1, <2>1, <2>2
<1>6. QED
  BY <1>3, <1>4, <1>5 DEF PoolInv, q

(* What is removed with its descendants is removed. *)
LEMMA DescendantsHold == ASSUME NEW p, NEW S PROVE S \subseteq WithDescendants(p, S)
BY DEF WithDescendants

(* What is removed takes its spenders with it. *)
LEMMA DescendantsAreClosed ==
    ASSUME NEW p, NEW S, NEW c \in WithDescendants(p, S), NEW d \in Spenders(p, c), d \in p.mapTx
    PROVE  d \in WithDescendants(p, S)
<1>1. ASSUME NEW C \in SUBSET (p.mapTx \cup S), S \subseteq C, \A e \in C : Spenders(p, e) \subseteq C
      PROVE  d \in C
  <2>1. c \in C
    BY <1>1 DEF WithDescendants
  <2>2. QED
    BY <1>1, <2>1
<1>2. QED
  BY <1>1 DEF WithDescendants

(* A transaction of the pool is the spender of the transactions whose        *)
(* outputs it spends.                                                        *)
LEMMA SpenderIs ==
    ASSUME NEW p, PoolInv(p), NEW t \in p.mapTx \ CoinBase, NEW out \in prevouts(t)
    PROVE  t \in Spenders(p, out[1])
<1>1. out \in DOMAIN p.mapNextTx /\ p.mapNextTx[out] = t /\ t \in Tx
  BY DEF PoolInv
<1>2. out # Null
  BY <1>1, PrevoutsAre
<1>3. QED
  BY <1>1, <1>2 DEF Spenders

(* Removing transactions with their descendants leaves nothing in the pool   *)
(* that spends an output of what is gone.                                    *)
LEMMA NoneIsLeftBehind ==
    ASSUME NEW p, PoolInv(p), NEW S,
           NEW t \in p.mapTx \ WithDescendants(p, S), t \notin CoinBase, NEW out \in prevouts(t)
    PROVE  out[1] \notin WithDescendants(p, S)
<1>1. SUFFICES ASSUME out[1] \in WithDescendants(p, S) PROVE FALSE
  OBVIOUS
<1>2. t \in Spenders(p, out[1])
  BY SpenderIs
<1>3. t \in WithDescendants(p, S)
  BY <1>1, <1>2, DescendantsAreClosed
<1>4. QED
  BY <1>3

-----------------------------------------------------------------------------
(* Connecting a block and disconnecting it, transaction by transaction *)

(* ConnectTip goes through the transactions of the block in order. *)
LEMMA ConfirmingIs ==
    ASSUME NEW vtx, Len(vtx) \in Nat
    PROVE  /\ Confirming(vtx)[0] = pool
           /\ \A n \in 1 .. Len(vtx) : Confirming(vtx)[n] = Confirm(Confirming(vtx)[n - 1], vtx[n])
<1> DEFINE N == Len(vtx)
           base == pool
           Is(g, m) == g = [n \in 0 .. m |-> IF n = 0 THEN base ELSE Confirm(g[n - 1], vtx[n])]
           f == CHOOSE g : Is(g, N)
<1>1. N \in Nat
  OBVIOUS
<1>2. Confirming(vtx) = f
  BY DEF Confirming
<1> HIDE DEF N, base
<1>3. ASSUME NEW m \in Nat, NEW g, Is(g, m) PROVE \E e : Is(e, m + 1)
  <2> DEFINE e == [n \in 0 .. m + 1 |-> IF n = 0 THEN base ELSE Confirm(g[n - 1], vtx[n])]
  <2>1. \A n \in 0 .. m : e[n] = g[n]
    BY <1>3
  <2>2. \A n \in 1 .. m + 1 : n - 1 \in 0 .. m
    OBVIOUS
  <2>3. \A n \in 0 .. m + 1 : (IF n = 0 THEN base ELSE Confirm(e[n - 1], vtx[n])) = (IF n = 0 THEN base ELSE Confirm(g[n - 1], vtx[n]))
    <3> HIDE DEF e
    <3>1. \A n \in 1 .. m + 1 : e[n - 1] = g[n - 1]
      BY <2>1, <2>2
    <3>2. \A n \in 0 .. m + 1 : n = 0 \/ n \in 1 .. m + 1
      OBVIOUS
    <3>3. QED
      BY <3>1, <3>2
  <2>4. e = [n \in 0 .. m + 1 |-> IF n = 0 THEN base ELSE Confirm(e[n - 1], vtx[n])]
    BY <2>3, Zenon
  <2>5. QED
    BY <2>4
<1>4. \E e : Is(e, 0)
  <2> DEFINE e == [n \in 0 .. 0 |-> base]
  <2>1. e = [n \in 0 .. 0 |-> IF n = 0 THEN base ELSE Confirm(e[n - 1], vtx[n])]
    OBVIOUS
  <2>2. QED
    BY <2>1
<1>5. \E g : Is(g, N)
  <2> DEFINE S == {m \in 0 .. N : \E g : Is(g, m)}
  <2>1. 0 \in S
    BY <1>1, <1>4
  <2>2. ASSUME NEW n \in 1 .. N, n - 1 \in S PROVE n \in S
    <3> DEFINE l == n - 1
    <3>1. l \in Nat /\ l + 1 = n /\ n \in 0 .. N /\ \E g : Is(g, l)
      BY <1>1, <2>2
    <3> HIDE DEF l, Is
    <3>2. \E g : Is(g, l + 1)
      BY <1>3, <3>1
    <3>3. QED
      BY <3>1, <3>2
  <2> HIDE DEF S
  <2>3. N \in 0 .. N /\ \A n \in 0 .. N : n \in S
    BY <1>1, <2>1, <2>2, Upward
  <2>4. QED
    BY <2>3 DEF S
<1>6. Is(f, N)
  BY <1>5
<1> HIDE DEF f
<1>7. f[0] = base /\ \A n \in 1 .. N : f[n] = Confirm(f[n - 1], vtx[n])
  BY <1>1, <1>6
<1>8. QED
  BY <1>2, <1>7 DEF N, base

(* DisconnectTip goes through the transactions of the block in order. *)
LEMMA ResurrectingIs ==
    ASSUME NEW view, NEW vtx, Len(vtx) \in Nat
    PROVE  /\ Resurrecting(view, vtx)[0] = pool
           /\ \A n \in 1 .. Len(vtx) : Resurrecting(view, vtx)[n] = Resurrect(Resurrecting(view, vtx)[n - 1], view, vtx[n])
<1> DEFINE N == Len(vtx)
           base == pool
           Is(g, m) == g = [n \in 0 .. m |-> IF n = 0 THEN base ELSE Resurrect(g[n - 1], view, vtx[n])]
           f == CHOOSE g : Is(g, N)
<1>1. N \in Nat
  OBVIOUS
<1>2. Resurrecting(view, vtx) = f
  BY DEF Resurrecting
<1> HIDE DEF N, base
<1>3. ASSUME NEW m \in Nat, NEW g, Is(g, m) PROVE \E e : Is(e, m + 1)
  <2> DEFINE e == [n \in 0 .. m + 1 |-> IF n = 0 THEN base ELSE Resurrect(g[n - 1], view, vtx[n])]
  <2>1. \A n \in 0 .. m : e[n] = g[n]
    BY <1>3
  <2>2. \A n \in 1 .. m + 1 : n - 1 \in 0 .. m
    OBVIOUS
  <2>3. \A n \in 0 .. m + 1 : (IF n = 0 THEN base ELSE Resurrect(e[n - 1], view, vtx[n])) = (IF n = 0 THEN base ELSE Resurrect(g[n - 1], view, vtx[n]))
    <3> HIDE DEF e
    <3>1. \A n \in 1 .. m + 1 : e[n - 1] = g[n - 1]
      BY <2>1, <2>2
    <3>2. \A n \in 0 .. m + 1 : n = 0 \/ n \in 1 .. m + 1
      OBVIOUS
    <3>3. QED
      BY <3>1, <3>2
  <2>4. e = [n \in 0 .. m + 1 |-> IF n = 0 THEN base ELSE Resurrect(e[n - 1], view, vtx[n])]
    BY <2>3, Zenon
  <2>5. QED
    BY <2>4
<1>4. \E e : Is(e, 0)
  <2> DEFINE e == [n \in 0 .. 0 |-> base]
  <2>1. e = [n \in 0 .. 0 |-> IF n = 0 THEN base ELSE Resurrect(e[n - 1], view, vtx[n])]
    OBVIOUS
  <2>2. QED
    BY <2>1
<1>5. \E g : Is(g, N)
  <2> DEFINE S == {m \in 0 .. N : \E g : Is(g, m)}
  <2>1. 0 \in S
    BY <1>1, <1>4
  <2>2. ASSUME NEW n \in 1 .. N, n - 1 \in S PROVE n \in S
    <3> DEFINE l == n - 1
    <3>1. l \in Nat /\ l + 1 = n /\ n \in 0 .. N /\ \E g : Is(g, l)
      BY <1>1, <2>2
    <3> HIDE DEF l, Is
    <3>2. \E g : Is(g, l + 1)
      BY <1>3, <3>1
    <3>3. QED
      BY <3>1, <3>2
  <2> HIDE DEF S
  <2>3. N \in 0 .. N /\ \A n \in 0 .. N : n \in S
    BY <1>1, <2>1, <2>2, Upward
  <2>4. QED
    BY <2>3 DEF S
<1>6. Is(f, N)
  BY <1>5
<1> HIDE DEF f
<1>7. f[0] = base /\ \A n \in 1 .. N : f[n] = Resurrect(f[n - 1], view, vtx[n])
  BY <1>1, <1>6
<1>8. QED
  BY <1>2, <1>7 DEF N, base

-----------------------------------------------------------------------------
(* The inputs of the pool *)

(* The transactions of a chain. *)
InChain(c) == {TxAt(c, p) : p \in Places(c)}

(* The outpoint is unspent in the view, an output of the pool, or one of a   *)
(* coinbase outside X.                                                       *)
HasInput(p, view, X, out) ==
    \/ IsAvailable(view, out)
    \/ out[1] \in p.mapTx /\ out[2] \in Spendable[out[1]]
    \/ out[1] \in CoinBase /\ out[1] \notin X /\ out[2] \in Spendable[out[1]]

(* Every transaction of the pool has its inputs. *)
HaveAll(p, view, X) == \A t \in p.mapTx \ CoinBase : \A out \in prevouts(t) : HasInput(p, view, X, out)

(* When a transaction of a connected block has been removed from the pool    *)
(* with its conflicts, the others have their inputs in the coins after it.   *)
LEMMA ConfirmHas ==
    ASSUME NEW p, PoolInv(p), NEW v, ViewOK(v), NEW X, HaveAll(p, v, X),
           NEW u \in Tx, NEW h, NEW w, Updated(v, u, h, w)
    PROVE  PoolInv(Confirm(p, u)) /\ HaveAll(Confirm(p, u), w, X \cup {u})
<1> DEFINE q == remove(p, {u})
           conflicts == {q.mapNextTx[out] : out \in prevouts(u) \cap DOMAIN q.mapNextTx} \ {u}
           D == WithDescendants(q, conflicts)
           r == remove(q, D)
<1>1. Confirm(p, u) = r
  BY DEF Confirm, removeConflicts
<1>2. PoolInv(q) /\ q.mapTx = p.mapTx \ {u}
  BY RemoveIsExact
<1> HIDE DEF q
<1>3. conflicts \subseteq D
  <2> HIDE DEF conflicts
  <2>1. QED
    BY DescendantsHold
<1>4. PoolInv(r) /\ r.mapTx = q.mapTx \ D
  <2> HIDE DEF D
  <2>1. QED
    BY <1>2, RemoveIsExact
<1> HIDE DEF D, r
<1>5. ASSUME NEW t \in r.mapTx \ CoinBase, NEW out \in prevouts(t) PROVE HasInput(r, w, X \cup {u}, out)
  <2>1. t \in p.mapTx /\ t # u /\ t \in q.mapTx /\ t \notin D /\ t \in Tx
    BY <1>2, <1>4 DEF PoolInv
  <2>2. out \in DOMAIN q.mapNextTx /\ q.mapNextTx[out] = t
    BY <1>2, <2>1 DEF PoolInv
  <2>3. out \notin prevouts(u)
    BY <1>3, <2>1, <2>2
  <2>4. out \in Tx \X Nat
    BY <2>1, PrevoutsAre
  <2>5. out[1] \in Tx /\ out[2] \in Nat /\ out = <<out[1], out[2]>>
    BY <2>4
  <2>6. Get(w, u) = Coins(u, h) /\ \A y \in Tx \ {u} : Get(w, y).vout = Get(v, y).vout \ SpentIn(u, y)
    BY DEF Updated
  <2>7. HasInput(p, v, X, out)
    BY <2>1 DEF HaveAll
  <2>8. CASE out[1] = u
    <3>1. out[2] \in Spendable[u]
      <4>1. IsAvailable(v, out) => out[2] \in Spendable[u]
        <5>1. CoinOK(u, Get(v, u))
          BY GetIsOK
        <5>2. QED
          BY <2>8, <5>1 DEF IsAvailable, CoinOK, CoinSet
      <4>2. QED
        BY <2>7, <2>8, <4>1 DEF HasInput
    <3>2. QED
      BY <2>6, <2>8, <3>1 DEF HasInput, IsAvailable, Coins
  <2>9. CASE out[1] # u
    <3>1. CASE IsAvailable(v, out)
      <4>1. out[2] \notin SpentIn(u, out[1])
        <5>1. SUFFICES ASSUME Spends(u, <<out[1], out[2]>>) PROVE FALSE
          BY DEF SpentIn
        <5>2. out \in prevouts(u)
          BY <2>5, <5>1 DEF Spends, prevouts
        <5>3. QED
          BY <2>3, <5>2
      <4>2. out[2] \in Get(v, out[1]).vout
        BY <3>1 DEF IsAvailable
      <4>3. out[2] \in Get(w, out[1]).vout
        BY <2>5, <2>6, <2>9, <4>1, <4>2
      <4>4. QED
        BY <4>3 DEF HasInput, IsAvailable
    <3>2. CASE out[1] \in p.mapTx /\ out[2] \in Spendable[out[1]]
      <4>1. out[1] \notin D
        <5> HIDE DEF conflicts
        <5>1. QED
          BY <1>2, <2>1, NoneIsLeftBehind DEF D
      <4>2. out[1] \in r.mapTx
        BY <1>2, <1>4, <2>9, <3>2, <4>1
      <4>3. QED
        BY <3>2, <4>2 DEF HasInput
    <3>3. CASE out[1] \in CoinBase /\ out[1] \notin X /\ out[2] \in Spendable[out[1]]
      BY <2>9, <3>3 DEF HasInput
    <3>4. QED
      BY <2>7, <3>1, <3>2, <3>3 DEF HasInput
  <2>10. QED
    BY <2>8, <2>9
<1>6. QED
  BY <1>1, <1>4, <1>5 DEF HaveAll

(* Views that are alike are as good to the pool. *)
LEMMA HaveAlike ==
    ASSUME NEW p, NEW v, NEW X, HaveAll(p, v, X), PoolInv(p), NEW w, Alike(v, w)
    PROVE  HaveAll(p, w, X)
<1>1. ASSUME NEW t \in p.mapTx \ CoinBase, NEW out \in prevouts(t) PROVE HasInput(p, w, X, out)
  <2>1. t \in Tx
    BY DEF PoolInv
  <2>2. out[1] \in Tx
    <3>1. out \in Tx \X Nat
      BY <2>1, PrevoutsAre
    <3>2. QED
      BY <3>1
  <2>3. Get(v, out[1]).vout = Get(w, out[1]).vout
    BY <2>2 DEF Alike, Same, IsPruned
  <2>4. HasInput(p, v, X, out)
    BY DEF HaveAll
  <2>5. QED
    BY <2>3, <2>4 DEF HasInput, IsAvailable
<1>2. QED
  BY <1>1 DEF HaveAll

(* A block added to a chain adds its transactions. *)
LEMMA InChainAppend ==
    ASSUME NEW c, ChainOK(c), NEW b, b.vtx \in Blocks
    PROVE  InChain(Append(c, b)) = InChain(c) \cup {b.vtx[i] : i \in 1 .. Len(b.vtx)}
<1> DEFINE e == Append(c, b)
           h == Len(c) + 1
<1>1. /\ Places(e) = Places(c) \cup {<<h, i>> : i \in 1 .. Len(b.vtx)}
      /\ \A p \in Places(c) : TxAt(e, p) = TxAt(c, p)
      /\ \A i \in 1 .. Len(b.vtx) : TxAt(e, <<h, i>>) = b.vtx[i]
  BY PlacesAppend
<1> HIDE DEF e, h
<1>2. ASSUME NEW t, t \in InChain(e) PROVE t \in InChain(c) \cup {b.vtx[i] : i \in 1 .. Len(b.vtx)}
  <2>1. PICK p \in Places(e) : t = TxAt(e, p)
    BY <1>2 DEF InChain
  <2>2. QED
    BY <1>1, <2>1 DEF InChain
<1>3. ASSUME NEW t, t \in InChain(c) \cup {b.vtx[i] : i \in 1 .. Len(b.vtx)} PROVE t \in InChain(e)
  <2>1. CASE t \in InChain(c)
    BY <1>1, <2>1 DEF InChain
  <2>2. CASE t \notin InChain(c)
    <3>1. PICK i \in 1 .. Len(b.vtx) : t = b.vtx[i]
      BY <1>3, <2>2
    <3>2. <<h, i>> \in Places(e) /\ TxAt(e, <<h, i>>) = t
      BY <1>1, <3>1
    <3>3. QED
      BY <3>2 DEF InChain
  <2>3. QED
    BY <2>1, <2>2
<1>4. QED
  BY <1>2, <1>3 DEF e

(* ConnectTip leaves a pool that has its inputs in the coins after the       *)
(* block.                                                                    *)
LEMMA PoolConnectedHas ==
    ASSUME LInv, PoolInv(pool), HaveAll(pool, pcoinsTip, InChain(chain)),
           NEW vtx \in Blocks, Connected(vtx).ok
    PROVE  /\ PoolInv(PoolConnected(vtx))
           /\ HaveAll(PoolConnected(vtx), Connected(vtx).view, InChain(chain) \cup {vtx[i] : i \in 1 .. Len(vtx)})
<1> DEFINE N == Len(vtx)
           h == Len(chain) + 1
           v == pcoinsTip
           c == Connecting(v, vtx, h)
           k == Confirming(vtx)
           X == [n \in 0 .. N |-> InChain(chain) \cup {vtx[i] : i \in 1 .. n}]
           S == {n \in 0 .. N : PoolInv(k[n]) /\ HaveAll(k[n], c[n].view, X[n])}
<1>1. N \in Nat /\ \A i \in 1 .. N : vtx[i] \in Tx
  BY BlockIs
<1>2. Fits(v, vtx, h)
  <2>1. ViewOK(v) /\ Len(chain) \in Nat
    BY TipIsOK
  <2>2. Connected(vtx) = ConnectBlock(v, vtx, h)
    BY DEF Connected, Height
  <2>3. h \in Nat \ {0}
    BY <2>1
  <2>4. QED
    BY <2>1, <2>2, <2>3 DEF Fits
<1>3. Connected(vtx).view = c[N].view
  BY DEF Connected, ConnectBlock, Height
<1>4. c[0].view = v
  <2>1. c[0] = [ok |-> \A i \in DOMAIN vtx : IsPruned(Get(v, vtx[i])), view |-> v, vtxundo |-> <<>>]
    BY <1>1, ConnectingIs
  <2> HIDE DEF c
  <2>2. QED
    BY <2>1
<1>5. k[0] = pool /\ \A n \in 1 .. N : k[n] = Confirm(k[n - 1], vtx[n])
  BY <1>1, ConfirmingIs
<1>6. \A n \in 0 .. N : X[n] = InChain(chain) \cup {vtx[i] : i \in 1 .. n}
  OBVIOUS
<1> HIDE DEF h, v, k, X
<1>7. 0 \in S
  <2>1. X[0] = InChain(chain)
    <3>1. X[0] = InChain(chain) \cup {vtx[i] : i \in 1 .. 0}
      BY <1>1, <1>6
    <3>2. {vtx[i] : i \in 1 .. 0} = {}
      OBVIOUS
    <3>3. QED
      BY <3>1, <3>2
  <2>2. PoolInv(k[0]) /\ HaveAll(k[0], c[0].view, X[0])
    BY <1>4, <1>5, <2>1 DEF v
  <2> HIDE DEF c
  <2>3. QED
    BY <1>1, <2>2
<1>8. ASSUME NEW n \in 1 .. N, n - 1 \in S PROVE n \in S
  <2> DEFINE x == c[n - 1].view
             y == c[n].view
             p == k[n - 1]
             u == vtx[n]
  <2>1. PoolInv(p) /\ HaveAll(p, x, X[n - 1])
    BY <1>8
  <2>2. ConnectedTo(v, vtx, h, c[n - 1], n - 1)
    <3>1. n - 1 \in 0 .. Len(vtx)
      BY <1>1
    <3>2. QED
      BY <1>2, <3>1, ConnectingAll
  <2>3. HaveInputs(x, u) /\ y = UpdateCoins(x, u, h).view
    BY <1>2, <2>2, ConnectStep
  <2>4. ViewOK(x) /\ u \in Tx /\ h \in Nat \ {0}
    BY <1>1, <1>2, <2>2 DEF ConnectedTo, Fits
  <2>5. Updated(x, u, h, y)
    <3> HIDE DEF x, y, u
    <3>1. QED
      BY <2>3, <2>4, UpdateIs
  <2>6. X[n] = X[n - 1] \cup {u} /\ k[n] = Confirm(p, u)
    <3>1. n \in 0 .. N /\ n - 1 \in 0 .. N /\ \A i : i \in 1 .. n <=> (i \in 1 .. n - 1 \/ i = n)
      BY <1>1
    <3>2. X[n] = InChain(chain) \cup {vtx[i] : i \in 1 .. n} /\ X[n - 1] = InChain(chain) \cup {vtx[i] : i \in 1 .. n - 1}
      BY <1>6, <3>1
    <3>3. X[n] = X[n - 1] \cup {u}
      BY <3>1, <3>2
    <3>4. QED
      BY <1>5, <3>3
  <2>7. PoolInv(Confirm(p, u)) /\ HaveAll(Confirm(p, u), y, X[n - 1] \cup {u})
    <3> DEFINE Z == X[n - 1]
    <3> HIDE DEF p, u, x, y, Z
    <3>1. HaveAll(p, x, Z)
      BY <2>1 DEF Z
    <3>2. PoolInv(Confirm(p, u)) /\ HaveAll(Confirm(p, u), y, Z \cup {u})
      BY <2>1, <2>4, <2>5, <3>1, ConfirmHas
    <3>3. QED
      BY <3>2 DEF Z
  <2>8. PoolInv(k[n]) /\ HaveAll(k[n], c[n].view, X[n])
    BY <2>6, <2>7
  <2> HIDE DEF c
  <2>9. QED
    BY <1>1, <2>8
<1>9. \A n \in 0 .. N : n \in S
  <2> HIDE DEF S, N
  <2>1. QED
    BY <1>1, <1>7, <1>8, Upward
<1>10. PoolInv(k[N]) /\ HaveAll(k[N], c[N].view, X[N])
  <2>1. N \in 0 .. N
    BY <1>1
  <2> HIDE DEF c
  <2>2. QED
    BY <1>9, <2>1
<1>11. QED
  <2>1. X[N] = InChain(chain) \cup {vtx[i] : i \in 1 .. N}
    <3>1. N \in 0 .. N
      BY <1>1
    <3> HIDE DEF N
    <3>2. QED
      BY <1>6, <3>1
  <2>2. QED
    BY <1>3, <1>10, <2>1 DEF PoolConnected, k

(* A transaction that AcceptToMemoryPool accepts has its inputs in the coins *)
(* or the pool.                                                              *)
LEMMA OfferedHas ==
    ASSUME NEW p, NEW view, NEW t \in Tx \ CoinBase, HaveInputs(Over(view, PoolCoins(p)), t),
           NEW out \in prevouts(t)
    PROVE  IsAvailable(view, out) \/ (out[1] \in p.mapTx /\ out[2] \in Spendable[out[1]])
<1>1. PICK i \in DOMAIN vin[t] : out = vin[t][i]
  BY DEF prevouts, ToSet
<1>2. out[2] \in Get(Over(view, PoolCoins(p)), out[1]).vout
  BY <1>1 DEF HaveInputs, IsAvailable
<1>3. Get(Over(view, PoolCoins(p)), out[1]) = IF out[1] \in DOMAIN view THEN view[out[1]] ELSE Get(PoolCoins(p), out[1])
  BY OverShows
<1>4. CASE out[1] \in DOMAIN view
  BY <1>2, <1>3, <1>4 DEF IsAvailable, Get
<1>5. CASE out[1] \notin DOMAIN view
  <2>1. out[2] \in Get(PoolCoins(p), out[1]).vout
    BY <1>2, <1>3, <1>5
  <2>2. DOMAIN PoolCoins(p) = p.mapTx /\ \A u \in p.mapTx : PoolCoins(p)[u].vout = Spendable[u]
    BY DEF PoolCoins, Coins
  <2>3. QED
    BY <2>1, <2>2 DEF Get, Empty
<1>6. QED
  BY <1>4, <1>5

(* The outpoint is an output of a transaction that DisconnectTip has yet to  *)
(* offer to the pool.                                                        *)
Pending(vtx, n, out) ==
    \E k \in n + 1 .. Len(vtx) :
        out[1] = vtx[k] /\ vtx[k] \notin CoinBase /\ out[2] \in Spendable[out[1]]

(* Every transaction of the pool has its inputs, some of them pending. *)
MayHave(p, view, X, vtx, n) ==
    \A t \in p.mapTx \ CoinBase : \A out \in prevouts(t) :
        HasInput(p, view, X, out) \/ Pending(vtx, n, out)

(* Whether a transaction of the disconnected block is accepted or not, the   *)
(* pool has its inputs but for those still pending: if it is not, its        *)
(* spenders go with it.                                                      *)
LEMMA ResurrectHas ==
    ASSUME NEW p, PoolInv(p), NEW view, NEW X, NEW vtx \in Blocks, NEW n \in 1 .. Len(vtx),
           MayHave(p, view, X, vtx, n - 1)
    PROVE  PoolInv(Resurrect(p, view, vtx[n])) /\ MayHave(Resurrect(p, view, vtx[n]), view, X, vtx, n)
<1> DEFINE u == vtx[n]
           r == Resurrect(p, view, u)
<1>1. u \in Tx /\ Len(vtx) \in Nat
  BY BlockIs
<1>2. ASSUME NEW t \in p.mapTx \ CoinBase, NEW out \in prevouts(t)
      PROVE  \/ HasInput(p, view, X, out) \/ Pending(vtx, n, out)
             \/ out[1] = u /\ u \notin CoinBase /\ out[2] \in Spendable[u]
  <2>1. HasInput(p, view, X, out) \/ Pending(vtx, n - 1, out)
    BY DEF MayHave
  <2>2. SUFFICES ASSUME Pending(vtx, n - 1, out)
                 PROVE  Pending(vtx, n, out) \/ (out[1] = u /\ u \notin CoinBase /\ out[2] \in Spendable[u])
    BY <2>1
  <2>3. PICK k \in n - 1 + 1 .. Len(vtx) : out[1] = vtx[k] /\ vtx[k] \notin CoinBase /\ out[2] \in Spendable[out[1]]
    BY <2>2 DEF Pending
  <2>4. k = n \/ k \in n + 1 .. Len(vtx)
    BY <1>1
  <2>5. QED
    BY <2>3, <2>4 DEF Pending
<1> HIDE DEF u
<1>3. CASE u \in CoinBase
  <2>1. r = p
    BY <1>3 DEF Resurrect
  <2>2. MayHave(p, view, X, vtx, n)
    BY <1>2, <1>3 DEF MayHave
  <2>3. QED
    BY <2>1, <2>2 DEF u
<1>4. CASE u \notin CoinBase /\ Acceptable(p, view, u)
  <2>1. r = addUnchecked(p, u)
    BY <1>4 DEF Resurrect
  <2>2. prevouts(u) \cap DOMAIN p.mapNextTx = {} /\ HaveInputs(Over(view, PoolCoins(p)), u)
    BY <1>4 DEF Acceptable
  <2>3. PoolInv(r) /\ r.mapTx = p.mapTx \cup {u}
    BY <1>1, <2>1, <2>2, AddedIsExact
  <2> HIDE DEF r
  <2>4. ASSUME NEW t \in r.mapTx \ CoinBase, NEW out \in prevouts(t)
        PROVE  HasInput(r, view, X, out) \/ Pending(vtx, n, out)
    <3>1. CASE t = u
      <4>1. IsAvailable(view, out) \/ (out[1] \in p.mapTx /\ out[2] \in Spendable[out[1]])
        BY <1>1, <1>4, <2>2, <3>1, OfferedHas
      <4>2. QED
        BY <2>3, <4>1 DEF HasInput
    <3>2. CASE t # u
      <4>1. t \in p.mapTx \ CoinBase
        BY <2>3, <3>2
      <4>2. \/ HasInput(p, view, X, out) \/ Pending(vtx, n, out)
            \/ out[1] = u /\ u \notin CoinBase /\ out[2] \in Spendable[u]
        BY <1>2, <4>1
      <4>3. QED
        BY <2>3, <4>2 DEF HasInput
    <3>3. QED
      BY <3>1, <3>2
  <2>5. QED
    BY <2>3, <2>4 DEF MayHave, r, u
<1>5. CASE u \notin CoinBase /\ ~Acceptable(p, view, u)
  <2> DEFINE D == WithDescendants(p, {u})
  <2>1. r = remove(p, D)
    BY <1>5 DEF Resurrect
  <2>2. u \in D
    BY DescendantsHold
  <2>3. PoolInv(r) /\ r.mapTx = p.mapTx \ D
    <3> HIDE DEF D
    <3>1. QED
      BY <2>1, RemoveIsExact
  <2> HIDE DEF r
  <2>4. ASSUME NEW t \in r.mapTx \ CoinBase, NEW out \in prevouts(t)
        PROVE  HasInput(r, view, X, out) \/ Pending(vtx, n, out)
    <3>1. t \in p.mapTx \ D /\ t \notin CoinBase
      BY <2>3
    <3>2. out[1] \notin D
      BY <3>1, NoneIsLeftBehind
    <3>3. \/ HasInput(p, view, X, out) \/ Pending(vtx, n, out)
          \/ out[1] = u /\ u \notin CoinBase /\ out[2] \in Spendable[u]
      BY <1>2, <3>1
    <3> HIDE DEF D
    <3>4. QED
      BY <2>2, <2>3, <3>2, <3>3 DEF HasInput
  <2>5. QED
    BY <2>3, <2>4 DEF MayHave, r, u
<1>6. QED
  BY <1>3, <1>4, <1>5

(* When all have been offered nothing is pending. *)
LEMMA PoolDisconnectedHas ==
    ASSUME PoolInv(pool), NEW view, NEW X, NEW vtx \in Blocks, MayHave(pool, view, X, vtx, 0)
    PROVE  PoolInv(PoolDisconnected(view, vtx)) /\ HaveAll(PoolDisconnected(view, vtx), view, X)
<1> DEFINE N == Len(vtx)
           k == Resurrecting(view, vtx)
           S == {n \in 0 .. N : PoolInv(k[n]) /\ MayHave(k[n], view, X, vtx, n)}
<1>1. N \in Nat
  BY BlockIs
<1>2. k[0] = pool /\ \A n \in 1 .. N : k[n] = Resurrect(k[n - 1], view, vtx[n])
  BY <1>1, ResurrectingIs
<1>3. 0 \in S
  <2>1. PoolInv(k[0]) /\ MayHave(k[0], view, X, vtx, 0)
    BY <1>2
  <2> HIDE DEF k
  <2>2. QED
    BY <1>1, <2>1
<1>4. ASSUME NEW n \in 1 .. N, n - 1 \in S PROVE n \in S
  <2> DEFINE p == k[n - 1]
  <2>1. PoolInv(p) /\ MayHave(p, view, X, vtx, n - 1)
    BY <1>4
  <2>2. k[n] = Resurrect(p, view, vtx[n])
    BY <1>2
  <2> HIDE DEF k, p
  <2>3. PoolInv(k[n]) /\ MayHave(k[n], view, X, vtx, n)
    BY <2>1, <2>2, ResurrectHas
  <2>4. QED
    BY <1>1, <2>3
<1>5. \A n \in 0 .. N : n \in S
  <2> HIDE DEF S, N
  <2>1. QED
    BY <1>1, <1>3, <1>4, Upward
<1>6. PoolInv(k[N]) /\ MayHave(k[N], view, X, vtx, N)
  <2>1. N \in 0 .. N
    BY <1>1
  <2>2. QED
    BY <1>5, <2>1
<1>7. \A out : ~Pending(vtx, N, out)
  BY <1>1 DEF Pending
<1>8. HaveAll(k[N], view, X)
  BY <1>6, <1>7 DEF MayHave, HaveAll
<1>9. QED
  BY <1>6, <1>8 DEF PoolDisconnected

(* A further block spends outputs of the transactions before it, and adds    *)
(* none.                                                                     *)
LEMMA UnspentShrinks ==
    ASSUME NEW d, ChainOK(d), NEW b, b.vtx \in Blocks, NEW t \in Tx, \A i \in 1 .. Len(b.vtx) : b.vtx[i] # t
    PROVE  Unspent(Append(d, b), t) \subseteq Unspent(d, t)
<1> DEFINE e == Append(d, b)
           h == Len(d) + 1
<1>1. /\ Places(e) = Places(d) \cup {<<h, i>> : i \in 1 .. Len(b.vtx)}
      /\ \A p \in Places(d) : TxAt(e, p) = TxAt(d, p)
      /\ \A i \in 1 .. Len(b.vtx) : TxAt(e, <<h, i>>) = b.vtx[i]
  BY PlacesAppend
<1> HIDE DEF e, h
<1>2. ASSUME NEW p \in LastPlaces(e, t) PROVE p \in LastPlaces(d, t)
  <2>1. p \in Places(e) /\ TxAt(e, p) = t /\ \A q \in Places(e) : TxAt(e, q) = t => ~Before(p, q)
    BY DEF LastPlaces
  <2>2. p \in Places(d)
    BY <1>1, <2>1
  <2>3. QED
    BY <1>1, <2>1, <2>2 DEF LastPlaces
<1>3. ASSUME NEW n \in Unspent(e, t) PROVE n \in Unspent(d, t)
  <2>1. PICK p \in LastPlaces(e, t) : \A q \in Places(e) : Before(p, q) => ~Spends(TxAt(e, q), <<t, n>>)
    BY DEF Unspent
  <2>2. \A q \in Places(d) : Before(p, q) => ~Spends(TxAt(d, q), <<t, n>>)
    BY <1>1, <2>1
  <2>3. p \in LastPlaces(d, t) /\ n \in Spendable[t]
    BY <1>2 DEF Unspent
  <2>4. QED
    BY <2>2, <2>3 DEF Unspent
<1>4. QED
  BY <1>3 DEF e

-----------------------------------------------------------------------------
(* The pool over the coins *)

(* No coinbase is twice in the chain. *)
SeenOnce ==
    \A p, q \in Places(chain) :
        TxAt(chain, p) \in CoinBase /\ TxAt(chain, p) = TxAt(chain, q) => p = q

(* Without the last block, the pool has its inputs but for those that its    *)
(* transactions will bring back.                                             *)
LEMMA TipMayHave ==
    ASSUME LInv, PoolInv(pool), HaveAll(pool, pcoinsTip, InChain(chain)), SeenOnce, chain # <<>>,
           NEW view, Shows(view, SubSeq(chain, 1, Height - 1))
    PROVE  MayHave(pool, view, InChain(SubSeq(chain, 1, Height - 1)), chain[Height].vtx, 0)
<1> DEFINE R == [vtx : Blocks, vtxundo : Seq(Seq(Nat))]
           h == Len(chain)
           d == SubSeq(chain, 1, h - 1)
           b == chain[h]
           vtx == b.vtx
           N == Len(vtx)
           X == InChain(d)
<1>1. ChainOK(chain) /\ ViewOK(pcoinsTip) /\ Shows(pcoinsTip, chain) /\ h \in Nat
  BY TipIsOK
<1>2. chain \in Seq(R)
  BY <1>1 DEF ChainOK
<1>3. h \in 1 .. Len(chain) /\ h - 1 \in 0 .. Len(chain)
  BY <1>1, <1>2
<1>4. d \in Seq(R) /\ Len(d) = h - 1
  <2> HIDE DEF R
  <2>1. QED
    BY <1>2, <1>3, Prefix
<1>5. Append(d, b) = chain
  <2> HIDE DEF R
  <2>1. QED
    BY <1>2, WholeIs
<1>6. ChainOK(d) /\ vtx \in Blocks
  BY <1>1, <1>3, <1>4, ChainIs DEF ChainOK
<1>7. Height = h /\ Shows(view, d)
  BY DEF Height
<1> HIDE DEF R, h, d, b
<1>8. /\ Places(chain) = Places(d) \cup {<<h, i>> : i \in 1 .. N}
      /\ \A p \in Places(d) : TxAt(chain, p) = TxAt(d, p) /\ p[1] < h
      /\ \A i \in 1 .. N : TxAt(chain, <<h, i>>) = vtx[i]
  <2>1. Len(d) + 1 = h
    BY <1>3, <1>4
  <2>2. /\ Places(Append(d, b)) = Places(d) \cup {<<Len(d) + 1, i>> : i \in 1 .. Len(b.vtx)}
        /\ \A p \in Places(d) : TxAt(Append(d, b), p) = TxAt(d, p) /\ p[1] < Len(d) + 1
        /\ \A i \in 1 .. Len(b.vtx) : TxAt(Append(d, b), <<Len(d) + 1, i>>) = b.vtx[i]
    BY <1>6, PlacesAppend
  <2>3. QED
    BY <1>5, <2>1, <2>2
<1>9. InChain(chain) = X \cup {vtx[i] : i \in 1 .. N}
  BY <1>5, <1>6, InChainAppend
<1>10. \A i \in 1 .. N : vtx[i] \in CoinBase => vtx[i] \notin X
  <2>1. SUFFICES ASSUME NEW i \in 1 .. N, vtx[i] \in CoinBase, vtx[i] \in X PROVE FALSE
    OBVIOUS
  <2>2. PICK p \in Places(d) : vtx[i] = TxAt(d, p)
    BY <2>1 DEF InChain
  <2>3. p \in Places(chain) /\ <<h, i>> \in Places(chain) /\ TxAt(chain, p) = vtx[i] /\ TxAt(chain, <<h, i>>) = vtx[i]
    BY <1>8, <2>2
  <2>4. p = <<h, i>>
    BY <2>1, <2>3 DEF SeenOnce
  <2>5. p[1] = h /\ p[1] < h /\ h \in Nat
    BY <1>1, <1>8, <2>4 DEF h
  <2>6. QED
    BY <2>5
<1> HIDE DEF vtx, N, X
<1>11. ASSUME NEW t \in pool.mapTx \ CoinBase, NEW out \in prevouts(t)
       PROVE  HasInput(pool, view, X, out) \/ Pending(vtx, 0, out)
  <2>1. t \in Tx
    BY DEF PoolInv
  <2>2. out \in Tx \X Nat
    BY <2>1, PrevoutsAre
  <2>3. out[1] \in Tx
    BY <2>2
  <2>4. HasInput(pool, pcoinsTip, InChain(chain), out)
    BY DEF HaveAll
  <2>5. CASE IsAvailable(pcoinsTip, out)
    <3>1. out[2] \in Unspent(chain, out[1])
      BY <1>1, <2>3, <2>5 DEF IsAvailable, Shows, IsLeft
    <3>2. out[2] \in Spendable[out[1]]
      BY <3>1 DEF Unspent
    <3>3. CASE \E i \in 1 .. N : vtx[i] = out[1]
      <4>1. PICK i \in 1 .. N : vtx[i] = out[1]
        BY <3>3
      <4>2. CASE out[1] \in CoinBase
        BY <1>10, <3>2, <4>1, <4>2 DEF HasInput
      <4>3. CASE out[1] \notin CoinBase
        <5>1. i \in 0 + 1 .. Len(vtx)
          BY DEF N
        <5>2. QED
          BY <3>2, <4>1, <4>3, <5>1 DEF Pending
      <4>4. QED
        BY <4>2, <4>3
    <3>4. CASE ~ \E i \in 1 .. N : vtx[i] = out[1]
      <4>1. \A i \in 1 .. Len(b.vtx) : b.vtx[i] # out[1]
        BY <3>4 DEF N, vtx
      <4>2. b.vtx \in Blocks
        BY <1>6 DEF vtx
      <4>3. Unspent(Append(d, b), out[1]) \subseteq Unspent(d, out[1])
        BY <1>6, <2>3, <4>1, <4>2, UnspentShrinks
      <4>4. out[2] \in Unspent(d, out[1])
        BY <1>5, <3>1, <4>3
      <4>5. IsAvailable(view, out)
        BY <1>7, <2>3, <4>4 DEF IsAvailable, Shows, IsLeft
      <4>6. QED
        BY <4>5 DEF HasInput
    <3>5. QED
      BY <3>3, <3>4
  <2>6. CASE ~IsAvailable(pcoinsTip, out)
    BY <1>9, <2>4, <2>6 DEF HasInput
  <2>7. QED
    BY <2>5, <2>6
<1>12. QED
  BY <1>7, <1>11 DEF MayHave, X, vtx, b, d


(* An empty pool needs nothing. *)
LEMMA EmptyPoolIs == PoolInv(EmptyPool) /\ \A v, X : HaveAll(EmptyPool, v, X)
BY DEF PoolInv, HaveAll, EmptyPool

(* A step of the pool is a step of the ledger or leaves it alone. *)
LEMMA LedgerStep == Next => LedgerNext \/ UNCHANGED ledger
BY DEF Next, AcceptToMemoryPool, ConnectTip, DisconnectTip, Restart, Calendar, LedgerNext

(* AcceptToMemoryPool leaves the index exact, and a pool that has its        *)
(* inputs.                                                                   *)
LEMMA AcceptedIs ==
    ASSUME PoolInv(pool), NEW t \in Tx, Acceptable(pool, pcoinsTip, t)
    PROVE  /\ PoolInv(addUnchecked(pool, t))
           /\ \A X : HaveAll(pool, pcoinsTip, X) => HaveAll(addUnchecked(pool, t), pcoinsTip, X)
<1> DEFINE r == addUnchecked(pool, t)
<1>1. /\ t \notin CoinBase => prevouts(t) \cap DOMAIN pool.mapNextTx = {}
      /\ HaveInputs(Over(pcoinsTip, PoolCoins(pool)), t)
  BY DEF Acceptable
<1>2. PoolInv(r) /\ r.mapTx = pool.mapTx \cup {t}
  BY <1>1, AddedIsExact
<1> HIDE DEF r
<1>3. ASSUME NEW X, HaveAll(pool, pcoinsTip, X), NEW u \in r.mapTx \ CoinBase, NEW out \in prevouts(u)
      PROVE  HasInput(r, pcoinsTip, X, out)
  <2>1. CASE u = t
    <3>1. t \in Tx \ CoinBase /\ out \in prevouts(t)
      BY <1>3, <2>1
    <3>2. IsAvailable(pcoinsTip, out) \/ (out[1] \in pool.mapTx /\ out[2] \in Spendable[out[1]])
      BY <1>1, <3>1, OfferedHas
    <3>3. QED
      BY <1>2, <3>2 DEF HasInput
  <2>2. CASE u # t
    <3>1. u \in pool.mapTx \ CoinBase
      BY <1>2, <2>2
    <3>2. HasInput(pool, pcoinsTip, X, out)
      BY <1>3, <3>1 DEF HaveAll
    <3>3. QED
      BY <1>2, <3>2 DEF HasInput
  <2>3. QED
    BY <2>1, <2>2
<1>4. QED
  BY <1>2, <1>3 DEF HaveAll, r

(* Removing a transaction of a connected block, and its conflicts, leaves    *)
(* the index exact.                                                          *)
LEMMA ConfirmKeeps ==
    ASSUME NEW p, PoolInv(p), NEW u
    PROVE  PoolInv(Confirm(p, u))
<1> DEFINE q == remove(p, {u})
           conflicts == {q.mapNextTx[out] : out \in prevouts(u) \cap DOMAIN q.mapNextTx} \ {u}
           D == WithDescendants(q, conflicts)
<1>1. Confirm(p, u) = remove(q, D)
  BY DEF Confirm, removeConflicts
<1>2. PoolInv(q)
  BY RemoveIsExact
<1> HIDE DEF q, D
<1>3. PoolInv(remove(q, D))
  BY <1>2, RemoveIsExact
<1>4. QED
  BY <1>1, <1>3

(* ConnectTip leaves a pool that has its inputs. *)
LEMMA ConnectTipIs ==
    ASSUME LInv, LInv', PoolInv(pool), NEW vtx \in Blocks, NEW fFlush \in BOOLEAN, ConnectTip(vtx, fFlush),
           HaveAll(pool, pcoinsTip, InChain(chain))
    PROVE  PoolInv(pool') /\ HaveAll(pool', pcoinsTip', InChain(chain'))
<1> DEFINE u == Connected(vtx)
           w == u.view
           b == [vtx |-> vtx, vtxundo |-> u.vtxundo]
           X == InChain(chain) \cup {vtx[i] : i \in 1 .. Len(vtx)}
<1>1. Height < MaxHeight /\ u.ok /\ chain' = Append(chain, b) /\ pool' = PoolConnected(vtx)
  BY DEF ConnectTip, ConnectCoins
<1>2. ChainInv(chain') /\ Shows(w, chain') /\ ViewOK(w)
  BY <1>1, ConnectedIs
<1>3. PoolInv(pool') /\ HaveAll(pool', w, X)
  BY <1>1, PoolConnectedHas
<1>4. X = InChain(chain')
  <2>1. b.vtx = vtx /\ ChainOK(chain)
    BY DEF LInv, ChainInv
  <2> HIDE DEF b
  <2>2. InChain(Append(chain, b)) = InChain(chain) \cup {b.vtx[i] : i \in 1 .. Len(b.vtx)}
    BY <2>1, InChainAppend
  <2>3. QED
    BY <1>1, <2>1, <2>2
<1>5. ViewOK(pcoinsTip') /\ Shows(pcoinsTip', chain') /\ ChainOK(chain')
  <2>1. ViewOK(cacheCoins') /\ ViewOK(coinsdb') /\ Shows(Over(cacheCoins', coinsdb'), chain') /\ ChainOK(chain')
    BY DEF LInv, CoinsInv, ChainInv
  <2>2. QED
    BY <2>1, OverIs DEF pcoinsTip
<1> HIDE DEF w, X
<1>6. Alike(w, pcoinsTip')
  <2> DEFINE c == chain'
             x == pcoinsTip'
  <2> HIDE DEF c, x
  <2>1. ViewOK(x) /\ Shows(x, c) /\ ChainOK(c) /\ ViewOK(w) /\ Shows(w, c)
    BY <1>2, <1>5 DEF c, x
  <2>2. Alike(w, x)
    BY <2>1, ShowsOnce
  <2>3. QED
    BY <2>2 DEF x
<1>7. HaveAll(pool', pcoinsTip', X)
  <2> DEFINE p == pool'
             x == pcoinsTip'
  <2> HIDE DEF p, x
  <2>1. HaveAll(p, w, X) /\ PoolInv(p) /\ Alike(w, x)
    BY <1>3, <1>6 DEF p, x
  <2>2. HaveAll(p, x, X)
    BY <2>1, HaveAlike
  <2>3. QED
    BY <2>2 DEF p, x
<1>8. QED
  BY <1>3, <1>4, <1>7

(* DisconnectTip does, whether the coins are flushed or not. *)
LEMMA DisconnectTipIs ==
    ASSUME LInv, LInv', PoolInv(pool), SeenOnce, NEW fFlush \in BOOLEAN, DisconnectTip(fFlush),
           HaveAll(pool, pcoinsTip, InChain(chain))
    PROVE  PoolInv(pool') /\ HaveAll(pool', pcoinsTip', InChain(chain'))
<1> DEFINE v == Disconnected.view
           w == Showing(v, fFlush)
           d == SubSeq(chain, 1, Height - 1)
           vtx == chain[Height].vtx
<1>1. chain # <<>> /\ chain' = d /\ pool' = PoolDisconnected(w, vtx)
  BY DEF DisconnectTip, DisconnectCoins
<1>2. Shows(v, d) /\ ViewOK(v) /\ DOMAIN pcoinsTip \subseteq DOMAIN v /\ ChainInv(d)
  BY <1>1, DisconnectedIs
<1>3. ViewOK(cacheCoins) /\ ViewOK(coinsdb)
  BY DEF LInv, CoinsInv
<1>4. vtx \in Blocks
  <2>1. ChainOK(chain) /\ Len(chain) \in Nat /\ chain \in Seq([vtx : Blocks, vtxundo : Seq(Seq(Nat))])
    BY TipIsOK DEF ChainOK
  <2>2. Height \in 1 .. Len(chain)
    BY <1>1, <2>1 DEF Height
  <2>3. QED
    BY <2>1, <2>2, ChainIs
<1> HIDE DEF v
<1>5. ViewOK(w) /\ Alike(v, w)
  BY <1>2, <1>3, ShowingIs
<1> HIDE DEF w
<1>6. Shows(w, d)
  <2> HIDE DEF d
  <2>1. QED
    BY <1>2, <1>5, ShowsAlike
<1>7. MayHave(pool, w, InChain(d), vtx, 0)
  BY <1>1, <1>6, TipMayHave
<1> HIDE DEF d, vtx
<1>8. PoolInv(pool') /\ HaveAll(pool', w, InChain(d))
  <2> DEFINE X == InChain(d)
  <2> HIDE DEF X
  <2>1. MayHave(pool, w, X, vtx, 0)
    BY <1>7 DEF X
  <2>2. PoolInv(PoolDisconnected(w, vtx)) /\ HaveAll(PoolDisconnected(w, vtx), w, X)
    BY <1>4, <2>1, PoolDisconnectedHas
  <2>3. QED
    BY <1>1, <2>2 DEF X
<1>9. ViewOK(pcoinsTip') /\ Shows(pcoinsTip', d)
  <2>1. ViewOK(cacheCoins') /\ ViewOK(coinsdb') /\ Shows(Over(cacheCoins', coinsdb'), chain')
    BY DEF LInv, CoinsInv
  <2>2. QED
    BY <1>1, <2>1, OverIs DEF pcoinsTip
<1>10. Alike(w, pcoinsTip')
  <2> DEFINE x == pcoinsTip'
  <2> HIDE DEF x
  <2>1. ViewOK(x) /\ Shows(x, d) /\ ChainOK(d)
    BY <1>2, <1>9 DEF x, ChainInv
  <2>2. Alike(w, x)
    BY <1>5, <1>6, <2>1, ShowsOnce
  <2>3. QED
    BY <2>2 DEF x
<1>11. HaveAll(pool', pcoinsTip', InChain(d))
  <2> DEFINE p == pool'
             x == pcoinsTip'
             X == InChain(d)
  <2> HIDE DEF p, x, X
  <2>1. HaveAll(p, w, X) /\ PoolInv(p) /\ Alike(w, x)
    BY <1>8, <1>10 DEF p, x, X
  <2>2. HaveAll(p, x, X)
    BY <2>1, HaveAlike
  <2>3. QED
    BY <2>2 DEF p, x, X
<1>12. QED
  BY <1>1, <1>8, <1>11

-----------------------------------------------------------------------------
(* The pool's index, whatever the chain is *)

(* Offering a transaction to the pool leaves the index exact. *)
LEMMA ResurrectKeeps ==
    ASSUME NEW p, PoolInv(p), NEW view, NEW t \in Tx
    PROVE  PoolInv(Resurrect(p, view, t))
<1>1. CASE t \in CoinBase
  BY <1>1 DEF Resurrect
<1>2. CASE t \notin CoinBase /\ Acceptable(p, view, t)
  <2>1. Resurrect(p, view, t) = addUnchecked(p, t)
    BY <1>2 DEF Resurrect
  <2>2. prevouts(t) \cap DOMAIN p.mapNextTx = {}
    BY <1>2 DEF Acceptable
  <2>3. QED
    BY <2>1, <2>2, AddedIsExact
<1>3. CASE t \notin CoinBase /\ ~Acceptable(p, view, t)
  <2> DEFINE D == WithDescendants(p, {t})
  <2>1. Resurrect(p, view, t) = remove(p, D)
    BY <1>3 DEF Resurrect
  <2> HIDE DEF D
  <2>2. QED
    BY <2>1, RemoveIsExact
<1>4. QED
  BY <1>1, <1>2, <1>3

(* ConnectTip leaves the index exact. *)
LEMMA PoolConnectedKeeps ==
    ASSUME PoolInv(pool), NEW vtx \in Blocks
    PROVE  PoolInv(PoolConnected(vtx))
<1> DEFINE N == Len(vtx)
           k == Confirming(vtx)
           S == {n \in 0 .. N : PoolInv(k[n])}
<1>1. N \in Nat
  BY BlockIs
<1>2. k[0] = pool /\ \A n \in 1 .. N : k[n] = Confirm(k[n - 1], vtx[n])
  BY <1>1, ConfirmingIs
<1> HIDE DEF k
<1>3. 0 \in S
  BY <1>1, <1>2
<1>4. ASSUME NEW n \in 1 .. N, n - 1 \in S PROVE n \in S
  <2>1. PoolInv(k[n - 1])
    BY <1>4
  <2>2. PoolInv(Confirm(k[n - 1], vtx[n]))
    BY <2>1, ConfirmKeeps
  <2>3. QED
    BY <1>1, <1>2, <2>2
<1>5. \A n \in 0 .. N : n \in S
  <2> HIDE DEF S, N
  <2>1. QED
    BY <1>1, <1>3, <1>4, Upward
<1>6. N \in 0 .. N
  BY <1>1
<1>7. QED
  BY <1>5, <1>6 DEF PoolConnected, k

(* DisconnectTip leaves the index exact. *)
LEMMA PoolDisconnectedKeeps ==
    ASSUME PoolInv(pool), NEW view, NEW vtx \in Blocks
    PROVE  PoolInv(PoolDisconnected(view, vtx))
<1> DEFINE N == Len(vtx)
           k == Resurrecting(view, vtx)
           S == {n \in 0 .. N : PoolInv(k[n])}
<1>1. N \in Nat /\ \A i \in 1 .. N : vtx[i] \in Tx
  BY BlockIs
<1>2. k[0] = pool /\ \A n \in 1 .. N : k[n] = Resurrect(k[n - 1], view, vtx[n])
  BY <1>1, ResurrectingIs
<1> HIDE DEF k
<1>3. 0 \in S
  BY <1>1, <1>2
<1>4. ASSUME NEW n \in 1 .. N, n - 1 \in S PROVE n \in S
  <2>1. PoolInv(k[n - 1]) /\ vtx[n] \in Tx
    BY <1>1, <1>4
  <2>2. PoolInv(Resurrect(k[n - 1], view, vtx[n]))
    BY <2>1, ResurrectKeeps
  <2>3. QED
    BY <1>1, <1>2, <2>2
<1>5. \A n \in 0 .. N : n \in S
  <2> HIDE DEF S, N
  <2>1. QED
    BY <1>1, <1>3, <1>4, Upward
<1>6. N \in 0 .. N
  BY <1>1
<1>7. QED
  BY <1>5, <1>6 DEF PoolDisconnected, k

(* The inductive invariant of the pool's index over that of the ledger. *)
PInv == LInv /\ PoolInv(pool) /\ bShareMoney \in Seasons

(* The tip is a block, which DisconnectTip offers to the pool. *)
LEMMA TipIsABlock ==
    ASSUME LInv, chain # <<>>
    PROVE  chain[Height].vtx \in Blocks
<1>1. ChainOK(chain) /\ Len(chain) \in Nat /\ chain \in Seq([vtx : Blocks, vtxundo : Seq(Seq(Nat))])
  BY TipIsOK DEF ChainOK
<1>2. Height \in 1 .. Len(chain)
  BY <1>1 DEF Height
<1>3. QED
  BY <1>1, <1>2, ChainIs

(* The invariant holds when the node starts. *)
LEMMA PoolInit == Init => PInv
<1>1. PoolInv(EmptyPool)
  BY EmptyPoolIs
<1>2. QED
  BY <1>1, InitIs DEF Init, PInv

(* Every step of the pool preserves the invariant of the ledger. *)
LEMMA LedgerKept == LInv /\ [Next]_vars => LInv'
BY LedgerStep, StepIs DEF vars

(* Every step of the pool preserves the invariant of the index. *)
LEMMA PoolStep == PInv /\ [Next]_vars => PInv'
<1> SUFFICES ASSUME PInv, [Next]_vars PROVE PInv'
  OBVIOUS
<1>1. LInv /\ PoolInv(pool) /\ bShareMoney \in Seasons /\ LInv'
  BY LedgerKept DEF PInv
<1>2. ASSUME NEW t \in Tx, AcceptToMemoryPool(t) PROVE PInv'
  <2>1. Acceptable(pool, pcoinsTip, t) /\ pool' = addUnchecked(pool, t) /\ bShareMoney' = bShareMoney
    BY <1>2 DEF AcceptToMemoryPool
  <2>2. PoolInv(addUnchecked(pool, t))
    BY <1>1, <2>1, AcceptedIs
  <2>3. QED
    BY <1>1, <2>1, <2>2 DEF PInv
<1>3. ASSUME NEW fFlush \in BOOLEAN, NEW vtx \in Blocks, ConnectTip(vtx, fFlush) PROVE PInv'
  <2>1. pool' = PoolConnected(vtx) /\ bShareMoney' = bShareMoney
    BY <1>3 DEF ConnectTip
  <2>2. PoolInv(PoolConnected(vtx))
    BY <1>1, PoolConnectedKeeps
  <2>3. QED
    BY <1>1, <2>1, <2>2 DEF PInv
<1>4. ASSUME NEW fFlush \in BOOLEAN, DisconnectTip(fFlush) PROVE PInv'
  <2> DEFINE w == Showing(Disconnected.view, fFlush)
  <2>1. pool' = PoolDisconnected(w, chain[Height].vtx) /\ bShareMoney' = bShareMoney /\ chain # <<>>
    BY <1>4 DEF DisconnectTip, DisconnectCoins
  <2>2. chain[Height].vtx \in Blocks
    BY <1>1, <2>1, TipIsABlock
  <2> HIDE DEF w
  <2>3. PoolInv(PoolDisconnected(w, chain[Height].vtx))
    BY <1>1, <2>2, PoolDisconnectedKeeps
  <2>4. QED
    BY <1>1, <2>1, <2>3 DEF PInv
<1>5. CASE Restart
  <2>1. pool' = EmptyPool /\ bShareMoney' = bShareMoney
    BY <1>5 DEF Restart
  <2>2. PoolInv(EmptyPool)
    BY EmptyPoolIs
  <2>3. QED
    BY <1>1, <2>1, <2>2 DEF PInv
<1>6. CASE Calendar
  <2>1. pool' = pool /\ bShareMoney' \in Seasons
    BY <1>6 DEF Calendar
  <2>2. QED
    BY <1>1, <2>1 DEF PInv
<1>7. CASE UNCHANGED vars
  <2>1. pool' = pool /\ bShareMoney' = bShareMoney
    BY <1>7 DEF vars
  <2>2. QED
    BY <1>1, <2>1 DEF PInv
<1>8. QED
  BY <1>2, <1>3, <1>4, <1>5, <1>6, <1>7 DEF Next

(* The invariant has the types and the exact index. *)
LEMMA PoolIsExact == PInv => PoolTypeOK /\ SpendsAreExact
<1> SUFFICES ASSUME PInv PROVE PoolTypeOK /\ SpendsAreExact
  OBVIOUS
<1>1. PoolInv(pool) /\ bShareMoney \in Seasons
  BY DEF PInv
<1>2. DOMAIN pool.mapNextTx \subseteq UNION {prevouts(t) : t \in Tx}
  <2>1. ASSUME NEW out \in DOMAIN pool.mapNextTx PROVE \E t \in Tx : out \in prevouts(t)
    BY <1>1 DEF PoolInv
  <2>2. QED
    BY <2>1
<1>3. QED
  BY <1>1, <1>2 DEF PoolInv, PoolTypeOK, SpendsAreExact

-----------------------------------------------------------------------------
(* The inputs of the pool, as long as no coinbase is repeated *)

(* The invariant of the pool's inputs over that of the index. *)
HInv == PInv /\ HaveAll(pool, pcoinsTip, InChain(chain))

(* The pool has its inputs when the node starts. *)
LEMMA InputsInit == Init => HInv
<1>1. \A v, X : HaveAll(EmptyPool, v, X)
  BY EmptyPoolIs
<1>2. QED
  BY <1>1, PoolInit DEF Init, HInv

(* Every step keeps the inputs of the pool, as long as no coinbase is twice  *)
(* in the chain.                                                             *)
LEMMA InputsStep == HInv /\ SeenOnce /\ [Next]_vars => HInv'
<1> SUFFICES ASSUME HInv, SeenOnce, [Next]_vars PROVE HInv'
  OBVIOUS
<1>1. /\ LInv /\ LInv' /\ PoolInv(pool) /\ PInv'
      /\ HaveAll(pool, pcoinsTip, InChain(chain))
  BY LedgerKept, PoolStep DEF HInv, PInv
<1>2. SUFFICES HaveAll(pool', pcoinsTip', InChain(chain'))
  BY <1>1 DEF HInv
<1>3. ASSUME UNCHANGED ledger PROVE pcoinsTip' = pcoinsTip /\ InChain(chain') = InChain(chain)
  <2>1. cacheCoins' = cacheCoins /\ coinsdb' = coinsdb /\ chain' = chain
    BY <1>3 DEF ledger
  <2>2. QED
    BY <2>1 DEF pcoinsTip
<1>4. ASSUME NEW t \in Tx, AcceptToMemoryPool(t) PROVE HaveAll(pool', pcoinsTip', InChain(chain'))
  <2>1. Acceptable(pool, pcoinsTip, t) /\ pool' = addUnchecked(pool, t) /\ UNCHANGED ledger
    BY <1>4 DEF AcceptToMemoryPool
  <2>2. HaveAll(addUnchecked(pool, t), pcoinsTip, InChain(chain))
    BY <1>1, <2>1, AcceptedIs
  <2>3. QED
    BY <1>3, <2>1, <2>2
<1>5. ASSUME NEW fFlush \in BOOLEAN, NEW vtx \in Blocks, ConnectTip(vtx, fFlush)
      PROVE  HaveAll(pool', pcoinsTip', InChain(chain'))
  BY <1>1, <1>5, ConnectTipIs
<1>6. ASSUME NEW fFlush \in BOOLEAN, DisconnectTip(fFlush) PROVE HaveAll(pool', pcoinsTip', InChain(chain'))
  BY <1>1, <1>6, DisconnectTipIs
<1>7. CASE Restart
  <2>1. pool' = EmptyPool
    BY <1>7 DEF Restart
  <2> DEFINE v == pcoinsTip'
             X == InChain(chain')
  <2> HIDE DEF v, X
  <2>2. HaveAll(EmptyPool, v, X)
    BY EmptyPoolIs
  <2>3. QED
    BY <2>1, <2>2 DEF v, X
<1>8. CASE Calendar \/ UNCHANGED vars
  <2>1. pool' = pool /\ UNCHANGED ledger
    BY <1>8 DEF Calendar, vars
  <2>2. QED
    BY <1>1, <1>3, <2>1
<1>9. QED
  BY <1>4, <1>5, <1>6, <1>7, <1>8 DEF Next

(* What is not in the chain is in no block of it. *)
LEMMA InNoBlock ==
    ASSUME NEW c, ChainOK(c), NEW t, t \notin InChain(c), NEW h \in DOMAIN c
    PROVE  t \notin ToSet(c[h].vtx)
<1>1. h \in 1 .. Len(c) /\ c[h].vtx \in Blocks
  BY ChainIs
<1>2. SUFFICES ASSUME NEW i \in DOMAIN c[h].vtx, t = c[h].vtx[i] PROVE FALSE
  BY DEF ToSet
<1>3. i \in 1 .. Len(c[h].vtx)
  BY <1>1, <1>2, BlockIs
<1>4. <<h, i>> \in Places(c)
  BY <1>1, <1>3 DEF Places
<1>5. TxAt(c, <<h, i>>) = t
  BY <1>2 DEF TxAt
<1>6. QED
  BY <1>4, <1>5 DEF InChain

(* That is what CTxMemPool::check asserts. *)
LEMMA ConsistentIs == HInv => PoolIsConsistent
<1> SUFFICES ASSUME HInv PROVE PoolIsConsistent
  OBVIOUS
<1>1. PInv /\ HaveAll(pool, pcoinsTip, InChain(chain)) /\ ChainOK(chain)
  BY DEF HInv, PInv, LInv, ChainInv
<1>2. \A t : t \notin InChain(chain) => \A h \in DOMAIN chain : t \notin ToSet(chain[h].vtx)
  BY <1>1, InNoBlock
<1>3. InputsExist
  <2>1. SUFFICES ASSUME NEW t \in pool.mapTx \ CoinBase, NEW out \in prevouts(t)
                 PROVE  \/ IsAvailable(pcoinsTip, out)
                        \/ out[1] \in pool.mapTx /\ out[2] \in Spendable[out[1]]
                        \/ out[1] \in CoinBase /\ \A h \in DOMAIN chain : out[1] \notin ToSet(chain[h].vtx)
    BY DEF InputsExist
  <2>2. HasInput(pool, pcoinsTip, InChain(chain), out)
    BY <1>1, <2>1 DEF HaveAll
  <2>3. QED
    BY <1>2, <2>2 DEF HasInput
<1>4. QED
  BY <1>1, <1>3, PoolIsExact DEF PoolIsConsistent

-----------------------------------------------------------------------------

(* The memory pool implements the ledger: whatever arrives, the chain and    *)
(* its coins only change as Ledger says, so CoinsAreTheChains and            *)
(* DisconnectIsClean hold with the pool as without it.                       *)
THEOREM LedgerIsKept == Spec => LedgerSpec
<1>1. Init => LedgerInit
  BY DEF Init
<1>2. [Next]_vars => [LedgerNext]_ledger
  BY LedgerStep DEF vars
<1>3. QED
  BY <1>1, <1>2, PTL DEF Spec, LedgerSpec

(* The invariant of the index holds in every behaviour. *)
THEOREM PoolInvariant == Spec => []PInv
BY PoolInit, PoolStep, PTL DEF Spec

(* In every behaviour no two transactions of the pool spend the same output  *)
(* and mapNextTx names the one that does, loose coinbases apart: what        *)
(* AcceptToMemoryPool and removeConflicts look conflicts up in is exact,     *)
(* over any mixture of arrivals, blocks, reorganisations and restarts.       *)
THEOREM IndexIsExactAlways == Spec => [](PoolTypeOK /\ SpendsAreExact)
BY PoolInvariant, PoolIsExact, PTL

(* In every behaviour in which no coinbase is twice in the chain, the pool   *)
(* is free of conflicts, its index is exact, and every input of it is an     *)
(* unspent output of the chain or of the pool, or of a coinbase that has     *)
(* left the chain (CTxMemPool::check).                                       *)
THEOREM PoolIsConsistentAlways == Spec /\ []SeenOnce => []PoolIsConsistent
BY InputsInit, InputsStep, ConsistentIs, PTL DEF Spec

-----------------------------------------------------------------------------
(* How coins, undo data and amounts are stored *)

(* the numbers that WriteVarInt's loop goes through, and the bytes it puts down *)
Looped(number, last, n) ==
    /\ n \in [0 .. last -> Nat] /\ n[0] = number /\ n[last] <= 127
    /\ \A k \in 1 .. last : n[k - 1] > 127 /\ n[k] = (n[k - 1] \div 128) - 1
    /\ WriteVarInt(number) = [i \in 1 .. last + 1 |-> (n[last + 1 - i] % 128) + 128 * Number(i <= last)]

(* The loop of WriteVarInt ends, and the bytes are what it has put down, the last first. *)
LEMMA WriteVarIntIs ==
    ASSUME NEW number \in Nat
    PROVE  \E last \in Nat : \E n : Looped(number, last, n)
<1> DEFINE Is(f) == f = [len \in 0 .. number |-> IF len = 0 THEN number ELSE (f[len - 1] \div 128) - 1]
           n == CHOOSE f : Is(f)
           Ends(len) == n[len] <= 127 /\ \A k \in 0 .. len - 1 : n[k] > 127
           last == CHOOSE len \in 0 .. number : Ends(len)
<1>1. WriteVarInt(number) = [i \in 1 .. last + 1 |-> (n[last + 1 - i] % 128) + 128 * Number(i <= last)]
  BY DEF WriteVarInt
<1>2. n \in [0 .. number -> Int] /\ n[0] = number /\ \A k \in 1 .. number : n[k] = (n[k - 1] \div 128) - 1
  <2> DEFINE step == [p \in (1 .. number) \X Int |-> (p[2] \div 128) - 1]
  <2>a. \A p \in (1 .. number) \X Int : (p[2] \div 128) - 1 \in Int
    <3>1. \A p \in (1 .. number) \X Int : p[2] \in Int
      OBVIOUS
    <3>2. \A x \in Int : (x \div 128) - 1 \in Int
      OBVIOUS
    <3>3. QED
      BY <3>1, <3>2
  <2>b. step \in [(1 .. number) \X Int -> Int]
    BY <2>a
  <2>1. number \in Int /\ step \in [(1 .. number) \X Int -> Int] /\ \A k \in 1 .. number, x \in Int : step[<<k, x>>] = (x \div 128) - 1
    BY <2>b
  <2> HIDE DEF step
  <2>c. PICK f : Recurs(f, number, Int, number, step)
    BY <2>1, Recursion
  <2>2. f \in [0 .. number -> Int] /\ f = [k \in 0 .. number |-> IF k = 0 THEN number ELSE step[<<k, f[k - 1]>>]]
    BY <2>c DEF Recurs
  <2>3. \A k \in 0 .. number : k = 0 \/ (k \in 1 .. number /\ f[k - 1] \in Int)
    BY <2>2
  <2>4. Is(f)
    BY <2>1, <2>2, <2>3
  <2>5. Is(n)
    BY <2>4
  <2> HIDE DEF n
  <2>6. DOMAIN n = 0 .. number /\ n[0] = number /\ \A k \in 1 .. number : n[k] = (n[k - 1] \div 128) - 1
    BY <2>5
  <2> DEFINE S == {k \in 0 .. number : n[k] \in Int}
  <2>7. 0 \in S
    BY <2>6
  <2>8. ASSUME NEW k \in 1 .. number, k - 1 \in S PROVE k \in S
    BY <2>6, <2>8
  <2>9. \A k \in 0 .. number : k \in S
    <3> HIDE DEF S
    <3>1. QED
      BY <2>7, <2>8, Upward
  <2>10. QED
    BY <2>5, <2>6, <2>9
<1> HIDE DEF n
<1>3. \E len \in 0 .. number : n[len] <= 127
  <2> SUFFICES ASSUME \A len \in 0 .. number : n[len] > 127 PROVE FALSE
    BY <1>2
  <2> DEFINE S == {k \in 0 .. number : n[k] <= number - k}
  <2>1. 0 \in S
    BY <1>2
  <2>2. ASSUME NEW k \in 1 .. number, k - 1 \in S PROVE k \in S
    <3>1. k - 1 \in 0 .. number /\ k \in 0 .. number /\ n[k - 1] \in Int /\ n[k] \in Int /\ n[k - 1] <= number - (k - 1) /\ n[k - 1] > 127
      BY <1>2, <2>2
    <3>2. n[k] = (n[k - 1] \div 128) - 1
      BY <1>2
    <3>3. QED
      BY <3>1, <3>2
  <2>3. \A k \in 0 .. number : k \in S
    <3> HIDE DEF S
    <3>1. QED
      BY <2>1, <2>2, Upward
  <2>4. QED
    BY <1>2, <2>3
<1>4. \E len \in 0 .. number : Ends(len)
  <2> DEFINE S == {len \in 0 .. number : n[len] <= 127}
  <2>1. S \in SUBSET Nat /\ S # {}
    BY <1>3
  <2>2. PICK m \in S : \A k \in S : m <= k
    <3> HIDE DEF S
    <3>1. QED
      BY <2>1, LeastNumber
  <2>3. ASSUME NEW k \in 0 .. m - 1 PROVE n[k] > 127
    <3>1. k \in 0 .. number /\ ~(m <= k)
      OBVIOUS
    <3>2. k \notin S
      BY <2>2, <3>1
    <3>3. QED
      BY <1>2, <3>1, <3>2
  <2>4. QED
    BY <2>3
<1>5. last \in 0 .. number /\ Ends(last)
  <2> HIDE DEF Ends
  <2>1. QED
    BY <1>4
<1> HIDE DEF last
<1> DEFINE f == [k \in 0 .. last |-> n[k]]
<1>6. \A k \in 0 .. last : f[k] = n[k] /\ k \in 0 .. number /\ n[k] \in Int
  BY <1>2, <1>5
<1>7. \A k \in 1 .. last : k - 1 \in 0 .. last /\ k \in 0 .. last /\ n[k - 1] > 127 /\ n[k] = (n[k - 1] \div 128) - 1
  BY <1>2, <1>5
<1>8. ASSUME NEW k \in 0 .. last PROVE n[k] \in Nat
  <2>1. CASE k = 0
    BY <1>2, <2>1
  <2>2. CASE k \in 1 .. last
    <3>1. k - 1 \in 0 .. number /\ n[k - 1] \in Int /\ n[k - 1] > 127 /\ n[k] = (n[k - 1] \div 128) - 1
      BY <1>6, <1>7, <2>2
    <3>2. QED
      BY <3>1
  <2>3. QED
    BY <2>1, <2>2
<1>9. f \in [0 .. last -> Nat]
  BY <1>8
<1> HIDE DEF f
<1>10. WriteVarInt(number) = [i \in 1 .. last + 1 |-> (f[last + 1 - i] % 128) + 128 * Number(i <= last)]
  <2>1. \A i \in 1 .. last + 1 : last + 1 - i \in 0 .. last
    BY <1>5
  <2>2. QED
    BY <1>1, <1>6, <2>1
<1>11. f[0] = number /\ f[last] <= 127 /\ \A k \in 1 .. last : f[k - 1] > 127 /\ f[k] = (f[k - 1] \div 128) - 1
  <2>1. f[0] = number /\ f[last] <= 127
    BY <1>2, <1>5, <1>6
  <2>2. \A k \in 1 .. last : f[k - 1] = n[k - 1] /\ f[k] = n[k]
    BY <1>6, <1>7
  <2>3. QED
    BY <1>7, <2>1, <2>2
<1>12. last \in Nat /\ Looped(number, last, f)
  BY <1>5, <1>9, <1>10, <1>11 DEF Looped
<1>13. QED
  BY <1>12

(* A function of the numbers up to n is a sequence of length n. *)
LEMMA IsSequence ==
    ASSUME NEW n \in Nat, NEW S, NEW w \in [1 .. n -> S]
    PROVE  w \in Seq(S) /\ Len(w) = n
<1>1. w \in Seq(S)
  BY SeqDef
<1>2. Len(w) \in Nat /\ 1 .. Len(w) = 1 .. n
  BY <1>1, LenProperties
<1>3. Len(w) = n
  BY <1>2
<1>4. QED
  BY <1>1, <1>3

(* stream is a and what comes after it *)
IsJoined(stream, a, b) == stream = a \o b

(* Streams may be put together in any order. *)
LEMMA Regrouped ==
    ASSUME NEW X, NEW a \in Seq(X), NEW b \in Seq(X), NEW c \in Seq(X),
           NEW ab, IsJoined(ab, a, b), NEW bc, IsJoined(bc, b, c), NEW s
    PROVE  IsJoined(s, ab, c) <=> IsJoined(s, a, bc)
<1>1. (a \o b) \o c = a \o (b \o c)
  BY ConcatAssociative
<1>2. QED
  BY <1>1 DEF IsJoined

(* Two streams one after the other: what there is in the first, and what is left after it. *)
LEMMA Joined ==
    ASSUME NEW V, NEW W, NEW s \in Seq(W), NEW r \in Seq(V), NEW joined, joined = s \o r
    PROVE  /\ joined \in Seq(V \cup W) /\ Len(s) \in Nat /\ Len(r) \in Nat /\ Len(joined) = Len(s) + Len(r)
           /\ \A i \in 1 .. Len(s) : joined[i] = s[i]
           /\ \A i \in 1 .. Len(r) : joined[Len(s) + i] = r[i]
           /\ SubSeq(joined, Len(s) + 1, Len(joined)) = r
<1> DEFINE U == V \cup W
<1>1. s \in Seq(U) /\ r \in Seq(U)
  <2>1. Len(s) \in Nat /\ s \in [1 .. Len(s) -> W] /\ Len(r) \in Nat /\ r \in [1 .. Len(r) -> V]
    BY LenProperties
  <2>2. s \in [1 .. Len(s) -> U] /\ r \in [1 .. Len(r) -> U]
    BY <2>1
  <2> HIDE DEF U
  <2>3. QED
    BY <2>1, <2>2, IsSequence
<1> HIDE DEF U
<1>2. Len(s) \in Nat /\ Len(r) \in Nat /\ s \o r \in Seq(U) /\ Len(s \o r) = Len(s) + Len(r)
  BY <1>1, ConcatProperties, LenProperties
<1>3. \A i \in 1 .. Len(s) + Len(r) : (s \o r)[i] = IF i <= Len(s) THEN s[i] ELSE r[i - Len(s)]
  BY <1>1, ConcatProperties
<1>4. \A i \in 1 .. Len(s) : (s \o r)[i] = s[i]
  BY <1>2, <1>3
<1>5. ASSUME NEW i \in 1 .. Len(r) PROVE (s \o r)[Len(s) + i] = r[i]
  <2>1. Len(s) + i \in 1 .. Len(s) + Len(r) /\ ~(Len(s) + i <= Len(s)) /\ Len(s) + i - Len(s) = i
    BY <1>2
  <2>2. QED
    BY <1>3, <2>1
<1>6. SubSeq(s \o r, Len(s) + 1, Len(s \o r)) = r
  <2> DEFINE q == SubSeq(s \o r, Len(s) + 1, Len(s \o r))
  <2>1. q \in Seq(U) /\ Len(q) = Len(r) /\ \A i \in 1 .. Len(r) : q[i] = (s \o r)[Len(s) + i]
    <3> DEFINE m == Len(s) + 1
               k == Len(s) + Len(r)
               t == s \o r
    <3>1. m \in 1 .. Len(t) + 1 /\ k \in m - 1 .. Len(t) /\ k - m + 1 = Len(r) /\ \A i \in 1 .. Len(r) : m + i - 1 = Len(s) + i
      BY <1>2
    <3>2. t \in Seq(U) /\ k = Len(t)
      BY <1>2
    <3> HIDE DEF m, k, t
    <3>a. \A i \in m .. k : t[i] \in U
      BY <3>1, <3>2, ElementOfSeq
    <3>b. m \in Int /\ k \in Int
      BY <1>2 DEF m, k
    <3>3. SubSeq(t, m, k) \in Seq(U) /\ Len(SubSeq(t, m, k)) = (IF m <= k THEN k - m + 1 ELSE 0) /\ \A i \in 1 .. k - m + 1 : SubSeq(t, m, k)[i] = t[m + i - 1]
      BY <3>a, <3>b, SubSeqProperties
    <3>4. Len(SubSeq(t, m, k)) = Len(r)
      BY <3>1, <3>2, <3>3, <1>2 DEF m, k
    <3>5. QED
      BY <3>1, <3>2, <3>3, <3>4 DEF t, m
  <2> HIDE DEF q
  <2>2. \A i \in 1 .. Len(r) : q[i] = r[i]
    BY <2>1, <1>5
  <2>3. q = r
    BY <2>1, <2>2, <1>1, SeqEqual
  <2>4. QED
    BY <2>3 DEF q
<1>7. QED
  BY <1>2, <1>4, <1>5, <1>6 DEF U

(* What WriteVarInt wrote, ReadVarInt reads, and leaves what comes after it. *)
LEMMA VarIntReadsBack ==
    ASSUME NEW number \in Nat, NEW V, NEW r \in Seq(V)
    PROVE  /\ WriteVarInt(number) \in Seq(Nat)
           /\ ReadVarInt(WriteVarInt(number) \o r) = [n |-> number, rest |-> r]
<1> DEFINE w == WriteVarInt(number)
           s == w \o r
<1>1. PICK end \in Nat : \E n : Looped(number, end, n)
  BY WriteVarIntIs
<1>2. PICK n : Looped(number, end, n)
  BY <1>1
<1>3. w = [i \in 1 .. end + 1 |-> (n[end + 1 - i] % 128) + 128 * Number(i <= end)]
  BY <1>2 DEF Looped
<1> HIDE DEF w
<1>4. ASSUME NEW i \in 1 .. end + 1
      PROVE  /\ end + 1 - i \in 0 .. end /\ n[end + 1 - i] \in Nat /\ w[i] = (n[end + 1 - i] % 128) + 128 * Number(i <= end)
             /\ w[i] \in Nat /\ w[i] % 128 = n[end + 1 - i] % 128 /\ (w[i] >= 128 <=> i <= end)
  <2>1. end + 1 - i \in 0 .. end
    OBVIOUS
  <2>2. n[end + 1 - i] \in Nat
    BY <1>2, <2>1 DEF Looped
  <2>3. w[i] = (n[end + 1 - i] % 128) + 128 * Number(i <= end)
    BY <1>3
  <2>4. \A x \in Nat : /\ (x % 128) + 128 \in Nat /\ ((x % 128) + 128) % 128 = x % 128 /\ (x % 128) + 128 >= 128
                        /\ (x % 128) \in Nat /\ (x % 128) % 128 = x % 128 /\ ~((x % 128) >= 128) /\ (x % 128) + 0 = x % 128
    OBVIOUS
  <2>5. CASE i <= end
    <3>1. w[i] = (n[end + 1 - i] % 128) + 128
      BY <2>3, <2>5 DEF Number
    <3>2. QED
      BY <2>1, <2>2, <2>3, <2>4, <2>5, <3>1
  <2>6. CASE ~(i <= end)
    <3>1. w[i] = (n[end + 1 - i] % 128) + 0
      BY <2>3, <2>6 DEF Number
    <3>2. QED
      BY <2>1, <2>2, <2>3, <2>4, <2>6, <3>1
  <2>7. QED
    BY <2>5, <2>6
<1>5. w \in Seq(Nat) /\ Len(w) = end + 1
  <2>1. w \in [1 .. end + 1 -> Nat]
    BY <1>3, <1>4
  <2>2. QED
    BY <2>1, IsSequence
<1>6. s \in Seq(V \cup Nat) /\ Len(s) = end + 1 + Len(r) /\ Len(r) \in Nat /\ SubSeq(s, end + 2, Len(s)) = r
      /\ \A i \in 1 .. end + 1 : s[i] = w[i]
  <2>a. s = w \o r
    OBVIOUS
  <2> HIDE DEF s
  <2>1. \A i \in 1 .. Len(w) : s[i] = w[i]
    BY <1>5, <2>a, Joined
  <2>2. s \in Seq(V \cup Nat) /\ Len(r) \in Nat /\ Len(s) = Len(w) + Len(r) /\ SubSeq(s, Len(w) + 1, Len(s)) = r
    <3>1. s \in Seq(V \cup Nat)
      BY <1>5, <2>a, Joined
    <3>2. Len(r) \in Nat
      BY LenProperties
    <3>3. Len(s) = Len(w) + Len(r)
      <4>1. w \in Seq(V \cup Nat) /\ r \in Seq(V \cup Nat)
        BY <1>5, SeqMonotonic
      <4>2. QED
        BY <2>a, <4>1, ConcatProperties
    <3>4. SubSeq(s, Len(w) + 1, Len(s)) = r
      BY <1>5, <2>a, Joined
    <3>5. QED
      BY <3>1, <3>2, <3>3, <3>4
  <2>3. Len(w) + 1 = end + 2
    BY <1>5
  <2>4. QED
    BY <1>5, <2>1, <2>2, <2>3
<1> HIDE DEF s
<1> DEFINE Ends(i) == s[i] < 128 /\ \A k \in 1 .. i - 1 : s[k] >= 128
           last == CHOOSE i \in DOMAIN s : Ends(i)
           Is(f) == f = [i \in 0 .. last |-> IF i = 0 THEN 0 ELSE f[i - 1] * 128 + (s[i] % 128) + Number(s[i] >= 128)]
           m == CHOOSE f : Is(f)
<1>7. ReadVarInt(s) = [n |-> m[last], rest |-> SubSeq(s, last + 1, Len(s))]
  BY DEF ReadVarInt
<1>8. last = end + 1
  <2>1. DOMAIN s = 1 .. end + 1 + Len(r)
    BY <1>6, LenProperties
  <2>2. end + 1 \in DOMAIN s /\ end + 1 \in 1 .. end + 1
    BY <2>1, <1>6
  <2>3. s[end + 1] < 128 /\ s[end + 1] \in Nat
    <3>1. ~(end + 1 <= end)
      OBVIOUS
    <3>2. s[end + 1] = w[end + 1] /\ w[end + 1] \in Nat /\ ~(w[end + 1] >= 128)
      BY <1>4, <1>6, <2>2, <3>1
    <3>3. QED
      BY <3>2
  <2>4. \A k \in 1 .. end : s[k] >= 128 /\ s[k] \in Nat
    <3>1. \A k \in 1 .. end : k \in 1 .. end + 1 /\ k <= end
      OBVIOUS
    <3>2. QED
      BY <3>1, <1>4, <1>6
  <2>5. Ends(end + 1)
    <3>1. (end + 1) - 1 = end
      OBVIOUS
    <3>2. QED
      BY <2>3, <2>4, <3>1
  <2>6. ASSUME NEW i \in DOMAIN s, Ends(i) PROVE i = end + 1
    <3>1. i \in Nat /\ i >= 1
      BY <2>1
    <3>2. CASE i < end + 1
      <4>1. i \in 1 .. end
        BY <3>1, <3>2
      <4>2. s[i] >= 128 /\ s[i] \in Nat /\ s[i] < 128
        BY <4>1, <2>4, <2>6
      <4>3. QED
        BY <4>2
    <3>3. CASE i > end + 1
      <4>1. end + 1 \in 1 .. i - 1
        BY <3>1, <3>3
      <4>2. s[end + 1] >= 128
        BY <4>1, <2>6
      <4>3. QED
        BY <4>2, <2>3
    <3>4. QED
      BY <3>1, <3>2, <3>3
  <2> HIDE DEF Ends
  <2>7. last \in DOMAIN s /\ Ends(last)
    BY <2>2, <2>5
  <2>8. QED
    BY <2>6, <2>7
<1> HIDE DEF last
<1>9. \A i \in 1 .. last : s[i] \in Nat /\ s[i] % 128 = n[end + 1 - i] % 128 /\ (s[i] >= 128 <=> i <= end)
  BY <1>4, <1>6, <1>8
<1>10. m[0] = 0 /\ \A i \in 1 .. last : m[i - 1] \in Nat /\ m[i] \in Nat /\ m[i] = m[i - 1] * 128 + (n[end + 1 - i] % 128) + Number(i <= end)
  <2> DEFINE add(i, x) == x * 128 + (s[i] % 128) + Number(s[i] >= 128)
             step == [p \in (1 .. last) \X Nat |-> add(p[1], p[2])]
  <2>1. \A i \in 1 .. last, x \in Nat : add(i, x) \in Nat
    BY <1>9 DEF Number
  <2>2. step \in [(1 .. last) \X Nat -> Nat] /\ \A i \in 1 .. last, x \in Nat : step[<<i, x>>] = add(i, x)
    <3> HIDE DEF add
    <3>1. \A p \in (1 .. last) \X Nat : p[1] \in 1 .. last /\ p[2] \in Nat
      OBVIOUS
    <3>2. QED
      BY <2>1, <3>1
  <2> HIDE DEF step
  <2>3. last \in Nat
    BY <1>8
  <2>4. PICK f : Recurs(f, last, Nat, 0, step)
    BY <2>2, <2>3, Recursion
  <2>5. \A k \in 0 .. last : k = 0 \/ (k \in 1 .. last /\ f[k - 1] \in Nat)
    BY <2>3, <2>4 DEF Recurs
  <2>6. Is(f)
    <3>1. f = [k \in 0 .. last |-> IF k = 0 THEN 0 ELSE step[<<k, f[k - 1]>>]]
      BY <2>4 DEF Recurs
    <3> HIDE DEF add
    <3>2. f = [k \in 0 .. last |-> IF k = 0 THEN 0 ELSE add(k, f[k - 1])]
      BY <2>2, <2>5, <3>1
    <3>3. QED
      BY <3>2 DEF add
  <2>7. Is(m)
    BY <2>6
  <2> HIDE DEF m
  <2>8. m[0] = 0 /\ \A i \in 1 .. last : m[i] = add(i, m[i - 1])
    BY <2>3, <2>7
  <2> DEFINE S == {i \in 0 .. last : m[i] \in Nat}
  <2>9. 0 \in S /\ \A i \in 1 .. last : i - 1 \in S => i \in S
    <3> HIDE DEF add
    <3>1. 0 \in 0 .. last /\ \A i \in 1 .. last : i \in 0 .. last
      BY <2>3
    <3>2. \A i \in 1 .. last : m[i - 1] \in Nat => m[i] \in Nat
      BY <2>1, <2>8
    <3>3. QED
      BY <2>8, <3>1, <3>2
  <2>10. \A i \in 0 .. last : i \in S
    <3> HIDE DEF S
    <3>1. QED
      BY <2>3, <2>9, Upward
  <2>11. \A i \in 1 .. last : m[i - 1] \in Nat /\ m[i] \in Nat
    BY <2>3, <2>10
  <2>12. \A i \in 1 .. last : add(i, m[i - 1]) = m[i - 1] * 128 + (n[end + 1 - i] % 128) + Number(i <= end)
    BY <1>9
  <2>13. QED
    BY <2>8, <2>11, <2>12
<1> HIDE DEF m
<1> DEFINE S == {j \in 0 .. end : m[j + 1] = n[end - j] + Number(j + 1 <= end)}
<1>11. 0 \in S
  <2>1. 1 \in 1 .. last /\ 1 - 1 = 0 /\ end + 1 - 1 = end /\ end - 0 = end /\ 0 + 1 = 1
    BY <1>8
  <2>2. m[1] = m[0] * 128 + (n[end] % 128) + Number(1 <= end)
    BY <1>10, <2>1
  <2>3. n[end] \in Nat /\ n[end] <= 127
    <3>1. end \in 0 .. end
      OBVIOUS
    <3>2. QED
      BY <1>2, <3>1 DEF Looped
  <2>4. n[end] % 128 = n[end]
    <3>1. \A x \in Nat : x <= 127 => x % 128 = x
      OBVIOUS
    <3>2. QED
      BY <2>3, <3>1
  <2>5. Number(1 <= end) \in Nat
    BY DEF Number
  <2>6. m[1] = n[end] + Number(1 <= end)
    <3>1. m[0] * 128 = 0
      BY <1>10
    <3>2. QED
      BY <2>2, <2>3, <2>4, <2>5, <3>1
  <2>7. QED
    BY <2>1, <2>6
<1>12. ASSUME NEW j \in 1 .. end, j - 1 \in S PROVE j \in S
  <2>1. j + 1 \in 1 .. last /\ (j + 1) - 1 = j /\ end + 1 - (j + 1) = end - j /\ (j - 1) + 1 = j /\ j <= end /\ end - (j - 1) = (end - j) + 1
        /\ (end - j) + 1 \in 1 .. end /\ (end - j) + 1 - 1 = end - j
    BY <1>8
  <2>2. m[j + 1] = m[j] * 128 + (n[end - j] % 128) + Number(j + 1 <= end)
    BY <1>10, <2>1
  <2>3. m[j] = n[(end - j) + 1] + 1
    BY <1>12, <2>1 DEF Number
  <2>4. n[(end - j) + 1] = (n[end - j] \div 128) - 1 /\ n[end - j] \in Nat
    BY <1>2, <2>1 DEF Looped
  <2>5. Number(j + 1 <= end) \in Nat
    BY DEF Number
  <2>6. m[j] * 128 + (n[end - j] % 128) = n[end - j]
    BY <2>3, <2>4
  <2>7. m[j + 1] = n[end - j] + Number(j + 1 <= end)
    BY <2>2, <2>6
  <2>8. QED
    BY <2>7
<1>13. m[last] = number
  <2>1. end \in S
    <3> HIDE DEF S
    <3>1. QED
      BY <1>11, <1>12, Upward
  <2>2. end - end = 0 /\ ~(end + 1 <= end)
    OBVIOUS
  <2>3. n[0] = number
    BY <1>2 DEF Looped
  <2>4. QED
    BY <1>8, <2>1, <2>2, <2>3 DEF Number
<1>14. QED
  <2>1. last + 1 = end + 2
    BY <1>8
  <2>2. SubSeq(s, last + 1, Len(s)) = r
    BY <1>6, <2>1
  <2>3. ReadVarInt(s) = [n |-> number, rest |-> r]
    BY <1>7, <1>13, <2>2
  <2>4. QED
    BY <1>5, <2>3 DEF w, s

(* Whatever an amount is, what CompressAmount makes of it is made that amount again. *)
LEMMA AmountReadsBack ==
    ASSUME NEW amount \in Nat
    PROVE  DecompressAmount(CompressAmount(amount)) = amount
<1>0. CASE amount = 0
  BY <1>0 DEF CompressAmount, DecompressAmount
<1>1. CASE amount # 0
  <2> DEFINE Is(f) == f = [e \in 0 .. 9 |-> IF e = 0 THEN amount ELSE f[e - 1] \div 10]
             n == CHOOSE f : Is(f)
             Ends(e) == (e = 9 \/ n[e] % 10 # 0) /\ \A d \in 0 .. e - 1 : n[d] % 10 = 0
             e == CHOOSE e \in 0 .. 9 : Ends(e)
             x == IF e < 9 THEN 1 + ((n[e] \div 10) * 9 + (n[e] % 10) - 1) * 10 + e ELSE 1 + (n[e] - 1) * 10 + 9
  <2>1. CompressAmount(amount) = x
    BY <1>1 DEF CompressAmount
  <2>2. n[0] = amount /\ \A k \in 0 .. 9 : n[k] \in Nat /\ (k # 0 => n[k] = n[k - 1] \div 10)
    <3> DEFINE step == [p \in (1 .. 9) \X Nat |-> p[2] \div 10]
    <3>1. \A p \in (1 .. 9) \X Nat : p[2] \in Nat
      OBVIOUS
    <3>2. \A y \in Nat : y \div 10 \in Nat
      OBVIOUS
    <3>3. step \in [(1 .. 9) \X Nat -> Nat] /\ \A k \in 1 .. 9, y \in Nat : step[<<k, y>>] = y \div 10
      BY <3>1, <3>2
    <3> HIDE DEF step
    <3>4. PICK f : Recurs(f, 9, Nat, amount, step)
      BY <3>3, Recursion
    <3>5. f = [k \in 0 .. 9 |-> IF k = 0 THEN amount ELSE step[<<k, f[k - 1]>>]] /\ \A k \in 0 .. 9 : k = 0 \/ (k \in 1 .. 9 /\ f[k - 1] \in Nat)
      BY <3>4 DEF Recurs
    <3>6. Is(f)
      BY <3>3, <3>5
    <3>7. Is(n)
      BY <3>6
    <3> HIDE DEF n
    <3>8. n[0] = amount /\ \A k \in 1 .. 9 : n[k] = n[k - 1] \div 10
      BY <3>7
    <3> DEFINE S == {k \in 0 .. 9 : n[k] \in Nat}
    <3>9. 0 \in S /\ \A k \in 1 .. 9 : k - 1 \in S => k \in S
      BY <3>2, <3>8
    <3>10. \A k \in 0 .. 9 : k \in S
      <4> HIDE DEF S
      <4>1. QED
        BY <3>9, Upward
    <3>11. QED
      BY <3>8, <3>10
  <2> HIDE DEF n
  <2>3. e \in 0 .. 9 /\ Ends(e)
    <3> DEFINE S == {k \in 0 .. 9 : k = 9 \/ n[k] % 10 # 0}
    <3>1. S \in SUBSET Nat /\ S # {}
      OBVIOUS
    <3>2. PICK m \in S : \A k \in S : m <= k
      <4> HIDE DEF S
      <4>1. QED
        BY <3>1, LeastNumber
    <3>3. ASSUME NEW d \in 0 .. m - 1 PROVE n[d] % 10 = 0
      <4>1. d \in 0 .. 9 /\ ~(m <= d)
        OBVIOUS
      <4>2. d \notin S
        BY <3>2, <4>1
      <4>3. QED
        BY <4>1, <4>2
    <3>4. m \in 0 .. 9 /\ Ends(m)
      BY <3>3
    <3> HIDE DEF Ends
    <3>5. QED
      BY <3>4
  <2> HIDE DEF e
  <2>4. \A k \in 1 .. e : k \in 0 .. 9 /\ k - 1 \in 0 .. 9 /\ n[k] \in Nat /\ n[k - 1] = 10 * n[k]
    <3> SUFFICES ASSUME NEW k \in 1 .. e PROVE k \in 0 .. 9 /\ k - 1 \in 0 .. 9 /\ n[k] \in Nat /\ n[k - 1] = 10 * n[k]
      OBVIOUS
    <3>1. k \in 0 .. 9 /\ k - 1 \in 0 .. e - 1 /\ k - 1 \in 0 .. 9 /\ k # 0
      BY <2>3
    <3>2. n[k - 1] % 10 = 0 /\ n[k - 1] \in Nat /\ n[k] = n[k - 1] \div 10
      BY <2>2, <2>3, <3>1
    <3>3. \A y \in Nat : y % 10 = 0 => y = 10 * (y \div 10)
      OBVIOUS
    <3>4. QED
      BY <2>2, <3>1, <3>2, <3>3
  <2>5. n[e] \in Nat /\ n[e] # 0
    <3> DEFINE S == {k \in 0 .. e : n[k] # 0}
    <3>1. 0 \in S /\ e \in Nat
      BY <1>1, <2>2, <2>3
    <3>2. \A k \in 1 .. e : k - 1 \in S => k \in S
      BY <2>4
    <3>3. \A k \in 0 .. e : k \in S
      <4> HIDE DEF S
      <4>1. QED
        BY <3>1, <3>2, Upward
    <3>4. QED
      BY <2>2, <2>3, <3>3
  <2> DEFINE y == (x - 1) \div 10
             base == IF e < 9 THEN (y \div 9) * 10 + (y % 9) + 1 ELSE y + 1
  <2>6. x # 0 /\ (x - 1) % 10 = e /\ base = n[e]
    <3>1. CASE e < 9
      <4>1. n[e] % 10 # 0
        BY <2>3, <3>1
      <4>2. PICK q \in Nat, l \in 1 .. 9 : n[e] \div 10 = q /\ n[e] % 10 = l /\ n[e] = 10 * q + l
        <5>1. \A z \in Nat : z % 10 # 0 => z \div 10 \in Nat /\ z % 10 \in 1 .. 9 /\ z = 10 * (z \div 10) + (z % 10)
          OBVIOUS
        <5>2. n[e] \div 10 \in Nat /\ n[e] % 10 \in 1 .. 9 /\ n[e] = 10 * (n[e] \div 10) + (n[e] % 10)
          BY <2>5, <4>1, <5>1
        <5> DEFINE q == n[e] \div 10
                   l == n[e] % 10
        <5>3. q \in Nat /\ l \in 1 .. 9 /\ n[e] \div 10 = q /\ n[e] % 10 = l /\ n[e] = 10 * q + l
          BY <5>2
        <5> HIDE DEF q, l
        <5>4. QED
          BY <5>3
      <4>3. x = 1 + (q * 9 + l - 1) * 10 + e
        BY <3>1, <4>2
      <4> HIDE DEF x
      <4>4. x # 0 /\ (x - 1) % 10 = e /\ y = q * 9 + l - 1
        BY <2>3, <4>3
      <4> HIDE DEF y
      <4>5. y \div 9 = q /\ y % 9 = l - 1
        BY <4>4
      <4>6. base = q * 10 + (l - 1) + 1
        BY <3>1, <4>5
      <4>7. QED
        BY <4>2, <4>4, <4>6
    <3>2. CASE ~(e < 9)
      <4>1. e = 9 /\ x = 1 + (n[e] - 1) * 10 + 9
        BY <2>3, <3>2
      <4>2. PICK z \in Nat : n[e] = z + 1
        <5>1. n[e] - 1 \in Nat /\ n[e] = (n[e] - 1) + 1
          BY <2>5
        <5>2. QED
          BY <5>1
      <4>3. x = 1 + z * 10 + 9
        BY <4>1, <4>2
      <4> HIDE DEF x
      <4>4. x # 0 /\ (x - 1) % 10 = 9 /\ y = z
        BY <4>3
      <4> HIDE DEF y
      <4>5. base = z + 1
        BY <3>2, <4>4
      <4>6. QED
        BY <4>1, <4>2, <4>4, <4>5
    <3>3. QED
      BY <3>1, <3>2
  <2> DEFINE Js(f) == f = [i \in 0 .. e |-> IF i > 0 THEN f[i - 1] * 10 ELSE base]
             m == CHOOSE f : Js(f)
  <2>7. DecompressAmount(x) = m[e]
    <3> HIDE DEF x
    <3>1. QED
      BY <2>6 DEF DecompressAmount
  <2> HIDE DEF base
  <2>8. \E f : Js(f)
    <3> DEFINE f == [i \in 0 .. e |-> n[e - i]]
    <3>1. ASSUME NEW i \in 0 .. e PROVE f[i] = IF i > 0 THEN f[i - 1] * 10 ELSE base
      <4>1. CASE i = 0
        <5>1. e - 0 = e /\ 0 \in 0 .. e /\ ~(0 > 0)
          BY <2>3
        <5>2. QED
          BY <2>6, <4>1, <5>1
      <4>2. CASE i > 0
        <5>1. i - 1 \in 0 .. e /\ e - (i - 1) = e - i + 1 /\ e - i + 1 \in 1 .. e /\ (e - i + 1) - 1 = e - i
          BY <2>3, <4>2
        <5>2. n[e - i] = 10 * n[e - i + 1] /\ n[e - i + 1] \in Nat
          BY <2>4, <5>1
        <5>3. f[i] = n[e - i] /\ f[i - 1] = n[e - i + 1]
          BY <5>1
        <5>4. f[i] = f[i - 1] * 10
          BY <5>2, <5>3
        <5>5. QED
          BY <4>2, <5>4
      <4>3. QED
        BY <2>3, <4>1, <4>2
    <3>2. f = [i \in 0 .. e |-> f[i]]
      OBVIOUS
    <3> HIDE DEF f
    <3>3. f = [i \in 0 .. e |-> IF i > 0 THEN f[i - 1] * 10 ELSE base]
      BY <3>1, <3>2
    <3>4. QED
      BY <3>3
  <2>9. m[0] = base /\ \A i \in 1 .. e : m[i] = m[i - 1] * 10
    <3>1. Js(m)
      BY <2>8
    <3> HIDE DEF m
    <3>2. QED
      BY <2>3, <3>1
  <2> HIDE DEF m
  <2> DEFINE S == {i \in 0 .. e : m[i] = n[e - i]}
  <2>10. 0 \in S
    <3>1. e - 0 = e /\ 0 \in 0 .. e
      BY <2>3
    <3>2. QED
      BY <2>6, <2>9, <3>1
  <2>11. ASSUME NEW i \in 1 .. e, i - 1 \in S PROVE i \in S
    <3>1. i \in 0 .. e /\ e - (i - 1) = e - i + 1 /\ e - i + 1 \in 1 .. e /\ (e - i + 1) - 1 = e - i
      BY <2>3
    <3>2. n[e - i] = 10 * n[e - i + 1] /\ n[e - i + 1] \in Nat
      BY <2>4, <3>1
    <3>3. m[i - 1] = n[e - i + 1] /\ m[i] = m[i - 1] * 10
      BY <2>9, <2>11, <3>1
    <3>4. QED
      BY <3>1, <3>2, <3>3
  <2>12. e \in S
    <3> HIDE DEF S
    <3>1. QED
      BY <2>3, <2>10, <2>11, Upward
  <2>13. m[e] = amount
    <3>1. e - e = 0
      BY <2>3
    <3>2. QED
      BY <2>2, <2>12, <3>1
  <2> HIDE DEF x
  <2>14. QED
    BY <2>1, <2>7, <2>13
<1>2. QED
  BY <1>0, <1>1

(* The bytes of the mask: which are not zero, and where the last of those is. *)
LEMMA MaskIs ==
    ASSUME NEW S \in SUBSET Nat, IsFiniteSet(S), NEW B, B = NonzeroBytes(S), NEW N, N = nMaskSize(S)
    PROVE  /\ B \in SUBSET Nat /\ IsFiniteSet(B) /\ N \in Nat
           /\ N > 0 => N - 1 \in B
           /\ \A b \in B : b + 1 \in 1 .. N
           /\ \A b \in Nat : chAvail(S, b) # {} <=> b \in B
           /\ \A x \in S : x \in {0, 1} \/ ((x - 2) \div 8 \in B /\ (x - 2) % 8 \in chAvail(S, (x - 2) \div 8))
<1> DEFINE T == S \ {0, 1}
           byte(x) == (x - 2) \div 8
<1>1. \A x \in T : byte(x) \in Nat /\ (x - 2) % 8 \in 0 .. 7 /\ 2 + 8 * byte(x) + ((x - 2) % 8) = x
  <2>1. ASSUME NEW x \in T PROVE byte(x) \in Nat /\ (x - 2) % 8 \in 0 .. 7 /\ 2 + 8 * byte(x) + ((x - 2) % 8) = x
    <3> DEFINE y == x - 2
    <3>1. y \in Nat /\ x = y + 2
      OBVIOUS
    <3> HIDE DEF y
    <3>2. y \div 8 \in Nat /\ y % 8 \in 0 .. 7 /\ 8 * (y \div 8) + (y % 8) = y
      BY <3>1
    <3>3. 2 + 8 * (y \div 8) + (y % 8) = x
      BY <3>1, <3>2
    <3>4. QED
      BY <3>2, <3>3 DEF y
  <2>2. QED
    BY <2>1
<1>2. B = {byte(x) : x \in T}
  BY DEF NonzeroBytes
<1> HIDE DEF byte
<1>3. B \in SUBSET Nat
  BY <1>1, <1>2
<1>4. IsFiniteSet(B)
  <2> DEFINE f == [x \in T |-> byte(x)]
  <2>1. IsFiniteSet(T)
    BY FS_Difference
  <2>2. f \in Surjection(T, B)
    <3>1. f \in [T -> B]
      BY <1>2
    <3>2. \A b \in B : \E x \in T : f[x] = b
      BY <1>2
    <3>3. QED
      BY <3>1, <3>2 DEF Surjection
  <2> HIDE DEF f, T
  <2>3. QED
    BY <2>1, <2>2, FS_Surjection
<1>5. /\ N \in Nat /\ N > 0 => N - 1 \in B
      /\ \A b \in B : b + 1 \in 1 .. N
      /\ N \in Nat
  <2>1. CASE B = {}
    <3>1. N = 0
      BY <2>1 DEF nMaskSize
    <3>2. QED
      BY <2>1, <3>1
  <2>2. CASE B # {}
    <3> DEFINE m == CHOOSE b \in B : \A c \in B : c <= b
    <3>1. \E b \in B : \A c \in B : c <= b
      BY <1>3, <1>4, <2>2, GreatestNumber
    <3>2. m \in B /\ \A c \in B : c <= m
      BY <3>1
    <3>3. N = 1 + m
      BY <2>2 DEF nMaskSize
    <3> HIDE DEF m
    <3>4. m \in Nat /\ \A b \in B : b \in Nat /\ b <= m
      BY <1>3, <3>2
    <3>5. \A b \in B : b + 1 \in 1 .. N
      BY <3>3, <3>4
    <3>6. N \in Nat /\ N - 1 = m
      BY <3>3, <3>4
    <3>7. QED
      BY <3>2, <3>5, <3>6
  <2>3. QED
    BY <2>1, <2>2
<1>6. \A x \in S : x \in {0, 1} \/ (byte(x) \in B /\ (x - 2) % 8 \in chAvail(S, byte(x)))
  <2>1. ASSUME NEW x \in T PROVE byte(x) \in B /\ (x - 2) % 8 \in chAvail(S, byte(x))
    <3>1. byte(x) \in B
      BY <1>2
    <3>2. (x - 2) % 8 \in 0 .. 7 /\ 2 + 8 * byte(x) + ((x - 2) % 8) \in S
      BY <1>1
    <3>3. QED
      BY <3>1, <3>2 DEF chAvail
  <2>2. QED
    BY <2>1
<1>7. ASSUME NEW b \in Nat PROVE chAvail(S, b) # {} <=> b \in B
  <2>1. ASSUME NEW p \in chAvail(S, b) PROVE b \in B
    <3> DEFINE x == 2 + 8 * b + p
    <3>1. p \in 0 .. 7 /\ x \in S
      BY DEF chAvail
    <3>2. x \notin {0, 1} /\ x - 2 = 8 * b + p
      BY <3>1
    <3>3. (x - 2) \div 8 = b
      BY <3>1, <3>2
    <3> HIDE DEF x
    <3>4. x \in T /\ byte(x) = b
      BY <3>1, <3>2, <3>3 DEF byte
    <3>5. QED
      BY <1>2, <3>4
  <2>2. ASSUME b \in B PROVE chAvail(S, b) # {}
    <3>1. PICK x \in T : byte(x) = b
      BY <1>2, <2>2
    <3>2. (x - 2) % 8 \in chAvail(S, b)
      BY <1>6, <3>1
    <3>3. QED
      BY <3>2
  <2>3. QED
    BY <2>1, <2>2
<1>8. QED
  BY <1>3, <1>4, <1>5, <1>6, <1>7 DEF byte

(* The mask is read to its last byte that is not zero and no further, whatever comes after it. *)
LEMMA BytesReadIs ==
    ASSUME NEW S \in SUBSET Nat, IsFiniteSet(S), NEW N, N = nMaskSize(S),
           NEW U, NEW s \in Seq(U), N <= Len(s), \A b \in 1 .. N : s[b] = chAvail(S, b - 1)
    PROVE  BytesRead(s, nMaskCode(S)) = N
<1> DEFINE B == NonzeroBytes(S)
           C(n) == {b \in 1 .. n : s[b] # {}}
           Is(n) == Cardinality(C(n)) = Cardinality(B) /\ (n > 0 => s[n] # {})
<1>1. /\ B \in SUBSET Nat /\ IsFiniteSet(B) /\ N \in Nat /\ (N > 0 => N - 1 \in B)
      /\ (\A b \in B : b + 1 \in 1 .. N) /\ \A b \in Nat : chAvail(S, b) # {} <=> b \in B
  BY MaskIs
<1>2. Len(s) \in Nat
  BY LenProperties
<1>3. BytesRead(s, nMaskCode(S)) = CHOOSE n \in 0 .. Len(s) : Is(n)
  BY DEF BytesRead, nMaskCode
<1> HIDE DEF B
<1>4. \A b \in 1 .. N : b - 1 \in Nat /\ (s[b] # {} <=> b - 1 \in B)
  BY <1>1
<1>5. ASSUME NEW n \in 0 .. Len(s) PROVE IsFiniteSet(C(n)) /\ \A m \in 0 .. n : C(m) \in SUBSET C(n)
  <2>1. IsFiniteSet(1 .. n) /\ C(n) \in SUBSET (1 .. n)
    BY <1>2, FS_Interval
  <2>2. IsFiniteSet(C(n))
    <3> HIDE DEF C
    <3>1. QED
      BY <2>1, FS_Subset
  <2>3. \A m \in 0 .. n : \A b \in 1 .. m : b \in 1 .. n
    BY <1>2
  <2>4. QED
    BY <2>2, <2>3
<1>6. Cardinality(C(N)) = Cardinality(B)
  <2> DEFINE f == [b \in B |-> b + 1]
  <2>1. f \in [B -> C(N)]
    <3>1. \A b \in B : b + 1 \in 1 .. N /\ (b + 1) - 1 = b
      BY <1>1
    <3>2. \A b \in B : b + 1 \in C(N)
      BY <3>1, <1>4
    <3>3. QED
      BY <3>2
  <2>2. \A c \in C(N) : c - 1 \in B /\ f[c - 1] = c
    BY <1>1, <1>4
  <2>3. \A a, b \in B : f[a] = f[b] => a = b
    <3>1. \A a, b \in B : a \in Nat /\ b \in Nat
      BY <1>1
    <3>2. QED
      BY <3>1
  <2>4. f \in Bijection(B, C(N))
    <3> HIDE DEF C, f
    <3>1. QED
      BY <2>1, <2>2, <2>3 DEF Bijection, Injection, Surjection, IsInjective
  <2>5. ExistsBijection(B, C(N))
    BY <2>4 DEF ExistsBijection
  <2> HIDE DEF C
  <2>6. QED
    BY <1>1, <2>5, FS_Bijection
<1>7. Is(N)
  <2>1. N > 0 => s[N] # {}
    BY <1>1, <1>4
  <2>2. QED
    BY <1>6, <2>1
<1>8. N \in 0 .. Len(s)
  BY <1>1, <1>2
<1>9. ASSUME NEW n \in 0 .. Len(s), NEW m \in 0 .. Len(s), n < m, Is(n), Is(m) PROVE FALSE
  <2>1. m \in C(m) /\ m \notin C(n)
    BY <1>9, <1>2
  <2>2. n \in 0 .. m
    BY <1>9, <1>2
  <2>3. C(n) \in SUBSET C(m) /\ IsFiniteSet(C(m))
    BY <1>5, <2>2
  <2>4. Cardinality(C(n)) = Cardinality(C(m))
    BY <1>9
  <2> HIDE DEF C
  <2>5. C(n) = C(m)
    BY <2>3, <2>4, FS_Subset
  <2>6. QED
    BY <2>1, <2>5
<1> HIDE DEF Is
<1>10. ASSUME NEW n \in 0 .. Len(s), Is(n) PROVE n = N
  <2>1. ~(n < N) /\ ~(N < n)
    BY <1>7, <1>8, <1>9, <1>10
  <2>2. QED
    BY <1>1, <1>2, <2>1
<1>11. QED
  BY <1>3, <1>7, <1>8, <1>10

(* What the code before the mask says. *)
LEMMA CodeIs ==
    ASSUME NEW c, NEW S, c.vout = S, S \in SUBSET Nat, IsFiniteSet(S), S # {},
           NEW fCoinBase \in BOOLEAN, NEW code, code = nCode(c, fCoinBase)
    PROVE  /\ code \in Nat
           /\ (code \div 1) % 2 = 1 <=> fCoinBase
           /\ (code \div 2) % 2 = 1 <=> 0 \in S
           /\ (code \div 4) % 2 = 1 <=> 1 \in S
           /\ (code \div 8) + Number(0 \notin S /\ 1 \notin S) = nMaskCode(S)
<1> DEFINE B == NonzeroBytes(S)
           none == 0 \notin S /\ 1 \notin S
           k == nMaskCode(S) - Number(none)
<1>1. nMaskCode(S) \in Nat /\ (none => nMaskCode(S) # 0)
  <2>1. /\ IsFiniteSet(B) /\ \A x \in S : x \in {0, 1} \/ (x - 2) \div 8 \in B
    BY MaskIs
  <2>2. nMaskCode(S) = Cardinality(B)
    BY DEF nMaskCode
  <2> HIDE DEF B
  <2>3. nMaskCode(S) \in Nat /\ (nMaskCode(S) = 0 => B = {})
    BY <2>1, <2>2, FS_CardinalityType, FS_EmptySet
  <2>4. none => B # {}
    <3>1. PICK x : x \in S
      OBVIOUS
    <3>2. QED
      BY <2>1, <3>1
  <2>5. QED
    BY <2>3, <2>4
<1>2. k \in Nat /\ k + Number(none) = nMaskCode(S)
  BY <1>1 DEF Number
<1>3. code = 8 * k + Number(fCoinBase) + 2 * Number(0 \in S) + 4 * Number(1 \in S)
  <2>1. ~fFirstOrSecond(c.vout) <=> none
    BY DEF fFirstOrSecond
  <2>2. Number(~fFirstOrSecond(c.vout)) = Number(none)
    BY <2>1 DEF Number
  <2>3. QED
    BY <2>2 DEF nCode
<1> HIDE DEF k
<1>4. PICK x \in 0 .. 1, y \in 0 .. 1, z \in 0 .. 1 :
          /\ x = Number(fCoinBase) /\ y = Number(0 \in S) /\ z = Number(1 \in S)
          /\ (x = 1 <=> fCoinBase) /\ (y = 1 <=> 0 \in S) /\ (z = 1 <=> 1 \in S)
  <2>1. \A b \in BOOLEAN : Number(b) \in 0 .. 1 /\ (Number(b) = 1 <=> b)
    BY DEF Number
  <2>2. (0 \in S) \in BOOLEAN /\ (1 \in S) \in BOOLEAN
    OBVIOUS
  <2>3. Number(fCoinBase) \in 0 .. 1 /\ (Number(fCoinBase) = 1 <=> fCoinBase)
    BY <2>1
  <2>4. Number(0 \in S) \in 0 .. 1 /\ (Number(0 \in S) = 1 <=> 0 \in S)
    BY DEF Number
  <2>5. Number(1 \in S) \in 0 .. 1 /\ (Number(1 \in S) = 1 <=> 1 \in S)
    BY DEF Number
  <2>6. QED
    BY <2>3, <2>4, <2>5
<1>5. code = 8 * k + x + 2 * y + 4 * z
  BY <1>3, <1>4
<1>6. code \in Nat /\ (code \div 1) % 2 = x /\ (code \div 2) % 2 = y /\ (code \div 4) % 2 = z /\ code \div 8 = k
  <2>1. code \in Nat
    BY <1>2, <1>4, <1>5
  <2>2. code \div 8 = k
    <3>a. x + 2 * y + 4 * z \in 0 .. 7
      BY <1>4
    <3>b. x \in Nat /\ 2 * y \in Nat /\ 4 * z \in Nat /\ 8 * k \in Nat
      BY <1>2, <1>4
    <3>c. \A l, m, n, o \in Nat : l + m + n + o = l + (m + n + o)
      OBVIOUS
    <3>1. x + 2 * y + 4 * z \in 0 .. 7 /\ code = 8 * k + (x + 2 * y + 4 * z)
      BY <1>5, <3>a, <3>b, <3>c
    <3>2. \A l \in Nat, m \in 0 .. 7 : (8 * l + m) \div 8 = l
      OBVIOUS
    <3>3. QED
      BY <1>2, <3>1, <3>2
  <2>3. code \div 4 = 2 * k + z
    <3>1. 2 * k + z \in Nat /\ x + 2 * y \in 0 .. 3 /\ code = 4 * (2 * k + z) + (x + 2 * y)
      BY <1>2, <1>4, <1>5
    <3>2. \A l \in Nat, m \in 0 .. 3 : (4 * l + m) \div 4 = l
      OBVIOUS
    <3>3. QED
      BY <3>1, <3>2
  <2>4. code \div 2 = 4 * k + 2 * z + y
    <3>1. 4 * k + 2 * z + y \in Nat /\ code = 2 * (4 * k + 2 * z + y) + x
      BY <1>2, <1>4, <1>5
    <3>2. \A l \in Nat, m \in 0 .. 1 : (2 * l + m) \div 2 = l
      OBVIOUS
    <3>3. QED
      BY <1>4, <3>1, <3>2
  <2>5. code \div 1 = code
    BY <2>1
  <2>6. code % 2 = x
    BY <1>2, <1>4, <1>5
  <2>7. (2 * k + z) % 2 = z
    BY <1>2, <1>4
  <2>8. (4 * k + 2 * z + y) % 2 = y
    BY <1>2, <1>4
  <2>9. QED
    BY <2>1, <2>2, <2>3, <2>4, <2>5, <2>6, <2>7, <2>8
<1>7. QED
  BY <1>2, <1>4, <1>6

(* The mask has the outputs from the third on, and no others. *)
LEMMA AvailIs ==
    ASSUME NEW S \in SUBSET Nat, IsFiniteSet(S), NEW N, N = nMaskSize(S)
    PROVE  UNION {{2 + 8 * (b - 1) + p : p \in chAvail(S, b - 1)} : b \in 1 .. N} = S \ {0, 1}
<1> DEFINE B == NonzeroBytes(S)
           byte(x) == (x - 2) \div 8
<1>1. /\ B \in SUBSET Nat /\ N \in Nat /\ \A b \in B : b + 1 \in 1 .. N
      /\ \A x \in S : x \in {0, 1} \/ (byte(x) \in B /\ (x - 2) % 8 \in chAvail(S, byte(x)))
  BY MaskIs
<1> HIDE DEF B
<1>2. ASSUME NEW b \in 1 .. N, NEW p \in chAvail(S, b - 1) PROVE 2 + 8 * (b - 1) + p \in S \ {0, 1}
  <2>1. p \in 0 .. 7 /\ 2 + 8 * (b - 1) + p \in S
    BY DEF chAvail
  <2>2. 2 + 8 * (b - 1) + p >= 2
    BY <2>1, <1>1
  <2>3. QED
    BY <2>1, <2>2
<1>3. ASSUME NEW x \in S \ {0, 1}
      PROVE  \E b \in 1 .. N : x \in {2 + 8 * (b - 1) + p : p \in chAvail(S, b - 1)}
  <2> DEFINE b == byte(x) + 1
             p == (x - 2) % 8
  <2>1. byte(x) \in B /\ p \in chAvail(S, byte(x))
    BY <1>1
  <2>2. b \in 1 .. N /\ b - 1 = byte(x)
    BY <1>1, <2>1
  <2>3. 2 + 8 * byte(x) + p = x
    <3> DEFINE y == x - 2
    <3>1. y \in Nat /\ x = y + 2
      OBVIOUS
    <3> HIDE DEF y
    <3>2. 8 * (y \div 8) + (y % 8) = y /\ y \div 8 \in Nat /\ y % 8 \in Nat
      BY <3>1
    <3>3. 2 + 8 * (y \div 8) + (y % 8) = x
      BY <3>1, <3>2
    <3>4. QED
      BY <3>3 DEF y
  <2> HIDE DEF b, p, byte
  <2>4. QED
    BY <2>1, <2>2, <2>3
<1>4. QED
  <2> DEFINE M(b) == {2 + 8 * (b - 1) + p : p \in chAvail(S, b - 1)}
  <2>1. \A b \in 1 .. N : \A x \in M(b) : x \in S \ {0, 1}
    BY <1>2
  <2>2. \A x \in S \ {0, 1} : \E b \in 1 .. N : x \in M(b)
    BY <1>3
  <2> HIDE DEF M
  <2>3. UNION {M(b) : b \in 1 .. N} = S \ {0, 1}
    BY <2>1, <2>2
  <2>4. QED
    BY <2>3 DEF M

(* Unspent coins are read back as they were written, whatever comes after them. *)
LEMMA CoinsReadBackIs ==
    ASSUME NEW c, NEW S, c.vout = S, S \in SUBSET Nat, IsFiniteSet(S), S # {}, c.nHeight \in Nat,
           NEW fCoinBase \in BOOLEAN, NEW V, NEW T \in Seq(V)
    PROVE  /\ SerializeCoins(c, fCoinBase) \in Seq(Nat \cup (SUBSET Nat) \cup {CTxOut(n) : n \in S})
           /\ Len(SerializeCoins(c, fCoinBase)) = SizeOfCoins(c, fCoinBase)
           /\ UnserializeCoins(SerializeCoins(c, fCoinBase) \o T) =
                  [vout |-> {<<n, CTxOut(n)>> : n \in S}, fCoinBase |-> fCoinBase, nHeight |-> c.nHeight, rest |-> T]
<1> DEFINE N == nMaskSize(S)
           K == Cardinality(S)
           code == nCode(c, fCoinBase)
           h == c.nHeight
           W == WriteVarInt(code)
           H == WriteVarInt(h)
           M == [b \in 1 .. N |-> chAvail(S, b - 1)]
           O == [i \in 1 .. K |-> CTxOut(InOrder(S)[i])]
           Z == {CTxOut(n) : n \in S}
           P == Nat \cup (SUBSET Nat) \cup Z
           X == P \cup V
           s == SerializeCoins(c, fCoinBase)
<1>1. s = W \o M \o O \o H
  BY DEF SerializeCoins
<1>2. N \in Nat
  BY MaskIs
<1>3. K \in Nat /\ (\A i \in 1 .. K : InOrder(S)[i] \in S) /\ \A n \in S : \E i \in 1 .. K : InOrder(S)[i] = n
  <2>1. /\ K \in Nat
        /\ \A x \in S : Rank(S, x) \in 0 .. K - 1 /\ At(S, Rank(S, x)) = x
        /\ \A n \in 0 .. K - 1 : At(S, n) \in S
    BY RankIs
  <2>2. InOrder(S) = [i \in 1 .. K |-> At(S, i - 1)]
    BY DEF InOrder
  <2> HIDE DEF K
  <2>3. \A i \in 1 .. K : InOrder(S)[i] \in S
    BY <2>1, <2>2
  <2>4. ASSUME NEW n \in S PROVE \E i \in 1 .. K : InOrder(S)[i] = n
    <3> DEFINE i == Rank(S, n) + 1
    <3>1. i \in 1 .. K /\ i - 1 = Rank(S, n)
      BY <2>1
    <3> HIDE DEF i
    <3>2. InOrder(S)[i] = n
      BY <2>1, <2>2, <3>1
    <3>3. QED
      BY <3>1, <3>2
  <2>5. QED
    BY <2>1, <2>3, <2>4
<1>4. /\ code \in Nat
      /\ (code \div 1) % 2 = 1 <=> fCoinBase
      /\ (code \div 2) % 2 = 1 <=> 0 \in S
      /\ (code \div 4) % 2 = 1 <=> 1 \in S
      /\ (code \div 8) + Number(0 \notin S /\ 1 \notin S) = nMaskCode(S)
  BY CodeIs
<1>5. SizeOfCoins(c, fCoinBase) = Len(W) + N + K + Len(H)
  BY DEF SizeOfCoins
<1> HIDE DEF N, K, code, h, s
<1>6. W \in Seq(Nat) /\ H \in Seq(Nat)
  BY <1>4, VarIntReadsBack, EmptySeq DEF h
<1>7. M \in Seq(P) /\ Len(M) = N /\ \A b \in 1 .. N : M[b] = chAvail(S, b - 1)
  <2>1. \A b \in 1 .. N : chAvail(S, b - 1) \in SUBSET Nat
    BY DEF chAvail
  <2>2. \A b \in 1 .. N : chAvail(S, b - 1) \in P
    BY <2>1
  <2> HIDE DEF P
  <2>3. M \in [1 .. N -> P] /\ \A b \in 1 .. N : M[b] = chAvail(S, b - 1)
    BY <2>2
  <2> HIDE DEF M
  <2>4. QED
    BY <1>2, <2>3, IsSequence
<1>8. O \in Seq(P) /\ Len(O) = K /\ \A i \in 1 .. K : O[i] = CTxOut(InOrder(S)[i])
  <2>1. \A i \in 1 .. K : CTxOut(InOrder(S)[i]) \in P
    <3>1. \A i \in 1 .. K : CTxOut(InOrder(S)[i]) \in Z
      BY <1>3
    <3> HIDE DEF Z
    <3>2. QED
      BY <3>1
  <2> HIDE DEF P
  <2>2. O \in [1 .. K -> P] /\ \A i \in 1 .. K : O[i] = CTxOut(InOrder(S)[i])
    BY <2>1
  <2> HIDE DEF O
  <2>3. QED
    BY <1>3, <2>2, IsSequence
<1> DEFINE Q == H \o T
           R == M \o (O \o Q)
<1>9. W \in Seq(P) /\ H \in Seq(P)
  <2>1. Nat \subseteq P
    OBVIOUS
  <2> HIDE DEF P, W, H
  <2>2. QED
    BY <1>6, <2>1, SeqMonotonic
<1> HIDE DEF M, O, W, H
<1>10. s \in Seq(P) /\ Len(s) = Len(W) + N + K + Len(H)
  <2> HIDE DEF P
  <2>1. W \o M \in Seq(P) /\ Len(W \o M) = Len(W) + N
    BY <1>7, <1>9, ConcatProperties
  <2> DEFINE A == W \o M
  <2> HIDE DEF A
  <2>2. A \in Seq(P) /\ Len(A) = Len(W) + N
    BY <2>1 DEF A
  <2>3. A \o O \in Seq(P) /\ Len(A \o O) = Len(W) + N + K
    <3>1. A \o O \in Seq(P) /\ Len(A \o O) = Len(A) + Len(O)
      BY <1>8, <2>2, ConcatProperties
    <3>2. QED
      BY <1>8, <2>2, <3>1
  <2> DEFINE D == A \o O
  <2> HIDE DEF D
  <2>4. D \in Seq(P) /\ Len(D) = Len(W) + N + K
    BY <2>3 DEF D
  <2>5. D \o H \in Seq(P) /\ Len(D \o H) = Len(W) + N + K + Len(H)
    BY <1>9, <2>4, ConcatProperties
  <2>6. s = D \o H
    BY <1>1 DEF D, A
  <2>7. QED
    BY <2>5, <2>6
<1>11. W \in Seq(X) /\ M \in Seq(X) /\ O \in Seq(X) /\ H \in Seq(X) /\ T \in Seq(X)
  <2>1. P \subseteq X /\ V \subseteq X
    OBVIOUS
  <2> HIDE DEF P, X
  <2>2. QED
    BY <1>7, <1>8, <1>9, <2>1, SeqMonotonic
<1> HIDE DEF P, X
<1>12. Q \in Seq(X) /\ O \o Q \in Seq(X) /\ R \in Seq(X) /\ M \o O \in Seq(X)
  BY <1>11, ConcatProperties
<1>13. s \o T = W \o R /\ R = (M \o O) \o Q
  <2>1. W \o M \in Seq(X) /\ (W \o M) \o O \in Seq(X)
    BY <1>11, ConcatProperties
  <2> DEFINE A == W \o M
             D == A \o O
             E == O \o Q
             J == M \o O
             F == s \o T
  <2>2. A \in Seq(X) /\ D \in Seq(X) /\ E \in Seq(X) /\ J \in Seq(X) /\ Q \in Seq(X)
    BY <1>12, <2>1
  <2>3. /\ IsJoined(A, W, M) /\ IsJoined(D, A, O) /\ IsJoined(s, D, H) /\ IsJoined(F, s, T)
        /\ IsJoined(Q, H, T) /\ IsJoined(E, O, Q) /\ IsJoined(R, M, E) /\ IsJoined(J, M, O)
    BY <1>1 DEF IsJoined
  <2> HIDE DEF A, D, E, F, J, Q, R
  <2>4. IsJoined(F, D, Q)
    BY <1>11, <2>2, <2>3, Regrouped
  <2>5. IsJoined(F, A, E)
    BY <1>11, <2>2, <2>3, <2>4, Regrouped
  <2>6. IsJoined(F, W, R)
    BY <1>11, <2>2, <2>3, <2>5, Regrouped
  <2>7. IsJoined(R, J, Q)
    BY <1>11, <2>2, <2>3, Regrouped
  <2>8. QED
    BY <2>6, <2>7 DEF F, J, IsJoined
<1>14. ReadVarInt(s \o T) = [n |-> code, rest |-> R]
  <2>1. ReadVarInt(WriteVarInt(code) \o R) = [n |-> code, rest |-> R]
    <3> HIDE DEF R
    <3>1. QED
      BY <1>4, <1>12, VarIntReadsBack
  <2> HIDE DEF R
  <2>2. QED
    BY <1>13, <2>1 DEF W
<1>15. ReadVarInt(Q) = [n |-> h, rest |-> T]
  BY VarIntReadsBack DEF Q, H, h
<1>16. /\ Len(R) \in Nat /\ N <= Len(R) /\ N + K <= Len(R)
       /\ \A b \in 1 .. N : R[b] = chAvail(S, b - 1)
       /\ \A i \in 1 .. K : R[N + i] = CTxOut(InOrder(S)[i])
       /\ SubSeq(R, N + K + 1, Len(R)) = Q
  <2> DEFINE J == M \o O
  <2> HIDE DEF R, Q
  <2>1. R = J \o Q /\ J \in Seq(X)
    BY <1>12, <1>13
  <2>2. Len(J) = N + K /\ (\A b \in 1 .. N : J[b] = M[b]) /\ \A i \in 1 .. K : J[N + i] = O[i]
    <3>1. J = M \o O
      OBVIOUS
    <3> HIDE DEF J
    <3>2. Len(J) = Len(M) + Len(O) /\ (\A i \in 1 .. Len(M) : J[i] = M[i]) /\ \A i \in 1 .. Len(O) : J[Len(M) + i] = O[i]
      BY <1>11, <3>1, Joined
    <3>3. QED
      BY <1>7, <1>8, <3>2
  <2> HIDE DEF J
  <2>3. Len(R) = Len(J) + Len(Q) /\ Len(Q) \in Nat /\ (\A i \in 1 .. Len(J) : R[i] = J[i]) /\ SubSeq(R, Len(J) + 1, Len(R)) = Q
    BY <1>12, <2>1, Joined
  <2>4. Len(R) \in Nat /\ N + K <= Len(R) /\ N <= Len(R)
    BY <1>2, <1>3, <2>2, <2>3
  <2>5. \A b \in 1 .. N : b \in 1 .. Len(J) /\ R[b] = chAvail(S, b - 1)
    <3>1. \A b \in 1 .. N : b \in 1 .. N + K
      BY <1>2, <1>3
    <3>2. \A b \in 1 .. N : b \in 1 .. Len(J) /\ R[b] = J[b] /\ J[b] = M[b]
      BY <2>2, <2>3, <3>1
    <3>3. QED
      BY <1>7, <3>2
  <2>6. \A i \in 1 .. K : N + i \in 1 .. Len(J) /\ R[N + i] = CTxOut(InOrder(S)[i])
    BY <1>2, <1>3, <1>8, <2>2, <2>3
  <2>7. QED
    BY <2>2, <2>3, <2>4, <2>5, <2>6
<1> HIDE DEF Q, R
<1>17. BytesRead(R, nMaskCode(S)) = N
  BY <1>12, <1>16, BytesReadIs DEF N
<1> DEFINE in == ReadVarInt(s \o T)
           flag(bit) == (in.n \div bit) % 2 = 1
           n == BytesRead(in.rest, (in.n \div 8) + Number(~flag(2) /\ ~flag(4)))
           vAvail == {i \in {0, 1} : flag(2 + 2 * i)} \cup UNION {{2 + 8 * (b - 1) + p : p \in in.rest[b]} : b \in 1 .. n}
           next == n + Cardinality(vAvail)
           height == ReadVarInt(SubSeq(in.rest, next + 1, Len(in.rest)))
<1>18. UnserializeCoins(s \o T) =
           [vout      |-> {<<InOrder(vAvail)[i], in.rest[n + i]>> : i \in 1 .. Cardinality(vAvail)},
            fCoinBase |-> flag(1), nHeight |-> height.n, rest |-> height.rest]
  BY DEF UnserializeCoins
<1>19. in.n = code /\ in.rest = R
  BY <1>14
<1> HIDE DEF in
<1>20. (flag(1) <=> fCoinBase) /\ (flag(2) <=> 0 \in S) /\ (flag(4) <=> 1 \in S)
  BY <1>4, <1>19
<1>21. flag(1) = fCoinBase
  BY <1>20
<1> HIDE DEF flag
<1>22. n = N
  <2>1. (~flag(2) /\ ~flag(4)) <=> (0 \notin S /\ 1 \notin S)
    BY <1>20
  <2>2. Number(~flag(2) /\ ~flag(4)) = Number(0 \notin S /\ 1 \notin S)
    BY <2>1 DEF Number
  <2>3. QED
    BY <1>4, <1>17, <1>19, <2>2
<1> HIDE DEF n
<1>23. vAvail = S
  <2>1. \A b \in 1 .. N : in.rest[b] = chAvail(S, b - 1)
    BY <1>16, <1>19
  <2> DEFINE F(b) == {2 + 8 * (b - 1) + p : p \in in.rest[b]}
             G(b) == {2 + 8 * (b - 1) + p : p \in chAvail(S, b - 1)}
  <2>2. \A b \in 1 .. N : F(b) = G(b)
    BY <2>1
  <2> HIDE DEF F, G
  <2>3. {F(b) : b \in 1 .. N} = {G(b) : b \in 1 .. N}
    BY <2>2
  <2>4. UNION {G(b) : b \in 1 .. N} = S \ {0, 1}
    BY AvailIs DEF G, N
  <2>5. UNION {F(b) : b \in 1 .. n} = S \ {0, 1}
    BY <1>22, <2>3, <2>4
  <2>6. {i \in {0, 1} : flag(2 + 2 * i)} = S \cap {0, 1}
    <3>1. 2 + 2 * 0 = 2 /\ 2 + 2 * 1 = 4
      OBVIOUS
    <3>2. \A i \in {0, 1} : flag(2 + 2 * i) <=> i \in S
      BY <1>20, <3>1
    <3>3. QED
      BY <3>2
  <2>7. vAvail = (S \cap {0, 1}) \cup (S \ {0, 1})
    BY <2>5, <2>6 DEF F
  <2>8. QED
    BY <2>7
<1> HIDE DEF vAvail
<1>24. next = N + K
  BY <1>22, <1>23 DEF K
<1>25. height.n = h /\ height.rest = T
  <2>1. SubSeq(in.rest, next + 1, Len(in.rest)) = Q
    BY <1>16, <1>19, <1>24
  <2>2. height = [n |-> h, rest |-> T]
    BY <1>15, <2>1
  <2>3. QED
    BY <2>2
<1> HIDE DEF next, height
<1>26. {<<InOrder(vAvail)[i], in.rest[n + i]>> : i \in 1 .. Cardinality(vAvail)} = {<<x, CTxOut(x)>> : x \in S}
  <2>1. \A i \in 1 .. K : in.rest[n + i] = CTxOut(InOrder(S)[i])
    BY <1>16, <1>19, <1>22
  <2>2. {<<InOrder(S)[i], in.rest[n + i]>> : i \in 1 .. K} = {<<x, CTxOut(x)>> : x \in S}
    <3> HIDE DEF n
    <3>1. \A i \in 1 .. K : <<InOrder(S)[i], in.rest[n + i]>> \in {<<x, CTxOut(x)>> : x \in S}
      BY <1>3, <2>1
    <3>2. ASSUME NEW x \in S PROVE <<x, CTxOut(x)>> \in {<<InOrder(S)[i], in.rest[n + i]>> : i \in 1 .. K}
      <4>1. PICK i \in 1 .. K : InOrder(S)[i] = x
        BY <1>3
      <4>2. <<x, CTxOut(x)>> = <<InOrder(S)[i], in.rest[n + i]>>
        BY <2>1, <4>1
      <4>3. QED
        BY <4>2
    <3>3. \A x \in S : <<x, CTxOut(x)>> \in {<<InOrder(S)[i], in.rest[n + i]>> : i \in 1 .. K}
      BY <3>2
    <3>4. QED
      BY <3>1, <3>3
  <2>3. QED
    BY <1>23, <2>2 DEF K
<1>27. UnserializeCoins(s \o T) = [vout |-> {<<x, CTxOut(x)>> : x \in S}, fCoinBase |-> fCoinBase, nHeight |-> h, rest |-> T]
  BY <1>18, <1>21, <1>25, <1>26
<1>28. QED
  BY <1>5, <1>10, <1>27 DEF s, P, Z, h

(* So is undo data. *)
LEMMA UndoReadsBackIs ==
    ASSUME NEW h \in Nat, NEW fCoinBase \in BOOLEAN, NEW txout, NEW u,
           u = [nHeight |-> h, fCoinBase |-> fCoinBase, txout |-> txout], NEW V, NEW T \in Seq(V)
    PROVE  UnserializeUndo(SerializeUndo(u) \o T) = [undo |-> u, rest |-> T]
<1> DEFINE code == h * 2 + Number(fCoinBase)
           W == WriteVarInt(code)
           X == Nat \cup {txout} \cup V
           R == <<txout>> \o T
<1>1. SerializeUndo(u) = W \o <<txout>>
  BY DEF SerializeUndo
<1>2. code \in Nat /\ code \div 2 = h /\ (code % 2 = 1 <=> fCoinBase)
  <2>1. CASE fCoinBase
    BY <2>1 DEF Number
  <2>2. CASE ~fCoinBase
    BY <2>2 DEF Number
  <2>3. QED
    BY <2>1, <2>2
<1> HIDE DEF code
<1>3. W \in Seq(X) /\ <<txout>> \in Seq(X) /\ T \in Seq(X)
  <2>1. W \in Seq(Nat)
    BY <1>2, VarIntReadsBack, EmptySeq
  <2>2. <<txout>> \in Seq({txout})
    OBVIOUS
  <2>3. Nat \subseteq X /\ {txout} \subseteq X /\ V \subseteq X
    OBVIOUS
  <2> HIDE DEF X, W
  <2>4. QED
    BY <2>1, <2>2, <2>3, SeqMonotonic
<1> HIDE DEF X
<1>4. (W \o <<txout>>) \o T = W \o R
  BY <1>3, ConcatAssociative
<1>5. R \in Seq(X) /\ R # <<>> /\ Head(R) = txout /\ Tail(R) = T
  <2>1. R \in Seq(X) /\ Len(R) = 1 + Len(T)
    BY <1>3, ConcatProperties
  <2>2. Head(R) = txout /\ Tail(R) = T
    BY <1>3
  <2>3. QED
    BY <1>3, <2>1, <2>2
<1> HIDE DEF R
<1>6. ReadVarInt(SerializeUndo(u) \o T) = [n |-> code, rest |-> R]
  BY <1>1, <1>2, <1>4, <1>5, VarIntReadsBack
<1>7. UnserializeUndo(SerializeUndo(u) \o T) =
          [undo |-> [nHeight |-> code \div 2, fCoinBase |-> code % 2 = 1, txout |-> Head(R)], rest |-> Tail(R)]
  <2>1. LET in == ReadVarInt(SerializeUndo(u) \o T)
        IN  UnserializeUndo(SerializeUndo(u) \o T) =
                [undo |-> [nHeight |-> in.n \div 2, fCoinBase |-> in.n % 2 = 1, txout |-> Head(in.rest)], rest |-> Tail(in.rest)]
    BY DEF UnserializeUndo
  <2>2. QED
    <3> DEFINE in == ReadVarInt(SerializeUndo(u) \o T)
    <3>1. in.n = code /\ in.rest = R
      BY <1>6
    <3> HIDE DEF in
    <3>2. QED
      BY <2>1, <3>1 DEF in
<1>8. (code % 2 = 1) = fCoinBase
  BY <1>2
<1>9. QED
  BY <1>2, <1>5, <1>7, <1>8

(* The coins of the database: their outputs are finitely many, and there is one. *)
LEMMA StoredCoinsAre ==
    ASSUME LedgerTypeOK, DatabaseIsAChains, NEW t \in DOMAIN coinsdb
    PROVE  /\ coinsdb[t].vout \in SUBSET Nat /\ IsFiniteSet(coinsdb[t].vout) /\ coinsdb[t].vout # {}
           /\ coinsdb[t].nHeight \in Nat
<1>1. t \in Tx /\ coinsdb[t].vout \subseteq Spendable[t] /\ coinsdb[t].nHeight \in Nat
  BY DEF LedgerTypeOK
<1>2. Spendable[t] \subseteq Nat /\ IsFiniteSet(Spendable[t])
  BY <1>1, TxAssumption, CodecAssumption
<1>3. IsFiniteSet(coinsdb[t].vout)
  BY <1>1, <1>2, FS_Subset
<1>4. coinsdb[t].vout # {}
  BY DEF DatabaseIsAChains, IsPruned
<1>5. QED
  BY <1>1, <1>2, <1>3, <1>4

(* They are read back as they were written, and so are coins, undo data and  *)
(* numbers of every shape.                                                   *)
LEMMA StoredIsRead == LedgerTypeOK /\ DatabaseIsAChains => StoredFormsReadBack
<1> SUFFICES ASSUME LedgerTypeOK, DatabaseIsAChains PROVE StoredFormsReadBack
  OBVIOUS
<1>1. CoinsReadBack
  <2> SUFFICES ASSUME NEW t \in DOMAIN coinsdb
               PROVE  UnserializeCoins(SerializeCoins(coinsdb[t], t \in CoinBase)) =
                          [vout |-> {<<n, CTxOut(n)>> : n \in coinsdb[t].vout}, rest |-> <<>>,
                           fCoinBase |-> t \in CoinBase, nHeight |-> coinsdb[t].nHeight]
    BY DEF CoinsReadBack
  <2> DEFINE c == coinsdb[t]
             S == c.vout
             b == t \in CoinBase
             s == SerializeCoins(c, b)
             P == Nat \cup (SUBSET Nat) \cup {CTxOut(n) : n \in S}
  <2>1. S \in SUBSET Nat /\ IsFiniteSet(S) /\ S # {} /\ c.nHeight \in Nat /\ b \in BOOLEAN
    BY StoredCoinsAre
  <2>2. <<>> \in Seq({})
    BY EmptySeq
  <2> HIDE DEF c, b
  <2>3. /\ s \in Seq(P)
        /\ UnserializeCoins(s \o <<>>) = [vout |-> {<<n, CTxOut(n)>> : n \in S}, fCoinBase |-> b, nHeight |-> c.nHeight, rest |-> <<>>]
    BY <2>1, <2>2, CoinsReadBackIs
  <2> HIDE DEF s, P
  <2>4. s \o <<>> = s
    BY <2>3, ConcatEmptySeq
  <2>5. QED
    BY <2>3, <2>4 DEF s, c, b
<1>2. ShapesReadBack
  <2> SUFFICES ASSUME NEW n \in Numbers, NEW fCoinBase \in BOOLEAN
      PROVE  /\ \A S \in (SUBSET Outputs) \ {{}} :
                     LET c == [vout |-> S, nHeight |-> n]
                         s == SerializeCoins(c, fCoinBase)
                     IN  /\ UnserializeCoins(s \o <<0>>) = [vout |-> {<<i, CTxOut(i)>> : i \in S}, rest |-> <<0>>,
                                                           fCoinBase |-> fCoinBase, nHeight |-> n]
                         /\ Len(s) = SizeOfCoins(c, fCoinBase)
             /\ LET u == [nHeight |-> n, fCoinBase |-> fCoinBase, txout |-> CTxOut(0)]
                IN  UnserializeUndo(SerializeUndo(u) \o <<0>>) = [undo |-> u, rest |-> <<0>>]
    BY DEF ShapesReadBack
  <2>1. n \in Nat /\ <<0>> \in Seq(Nat)
    BY CodecAssumption
  <2>2. ASSUME NEW S \in (SUBSET Outputs) \ {{}}
        PROVE  LET c == [vout |-> S, nHeight |-> n]
                   s == SerializeCoins(c, fCoinBase)
               IN  /\ UnserializeCoins(s \o <<0>>) = [vout |-> {<<i, CTxOut(i)>> : i \in S}, rest |-> <<0>>,
                                                     fCoinBase |-> fCoinBase, nHeight |-> n]
                   /\ Len(s) = SizeOfCoins(c, fCoinBase)
    <3> DEFINE c == [vout |-> S, nHeight |-> n]
    <3>1. S \in SUBSET Nat /\ IsFiniteSet(S) /\ S # {}
      BY CodecAssumption, FS_Subset
    <3>2. c.vout = S /\ c.nHeight = n
      OBVIOUS
    <3> HIDE DEF c
    <3>3. /\ Len(SerializeCoins(c, fCoinBase)) = SizeOfCoins(c, fCoinBase)
          /\ UnserializeCoins(SerializeCoins(c, fCoinBase) \o <<0>>) =
                 [vout |-> {<<i, CTxOut(i)>> : i \in S}, fCoinBase |-> fCoinBase, nHeight |-> c.nHeight, rest |-> <<0>>]
      BY <2>1, <3>1, <3>2, CoinsReadBackIs
    <3>4. QED
      BY <3>2, <3>3 DEF c
  <2>3. LET u == [nHeight |-> n, fCoinBase |-> fCoinBase, txout |-> CTxOut(0)]
        IN  UnserializeUndo(SerializeUndo(u) \o <<0>>) = [undo |-> u, rest |-> <<0>>]
    BY <2>1, UndoReadsBackIs
  <2>4. QED
    BY <2>2, <2>3
<1>3. NumbersReadBack
  <2>1. <<127, 0>> \in Seq(Nat)
    OBVIOUS
  <2>2. \A n \in Numbers : ReadVarInt(WriteVarInt(n) \o <<127, 0>>) = [n |-> n, rest |-> <<127, 0>>]
    <3> DEFINE r == <<127, 0>>
    <3> HIDE DEF r
    <3>1. \A n \in Numbers : ReadVarInt(WriteVarInt(n) \o r) = [n |-> n, rest |-> r]
      BY <2>1, CodecAssumption, VarIntReadsBack DEF r
    <3>2. QED
      BY <3>1 DEF r
  <2>3. \A n \in Amounts : DecompressAmount(CompressAmount(n)) = n
    BY CodecAssumption, AmountReadsBack
  <2>4. QED
    BY <2>2, <2>3 DEF NumbersReadBack
<1>4. QED
  BY <1>1, <1>2, <1>3 DEF StoredFormsReadBack

(* In every behaviour the coins on disk can be read back as they were, and   *)
(* so can coins and undo data of every other shape and the numbers and       *)
(* amounts in them: the codes written before and between the parts of a      *)
(* stream tell the reader where each of them ends.                           *)
THEOREM StoredFormsReadBackAlways == LedgerSpec => []StoredFormsReadBack
<1>1. CoinsAreTheChains => StoredFormsReadBack
  BY StoredIsRead DEF CoinsAreTheChains
<1>2. QED
  BY <1>1, CoinsAreTheChainsAlways, PTL
=============================================================================
